------------------------------- MODULE Uplink --------------------------------
(***************************************************************************)
(* The sending half of the Wi-Fi firmware (sead_wifi_PROJECT/user): the    *)
(* send timer of send_recv_port.c, the request logic and the connection    *)
(* callbacks of http_request.c, and the change of mode that takes the      *)
(* device to its access point and back (http_request.c, cgiwifi.c).  The   *)
(* name resolver and the TCP stack of the SDK, the server and the Wi-Fi    *)
(* network are modelled as far as the firmware can tell: they answer late, *)
(* refuse, or go away.                                                     *)
(*                                                                         *)
(* Timer and espconn callbacks run to completion, so each is one step;     *)
(* what interleaves is the order in which they come.                       *)
(***************************************************************************)
EXTENDS Naturals, Sequences

CONSTANTS
  Points,               (* data points, told apart                          *)
  Capacity,             (* max_send_buff_size                               *)
  WIFI_CONFIG_TIMEOUT,  (* requests without an address before the fallback  *)
  MaxLookups,           (* name lookups outstanding at a time               *)
  MaxInFlight,          (* requests and answers under way at a time         *)
  MaxFaults             (* how often the network misbehaves or the user     *)
                        (* changes the mode                                 *)

ASSUME UplinkAssumption ==
  /\ Capacity \in Nat \ {0}
  /\ WIFI_CONFIG_TIMEOUT \in 0 .. 255     (* connect_try is a uint8_t *)
  /\ MaxLookups \in Nat \ {0}
  /\ MaxInFlight \in Nat \ {0}
  /\ MaxFaults \in Nat

VARIABLES
  opmode,         (* 1 station, 2 access point, 3 both; kept in flash       *)
  gotip,          (* wifi_station_get_connect_status() = STATION_GOT_IP     *)
  config,         (* the settings have come since the last start            *)
  sending,        (* a transmission is being issued                         *)
  connect_try,    (* requests made without an address                       *)
  create_device,  (* the server answered 404: create the device first       *)
  queue,          (* the send ring: points waiting, oldest first            *)
  lookups,        (* name lookups whose callback is outstanding             *)
  cached,         (* the resolver has the server's address at hand          *)
  state,          (* serv_conn.state                                        *)
  link,           (* what the TCP connection really is                      *)
  requests,       (* requests on their way to the server                    *)
  responses,      (* the status codes of its answers on their way back      *)
  known,          (* the server knows the device                            *)
  faults          (* how often something went wrong, <= MaxFaults           *)

device  == <<config, sending, connect_try, create_device>>
sdk     == <<lookups, cached, state, link>>
traffic == <<requests, responses>>
vars    == <<opmode, gotip, device, queue, sdk, traffic, known, faults>>

(* The espconn states send_http_request tells apart, and the other ones.   *)
ConnStates == {"ESPCONN_NONE", "ESPCONN_WAIT", "ESPCONN_CONNECT",
               "ESPCONN_WRITE", "ESPCONN_CLOSE"}

(* "used" is a connection over which the server has answered a request.    *)
LinkStates == {"down", "opening", "up", "used"}

Get == [kind |-> "get", points |-> <<>>]
PostDevice == [kind |-> "device", points |-> <<>>]
PostData(p) == [kind |-> "data", points |-> p]

Statuses == {"404", "200", "201", "other"}

Fifo == INSTANCE LossyFifo WITH Samples <- Points

(* Something goes wrong, which it may do MaxFaults times.                  *)
Fault == faults < MaxFaults /\ faults' = faults + 1
NoFault == faults' = faults

-----------------------------------------------------------------------------
Init ==
  /\ opmode \in {1, 3}
  /\ gotip = FALSE
  /\ config = FALSE
  /\ sending = FALSE
  /\ connect_try = 0
  /\ create_device = FALSE
  /\ Fifo!Init
  /\ lookups = 0
  /\ cached = FALSE
  /\ state = "ESPCONN_NONE"
  /\ link = "down"
  /\ requests = <<>>
  /\ responses = <<>>
  /\ known \in BOOLEAN
  /\ faults = 0

(* wifi_set_opmode(mode), then system_restart(): everything but the mode   *)
(* is lost, the association with the access point too.                     *)
RestartIn(mode) ==
  /\ opmode' = mode
  /\ gotip' = FALSE
  /\ config' = FALSE
  /\ sending' = FALSE
  /\ connect_try' = 0
  /\ create_device' = FALSE
  /\ queue' = <<>>
  /\ lookups' = 0
  /\ cached' = FALSE
  /\ state' = "ESPCONN_NONE"
  /\ link' = "down"
  /\ requests' = <<>>
  /\ responses' = <<>>
  /\ UNCHANGED known

-----------------------------------------------------------------------------
(* Issuing requests (http_request.c).                                      *)

(* espconn_sent takes the request or refuses it; nobody looks at its       *)
(* result.                                                                 *)
espconn_sent(r) ==
  /\ UNCHANGED <<lookups, cached, link, responses>>
  /\ \/ /\ Len(requests) + Len(responses) < MaxInFlight
        /\ requests' = Append(requests, r)
        /\ state' = "ESPCONN_WRITE"
        /\ NoFault
     \/ Fault /\ UNCHANGED <<requests, state>>

(* network_start looks the server up whatever lookups are outstanding; an  *)
(* earlier one that took longer than a timer period counts as a fault.  A  *)
(* name the resolver has at hand is answered by the return value, which is *)
(* not used, and not by the callback.                                      *)
network_start ==
  /\ state \in {"ESPCONN_NONE", "ESPCONN_CLOSE"}
  /\ \/ cached /\ UNCHANGED lookups /\ NoFault
     \/ /\ ~cached
        /\ lookups < MaxLookups
        /\ lookups' = lookups + 1
        /\ IF lookups > 0 THEN Fault ELSE NoFault
  /\ UNCHANGED <<create_device, queue, cached, state, link, traffic>>

(* Mutant: the flag is not cleared before the device is posted.            *)
mut_post_device ==
  /\ state = "ESPCONN_CONNECT"
  /\ create_device
  /\ espconn_sent(PostDevice)
  /\ UNCHANGED <<create_device, queue>>

post_device ==
  /\ state = "ESPCONN_CONNECT"
  /\ create_device
  /\ create_device' = FALSE
  /\ espconn_sent(PostDevice)
  /\ UNCHANGED queue

(* Mutant: the settings are asked for while the connection is being opened.*)
mut_get_config ==
  /\ state \in {"ESPCONN_CONNECT", "ESPCONN_WAIT"}
  /\ ~create_device
  /\ espconn_sent(Get)
  /\ UNCHANGED <<create_device, queue>>

get_config ==
  /\ state = "ESPCONN_CONNECT"
  /\ ~create_device
  /\ espconn_sent(Get)
  /\ UNCHANGED <<create_device, queue>>

(* Mutant: the points are left in the ring until they are acknowledged.    *)
mut_package_send ==
  /\ state = "ESPCONN_CONNECT"
  /\ ~create_device
  /\ espconn_sent(PostData(queue))
  /\ UNCHANGED <<create_device, queue>>

(* package_send formats and pops every waiting point before it sends them. *)
package_send ==
  /\ state = "ESPCONN_CONNECT"
  /\ ~create_device
  /\ espconn_sent(PostData(queue))
  /\ queue' = <<>>
  /\ UNCHANGED create_device

(* A connection is being opened or the last request is still being sent.   *)
NothingToDo ==
  /\ state \in {"ESPCONN_WAIT", "ESPCONN_WRITE"}
  /\ UNCHANGED <<create_device, queue, sdk, traffic, faults>>

(* The branches on the state of the connection; data: the request carries  *)
(* the ring.                                                               *)
WithAddress(data) ==
  /\ gotip
  /\ connect_try' = 0
  /\ \/ network_start
     \/ post_device
     \/ ~data /\ get_config
     \/ data /\ package_send
     \/ NothingToDo
  /\ sending' = FALSE
  /\ UNCHANGED <<opmode, gotip, config, known>>

(* Mutant: done_sending is called only when there is an address.           *)
mut_done_WithoutAddress(data) ==
  /\ ~gotip
  /\ connect_try < WIFI_CONFIG_TIMEOUT
  /\ connect_try' = connect_try + 1
  /\ sending' = data
  /\ UNCHANGED <<opmode, gotip, config, create_device, queue, sdk, traffic,
                 known, faults>>

(* Without an address a request is only counted.                           *)
WithoutAddress(data) ==
  /\ ~gotip
  /\ connect_try < WIFI_CONFIG_TIMEOUT
  /\ connect_try' = connect_try + 1
  /\ sending' = FALSE
  /\ UNCHANGED <<opmode, gotip, config, create_device, queue, sdk, traffic,
                 known, faults>>

(* Mutant: the fallback restarts the device as it was.                     *)
mut_FallBack ==
  /\ ~gotip
  /\ connect_try >= WIFI_CONFIG_TIMEOUT
  /\ RestartIn(1)
  /\ NoFault

FallBack ==
  /\ ~gotip
  /\ connect_try >= WIFI_CONFIG_TIMEOUT
  /\ RestartIn(3)
  /\ NoFault

send_http_request(data) == WithAddress(data) \/ WithoutAddress(data) \/ FallBack

(* send_timer_cb, which always arms itself again: it asks for the settings *)
(* until they have come, then sends whatever the ring holds.  A period in  *)
(* which it does neither is a stutter.                                     *)
send_timer_cb ==
  /\ opmode = 1
  /\ \/ ~config /\ send_http_request(FALSE)
     \/ config /\ ~sending /\ queue # <<>> /\ send_http_request(TRUE)

-----------------------------------------------------------------------------
(* The callbacks of the resolver and of the connection (http_request.c).   *)

(* networkServerFoundCb with an address: espconn_connect replaces the      *)
(* connection there was, or refuses and leaves it alone - but the state    *)
(* has been reset by then.                                                 *)
ServerFound ==
  /\ gotip
  /\ cached' = TRUE
  /\ \/ /\ state' = "ESPCONN_WAIT"
        /\ link' = "opening"
        /\ requests' = <<>>
        /\ responses' = <<>>
        /\ NoFault
     \/ /\ state' = "ESPCONN_NONE"
        /\ Fault
        /\ UNCHANGED <<link, traffic>>

(* networkServerFoundCb without one.                                       *)
ServerNotFound ==
  /\ gotip => Fault
  /\ ~gotip => NoFault
  /\ UNCHANGED <<cached, state, link, traffic>>

networkServerFoundCb ==
  /\ lookups > 0
  /\ lookups' = lookups - 1
  /\ ServerFound \/ ServerNotFound
  /\ UNCHANGED <<opmode, gotip, device, queue, known>>

networkConnectedCb ==
  /\ gotip
  /\ link = "opening"
  /\ link' = "up"
  /\ state' = "ESPCONN_CONNECT"
  /\ UNCHANGED <<opmode, gotip, device, queue, lookups, cached, traffic,
                 known, faults>>

networkSentCb ==
  /\ gotip
  /\ state = "ESPCONN_WRITE"
  /\ state' = "ESPCONN_CONNECT"
  /\ UNCHANGED <<opmode, gotip, device, queue, lookups, cached, link, traffic,
                 known, faults>>

(* networkReconCb and networkDisconCb: the connection broke, could not be  *)
(* opened, or was closed by the server once it had answered everything.    *)
ConnectionLost ==
  /\ link # "down"
  /\ link' = "down"
  /\ state' = "ESPCONN_CLOSE"
  /\ requests' = <<>>
  /\ responses' = <<>>
  /\ \/ Fault
     \/ ~gotip /\ NoFault
     \/ link = "used" /\ requests = <<>> /\ responses = <<>> /\ NoFault
  /\ UNCHANGED <<opmode, gotip, device, queue, lookups, cached, known>>

(* Mutant: a 404 is only heeded before the settings have come.             *)
mut_Understand(status) ==
  /\ create_device' = (create_device \/ (status = "404" /\ ~config))
  /\ config' = (config \/ status = "200")

(* What networkRecvCb makes of an answer.                                  *)
Understand(status) ==
  /\ create_device' = (create_device \/ status = "404")
  /\ config' = (config \/ status = "200")

networkRecvCb ==
  /\ gotip
  /\ responses # <<>>
  /\ Understand(Head(responses))
  /\ responses' = Tail(responses)
  /\ state' = "ESPCONN_CONNECT"
  /\ UNCHANGED <<opmode, gotip, sending, connect_try, queue, lookups, cached,
                 link, requests, known, faults>>

-----------------------------------------------------------------------------
(* The store task, the mode changes, and what is outside the device.       *)

PointsIn(s) == {s[i] : i \in 1 .. Len(s)}

PointsInFlight == UNION {PointsIn(requests[j].points) : j \in 1 .. Len(requests)}

(* The store task pushes a sample (SendRecvPort).                          *)
Produce(p) ==
  /\ opmode = 1
  /\ p \notin PointsIn(queue) \cup PointsInFlight
  /\ Fifo!Put(p) \/ Fifo!Displace(p)
  /\ UNCHANGED <<opmode, gotip, device, sdk, traffic, known, faults>>

(* resetTimerCb runs every five seconds in the other modes.                *)
resetTimerCb ==
  /\ opmode # 1
  /\ gotip
  /\ RestartIn(1)
  /\ NoFault

(* cgiWifiSetMode: the user follows the one link to it that the Wi-Fi page *)
(* shows in each mode; giving up the station counts as a fault.            *)
cgiWifiSetMode ==
  \/ opmode = 3 /\ RestartIn(2) /\ Fault
  \/ opmode = 2 /\ RestartIn(3) /\ NoFault

(* The station gets an address, which it cannot as an access point only.   *)
WifiUp ==
  /\ opmode # 2
  /\ ~gotip
  /\ gotip' = TRUE
  /\ UNCHANGED <<opmode, device, queue, sdk, traffic, known, faults>>

WifiDown ==
  /\ gotip
  /\ gotip' = FALSE
  /\ UNCHANGED <<opmode, device, queue, sdk, traffic, known, faults>>

(* The server's answer to the look-up of the settings.                     *)
SettingsAnswer == IF known THEN "200" ELSE "404"

(* The server's answers; one that creates a device it knows already writes *)
(* the device anew (DeviceRegistry!SaveNew) and says created as well.      *)
Answer(kind) ==
  CASE kind = "get"    -> SettingsAnswer
    [] kind = "device" -> "201"
    [] kind = "data"   -> IF known THEN "201" ELSE "404"

(* The server answers the oldest request; a 500 counts as a fault.         *)
ServerReply ==
  /\ gotip
  /\ requests # <<>>
  /\ requests' = Tail(requests)
  /\ link' = "used"
  /\ \/ /\ responses' = Append(responses, Answer(Head(requests).kind))
        /\ known' = (known \/ Head(requests).kind = "device")
        /\ NoFault
     \/ /\ responses' = Append(responses, "other")
        /\ Fault
        /\ UNCHANGED known
  /\ UNCHANGED <<opmode, gotip, device, queue, lookups, cached, state>>

(* The device is deleted on the server (Device.delete of the web stack).   *)
ServerForgets ==
  /\ known
  /\ known' = FALSE
  /\ Fault
  /\ UNCHANGED <<opmode, gotip, device, queue, sdk, traffic>>

(* The resolver forgets the server's address.                              *)
CacheExpires ==
  /\ cached
  /\ cached' = FALSE
  /\ UNCHANGED <<opmode, gotip, device, queue, lookups, state, link, traffic,
                 known, faults>>

Firmware ==
  \/ send_timer_cb
  \/ networkServerFoundCb
  \/ networkConnectedCb
  \/ networkSentCb
  \/ networkRecvCb
  \/ ConnectionLost
  \/ resetTimerCb
  \/ cgiWifiSetMode
  \/ \E p \in Points : Produce(p)

Outside == WifiUp \/ WifiDown \/ ServerReply \/ ServerForgets \/ CacheExpires

Next == Firmware \/ Outside

Spec == Init /\ [][Next]_vars

(* Timers fire, the resolver answers, TCP connects, acknowledges, and      *)
(* gives up when there is no network; the server answers and the meter     *)
(* goes on measuring.  Nothing makes the user or the Wi-Fi network do      *)
(* anything.                                                               *)
Fairness ==
  /\ WF_vars(send_timer_cb)
  /\ WF_vars(networkServerFoundCb)
  /\ WF_vars(networkConnectedCb)
  /\ WF_vars(networkSentCb)
  /\ WF_vars(networkRecvCb)
  /\ WF_vars(~gotip /\ ConnectionLost)
  /\ WF_vars(ServerReply)
  /\ WF_vars(CacheExpires)
  /\ WF_vars(resetTimerCb)
  /\ WF_vars(\E p \in Points : Produce(p))

FairSpec == Spec /\ Fairness

-----------------------------------------------------------------------------
Requests == [kind : {"get", "device", "data"}, points : Seq(Points)]

TypeOK ==
  /\ opmode \in 1 .. 3
  /\ gotip \in BOOLEAN
  /\ config \in BOOLEAN
  /\ sending \in BOOLEAN
  /\ connect_try \in 0 .. WIFI_CONFIG_TIMEOUT
  /\ create_device \in BOOLEAN
  /\ queue \in Seq(Points)
  /\ Len(queue) <= Capacity
  /\ lookups \in 0 .. MaxLookups
  /\ cached \in BOOLEAN
  /\ state \in ConnStates
  /\ link \in LinkStates
  /\ requests \in Seq(Requests)
  /\ responses \in Seq(Statuses)
  /\ Len(requests) + Len(responses) <= MaxInFlight
  /\ known \in BOOLEAN
  /\ faults \in 0 .. MaxFaults

(* No point is on its way twice: it is in the ring or in one request, and  *)
(* there only once, however lookups, refusals, lost connections and late   *)
(* answers follow each other.  (package_send empties the ring before the   *)
(* request is taken, so a retry can lose points but never repeat them.)    *)
PointsOnce ==
  LET Places == {<<0, i>> : i \in 1 .. Len(queue)} \cup
                UNION {{<<j, i>> : i \in 1 .. Len(requests[j].points)} :
                       j \in 1 .. Len(requests)}
      At(pl) == IF pl[1] = 0 THEN queue[pl[2]] ELSE requests[pl[1]].points[pl[2]]
  IN  \A a, b \in Places : At(a) = At(b) => a = b

(* The state that send_http_request goes by is never ahead of the          *)
(* connection: it says "connected" or "sending" only over a connection     *)
(* that is up, and what was sent belongs to that one, although lookups     *)
(* that overlap replace connections and reset the state in between.        *)
StateIsNotStale ==
  state \in {"ESPCONN_CONNECT", "ESPCONN_WRITE"} \/ requests # <<>>
    => link \in {"up", "used"}

(* Where there is a network at last, the device gets its settings, having  *)
(* created itself on the server if it has to.                              *)
GetsConfigured == <>[]gotip => <>[]config

(* Where there is a network at last, the server ends up knowing the        *)
(* device, even if it was deleted there meanwhile: the 404 that answers    *)
(* its points makes it create itself again.                                *)
StaysRegistered == <>[]gotip => <>[]known

(* Where there is a network at last, the ring is emptied again and again.  *)
SendsData == <>[]gotip => []<>(queue = <<>>)

(* Without a network the device ends up as an access point, for the user   *)
(* to tell it another one.                                                 *)
FallsBackToAp == <>[]~gotip => <>[](opmode # 1)

-----------------------------------------------------------------------------
(* "True if succeeded, false if failed to send" (http_request.c:370): when *)
(* send_http_request returns true on an open connection that is not        *)
(* sending, a request went out.                                            *)
ReturnedTrueMeansSent ==
  [][ send_timer_cb /\ gotip /\ state = "ESPCONN_CONNECT"
        => Len(requests') = Len(requests) + 1 ]_vars

(* "if the server connection isn't up???? start it" (http_request.c:383):  *)
(* a connection is never started over one that is up.                      *)
ConnectOnlyWhenDown ==
  [][ networkServerFoundCb /\ state' = "ESPCONN_WAIT"
        => link \notin {"up", "used"} ]_vars
=============================================================================
