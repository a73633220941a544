---------------------------- MODULE Uplink_proofs ----------------------------
(***************************************************************************)
(* Theorems about the uplink, for every capacity of the ring, number of    *)
(* lookups and requests under way, and however often the network fails:    *)
(* types, that the state of the connection is never ahead of it, and that  *)
(* no point is on its way twice.                                           *)
(***************************************************************************)
EXTENDS Uplink, TLAPS

(* TypeOK in two: truth values and the rest are for different provers.     *)
Flags ==
  /\ gotip \in BOOLEAN /\ config \in BOOLEAN /\ sending \in BOOLEAN
  /\ create_device \in BOOLEAN /\ cached \in BOOLEAN /\ known \in BOOLEAN

Data ==
  /\ opmode \in 1 .. 3
  /\ connect_try \in 0 .. WIFI_CONFIG_TIMEOUT
  /\ queue \in Seq(Points)
  /\ Len(queue) <= Capacity
  /\ lookups \in 0 .. MaxLookups
  /\ state \in ConnStates
  /\ link \in LinkStates
  /\ requests \in Seq(Requests)
  /\ responses \in Seq(Statuses)
  /\ Len(requests) + Len(responses) <= MaxInFlight
  /\ faults \in 0 .. MaxFaults

(* What the state says, and what is on the way, is of a connection that is *)
(* up: the answers too, for each makes the state "connected".              *)
LinkInv ==
  state \in {"ESPCONN_CONNECT", "ESPCONN_WRITE"} \/ requests # <<>> \/ responses # <<>>
    => link \in {"up", "used"}

(* PointsOnce, place by place: within the ring, within a request, between  *)
(* requests, between ring and requests.                                    *)
RingOnce == \A i, k \in 1 .. Len(queue) : queue[i] = queue[k] => i = k

RequestsOnce ==
  \A j, l \in 1 .. Len(requests) :
    \A i \in 1 .. Len(requests[j].points), k \in 1 .. Len(requests[l].points) :
      requests[j].points[i] = requests[l].points[k] => j = l /\ i = k

RingApart ==
  \A i \in 1 .. Len(queue), l \in 1 .. Len(requests) :
    \A k \in 1 .. Len(requests[l].points) : queue[i] # requests[l].points[k]

OnceInv == RingOnce /\ RequestsOnce /\ RingApart

UplinkInv == Flags /\ Data /\ LinkInv /\ OnceInv

-----------------------------------------------------------------------------
LEMMA TypeParts == TypeOK <=> Flags /\ Data
  BY DEF TypeOK, Flags, Data

LEMMA RequestsTyped ==
  /\ Get \in Requests /\ PostDevice \in Requests
  /\ \A q \in Seq(Points) : PostData(q) \in Requests
  /\ \A r \in Requests : r.points \in Seq(Points) /\ r.kind \in {"get", "device", "data"}
<1>1. <<>> \in Seq(Points)
  OBVIOUS
<1> QED
  BY <1>1 DEF Requests, Get, PostDevice, PostData

LEMMA Longer ==
  ASSUME NEW S, NEW s \in Seq(S), NEW x \in S
  PROVE  /\ Append(s, x) \in Seq(S) /\ Len(Append(s, x)) = Len(s) + 1
         /\ Append(s, x) # <<>>
         /\ \A i \in 1 .. Len(s) : Append(s, x)[i] = s[i]
         /\ Append(s, x)[Len(s) + 1] = x
  OBVIOUS

LEMMA Shorter ==
  ASSUME NEW S, NEW s \in Seq(S), s # <<>>
  PROVE  /\ Head(s) \in S /\ Tail(s) \in Seq(S)
         /\ Len(s) \in Nat \ {0} /\ Len(Tail(s)) = Len(s) - 1
         /\ \A i \in 1 .. Len(s) - 1 : Tail(s)[i] = s[i + 1]
  OBVIOUS

(* The request that is issued, if any, is the only change to the traffic.  *)
LEMMA SentTyped ==
  ASSUME Data, NEW r \in Requests, espconn_sent(r)
  PROVE  /\ requests' \in Seq(Requests) /\ responses' \in Seq(Statuses)
         /\ Len(requests') + Len(responses') <= MaxInFlight
         /\ state' \in ConnStates /\ lookups' \in 0 .. MaxLookups /\ link' \in LinkStates
         /\ faults' \in 0 .. MaxFaults
<1>1. CASE /\ Len(requests) + Len(responses) < MaxInFlight
           /\ requests' = Append(requests, r) /\ state' = "ESPCONN_WRITE" /\ NoFault
  <2>1. requests' \in Seq(Requests) /\ Len(requests') = Len(requests) + 1
    BY <1>1, Longer DEF Data
  <2>2. Len(requests) \in Nat /\ Len(responses) \in Nat
    BY DEF Data
  <2> QED
    BY <1>1, <2>1, <2>2, UplinkAssumption DEF espconn_sent, Data, NoFault, ConnStates
<1>2. CASE Fault /\ UNCHANGED <<requests, state>>
  BY <1>2, UplinkAssumption DEF espconn_sent, Data, Fault
<1> QED
  BY <1>1, <1>2 DEF espconn_sent

LEMMA InitUplinkInv == Init => UplinkInv
<1> SUFFICES ASSUME Init PROVE UplinkInv
  OBVIOUS
<1>1. Flags
  BY DEF Init, Flags
<1>2. queue = <<>> /\ requests = <<>> /\ responses = <<>>
  BY DEF Init, Fifo!Init
<1>3. Data
  BY <1>2, UplinkAssumption DEF Init, Data, ConnStates, LinkStates
<1>4. LinkInv
  BY <1>2 DEF Init, LinkInv
<1>5. OnceInv
  BY <1>2 DEF OnceInv, RingOnce, RequestsOnce, RingApart
<1> QED
  BY <1>1, <1>3, <1>4, <1>5 DEF UplinkInv

(* After a restart nothing is left that could be wrong.                    *)
LEMMA RestartKeeps ==
  ASSUME Flags, Data, NEW mode \in 1 .. 3, RestartIn(mode), faults' \in 0 .. MaxFaults
  PROVE  UplinkInv'
<1>1. Flags'
  BY DEF RestartIn, Flags
<1>2. queue' = <<>> /\ requests' = <<>> /\ responses' = <<>>
  BY DEF RestartIn
<1>3. Data'
  BY <1>2, UplinkAssumption DEF RestartIn, Data, ConnStates, LinkStates
<1>4. LinkInv'
  BY <1>2 DEF RestartIn, LinkInv
<1>5. OnceInv'
  BY <1>2 DEF OnceInv, RingOnce, RequestsOnce, RingApart
<1> QED
  BY <1>1, <1>3, <1>4, <1>5 DEF UplinkInv
-----------------------------------------------------------------------------
(* Points.                                                                 *)

LEMMA OnceKept ==
  ASSUME OnceInv, UNCHANGED <<queue, requests>>
  PROVE  OnceInv'
  BY DEF OnceInv, RingOnce, RequestsOnce, RingApart

(* The oldest request goes.                                                *)
LEMMA OnceWithout ==
  ASSUME Data, OnceInv, UNCHANGED queue, requests # <<>>, requests' = Tail(requests)
  PROVE  OnceInv'
<1>1. /\ Len(requests) \in Nat \ {0} /\ Len(requests') = Len(requests) - 1
      /\ \A i \in 1 .. Len(requests) - 1 : requests'[i] = requests[i + 1]
  BY Shorter DEF Data
<1>2. \A j \in 1 .. Len(requests') : j + 1 \in 1 .. Len(requests)
  BY <1>1
<1>3. RequestsOnce'
  <2> SUFFICES ASSUME NEW j \in 1 .. Len(requests'), NEW l \in 1 .. Len(requests'),
                      NEW i \in 1 .. Len(requests'[j].points),
                      NEW k \in 1 .. Len(requests'[l].points),
                      requests'[j].points[i] = requests'[l].points[k]
               PROVE  j = l /\ i = k
    BY DEF RequestsOnce
  <2>1. requests'[j] = requests[j + 1] /\ requests'[l] = requests[l + 1]
    BY <1>1
  <2>2. j + 1 = l + 1 /\ i = k
    BY <1>2, <2>1 DEF OnceInv, RequestsOnce
  <2> QED
    BY <1>1, <2>2
<1>4. RingApart'
  <2> SUFFICES ASSUME NEW i \in 1 .. Len(queue), NEW l \in 1 .. Len(requests'),
                      NEW k \in 1 .. Len(requests'[l].points)
               PROVE  queue[i] # requests'[l].points[k]
    BY DEF RingApart
  <2>1. requests'[l] = requests[l + 1]
    BY <1>1
  <2> QED
    BY <1>2, <2>1 DEF OnceInv, RingApart
<1> QED
  BY <1>3, <1>4 DEF OnceInv, RingOnce

(* A request without points is sent.                                       *)
LEMMA OnceWithEmpty ==
  ASSUME Data, OnceInv, UNCHANGED queue, NEW r \in Requests, r.points = <<>>,
         requests' = Append(requests, r)
  PROVE  OnceInv'
<1>1. /\ Len(requests) \in Nat /\ Len(requests') = Len(requests) + 1
      /\ \A i \in 1 .. Len(requests) : requests'[i] = requests[i]
      /\ \A i : i = Len(requests) + 1 => requests'[i] = r
  BY Longer DEF Data
<1>2. \A l \in 1 .. Len(requests') : l \in 1 .. Len(requests) \/ l = Len(requests) + 1
  BY <1>1
<1>3. \A l \in 1 .. Len(requests') : \A k \in 1 .. Len(requests'[l].points) :
        l \in 1 .. Len(requests) /\ requests'[l] = requests[l]
  BY <1>1, <1>2
<1> QED
  BY <1>3 DEF OnceInv, RingOnce, RequestsOnce, RingApart

(* The ring's points are sent.                                             *)
LEMMA OnceWithRing ==
  ASSUME Data, OnceInv, queue' = <<>>,
         requests' = requests \/ requests' = Append(requests, PostData(queue))
  PROVE  OnceInv'
<1>1. RingOnce' /\ RingApart'
  BY DEF RingOnce, RingApart
<1>2. CASE requests' = requests
  BY <1>1, <1>2 DEF OnceInv, RequestsOnce
<1>3. CASE requests' = Append(requests, PostData(queue))
  <2>1. PostData(queue) \in Requests /\ PostData(queue).points = queue
    BY RequestsTyped DEF Data, PostData
  <2>2. /\ Len(requests) \in Nat /\ Len(requests') = Len(requests) + 1
        /\ \A i \in 1 .. Len(requests) : requests'[i] = requests[i]
        /\ \A i : i = Len(requests) + 1 => requests'[i].points = queue
    BY <1>3, <2>1, Longer DEF Data
  <2>3. \A l \in 1 .. Len(requests') :
          \/ l \in 1 .. Len(requests) /\ requests'[l] = requests[l]
          \/ l = Len(requests) + 1 /\ requests'[l].points = queue
    BY <2>2
  <2>4. RequestsOnce'
    <3> SUFFICES ASSUME NEW j \in 1 .. Len(requests'), NEW l \in 1 .. Len(requests'),
                        NEW i \in 1 .. Len(requests'[j].points),
                        NEW k \in 1 .. Len(requests'[l].points),
                        requests'[j].points[i] = requests'[l].points[k]
                 PROVE  j = l /\ i = k
      BY DEF RequestsOnce
    <3>1. CASE /\ j \in 1 .. Len(requests) /\ requests'[j] = requests[j]
               /\ l \in 1 .. Len(requests) /\ requests'[l] = requests[l]
      BY <3>1 DEF OnceInv, RequestsOnce
    <3>2. CASE /\ j \in 1 .. Len(requests) /\ requests'[j] = requests[j]
               /\ l = Len(requests) + 1 /\ requests'[l].points = queue
      BY <3>2 DEF OnceInv, RingApart
    <3>3. CASE /\ j = Len(requests) + 1 /\ requests'[j].points = queue
               /\ l \in 1 .. Len(requests) /\ requests'[l] = requests[l]
      BY <3>3 DEF OnceInv, RingApart
    <3>4. CASE /\ j = Len(requests) + 1 /\ requests'[j].points = queue
               /\ l = Len(requests) + 1 /\ requests'[l].points = queue
      BY <3>4 DEF OnceInv, RingOnce
    <3> QED
      BY <2>3, <3>1, <3>2, <3>3, <3>4
  <2> QED
    BY <1>1, <2>4 DEF OnceInv
<1> QED
  BY <1>2, <1>3

(* A point that is nowhere comes to the ring, the oldest going if need be. *)
LEMMA OnceWithPoint ==
  ASSUME Data, OnceInv, NEW p \in Points, Produce(p)
  PROVE  OnceInv' /\ queue' \in Seq(Points) /\ Len(queue') <= Capacity
<1>1. \A i \in 1 .. Len(queue) : queue[i] # p
  BY DEF Produce, PointsIn
<1>2. \A l \in 1 .. Len(requests) : \A k \in 1 .. Len(requests[l].points) :
        requests[l].points[k] # p
  BY DEF Produce, PointsInFlight, PointsIn
<1>3. UNCHANGED requests
  BY DEF Produce, traffic
<1>4. ASSUME NEW q \in Seq(Points), Len(q) < Capacity, queue' = Append(q, p),
             NEW d \in {0, 1}, Len(q) = Len(queue) - d,
             \A i \in 1 .. Len(q) : q[i] = queue[i + d]
      PROVE  OnceInv' /\ queue' \in Seq(Points) /\ Len(queue') <= Capacity
  <2>1. /\ queue' \in Seq(Points) /\ Len(queue') = Len(q) + 1 /\ Len(q) \in Nat
        /\ \A i \in 1 .. Len(q) : queue'[i] = q[i]
        /\ \A i : i = Len(q) + 1 => queue'[i] = p
    BY <1>4, Longer
  <2>2. \A i \in 1 .. Len(queue') :
          \/ i \in 1 .. Len(q) /\ i + d \in 1 .. Len(queue) /\ queue'[i] = queue[i + d]
          \/ i = Len(q) + 1 /\ queue'[i] = p
    BY <1>4, <2>1
  <2>3. Len(queue') <= Capacity
    BY <1>4, <2>1, UplinkAssumption
  <2>4. RingOnce'
    <3> SUFFICES ASSUME NEW i \in 1 .. Len(queue'), NEW k \in 1 .. Len(queue'),
                        queue'[i] = queue'[k]
                 PROVE  i = k
      BY DEF RingOnce
    <3>1. CASE /\ i + d \in 1 .. Len(queue) /\ queue'[i] = queue[i + d]
               /\ k + d \in 1 .. Len(queue) /\ queue'[k] = queue[k + d]
      <4>1. i + d = k + d
        BY <3>1 DEF OnceInv, RingOnce
      <4> QED
        BY <2>1, <4>1
    <3>2. CASE i = Len(q) + 1 /\ queue'[i] = p
      BY <1>1, <2>2, <3>2
    <3>3. CASE k = Len(q) + 1 /\ queue'[k] = p
      BY <1>1, <2>2, <3>3
    <3> QED
      BY <2>2, <3>1, <3>2, <3>3
  <2>5. RingApart'
    BY <1>2, <1>3, <2>2 DEF OnceInv, RingApart
  <2> QED
    BY <1>3, <2>1, <2>3, <2>4, <2>5 DEF OnceInv, RequestsOnce
<1>5. queue \in Seq(Points) /\ Len(queue) \in Nat /\ Len(queue) <= Capacity
  BY DEF Data
<1>6. CASE Fifo!Put(p)
  BY <1>4, <1>5, <1>6 DEF Fifo!Put, Fifo!Room
<1>7. CASE Fifo!Displace(p)
  <2>1. queue # <<>> /\ queue' = Append(Tail(queue), p)
    BY <1>5, <1>7, UplinkAssumption DEF Fifo!Displace, Fifo!Room
  <2>2. /\ Tail(queue) \in Seq(Points) /\ Len(Tail(queue)) = Len(queue) - 1
        /\ \A i \in 1 .. Len(queue) - 1 : Tail(queue)[i] = queue[i + 1]
    BY <1>5, <2>1, Shorter
  <2>3. Len(Tail(queue)) < Capacity
    BY <1>5, <2>2, UplinkAssumption
  <2> QED
    BY <1>4, <2>1, <2>2, <2>3
<1> QED
  BY <1>6, <1>7 DEF Produce

-----------------------------------------------------------------------------
(* The timer.                                                              *)

LEMMA WithAddressKeeps ==
  ASSUME UplinkInv, NEW data \in BOOLEAN, WithAddress(data)
  PROVE  UplinkInv'
<1> USE DEF UplinkInv
<1>1. Flags'
  <2>1. create_device' \in BOOLEAN /\ cached' \in BOOLEAN
    BY DEF WithAddress, network_start, post_device, get_config, package_send,
           NothingToDo, espconn_sent, sdk, Flags
  <2> QED
    BY <2>1 DEF WithAddress, Flags
<1>2. 0 \in 0 .. WIFI_CONFIG_TIMEOUT
  BY UplinkAssumption
<1>3. UNCHANGED opmode /\ connect_try' = 0
  BY DEF WithAddress
<1>4. CASE network_start
  <2>1. UNCHANGED <<queue, requests, responses, state, link>>
    BY <1>4 DEF network_start, traffic
  <2>2. lookups' \in 0 .. MaxLookups /\ faults' \in 0 .. MaxFaults
    BY <1>4, UplinkAssumption DEF network_start, Fault, NoFault, Data
  <2>3. Data'
    BY <1>2, <1>3, <2>1, <2>2 DEF Data
  <2> QED
    BY <1>1, <2>1, <2>3, OnceKept DEF LinkInv
<1>5. ASSUME NEW r \in Requests, espconn_sent(r), state = "ESPCONN_CONNECT",
             queue' \in Seq(Points), Len(queue') <= Capacity
      PROVE  Data' /\ LinkInv'
  <2>1. Data'
    BY <1>2, <1>3, <1>5, SentTyped DEF Data
  <2>2. LinkInv'
    BY <1>5 DEF LinkInv, espconn_sent
  <2> QED
    BY <2>1, <2>2
<1>6. ASSUME NEW r \in Requests, r.points = <<>>, espconn_sent(r),
             state = "ESPCONN_CONNECT", UNCHANGED queue
      PROVE  Data' /\ LinkInv' /\ OnceInv'
  <2>1. queue' \in Seq(Points) /\ Len(queue') <= Capacity
    BY <1>6 DEF Data
  <2>2. requests' = Append(requests, r) \/ UNCHANGED requests
    BY <1>6 DEF espconn_sent
  <2> QED
    BY <1>5, <1>6, <2>1, <2>2, OnceKept, OnceWithEmpty
<1>7. CASE post_device
  <2>1. PostDevice \in Requests /\ PostDevice.points = <<>>
    BY RequestsTyped DEF PostDevice
  <2> QED
    BY <1>1, <1>6, <1>7, <2>1 DEF post_device
<1>8. CASE get_config
  <2>1. Get \in Requests /\ Get.points = <<>>
    BY RequestsTyped DEF Get
  <2> QED
    BY <1>1, <1>6, <1>8, <2>1 DEF get_config
<1>9. CASE package_send
  <2>1. PostData(queue) \in Requests
    BY RequestsTyped DEF Data
  <2>2. queue' \in Seq(Points) /\ Len(queue') <= Capacity /\ queue' = <<>>
    BY <1>9, UplinkAssumption DEF package_send
  <2>3. requests' = requests \/ requests' = Append(requests, PostData(queue))
    BY <1>9 DEF package_send, espconn_sent
  <2> QED
    BY <1>1, <1>5, <1>9, <2>1, <2>2, <2>3, OnceWithRing DEF package_send
<1>10. CASE NothingToDo
  <2>1. UNCHANGED <<queue, requests, responses, state, link, lookups, faults>>
    BY <1>10 DEF NothingToDo, traffic, sdk
  <2>2. Data'
    BY <1>2, <1>3, <2>1 DEF Data
  <2> QED
    BY <1>1, <2>1, <2>2, OnceKept DEF LinkInv
<1> QED
  BY <1>4, <1>7, <1>8, <1>9, <1>10 DEF WithAddress

LEMMA TimerKeeps == UplinkInv /\ send_timer_cb => UplinkInv'
<1> SUFFICES ASSUME UplinkInv, send_timer_cb PROVE UplinkInv'
  OBVIOUS
<1> USE DEF UplinkInv
<1>1. PICK data \in BOOLEAN : send_http_request(data)
  BY DEF send_timer_cb
<1>2. CASE WithAddress(data)
  BY <1>2, WithAddressKeeps
<1>3. CASE WithoutAddress(data)
  <2>1. UNCHANGED <<opmode, queue, requests, responses, state, link, lookups, faults>>
    BY <1>3 DEF WithoutAddress, traffic, sdk
  <2>2. connect_try' \in 0 .. WIFI_CONFIG_TIMEOUT
    BY <1>3, UplinkAssumption DEF WithoutAddress, Data
  <2>3. Data'
    BY <2>1, <2>2 DEF Data
  <2>4. Flags'
    BY <1>3 DEF WithoutAddress, Flags, sdk
  <2> QED
    BY <2>1, <2>3, <2>4, OnceKept DEF LinkInv
<1>4. CASE FallBack
  <2>1. faults' \in 0 .. MaxFaults
    BY <1>4 DEF FallBack, NoFault, Data
  <2> QED
    BY <1>4, <2>1, RestartKeeps DEF FallBack
<1> QED
  BY <1>1, <1>2, <1>3, <1>4 DEF send_http_request

-----------------------------------------------------------------------------
(* The callbacks.                                                          *)

LEMMA ServerFoundKeeps == UplinkInv /\ networkServerFoundCb => UplinkInv'
<1> SUFFICES ASSUME UplinkInv, networkServerFoundCb PROVE UplinkInv'
  OBVIOUS
<1> USE DEF UplinkInv
<1>1. UNCHANGED <<opmode, gotip, config, sending, connect_try, create_device,
                  queue, known>>
  BY DEF networkServerFoundCb, device
<1>2. Flags'
  BY <1>1 DEF networkServerFoundCb, ServerFound, ServerNotFound, Flags
<1>3. lookups' \in 0 .. MaxLookups
  BY UplinkAssumption DEF networkServerFoundCb, Data
<1>4. faults' \in 0 .. MaxFaults
  BY UplinkAssumption
     DEF networkServerFoundCb, ServerFound, ServerNotFound, Fault, NoFault, Data
<1>5. CASE /\ state' = "ESPCONN_WAIT" /\ link' = "opening"
           /\ requests' = <<>> /\ responses' = <<>>
  <2>1. Data'
    BY <1>1, <1>3, <1>4, <1>5, UplinkAssumption DEF Data, ConnStates, LinkStates
  <2> QED
    BY <1>1, <1>2, <1>5, <2>1
       DEF LinkInv, OnceInv, RingOnce, RequestsOnce, RingApart
<1>6. CASE /\ state' = state \/ state' = "ESPCONN_NONE"
           /\ UNCHANGED <<link, requests, responses>>
  <2>1. Data'
    BY <1>1, <1>3, <1>4, <1>6 DEF Data, ConnStates
  <2> QED
    BY <1>1, <1>2, <1>6, <2>1, OnceKept DEF LinkInv
<1> QED
  BY <1>5, <1>6 DEF networkServerFoundCb, ServerFound, ServerNotFound, traffic

LEMMA ConnectedKeeps == UplinkInv /\ networkConnectedCb => UplinkInv'
<1> SUFFICES ASSUME UplinkInv, networkConnectedCb PROVE UplinkInv'
  OBVIOUS
<1> USE DEF UplinkInv, networkConnectedCb, device, traffic
<1>1. Flags'
  BY DEF Flags
<1>2. Data'
  BY DEF Data, ConnStates, LinkStates
<1>3. LinkInv'
  BY DEF LinkInv
<1> QED
  BY <1>1, <1>2, <1>3, OnceKept

LEMMA SentCbKeeps == UplinkInv /\ networkSentCb => UplinkInv'
<1> SUFFICES ASSUME UplinkInv, networkSentCb PROVE UplinkInv'
  OBVIOUS
<1> USE DEF UplinkInv, networkSentCb, device, traffic
<1>1. Flags'
  BY DEF Flags
<1>2. Data'
  BY DEF Data, ConnStates
<1>3. LinkInv'
  BY DEF LinkInv
<1> QED
  BY <1>1, <1>2, <1>3, OnceKept

LEMMA LostKeeps == UplinkInv /\ ConnectionLost => UplinkInv'
<1> SUFFICES ASSUME UplinkInv, ConnectionLost PROVE UplinkInv'
  OBVIOUS
<1> USE DEF UplinkInv, ConnectionLost, device
<1>1. Flags'
  BY DEF Flags
<1>2. faults' \in 0 .. MaxFaults
  BY UplinkAssumption DEF Fault, NoFault, Data
<1>3. Data'
  BY <1>2, UplinkAssumption DEF Data, ConnStates, LinkStates
<1>4. LinkInv'
  BY DEF LinkInv
<1>5. OnceInv'
  BY DEF OnceInv, RingOnce, RequestsOnce, RingApart
<1> QED
  BY <1>1, <1>3, <1>4, <1>5

LEMMA RecvKeeps == UplinkInv /\ networkRecvCb => UplinkInv'
<1> SUFFICES ASSUME UplinkInv, networkRecvCb PROVE UplinkInv'
  OBVIOUS
<1> USE DEF UplinkInv, networkRecvCb
<1>1. Flags'
  BY DEF Understand, Flags
<1>2. /\ responses' \in Seq(Statuses) /\ Len(responses') = Len(responses) - 1
      /\ Len(responses) \in Nat /\ Len(requests) \in Nat
  BY Shorter DEF Data
<1>3. Len(requests) + Len(responses') <= MaxInFlight
  BY <1>2, UplinkAssumption DEF Data
<1>4. Data'
  BY <1>2, <1>3 DEF Data, ConnStates
<1>5. LinkInv'
  BY DEF LinkInv
<1> QED
  BY <1>1, <1>4, <1>5, OnceKept

LEMMA ReplyKeeps == UplinkInv /\ ServerReply => UplinkInv'
<1> SUFFICES ASSUME UplinkInv, ServerReply PROVE UplinkInv'
  OBVIOUS
<1> USE DEF UplinkInv, ServerReply, device
<1>1. known' \in BOOLEAN
  <2>1. (known \/ Head(requests).kind = "device") \in BOOLEAN
    BY DEF Flags
  <2> QED
    BY <2>1 DEF Flags
<1>2. Flags'
  BY <1>1 DEF Flags
<1>3. /\ Head(requests) \in Requests /\ requests' \in Seq(Requests)
      /\ Len(requests) \in Nat /\ Len(requests') = Len(requests) - 1
  BY Shorter DEF Data
<1>4. Head(requests).kind \in {"get", "device", "data"}
  BY <1>3, RequestsTyped
<1>5. Answer(Head(requests).kind) \in Statuses /\ "other" \in Statuses
  BY <1>4 DEF Answer, SettingsAnswer, Statuses
<1>6. PICK s \in Statuses : responses' = Append(responses, s)
  BY <1>5
<1>7. /\ responses' \in Seq(Statuses) /\ Len(responses) \in Nat
      /\ Len(responses') = Len(responses) + 1
  BY <1>6, Longer DEF Data
<1>8. Len(requests') + Len(responses') <= MaxInFlight
  BY <1>3, <1>7, UplinkAssumption DEF Data
<1>9. faults' \in 0 .. MaxFaults
  BY UplinkAssumption DEF Fault, NoFault, Data
<1>10. Data'
  BY <1>3, <1>7, <1>8, <1>9 DEF Data, LinkStates
<1>11. LinkInv'
  BY DEF LinkInv
<1> QED
  BY <1>2, <1>10, <1>11, OnceWithout

-----------------------------------------------------------------------------
(* The rest.                                                               *)

LEMMA ProduceKeeps ==
  ASSUME UplinkInv, NEW p \in Points, Produce(p) PROVE UplinkInv'
<1> USE DEF UplinkInv
<1>1. UNCHANGED <<opmode, gotip, config, sending, connect_try, create_device,
                  lookups, cached, state, link, requests, responses, known, faults>>
  BY DEF Produce, device, sdk, traffic
<1>2. Flags'
  BY <1>1 DEF Flags
<1>3. OnceInv' /\ queue' \in Seq(Points) /\ Len(queue') <= Capacity
  BY OnceWithPoint
<1>4. Data'
  BY <1>1, <1>3 DEF Data
<1> QED
  BY <1>1, <1>2, <1>3, <1>4 DEF LinkInv

(* Steps that only change the truth values and the count of faults.        *)
LEMMA QuietKeeps ==
  ASSUME UplinkInv, Flags', faults' \in 0 .. MaxFaults,
         UNCHANGED <<opmode, connect_try, queue, lookups, state, link, requests, responses>>
  PROVE  UplinkInv'
<1> USE DEF UplinkInv
<1>1. Data'
  BY DEF Data
<1> QED
  BY <1>1, OnceKept DEF LinkInv

LEMMA NextUplinkInv == UplinkInv /\ [Next]_vars => UplinkInv'
<1> SUFFICES ASSUME UplinkInv, [Next]_vars PROVE UplinkInv'
  OBVIOUS
<1> USE DEF UplinkInv
<1>1. CASE send_timer_cb
  BY <1>1, TimerKeeps
<1>2. CASE networkServerFoundCb
  BY <1>2, ServerFoundKeeps
<1>3. CASE networkConnectedCb
  BY <1>3, ConnectedKeeps
<1>4. CASE networkSentCb
  BY <1>4, SentCbKeeps
<1>5. CASE networkRecvCb
  BY <1>5, RecvKeeps
<1>6. CASE ConnectionLost
  BY <1>6, LostKeeps
<1>7. CASE resetTimerCb
  <2>1. faults' \in 0 .. MaxFaults
    BY <1>7 DEF resetTimerCb, NoFault, Data
  <2> QED
    BY <1>7, <2>1, RestartKeeps DEF resetTimerCb
<1>8. CASE cgiWifiSetMode
  <2>1. faults' \in 0 .. MaxFaults
    BY <1>8, UplinkAssumption DEF cgiWifiSetMode, Fault, NoFault, Data
  <2> QED
    BY <1>8, <2>1, RestartKeeps DEF cgiWifiSetMode
<1>9. CASE \E p \in Points : Produce(p)
  BY <1>9, ProduceKeeps
<1>10. CASE ServerReply
  BY <1>10, ReplyKeeps
<1>11. CASE WifiUp
  BY <1>11, QuietKeeps DEF WifiUp, device, sdk, traffic, Flags, Data
<1>12. CASE WifiDown
  BY <1>12, QuietKeeps DEF WifiDown, device, sdk, traffic, Flags, Data
<1>13. CASE ServerForgets
  <2>1. faults' \in 0 .. MaxFaults
    BY <1>13, UplinkAssumption DEF ServerForgets, Fault, Data
  <2>2. Flags'
    BY <1>13 DEF ServerForgets, device, sdk, Flags
  <2> QED
    BY <1>13, <2>1, <2>2, QuietKeeps DEF ServerForgets, device, sdk, traffic
<1>14. CASE CacheExpires
  BY <1>14, QuietKeeps DEF CacheExpires, device, traffic, Flags, Data
<1>15. CASE UNCHANGED vars
  BY <1>15, QuietKeeps DEF vars, device, sdk, traffic, Flags, Data
<1> QED
  BY <1>1, <1>2, <1>3, <1>4, <1>5, <1>6, <1>7, <1>8, <1>9, <1>10, <1>11, <1>12,
     <1>13, <1>14, <1>15 DEF Next, Firmware, Outside

LEMMA UplinkInvHolds == Spec => []UplinkInv
  BY InitUplinkInv, NextUplinkInv, PTL DEF Spec

(* The places of PointsOnce are those that the parts of OnceInv go through. *)
LEMMA OnceIsPointsOnce == OnceInv => PointsOnce
<1> SUFFICES ASSUME OnceInv PROVE PointsOnce
  OBVIOUS
<1> DEFINE Ring == {<<0, i>> : i \in 1 .. Len(queue)}
           Sent == UNION {{<<j, i>> : i \in 1 .. Len(requests[j].points)} :
                          j \in 1 .. Len(requests)}
           At(pl) == IF pl[1] = 0 THEN queue[pl[2]] ELSE requests[pl[1]].points[pl[2]]
<1>1. SUFFICES ASSUME NEW a \in Ring \cup Sent, NEW b \in Ring \cup Sent, At(a) = At(b)
               PROVE  a = b
  BY DEF PointsOnce
<1>2. \A pl \in Ring : \E i \in 1 .. Len(queue) : pl = <<0, i>> /\ At(pl) = queue[i]
  OBVIOUS
<1>3. \A pl \in Sent : \E j \in 1 .. Len(requests) : \E i \in 1 .. Len(requests[j].points) :
        pl = <<j, i>> /\ At(pl) = requests[j].points[i]
  OBVIOUS
<1> HIDE DEF Ring, Sent, At
<1>4. CASE a \in Ring /\ b \in Ring
  BY <1>1, <1>2, <1>4 DEF OnceInv, RingOnce
<1>5. CASE a \in Ring /\ b \in Sent
  BY <1>1, <1>2, <1>3, <1>5 DEF OnceInv, RingApart
<1>6. CASE a \in Sent /\ b \in Ring
  BY <1>1, <1>2, <1>3, <1>6 DEF OnceInv, RingApart
<1>7. CASE a \in Sent /\ b \in Sent
  BY <1>1, <1>3, <1>7 DEF OnceInv, RequestsOnce
<1> QED
  BY <1>1, <1>4, <1>5, <1>6, <1>7

-----------------------------------------------------------------------------
(* Every variable keeps its type; what is under way keeps its bounds.      *)
THEOREM UplinkTypeCorrect == Spec => []TypeOK
  BY UplinkInvHolds, TypeParts, PTL DEF UplinkInv

(* send_http_request never goes by a state that is ahead of the connection *)
(* (http_request.c): whatever lookups overlap, are answered late or        *)
(* refused, "connected" or "sending" is said over a connection that is up. *)
THEOREM StateNotStale == Spec => []StateIsNotStale
<1>1. UplinkInv => StateIsNotStale
  BY DEF UplinkInv, LinkInv, StateIsNotStale
<1> QED
  BY <1>1, UplinkInvHolds, PTL

(* A point is in the ring or in one request, and there once (package_send  *)
(* and the retries of http_request.c), for every number of points, lookups *)
(* and faults.                                                             *)
THEOREM PointsAreOnce == Spec => []PointsOnce
<1>1. UplinkInv => PointsOnce
  BY OnceIsPointsOnce DEF UplinkInv
<1> QED
  BY <1>1, UplinkInvHolds, PTL
=============================================================================
