------------------------------ MODULE HttpdPool ------------------------------
(***************************************************************************)
(* The embedded web server of the Wi-Fi firmware: the connection pool of   *)
(* httpd.c and the page functions (cgi) that run in its callbacks.         *)
(*                                                                         *)
(* A connection is told apart by the address of its struct espconn only,   *)
(* which the SDK allocates and frees; an address is used again.  Every     *)
(* callback runs to completion, so each is one step; what interleaves is   *)
(* the order in which they come for the different connections.             *)
(***************************************************************************)
EXTENDS Naturals, FiniteSets

CONSTANTS
  Conns,       (* addresses of struct espconn                               *)
  NoConn,      (* NULL                                                      *)
  MAX_CONN,    (* slots of the pool                                         *)
  MaxOpen,     (* MEMP_NUM_TCP_PCB: connections the stack has at a time     *)
  MaxChunks,   (* full 1024 byte blocks of the longest file                 *)
  MaxSends,    (* sends not acknowledged at a time on one connection        *)
  MaxResets    (* how often a connection is torn down by an error           *)

ASSUME HttpdAssumption ==
  /\ IsFiniteSet(Conns) /\ NoConn \notin Conns
  /\ MAX_CONN \in Nat \ {0}
  /\ MaxOpen \in Nat /\ MaxOpen <= MAX_CONN
  /\ MaxChunks \in Nat /\ MaxSends \in Nat \ {0} /\ MaxResets \in Nat

VARIABLES
  conn,       (* per slot: connData[i].conn                                 *)
  cgi,        (* per slot: a page function is to be called again            *)
  stage,      (* per slot: what httpdRecvCb waits for (headPos, postPos)    *)
  buff,       (* per slot: postBuff is allocated                            *)
  file,       (* per slot: full blocks left of the file of its cgiData      *)
  tail,       (* per slot: its last block is not empty                      *)
  opened,     (* per slot: files it has opened and not closed               *)
  sock,       (* per address: what the SDK has there                        *)
  unsent,     (* per address: sends the peer has not acknowledged           *)
  resets,     (* connections torn down by an error so far                   *)
  overrun     (* httpdConnectCb has written behind connData                 *)

slots    == <<conn, cgi, stage, buff, file, tail, opened>>
poolVars == <<slots, sock, unsent, resets, overrun>>

Slots == 0 .. MAX_CONN - 1

(* "closing": espconn_disconnect was called; "closed": the state is        *)
(* ESPCONN_CLOSE and the disconnect callback is due; "refused": turned     *)
(* away by httpdConnectCb, which registered no callbacks for it; "free":   *)
(* the memory was given back.                                              *)
SockStates == {"free", "open", "closing", "closed", "refused"}

Stages == {"head", "post", "done"}

PoolTypeOK ==
  /\ conn \in [Slots -> Conns \cup {NoConn}]
  /\ cgi \in [Slots -> BOOLEAN]
  /\ stage \in [Slots -> Stages]
  /\ buff \in [Slots -> BOOLEAN]
  /\ file \in [Slots -> 0 .. MaxChunks]
  /\ tail \in [Slots -> BOOLEAN]
  /\ opened \in [Slots -> Nat]
  /\ sock \in [Conns -> SockStates]
  /\ unsent \in [Conns -> 0 .. MaxSends]
  /\ resets \in 0 .. MaxResets
  /\ overrun \in BOOLEAN

PoolInit ==
  /\ conn = [s \in Slots |-> NoConn]
  /\ cgi = [s \in Slots |-> FALSE]
  /\ stage = [s \in Slots |-> "head"]
  /\ buff = [s \in Slots |-> FALSE]
  /\ file = [s \in Slots |-> 0]
  /\ tail = [s \in Slots |-> TRUE]
  /\ opened = [s \in Slots |-> 0]
  /\ sock = [c \in Conns |-> "free"]
  /\ unsent = [c \in Conns |-> 0]
  /\ resets = 0
  /\ overrun = FALSE

Taken == {s \in Slots : conn[s] # NoConn}
Live == {c \in Conns : sock[c] # "free"}

(* httpdFindConnData(c): the first slot that holds the address.            *)
Finds(c, s) ==
  /\ conn[s] = c
  /\ \A t \in 0 .. s - 1 : conn[t] # c

Unknown(c) == \A s \in Slots : conn[s] # c

(* How many sends may be outstanding on c after k were acknowledged and    *)
(* some made: at least one of the `made' is accepted, MaxSends at most.    *)
Outstanding(c, k) == unsent[c] - k + 1 .. MaxSends

-----------------------------------------------------------------------------
(* A connection comes in: the first empty slot is its own.                 *)
httpdConnectCb(c) ==
  /\ sock[c] = "free"
  /\ Cardinality(Live) < MaxOpen
  /\ \/ \E s \in Slots :
          /\ conn[s] = NoConn
          /\ \A t \in 0 .. s - 1 : conn[t] # NoConn
          /\ conn' = [conn EXCEPT ![s] = c]
          /\ stage' = [stage EXCEPT ![s] = "head"]
          /\ buff' = [buff EXCEPT ![s] = FALSE]
          /\ sock' = [sock EXCEPT ![c] = "open"]
          /\ UNCHANGED overrun
     \/ /\ Taken = Slots
        /\ overrun' = TRUE           (* connData[MAX_CONN].priv is written *)
        /\ sock' = [sock EXCEPT ![c] = "refused"]
        /\ UNCHANGED <<conn, stage, buff>>
  /\ UNCHANGED <<cgi, file, tail, opened, unsent, resets>>

(* Mutant: a page that has more to come sends nothing yet.                 *)
mut_httpdSendResp(s) ==
  \/ /\ \E n \in Outstanding(conn[s], 0) : unsent' = [unsent EXCEPT ![conn[s]] = n]
     /\ cgi' = [cgi EXCEPT ![s] = FALSE]
     /\ UNCHANGED <<file, tail, opened>>
  \/ /\ cgi' = [cgi EXCEPT ![s] = TRUE]
     /\ \E blocks \in 0 .. MaxChunks : file' = [file EXCEPT ![s] = blocks]
     /\ \E t \in BOOLEAN : tail' = [tail EXCEPT ![s] = t]
     /\ opened' = [opened EXCEPT ![s] = @ + 1]
     /\ UNCHANGED unsent

(* httpdSendResp: the first call of the page function.  Redirects, the     *)
(* scan result, the settings and the 404 are finished at once; a file or a *)
(* template is opened, its header sent, and the rest left to httpdSentCb.  *)
httpdSendResp(s) ==
  /\ \E n \in Outstanding(conn[s], 0) : unsent' = [unsent EXCEPT ![conn[s]] = n]
  /\ \/ /\ cgi' = [cgi EXCEPT ![s] = FALSE]
        /\ UNCHANGED <<file, tail, opened>>
     \/ /\ cgi' = [cgi EXCEPT ![s] = TRUE]
        /\ \E blocks \in 0 .. MaxChunks : file' = [file EXCEPT ![s] = blocks]
        /\ \E t \in BOOLEAN : tail' = [tail EXCEPT ![s] = t]
        /\ opened' = [opened EXCEPT ![s] = @ + 1]

(* Data of an open connection: the end of the head, without a body or with *)
(* one to wait for, or the end of the body.  Other bytes change nothing.   *)
httpdRecvCb(c) ==
  /\ sock[c] = "open"
  /\ \E s \in Slots :
       /\ Finds(c, s)
       /\ \/ /\ stage[s] \in {"head", "post"}
             /\ httpdSendResp(s)
             /\ stage' = [stage EXCEPT ![s] = "done"]
             /\ UNCHANGED buff
          \/ /\ stage[s] = "head"
             /\ stage' = [stage EXCEPT ![s] = "post"]
             /\ buff' = [buff EXCEPT ![s] = TRUE]
             /\ UNCHANGED <<cgi, file, tail, opened, unsent>>
  /\ UNCHANGED <<conn, sock, resets, overrun>>

(* Mutant: a read that returned the whole last block asks for one more.    *)
mut_cgiEspFs(s, c, k) ==
  /\ file[s] >= 0
  /\ file' = [file EXCEPT ![s] = @ - 1]
  /\ \E n \in Outstanding(c, k) : unsent' = [unsent EXCEPT ![c] = n]
  /\ UNCHANGED <<cgi, tail, opened>>

(* cgiEspFsHook and cgiEspFsTemplate, called again after k sends were      *)
(* acknowledged: a full block is sent and more is to come, or the last one *)
(* is, unless it is empty, and the file is closed.                         *)
cgiEspFs(s, c, k) ==
  \/ /\ file[s] > 0
     /\ file' = [file EXCEPT ![s] = @ - 1]
     /\ \E n \in Outstanding(c, k) : unsent' = [unsent EXCEPT ![c] = n]
     /\ UNCHANGED <<cgi, tail, opened>>
  \/ /\ file[s] = 0
     /\ opened' = [opened EXCEPT ![s] = @ - 1]
     /\ cgi' = [cgi EXCEPT ![s] = FALSE]
     /\ \/ /\ tail[s]
           /\ \E n \in Outstanding(c, k) : unsent' = [unsent EXCEPT ![c] = n]
        \/ /\ ~tail[s]
           /\ unsent' = [unsent EXCEPT ![c] = @ - k]
     /\ tail' = [tail EXCEPT ![s] = TRUE]
     /\ UNCHANGED file

(* Mutant: the slot keeps its connection.                                  *)
mut_httpdRetireConn(R) ==
  /\ cgi' = [s \in Slots |-> cgi[s] /\ s \notin R]
  /\ buff' = [s \in Slots |-> buff[s] /\ s \notin R]
  /\ stage' = [s \in Slots |-> IF s \in R THEN "head" ELSE stage[s]]
  /\ file' = [s \in Slots |-> IF s \in R THEN 0 ELSE file[s]]
  /\ tail' = [s \in Slots |-> tail[s] \/ s \in R]
  /\ UNCHANGED conn

(* httpdRetireConn for the slots R.  (stage, file and tail go back to      *)
(* their first value: nothing reads headPos, postPos and cgiData until the *)
(* next connection has set them.)                                          *)
httpdRetireConn(R) ==
  /\ conn' = [s \in Slots |-> IF s \in R THEN NoConn ELSE conn[s]]
  /\ cgi' = [s \in Slots |-> cgi[s] /\ s \notin R]
  /\ buff' = [s \in Slots |-> buff[s] /\ s \notin R]
  /\ stage' = [s \in Slots |-> IF s \in R THEN "head" ELSE stage[s]]
  /\ file' = [s \in Slots |-> IF s \in R THEN 0 ELSE file[s]]
  /\ tail' = [s \in Slots |-> tail[s] \/ s \in R]

(* The peer has acknowledged k sends: run the page function again, or      *)
(* close the connection it has finished with and give up the slot.         *)
httpdSentCb(c) ==
  /\ sock[c] \in {"open", "closing"}
  /\ \E k \in 1 .. unsent[c] :
       \/ /\ Unknown(c)
          /\ unsent' = [unsent EXCEPT ![c] = @ - k]
          /\ UNCHANGED <<slots, sock>>
       \/ \E s \in Slots :
            /\ Finds(c, s) /\ ~cgi[s]
            /\ sock' = [sock EXCEPT ![c] = "closing"]
            /\ httpdRetireConn({s})
            /\ unsent' = [unsent EXCEPT ![c] = @ - k]
            /\ UNCHANGED opened
       \/ \E s \in Slots :
            /\ Finds(c, s) /\ cgi[s]
            /\ cgiEspFs(s, c, k)
            /\ UNCHANGED <<conn, stage, buff, sock>>
  /\ UNCHANGED <<resets, overrun>>

(* Mutant: only a slot with a page under way is cleaned up.                *)
mut_httpdDisconCb(c) ==
  /\ sock[c] = "closed"
  /\ LET R == {s \in Taken : sock[conn[s]] = "closed" /\ cgi[s]}
     IN /\ httpdRetireConn(R)
        /\ opened' = [s \in Slots |-> IF s \in R THEN opened[s] - 1 ELSE opened[s]]
  /\ sock' = [sock EXCEPT ![c] = "free"]
  /\ UNCHANGED <<unsent, resets, overrun>>

(* Mutant: the page function is not told that its connection is gone.      *)
mut_flush_httpdDisconCb(c) ==
  /\ sock[c] = "closed"
  /\ httpdRetireConn({s \in Taken : sock[conn[s]] = "closed"})
  /\ sock' = [sock EXCEPT ![c] = "free"]
  /\ UNCHANGED <<opened, unsent, resets, overrun>>

(* The disconnect callback of c.  The SDK hands over the listening socket, *)
(* so every slot is looked at, and those whose connection is closed are    *)
(* cleaned up; what the state reads in memory given back is anybody's      *)
(* guess.  Then the SDK gives the memory of c back.                        *)
httpdDisconCb(c) ==
  /\ sock[c] = "closed"
  /\ \E guess \in SUBSET {s \in Taken : sock[conn[s]] = "free"} :
       LET R == {s \in Taken : sock[conn[s]] = "closed"} \cup guess
       IN /\ httpdRetireConn(R)
          /\ opened' = [s \in Slots |-> IF s \in R /\ cgi[s] THEN opened[s] - 1
                                                             ELSE opened[s]]
  /\ sock' = [sock EXCEPT ![c] = "free"]
  /\ UNCHANGED <<unsent, resets, overrun>>

(* An error tears a connection down.  httpdReconCb does nothing ("ToDo:    *)
(* figure something out"), and the SDK gives the memory back.              *)
httpdReconCb(c) ==
  /\ sock[c] \in {"open", "closing"}
  /\ resets < MaxResets
  /\ resets' = resets + 1
  /\ sock' = [sock EXCEPT ![c] = "free"]
  /\ unsent' = [unsent EXCEPT ![c] = 0]
  /\ UNCHANGED <<slots, overrun>>

(* The stack ends a connection: because the peer or an idle timer does, or *)
(* to finish espconn_disconnect.  A refused one has no callback to wait    *)
(* for.                                                                    *)
Close(c) ==
  /\ sock[c] \in {"open", "closing", "refused"}
  /\ sock' = [sock EXCEPT ![c] = IF @ = "refused" THEN "free" ELSE "closed"]
  /\ unsent' = [unsent EXCEPT ![c] = 0]
  /\ UNCHANGED <<slots, resets, overrun>>

PoolNext ==
  \E c \in Conns :
    \/ httpdConnectCb(c) \/ httpdRecvCb(c) \/ httpdSentCb(c)
    \/ httpdDisconCb(c) \/ httpdReconCb(c) \/ Close(c)

PoolSpec == PoolInit /\ [][PoolNext]_poolVars

(* The SDK delivers the callbacks it owes, and finishes a disconnect it    *)
(* was asked for.  Nothing makes a client ask, go on, or hang up.          *)
FairPoolSpec ==
  /\ PoolSpec
  /\ \A c \in Conns :
       /\ WF_poolVars(httpdSentCb(c))
       /\ WF_poolVars(httpdDisconCb(c))
       /\ WF_poolVars(sock[c] \in {"closing", "refused"} /\ Close(c))

-----------------------------------------------------------------------------
(* MAX_CONN slots are enough for the MaxOpen connections of the stack as   *)
(* long as none is torn down by an error: each one that is may cost a slot *)
(* (httpdReconCb gives none back), and only when they have eaten up the    *)
(* difference does httpdConnectCb (:383-389) find the pool full and write  *)
(* behind it.                                                              *)
PoolSuffices == overrun => resets > MAX_CONN - MaxOpen

(* Without errors an address names one connection and one slot: a slot in  *)
(* use is the only one of a connection that is open or whose disconnect    *)
(* callback is due, and every open connection has a slot, so that          *)
(* httpdFindConnData (:87-94) leads a callback to the slot of its own      *)
(* connection.                                                             *)
OwnSlot ==
  resets = 0 =>
    /\ \A s \in Taken : sock[conn[s]] \in {"open", "closed"}
    /\ \A s, t \in Taken : conn[s] = conn[t] => s = t
    /\ \A c \in Conns : sock[c] = "open" => \E s \in Slots : conn[s] = c

(* A page function that has asked to be called again holds an open file,   *)
(* and nobody else does: whatever ends a connection, the file is closed,   *)
(* and closed once; and a slot that is free holds no file and no buffer    *)
(* (httpdSentCb :209-225, httpdDisconCb :354-375, cgiEspFsHook).           *)
ReleasedOnce ==
  /\ \A s \in Slots : opened[s] = IF cgi[s] THEN 1 ELSE 0
  /\ \A s \in Slots \ Taken : ~cgi[s] /\ ~buff[s]

(* As long as no connection is torn down by an error, a request that has   *)
(* come in is answered to the end and the server itself closes the         *)
(* connection, whatever the other connections do: the callbacks of its own *)
(* sends drive the page function.  A file whose last block is empty, a     *)
(* multiple of 1024 bytes long, is left out: its last call sends nothing,  *)
(* so no callback closes it (httpdespfs.c:71-77).                          *)
Served ==
  \A c \in Conns, s \in Slots :
    (conn[s] = c /\ sock[c] = "open" /\ stage[s] = "done"
       /\ (IF cgi[s] THEN tail[s] ELSE unsent[c] > 0))
      ~> (sock[c] # "open" \/ resets > 0)

(* A connection the stack has closed gives its slot back, also when its    *)
(* own callback is not the one that comes first, unless the address is in  *)
(* use again.                                                              *)
SlotsComeBack ==
  \A c \in Conns, s \in Slots :
    (conn[s] = c /\ sock[c] = "closed") ~> conn[s] # c
=============================================================================
