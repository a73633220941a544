-------------------------- MODULE Provisioning_proofs --------------------------
(***************************************************************************)
(* Proofs about the two parts of the firmware that are busy until a meter  *)
(* reports: the embedded web server, through which the Wi-Fi module is set *)
(* up, for every pool and every number of connections, and the start of    *)
(* meter and Wi-Fi module, for every number of restarts.                   *)
(***************************************************************************)
EXTENDS HttpdPool, Handshake, FiniteSetTheorems, SequenceTheorems, TLAPS

(* The embedded web server.                                                *)

(* Files and buffers are released once; a page function that is to be      *)
(* called again belongs to a request that has come in to its end.          *)
ReleaseInv ==
  /\ ReleasedOnce
  /\ \A s \in Slots : cgi[s] => stage[s] = "done"

(* The numeric part of the assumption on the constants.                    *)
LEMMA PoolNumbers ==
  /\ MAX_CONN \in Nat \ {0}
  /\ MaxOpen \in Nat /\ MaxOpen <= MAX_CONN
  /\ MaxChunks \in Nat /\ MaxSends \in Nat \ {0} /\ MaxResets \in Nat
  /\ NoConn \notin Conns
  BY HttpdAssumption

(* What a connection has outstanding after some of it was acknowledged and *)
(* more was sent stays within what the stack accepts.                      *)
LEMMA OutstandingInRange ==
  ASSUME NEW c \in Conns, unsent[c] \in 0 .. MaxSends,
         NEW k \in 0 .. unsent[c]
  PROVE  /\ Outstanding(c, k) \subseteq 0 .. MaxSends
         /\ unsent[c] - k \in 0 .. MaxSends
  BY PoolNumbers DEF Outstanding

(* Giving up the slots R keeps the types and leaves nothing behind.        *)
LEMMA RetireFacts ==
  ASSUME PoolTypeOK, NEW R \in SUBSET Slots, httpdRetireConn(R)
  PROVE  /\ conn' \in [Slots -> Conns \cup {NoConn}]
         /\ cgi' \in [Slots -> BOOLEAN]
         /\ stage' \in [Slots -> Stages]
         /\ buff' \in [Slots -> BOOLEAN]
         /\ file' \in [Slots -> 0 .. MaxChunks]
         /\ tail' \in [Slots -> BOOLEAN]
         /\ \A s \in R : conn'[s] = NoConn /\ ~cgi'[s] /\ ~buff'[s]
         /\ \A s \in Slots \ R :
              /\ conn'[s] = conn[s] /\ stage'[s] = stage[s]
              /\ cgi'[s] <=> cgi[s]
              /\ buff'[s] <=> buff[s]
<1> USE DEF PoolTypeOK, httpdRetireConn
<1>1. conn' \in [Slots -> Conns \cup {NoConn}]
  OBVIOUS
<1>2. cgi' \in [Slots -> BOOLEAN] /\ buff' \in [Slots -> BOOLEAN] /\ tail' \in [Slots -> BOOLEAN]
  OBVIOUS
<1>3. stage' \in [Slots -> Stages]
  BY DEF Stages
<1>4. file' \in [Slots -> 0 .. MaxChunks]
  BY PoolNumbers
<1>5. \A s \in R : conn'[s] = NoConn /\ ~cgi'[s] /\ ~buff'[s]
  OBVIOUS
<1>6. \A s \in Slots \ R :
        /\ conn'[s] = conn[s] /\ stage'[s] = stage[s]
        /\ cgi'[s] <=> cgi[s]
        /\ buff'[s] <=> buff[s]
  OBVIOUS
<1> QED
  BY <1>1, <1>2, <1>3, <1>4, <1>5, <1>6

(* A connection comes in.                                                  *)
LEMMA ConnectKeepsRelease ==
  ASSUME PoolTypeOK, ReleaseInv, NEW c \in Conns, httpdConnectCb(c)
  PROVE  PoolTypeOK' /\ ReleaseInv'
<1> USE DEF PoolTypeOK, ReleaseInv, ReleasedOnce, Taken
<1>1. CASE \E s \in Slots :
             /\ conn[s] = NoConn
             /\ conn' = [conn EXCEPT ![s] = c]
             /\ stage' = [stage EXCEPT ![s] = "head"]
             /\ buff' = [buff EXCEPT ![s] = FALSE]
             /\ sock' = [sock EXCEPT ![c] = "open"]
             /\ UNCHANGED overrun
  <2>1. PICK s \in Slots :
             /\ conn[s] = NoConn
             /\ conn' = [conn EXCEPT ![s] = c]
             /\ stage' = [stage EXCEPT ![s] = "head"]
             /\ buff' = [buff EXCEPT ![s] = FALSE]
             /\ sock' = [sock EXCEPT ![c] = "open"]
             /\ UNCHANGED overrun
    BY <1>1
  <2>2. UNCHANGED <<cgi, file, tail, opened, unsent, resets>>
    BY DEF httpdConnectCb
  <2>3. PoolTypeOK'
    BY <2>1, <2>2 DEF Stages, SockStates
  <2>4. ~cgi[s]
    BY <2>1
  <2>5. ReleaseInv'
    BY <2>1, <2>2, <2>4
  <2> QED
    BY <2>3, <2>5
<1>2. CASE /\ overrun' = TRUE
           /\ sock' = [sock EXCEPT ![c] = "refused"]
           /\ UNCHANGED <<conn, stage, buff>>
  <2>1. UNCHANGED <<cgi, file, tail, opened, unsent, resets>>
    BY DEF httpdConnectCb
  <2> QED
    BY <1>2, <2>1 DEF SockStates
<1> QED
  BY <1>1, <1>2 DEF httpdConnectCb

(* Data comes in, and may start a page function.                           *)
LEMMA RecvKeepsRelease ==
  ASSUME PoolTypeOK, ReleaseInv, NEW c \in Conns, httpdRecvCb(c)
  PROVE  PoolTypeOK' /\ ReleaseInv'
<1>1. UNCHANGED <<conn, sock, resets, overrun>>
  BY DEF httpdRecvCb
<1>2. PICK s \in Slots :
        /\ Finds(c, s)
        /\ \/ /\ stage[s] \in {"head", "post"}
              /\ httpdSendResp(s)
              /\ stage' = [stage EXCEPT ![s] = "done"]
              /\ UNCHANGED buff
           \/ /\ stage[s] = "head"
              /\ stage' = [stage EXCEPT ![s] = "post"]
              /\ buff' = [buff EXCEPT ![s] = TRUE]
              /\ UNCHANGED <<cgi, file, tail, opened, unsent>>
  BY DEF httpdRecvCb
<1>3. conn[s] = c /\ s \in Taken
  BY <1>2, PoolNumbers DEF Finds, Taken
<1>4. ~cgi[s] /\ opened[s] = 0
  BY <1>2 DEF ReleaseInv, ReleasedOnce
<1>5. CASE /\ httpdSendResp(s)
           /\ stage' = [stage EXCEPT ![s] = "done"]
           /\ UNCHANGED buff
  <2>1. unsent' \in [Conns -> 0 .. MaxSends]
    <3>1. PICK n \in Outstanding(conn[s], 0) : unsent' = [unsent EXCEPT ![conn[s]] = n]
      BY <1>5 DEF httpdSendResp
    <3>2. n \in 0 .. MaxSends
      BY <1>3, OutstandingInRange, PoolNumbers DEF PoolTypeOK
    <3> QED
      BY <3>1, <3>2, <1>3 DEF PoolTypeOK
  <2>2. CASE cgi' = [cgi EXCEPT ![s] = FALSE] /\ UNCHANGED <<file, tail, opened>>
    BY <1>1, <1>4, <1>5, <2>1, <2>2
       DEF PoolTypeOK, ReleaseInv, ReleasedOnce, Taken, Stages
  <2>3. CASE /\ cgi' = [cgi EXCEPT ![s] = TRUE]
             /\ \E blocks \in 0 .. MaxChunks : file' = [file EXCEPT ![s] = blocks]
             /\ \E t \in BOOLEAN : tail' = [tail EXCEPT ![s] = t]
             /\ opened' = [opened EXCEPT ![s] = @ + 1]
    <3>1. file' \in [Slots -> 0 .. MaxChunks] /\ tail' \in [Slots -> BOOLEAN]
      BY <2>3 DEF PoolTypeOK
    <3>2. opened' = [opened EXCEPT ![s] = 1]
      BY <2>3, <1>4
    <3>3. PoolTypeOK'
      BY <1>1, <1>5, <2>1, <2>3, <3>1, <3>2 DEF PoolTypeOK, Stages
    <3>4. ReleaseInv'
      BY <1>1, <1>3, <1>5, <2>3, <3>2 DEF PoolTypeOK, ReleaseInv, ReleasedOnce, Taken
    <3> QED
      BY <3>3, <3>4
  <2> QED
    BY <1>5, <2>2, <2>3 DEF httpdSendResp
<1>6. CASE /\ stage' = [stage EXCEPT ![s] = "post"]
           /\ buff' = [buff EXCEPT ![s] = TRUE]
           /\ UNCHANGED <<cgi, file, tail, opened, unsent>>
  BY <1>1, <1>3, <1>4, <1>6 DEF PoolTypeOK, ReleaseInv, ReleasedOnce, Taken, Stages
<1> QED
  BY <1>2, <1>5, <1>6

(* The page function is called again.                                      *)
LEMMA CgiKeepsRelease ==
  ASSUME PoolTypeOK, ReleaseInv, NEW c \in Conns, NEW s \in Slots,
         NEW k \in 1 .. unsent[c], cgi[s], cgiEspFs(s, c, k),
         UNCHANGED <<conn, stage, buff, sock, resets, overrun>>
  PROVE  PoolTypeOK' /\ ReleaseInv'
<1>1. /\ unsent[c] \in 0 .. MaxSends /\ k \in 0 .. unsent[c]
      /\ opened[s] = 1
  BY PoolNumbers DEF PoolTypeOK, ReleaseInv, ReleasedOnce
<1>2. ASSUME NEW n \in Outstanding(c, k), unsent' = [unsent EXCEPT ![c] = n]
      PROVE  unsent' \in [Conns -> 0 .. MaxSends]
  BY <1>1, <1>2, OutstandingInRange DEF PoolTypeOK
<1>3. ASSUME unsent' = [unsent EXCEPT ![c] = @ - k]
      PROVE  unsent' \in [Conns -> 0 .. MaxSends]
  BY <1>1, <1>3, OutstandingInRange DEF PoolTypeOK
<1>4. CASE /\ file[s] > 0
           /\ file' = [file EXCEPT ![s] = @ - 1]
           /\ \E n \in Outstanding(c, k) : unsent' = [unsent EXCEPT ![c] = n]
           /\ UNCHANGED <<cgi, tail, opened>>
  <2>1. file' \in [Slots -> 0 .. MaxChunks]
    BY <1>4, PoolNumbers DEF PoolTypeOK
  <2> QED
    BY <1>2, <1>4, <2>1 DEF PoolTypeOK, ReleaseInv, ReleasedOnce, Taken
<1>5. CASE /\ opened' = [opened EXCEPT ![s] = @ - 1]
           /\ cgi' = [cgi EXCEPT ![s] = FALSE]
           /\ \/ \E n \in Outstanding(c, k) : unsent' = [unsent EXCEPT ![c] = n]
              \/ unsent' = [unsent EXCEPT ![c] = @ - k]
           /\ tail' = [tail EXCEPT ![s] = TRUE]
           /\ UNCHANGED file
  <2>1. opened' = [opened EXCEPT ![s] = 0]
    BY <1>1, <1>5
  <2>2. unsent' \in [Conns -> 0 .. MaxSends]
    BY <1>2, <1>3, <1>5
  <2> QED
    BY <1>5, <2>1, <2>2 DEF PoolTypeOK, ReleaseInv, ReleasedOnce, Taken
<1> QED
  BY <1>4, <1>5 DEF cgiEspFs

(* A send is acknowledged.                                                 *)
LEMMA SentKeepsRelease ==
  ASSUME PoolTypeOK, ReleaseInv, NEW c \in Conns, httpdSentCb(c)
  PROVE  PoolTypeOK' /\ ReleaseInv'
<1>1. UNCHANGED <<resets, overrun>>
  BY DEF httpdSentCb
<1>2. PICK k \in 1 .. unsent[c] :
        \/ /\ Unknown(c)
           /\ unsent' = [unsent EXCEPT ![c] = @ - k]
           /\ UNCHANGED <<slots, sock>>
        \/ \E s \in Slots :
             /\ Finds(c, s) /\ ~cgi[s]
             /\ sock' = [sock EXCEPT ![c] = "closing"]
             /\ httpdRetireConn({s})
             /\ unsent' = [unsent EXCEPT ![c] = @ - k]
             /\ UNCHANGED opened
        \/ \E s \in Slots :
             /\ Finds(c, s) /\ cgi[s]
             /\ cgiEspFs(s, c, k)
             /\ UNCHANGED <<conn, stage, buff, sock>>
  BY DEF httpdSentCb
<1>3. ASSUME unsent' = [unsent EXCEPT ![c] = @ - k]
      PROVE  unsent' \in [Conns -> 0 .. MaxSends]
  <2>1. unsent[c] \in 0 .. MaxSends /\ k \in 0 .. unsent[c]
    BY PoolNumbers DEF PoolTypeOK
  <2> QED
    BY <1>3, <2>1, OutstandingInRange DEF PoolTypeOK
<1>4. CASE /\ unsent' = [unsent EXCEPT ![c] = @ - k]
           /\ UNCHANGED <<slots, sock>>
  BY <1>1, <1>3, <1>4 DEF slots, PoolTypeOK, ReleaseInv, ReleasedOnce, Taken
<1>5. ASSUME NEW s \in Slots, ~cgi[s],
             sock' = [sock EXCEPT ![c] = "closing"],
             httpdRetireConn({s}),
             unsent' = [unsent EXCEPT ![c] = @ - k],
             UNCHANGED opened
      PROVE  PoolTypeOK' /\ ReleaseInv'
  <2>1. /\ conn' \in [Slots -> Conns \cup {NoConn}]
        /\ cgi' \in [Slots -> BOOLEAN]
        /\ stage' \in [Slots -> Stages]
        /\ buff' \in [Slots -> BOOLEAN]
        /\ file' \in [Slots -> 0 .. MaxChunks]
        /\ tail' \in [Slots -> BOOLEAN]
        /\ \A r \in {s} : conn'[r] = NoConn /\ ~cgi'[r] /\ ~buff'[r]
        /\ \A r \in Slots \ {s} :
             /\ conn'[r] = conn[r] /\ stage'[r] = stage[r]
             /\ cgi'[r] <=> cgi[r]
             /\ buff'[r] <=> buff[r]
    BY <1>5, RetireFacts
  <2>2. PoolTypeOK'
    BY <1>1, <1>3, <1>5, <2>1 DEF PoolTypeOK, SockStates
  <2>3. opened[s] = 0
    BY <1>5 DEF ReleaseInv, ReleasedOnce
  <2>4. ReleaseInv'
    BY <1>5, <2>1, <2>3 DEF ReleaseInv, ReleasedOnce, Taken
  <2> QED
    BY <2>2, <2>4
<1>6. ASSUME NEW s \in Slots, cgi[s], cgiEspFs(s, c, k),
             UNCHANGED <<conn, stage, buff, sock>>
      PROVE  PoolTypeOK' /\ ReleaseInv'
  BY <1>1, <1>6, CgiKeepsRelease
<1> QED
  BY <1>2, <1>4, <1>5, <1>6

(* A connection's disconnect callback cleans up after all that are closed. *)
LEMMA DisconKeepsRelease ==
  ASSUME PoolTypeOK, ReleaseInv, NEW c \in Conns, httpdDisconCb(c)
  PROVE  PoolTypeOK' /\ ReleaseInv'
<1>1. /\ sock' = [sock EXCEPT ![c] = "free"]
      /\ UNCHANGED <<unsent, resets, overrun>>
  BY DEF httpdDisconCb
<1>2. PICK R \in SUBSET Slots :
        /\ httpdRetireConn(R)
        /\ opened' = [s \in Slots |-> IF s \in R /\ cgi[s] THEN opened[s] - 1
                                                         ELSE opened[s]]
  BY DEF httpdDisconCb, Taken
<1>3. /\ conn' \in [Slots -> Conns \cup {NoConn}]
      /\ cgi' \in [Slots -> BOOLEAN]
      /\ stage' \in [Slots -> Stages]
      /\ buff' \in [Slots -> BOOLEAN]
      /\ file' \in [Slots -> 0 .. MaxChunks]
      /\ tail' \in [Slots -> BOOLEAN]
      /\ \A r \in R : conn'[r] = NoConn /\ ~cgi'[r] /\ ~buff'[r]
      /\ \A r \in Slots \ R :
           /\ conn'[r] = conn[r] /\ stage'[r] = stage[r]
           /\ cgi'[r] <=> cgi[r]
           /\ buff'[r] <=> buff[r]
  BY <1>2, RetireFacts
<1>4. \A s \in Slots : opened[s] = IF cgi[s] THEN 1 ELSE 0
  BY DEF ReleaseInv, ReleasedOnce
<1>5. \A s \in Slots : opened'[s] = IF s \in R THEN 0 ELSE opened[s]
  BY <1>2, <1>4
<1>6. opened' \in [Slots -> Nat]
  BY <1>2, <1>4
<1>7. PoolTypeOK'
  BY <1>1, <1>3, <1>6 DEF PoolTypeOK, SockStates
<1>8. ReleaseInv'
  BY <1>3, <1>5 DEF ReleaseInv, ReleasedOnce, Taken
<1> QED
  BY <1>7, <1>8

(* The stack tears a connection down, or ends it.                          *)
LEMMA StackKeepsRelease ==
  ASSUME PoolTypeOK, ReleaseInv, NEW c \in Conns, httpdReconCb(c) \/ Close(c)
  PROVE  PoolTypeOK' /\ ReleaseInv'
<1>1. unsent' \in [Conns -> 0 .. MaxSends]
  BY PoolNumbers DEF PoolTypeOK, httpdReconCb, Close
<1>2. resets' \in 0 .. MaxResets
  BY PoolNumbers DEF PoolTypeOK, httpdReconCb, Close
<1>3. sock' \in [Conns -> SockStates]
  BY DEF PoolTypeOK, httpdReconCb, Close, SockStates
<1>4. UNCHANGED <<slots, overrun>>
  BY DEF httpdReconCb, Close
<1> QED
  BY <1>1, <1>2, <1>3, <1>4 DEF slots, PoolTypeOK, ReleaseInv, ReleasedOnce, Taken

LEMMA PoolStarts == PoolInit => PoolTypeOK /\ ReleaseInv
<1> SUFFICES ASSUME PoolInit PROVE PoolTypeOK /\ ReleaseInv
  OBVIOUS
<1>0. 0 \in 0 .. MaxChunks /\ 0 \in 0 .. MaxSends /\ 0 \in 0 .. MaxResets
  BY PoolNumbers
<1>1. PoolTypeOK
  BY <1>0 DEF PoolInit, PoolTypeOK, Stages, SockStates
<1>2. ReleaseInv
  BY DEF PoolInit, ReleaseInv, ReleasedOnce, Taken
<1> QED
  BY <1>1, <1>2

LEMMA PoolStep ==
  PoolTypeOK /\ ReleaseInv /\ [PoolNext]_poolVars => (PoolTypeOK /\ ReleaseInv)'
<1> SUFFICES ASSUME PoolTypeOK, ReleaseInv, [PoolNext]_poolVars
             PROVE  PoolTypeOK' /\ ReleaseInv'
  OBVIOUS
<1>1. CASE UNCHANGED poolVars
  BY <1>1 DEF poolVars, slots, PoolTypeOK, ReleaseInv, ReleasedOnce, Taken
<1> QED
  BY <1>1, ConnectKeepsRelease, RecvKeepsRelease, SentKeepsRelease,
     DisconKeepsRelease, StackKeepsRelease DEF PoolNext

(* The types of the pool, and that no counter of open files or of sends    *)
(* that are outstanding ever goes below zero.                              *)
THEOREM PoolTypeCorrect == PoolSpec => []PoolTypeOK
  BY PoolStarts, PoolStep, PTL DEF PoolSpec

(* Whatever ends a connection, its file is closed and closed once, and a   *)
(* free slot holds neither a file nor a buffer.                            *)
THEOREM FilesReleasedOnce == PoolSpec => []ReleasedOnce
<1>1. ReleaseInv => ReleasedOnce
  BY DEF ReleaseInv
<1> QED
  BY <1>1, PoolStarts, PoolStep, PTL DEF PoolSpec

-----------------------------------------------------------------------------
(* Which slots an action fills and empties.                                *)

(* A slot that is given up, or a slot left as it was.                      *)
GivesUp(R) ==
  /\ R \subseteq Taken
  /\ conn' = [s \in Slots |-> IF s \in R THEN NoConn ELSE conn[s]]

(* What each callback does to the slots and the connections, the rest of   *)
(* the state left out.                                                     *)
Connects(c) ==
  /\ sock[c] = "free"
  /\ resets' = resets
  /\ \/ \E s \in Slots \ Taken :
          /\ conn' = [conn EXCEPT ![s] = c]
          /\ sock' = [sock EXCEPT ![c] = "open"]
          /\ overrun' = overrun
     \/ /\ Taken = Slots /\ Cardinality(Live) < MaxOpen
        /\ sock' = [sock EXCEPT ![c] = "refused"]
        /\ conn' = conn

Finishes(c) ==
  /\ sock[c] \in {"open", "closing"}
  /\ UNCHANGED <<resets, overrun>>
  /\ \E s \in Taken : conn[s] = c /\ GivesUp({s})
  /\ sock' = [sock EXCEPT ![c] = "closing"]

CleansUp(c) ==
  /\ sock[c] = "closed"
  /\ UNCHANGED <<resets, overrun>>
  /\ \E guess \in SUBSET {s \in Taken : sock[conn[s]] = "free"} :
       GivesUp({s \in Taken : sock[conn[s]] = "closed"} \cup guess)
  /\ sock' = [sock EXCEPT ![c] = "free"]

Drops(c) ==
  /\ sock[c] \in {"open", "closing"}
  /\ resets' = resets + 1
  /\ UNCHANGED <<conn, overrun>>
  /\ sock' = [sock EXCEPT ![c] = "free"]

Ends(c) ==
  /\ UNCHANGED <<conn, resets, overrun>>
  /\ \/ /\ sock[c] \in {"open", "closing"}
        /\ sock' = [sock EXCEPT ![c] = "closed"]
     \/ /\ sock[c] = "refused"
        /\ sock' = [sock EXCEPT ![c] = "free"]

Rests == UNCHANGED <<conn, sock, resets, overrun>>

(* Every step is one of these.                                             *)
LEMMA SlotSteps ==
  ASSUME PoolTypeOK, [PoolNext]_poolVars
  PROVE  \/ Rests
         \/ \E c \in Conns : Connects(c) \/ Finishes(c) \/ CleansUp(c)
                               \/ Drops(c) \/ Ends(c)
<1>1. ASSUME NEW c \in Conns, httpdConnectCb(c) PROVE Connects(c)
  BY <1>1 DEF httpdConnectCb, Connects, Taken
<1>2. ASSUME NEW c \in Conns, httpdRecvCb(c) PROVE Rests
  BY <1>2 DEF httpdRecvCb, Rests
<1>3. ASSUME NEW c \in Conns, httpdSentCb(c) PROVE Rests \/ Finishes(c)
  <2>1. CASE UNCHANGED <<conn, sock>>
    BY <1>3, <2>1 DEF httpdSentCb, Rests
  <2>2. CASE \E s \in Slots : /\ Finds(c, s)
                             /\ sock' = [sock EXCEPT ![c] = "closing"]
                             /\ httpdRetireConn({s})
    <3>1. PICK s \in Slots : /\ Finds(c, s)
                             /\ sock' = [sock EXCEPT ![c] = "closing"]
                             /\ httpdRetireConn({s})
      BY <2>2
    <3>2. conn[s] = c /\ s \in Taken
      BY <3>1, PoolNumbers DEF Finds, Taken
    <3>3. GivesUp({s})
      BY <3>1, <3>2 DEF GivesUp, httpdRetireConn
    <3> QED
      BY <1>3, <3>1, <3>2, <3>3 DEF Finishes, httpdSentCb
  <2> QED
    BY <1>3, <2>1, <2>2 DEF httpdSentCb, slots
<1>4. ASSUME NEW c \in Conns, httpdDisconCb(c) PROVE CleansUp(c)
  BY <1>4 DEF httpdDisconCb, CleansUp, GivesUp, httpdRetireConn
<1>5. ASSUME NEW c \in Conns, httpdReconCb(c) PROVE Drops(c)
  BY <1>5 DEF httpdReconCb, Drops, slots
<1>6. ASSUME NEW c \in Conns, Close(c) PROVE Ends(c)
  BY <1>6 DEF Close, Ends, slots, PoolTypeOK
<1>7. CASE UNCHANGED poolVars
  BY <1>7 DEF poolVars, slots, Rests
<1> QED
  BY <1>1, <1>2, <1>3, <1>4, <1>5, <1>6, <1>7 DEF PoolNext

(* Without errors an address leads to its own slot: inductive by itself.   *)
LEMMA OwnSlotStep ==
  PoolTypeOK /\ OwnSlot /\ [PoolNext]_poolVars => OwnSlot'
<1> SUFFICES ASSUME PoolTypeOK, OwnSlot, [PoolNext]_poolVars, resets' = 0
             PROVE  /\ \A s \in Taken' : sock'[conn'[s]] \in {"open", "closed"}
                    /\ \A s, t \in Taken' : conn'[s] = conn'[t] => s = t
                    /\ \A c \in Conns : sock'[c] = "open" => \E s \in Slots : conn'[s] = c
  BY DEF OwnSlot
<1>0. /\ conn \in [Slots -> Conns \cup {NoConn}]
      /\ sock \in [Conns -> SockStates]
      /\ resets \in Nat
      /\ NoConn \notin Conns
  BY PoolNumbers DEF PoolTypeOK
<1>1. ~ \E c \in Conns : Drops(c)
  BY <1>0 DEF Drops
<1>2. resets = 0
  BY <1>1, SlotSteps DEF Rests, Connects, Finishes, CleansUp, Ends
<1>3. /\ \A s \in Taken : sock[conn[s]] \in {"open", "closed"}
      /\ \A s, t \in Taken : conn[s] = conn[t] => s = t
      /\ \A c \in Conns : sock[c] = "open" => \E s \in Slots : conn[s] = c
  BY <1>2 DEF OwnSlot
<1> USE <1>0, <1>3 DEF Taken
<1>4. CASE Rests
  BY <1>4 DEF Rests
<1>5. ASSUME NEW c \in Conns, Connects(c)
      PROVE  /\ \A s \in Taken' : sock'[conn'[s]] \in {"open", "closed"}
             /\ \A s, t \in Taken' : conn'[s] = conn'[t] => s = t
             /\ \A d \in Conns : sock'[d] = "open" => \E s \in Slots : conn'[s] = d
  <2>1. \A s \in Taken : conn[s] # c
    BY <1>5 DEF Connects
  <2>2. ASSUME NEW s \in Slots \ Taken,
               conn' = [conn EXCEPT ![s] = c], sock' = [sock EXCEPT ![c] = "open"]
        PROVE  /\ \A r \in Taken' : sock'[conn'[r]] \in {"open", "closed"}
               /\ \A r, t \in Taken' : conn'[r] = conn'[t] => r = t
               /\ \A d \in Conns : sock'[d] = "open" => \E r \in Slots : conn'[r] = d
    BY <2>1, <2>2
  <2>3. CASE sock' = [sock EXCEPT ![c] = "refused"] /\ conn' = conn
    BY <2>1, <2>3
  <2> QED
    BY <1>5, <2>2, <2>3 DEF Connects
<1>6. ASSUME NEW c \in Conns, Finishes(c)
      PROVE  /\ \A s \in Taken' : sock'[conn'[s]] \in {"open", "closed"}
             /\ \A s, t \in Taken' : conn'[s] = conn'[t] => s = t
             /\ \A d \in Conns : sock'[d] = "open" => \E s \in Slots : conn'[s] = d
  BY <1>6 DEF Finishes, GivesUp
<1>7. ASSUME NEW c \in Conns, CleansUp(c)
      PROVE  /\ \A s \in Taken' : sock'[conn'[s]] \in {"open", "closed"}
             /\ \A s, t \in Taken' : conn'[s] = conn'[t] => s = t
             /\ \A d \in Conns : sock'[d] = "open" => \E s \in Slots : conn'[s] = d
  BY <1>7 DEF CleansUp, GivesUp
<1>8. ASSUME NEW c \in Conns, Ends(c)
      PROVE  /\ \A s \in Taken' : sock'[conn'[s]] \in {"open", "closed"}
             /\ \A s, t \in Taken' : conn'[s] = conn'[t] => s = t
             /\ \A d \in Conns : sock'[d] = "open" => \E s \in Slots : conn'[s] = d
  BY <1>8 DEF Ends
<1> QED
  BY <1>1, <1>4, <1>5, <1>6, <1>7, <1>8, SlotSteps

(* As long as no connection is torn down by an error, a callback that      *)
(* looks its connection up finds the slot of that connection, however the  *)
(* callbacks of the connections interleave and addresses are used again.   *)
THEOREM CallbacksFindTheirSlot == PoolSpec => []OwnSlot
<1>1. PoolInit => OwnSlot
  BY DEF PoolInit, OwnSlot, Taken
<1> QED
  BY <1>1, PoolStarts, PoolStep, OwnSlotStep, PTL DEF PoolSpec

-----------------------------------------------------------------------------
(* How many slots there are to connections.                                *)

(* The connections that are not yet given back and have a slot.            *)
Held ==
  {c \in Conns : /\ sock[c] \in {"open", "closing", "closed"}
                 /\ \E s \in Slots : conn[s] = c}

(* A slot that no connection answers for has been left by an error: there  *)
(* are no more of them than errors.                                        *)
SlotsAccounted == Cardinality(Taken) <= Cardinality(Held) + resets

LEMMA FiniteSlots ==
  /\ IsFiniteSet(Slots) /\ Cardinality(Slots) = MAX_CONN
  /\ \A S \in SUBSET Slots : IsFiniteSet(S) /\ Cardinality(S) \in Nat
  /\ \A C \in SUBSET Conns : IsFiniteSet(C) /\ Cardinality(C) \in Nat
<1>1. IsFiniteSet(Slots) /\ Cardinality(Slots) = MAX_CONN
  <2>1. 0 \in Int /\ MAX_CONN - 1 \in Int /\ ~(0 > MAX_CONN - 1)
        /\ MAX_CONN - 1 - 0 + 1 = MAX_CONN
    BY PoolNumbers
  <2> QED
    BY <2>1, FS_Interval DEF Slots
<1> QED
  BY <1>1, HttpdAssumption, FS_Subset, FS_CardinalityType

(* Adding at most one element to a finite set, or taking one away.         *)
LEMMA OneMore ==
  ASSUME NEW S, IsFiniteSet(S), NEW x
  PROVE  /\ x \notin S => Cardinality(S \cup {x}) = Cardinality(S) + 1
         /\ x \in S => Cardinality(S \ {x}) = Cardinality(S) - 1
         /\ Cardinality(S \ {x}) >= Cardinality(S) - 1
         /\ Cardinality(S) \in Nat
         /\ Cardinality(S \ {x}) \in Nat
<1>1. Cardinality(S \cup {x}) = IF x \in S THEN Cardinality(S) ELSE Cardinality(S) + 1
  BY FS_AddElement
<1>2. /\ IsFiniteSet(S \ {x})
      /\ Cardinality(S \ {x}) = IF x \in S THEN Cardinality(S) - 1 ELSE Cardinality(S)
  BY FS_RemoveElement
<1>3. Cardinality(S) \in Nat /\ Cardinality(S \ {x}) \in Nat
  BY <1>2, FS_CardinalityType
<1> QED
  BY <1>1, <1>2, <1>3

LEMMA TakenAway ==
  ASSUME NEW S, IsFiniteSet(S), NEW T, T \subseteq S
  PROVE  /\ IsFiniteSet(S \ T)
         /\ Cardinality(S \ T) = Cardinality(S) - Cardinality(T)
<1>1. S \cap T = T
  OBVIOUS
<1>2. /\ IsFiniteSet(S \ T)
      /\ Cardinality(S \ T) = Cardinality(S) - Cardinality(S \cap T)
  BY FS_Difference, Zenon
<1> QED
  BY <1>1, <1>2, Zenon

(* When every connection of D has one of the slots R, giving up R frees at *)
(* least as many slots as D has connections.                               *)
LEMMA AtLeastAsMany ==
  ASSUME NEW R \in SUBSET Slots, NEW D \in SUBSET Conns,
         \A c \in D : \E s \in R : conn[s] = c
  PROVE  Cardinality(D) <= Cardinality(R)
<1> DEFINE f == [c \in D |-> CHOOSE s \in R : conn[s] = c]
<1>1. \A c \in D : f[c] \in R /\ conn[f[c]] = c
  OBVIOUS
<1>2. f \in Injection(D, R)
  BY <1>1 DEF Injection, IsInjective
<1> QED
  BY <1>2, FiniteSlots, FS_Injection

(* A connection that comes in adds a slot and a connection that holds it;  *)
(* an error takes away a connection, and adds to the number of errors; a   *)
(* slot is given up with the connection it belonged to.                    *)
LEMMA AccountedStep ==
  PoolTypeOK /\ SlotsAccounted /\ [PoolNext]_poolVars => SlotsAccounted'
<1> SUFFICES ASSUME PoolTypeOK, SlotsAccounted, [PoolNext]_poolVars
             PROVE  SlotsAccounted'
  OBVIOUS
<1>0. /\ conn \in [Slots -> Conns \cup {NoConn}]
      /\ sock \in [Conns -> SockStates]
      /\ resets \in Nat
      /\ NoConn \notin Conns
  BY PoolNumbers DEF PoolTypeOK
<1>1. /\ IsFiniteSet(Taken) /\ Cardinality(Taken) \in Nat
      /\ IsFiniteSet(Held) /\ Cardinality(Held) \in Nat
      /\ Cardinality(Taken) <= Cardinality(Held) + resets
  BY FiniteSlots DEF Taken, Held, SlotsAccounted
<1>2. /\ IsFiniteSet(Taken') /\ Cardinality(Taken') \in Nat
      /\ IsFiniteSet(Held') /\ Cardinality(Held') \in Nat
  BY FiniteSlots DEF Taken, Held
<1>3. CASE Rests
  BY <1>3, <1>1 DEF Rests, SlotsAccounted, Taken, Held
<1>4. ASSUME NEW c \in Conns, Connects(c) PROVE SlotsAccounted'
  <2>1. c \notin Held /\ resets' = resets
    BY <1>4 DEF Connects, Held
  <2>2. ASSUME NEW s \in Slots \ Taken,
               conn' = [conn EXCEPT ![s] = c], sock' = [sock EXCEPT ![c] = "open"]
        PROVE  Taken' = Taken \cup {s} /\ Held' = Held \cup {c}
    BY <1>0, <2>2 DEF Taken, Held
  <2>3. CASE \E s \in Slots \ Taken : /\ conn' = [conn EXCEPT ![s] = c]
                                    /\ sock' = [sock EXCEPT ![c] = "open"]
    <3>1. PICK s \in Slots \ Taken : Taken' = Taken \cup {s} /\ Held' = Held \cup {c}
      BY <2>2, <2>3
    <3>2. Cardinality(Taken') = Cardinality(Taken) + 1
      BY <1>1, <3>1, OneMore
    <3>3. Cardinality(Held') = Cardinality(Held) + 1
      BY <1>1, <2>1, <3>1, OneMore
    <3> QED
      BY <1>0, <1>1, <2>1, <3>2, <3>3 DEF SlotsAccounted
  <2>4. CASE sock' = [sock EXCEPT ![c] = "refused"] /\ conn' = conn
    <3>1. Taken' = Taken /\ Held' = Held
      BY <1>0, <2>1, <2>4, <1>4 DEF Taken, Held, Connects
    <3> QED
      BY <1>1, <2>1, <3>1 DEF SlotsAccounted
  <2> QED
    BY <1>4, <2>3, <2>4 DEF Connects
<1>5. ASSUME NEW c \in Conns, Finishes(c) PROVE SlotsAccounted'
  <2>1. PICK s \in Taken : conn[s] = c /\ GivesUp({s})
    BY <1>5 DEF Finishes
  <2>2. Taken' = Taken \ {s}
    BY <1>0, <2>1 DEF GivesUp, Taken
  <2>3. Held \ {c} \subseteq Held'
    BY <1>0, <1>5, <2>1 DEF GivesUp, Held, Finishes
  <2>4. Cardinality(Held \ {c}) <= Cardinality(Held')
    BY <1>2, <2>3, FS_Subset
  <2>5. Cardinality(Held \ {c}) >= Cardinality(Held) - 1 /\ Cardinality(Held \ {c}) \in Nat
    BY <1>1, OneMore
  <2>6. Cardinality(Taken') = Cardinality(Taken) - 1
    BY <1>1, <2>2, OneMore
  <2>7. resets' = resets
    BY <1>5 DEF Finishes
  <2> QED
    BY <1>0, <1>1, <1>2, <2>4, <2>5, <2>6, <2>7 DEF SlotsAccounted
<1>6. ASSUME NEW c \in Conns, CleansUp(c) PROVE SlotsAccounted'
  <2> DEFINE R == {s \in Taken : sock[conn[s]] = "closed"}
             D == {d \in Held : sock[d] = "closed"}
  <2>1. resets' = resets
    BY <1>6 DEF CleansUp
  <2>2. Taken' \subseteq Taken \ R
    BY <1>0, <1>6 DEF CleansUp, GivesUp, Taken
  <2>3. Held \ D \subseteq Held'
    BY <1>0, <1>6 DEF CleansUp, GivesUp, Held, Taken
  <2>4. Cardinality(D) <= Cardinality(R)
    <3>1. \A d \in D : \E s \in R : conn[s] = d
      BY <1>0 DEF Held, Taken
    <3>2. R \in SUBSET Slots /\ D \in SUBSET Conns
      BY DEF Held, Taken
    <3> HIDE DEF R, D
    <3> QED
      BY <3>1, <3>2, AtLeastAsMany
  <2>5. /\ R \subseteq Taken /\ IsFiniteSet(R) /\ Cardinality(R) \in Nat
        /\ D \subseteq Held /\ IsFiniteSet(D) /\ Cardinality(D) \in Nat
    BY FiniteSlots DEF Taken, Held
  <2> HIDE DEF R, D
  <2>6. /\ IsFiniteSet(Taken \ R) /\ Cardinality(Taken \ R) = Cardinality(Taken) - Cardinality(R)
        /\ IsFiniteSet(Held \ D) /\ Cardinality(Held \ D) = Cardinality(Held) - Cardinality(D)
    BY <1>1, <2>5, TakenAway
  <2>7. Cardinality(Taken') <= Cardinality(Taken \ R)
    BY <2>2, <2>6, FS_Subset
  <2>8. Cardinality(Held \ D) <= Cardinality(Held')
    BY <1>2, <2>3, FS_Subset
  <2> QED
    BY <1>0, <1>1, <1>2, <2>1, <2>4, <2>5, <2>6, <2>7, <2>8 DEF SlotsAccounted
<1>7. ASSUME NEW c \in Conns, Drops(c) PROVE SlotsAccounted'
  <2>1. Taken' = Taken /\ resets' = resets + 1
    BY <1>7 DEF Drops, Taken
  <2>2. Held' = Held \ {c}
    BY <1>0, <1>7 DEF Drops, Held
  <2>3. Cardinality(Held') >= Cardinality(Held) - 1
    BY <1>1, <2>2, OneMore
  <2> QED
    BY <1>0, <1>1, <1>2, <2>1, <2>3 DEF SlotsAccounted
<1>8. ASSUME NEW c \in Conns, Ends(c) PROVE SlotsAccounted'
  <2>1. Taken' = Taken /\ Held' = Held /\ resets' = resets
    BY <1>0, <1>8 DEF Ends, Held, Taken
  <2> QED
    BY <1>1, <2>1 DEF SlotsAccounted
<1> QED
  BY <1>3, <1>4, <1>5, <1>6, <1>7, <1>8, SlotSteps

(* The pool is found full only when errors have left too many slots.       *)
LEMMA SufficesStep ==
  PoolTypeOK /\ SlotsAccounted /\ PoolSuffices /\ [PoolNext]_poolVars => PoolSuffices'
<1> SUFFICES ASSUME PoolTypeOK, SlotsAccounted, PoolSuffices, [PoolNext]_poolVars,
                    overrun'
             PROVE  resets' > MAX_CONN - MaxOpen
  BY DEF PoolSuffices
<1>0. resets \in Nat /\ MAX_CONN \in Nat /\ MaxOpen \in Nat
  BY PoolNumbers DEF PoolTypeOK
<1>1. CASE overrun' = overrun /\ resets' \in {resets, resets + 1}
  <2>1. resets > MAX_CONN - MaxOpen
    BY <1>1 DEF PoolSuffices
  <2> QED
    BY <1>0, <1>1, <2>1
<1>2. ASSUME Taken = Slots, Cardinality(Live) < MaxOpen, resets' = resets
      PROVE  resets' > MAX_CONN - MaxOpen
  <2>1. Held \subseteq Live /\ IsFiniteSet(Live) /\ Cardinality(Live) \in Nat
    BY FiniteSlots DEF Held, Live
  <2>2. Cardinality(Held) <= Cardinality(Live) /\ Cardinality(Held) \in Nat
    BY <2>1, FS_Subset, FiniteSlots DEF Held
  <2>3. MAX_CONN <= Cardinality(Held) + resets
    BY <1>2, FiniteSlots DEF SlotsAccounted
  <2> QED
    BY <1>0, <1>2, <2>1, <2>2, <2>3
<1> QED
  BY <1>1, <1>2, SlotSteps DEF Rests, Connects, Finishes, CleansUp, Drops, Ends

(* MAX_CONN slots are enough for the MaxOpen connections of the stack: the *)
(* pool is overrun only after more errors than it has slots to spare.      *)
THEOREM PoolIsEnough == PoolSpec => []PoolSuffices
<1>1. PoolInit => SlotsAccounted /\ PoolSuffices
  <2> SUFFICES ASSUME PoolInit PROVE SlotsAccounted /\ PoolSuffices
    OBVIOUS
  <2>1. Taken = {} /\ resets = 0 /\ ~overrun
    BY DEF PoolInit, Taken
  <2>2. Cardinality(Held) \in Nat
    BY FiniteSlots DEF Held
  <2> QED
    BY <2>1, <2>2, FS_EmptySet DEF SlotsAccounted, PoolSuffices
<1> QED
  BY <1>1, PoolStarts, PoolStep, AccountedStep, SufficesStep, PTL DEF PoolSpec

(* An error costs at most one slot, for good or until the address is used  *)
(* again: never are more slots taken than there are connections and were   *)
(* errors.                                                                 *)
THEOREM ErrorsCostOneSlot ==
  PoolSpec => [](Cardinality(Taken) <= Cardinality(Live) + resets)
<1>1. PoolInit => SlotsAccounted
  <2> SUFFICES ASSUME PoolInit PROVE SlotsAccounted
    OBVIOUS
  <2>1. Taken = {} /\ resets = 0
    BY DEF PoolInit, Taken
  <2>2. Cardinality(Held) \in Nat
    BY FiniteSlots DEF Held
  <2> QED
    BY <2>1, <2>2, FS_EmptySet DEF SlotsAccounted
<1>2. PoolTypeOK /\ SlotsAccounted => Cardinality(Taken) <= Cardinality(Live) + resets
  <2> SUFFICES ASSUME PoolTypeOK, SlotsAccounted
               PROVE  Cardinality(Taken) <= Cardinality(Live) + resets
    OBVIOUS
  <2>1. Held \subseteq Live /\ IsFiniteSet(Live) /\ Cardinality(Live) \in Nat
    BY FiniteSlots DEF Held, Live
  <2>2. Cardinality(Held) <= Cardinality(Live) /\ Cardinality(Held) \in Nat
    BY <2>1, FS_Subset, FiniteSlots DEF Held
  <2>3. Cardinality(Taken) \in Nat /\ resets \in Nat
    BY FiniteSlots, PoolNumbers DEF Taken, PoolTypeOK
  <2> QED
    BY <2>1, <2>2, <2>3 DEF SlotsAccounted
<1> QED
  BY <1>1, <1>2, PoolStarts, PoolStep, AccountedStep, PTL DEF PoolSpec

-----------------------------------------------------------------------------
(* The start of meter and Wi-Fi module.                                    *)

(* What may come behind the piece a: behind the head of a line of settings *)
(* one of the numbers P, behind a number the newline.                      *)
Follows(a, b, P) == (a = "head" => b \in P) /\ (a \in Settings => b = "newline")

Chained(q, P) == \A i \in 1 .. Len(q) - 1 : Follows(q[i], q[i + 1], P)

(* Lines that are complete.                                                *)
Ended(q) == q = <<>> \/ q[Len(q)] = "newline"

(* The sequence facts the proofs below need, over one set of pieces.       *)
LEMMA JoinFacts ==
  ASSUME NEW p \in Seq(Pieces), NEW q \in Seq(Pieces)
  PROVE  /\ p \o q \in Seq(Pieces)
         /\ Len(p) \in Nat /\ Len(q) \in Nat
         /\ Len(p \o q) = Len(p) + Len(q)
         /\ \A i \in 1 .. Len(p) : (p \o q)[i] = p[i]
         /\ \A i \in 1 .. Len(q) : (p \o q)[Len(p) + i] = q[i]
         /\ p \o q = <<>> <=> p = <<>> /\ q = <<>>
<1>1. /\ p \o q \in Seq(Pieces)
      /\ Len(p) \in Nat /\ Len(q) \in Nat
      /\ Len(p \o q) = Len(p) + Len(q)
      /\ \A i \in 1 .. Len(p) + Len(q) :
           (p \o q)[i] = IF i <= Len(p) THEN p[i] ELSE q[i - Len(p)]
  BY ConcatProperties, LenProperties
<1>2. p \o q = <<>> <=> p = <<>> /\ q = <<>>
  BY ConcatEqualIffEmpty
<1>3. ASSUME NEW i \in 1 .. Len(q) PROVE (p \o q)[Len(p) + i] = q[i]
  <2>1. Len(p) + i \in 1 .. Len(p) + Len(q) /\ ~(Len(p) + i <= Len(p))
        /\ Len(p) + i - Len(p) = i
    BY <1>1
  <2> QED
    BY <1>1, <2>1
<1>4. ASSUME NEW i \in 1 .. Len(p) PROVE (p \o q)[i] = p[i]
  <2>1. i \in 1 .. Len(p) + Len(q) /\ i <= Len(p)
    BY <1>1
  <2> QED
    BY <1>1, <2>1
<1> QED
  BY <1>1, <1>2, <1>3, <1>4

LEMMA RestFacts ==
  ASSUME NEW q \in Seq(Pieces), q # <<>>
  PROVE  /\ Tail(q) \in Seq(Pieces) /\ Head(q) \in Pieces /\ Head(q) = q[1]
         /\ Len(q) \in Nat \ {0} /\ Len(Tail(q)) = Len(q) - 1
         /\ \A i \in 1 .. Len(q) - 1 : Tail(q)[i] = q[i + 1]
         /\ Tail(q) = <<>> <=> Len(q) = 1
<1>1. /\ Tail(q) \in Seq(Pieces) /\ Head(q) \in Pieces /\ Head(q) = q[1]
      /\ Len(q) \in Nat \ {0} /\ Len(Tail(q)) = Len(q) - 1
      /\ \A i \in 1 .. Len(q) - 1 : Tail(q)[i] = q[i + 1]
  BY HeadTailProperties, EmptySeq
<1>2. Tail(q) = <<>> <=> Len(Tail(q)) = 0
  BY <1>1, EmptySeq
<1> QED
  BY <1>1, <1>2

LEMMA AddFacts ==
  ASSUME NEW q \in Seq(Pieces), NEW x \in Pieces
  PROVE  /\ Append(q, x) \in Seq(Pieces)
         /\ Len(q) \in Nat /\ Len(Append(q, x)) = Len(q) + 1
         /\ \A i \in 1 .. Len(q) : Append(q, x)[i] = q[i]
         /\ Append(q, x)[Len(q) + 1] = x
         /\ Append(q, x) # <<>>
  BY AppendProperties, LenProperties

(* A piece that moves from the front of one sequence to the end of another *)
(* leaves what they are together as it was.                                *)
LEMMA MovedPiece ==
  ASSUME NEW p \in Seq(Pieces), NEW q \in Seq(Pieces), q # <<>>
  PROVE  Append(p, Head(q)) \o Tail(q) = p \o q
<1>1. /\ Tail(q) \in Seq(Pieces) /\ Head(q) \in Pieces /\ Head(q) = q[1]
      /\ Len(q) \in Nat \ {0} /\ Len(Tail(q)) = Len(q) - 1
      /\ \A i \in 1 .. Len(q) - 1 : Tail(q)[i] = q[i + 1]
  BY RestFacts
<1>2. /\ Append(p, Head(q)) \in Seq(Pieces)
      /\ Len(p) \in Nat /\ Len(Append(p, Head(q))) = Len(p) + 1
      /\ \A i \in 1 .. Len(p) : Append(p, Head(q))[i] = p[i]
      /\ Append(p, Head(q))[Len(p) + 1] = Head(q)
  BY <1>1, AddFacts
<1> DEFINE l == Append(p, Head(q)) \o Tail(q)
           r == p \o q
<1>3. /\ l \in Seq(Pieces) /\ Len(l) = Len(p) + Len(q)
      /\ \A i \in 1 .. Len(p) + 1 : l[i] = Append(p, Head(q))[i]
      /\ \A i \in 1 .. Len(q) - 1 : l[Len(p) + 1 + i] = Tail(q)[i]
  BY <1>1, <1>2, JoinFacts
<1>4. /\ r \in Seq(Pieces) /\ Len(r) = Len(p) + Len(q)
      /\ \A i \in 1 .. Len(p) : r[i] = p[i]
      /\ \A i \in 1 .. Len(q) : r[Len(p) + i] = q[i]
  BY JoinFacts
<1> HIDE DEF l, r
<1>5. ASSUME NEW i \in 1 .. Len(p) + Len(q) PROVE l[i] = r[i]
  <2>1. CASE i \in 1 .. Len(p)
    BY <1>1, <1>2, <1>3, <1>4, <2>1
  <2>2. CASE i = Len(p) + 1
    BY <1>1, <1>2, <1>3, <1>4, <2>2
  <2>3. CASE i > Len(p) + 1
    <3>1. PICK j \in 1 .. Len(q) - 1 : i = Len(p) + 1 + j
      <4>1. i - (Len(p) + 1) \in 1 .. Len(q) - 1 /\ i = Len(p) + 1 + (i - (Len(p) + 1))
        BY <1>1, <1>2, <2>3
      <4> QED
        BY <4>1
    <3>2. l[i] = q[j + 1]
      BY <1>1, <1>3, <3>1
    <3>3. j + 1 \in 1 .. Len(q) /\ i = Len(p) + (j + 1)
      BY <1>1, <1>2, <3>1
    <3>4. r[i] = q[j + 1]
      BY <1>4, <3>3
    <3> QED
      BY <3>2, <3>4
  <2> QED
    BY <1>1, <1>2, <2>1, <2>2, <2>3
<1>6. l = r
  BY <1>3, <1>4, <1>5, SeqEqual
<1> QED
  BY <1>6 DEF l, r

(* Complete lines one behind the other are complete lines.                 *)
LEMMA ChainJoined ==
  ASSUME NEW p \in Seq(Pieces), NEW q \in Seq(Pieces), NEW P,
         Chained(p, P), Chained(q, P), Ended(p)
  PROVE  Chained(p \o q, P)
<1>1. /\ Len(p) \in Nat /\ Len(q) \in Nat
      /\ Len(p \o q) = Len(p) + Len(q)
      /\ \A i \in 1 .. Len(p) : (p \o q)[i] = p[i]
      /\ \A i \in 1 .. Len(q) : (p \o q)[Len(p) + i] = q[i]
  BY JoinFacts
<1> DEFINE r == p \o q
<1> HIDE DEF r
<1>2. ASSUME NEW i \in 1 .. Len(r) - 1 PROVE Follows(r[i], r[i + 1], P)
  <2>1. CASE i \in 1 .. Len(p) - 1
    <3>1. r[i] = p[i] /\ r[i + 1] = p[i + 1]
      BY <1>1, <2>1 DEF r
    <3> QED
      BY <2>1, <3>1 DEF Chained
  <2>2. CASE i = Len(p)
    <3>1. Len(p) \in 1 .. Len(p) /\ p # <<>>
      BY <1>1, <2>2, EmptySeq
    <3>2. r[i] = "newline"
      BY <1>1, <2>2, <3>1 DEF Ended, r
    <3> QED
      BY <3>2, HandshakeAssumption DEF Follows
  <2>3. CASE i > Len(p)
    <3>1. PICK j \in 1 .. Len(q) - 1 : i = Len(p) + j
      <4>1. i - Len(p) \in 1 .. Len(q) - 1 /\ i = Len(p) + (i - Len(p))
        BY <1>1, <2>3 DEF r
      <4> QED
        BY <4>1
    <3>2. j + 1 \in 1 .. Len(q) /\ i + 1 = Len(p) + (j + 1)
      BY <1>1, <3>1
    <3>3. r[i] = q[j] /\ r[i + 1] = q[j + 1]
      BY <1>1, <3>1, <3>2 DEF r
    <3> QED
      BY <3>1, <3>3 DEF Chained
  <2> QED
    BY <1>1, <2>1, <2>2, <2>3 DEF r
<1> QED
  BY <1>2 DEF Chained, r

(* A part of a chain is a chain.                                           *)
LEMMA ChainParts ==
  ASSUME NEW p \in Seq(Pieces), NEW q \in Seq(Pieces), NEW P,
         Chained(p \o q, P)
  PROVE  Chained(p, P) /\ Chained(q, P)
<1>1. /\ Len(p) \in Nat /\ Len(q) \in Nat
      /\ Len(p \o q) = Len(p) + Len(q)
      /\ \A i \in 1 .. Len(p) : (p \o q)[i] = p[i]
      /\ \A i \in 1 .. Len(q) : (p \o q)[Len(p) + i] = q[i]
  BY JoinFacts
<1> DEFINE r == p \o q
<1>2. \A i \in 1 .. Len(p) + Len(q) - 1 : Follows(r[i], r[i + 1], P)
  BY <1>1 DEF Chained
<1>3. ASSUME NEW i \in 1 .. Len(p) - 1 PROVE Follows(p[i], p[i + 1], P)
  <2>1. r[i] = p[i] /\ r[i + 1] = p[i + 1] /\ i \in 1 .. Len(p) + Len(q) - 1
    BY <1>1
  <2> QED
    BY <1>2, <2>1
<1>4. ASSUME NEW i \in 1 .. Len(q) - 1 PROVE Follows(q[i], q[i + 1], P)
  <2>1. PICK j : j = Len(p) + i
    OBVIOUS
  <2>2. j \in 1 .. Len(p) + Len(q) - 1 /\ j + 1 = Len(p) + (i + 1) /\ i + 1 \in 1 .. Len(q)
        /\ i \in 1 .. Len(q)
    BY <1>1, <2>1
  <2>3. r[j] = q[i] /\ r[j + 1] = q[i + 1]
    BY <1>1, <2>1, <2>2
  <2> QED
    BY <1>2, <2>2, <2>3
<1> QED
  BY <1>3, <1>4 DEF Chained

LEMMA EndJoined ==
  ASSUME NEW p \in Seq(Pieces), NEW q \in Seq(Pieces)
  PROVE  /\ Ended(p \o q) => Ended(q)
         /\ Ended(p) /\ Ended(q) => Ended(p \o q)
<1>1. /\ Len(p) \in Nat /\ Len(q) \in Nat
      /\ Len(p \o q) = Len(p) + Len(q)
      /\ \A i \in 1 .. Len(p) : (p \o q)[i] = p[i]
      /\ \A i \in 1 .. Len(q) : (p \o q)[Len(p) + i] = q[i]
      /\ p \o q = <<>> <=> p = <<>> /\ q = <<>>
  BY JoinFacts
<1>2. CASE q = <<>>
  <2>1. p \o q = p
    BY <1>2, ConcatEmptySeq
  <2> QED
    BY <1>2, <2>1 DEF Ended
<1>3. CASE q # <<>>
  <2>1. Len(q) \in 1 .. Len(q)
    BY <1>1, <1>3, EmptySeq
  <2>2. (p \o q)[Len(p \o q)] = q[Len(q)]
    BY <1>1, <2>1
  <2> QED
    BY <1>1, <1>3, <2>2 DEF Ended
<1> QED
  BY <1>2, <1>3

(* What is left of a chain, and of complete lines, without the first piece.*)
LEMMA ChainRest ==
  ASSUME NEW q \in Seq(Pieces), q # <<>>, NEW P
  PROVE  /\ Chained(q, P) => Chained(Tail(q), P)
         /\ Ended(q) => Ended(Tail(q))
<1>1. /\ Tail(q) \in Seq(Pieces)
      /\ Len(q) \in Nat \ {0} /\ Len(Tail(q)) = Len(q) - 1
      /\ \A i \in 1 .. Len(q) - 1 : Tail(q)[i] = q[i + 1]
      /\ Tail(q) = <<>> <=> Len(q) = 1
  BY RestFacts
<1>2. ASSUME Chained(q, P), NEW i \in 1 .. Len(Tail(q)) - 1
      PROVE  Follows(Tail(q)[i], Tail(q)[i + 1], P)
  <2>1. PICK j : j = i + 1
    OBVIOUS
  <2>2. j \in 1 .. Len(q) - 1 /\ i \in 1 .. Len(q) - 1
    BY <1>1, <2>1
  <2>3. Tail(q)[i] = q[j] /\ Tail(q)[j] = q[j + 1]
    BY <1>1, <2>1, <2>2
  <2>4. Follows(q[j], q[j + 1], P)
    BY <1>2, <2>2 DEF Chained
  <2> QED
    BY <2>1, <2>3, <2>4
<1>3. ASSUME Ended(q), Tail(q) # <<>> PROVE Tail(q)[Len(Tail(q))] = "newline"
  <2>1. Len(q) - 1 \in 1 .. Len(q) - 1 /\ Len(q) - 1 + 1 = Len(q)
    BY <1>1, <1>3
  <2>2. Tail(q)[Len(q) - 1] = q[Len(q)]
    BY <1>1, <2>1
  <2> QED
    BY <1>1, <1>3, <2>2 DEF Ended
<1> QED
  BY <1>2, <1>3 DEF Chained, Ended

(* The lines the Wi-Fi module prints.                                      *)
LEMMA LineFacts ==
  /\ \A n \in Settings : \A P : n \in P =>
       /\ SettingsLine(n) \in Seq(Pieces) /\ Len(SettingsLine(n)) = 3
       /\ Chained(SettingsLine(n), P) /\ Ended(SettingsLine(n))
  /\ \A P :
       /\ Ready \in Seq(Pieces) /\ Len(Ready) = 3
       /\ Chained(Ready, P) /\ Ended(Ready)
  /\ \A P :
       /\ <<"text", "newline">> \in Seq(Pieces) /\ Len(<<"text", "newline">>) = 2
       /\ Chained(<<"text", "newline">>, P) /\ Ended(<<"text", "newline">>)
  /\ \A P : <<>> \in Seq(Pieces) /\ Chained(<<>>, P) /\ Ended(<<>>)
<1> USE HandshakeAssumption DEF Pieces, SettingsLine, Ready, Follows
<1>1. ASSUME NEW n \in Settings, NEW P, n \in P
      PROVE  /\ SettingsLine(n) \in Seq(Pieces) /\ Len(SettingsLine(n)) = 3
             /\ Chained(SettingsLine(n), P) /\ Ended(SettingsLine(n))
  <2>1. Len(SettingsLine(n)) = 3 /\ SettingsLine(n) \in Seq(Pieces)
    OBVIOUS
  <2>2. /\ SettingsLine(n)[1] = "head" /\ SettingsLine(n)[2] = n
        /\ SettingsLine(n)[3] = "newline"
    OBVIOUS
  <2>3. \A i \in 1 .. 2 : Follows(SettingsLine(n)[i], SettingsLine(n)[i + 1], P)
    BY <1>1, <2>2
  <2> HIDE DEF SettingsLine
  <2> QED
    BY <2>1, <2>2, <2>3 DEF Chained, Ended
<1>2. ASSUME NEW P
      PROVE  /\ Ready \in Seq(Pieces) /\ Len(Ready) = 3
             /\ Chained(Ready, P) /\ Ended(Ready)
  <2>1. Len(Ready) = 3 /\ Ready \in Seq(Pieces)
    OBVIOUS
  <2>2. Ready[1] = "newline" /\ Ready[2] = "text" /\ Ready[3] = "newline"
    OBVIOUS
  <2>3. \A i \in 1 .. 2 : Follows(Ready[i], Ready[i + 1], P)
    BY <2>2
  <2> HIDE DEF Ready
  <2> QED
    BY <2>1, <2>2, <2>3 DEF Chained, Ended
<1>3. ASSUME NEW P
      PROVE  /\ <<"text", "newline">> \in Seq(Pieces) /\ Len(<<"text", "newline">>) = 2
             /\ Chained(<<"text", "newline">>, P) /\ Ended(<<"text", "newline">>)
  <2> DEFINE l == <<"text", "newline">>
  <2>1. Len(l) = 2 /\ l \in Seq(Pieces) /\ l[1] = "text" /\ l[2] = "newline"
    OBVIOUS
  <2> HIDE DEF l
  <2>2. \A i \in 1 .. 1 : Follows(l[i], l[i + 1], P)
    BY <2>1
  <2>3. Chained(l, P) /\ Ended(l)
    BY <2>1, <2>2 DEF Chained, Ended
  <2> QED
    BY <2>1, <2>3 DEF l
<1>4. ASSUME NEW P PROVE <<>> \in Seq(Pieces) /\ Chained(<<>>, P) /\ Ended(<<>>)
  BY DEF Chained, Ended
<1> QED
  BY <1>1, <1>2, <1>3, <1>4

LEMMA LineTypes ==
  /\ \A n \in Settings : SettingsLine(n) \in Seq(Pieces) /\ Len(SettingsLine(n)) <= 3
  /\ Ready \in Seq(Pieces) /\ Len(Ready) <= 3
  /\ <<"text", "newline">> \in Seq(Pieces) /\ Len(<<"text", "newline">>) <= 3
  /\ <<>> \in Seq(Pieces) /\ Len(<<>>) = 0
<1>1. ASSUME NEW n \in Settings
      PROVE  SettingsLine(n) \in Seq(Pieces) /\ Len(SettingsLine(n)) <= 3
  <2>1. n \in {n}
    OBVIOUS
  <2>2. SettingsLine(n) \in Seq(Pieces) /\ Len(SettingsLine(n)) = 3
    BY <2>1, LineFacts
  <2> QED
    BY <2>2
<1>2. Ready \in Seq(Pieces) /\ Len(Ready) = 3
  BY LineFacts, Zenon
<1>3. <<"text", "newline">> \in Seq(Pieces) /\ Len(<<"text", "newline">>) = 2
  BY LineFacts, Zenon
<1>4. <<>> \in Seq(Pieces) /\ Len(<<>>) = 0
  BY LineFacts, EmptySeq
<1> QED
  BY <1>1, <1>2, <1>3, <1>4

(* A chain stays one when more numbers have been printed.                  *)
LEMMA ChainGrows ==
  ASSUME NEW q, NEW P, NEW Q, P \subseteq Q, Chained(q, P)
  PROVE  Chained(q, Q)
  BY DEF Chained, Follows

-----------------------------------------------------------------------------
(* How far ADCModuleBoard_Init has come, the channel, its flags and its    *)
(* buffer agree: a newline in the buffer is its last piece, and there only *)
(* when the channel is no longer armed.  Flags that are still raised for a *)
(* line that has been taken are about to be cleared.                       *)
ChannelInv ==
  /\ pc \in {"start", "uart"} =>
       channel = "off" /\ dmaBuff = <<>> /\ ~due /\ ~clearing /\ ~lost /\ ~config_ready
  /\ pc = "start" => fifo = <<>> /\ ~deaf
  /\ clearing => InterruptsOn
  /\ channel = "armed" => ~due /\ \A i \in 1 .. Len(dmaBuff) : dmaBuff[i] # "newline"
  /\ due /\ ~config_ready =>
       /\ dmaBuff # <<>> /\ dmaBuff[Len(dmaBuff)] = "newline"
       /\ \A i \in 1 .. Len(dmaBuff) - 1 : dmaBuff[i] # "newline"
  /\ config_ready => channel = "off" /\ Len(dmaBuff) >= 2 /\ (due => clearing)

MeterTypes ==
  /\ pc \in Phases
  /\ channel \in {"off", "armed"}
  /\ due \in BOOLEAN /\ clearing \in BOOLEAN /\ lost \in BOOLEAN
  /\ dmaBuff \in Seq(Pieces)
  /\ fifo \in Seq(Pieces) /\ Len(fifo) <= UartFifo
  /\ deaf \in BOOLEAN /\ wait_for_config \in BOOLEAN /\ config_ready \in BOOLEAN
  /\ number \in Pieces \cup {"none"} /\ OSR \in {OsrOfAddress, "none"}

WifiTypes ==
  /\ config \in BOOLEAN /\ gets \in 0 .. MaxGets
  /\ wire \in Seq(Pieces) /\ Len(wire) <= 3
  /\ printed \subseteq Settings /\ torn \in BOOLEAN

StartInv == TypeOK /\ ChannelInv

LEMMA HandshakeNumbers ==
  /\ UartFifo \in Nat /\ MaxGets \in Nat \ {0}
  /\ MaxLogs \in Nat /\ MaxRestarts \in Nat
  BY HandshakeAssumption

LEMMA TypeParts ==
  TypeOK <=> /\ MeterTypes /\ WifiTypes
             /\ logs \in 0 .. MaxLogs /\ restarts \in 0 .. MaxRestarts
  BY DEF TypeOK, MeterTypes, WifiTypes

(* The meter's program goes on.                                            *)
LEMMA MainKeepsChannel ==
  ASSUME MeterTypes, ChannelInv, MeterMain
  PROVE  MeterTypes' /\ ChannelInv'
<1> USE DEF MeterTypes, ChannelInv, Phases, InterruptsOn, dma, taken
<1>1. CASE BufferToUART_Init
  BY <1>1 DEF BufferToUART_Init
<1>2. CASE StartReceiving
  <2>1. <<>> \in Seq(Pieces) /\ Len(<<>>) = 0
    BY LineTypes
  <2>2. pc' = "armed" /\ channel' = "armed" /\ due' = FALSE /\ dmaBuff' = <<>>
        /\ UNCHANGED <<clearing, lost, fifo, deaf, wait_for_config, config_ready, number, OSR>>
    BY <1>2 DEF StartReceiving, DMAStartUARTRX
  <2>3. MeterTypes'
    BY <2>1, <2>2
  <2>4. ~clearing /\ ~config_ready
    BY <1>2 DEF StartReceiving
  <2>5. ChannelInv'
    BY <2>1, <2>2, <2>4
  <2> QED
    BY <2>3, <2>5
<1>3. CASE INTEnableInterrupts
  BY <1>3 DEF INTEnableInterrupts
<1>4. CASE SetReadyForConfigure
  BY <1>4 DEF SetReadyForConfigure
<1>5. CASE GetConfig
  <2>1. dmaBuff[2] \in Pieces
    <3>1. 2 \in 1 .. Len(dmaBuff)
      BY <1>5, LenProperties DEF GetConfig
    <3> QED
      BY <3>1, ElementOfSeq
  <2>2. ~clearing
    BY DEF MeterMain
  <2> QED
    BY <1>5, <2>1, <2>2 DEF GetConfig
<1>6. CASE MCP391x_Init
  BY <1>6 DEF MCP391x_Init
<1>7. CASE StartSPIAcquisition
  BY <1>7 DEF StartSPIAcquisition
<1> QED
  BY <1>1, <1>2, <1>3, <1>4, <1>5, <1>6, <1>7 DEF MeterMain

(* The handler takes a line, or arms the channel again.                    *)
LEMMA LineKeepsChannel ==
  ASSUME MeterTypes, ChannelInv, DmaHandler0
  PROVE  MeterTypes' /\ ChannelInv'
<1>1. pc \notin {"start", "uart"} /\ ~config_ready
  BY DEF DmaHandler0, InterruptsOn, ChannelInv
<1>2. CASE Accepted /\ config_ready' = TRUE /\ UNCHANGED <<channel, due, dmaBuff>>
  <2>1. Len(dmaBuff) \in Nat \ {0} /\ dmaBuff[1] = "head"
    BY <1>1, <1>2, RestFacts DEF DmaHandler0, ChannelInv, MeterTypes, Accepted
  <2>2. Len(dmaBuff) >= 2
    <3>1. dmaBuff[Len(dmaBuff)] = "newline"
      BY <1>1 DEF DmaHandler0, ChannelInv
    <3>2. Len(dmaBuff) # 1
      BY <2>1, <3>1
    <3>3. \A l \in Nat \ {0} : l # 1 => l >= 2
      OBVIOUS
    <3> QED
      BY <2>1, <3>2, <3>3
  <2>3. channel = "off"
    BY DEF DmaHandler0, ChannelInv, MeterTypes
  <2> QED
    BY <1>1, <1>2, <2>2, <2>3 DEF DmaHandler0, ChannelInv, MeterTypes, InterruptsOn
<1>3. CASE DMAStartUARTRX /\ UNCHANGED config_ready
  <2>1. <<>> \in Seq(Pieces) /\ Len(<<>>) = 0
    BY LineTypes
  <2>2. channel' = "armed" /\ due' = FALSE /\ dmaBuff' = <<>> /\ clearing' = TRUE
        /\ UNCHANGED <<pc, lost, fifo, deaf, wait_for_config, config_ready, number, OSR>>
    BY <1>3 DEF DmaHandler0, DMAStartUARTRX
  <2>3. MeterTypes'
    BY <2>1, <2>2 DEF MeterTypes
  <2>4. InterruptsOn /\ InterruptsOn'
    BY <2>2 DEF DmaHandler0, InterruptsOn
  <2>5. ChannelInv'
    BY <1>1, <2>1, <2>2, <2>4 DEF ChannelInv
  <2> QED
    BY <2>3, <2>5
<1> QED
  BY <1>2, <1>3 DEF DmaHandler0

(* Either step of the handler.                                             *)
LEMMA HandlerKeepsChannel ==
  ASSUME MeterTypes, ChannelInv, Handler
  PROVE  MeterTypes' /\ ChannelInv'
<1>1. CASE ClearFlags
  <2>1. pc \notin {"start", "uart"}
    BY <1>1 DEF ClearFlags, ChannelInv, InterruptsOn
  <2>2. MeterTypes'
    BY <1>1 DEF ClearFlags, MeterTypes, taken
  <2> QED
    BY <1>1, <2>1, <2>2 DEF ClearFlags, ChannelInv, taken
<1> QED
  BY <1>1, LineKeepsChannel DEF Handler

(* A piece goes from the UART to the buffer.                               *)
LEMMA TransferKeepsChannel ==
  ASSUME MeterTypes, ChannelInv, Transfer
  PROVE  MeterTypes' /\ ChannelInv'
<1>1. /\ Head(fifo) \in Pieces /\ Tail(fifo) \in Seq(Pieces)
      /\ Len(fifo) \in Nat /\ Len(Tail(fifo)) = Len(fifo) - 1
  BY RestFacts DEF Transfer, MeterTypes
<1>2. PICK x \in Pieces : x = Head(fifo)
  BY <1>1
<1>3. /\ dmaBuff' = Append(dmaBuff, x) /\ dmaBuff' \in Seq(Pieces)
      /\ Len(dmaBuff) \in Nat /\ Len(dmaBuff') = Len(dmaBuff) + 1
      /\ \A i \in 1 .. Len(dmaBuff) : dmaBuff'[i] = dmaBuff[i]
      /\ dmaBuff'[Len(dmaBuff) + 1] = x
      /\ dmaBuff' # <<>>
  BY <1>2, AddFacts DEF Transfer, MeterTypes
<1>4. /\ pc' = pc /\ clearing' = clearing /\ lost' = lost /\ deaf' = deaf
      /\ UNCHANGED <<wait_for_config, config_ready, number, OSR>>
      /\ channel' \in {"off", "armed"} /\ due' \in BOOLEAN
  BY DEF Transfer, MeterTypes, taken
<1>5. MeterTypes'
  <2>1. Len(fifo') <= UartFifo /\ fifo' \in Seq(Pieces)
    BY <1>1, HandshakeNumbers DEF Transfer, MeterTypes
  <2> QED
    BY <1>3, <1>4, <2>1 DEF MeterTypes
<1>6. /\ pc \notin {"start", "uart"} /\ ~config_ready /\ ~due
      /\ \A i \in 1 .. Len(dmaBuff) : dmaBuff[i] # "newline"
  BY DEF Transfer, ChannelInv
<1>7. CASE x = "newline"
  <2>1. channel' = "off"
    BY <1>2, <1>7 DEF Transfer
  <2> QED
    BY <1>3, <1>4, <1>5, <1>6, <1>7, <2>1 DEF ChannelInv, InterruptsOn
<1>8. CASE x # "newline"
  <2>1. channel' = "armed" /\ ~due'
    BY <1>2, <1>6, <1>8 DEF Transfer
  <2>2. \A i \in 1 .. Len(dmaBuff') : dmaBuff'[i] # "newline"
    BY <1>3, <1>6, <1>8
  <2> QED
    BY <1>3, <1>4, <1>5, <1>6, <2>1, <2>2 DEF ChannelInv, InterruptsOn
<1> QED
  BY <1>7, <1>8

(* A piece reaches the meter, or is lost to it.                            *)
LEMMA ReceiveKeepsChannel ==
  ASSUME MeterTypes, WifiTypes, ChannelInv, Receive
  PROVE  MeterTypes' /\ WifiTypes' /\ ChannelInv'
<1>1. /\ Head(wire) \in Pieces /\ Tail(wire) \in Seq(Pieces)
      /\ Len(wire) \in Nat /\ Len(Tail(wire)) = Len(wire) - 1
  BY RestFacts DEF Receive, WifiTypes
<1>2. WifiTypes'
  BY <1>1 DEF Receive, WifiTypes
<1>3. CASE UNCHANGED fifo /\ deaf' \in {deaf, TRUE} /\ (deaf' = deaf \/ pc # "start")
  <2>1. MeterTypes'
    BY <1>3 DEF Receive, MeterTypes, dma, taken
  <2> QED
    BY <1>2, <1>3, <2>1 DEF Receive, ChannelInv, dma, taken, InterruptsOn
<1>4. CASE pc # "start" /\ Len(fifo) < UartFifo /\ fifo' = Append(fifo, Head(wire)) /\ UNCHANGED deaf
  <2>1. /\ fifo' \in Seq(Pieces) /\ Len(fifo) \in Nat /\ Len(fifo') = Len(fifo) + 1
    BY <1>1, <1>4, AddFacts DEF MeterTypes
  <2>2. Len(fifo') <= UartFifo
    BY <1>4, <2>1, HandshakeNumbers
  <2> QED
    BY <1>2, <1>4, <2>1, <2>2 DEF Receive, MeterTypes, ChannelInv, dma, taken, InterruptsOn
<1>5. \/ UNCHANGED fifo /\ deaf' \in {deaf, TRUE} /\ (deaf' = deaf \/ pc # "start")
      \/ pc # "start" /\ Len(fifo) < UartFifo /\ fifo' = Append(fifo, Head(wire)) /\ UNCHANGED deaf
  BY DEF Receive
<1> QED
  BY <1>3, <1>4, <1>5

(* The Wi-Fi module asks and prints.                                       *)
LEMMA WifiKeepsTypes ==
  ASSUME WifiTypes,
         \/ get_http_config /\ UNCHANGED logs
         \/ networkRecvCb /\ UNCHANGED logs
         \/ Log,
         logs \in 0 .. MaxLogs
  PROVE  WifiTypes' /\ logs' \in 0 .. MaxLogs
<1>1. CASE get_http_config /\ UNCHANGED logs
  <2>1. gets' \in 0 .. MaxGets
    BY <1>1, HandshakeNumbers DEF get_http_config, WifiTypes
  <2> QED
    BY <1>1, <2>1 DEF get_http_config, WifiTypes
<1>2. CASE networkRecvCb /\ UNCHANGED logs
  <2>1. PICK n \in Settings : wire' = SettingsLine(n) /\ printed' = printed \cup {n}
    BY <1>2 DEF networkRecvCb
  <2>2. wire' \in Seq(Pieces) /\ Len(wire') <= 3
    BY <2>1, LineTypes
  <2>3. gets' \in 0 .. MaxGets
    BY <1>2, HandshakeNumbers DEF networkRecvCb, WifiTypes
  <2> QED
    BY <1>2, <2>1, <2>2, <2>3 DEF networkRecvCb, WifiTypes
<1>3. CASE Log
  <2>1. wire' \in Seq(Pieces) /\ Len(wire') <= 3
    BY <1>3, LineTypes DEF Log
  <2>2. logs' \in 0 .. MaxLogs
    BY <1>3, HandshakeNumbers DEF Log
  <2> QED
    BY <1>3, <2>1, <2>2 DEF Log, WifiTypes
<1> QED
  BY <1>1, <1>2, <1>3

(* Either side starts again.                                               *)
LEMMA RestartKeepsTypes ==
  ASSUME StartInv, MeterRestarts \/ WifiRestarts
  PROVE  StartInv'
<1>1. restarts' \in 0 .. MaxRestarts
  BY HandshakeNumbers DEF StartInv, TypeOK, MeterRestarts, WifiRestarts
<1>2. CASE MeterRestarts
  <2>1. <<>> \in Seq(Pieces) /\ Len(<<>>) = 0 /\ 0 <= UartFifo
    BY LineTypes, HandshakeNumbers
  <2>2. MeterTypes' /\ ChannelInv'
    BY <1>2, <2>1 DEF MeterRestarts, MeterStart, MeterTypes, ChannelInv, Phases, InterruptsOn
  <2>3. WifiTypes' /\ logs' \in 0 .. MaxLogs
    BY <1>2, TypeParts DEF MeterRestarts, wifi, WifiTypes, StartInv
  <2> QED
    BY <1>1, <2>2, <2>3, TypeParts DEF StartInv, TypeOK, MeterTypes, WifiTypes
<1>3. CASE WifiRestarts
  <2>1. wire' \in Seq(Pieces) /\ Len(wire') <= 3
    BY <1>3, LineTypes DEF WifiRestarts
  <2>2. gets' \in 0 .. MaxGets
    BY <1>3, HandshakeNumbers DEF WifiRestarts
  <2>3. WifiTypes'
    BY <1>3, <2>1, <2>2 DEF WifiRestarts, WifiTypes, StartInv, TypeOK
  <2>4. MeterTypes' /\ ChannelInv' /\ logs' \in 0 .. MaxLogs
    BY <1>3, TypeParts DEF WifiRestarts, meter, dma, taken, MeterTypes, ChannelInv, StartInv, InterruptsOn
  <2> QED
    BY <1>1, <2>3, <2>4 DEF StartInv, TypeOK, MeterTypes, WifiTypes
<1> QED
  BY <1>2, <1>3

LEMMA StartInit == Init => StartInv
<1> SUFFICES ASSUME Init PROVE StartInv
  OBVIOUS
<1>1. <<>> \in Seq(Pieces) /\ Len(<<>>) = 0 /\ Ready \in Seq(Pieces) /\ Len(Ready) <= 3
  BY LineTypes
<1>2. 0 <= UartFifo /\ 0 \in 0 .. MaxGets /\ 0 \in 0 .. MaxLogs /\ 0 \in 0 .. MaxRestarts
  BY HandshakeNumbers
<1>3. MeterTypes
  BY <1>1, <1>2 DEF Init, MeterTypes, Phases
<1>4. WifiTypes
  BY <1>1, <1>2 DEF Init, WifiTypes
<1>5. ChannelInv
  BY DEF Init, ChannelInv
<1> QED
  BY <1>2, <1>3, <1>4, <1>5, TypeParts DEF Init, StartInv

LEMMA StartStep == StartInv /\ [Next]_vars => StartInv'
<1> SUFFICES ASSUME StartInv, [Next]_vars PROVE StartInv'
  OBVIOUS
<1>0. /\ MeterTypes /\ WifiTypes /\ ChannelInv
      /\ logs \in 0 .. MaxLogs /\ restarts \in 0 .. MaxRestarts
  BY TypeParts DEF StartInv
<1>1. ASSUME MeterTypes', WifiTypes', ChannelInv',
             logs' \in 0 .. MaxLogs, restarts' \in 0 .. MaxRestarts
      PROVE  StartInv'
  BY <1>1 DEF StartInv, TypeOK, MeterTypes, WifiTypes
<1>2. CASE (MeterMain \/ Handler \/ Transfer) /\ UNCHANGED <<wifi, logs, restarts>>
  <2>1. MeterTypes' /\ ChannelInv'
    BY <1>0, <1>2, MainKeepsChannel, HandlerKeepsChannel, TransferKeepsChannel
  <2>2. WifiTypes'
    BY <1>0, <1>2 DEF wifi, WifiTypes
  <2> QED
    BY <1>0, <1>1, <1>2, <2>1, <2>2
<1>3. CASE Receive /\ UNCHANGED <<logs, restarts>>
  <2>1. MeterTypes' /\ WifiTypes' /\ ChannelInv'
    BY <1>0, <1>3, ReceiveKeepsChannel
  <2> QED
    BY <1>0, <1>1, <1>3, <2>1
<1>4. CASE \/ (get_http_config \/ networkRecvCb) /\ UNCHANGED <<meter, logs, restarts>>
           \/ Log /\ UNCHANGED <<meter, restarts>>
  <2>1. WifiTypes' /\ logs' \in 0 .. MaxLogs
    BY <1>0, <1>4, WifiKeepsTypes
  <2>2. MeterTypes' /\ ChannelInv'
    BY <1>0, <1>4 DEF meter, dma, taken, MeterTypes, ChannelInv, InterruptsOn
  <2> QED
    BY <1>0, <1>1, <1>4, <2>1, <2>2
<1>5. CASE MeterRestarts \/ WifiRestarts
  BY <1>5, RestartKeepsTypes
<1>6. CASE UNCHANGED vars
  BY <1>6 DEF vars, meter, dma, taken, wifi, StartInv, TypeOK, ChannelInv, InterruptsOn
<1> QED
  BY <1>2, <1>3, <1>4, <1>5, <1>6 DEF Next

(* Type correctness of the start: the UART never holds more than it can,   *)
(* and the loop never reads a number behind the end of the line.           *)
THEOREM StartTypeCorrect == Spec => []TypeOK
<1>1. StartInv => TypeOK
  BY DEF StartInv
<1> QED
  BY <1>1, StartInit, StartStep, PTL DEF Spec

-----------------------------------------------------------------------------
(* What the meter has in its buffer (d) and its UART (f) and what comes    *)
(* behind it on the wire (w): lines in which a number follows the head,    *)
(* one of P, and the newline the number; and complete ones as long as the  *)
(* meter receives all of it (l).                                           *)
InOrder(d, f, w, l, P) ==
  /\ Chained(w, P) /\ Ended(w)
  /\ Chained(d \o f, P)
  /\ l => Chained((d \o f) \o w, P) /\ Ended((d \o f) \o w)

LEMMA PieceMoves ==
  ASSUME NEW d \in Seq(Pieces), NEW f \in Seq(Pieces), NEW w, NEW l, NEW P,
         f # <<>>, InOrder(d, f, w, l, P)
  PROVE  InOrder(Append(d, Head(f)), Tail(f), w, l, P)
<1>1. Append(d, Head(f)) \o Tail(f) = d \o f
  BY MovedPiece
<1> QED
  BY <1>1 DEF InOrder

LEMMA PieceArrives ==
  ASSUME NEW d \in Seq(Pieces), NEW f \in Seq(Pieces), NEW w \in Seq(Pieces), NEW P,
         w # <<>>, InOrder(d, f, w, TRUE, P)
  PROVE  InOrder(d, Append(f, Head(w)), Tail(w), TRUE, P)
<1>1. Head(w) \in Pieces /\ Tail(w) \in Seq(Pieces)
  BY RestFacts
<1>2. PICK x \in Pieces : x = Head(w)
  BY <1>1
<1>3. d \o f \in Seq(Pieces) /\ d \o Append(f, x) \in Seq(Pieces)
  BY AddFacts, JoinFacts
<1>4. d \o Append(f, x) = Append(d \o f, x)
  <2>1. <<x>> \in Seq(Pieces)
    OBVIOUS
  <2>2. Append(f, x) = f \o <<x>> /\ Append(d \o f, x) = (d \o f) \o <<x>>
    BY <1>3, AppendIsConcat
  <2>3. (d \o f) \o <<x>> = d \o (f \o <<x>>)
    BY <2>1, ConcatAssociative
  <2> QED
    BY <2>2, <2>3
<1>5. (d \o Append(f, x)) \o Tail(w) = (d \o f) \o w
  BY <1>2, <1>3, <1>4, MovedPiece
<1>6. /\ Chained((d \o Append(f, x)) \o Tail(w), P)
      /\ Ended((d \o Append(f, x)) \o Tail(w))
  BY <1>5 DEF InOrder
<1>7. Chained(d \o Append(f, x), P)
  BY <1>1, <1>3, <1>6, ChainParts
<1>8. Chained(Tail(w), P) /\ Ended(Tail(w))
  BY ChainRest DEF InOrder
<1> QED
  BY <1>2, <1>6, <1>7, <1>8 DEF InOrder

LEMMA PieceLost ==
  ASSUME NEW d, NEW f, NEW w \in Seq(Pieces), NEW l, NEW P,
         w # <<>>, InOrder(d, f, w, l, P)
  PROVE  InOrder(d, f, Tail(w), FALSE, P)
<1>1. Chained(Tail(w), P) /\ Ended(Tail(w))
  BY ChainRest DEF InOrder
<1> QED
  BY <1>1 DEF InOrder

LEMMA BufferEmptied ==
  ASSUME NEW d \in Seq(Pieces), NEW f \in Seq(Pieces), NEW w \in Seq(Pieces),
         NEW l \in BOOLEAN, NEW P, InOrder(d, f, w, l, P)
  PROVE  InOrder(<<>>, f, w, l, P)
<1>1. <<>> \o f = f
  BY ConcatEmptySeq
<1>2. Chained(f, P)
  BY ChainParts DEF InOrder
<1>3. CASE l
  <2>1. (d \o f) \o w = d \o (f \o w)
    BY ConcatAssociative
  <2>2. f \o w \in Seq(Pieces)
    BY JoinFacts
  <2>3. Chained(d \o (f \o w), P) /\ Ended(d \o (f \o w))
    BY <1>3, <2>1 DEF InOrder
  <2>4. Chained(f \o w, P)
    BY <2>2, <2>3, ChainParts
  <2>5. Ended(f \o w)
    BY <2>2, <2>3, EndJoined
  <2> QED
    BY <1>1, <1>2, <2>4, <2>5 DEF InOrder
<1>4. CASE ~l
  BY <1>1, <1>2, <1>4 DEF InOrder
<1> QED
  BY <1>3, <1>4

LEMMA LinePrinted ==
  ASSUME NEW d \in Seq(Pieces), NEW f \in Seq(Pieces), NEW w \in Seq(Pieces),
         NEW l \in BOOLEAN, NEW P, NEW Q, P \subseteq Q,
         Chained(w, Q), Ended(w), InOrder(d, f, <<>>, l, P)
  PROVE  InOrder(d, f, w, l, Q)
<1>1. d \o f \in Seq(Pieces)
  BY JoinFacts
<1>2. (d \o f) \o <<>> = d \o f
  BY <1>1, ConcatEmptySeq
<1>3. Chained(d \o f, Q)
  <2>1. Chained(d \o f, P)
    BY DEF InOrder
  <2> QED
    BY <2>1, ChainGrows
<1>4. CASE l
  <2>1. Ended(d \o f)
    BY <1>2, <1>4 DEF InOrder
  <2>2. Chained((d \o f) \o w, Q)
    BY <1>1, <1>3, <2>1, ChainJoined
  <2>3. Ended((d \o f) \o w)
    BY <1>1, <2>1, EndJoined
  <2> QED
    BY <1>3, <2>2, <2>3 DEF InOrder
<1>5. CASE ~l
  BY <1>3, <1>5 DEF InOrder
<1> QED
  BY <1>4, <1>5

LEMMA NothingHeld ==
  ASSUME NEW w \in Seq(Pieces), NEW l \in BOOLEAN, NEW P, Chained(w, P), Ended(w)
  PROVE  InOrder(<<>>, <<>>, w, l, P)
<1>1. <<>> \in Seq(Pieces) /\ Chained(<<>>, P)
  BY LineFacts
<1>2. <<>> \o <<>> = <<>> /\ <<>> \o w = w
  BY <1>1, ConcatEmptySeq
<1> QED
  BY <1>1, <1>2 DEF InOrder

(* The meter receives what comes.                                          *)
Listening == pc # "start" /\ ~deaf

(* Unless the Wi-Fi module has lost power within a line, what the meter    *)
(* holds and what comes behind it are lines in order.                      *)
LinesInv == ~torn => InOrder(dmaBuff, fifo, wire, Listening, printed)

StartLinesInv == StartInv /\ LinesInv /\ NumberAsPrinted

(* A newline is the last piece of a buffer that is full: one that begins   *)
(* with the head of the settings is one line of them.                      *)
LEMMA FullLine ==
  ASSUME NEW d \in Seq(Pieces), NEW P \in SUBSET Settings, d # <<>>, Chained(d, P),
         Head(d) = "head", d[Len(d)] = "newline",
         \A i \in 1 .. Len(d) - 1 : d[i] # "newline"
  PROVE  \E n \in P : d = SettingsLine(n)
<1>1. Len(d) \in Nat \ {0} /\ d[1] = "head"
  BY RestFacts
<1>2. Len(d) # 1
  BY <1>1
<1>3. 1 \in 1 .. Len(d) - 1 /\ Len(d) >= 2
  <2>1. \A l \in Nat \ {0} : l # 1 => l >= 2
    OBVIOUS
  <2> QED
    BY <1>1, <1>2, <2>1
<1>4. Follows(d[1], d[1 + 1], P) /\ 1 + 1 = 2
  BY <1>3 DEF Chained
<1>5. d[2] \in P
  BY <1>1, <1>4 DEF Follows
<1>6. d[2] # "newline" /\ d[2] \in Settings
  BY <1>5, HandshakeAssumption
<1>7. Len(d) # 2
  BY <1>6
<1>8. 2 \in 1 .. Len(d) - 1 /\ Len(d) >= 3
  <2>1. \A l \in Nat \ {0} : l >= 2 /\ l # 2 => l >= 3
    OBVIOUS
  <2>2. Len(d) >= 3
    BY <1>1, <1>3, <1>7, <2>1
  <2> QED
    BY <1>1, <2>2
<1>9. Follows(d[2], d[2 + 1], P) /\ 2 + 1 = 3
  BY <1>8 DEF Chained
<1>10. d[3] = "newline"
  BY <1>6, <1>9 DEF Follows
<1>11. Len(d) = 3
  <2>1. 3 \notin 1 .. Len(d) - 1
    BY <1>10
  <2>2. \A l \in Nat \ {0} : l >= 3 /\ 3 \notin 1 .. l - 1 => l = 3
    OBVIOUS
  <2> QED
    BY <1>1, <1>8, <2>1, <2>2
<1>12. PICK n \in P : n = d[2]
  BY <1>5
<1>13. SettingsLine(n) \in Seq(Pieces) /\ Len(SettingsLine(n)) = 3
       /\ SettingsLine(n)[1] = "head" /\ SettingsLine(n)[2] = n /\ SettingsLine(n)[3] = "newline"
  <2>1. n \in Settings
    BY <1>12
  <2> QED
    BY <2>1 DEF SettingsLine, Pieces
<1>14. \A i \in 1 .. 3 : d[i] = SettingsLine(n)[i]
  BY <1>1, <1>10, <1>12, <1>13
<1>15. d = SettingsLine(n)
  BY <1>11, <1>13, <1>14, SeqEqual
<1> QED
  BY <1>15

(* Every step of either side, as long as no line has been torn.            *)
LEMMA MainKeepsLines ==
  ASSUME StartInv, LinesInv, MeterMain, UNCHANGED wifi
  PROVE  LinesInv'
<1>0. dmaBuff \in Seq(Pieces) /\ fifo \in Seq(Pieces) /\ wire \in Seq(Pieces)
      /\ UNCHANGED <<wire, printed, torn>>
  BY DEF StartInv, TypeOK, wifi
<1> SUFFICES ASSUME ~torn PROVE InOrder(dmaBuff', fifo', wire, Listening', printed)
  BY <1>0 DEF LinesInv
<1>1. InOrder(dmaBuff, fifo, wire, Listening, printed)
  BY DEF LinesInv
<1>2. Listening \in BOOLEAN
  BY DEF Listening
<1>3. CASE BufferToUART_Init
  <2>1. dmaBuff' = <<>> /\ fifo' = <<>>
    BY <1>3 DEF BufferToUART_Init, StartInv, ChannelInv, dma
  <2>2. Chained(wire, printed) /\ Ended(wire)
    BY <1>1 DEF InOrder
  <2>3. Listening' \in BOOLEAN
    BY DEF Listening
  <2>4. PICK l \in BOOLEAN : l = Listening'
    BY <2>3
  <2>5. InOrder(<<>>, <<>>, wire, l, printed)
    BY <1>0, <2>2, NothingHeld
  <2> QED
    BY <2>1, <2>4, <2>5
<1>4. CASE StartReceiving
  <2>1. dmaBuff' = <<>> /\ fifo' = fifo /\ Listening' = Listening
    BY <1>4 DEF StartReceiving, DMAStartUARTRX, Listening
  <2>2. InOrder(<<>>, fifo, wire, Listening, printed)
    BY <1>0, <1>1, <1>2, BufferEmptied
  <2> QED
    BY <2>1, <2>2
<1>5. CASE \/ INTEnableInterrupts \/ SetReadyForConfigure
           \/ GetConfig \/ MCP391x_Init \/ StartSPIAcquisition
  <2>1. dmaBuff' = dmaBuff /\ fifo' = fifo /\ Listening' = Listening
    BY <1>5 DEF INTEnableInterrupts, SetReadyForConfigure, GetConfig, MCP391x_Init,
       StartSPIAcquisition, Listening, dma
  <2> QED
    BY <1>1, <2>1
<1> QED
  BY <1>3, <1>4, <1>5 DEF MeterMain

LEMMA HandlerKeepsLines ==
  ASSUME StartInv, LinesInv, Handler \/ Transfer, UNCHANGED wifi
  PROVE  LinesInv'
<1>0. /\ dmaBuff \in Seq(Pieces) /\ fifo \in Seq(Pieces) /\ wire \in Seq(Pieces)
      /\ UNCHANGED <<wire, printed, torn>>
  BY DEF StartInv, TypeOK, wifi
<1> SUFFICES ASSUME ~torn PROVE InOrder(dmaBuff', fifo', wire, Listening', printed)
  BY <1>0 DEF LinesInv
<1>1. InOrder(dmaBuff, fifo, wire, Listening, printed)
  BY DEF LinesInv
<1>2. Listening \in BOOLEAN /\ Listening' = Listening
  BY DEF Listening, Handler, DmaHandler0, ClearFlags, Transfer
<1>3. CASE Handler
  <2>1. fifo' = fifo /\ (dmaBuff' = dmaBuff \/ dmaBuff' = <<>>)
    BY <1>3 DEF Handler, DmaHandler0, ClearFlags, DMAStartUARTRX
  <2>2. InOrder(<<>>, fifo, wire, Listening, printed)
    BY <1>0, <1>1, <1>2, BufferEmptied
  <2> QED
    BY <1>1, <1>2, <2>1, <2>2
<1>4. CASE Transfer
  <2>1. fifo # <<>> /\ dmaBuff' = Append(dmaBuff, Head(fifo)) /\ fifo' = Tail(fifo)
    BY <1>4 DEF Transfer
  <2>2. InOrder(Append(dmaBuff, Head(fifo)), Tail(fifo), wire, Listening, printed)
    BY <1>0, <1>1, <2>1, PieceMoves
  <2> QED
    BY <1>2, <2>1, <2>2
<1> QED
  BY <1>3, <1>4

LEMMA ReceiveKeepsLines ==
  ASSUME StartInv, LinesInv, Receive
  PROVE  LinesInv'
<1>0. /\ dmaBuff \in Seq(Pieces) /\ fifo \in Seq(Pieces) /\ wire \in Seq(Pieces)
      /\ UNCHANGED <<dmaBuff, pc, printed, torn>> /\ wire # <<>> /\ wire' = Tail(wire)
  BY DEF StartInv, TypeOK, Receive, dma
<1> SUFFICES ASSUME ~torn PROVE InOrder(dmaBuff, fifo', Tail(wire), Listening', printed)
  BY <1>0 DEF LinesInv
<1>1. InOrder(dmaBuff, fifo, wire, Listening, printed)
  BY DEF LinesInv
<1>2. CASE UNCHANGED fifo /\ ~Listening'
  <2>1. InOrder(dmaBuff, fifo, Tail(wire), FALSE, printed)
    BY <1>0, <1>1, PieceLost
  <2>2. Listening' = FALSE /\ fifo' = fifo
    BY <1>2 DEF Listening
  <2> QED
    BY <2>1, <2>2
<1>3. CASE fifo' = Append(fifo, Head(wire)) /\ Listening /\ UNCHANGED deaf
  <2>1. Listening = TRUE /\ Listening' = TRUE
    BY <1>0, <1>3 DEF Listening
  <2>2. InOrder(dmaBuff, Append(fifo, Head(wire)), Tail(wire), TRUE, printed)
    BY <1>0, <1>1, <2>1, PieceArrives
  <2> QED
    BY <1>3, <2>1, <2>2
<1>4. CASE pc = "start" \/ deaf
  BY <1>0, <1>2, <1>4 DEF Receive, Listening, StartInv, TypeOK
<1>5. CASE pc # "start" /\ ~deaf
  BY <1>0, <1>2, <1>3, <1>5 DEF Receive, Listening, StartInv, TypeOK
<1> QED
  BY <1>4, <1>5

LEMMA WifiKeepsLines ==
  ASSUME StartInv, LinesInv,
         get_http_config \/ networkRecvCb \/ Log, UNCHANGED meter
  PROVE  LinesInv'
<1>0. /\ dmaBuff \in Seq(Pieces) /\ fifo \in Seq(Pieces) /\ wire \in Seq(Pieces)
      /\ dmaBuff' = dmaBuff /\ fifo' = fifo /\ Listening' = Listening
      /\ Listening \in BOOLEAN /\ printed \subseteq Settings
  BY DEF StartInv, TypeOK, meter, dma, Listening
<1> SUFFICES ASSUME ~torn' PROVE InOrder(dmaBuff, fifo, wire', Listening, printed')
  BY <1>0 DEF LinesInv
<1>1. UNCHANGED torn
  BY DEF get_http_config, networkRecvCb, Log
<1>2. InOrder(dmaBuff, fifo, wire, Listening, printed)
  BY <1>1 DEF LinesInv
<1>3. CASE get_http_config
  BY <1>2, <1>3 DEF get_http_config
<1>4. ASSUME NEW w \in Seq(Pieces), NEW Q, printed \subseteq Q, Chained(w, Q), Ended(w),
             wire = <<>>
      PROVE  InOrder(dmaBuff, fifo, w, Listening, Q)
  BY <1>0, <1>2, <1>4, LinePrinted
<1>5. CASE networkRecvCb
  <2>1. PICK n \in Settings : wire' = SettingsLine(n) /\ printed' = printed \cup {n}
    BY <1>5 DEF networkRecvCb
  <2>2. PICK Q : Q = printed \cup {n}
    OBVIOUS
  <2>3. n \in Q /\ printed \subseteq Q
    BY <2>2
  <2>4. SettingsLine(n) \in Seq(Pieces) /\ Chained(SettingsLine(n), Q) /\ Ended(SettingsLine(n))
    BY <2>3, LineFacts
  <2>5. InOrder(dmaBuff, fifo, SettingsLine(n), Listening, Q)
    BY <1>4, <1>5, <2>3, <2>4 DEF networkRecvCb
  <2> QED
    BY <2>1, <2>2, <2>5
<1>6. CASE Log
  <2>1. PICK w : w = <<"text", "newline">>
    OBVIOUS
  <2>2. w \in Seq(Pieces) /\ Chained(w, printed) /\ Ended(w)
    BY <2>1, LineFacts, Zenon
  <2>3. InOrder(dmaBuff, fifo, w, Listening, printed)
    BY <1>4, <1>6, <2>2 DEF Log
  <2> QED
    BY <1>6, <2>1, <2>3 DEF Log
<1> QED
  BY <1>3, <1>5, <1>6

LEMMA RestartKeepsLines ==
  ASSUME StartInv, LinesInv, MeterRestarts \/ WifiRestarts
  PROVE  LinesInv'
<1>0. /\ dmaBuff \in Seq(Pieces) /\ fifo \in Seq(Pieces) /\ wire \in Seq(Pieces)
      /\ Listening \in BOOLEAN
  BY DEF StartInv, TypeOK, Listening
<1>1. CASE MeterRestarts
  <2>1. /\ dmaBuff' = <<>> /\ fifo' = <<>> /\ UNCHANGED <<wire, printed, torn>>
        /\ Listening' = FALSE
    BY <1>1 DEF MeterRestarts, MeterStart, wifi, Listening
  <2>2. ASSUME ~torn PROVE InOrder(<<>>, <<>>, wire, FALSE, printed)
    <3>1. Chained(wire, printed) /\ Ended(wire)
      BY <2>2 DEF LinesInv, InOrder
    <3> QED
      BY <1>0, <3>1, NothingHeld
  <2> QED
    BY <2>1, <2>2 DEF LinesInv
<1>2. CASE WifiRestarts
  <2>1. /\ UNCHANGED <<dmaBuff, fifo, printed>> /\ Listening' = Listening
        /\ wire' = Ready /\ (~torn' => ~torn /\ wire = <<>>)
    BY <1>2 DEF WifiRestarts, meter, dma, Listening
  <2>2. ASSUME ~torn, wire = <<>> PROVE InOrder(dmaBuff, fifo, Ready, Listening, printed)
    <3>1. Ready \in Seq(Pieces) /\ Chained(Ready, printed) /\ Ended(Ready)
      BY LineFacts, Zenon
    <3>2. InOrder(dmaBuff, fifo, <<>>, Listening, printed)
      BY <2>2 DEF LinesInv
    <3> QED
      BY <1>0, <3>1, <3>2, LinePrinted
  <2> QED
    BY <2>1, <2>2 DEF LinesInv
<1> QED
  BY <1>1, <1>2

(* The line the meter takes is one of the settings, and it is kept.        *)
LEMMA HandlerTakesSettings ==
  ASSUME StartInv, LinesInv, NumberAsPrinted, Handler, UNCHANGED wifi
  PROVE  NumberAsPrinted'
<1>0. /\ dmaBuff \in Seq(Pieces) /\ fifo \in Seq(Pieces)
      /\ UNCHANGED <<printed, torn, number>> /\ printed \in SUBSET Settings
  BY DEF StartInv, TypeOK, wifi, Handler, DmaHandler0, ClearFlags, taken
<1> SUFFICES ASSUME ~torn
             PROVE  /\ config_ready' => \E n \in printed : dmaBuff' = SettingsLine(n)
                    /\ number # "none" => number \in printed
  BY <1>0 DEF NumberAsPrinted, SettingsLine
<1>1. number # "none" => number \in printed
  BY DEF NumberAsPrinted
<1>2. CASE DmaHandler0 /\ Accepted /\ UNCHANGED dmaBuff
  <2>1. Chained(dmaBuff, printed)
    BY <1>0, ChainParts DEF LinesInv, InOrder
  <2>2. /\ dmaBuff # <<>> /\ dmaBuff[Len(dmaBuff)] = "newline"
        /\ \A i \in 1 .. Len(dmaBuff) - 1 : dmaBuff[i] # "newline"
    BY <1>2 DEF DmaHandler0, StartInv, ChannelInv
  <2>3. Head(dmaBuff) = "head"
    BY <1>2 DEF Accepted
  <2>4. \E n \in printed : dmaBuff = SettingsLine(n)
    BY <1>0, <2>1, <2>2, <2>3, FullLine
  <2> QED
    BY <1>1, <1>2, <2>4
<1>3. CASE DmaHandler0 /\ UNCHANGED config_ready
  BY <1>1, <1>3 DEF DmaHandler0, StartInv, ChannelInv
<1>4. CASE ClearFlags
  BY <1>1, <1>4 DEF ClearFlags, taken, NumberAsPrinted
<1> QED
  BY <1>2, <1>3, <1>4 DEF Handler, DmaHandler0

(* What GetConfig reads is the number of that line.                        *)
LEMMA MainUsesSettings ==
  ASSUME StartInv, NumberAsPrinted, MeterMain, UNCHANGED wifi
  PROVE  NumberAsPrinted'
<1>0. UNCHANGED <<printed, torn>>
  BY DEF wifi
<1> SUFFICES ASSUME ~torn
             PROVE  /\ config_ready' => \E n \in printed : dmaBuff' = SettingsLine(n)
                    /\ number' # "none" => number' \in printed
  BY <1>0 DEF NumberAsPrinted, SettingsLine
<1>1. /\ config_ready => \E n \in printed : dmaBuff = SettingsLine(n)
      /\ number # "none" => number \in printed
  BY DEF NumberAsPrinted
<1>2. CASE GetConfig
  <2>1. PICK n \in printed : dmaBuff = SettingsLine(n)
    BY <1>1, <1>2 DEF GetConfig
  <2>2. dmaBuff[2] = n
    BY <2>1 DEF SettingsLine
  <2> QED
    BY <1>1, <1>2, <2>2 DEF GetConfig, dma
<1>3. CASE StartReceiving
  BY <1>1, <1>3 DEF StartReceiving, StartInv, ChannelInv, taken
<1>4. CASE \/ BufferToUART_Init \/ INTEnableInterrupts \/ SetReadyForConfigure
           \/ MCP391x_Init \/ StartSPIAcquisition
  BY <1>1, <1>4 DEF BufferToUART_Init, INTEnableInterrupts, SetReadyForConfigure,
     MCP391x_Init, StartSPIAcquisition, dma, taken
<1> QED
  BY <1>2, <1>3, <1>4 DEF MeterMain

(* Nothing else touches what the meter has taken.                          *)
LEMMA OthersKeepSettings ==
  ASSUME StartInv, NumberAsPrinted,
         \/ Transfer /\ UNCHANGED wifi
         \/ Receive
         \/ (get_http_config \/ networkRecvCb \/ Log) /\ UNCHANGED meter
         \/ MeterRestarts \/ WifiRestarts
         \/ UNCHANGED vars
  PROVE  NumberAsPrinted'
<1>1. \/ ~config_ready' \/ UNCHANGED <<config_ready, dmaBuff>>
  BY DEF Transfer, Receive, meter, dma, taken, MeterRestarts, MeterStart, WifiRestarts, vars,
         StartInv, ChannelInv
<1>2. number' = "none" \/ number' = number
  BY DEF Transfer, Receive, meter, taken, MeterRestarts, MeterStart, WifiRestarts, vars
<1>3. \/ UNCHANGED torn \/ torn' = (torn \/ wire # <<>>)
  BY DEF Transfer, Receive, get_http_config, networkRecvCb, Log, wifi,
         MeterRestarts, WifiRestarts, vars
<1>4. ~torn' => ~torn
  BY <1>3
<1>5. printed \subseteq printed'
  <2>1. UNCHANGED printed \/ networkRecvCb
    BY DEF Transfer, Receive, get_http_config, Log, wifi, MeterRestarts, WifiRestarts, vars
  <2> QED
    BY <2>1 DEF networkRecvCb
<1> QED
  BY <1>1, <1>2, <1>4, <1>5 DEF NumberAsPrinted, SettingsLine

LEMMA StartLinesInit == Init => StartLinesInv
<1> SUFFICES ASSUME Init PROVE StartLinesInv
  OBVIOUS
<1>1. Ready \in Seq(Pieces) /\ Chained(Ready, printed) /\ Ended(Ready)
  BY LineFacts, Zenon
<1>2. dmaBuff = <<>> /\ fifo = <<>> /\ wire = Ready /\ Listening = FALSE
  BY DEF Init, Listening
<1>3. LinesInv
  BY <1>1, <1>2, NothingHeld DEF LinesInv
<1>4. NumberAsPrinted
  BY DEF Init, NumberAsPrinted
<1> QED
  BY <1>3, <1>4, StartInit DEF StartLinesInv

LEMMA StartLinesStep == StartLinesInv /\ [Next]_vars => StartLinesInv'
<1> SUFFICES ASSUME StartLinesInv, [Next]_vars PROVE StartLinesInv'
  OBVIOUS
<1>0. StartInv /\ LinesInv /\ NumberAsPrinted /\ StartInv'
  BY StartStep DEF StartLinesInv
<1>1. CASE (MeterMain \/ Handler \/ Transfer) /\ UNCHANGED <<wifi, logs, restarts>>
  <2>1. LinesInv'
    BY <1>0, <1>1, MainKeepsLines, HandlerKeepsLines
  <2>2. NumberAsPrinted'
    BY <1>0, <1>1, MainUsesSettings, HandlerTakesSettings, OthersKeepSettings
  <2> QED
    BY <1>0, <2>1, <2>2 DEF StartLinesInv
<1>2. CASE Receive /\ UNCHANGED <<logs, restarts>>
  BY <1>0, <1>2, ReceiveKeepsLines, OthersKeepSettings DEF StartLinesInv
<1>3. CASE \/ (get_http_config \/ networkRecvCb) /\ UNCHANGED <<meter, logs, restarts>>
           \/ Log /\ UNCHANGED <<meter, restarts>>
  BY <1>0, <1>3, WifiKeepsLines, OthersKeepSettings DEF StartLinesInv
<1>4. CASE MeterRestarts \/ WifiRestarts
  BY <1>0, <1>4, RestartKeepsLines, OthersKeepSettings DEF StartLinesInv
<1>5. CASE UNCHANGED vars
  <2>1. LinesInv'
    BY <1>0, <1>5 DEF LinesInv, Listening, vars, meter, dma, wifi
  <2> QED
    BY <1>0, <1>5, <2>1, OthersKeepSettings DEF StartLinesInv
<1> QED
  BY <1>1, <1>2, <1>3, <1>4, <1>5 DEF Next

(* What GetConfig reads is a number the Wi-Fi module has printed as one    *)
(* whole line of its own, whatever else it prints, however many answers    *)
(* come, whichever interrupt DmaHandler0 clears too much and whenever the  *)
(* meter's UART overruns or the meter restarts, unless the Wi-Fi module    *)
(* lost power within a line.  (It is not what the converter is given.)     *)
THEOREM NumberFromPrinted == Spec => []NumberAsPrinted
<1>1. StartLinesInv => NumberAsPrinted
  BY DEF StartLinesInv
<1> QED
  BY <1>1, StartLinesInit, StartLinesStep, PTL DEF Spec

-----------------------------------------------------------------------------
(* Until the settings are taken, the channel is open or its handler is due,*)
(* unless the flags of a line have been cleared unseen.                    *)
WaitsInv ==
  ~config_ready =>
    /\ pc \notin {"configured", "converter", "sampling"}
    /\ pc \in {"armed", "enabled", "waiting"} => channel = "armed" \/ due \/ lost

LEMMA WaitsStep == TypeOK /\ WaitsInv /\ [Next]_vars => WaitsInv'
<1> SUFFICES ASSUME TypeOK, WaitsInv, [Next]_vars PROVE WaitsInv'
  OBVIOUS
<1> USE DEF WaitsInv
<1>1. CASE MeterMain
  BY <1>1 DEF MeterMain, BufferToUART_Init, StartReceiving, DMAStartUARTRX,
     INTEnableInterrupts, SetReadyForConfigure, GetConfig, MCP391x_Init, StartSPIAcquisition,
     dma, taken
<1>2. CASE DmaHandler0
  <2>1. CASE config_ready' = TRUE
    BY <2>1
  <2>2. CASE channel' = "armed" /\ UNCHANGED <<pc, config_ready>>
    BY <2>2 DEF TypeOK
  <2> QED
    BY <1>2, <2>1, <2>2, Zenon DEF DmaHandler0, DMAStartUARTRX
<1>3. CASE ClearFlags
  BY <1>3 DEF ClearFlags, taken
<1>4. CASE Transfer
  BY <1>4 DEF Transfer, taken
<1>5. CASE Receive
  BY <1>5 DEF Receive, dma, taken
<1>6. CASE UNCHANGED meter
  BY <1>6 DEF meter, dma, taken
<1>7. CASE MeterRestarts
  BY <1>7 DEF MeterRestarts, MeterStart
<1>8. UNCHANGED vars \/ WifiRestarts => UNCHANGED meter
  BY DEF vars, WifiRestarts
<1> QED
  BY <1>1, <1>2, <1>3, <1>4, <1>5, <1>6, <1>7, <1>8 DEF Next, Handler

(* "Didn't get what we want keep waiting" (DMA_Transfer.c:264) holds with  *)
(* one exception: once the meter's interrupts are on and until it has its  *)
(* settings, the channel is open or its handler due, unless DmaHandler0    *)
(* has cleared the flags (:270-271) of a line that came behind the channel *)
(* it had just armed again.                                                *)
THEOREM WaitsUnlessInterruptLost == Spec => [](lost \/ KeepsWaiting)
<1>1. Init => WaitsInv
  BY DEF Init, WaitsInv
<1>2. WaitsInv => lost \/ KeepsWaiting
  BY DEF WaitsInv, KeepsWaiting, InterruptsOn
<1> QED
  BY <1>1, <1>2, WaitsStep, StartTypeCorrect, PTL DEF Spec
=============================================================================
