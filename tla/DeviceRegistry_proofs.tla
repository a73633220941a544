------------------------ MODULE DeviceRegistry_proofs ------------------------
(***************************************************************************)
(* Theorems about the registry, for every number of devices, users, points *)
(* and requests, whatever serials contain one another: types, and that the *)
(* rows, the queries and the points of a device outlive all that happens   *)
(* to others.                                                              *)
(***************************************************************************)
EXTENDS DeviceRegistry, TLAPS

(* A session that has seen every change of the row knows it: a request     *)
(* with an event holds the row as it is, an edit all of it but the owner   *)
(* it names, and a user has found it unregistered.                         *)
RowKnown ==
  /\ \A d \in Devices : event[d] # "idle" => copy[d] # None
  /\ \A d \in Devices :
       event[d] # "idle" /\ <<"event", d>> \notin stale => row[d] = copy[d]
  /\ \A d \in Devices :
       edit[d] # None /\ <<"edit", d>> \notin stale =>
         row[d] # None /\ (edit[d].named \/ edit[d].value = row[d])
  /\ \A u \in Users, d \in Devices :
       pair[u] = d /\ <<u, d>> \notin stale => row[d] # None /\ ~row[d].registered

(* Those of its queries that nobody is about to add.                       *)
Due(d) == IF event[d] = "add" THEN {<<d, "other">>} ELSE {d} \X Kinds

(* The queries are there before the row and go with it.                    *)
QueriesThere ==
  \A d \in Devices : Plain(d) /\ d \notin half /\ d \notin clash /\ d \notin copied =>
    /\ row[d] # None /\ remove[d] # "row" => Due(d) \subseteq queries
    /\ d \in create /\ <<"create", d>> \notin stale => Due(d) \subseteq queries

(* Who drops or deletes goes by the names.                                 *)
NamesMatch ==
  /\ \A d \in Devices : \A e \in drops[d] : Inside(d, e)
  /\ job = "delete" => \A e \in victims : Inside(current, e)

(* The job is at a device, or was at one when it has uploaded something.   *)
CurrentKnown ==
  /\ job \in {"upload", "list", "delete"} => current \in Devices
  /\ job = "next" /\ archive_size > 0 => current \in Devices

(* What the job will find to delete it has asked for, or missed.           *)
OldAccounted ==
  /\ job = "upload" =>
       \A t \in Old(current, series[current]) : t \in points \/ <<current, t>> \in unseen
  /\ job \in {"list", "delete"} =>
       \A t \in Old(current, series[current]) : <<current, t>> \in sent \cup unseen

RegistryInv ==
  TypeOK /\ CurrentKnown /\ RowKnown /\ QueriesThere /\ NamesMatch /\ OldAccounted

-----------------------------------------------------------------------------
(* The steps, one by one.                                                  *)
LEMMA Steps ==
  ASSUME [Next]_vars
  PROVE  \/ \E d \in Devices :
              \/ RegisterQueries(d) \/ SaveNew(d) \/ CreateDies(d)
              \/ LoadDevice(d) \/ SaveCount(d) \/ WritePoints(d) \/ DropMean(d)
              \/ AddMean(d) \/ EventDies(d) \/ SaveAddress(d)
              \/ LoadEdit(d) \/ SaveEdit(d) \/ SaveCopy(d)
         \/ \E u \in Users : (\E d \in Devices : FindUnpaired(u, d)) \/ SavePaired(u)
         \/ \E d \in Devices :
              \/ RemoveDevice(d) \/ ListSeries(d) \/ (\E e \in Devices : DropSeries(d, e))
              \/ DropQueries(d) \/ DeleteRow(d) \/ RemovalDies(d)
         \/ \E d \in Devices : Skip(d) \/ QueryPoints(d) \/ DeletePoints(d)
         \/ InitiateUpload \/ UploadParts \/ ListVictims \/ Done \/ CompleteUpload
         \/ JobDies
         \/ UNCHANGED vars
  BY DEF Next, Api, Removal, Pairing, archive_database

LEMMA ChangedTyped ==
  ASSUME TypeOK, NEW s, NEW d \in Devices
  PROVE  Changed(s, d) \subseteq Sessions \X Devices
  BY DEF TypeOK, Changed, AtWork, Sessions

LEMMA SaveTyped ==
  ASSUME TypeOK, NEW s, NEW d \in Devices, NEW value \in Rows \cup {None},
         Save(s, d, value)
  PROVE  /\ row' \in [Devices -> Rows \cup {None}] /\ stale' \subseteq Sessions \X Devices
         /\ clash' \subseteq Devices
  BY ChangedTyped DEF TypeOK, Save

LEMMA CountTyped ==
  ASSUME TypeOK, NEW k \in Requests, NEW max,
         Bounded(k, max)
  PROVE  count' \in [Requests -> Nat]
  BY DEF TypeOK, Bounded, Requests

LEMMA InitRegistryInv == Init => RegistryInv
<1> SUFFICES ASSUME Init PROVE RegistryInv
  OBVIOUS
<1>1. TypeOK
  BY DEF Init, TypeOK, Rows
<1>2. CurrentKnown /\ OldAccounted
  BY DEF Init, CurrentKnown, OldAccounted
<1>3. RowKnown
  BY RegistryAssumption DEF Init, RowKnown
<1>4. QueriesThere
  BY DEF Init, QueriesThere
<1>5. NamesMatch
  BY DEF Init, NamesMatch
<1> QED
  BY <1>1, <1>2, <1>3, <1>4, <1>5 DEF RegistryInv

LEMMA NextTypeOK == TypeOK /\ CurrentKnown /\ [Next]_vars => TypeOK'
<1> SUFFICES ASSUME TypeOK, CurrentKnown, [Next]_vars PROVE TypeOK'
  OBVIOUS
<1> USE DEF TypeOK, registry, session, removal, archive
<1>1. ASSUME NEW d \in Devices, RegisterQueries(d) \/ SaveNew(d) \/ CreateDies(d)
      PROVE  TypeOK'
  <2>1. CASE RegisterQueries(d)
    <3>1. queries' \subseteq Devices \X Kinds
      BY <2>1 DEF RegisterQueries
    <3> QED
      BY <2>1, <3>1, CountTyped DEF RegisterQueries, Requests
  <2>2. CASE SaveNew(d)
    BY <2>2, ChangedTyped DEF SaveNew, Rows, New
  <2>3. CASE CreateDies(d)
    BY <2>3 DEF CreateDies
  <2> QED
    BY <1>1, <2>1, <2>2, <2>3
<1>2. ASSUME NEW d \in Devices,
             \/ LoadDevice(d) \/ SaveCount(d) \/ WritePoints(d) \/ DropMean(d)
             \/ AddMean(d) \/ EventDies(d) \/ SaveAddress(d)
      PROVE  TypeOK'
  <2>1. CASE LoadDevice(d)
    BY <2>1, CountTyped DEF LoadDevice, Requests
  <2>2. CASE SaveCount(d)
    BY <2>2, SaveTyped DEF SaveCount
  <2>3. CASE WritePoints(d)
    <3>1. PICK t \in Times :
            /\ series' = [series EXCEPT ![d] = @ \cup {t}]
            /\ sent' = IF t \in series[d] THEN sent ELSE sent \ {<<d, t>>}
            /\ unseen' = IF t \notin series[d] /\ AskedFor(d)
                         THEN unseen \cup {<<d, t>>} ELSE unseen
      BY <2>3 DEF WritePoints
    <3>2. series' \in [Devices -> SUBSET Times]
      BY <3>1
    <3>3. sent' \subseteq Points /\ unseen' \subseteq Points
      BY <3>1 DEF Points
    <3> QED
      BY <2>3, <3>2, <3>3 DEF WritePoints
  <2>4. CASE EventDies(d)
    BY <2>4 DEF EventDies
  <2>5. CASE SaveAddress(d)
    BY <2>5, SaveTyped DEF SaveAddress
  <2>6. CASE DropMean(d)
    BY <2>6 DEF DropMean
  <2>7. CASE AddMean(d)
    BY <2>7 DEF AddMean, Kinds
  <2> QED
    BY <1>2, <2>1, <2>2, <2>3, <2>4, <2>5, <2>6, <2>7
<1>11. ASSUME NEW d \in Devices, LoadEdit(d) \/ SaveEdit(d) \/ SaveCopy(d)
       PROVE  TypeOK'
  <2>1. CASE LoadEdit(d)
    <3>1. PICK value \in Rows, named \in BOOLEAN, e \in Devices :
            /\ value.registered = row[d].registered
            /\ named \/ value = row[d]
            /\ e = d \/ row[e] = None
            /\ edit' = [edit EXCEPT ![d] = [value |-> value, named |-> named, serial |-> e]]
      BY <2>1, Zenon DEF LoadEdit
    <3>2. [value |-> value, named |-> named, serial |-> e] \in Edits
      BY DEF Edits
    <3>3. edit' \in [Devices -> Edits \cup {None}]
      BY <3>1, <3>2
    <3> QED
      BY <2>1, <3>3, CountTyped DEF LoadEdit, Requests
  <2>2. CASE SaveEdit(d)
    <3>1. edit[d].value \in Rows
      BY <2>2 DEF SaveEdit, Edits
    <3> QED
      BY <2>2, <3>1, SaveTyped DEF SaveEdit
  <2>3. CASE SaveCopy(d)
    <3> DEFINE e == edit[d].serial
    <3>1. edit[d].value \in Rows /\ e \in Devices
      BY <2>3 DEF SaveCopy, Edits
    <3>2. row' = [row EXCEPT ![e] = edit[d].value] /\ stale' \subseteq Changed("copy", e)
          /\ clash' \subseteq clash \cup {e} /\ copied' = copied \cup {e}
      BY <2>3 DEF SaveCopy
    <3> QED
      BY <2>3, <3>1, <3>2, ChangedTyped DEF SaveCopy
  <2> QED
    BY <1>11, <2>1, <2>2, <2>3
<1>3. ASSUME NEW u \in Users, (\E d \in Devices : FindUnpaired(u, d)) \/ SavePaired(u)
      PROVE  TypeOK'
  <2>1. ASSUME NEW d \in Devices, FindUnpaired(u, d) PROVE TypeOK'
    BY <2>1, CountTyped DEF FindUnpaired, Requests
  <2>2. CASE SavePaired(u)
    <3>1. Paired(u) \in Rows
      BY DEF Paired, Rows
    <3> QED
      BY <2>2, <3>1, SaveTyped DEF SavePaired
  <2> QED
    BY <1>3, <2>1, <2>2
<1>4. ASSUME NEW d \in Devices,
             \/ RemoveDevice(d) \/ ListSeries(d) \/ (\E e \in Devices : DropSeries(d, e))
             \/ DropQueries(d) \/ DeleteRow(d) \/ RemovalDies(d)
      PROVE  TypeOK'
  <2>1. CASE RemoveDevice(d)
    BY <2>1, CountTyped DEF RemoveDevice, Requests
  <2>2. CASE ListSeries(d)
    BY <2>2 DEF ListSeries
  <2>3. ASSUME NEW e \in Devices, DropSeries(d, e) PROVE TypeOK'
    BY <2>3 DEF DropSeries
  <2>4. CASE DropQueries(d)
    BY <2>4, ChangedTyped DEF DropQueries
  <2>5. CASE DeleteRow(d)
    BY <2>5, ChangedTyped DEF DeleteRow
  <2>6. CASE RemovalDies(d)
    BY <2>6, ChangedTyped DEF RemovalDies
  <2> QED
    BY <1>4, <2>1, <2>2, <2>3, <2>4, <2>5, <2>6
<1>5. ASSUME NEW d \in Devices, Skip(d) \/ QueryPoints(d) \/ DeletePoints(d)
      PROVE  TypeOK'
  <2>1. CASE Skip(d)
    BY <2>1 DEF Skip
  <2>2. CASE QueryPoints(d)
    BY <2>2 DEF QueryPoints, Old
  <2>3. CASE DeletePoints(d)
    <3>1. Old(current, series[d]) \subseteq series[d]
      BY DEF Old
    <3>2. deleted' \subseteq Points
      BY <2>3, <3>1 DEF DeletePoints, Points
    <3>3. series' \in [Devices -> SUBSET Times]
      BY <2>3 DEF DeletePoints
    <3> QED
      BY <2>3, <3>2, <3>3 DEF DeletePoints
  <2> QED
    BY <1>5, <2>1, <2>2, <2>3
<1>6. CASE InitiateUpload
  BY <1>6, CountTyped DEF InitiateUpload, Requests
<1>7. CASE UploadParts
  <2>1. current \in Devices /\ bytes' \in Nat /\ archive_size' \in Nat
    BY <1>7, RegistryAssumption DEF UploadParts, CurrentKnown
  <2> QED
    BY <1>7, <2>1 DEF UploadParts, Points
<1>8. CASE ListVictims \/ Done \/ JobDies
  BY <1>8 DEF ListVictims, Done, JobDies
<1>9. CASE CompleteUpload
  <2>1. archived' \subseteq Points
    BY <1>9 DEF CompleteUpload, Points, CurrentKnown
  <2> QED
    BY <1>9, <2>1 DEF CompleteUpload
<1>10. CASE UNCHANGED vars
  BY <1>10 DEF vars
<1> QED
  BY <1>1, <1>2, <1>3, <1>4, <1>5, <1>6, <1>7, <1>8, <1>9, <1>10, <1>11, Steps

LEMMA NextCurrentKnown == TypeOK /\ CurrentKnown /\ [Next]_vars => CurrentKnown'
<1> SUFFICES ASSUME TypeOK, CurrentKnown, [Next]_vars PROVE CurrentKnown'
  OBVIOUS
<1> USE DEF CurrentKnown, archive
<1>1. ASSUME NEW d \in Devices, Api(d) \/ Removal(d) PROVE CurrentKnown'
  BY <1>1 DEF Api, RegisterQueries, SaveNew, CreateDies, LoadDevice, SaveCount,
     WritePoints, DropMean, AddMean, EventDies, SaveAddress, LoadEdit, SaveEdit,
     SaveCopy, Removal, RemoveDevice, ListSeries,
     DropSeries, DropQueries, DeleteRow, RemovalDies
<1>2. ASSUME NEW u \in Users, Pairing(u) PROVE CurrentKnown'
  BY <1>2 DEF Pairing, FindUnpaired, SavePaired
<1>3. CASE archive_database
  BY <1>3 DEF archive_database, InitiateUpload, Skip, QueryPoints, DeletePoints,
     UploadParts, ListVictims, Done, CompleteUpload, JobDies
<1>4. CASE UNCHANGED vars
  BY <1>4 DEF vars
<1> QED
  BY <1>1, <1>2, <1>3, <1>4 DEF Next

(* Only the sessions of d and its removal touch its row, and only those of *)
(* its users that have found it.                                           *)
LEMMA NextRowKnown == RegistryInv /\ [Next]_vars => RowKnown'
<1> SUFFICES ASSUME RegistryInv, [Next]_vars PROVE RowKnown'
  OBVIOUS
<1> USE RegistryAssumption DEF RegistryInv, TypeOK, RowKnown, registry, session, removal, archive
<1>1. ASSUME NEW d \in Devices, RegisterQueries(d) \/ CreateDies(d) PROVE RowKnown'
  BY <1>1 DEF RegisterQueries, CreateDies
<1>2. ASSUME NEW d \in Devices, SaveNew(d) PROVE RowKnown'
  BY <1>2 DEF SaveNew, Changed, AtWork
<1>3. ASSUME NEW d \in Devices, LoadDevice(d) PROVE RowKnown'
  BY <1>3 DEF LoadDevice
<1>4. ASSUME NEW d \in Devices, SaveCount(d) PROVE RowKnown'
  BY <1>4 DEF SaveCount, Save, Changed, AtWork
<1>5. ASSUME NEW d \in Devices, WritePoints(d) \/ DropMean(d) \/ AddMean(d)
      PROVE  RowKnown'
  BY <1>5 DEF WritePoints, DropMean, AddMean
<1>14. ASSUME NEW d \in Devices, LoadEdit(d) PROVE RowKnown'
  BY <1>14 DEF LoadEdit
<1>15. ASSUME NEW d \in Devices, SaveEdit(d) PROVE RowKnown'
  BY <1>15 DEF SaveEdit, Save, Changed, AtWork
<1>16. ASSUME NEW d \in Devices, SaveCopy(d) PROVE RowKnown'
  BY <1>16 DEF SaveCopy, Changed, AtWork
<1>6. ASSUME NEW d \in Devices, EventDies(d) PROVE RowKnown'
  BY <1>6 DEF EventDies
<1>7. ASSUME NEW d \in Devices, SaveAddress(d) PROVE RowKnown'
  BY <1>7 DEF SaveAddress, Save, Changed, AtWork
<1>8. ASSUME NEW u \in Users, NEW d \in Devices, FindUnpaired(u, d) PROVE RowKnown'
  BY <1>8 DEF FindUnpaired
<1>9. ASSUME NEW u \in Users, SavePaired(u) PROVE RowKnown'
  BY <1>9 DEF SavePaired, Save, Changed, AtWork
<1>10. ASSUME NEW d \in Devices,
              RemoveDevice(d) \/ ListSeries(d) \/ (\E e \in Devices : DropSeries(d, e))
       PROVE  RowKnown'
  BY <1>10 DEF RemoveDevice, ListSeries, DropSeries
<1>11. ASSUME NEW d \in Devices, DropQueries(d) \/ DeleteRow(d) \/ RemovalDies(d)
       PROVE  RowKnown'
  BY <1>11 DEF DropQueries, DeleteRow, RemovalDies, Changed, AtWork
<1>12. CASE archive_database
  BY <1>12 DEF archive_database, InitiateUpload, Skip, QueryPoints, DeletePoints,
     UploadParts, ListVictims, Done, CompleteUpload, JobDies
<1>13. CASE UNCHANGED vars
  BY <1>13 DEF vars
<1> QED
  BY <1>1, <1>2, <1>3, <1>4, <1>5, <1>6, <1>7, <1>8, <1>9, <1>10, <1>11, <1>12,
     <1>13, <1>14, <1>15, <1>16 DEF Next, Api, Pairing, Removal

LEMMA NextQueriesThere == RegistryInv /\ [Next]_vars => QueriesThere'
<1> SUFFICES ASSUME RegistryInv, [Next]_vars PROVE QueriesThere'
  OBVIOUS
<1> USE RegistryAssumption
    DEF RegistryInv, TypeOK, RowKnown, QueriesThere, Due, registry, session, removal,
        archive
<1>1. ASSUME NEW d \in Devices, RegisterQueries(d) \/ CreateDies(d) PROVE QueriesThere'
  <2>1. CASE RegisterQueries(d)
    <3>1. /\ create' = create \cup {d} /\ queries' = queries \cup ({d} \X Kinds)
          /\ UNCHANGED <<row, remove, event, stale, half, clash, copied>>
      BY <2>1 DEF RegisterQueries
    <3>2. \A e \in Devices : Due(e)' = Due(e)
      BY <3>1
    <3>3. Due(d) \subseteq {d} \X Kinds
      BY DEF Kinds
    <3> HIDE DEF Due
    <3> QED
      BY <3>1, <3>2, <3>3 DEF Plain
  <2>2. CASE CreateDies(d)
    BY <2>2 DEF CreateDies
  <2> QED
    BY <1>1, <2>1, <2>2
<1>2. ASSUME NEW d \in Devices, SaveNew(d) PROVE QueriesThere'
  BY <1>2 DEF SaveNew, Changed, AtWork
<1>3. ASSUME NEW d \in Devices,
             \/ LoadDevice(d) \/ WritePoints(d) \/ DropMean(d) \/ AddMean(d)
             \/ EventDies(d) \/ LoadEdit(d)
      PROVE  QueriesThere'
  <2>1. CASE LoadDevice(d)
    BY <2>1 DEF LoadDevice
  <2>2. CASE WritePoints(d)
    BY <2>2 DEF WritePoints
  <2>3. CASE DropMean(d)
    BY <2>3 DEF DropMean, Kinds
  <2>4. CASE AddMean(d)
    BY <2>4 DEF AddMean, Kinds
  <2>5. CASE EventDies(d)
    BY <2>5 DEF EventDies
  <2>6. CASE LoadEdit(d)
    BY <2>6 DEF LoadEdit
  <2> QED
    BY <1>3, <2>1, <2>2, <2>3, <2>4, <2>5, <2>6
<1>11. ASSUME NEW d \in Devices, SaveEdit(d) PROVE QueriesThere'
  BY <1>11 DEF SaveEdit, Save, Changed, AtWork
<1>12. ASSUME NEW d \in Devices, SaveCopy(d) PROVE QueriesThere'
  BY <1>12 DEF SaveCopy, Changed, AtWork
<1>4. ASSUME NEW d \in Devices, SaveCount(d) \/ SaveAddress(d) PROVE QueriesThere'
  BY <1>4 DEF SaveCount, SaveAddress, Save, Changed, AtWork
<1>5. ASSUME NEW u \in Users, Pairing(u) PROVE QueriesThere'
  BY <1>5 DEF Pairing, FindUnpaired, SavePaired, Save, Changed, AtWork
<1>6. ASSUME NEW d \in Devices,
             RemoveDevice(d) \/ ListSeries(d) \/ (\E e \in Devices : DropSeries(d, e))
      PROVE  QueriesThere'
  BY <1>6 DEF RemoveDevice, ListSeries, DropSeries
<1>7. ASSUME NEW d \in Devices, DropQueries(d) \/ RemovalDies(d) PROVE QueriesThere'
  BY <1>7 DEF DropQueries, RemovalDies, Plain, Changed, AtWork
<1>8. ASSUME NEW d \in Devices, DeleteRow(d) PROVE QueriesThere'
  BY <1>8 DEF DeleteRow, Changed, AtWork
<1>9. CASE archive_database
  BY <1>9 DEF archive_database, InitiateUpload, Skip, QueryPoints, DeletePoints,
     UploadParts, ListVictims, Done, CompleteUpload, JobDies
<1>10. CASE UNCHANGED vars
  BY <1>10 DEF vars
<1> QED
  BY <1>1, <1>2, <1>3, <1>4, <1>5, <1>6, <1>7, <1>8, <1>9, <1>10, <1>11, <1>12
  DEF Next, Api, Removal

LEMMA NextNamesMatch == TypeOK /\ NamesMatch /\ [Next]_vars => NamesMatch'
<1> SUFFICES ASSUME TypeOK, NamesMatch, [Next]_vars PROVE NamesMatch'
  OBVIOUS
<1> USE DEF TypeOK, NamesMatch, removal, archive
<1>1. ASSUME NEW d \in Devices, Api(d) PROVE NamesMatch'
  BY <1>1 DEF Api, RegisterQueries, SaveNew, CreateDies, LoadDevice, SaveCount,
     WritePoints, DropMean, AddMean, EventDies, SaveAddress, LoadEdit, SaveEdit, SaveCopy
<1>2. ASSUME NEW u \in Users, Pairing(u) PROVE NamesMatch'
  BY <1>2 DEF Pairing, FindUnpaired, SavePaired
<1>3. ASSUME NEW d \in Devices, Removal(d) PROVE NamesMatch'
  BY <1>3 DEF Removal, RemoveDevice, ListSeries, DropSeries, DropQueries, DeleteRow,
     RemovalDies
<1>4. CASE archive_database
  BY <1>4 DEF archive_database, InitiateUpload, Skip, QueryPoints, DeletePoints,
     UploadParts, ListVictims, Done, CompleteUpload, JobDies
<1>5. CASE UNCHANGED vars
  BY <1>5 DEF vars
<1> QED
  BY <1>1, <1>2, <1>3, <1>4, <1>5 DEF Next

(* A series only loses points but by WritePoints, and a point that comes   *)
(* while the job is at its device goes to unseen.                          *)
LEMMA NextOldAccounted ==
  TypeOK /\ CurrentKnown /\ OldAccounted /\ [Next]_vars => OldAccounted'
<1> SUFFICES ASSUME TypeOK, CurrentKnown, OldAccounted, [Next]_vars PROVE OldAccounted'
  OBVIOUS
<1> USE DEF TypeOK, CurrentKnown, OldAccounted, Old, registry, archive
<1>1. ASSUME NEW d \in Devices,
             \/ RegisterQueries(d) \/ SaveNew(d) \/ CreateDies(d)
             \/ LoadDevice(d) \/ SaveCount(d) \/ DropMean(d) \/ AddMean(d)
             \/ EventDies(d) \/ SaveAddress(d)
             \/ LoadEdit(d) \/ SaveEdit(d) \/ SaveCopy(d)
      PROVE  OldAccounted'
  BY <1>1 DEF RegisterQueries, SaveNew, CreateDies, LoadDevice, SaveCount, DropMean,
     AddMean, EventDies, SaveAddress, LoadEdit, SaveEdit, SaveCopy
<1>2. ASSUME NEW d \in Devices, WritePoints(d) PROVE OldAccounted'
  <2>1. PICK t \in Times :
          /\ series' = [series EXCEPT ![d] = @ \cup {t}]
          /\ sent' = IF t \in series[d] THEN sent ELSE sent \ {<<d, t>>}
          /\ unseen' = IF t \notin series[d] /\ AskedFor(d)
                       THEN unseen \cup {<<d, t>>} ELSE unseen
    BY <1>2 DEF WritePoints
  <2>2. UNCHANGED <<job, current, points>>
    BY <1>2 DEF WritePoints
  <2> QED
    BY <2>1, <2>2 DEF AskedFor
<1>3. ASSUME NEW u \in Users, Pairing(u) PROVE OldAccounted'
  BY <1>3 DEF Pairing, FindUnpaired, SavePaired
<1>4. ASSUME NEW d \in Devices, Removal(d) PROVE OldAccounted'
  BY <1>4 DEF Removal, RemoveDevice, ListSeries, DropSeries, DropQueries, DeleteRow,
     RemovalDies
<1>5. ASSUME NEW d \in Devices, Skip(d) \/ QueryPoints(d) \/ DeletePoints(d)
      PROVE  OldAccounted'
  BY <1>5 DEF Skip, QueryPoints, DeletePoints
<1>6. CASE UploadParts
  BY <1>6 DEF UploadParts
<1>7. CASE InitiateUpload \/ ListVictims \/ Done \/ CompleteUpload \/ JobDies
  BY <1>7 DEF InitiateUpload, ListVictims, Done, CompleteUpload, JobDies
<1>8. CASE UNCHANGED vars
  BY <1>8 DEF vars
<1> QED
  BY <1>1, <1>2, <1>3, <1>4, <1>5, <1>6, <1>7, <1>8
  DEF Next, Api, archive_database

LEMMA RegistryInvHolds == Spec => []RegistryInv
<1>1. RegistryInv /\ [Next]_vars => RegistryInv'
  BY NextTypeOK, NextCurrentKnown, NextRowKnown, NextQueriesThere, NextNamesMatch,
     NextOldAccounted DEF RegistryInv
<1> QED
  BY <1>1, InitRegistryInv, PTL DEF Spec

-----------------------------------------------------------------------------
(* Every variable of the registry keeps its range, with any number of      *)
(* requests, users and jobs at work.                                       *)
THEOREM RegistryTypeCorrect == Spec => []TypeOK
  BY RegistryInvHolds, PTL DEF RegistryInv

(* A device in the data base that is not being removed or refreshed has    *)
(* its continuous queries, but for the removals and refreshes that died,   *)
(* the saves over unseen changes and the copies.                           *)
THEOREM QueriesFollowRows == Spec => []QueriesFollow
<1>1. RegistryInv => QueriesFollow
  BY DEF RegistryInv, QueriesThere, QueriesFollow, Due
<1> QED
  BY <1>1, RegistryInvHolds, PTL

(* Only a removal and an edit that names an owner take a paired device     *)
(* from its owner, but for the saves over unseen changes: what an event    *)
(* and any other edit saves is the row as it is.                           *)
THEOREM OwnersKeepDevices == Spec => OwnerKept
<1> DEFINE Kept == \A d \in Devices :
              row[d] # None /\ row[d].registered =>
                \/ row'[d] # None /\ row'[d].owner = row[d].owner
                \/ remove[d] = "row" \/ d \in clash'
                \/ edit[d] # None /\ edit'[d] = None /\ edit[d].named
<1>1. RegistryInv /\ [Next]_vars => [Kept]_vars
  <2> SUFFICES ASSUME RegistryInv, [Next]_vars, ~UNCHANGED vars PROVE Kept
    OBVIOUS
  <2> USE RegistryAssumption DEF RegistryInv, TypeOK, RowKnown, registry, session, removal, archive
  <2>1. ASSUME NEW d \in Devices,
               \/ RegisterQueries(d) \/ CreateDies(d) \/ LoadDevice(d)
               \/ WritePoints(d) \/ DropMean(d) \/ AddMean(d) \/ EventDies(d)
               \/ LoadEdit(d)
        PROVE  Kept
    BY <2>1 DEF RegisterQueries, CreateDies, LoadDevice, WritePoints, DropMean, AddMean,
       EventDies, LoadEdit
  <2>2. ASSUME NEW d \in Devices, SaveNew(d) PROVE Kept
    BY <2>2 DEF SaveNew
  <2>3. ASSUME NEW d \in Devices, SaveCount(d) \/ SaveAddress(d) PROVE Kept
    BY <2>3 DEF SaveCount, SaveAddress, Save
  <2>7. ASSUME NEW d \in Devices, SaveEdit(d) PROVE Kept
    BY <2>7 DEF SaveEdit, Save
  <2>8. ASSUME NEW d \in Devices, SaveCopy(d) PROVE Kept
    BY <2>8 DEF SaveCopy, Edits
  <2>4. ASSUME NEW u \in Users, Pairing(u) PROVE Kept
    BY <2>4 DEF Pairing, FindUnpaired, SavePaired, Save
  <2>5. ASSUME NEW d \in Devices, Removal(d) PROVE Kept
    BY <2>5 DEF Removal, RemoveDevice, ListSeries, DropSeries, DropQueries, DeleteRow,
       RemovalDies
  <2>6. CASE archive_database
    BY <2>6 DEF archive_database, InitiateUpload, Skip, QueryPoints, DeletePoints,
       UploadParts, ListVictims, Done, CompleteUpload, JobDies
  <2> QED
    BY <2>1, <2>2, <2>3, <2>4, <2>5, <2>6, <2>7, <2>8 DEF Next, Api
<1> QED
  BY <1>1, RegistryInvHolds, PTL DEF Spec, OwnerKept

(* A point goes with its own device, or when it is old and was uploaded or *)
(* came late: dropping and deleting by name reaches no Plain device.       *)
THEOREM PointsAreKept == Spec => DataKept
<1> DEFINE Kept == \A d \in Devices : Plain(d) =>
              \A t \in series[d] \ series'[d] :
                remove[d] = "series" \/ (t < Cutoff(d) /\ <<d, t>> \in sent \cup unseen)
<1>1. RegistryInv /\ [Next]_vars => [Kept]_vars
  <2> SUFFICES ASSUME RegistryInv, [Next]_vars, ~UNCHANGED vars PROVE Kept
    OBVIOUS
  <2> USE DEF RegistryInv, TypeOK, registry
  <2>1. ASSUME NEW d \in Devices,
               \/ RegisterQueries(d) \/ SaveNew(d) \/ CreateDies(d) \/ LoadDevice(d)
               \/ SaveCount(d) \/ DropMean(d) \/ AddMean(d) \/ EventDies(d)
               \/ SaveAddress(d) \/ LoadEdit(d) \/ SaveEdit(d) \/ SaveCopy(d)
        PROVE  Kept
    BY <2>1 DEF RegisterQueries, SaveNew, CreateDies, LoadDevice, SaveCount, DropMean,
       AddMean, EventDies, SaveAddress, LoadEdit, SaveEdit, SaveCopy
  <2>2. ASSUME NEW d \in Devices, WritePoints(d) PROVE Kept
    BY <2>2 DEF WritePoints
  <2>3. ASSUME NEW u \in Users, Pairing(u) PROVE Kept
    BY <2>3 DEF Pairing, FindUnpaired, SavePaired
  <2>4. ASSUME NEW d \in Devices, NEW e \in Devices, DropSeries(d, e) PROVE Kept
    BY <2>4 DEF DropSeries, NamesMatch, Plain
  <2>5. ASSUME NEW d \in Devices,
               RemoveDevice(d) \/ ListSeries(d) \/ DropQueries(d) \/ DeleteRow(d)
                 \/ RemovalDies(d)
        PROVE  Kept
    BY <2>5 DEF RemoveDevice, ListSeries, DropQueries, DeleteRow, RemovalDies
  <2>6. ASSUME NEW e \in Devices, DeletePoints(e) PROVE Kept
    BY <2>6 DEF DeletePoints, NamesMatch, Plain, Old, OldAccounted, CurrentKnown
  <2>7. CASE \/ InitiateUpload \/ (\E d \in Devices : Skip(d) \/ QueryPoints(d))
             \/ UploadParts \/ ListVictims \/ Done \/ CompleteUpload \/ JobDies
    BY <2>7 DEF InitiateUpload, Skip, QueryPoints, UploadParts, ListVictims, Done,
       CompleteUpload, JobDies
  <2> QED
    BY <2>1, <2>2, <2>3, <2>4, <2>5, <2>6, <2>7 DEF Next, Api, Removal, archive_database
<1> QED
  BY <1>1, RegistryInvHolds, PTL DEF Spec, DataKept
=============================================================================
