---------------------------- MODULE DeviceRegistry ----------------------------
(***************************************************************************)
(* The devices of the web stack and their data: rows in the data base of   *)
(* Django, series and continuous queries in InfluxDB.  A device registers  *)
(* itself and posts events, users pair it, edit it and remove it, by pages *)
(* or by the REST API, and a command archives old points.                  *)
(*                                                                         *)
(* Each statement to either data base is a step, and no session holds a    *)
(* lock.  Of a row its owner and its flag `registered' are kept, of a      *)
(* point its time.  Device.save writes the whole row, and inserts it when  *)
(* it is gone.  The series and queries of a device are those whose names   *)
(* hold "device.<serial>": for device 1 those of device 12 as well.  A     *)
(* device's ten continuous queries are of two kinds, the means that a late *)
(* point refreshes and the others; the series they fill are one with its   *)
(* own.  A list is read and gone through in one step.                      *)
(***************************************************************************)
EXTENDS Integers, FiniteSets

CONSTANTS
  Devices,      (* serials                                                  *)
  Users,
  Inside(_, _), (* Inside(d, e): names of e hold "device.<d>"               *)
  Times,        (* the times of points                                      *)
  Cutoff(_),    (* Cutoff(d): points before it are older than d's policy    *)
  JsonSize(_),  (* bytes of a set of points as JSON                         *)
  None,
  MaxCreates, MaxEvents, MaxPairs, MaxEdits, MaxRemovals, MaxJobs,
  MaxRequests   (* bounds on the requests of each kind, and on all together *)

Rows == [owner : Users \cup {None}, registered : BOOLEAN]
Edits == [value : Rows, named : BOOLEAN, serial : Devices]

ASSUME RegistryAssumption ==
  /\ IsFiniteSet(Devices) /\ Times \subseteq Nat
  /\ Users \cap {"create", "event", "edit", "copy", "remove"} = {}
  /\ None \notin Devices \cup Users \cup Rows \cup Edits
  /\ \A d \in Devices : Inside(d, d) /\ Cutoff(d) \in Nat
  /\ \A T \in SUBSET Times : JsonSize(T) \in Nat
  /\ {MaxCreates, MaxEvents, MaxPairs, MaxEdits, MaxRemovals, MaxJobs,
        MaxRequests} \subseteq Nat

VARIABLES
  row,        (* per device: its row, or None                               *)
  queries,    (* continuous queries in InfluxDB, by device and kind         *)
  series,     (* per device: the points in its series                       *)
  create,     (* devices that are being registered                          *)
  event,      (* per device: what the request with its event does next      *)
  copy,       (* per device: the row that request has read                  *)
  pair,       (* per user: the device found for pairing                     *)
  edit,       (* per device: what the request that edits it will save       *)
  remove,     (* per device: what remove_device does next                   *)
  drops,      (* per device: the series it is still to drop                 *)
  job,        (* what archive_database does next                            *)
  todo,       (* devices it has not come to                                 *)
  current,    (* the device it is at                                        *)
  points,     (* what its query returned                                    *)
  victims,    (* series it is still to delete old points from               *)
  bytes,      (* bytes Glacier holds of the open upload                     *)
  archive_size,
  archived,   (* points Glacier keeps                                       *)
  count,      (* creates, events, pairs, edits, removals, jobs, all so far  *)
  stale,      (* history: sessions that have not seen the row change        *)
  clash,      (* history: devices whose row was overwritten unseen          *)
  half,       (* history: devices whose removal or refresh died half way    *)
  copied,     (* history: devices that are an edited copy of another        *)
  sent,       (* history: points that were uploaded                         *)
  unseen,     (* history: points that came after the job had asked for them *)
  deleted     (* history: points the job has deleted                        *)

registry == <<row, queries, series>>
session  == <<create, event, copy, pair, edit, stale, clash, half, copied>>
removal  == <<remove, drops>>
archive  == <<job, todo, current, points, victims, bytes, archive_size,
              archived, sent, deleted>>
vars     == <<registry, session, removal, archive, count, unseen>>

Kinds == {"mean", "other"}
Points == Devices \X Times
Sessions == {"create", "event", "edit"} \cup Users
Requests == {"create", "event", "pair", "edit", "removal", "job", "all"}

New == [owner |-> None, registered |-> FALSE]
Paired(u) == [owner |-> u, registered |-> TRUE]

TypeOK ==
  /\ row \in [Devices -> Rows \cup {None}] /\ queries \subseteq Devices \X Kinds
  /\ series \in [Devices -> SUBSET Times]
  /\ create \subseteq Devices
  /\ event \in [Devices -> {"idle", "count", "store", "refresh", "add", "save"}]
  /\ copy \in [Devices -> Rows \cup {None}] /\ pair \in [Users -> Devices \cup {None}]
  /\ edit \in [Devices -> Edits \cup {None}]
  /\ remove \in [Devices -> {"idle", "list", "series", "queries", "row"}]
  /\ drops \in [Devices -> SUBSET Devices]
  /\ job \in {"idle", "next", "upload", "list", "delete"}
  /\ todo \subseteq Devices /\ current \in Devices \cup {None}
  /\ points \subseteq Times /\ victims \subseteq Devices
  /\ bytes \in Nat /\ archive_size \in Nat /\ archived \subseteq Points
  /\ stale \subseteq Sessions \X Devices /\ clash \subseteq Devices
  /\ half \subseteq Devices /\ copied \subseteq Devices
  /\ {sent, unseen, deleted} \subseteq SUBSET Points
  /\ count \in [Requests -> Nat]

Init ==
  /\ row = [d \in Devices |-> None] /\ queries = {}
  /\ series = [d \in Devices |-> {}]
  /\ create = {} /\ event = [d \in Devices |-> "idle"]
  /\ copy = [d \in Devices |-> None] /\ pair = [u \in Users |-> None]
  /\ edit = [d \in Devices |-> None]
  /\ remove = [d \in Devices |-> "idle"] /\ drops = [d \in Devices |-> {}]
  /\ job = "idle" /\ todo = {} /\ current = None /\ points = {} /\ victims = {}
  /\ bytes = 0 /\ archive_size = 0 /\ archived = {}
  /\ count = [k \in Requests |-> 0]
  /\ stale = {} /\ clash = {} /\ half = {} /\ copied = {}
  /\ sent = {} /\ unseen = {} /\ deleted = {}

Bounded(kind, max) ==
  /\ count[kind] < max /\ count["all"] < MaxRequests
  /\ count' = [count EXCEPT ![kind] = @ + 1, !["all"] = @ + 1]

(* Sessions at work on the row of d. *)
AtWork(d) ==
  (IF d \in create THEN {"create"} ELSE {})
    \cup (IF event[d] # "idle" THEN {"event"} ELSE {})
    \cup (IF edit[d] # None THEN {"edit"} ELSE {})
    \cup {u \in Users : pair[u] = d}

(* The row or the queries of d change: only session s knows. *)
Changed(s, d) == (stale \ {<<s, d>>}) \cup ((AtWork(d) \ {s}) \X {d})

(* Device.save; unseen by s is what has changed since it read the row. *)
Save(s, d, value) ==
  /\ row' = [row EXCEPT ![d] = value]
  /\ stale' = IF value # row[d] THEN Changed(s, d) ELSE stale \ {<<s, d>>}
  /\ clash' = IF <<s, d>> \in stale THEN clash \cup {d} ELSE clash

(***************************************************************************)
(* DeviceViewSet.create: the custom save registers the queries, and drops  *)
(* force_insert on its way to Model.save, so that a second registration    *)
(* overwrites the row.                                                     *)
(***************************************************************************)

RegisterQueries(d) ==
  /\ d \notin create /\ Bounded("create", MaxCreates)
  /\ create' = create \cup {d}
  /\ queries' = queries \cup ({d} \X Kinds)
  /\ UNCHANGED <<row, series, event, copy, pair, edit, stale, clash, half, copied,
                 removal, archive, unseen>>

SaveNew(d) ==
  /\ d \in create /\ create' = create \ {d}
  /\ row' = [row EXCEPT ![d] = New]
  /\ stale' = Changed("create", d)
  /\ clash' = IF <<"create", d>> \in stale \/ row[d] # None
              THEN clash \cup {d} ELSE clash
  /\ UNCHANGED <<queries, series, event, copy, pair, edit, half, copied, removal,
                 archive, count, unseen>>

(* The row cannot be written; the queries stay. *)
CreateDies(d) ==
  /\ d \in create /\ create' = create \ {d}
  /\ stale' = stale \ {<<"create", d>>}
  /\ UNCHANGED <<registry, event, copy, pair, edit, clash, half, copied, removal,
                 archive, count, unseen>>

(***************************************************************************)
(* EventViewSet.create with Event.save                                     *)
(***************************************************************************)

(* An unknown device is answered 404, and nothing happens. *)
LoadDevice(d) ==
  /\ event[d] = "idle" /\ row[d] # None /\ Bounded("event", MaxEvents)
  /\ event' = [event EXCEPT ![d] = "count"]
  /\ copy' = [copy EXCEPT ![d] = row[d]]
  /\ UNCHANGED <<registry, create, pair, edit, stale, clash, half, copied, removal,
                 archive, unseen>>

SaveCount(d) ==
  /\ event[d] = "count" /\ event' = [event EXCEPT ![d] = "store"]
  /\ Save("event", d, copy[d])
  /\ UNCHANGED <<queries, series, create, copy, pair, edit, half, copied, removal,
                 archive, count, unseen>>

(* The job has asked for the points of d and is not done with them. *)
AskedFor(d) == current = d /\ job \in {"upload", "list", "delete"}

(* The series comes into being with its first point.  A late point has the *)
(* means of its time computed again.                                       *)
WritePoints(d) ==
  /\ event[d] = "store"
  /\ \E next \in {"refresh", "save"} : event' = [event EXCEPT ![d] = next]
  /\ \E t \in Times :
       /\ series' = [series EXCEPT ![d] = @ \cup {t}]
       /\ sent' = IF t \in series[d] THEN sent ELSE sent \ {<<d, t>>}
       /\ unseen' = IF t \notin series[d] /\ AskedFor(d)
                    THEN unseen \cup {<<d, t>>} ELSE unseen
  /\ UNCHANGED <<row, queries, create, copy, pair, edit, stale, clash, half, copied,
                 removal, job, todo, current, points, victims, bytes, archive_size,
                 archived, deleted, count>>

(* The query of the mean is dropped, when it is there, and added again.    *)
DropMean(d) ==
  /\ event[d] = "refresh" /\ event' = [event EXCEPT ![d] = "add"]
  /\ queries' = queries \ {<<d, "mean">>}
  /\ UNCHANGED <<row, series, create, copy, pair, edit, stale, clash, half, copied,
                 removal, archive, count, unseen>>

AddMean(d) ==
  /\ event[d] = "add" /\ event' = [event EXCEPT ![d] = "save"]
  /\ queries' = queries \cup {<<d, "mean">>}
  /\ UNCHANGED <<row, series, create, copy, pair, edit, stale, clash, half, copied,
                 removal, archive, count, unseen>>

(* InfluxDB does not answer, between the two as well: the request dies. *)
EventDies(d) ==
  /\ event[d] \in {"store", "refresh", "add"}
  /\ event' = [event EXCEPT ![d] = "idle"] /\ copy' = [copy EXCEPT ![d] = None]
  /\ half' = IF event[d] = "add" THEN half \cup {d} ELSE half
  /\ stale' = stale \ {<<"event", d>>}
  /\ UNCHANGED <<registry, create, pair, edit, clash, copied, removal, archive,
                 count, unseen>>

SaveAddress(d) ==
  /\ event[d] = "save" /\ event' = [event EXCEPT ![d] = "idle"]
  /\ Save("event", d, copy[d])
  /\ copy' = [copy EXCEPT ![d] = None]
  /\ UNCHANGED <<queries, series, create, pair, edit, half, copied, removal, archive,
                 count, unseen>>

(***************************************************************************)
(* DeviceViewSet.update: the API lets anyone write a device's fields but   *)
(* `registered'; a request may name an owner, and a serial no device has.  *)
(***************************************************************************)

LoadEdit(d) ==
  /\ edit[d] = None /\ row[d] # None /\ Bounded("edit", MaxEdits)
  /\ \E value \in Rows, named \in BOOLEAN, e \in Devices :
       /\ value.registered = row[d].registered
       /\ named \/ value = row[d]
       /\ e = d \/ row[e] = None
       /\ edit' = [edit EXCEPT ![d] = [value |-> value, named |-> named, serial |-> e]]
  /\ UNCHANGED <<registry, create, event, copy, pair, stale, clash, half, copied,
                 removal, archive, unseen>>

SaveEdit(d) ==
  /\ edit[d] # None /\ edit' = [edit EXCEPT ![d] = None]
  /\ edit[d].serial = d /\ Save("edit", d, edit[d].value)
  /\ UNCHANGED <<queries, series, create, event, copy, pair, half, copied, removal,
                 archive, count, unseen>>

(* With another serial the row is inserted once more, beside the old one,  *)
(* and tells of itself that its queries are registered.                    *)
SaveCopy(d) ==
  /\ edit[d] # None /\ edit' = [edit EXCEPT ![d] = None]
  /\ LET e == edit[d].serial
     IN  /\ e # d
         /\ row' = [row EXCEPT ![e] = edit[d].value]
         /\ stale' = Changed("copy", e) \ {<<"edit", d>>}
         /\ clash' = IF row[e] # None THEN clash \cup {e} ELSE clash
         /\ copied' = copied \cup {e}
  /\ UNCHANGED <<queries, series, create, event, copy, pair, half, removal, archive,
                 count, unseen>>

(***************************************************************************)
(* new_device: a user pairs a device that is not registered                *)
(***************************************************************************)

(* Mutant: any device can be found.                                        *)
mut_FindUnpaired(u, d) ==
  /\ pair[u] = None /\ row[d] # None /\ Bounded("pair", MaxPairs)
  /\ pair' = [pair EXCEPT ![u] = d]
  /\ UNCHANGED <<registry, create, event, copy, edit, stale, clash, half, copied,
                 removal, archive, unseen>>

FindUnpaired(u, d) ==
  /\ pair[u] = None /\ row[d] # None /\ ~row[d].registered /\ Bounded("pair", MaxPairs)
  /\ pair' = [pair EXCEPT ![u] = d]
  /\ UNCHANGED <<registry, create, event, copy, edit, stale, clash, half, copied,
                 removal, archive, unseen>>

SavePaired(u) ==
  /\ pair[u] # None /\ pair' = [pair EXCEPT ![u] = None]
  /\ Save(u, pair[u], Paired(u))
  /\ UNCHANGED <<queries, series, create, event, copy, edit, half, copied, removal,
                 archive, count, unseen>>

(***************************************************************************)
(* remove_device and DeviceViewSet.destroy, with Device.delete             *)
(***************************************************************************)

(* The page asks for the owner and the device's name, the API for nothing. *)
RemoveDevice(d) ==
  /\ remove[d] = "idle" /\ row[d] # None /\ Bounded("removal", MaxRemovals)
  /\ remove' = [remove EXCEPT ![d] = "list"]
  /\ UNCHANGED <<registry, session, drops, archive, unseen>>

ListSeries(d) ==
  /\ remove[d] = "list" /\ remove' = [remove EXCEPT ![d] = "series"]
  /\ drops' = [drops EXCEPT ![d] = {e \in Devices : Inside(d, e) /\ series[e] # {}}]
  /\ UNCHANGED <<registry, session, archive, count, unseen>>

DropSeries(d, e) ==
  /\ remove[d] = "series" /\ e \in drops[d]
  /\ drops' = [drops EXCEPT ![d] = @ \ {e}]
  /\ series' = [series EXCEPT ![e] = {}]
  /\ UNCHANGED <<row, queries, session, remove, archive, count, unseen>>

(* Mutant: the names are compared the other way round.                     *)
mut_DropQueries(d) ==
  /\ remove[d] = "series" /\ drops[d] = {}
  /\ remove' = [remove EXCEPT ![d] = "row"]
  /\ queries' = {q \in queries : ~Inside(q[1], d)}
  /\ stale' = Changed("remove", d)
  /\ UNCHANGED <<row, series, create, event, copy, pair, edit, clash, half, copied,
                 drops, archive, count, unseen>>

DropQueries(d) ==
  /\ remove[d] = "series" /\ drops[d] = {}
  /\ remove' = [remove EXCEPT ![d] = "row"]
  /\ queries' = {q \in queries : ~Inside(d, q[1])}
  /\ stale' = Changed("remove", d)
  /\ UNCHANGED <<row, series, create, event, copy, pair, edit, clash, half, copied,
                 drops, archive, count, unseen>>

DeleteRow(d) ==
  /\ remove[d] = "row" /\ remove' = [remove EXCEPT ![d] = "idle"]
  /\ row' = [row EXCEPT ![d] = None]
  /\ stale' = Changed("remove", d)
  /\ UNCHANGED <<queries, series, create, event, copy, pair, edit, clash, half,
                 copied, drops, archive, count, unseen>>

(* Either data base fails, in the middle of the queries too: the request   *)
(* dies, and the row stays.                                                *)
RemovalDies(d) ==
  /\ remove[d] \in {"list", "series", "row"}
  /\ \/ UNCHANGED queries
     \/ /\ remove[d] = "series" /\ drops[d] = {}
        /\ \E Q \in SUBSET {q \in queries : Inside(d, q[1])} : queries' = queries \ Q
  /\ remove' = [remove EXCEPT ![d] = "idle"] /\ drops' = [drops EXCEPT ![d] = {}]
  /\ half' = half \cup {d}
  /\ stale' = Changed("remove", d)
  /\ UNCHANGED <<row, series, create, event, copy, pair, edit, clash, copied,
                 archive, count, unseen>>

(***************************************************************************)
(* archive_database                                                        *)
(***************************************************************************)

InitiateUpload ==
  /\ job = "idle" /\ Bounded("job", MaxJobs)
  /\ job' = "next" /\ todo' = {d \in Devices : row[d] # None}
  /\ bytes' = 0 /\ archive_size' = 0
  /\ UNCHANGED <<registry, session, removal, current, points, victims, archived,
                 sent, deleted, unseen>>

(* A device without a series, or whose query fails, is skipped. *)
Skip(d) ==
  /\ job = "next" /\ d \in todo
  /\ todo' = todo \ {d}
  /\ UNCHANGED <<registry, session, removal, job, current, points, victims, bytes,
                 archive_size, archived, sent, deleted, count, unseen>>

Old(d, T) == {t \in T : t < Cutoff(d)}

QueryPoints(d) ==
  /\ job = "next" /\ d \in todo /\ series[d] # {}
  /\ todo' = todo \ {d} /\ current' = d
  /\ points' = Old(d, series[d]) /\ job' = "upload"
  /\ UNCHANGED <<registry, session, removal, victims, bytes, archive_size,
                 archived, sent, deleted, count, unseen>>

(* Each device's upload begins at byte 0 again, over that of the device    *)
(* before.                                                                 *)
UploadParts ==
  /\ job = "upload" /\ job' = "list"
  /\ bytes' = JsonSize(points) /\ archive_size' = archive_size + 1
  /\ sent' = sent \cup ({current} \X points)
  /\ UNCHANGED <<registry, session, removal, todo, current, points, victims,
                 archived, deleted, count, unseen>>

ListVictims ==
  /\ job = "list" /\ job' = "delete"
  /\ victims' = {e \in Devices : Inside(current, e) /\ series[e] # {}}
  /\ UNCHANGED <<registry, session, removal, todo, current, points, bytes,
                 archive_size, archived, sent, deleted, count, unseen>>

(* Mutant: everything up to now is deleted.                                *)
mut_DeletePoints(e) ==
  /\ job = "delete" /\ e \in victims /\ victims' = victims \ {e}
  /\ series' = [series EXCEPT ![e] = {}]
  /\ deleted' = deleted \cup ({e} \X series[e])
  /\ UNCHANGED <<row, queries, session, removal, job, todo, current, points, bytes,
                 archive_size, archived, sent, count, unseen>>

DeletePoints(e) ==
  /\ job = "delete" /\ e \in victims /\ victims' = victims \ {e}
  /\ series' = [series EXCEPT ![e] = @ \ Old(current, @)]
  /\ deleted' = deleted \cup ({e} \X Old(current, series[e]))
  /\ UNCHANGED <<row, queries, session, removal, job, todo, current, points, bytes,
                 archive_size, archived, sent, count, unseen>>

Done ==
  /\ job = "delete" /\ victims = {} /\ job' = "next"
  /\ UNCHANGED <<registry, session, removal, todo, current, points, victims, bytes,
                 archive_size, archived, sent, deleted, count, unseen>>

(* Glacier refuses to complete an upload whose size it is told wrong, and  *)
(* is told the number of devices; it keeps what the last of them left.     *)
CompleteUpload ==
  /\ job = "next" /\ todo = {} /\ job' = "idle"
  /\ archived' = IF archive_size > 0 /\ bytes = archive_size
                 THEN archived \cup ({current} \X points) ELSE archived
  /\ current' = None /\ points' = {} /\ unseen' = {}
  /\ UNCHANGED <<registry, session, removal, todo, victims, bytes, archive_size,
                 sent, deleted, count>>

(* Glacier or InfluxDB fails: the command dies with the upload open. *)
JobDies ==
  /\ job \in {"upload", "list", "delete"} /\ job' = "idle"
  /\ todo' = {} /\ current' = None /\ points' = {} /\ victims' = {}
  /\ unseen' = {}
  /\ UNCHANGED <<registry, session, removal, bytes, archive_size, archived, sent,
                 deleted, count>>

Api(d) ==
  \/ RegisterQueries(d) \/ SaveNew(d) \/ CreateDies(d)
  \/ LoadDevice(d) \/ SaveCount(d) \/ WritePoints(d) \/ DropMean(d) \/ AddMean(d)
  \/ EventDies(d) \/ SaveAddress(d)
  \/ LoadEdit(d) \/ SaveEdit(d) \/ SaveCopy(d)

Pairing(u) == (\E d \in Devices : FindUnpaired(u, d)) \/ SavePaired(u)

Removal(d) ==
  \/ RemoveDevice(d) \/ ListSeries(d) \/ (\E e \in Devices : DropSeries(d, e))
  \/ DropQueries(d) \/ DeleteRow(d) \/ RemovalDies(d)

archive_database ==
  \/ InitiateUpload
  \/ \E d \in Devices : Skip(d) \/ QueryPoints(d) \/ DeletePoints(d)
  \/ UploadParts \/ ListVictims \/ Done \/ CompleteUpload \/ JobDies

Next ==
  \/ \E d \in Devices : Api(d) \/ Removal(d)
  \/ \E u \in Users : Pairing(u)
  \/ archive_database

Spec == Init /\ [][Next]_vars

(***************************************************************************)
(* Properties                                                              *)
(***************************************************************************)

(* No other device's serial begins this one's. *)
Plain(d) == \A e \in Devices \ {d} : ~Inside(e, d)

(* A device in the data base has its continuous queries, or its dashboard  *)
(* would stay empty while its events are accepted: what registers, drops   *)
(* and refreshes them, in another data base, keeps step with the row.      *)
(* Beside the moments of a removal and a refresh they are missing only     *)
(* when one of them died half way, when a row was saved over a change the  *)
(* writer had not seen, and when the device is a copy of another.          *)
QueriesFollow ==
  \A d \in Devices :
    Plain(d) /\ row[d] # None /\ remove[d] = "idle" /\ event[d] # "add"
      /\ d \notin half /\ d \notin clash /\ d \notin copied => {d} \X Kinds \subseteq queries

(* A user who has paired a device loses it by its removal, or to one whom  *)
(* a request to the API names as its owner, as long as nobody saves its    *)
(* row over a change he has not seen: events and edits that write the      *)
(* whole row, and other users that want it, leave him alone.  (An owner    *)
(* whom only the API has named can lose it to the next user who pairs it.) *)
OwnerKept ==
  [][\A d \in Devices :
       row[d] # None /\ row[d].registered =>
         \/ row'[d] # None /\ row'[d].owner = row[d].owner
         \/ remove[d] = "row" \/ d \in clash'
         \/ edit[d] # None /\ edit'[d] = None /\ edit[d].named]_vars

(* A point leaves the data base because its own device is removed, or      *)
(* because it is older than the policy of its own device and was uploaded  *)
(* before, or came late, while the command was at its device: whatever is  *)
(* written, dropped and archived meanwhile.                                *)
DataKept ==
  [][\A d \in Devices : Plain(d) =>
       \A t \in series[d] \ series'[d] :
         remove[d] = "series" \/ (t < Cutoff(d) /\ <<d, t>> \in sent \cup unseen)]_vars

(* models.py:78 says of the flag that it "protects againts users trying to *)
(* pair an already paired device".                                         *)
PairedOnce ==
  [][\A u \in Users :
       SavePaired(u) /\ row[pair[u]] # None => ~row[pair[u]].registered]_vars

(* models.py:93 says of the data that "anything older will be archived":   *)
(* when the command has come to its end, what it has deleted is archived.  *)
ArchivedOrKept == [][CompleteUpload => deleted' \subseteq archived']_vars
=============================================================================
