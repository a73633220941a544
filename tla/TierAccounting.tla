---------------------------- MODULE TierAccounting ----------------------------
(***************************************************************************)
(* The counters of one device in the web stack's data base: the energy it  *)
(* used this month and this day, what today's energy costs, and the tier   *)
(* of its rate plan.  The event API adds to them (Event.save, called by    *)
(* EventViewSet.create), a cron job resets them, and the settings page     *)
(* saves the whole row for reasons of its own.                             *)
(*                                                                         *)
(* uWSGI serves requests by many threads of many processes, Django commits *)
(* every statement on its own, and Device.save writes every column: each   *)
(* statement is a step, and a session (a request, the job, the page) works *)
(* on the copy it has read.  Energy is counted in whole units.             *)
(***************************************************************************)
EXTENDS Integers, Sequences

CONSTANTS
  Workers,      (* request threads that may serve an event of the device    *)
  Cron,         (* reset_kilowatt_accumulations                             *)
  Page,         (* settings_device                                          *)
  MaxLevel,     (* tiers of the rate plan are 1 .. MaxLevel                 *)
  Limits,       (* the energies per month up to which each tier but the     *)
                (* last may apply: of every plan, territory and season      *)
  Cost(_, _),   (* Cost(level, energy): energy times the rate of the tier   *)
  Usages,       (* energies of a data point                                 *)
  Overflow,     (* the wattage 0xFFFF                                       *)
  Missing,      (* a data point without wattage                             *)
  MaxPoints,    (* data points of an event                                  *)
  MaxRequests,  (* bound: events                                            *)
  MaxJobs,      (* bound: runs of the job and of the page, together         *)
  MaxTurns      (* bound: turns of the calendar                             *)

Sessions == Workers \cup {Cron, Page}
Levels == 1 .. MaxLevel

ASSUME TierAssumption ==
  /\ Cron \notin Workers /\ Page \notin Workers /\ Cron # Page
  /\ MaxLevel \in Nat \ {0} /\ Usages \subseteq Nat
  /\ Limits \subseteq [1 .. MaxLevel - 1 -> Nat] /\ Limits # {}
  /\ \A l \in Levels, u \in Usages : Cost(l, u) \in Nat
  /\ Overflow \notin Int /\ Missing \notin Int /\ Overflow # Missing
  /\ MaxPoints \in Nat /\ MaxRequests \in Nat /\ MaxJobs \in Nat /\ MaxTurns \in Nat

VARIABLES
  row,        (* the device's row: its three counters                       *)
  tier,       (* level of current_tier in the device's settings             *)
  territory,  (* the settings have a territory                              *)
  limits,     (* percentage of the tier times rate of territory and season  *)
              (* times days of the month                                    *)
  shared,     (* a second rate plan has tiers of the same levels            *)
  pc,         (* per session: what it does next                             *)
  mem,        (* per session: its copy of the row                           *)
  points,     (* per session: data points it has not dealt with             *)
  level,      (* per session: its copy of tier, 0 when not read             *)
  requests, jobs, turns,
  stale,      (* history: sessions whose copy of the row is out of date     *)
  staleTier,  (* history: sessions whose copy of the tier is out of date    *)
  used,       (* history: what the row should hold                          *)
  total,      (* history: energy and cost since the beginning               *)
  clash,      (* history: a session overwrote what it had not seen          *)
  skipped,    (* history: a point was dropped without a price               *)
  failed,     (* history: a request died half way                           *)
  moved,      (* history: limits changed since the last monthly reset       *)
  halfReset   (* history: the last monthly reset died between its two saves *)

database == <<row, tier, territory, limits, shared>>
session  == <<pc, mem, points, level, stale, staleTier>>
bounds   == <<requests, jobs, turns>>
reform   == <<moved, halfReset>>
history  == <<used, total, clash, skipped, failed, reform>>
vars     == <<database, session, bounds, history>>

Points == Usages \cup {Overflow, Missing}
Events == UNION {[1 .. n -> Points] : n \in 0 .. MaxPoints}

Counters == [monthly : Nat, daily : Nat, cost : Nat]
Zero == [monthly |-> 0, daily |-> 0, cost |-> 0]

Steps == {"idle", "count", "price", "finish",            (* a request       *)
          "daily", "monthly", "month",                   (* the job         *)
          "clear", "add", "save"}                        (* the page        *)

TypeOK ==
  /\ row \in Counters /\ used \in Counters
  /\ total \in [energy : Nat, cost : Nat]
  /\ tier \in Levels
  /\ pc \in [Sessions -> Steps]
  /\ mem \in [Sessions -> Counters]
  /\ points \in [Sessions -> Seq(Points)]
  /\ level \in [Sessions -> 0 .. MaxLevel]
  /\ stale \subseteq Sessions /\ staleTier \subseteq Sessions
  /\ territory \in BOOLEAN /\ shared \in BOOLEAN /\ limits \in Limits
  /\ clash \in BOOLEAN /\ skipped \in BOOLEAN /\ failed \in BOOLEAN
  /\ moved \in BOOLEAN /\ halfReset \in BOOLEAN
  /\ requests \in 0 .. MaxRequests /\ jobs \in 0 .. MaxJobs /\ turns \in 0 .. MaxTurns

(* A new device is in tier 1 and has no territory; one that was set up has. *)
Init ==
  /\ row = Zero /\ tier = 1 /\ territory \in BOOLEAN /\ shared = FALSE
  /\ limits \in Limits
  /\ pc = [s \in Sessions |-> "idle"]
  /\ mem = [s \in Sessions |-> Zero]
  /\ points = [s \in Sessions |-> <<>>]
  /\ level = [s \in Sessions |-> 0]
  /\ requests = 0 /\ jobs = 0 /\ turns = 0
  /\ stale = {} /\ staleTier = {}
  /\ used = Zero /\ total = [energy |-> 0, cost |-> 0]
  /\ clash = FALSE /\ skipped = FALSE /\ failed = FALSE
  /\ moved = FALSE /\ halfReset = FALSE

Goto(s, step) == pc' = [pc EXCEPT ![s] = step]

Copy(s, counters) == mem' = [mem EXCEPT ![s] = counters]

Others(s) == {t \in Sessions \ {s} : pc[t] # "idle"}

(* Device.save: the whole copy is written, whoever wrote since it was read. *)
Save(s, counters) ==
  /\ row' = counters
  /\ stale' = (stale \ {s}) \cup Others(s)
  /\ clash' = (clash \/ s \in stale)

(* The settings' save, of the tier alone. *)
SaveTier(s, l) ==
  /\ tier' = l
  /\ staleTier' = (staleTier \ {s}) \cup {t \in Others(s) : level[t] # 0}

(* Other limits apply, from now on or after all the same ones. *)
Reform ==
  /\ limits' \in Limits
  /\ moved' = (moved \/ limits' # limits)

(* The request ends; what its copies hold beyond the row is gone.  (They   *)
(* are reset here, which the code leaves to the garbage collector.)        *)
End(s) ==
  /\ Goto(s, "idle") /\ Copy(s, Zero)
  /\ points' = [points EXCEPT ![s] = <<>>]
  /\ level' = [level EXCEPT ![s] = 0]
  /\ staleTier' = staleTier \ {s}

(* The session ends without a save. *)
Die(s) == End(s) /\ stale' = stale \ {s}

(***************************************************************************)
(* EventViewSet.create and Event.save                                      *)
(***************************************************************************)

Receive(w) ==
  /\ pc[w] = "idle" /\ requests < MaxRequests
  /\ \E ev \in Events : points' = [points EXCEPT ![w] = ev]
  /\ Copy(w, row) /\ Goto(w, "count")
  /\ requests' = requests + 1
  /\ UNCHANGED <<database, level, stale, staleTier, jobs, turns, history>>

NextPoint(w) == points' = [points EXCEPT ![w] = Tail(@)]

(* An overflowed point is passed over, before anything is done for it. *)
PassOver(w) ==
  /\ pc[w] = "count" /\ points[w] # <<>> /\ Head(points[w]) = Overflow
  /\ NextPoint(w)
  /\ UNCHANGED <<database, pc, mem, level, stale, staleTier, bounds, history>>

(* wattage/1000.0 without a wattage: the request dies with its points. *)
DieOnMissing(w) ==
  /\ pc[w] = "count" /\ points[w] # <<>> /\ Head(points[w]) = Missing
  /\ Die(w)
  /\ failed' = TRUE
  /\ UNCHANGED <<database, bounds, used, total, clash, skipped, reform>>

(* The energy of a point is added to the copy, and the copy saved. *)
Count(w) ==
  /\ pc[w] = "count" /\ points[w] # <<>>
  /\ LET u == Head(points[w])
     IN  /\ u \in Usages
         /\ LET counters == [mem[w] EXCEPT !.monthly = @ + u, !.daily = @ + u]
            IN  Save(w, counters) /\ Copy(w, counters)
         /\ used' = [used EXCEPT !.monthly = @ + u, !.daily = @ + u]
         /\ total' = [total EXCEPT !.energy = @ + u]
  /\ Goto(w, "price")
  /\ UNCHANGED <<tier, territory, limits, shared, points, level, staleTier,
                 bounds, skipped, failed, reform>>

(* The settings are read when the first point is priced, and kept. *)
ReadTier(w) ==
  /\ pc[w] = "price" /\ level[w] = 0
  /\ level' = [level EXCEPT ![w] = tier]
  /\ UNCHANGED <<database, pc, mem, points, stale, staleTier, bounds, history>>

(* Mutant: the next tier begins where this one ends.                       *)
mut_Exceeds(w) == level[w] < MaxLevel /\ mem[w].monthly >= limits[level[w]]

(* (A request that still holds a tier of another plan than the settings    *)
(* is judged by the new limits; the job has made it stale.)                *)
Exceeds(w) == level[w] < MaxLevel /\ mem[w].monthly > limits[level[w]]

(* The cost of a point is added to the copy; the next save writes it. *)
Charge(w, l) ==
  LET cost == Cost(l, Head(points[w]))
  IN  /\ mem' = [mem EXCEPT ![w].cost = @ + cost]
      /\ used' = [used EXCEPT !.cost = @ + cost]
      /\ total' = [total EXCEPT !.cost = @ + cost]

Price(w) ==
  /\ pc[w] = "price" /\ level[w] # 0 /\ territory /\ ~Exceeds(w)
  /\ Charge(w, level[w])
  /\ NextPoint(w) /\ Goto(w, "count")
  /\ UNCHANGED <<database, level, stale, staleTier, bounds, clash, skipped,
                 failed, reform>>

(* One level up: the settings are saved, then the level is written to the  *)
(* time series; when that fails the point has no price.                    *)
Upgrade(w) ==
  /\ pc[w] = "price" /\ level[w] # 0 /\ territory /\ Exceeds(w) /\ ~shared
  /\ SaveTier(w, level[w] + 1)
  /\ level' = [level EXCEPT ![w] = @ + 1]
  /\ clash' = (clash \/ w \in staleTier)
  /\ \/ Charge(w, level[w] + 1) /\ UNCHANGED skipped
     \/ skipped' = TRUE /\ UNCHANGED <<mem, used, total>>
  /\ NextPoint(w) /\ Goto(w, "count")
  /\ UNCHANGED <<row, territory, limits, shared, stale, bounds, failed, reform>>

(* No territory, or a next level that two rate plans have (the look-up is  *)
(* by level only): the exception is swallowed, the point has no price and  *)
(* is not stored.                                                          *)
Drop(w) ==
  /\ pc[w] = "price" /\ level[w] # 0
  /\ ~territory \/ (Exceeds(w) /\ shared)
  /\ skipped' = TRUE
  /\ NextPoint(w) /\ Goto(w, "count")
  /\ UNCHANGED <<database, mem, level, stale, staleTier, bounds, used, total,
                 clash, failed, reform>>

(* The points are written to the time series and its means refreshed,      *)
(* which asks for the days of the month: only a point in the try block has *)
(* set them.                                                               *)
Store(w) ==
  /\ pc[w] = "count" /\ points[w] = <<>> /\ level[w] # 0
  /\ Goto(w, "finish")
  /\ UNCHANGED <<database, mem, points, level, stale, staleTier, bounds, history>>

(* The time series cannot be written or queried, or nothing was priced. *)
Fail(w) ==
  /\ pc[w] = "count" /\ points[w] = <<>>
  /\ Die(w)
  /\ failed' = TRUE
  /\ UNCHANGED <<database, bounds, used, total, clash, skipped, reform>>

(* Mutant: the view does not save the device again.                        *)
mut_Finish(w) ==
  /\ pc[w] = "finish"
  /\ Die(w)
  /\ UNCHANGED <<database, bounds, history>>

(* EventViewSet.create saves the device once more, with the last cost. *)
Finish(w) ==
  /\ pc[w] = "finish"
  /\ Save(w, mem[w]) /\ End(w)
  /\ UNCHANGED <<tier, territory, limits, shared, bounds, used, total, skipped,
                 failed, reform>>

(***************************************************************************)
(* reset_kilowatt_accumulations                                            *)
(***************************************************************************)

StartJob ==
  /\ pc[Cron] = "idle" /\ jobs < MaxJobs
  /\ Copy(Cron, row)
  /\ \E kind \in {"daily", "monthly"} : Goto(Cron, kind)
  /\ jobs' = jobs + 1
  /\ UNCHANGED <<database, points, level, stale, staleTier, requests, turns,
                 history>>

(* Mutant: the job resets the cost and forgets the energy of the day.      *)
mut_ResetDay ==
  /\ pc[Cron] = "daily"
  /\ Save(Cron, [mem[Cron] EXCEPT !.cost = 0])
  /\ used' = [used EXCEPT !.daily = 0, !.cost = 0]
  /\ End(Cron)
  /\ UNCHANGED <<tier, territory, limits, shared, bounds, total, skipped,
                 failed, reform>>

ResetDay ==
  /\ pc[Cron] = "daily"
  /\ Save(Cron, [mem[Cron] EXCEPT !.daily = 0, !.cost = 0])
  /\ used' = [used EXCEPT !.daily = 0, !.cost = 0]
  /\ End(Cron)
  /\ UNCHANGED <<tier, territory, limits, shared, bounds, total, skipped,
                 failed, reform>>

(* Mutant: the monthly job leaves the tier as it is.                       *)
mut_ResetTier ==
  /\ pc[Cron] = "monthly"
  /\ Goto(Cron, "month")
  /\ UNCHANGED <<database, mem, points, level, stale, staleTier, bounds, history>>

(* The tier is reset in the settings, one save before the counter, to the  *)
(* first of the device's plan, which the page may have changed.            *)
ResetTier ==
  /\ pc[Cron] = "monthly"
  /\ SaveTier(Cron, 1)
  /\ Goto(Cron, "month")
  /\ \/ UNCHANGED <<limits, moved>>
     \/ shared /\ Reform
  /\ UNCHANGED <<row, territory, shared, mem, points, level, stale, bounds,
                 used, total, clash, skipped, failed, halfReset>>

ResetMonth ==
  /\ pc[Cron] = "month"
  /\ Save(Cron, [mem[Cron] EXCEPT !.monthly = 0])
  /\ used' = [used EXCEPT !.monthly = 0]
  /\ moved' = FALSE /\ halfReset' = FALSE
  /\ End(Cron)
  /\ UNCHANGED <<tier, territory, limits, shared, bounds, total, skipped, failed>>

(* The time series refuses the level, the device has no rate plan, or the  *)
(* process is stopped: between the two saves as well.                      *)
JobDies ==
  /\ pc[Cron] # "idle"
  /\ Die(Cron)
  /\ halfReset' = (halfReset \/ pc[Cron] = "month")
  /\ UNCHANGED <<database, bounds, used, total, clash, skipped, failed, moved>>

(***************************************************************************)
(* settings_device: a new name, new channels or a new rate plan saves the  *)
(* device; a new territory replaces the old one first.                     *)
(***************************************************************************)

OpenPage ==
  /\ pc[Page] = "idle" /\ jobs < MaxJobs
  /\ Copy(Page, row)
  /\ \E step \in {"clear", "save"} : Goto(Page, step)
  /\ jobs' = jobs + 1
  /\ UNCHANGED <<database, points, level, stale, staleTier, requests, turns,
                 history>>

ClearTerritory ==
  /\ pc[Page] = "clear"
  /\ territory' = FALSE
  /\ Goto(Page, "add")
  /\ UNCHANGED <<row, tier, limits, shared, mem, points, level, stale, staleTier,
                 bounds, history>>

(* The new territory, with rates of its own, is looked up only now; the    *)
(* request dies if there is none.                                          *)
AddTerritory ==
  /\ pc[Page] = "add"
  /\ \/ /\ territory' = TRUE /\ Reform /\ Goto(Page, "save")
        /\ UNCHANGED <<mem, points, level, stale, staleTier>>
     \/ Die(Page) /\ UNCHANGED <<territory, limits, moved>>
  /\ UNCHANGED <<row, tier, shared, bounds, used, total, clash, skipped, failed,
                 halfReset>>

SavePage ==
  /\ pc[Page] = "save"
  /\ Save(Page, mem[Page]) /\ End(Page)
  /\ UNCHANGED <<tier, territory, limits, shared, bounds, used, total, skipped,
                 failed, reform>>

(* The administrator adds a rate plan with tiers of its own. *)
AddRatePlan ==
  /\ ~shared /\ shared' = TRUE
  /\ UNCHANGED <<row, tier, territory, limits, session, bounds, history>>

(* A new season, or a month of other length, as each point asks for it.    *)
CalendarTurns ==
  /\ turns < MaxTurns /\ turns' = turns + 1
  /\ Reform
  /\ UNCHANGED <<row, tier, territory, shared, session, requests, jobs, used,
                 total, clash, skipped, failed, halfReset>>

Serve(w) ==
  \/ Receive(w) \/ PassOver(w) \/ DieOnMissing(w) \/ Count(w) \/ ReadTier(w)
  \/ Price(w) \/ Upgrade(w) \/ Drop(w) \/ Store(w) \/ Fail(w) \/ Finish(w)

Reset == StartJob \/ ResetDay \/ ResetTier \/ ResetMonth \/ JobDies

Edit == OpenPage \/ ClearTerritory \/ AddTerritory \/ SavePage

Next ==
  (\E w \in Workers : Serve(w)) \/ Reset \/ Edit \/ AddRatePlan \/ CalendarTurns

Spec == Init /\ [][Next]_vars

(***************************************************************************)
(* Properties                                                              *)
(***************************************************************************)

AtRest == \A s \in Sessions : pc[s] = "idle"

(* However requests, job and page overlap, nothing is counted twice:       *)
(* overwriting a row may lose energy and cost, never invent any, and not   *)
(* even a stale copy of the settings advances a device to a tier that all  *)
(* its energy so far would not have reached under any limits.              *)
NeverInvented ==
  /\ row.monthly <= total.energy /\ row.daily <= total.energy
  /\ row.cost <= total.cost
  /\ tier > 1 => \E a \in Limits : total.energy > a[tier - 1]

(* The running count of the month and of the day (models.py:218) is exact  *)
(* as long as no session saves over a change it has not seen, also while   *)
(* requests are under way, after failed ones and around the resets.        *)
CountIsExact ==
  ~clash => row.monthly = used.monthly /\ row.daily = used.daily

(* The cost of a point is written by the next save only; when all have     *)
(* ended, none died and none clashed, each priced point is in the row once. *)
BilledOnce == AtRest /\ ~clash /\ ~failed => row.cost = used.cost

(* The tiers are further apart than the energy of a point.                 *)
TiersApart ==
  \A a \in Limits, l \in 1 .. MaxLevel - 2, u \in Usages : a[l] + u <= a[l + 1]

(* A device at rest is in the tier its energy of the month calls for, when *)
(* no session clashed, no request died, every point could be priced and    *)
(* the limits are those of the last monthly reset: the two rows, saved one *)
(* after the other by request and job, agree.  A job that dies between its *)
(* two saves leaves the device in too low a tier at most.  A point moves   *)
(* the device by one tier at most (TiersApart).                            *)
TierFits ==
  AtRest /\ ~clash /\ ~failed /\ ~skipped /\ ~moved =>
    /\ tier > 1 => row.monthly > limits[tier - 1]
    /\ tier < MaxLevel /\ ~halfReset => row.monthly <= limits[tier]
=============================================================================
