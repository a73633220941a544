------------------------ MODULE TierAccounting_proofs ------------------------
(***************************************************************************)
(* Theorems about the counters of a device, for every number of request    *)
(* threads and events, every rate plan and every energy a point may have:  *)
(* types, that nothing is counted that was not used, that what is counted  *)
(* is exact, that what is priced is billed once, and that the tier follows *)
(* the energy.                                                             *)
(***************************************************************************)
EXTENDS TierAccounting, TLAPS

(* TypeOK in two: truth values and numbers are for different provers.      *)
Flags ==
  /\ territory \in BOOLEAN /\ shared \in BOOLEAN
  /\ clash \in BOOLEAN /\ skipped \in BOOLEAN /\ failed \in BOOLEAN
  /\ moved \in BOOLEAN /\ halfReset \in BOOLEAN

Data ==
  /\ row \in Counters /\ used \in Counters
  /\ total \in [energy : Nat, cost : Nat]
  /\ tier \in Levels /\ limits \in Limits
  /\ pc \in [Sessions -> Steps]
  /\ mem \in [Sessions -> Counters]
  /\ points \in [Sessions -> Seq(Points)]
  /\ level \in [Sessions -> 0 .. MaxLevel]
  /\ stale \subseteq Sessions /\ staleTier \subseteq Sessions
  /\ requests \in 0 .. MaxRequests /\ jobs \in 0 .. MaxJobs /\ turns \in 0 .. MaxTurns

Active(s) == pc[s] # "idle"

(* No copy of the row holds more than there was.                           *)
CopiesJustified ==
  \A s \in Sessions :
    /\ mem[s].monthly <= total.energy /\ mem[s].daily <= total.energy
    /\ mem[s].cost <= total.cost

(* A session that has seen all saves has the row's energy in its copy.     *)
EnergyKnown ==
  \A s \in Sessions : Active(s) /\ s \notin stale =>
    mem[s].monthly = row.monthly /\ mem[s].daily = row.daily

(* The job and the page have the row's cost in theirs, a request perhaps   *)
(* what it has priced since in addition.                                   *)
CostKnown ==
  /\ \A s \in {Cron, Page} : Active(s) /\ s \notin stale => mem[s].cost = row.cost
  /\ \A w \in Workers : Active(w) /\ w \notin stale => mem[w].cost >= row.cost

(* A request whose copy is out of date will clash or die, for it ends with *)
(* a save or dies.                                                         *)
Doomed == clash \/ failed \/ \E w \in Workers : Active(w) /\ w \in stale

(* What a request has priced and not saved.                                *)
Owes(w) == Active(w) /\ mem[w].cost # row.cost

(* Unless a request is doomed, what was priced is in the row, or in the    *)
(* copy of the one request that owes it; when two owe, one will clash.     *)
CostSomewhere ==
  ~Doomed =>
    /\ (\A w \in Workers : ~Owes(w)) => row.cost = used.cost
    /\ \A w \in Workers :
         Active(w) /\ (\A v \in Workers \ {w} : ~Owes(v)) => mem[w].cost = used.cost

(* A request that prices a point has one, with an energy.                  *)
PointPriced ==
  \A w \in Workers : pc[w] = "price" => points[w] # <<>> /\ Head(points[w]) \in Usages

TierInv ==
  /\ Flags /\ Data /\ PointPriced
  /\ NeverInvented /\ CopiesJustified
  /\ EnergyKnown /\ CountIsExact
  /\ CostKnown /\ CostSomewhere
-----------------------------------------------------------------------------
LEMMA TypeParts == TypeOK <=> Flags /\ Data
  BY DEF TypeOK, Flags, Data

LEMMA SessionFacts ==
  /\ Cron \in Sessions /\ Page \in Sessions
  /\ \A w \in Workers : w \in Sessions /\ w # Cron /\ w # Page
  BY TierAssumption DEF Sessions

LEMMA StepFacts ==
  /\ {"idle", "count", "price", "finish", "daily", "monthly", "month",
      "clear", "add", "save"} = Steps
  BY DEF Steps

LEMMA EventsTyped == Events \subseteq Seq(Points)
<1> SUFFICES ASSUME NEW ev \in Events PROVE ev \in Seq(Points)
  OBVIOUS
<1>1. PICK n \in 0 .. MaxPoints : ev \in [1 .. n -> Points]
  BY DEF Events
<1> QED
  BY <1>1, TierAssumption

LEMMA TailTyped ==
  ASSUME NEW S, NEW s \in Seq(S), s # <<>>
  PROVE  Head(s) \in S /\ Tail(s) \in Seq(S)
  OBVIOUS

LEMMA ZeroTyped == Zero \in Counters
  BY DEF Zero, Counters

LEMMA CountersTyped ==
  ASSUME NEW m \in Counters
  PROVE  /\ m.monthly \in Nat /\ m.daily \in Nat /\ m.cost \in Nat
         /\ \A u \in Nat : /\ [m EXCEPT !.monthly = @ + u, !.daily = @ + u] \in Counters
                          /\ [m EXCEPT !.cost = @ + u] \in Counters
         /\ [m EXCEPT !.daily = 0, !.cost = 0] \in Counters
         /\ [m EXCEPT !.monthly = 0] \in Counters
<1>1. m.monthly \in Nat /\ m.daily \in Nat /\ m.cost \in Nat
  BY DEF Counters
<1>2. ASSUME NEW u \in Nat
      PROVE  /\ [m EXCEPT !.monthly = @ + u, !.daily = @ + u] \in Counters
             /\ [m EXCEPT !.cost = @ + u] \in Counters
  <2>1. m.monthly + u \in Nat /\ m.daily + u \in Nat /\ m.cost + u \in Nat
    BY <1>1
  <2> QED
    BY <1>1, <2>1 DEF Counters
<1>3. [m EXCEPT !.daily = 0, !.cost = 0] \in Counters /\ [m EXCEPT !.monthly = 0] \in Counters
  BY <1>1 DEF Counters
<1> QED
  BY <1>1, <1>2, <1>3

LEMMA TotalTyped ==
  ASSUME NEW t \in [energy : Nat, cost : Nat], NEW u \in Nat
  PROVE  /\ t.energy \in Nat /\ t.cost \in Nat
         /\ [t EXCEPT !.energy = @ + u] \in [energy : Nat, cost : Nat]
         /\ [t EXCEPT !.cost = @ + u] \in [energy : Nat, cost : Nat]
<1>1. t.energy \in Nat /\ t.cost \in Nat
  OBVIOUS
<1>2. t.energy + u \in Nat /\ t.cost + u \in Nat
  BY <1>1
<1> QED
  BY <1>1, <1>2

LEMMA EndTyped ==
  ASSUME Data, NEW s \in Sessions, End(s)
  PROVE  /\ pc' \in [Sessions -> Steps] /\ mem' \in [Sessions -> Counters]
         /\ points' \in [Sessions -> Seq(Points)]
         /\ level' \in [Sessions -> 0 .. MaxLevel]
         /\ staleTier' \subseteq Sessions
<1>1. 0 \in 0 .. MaxLevel
  BY TierAssumption
<1>2. <<>> \in Seq(Points)
  OBVIOUS
<1> QED
  BY <1>1, <1>2, ZeroTyped, StepFacts DEF End, Goto, Copy, Data

LEMMA SaveTyped ==
  ASSUME Data, NEW s \in Sessions, NEW counters \in Counters, Save(s, counters)
  PROVE  row' \in Counters /\ stale' \subseteq Sessions
  BY DEF Save, Others, Data

LEMMA FlagsKept == Flags /\ [Next]_vars => Flags'
<1> SUFFICES ASSUME Flags, [Next]_vars PROVE Flags'
  OBVIOUS
<1> USE DEF Flags, database, session, bounds, history, reform
<1>0. Reform => moved' \in BOOLEAN
  BY DEF Reform
<1>1. ASSUME NEW w \in Workers, Serve(w) PROVE Flags'
  BY <1>1 DEF Serve, Receive, PassOver, DieOnMissing, Count, ReadTier, Price, Upgrade,
     Drop, Store, Fail, Finish, Save
<1>2. CASE Reset
  BY <1>0, <1>2 DEF Reset, StartJob, ResetDay, ResetTier, ResetMonth, JobDies, Save
<1>3. CASE Edit
  BY <1>0, <1>3 DEF Edit, OpenPage, ClearTerritory, AddTerritory, SavePage, Save
<1>4. CASE AddRatePlan \/ CalendarTurns
  BY <1>0, <1>4 DEF AddRatePlan, CalendarTurns
<1>5. CASE UNCHANGED vars
  BY <1>5 DEF vars
<1> QED
  BY <1>1, <1>2, <1>3, <1>4, <1>5 DEF Next

LEMMA ChargeTyped ==
  ASSUME Data, NEW w \in Workers, NEW l \in Levels, Charge(w, l),
         Head(points[w]) \in Usages
  PROVE  /\ mem' \in [Sessions -> Counters] /\ used' \in Counters
         /\ total' \in [energy : Nat, cost : Nat]
<1> DEFINE cost == Cost(l, Head(points[w]))
<1>1. cost \in Nat
  BY TierAssumption
<1>2. /\ mem' = [mem EXCEPT ![w].cost = @ + cost]
      /\ used' = [used EXCEPT !.cost = @ + cost]
      /\ total' = [total EXCEPT !.cost = @ + cost]
  BY DEF Charge
<1> HIDE DEF cost
<1>3. [mem[w] EXCEPT !.cost = @ + cost] \in Counters
  BY <1>1, CountersTyped, SessionFacts DEF Data
<1>4. mem' = [mem EXCEPT ![w] = [mem[w] EXCEPT !.cost = @ + cost]]
  BY <1>2
<1>5. mem' \in [Sessions -> Counters]
  BY <1>3, <1>4, SessionFacts DEF Data
<1>6. used' \in Counters
  BY <1>1, <1>2, CountersTyped DEF Data
<1>7. total' \in [energy : Nat, cost : Nat]
  BY <1>1, <1>2, TotalTyped DEF Data
<1> QED
  BY <1>5, <1>6, <1>7

LEMMA CopyTyped ==
  ASSUME Data, NEW s \in Sessions, NEW counters \in Counters, Copy(s, counters)
  PROVE  mem' \in [Sessions -> Counters]
  BY DEF Data, Copy

LEMMA GotoTyped ==
  ASSUME Data, NEW s \in Sessions, NEW step \in Steps, Goto(s, step)
  PROVE  pc' \in [Sessions -> Steps]
  BY DEF Data, Goto

LEMMA DataKept == Data /\ PointPriced /\ [Next]_vars => Data'
<1> SUFFICES ASSUME Data, PointPriced, [Next]_vars PROVE Data'
  OBVIOUS
<1> USE TierAssumption, SessionFacts, StepFacts
    DEF Data, database, session, bounds, history, reform
<1>1. ASSUME NEW w \in Workers, Receive(w) PROVE Data'
  <2>1. points' \in [Sessions -> Seq(Points)]
    BY <1>1, EventsTyped DEF Receive
  <2> QED
    BY <1>1, <2>1 DEF Receive, Copy, Goto
<1>2. ASSUME NEW w \in Workers, PassOver(w) PROVE Data'
  BY <1>2, TailTyped DEF PassOver, NextPoint
<1>3. ASSUME NEW w \in Workers, DieOnMissing(w) \/ Fail(w) PROVE Data'
  BY <1>3, EndTyped DEF DieOnMissing, Fail, Die
<1>4. ASSUME NEW w \in Workers, Count(w) PROVE Data'
  <2> DEFINE u == Head(points[w])
             counters == [mem[w] EXCEPT !.monthly = @ + u, !.daily = @ + u]
  <2>1. u \in Nat
    BY <1>4 DEF Count
  <2>2. counters \in Counters
    BY <2>1, CountersTyped
  <2>3. Save(w, counters) /\ Copy(w, counters)
    BY <1>4 DEF Count
  <2>4. row' \in Counters /\ stale' \subseteq Sessions /\ mem' \in [Sessions -> Counters]
    <3> HIDE DEF counters
    <3> QED
      BY <2>2, <2>3, SaveTyped, CopyTyped
  <2>5. /\ used' = [used EXCEPT !.monthly = @ + u, !.daily = @ + u]
        /\ total' = [total EXCEPT !.energy = @ + u]
    BY <1>4 DEF Count
  <2>6. used' \in Counters /\ total' \in [energy : Nat, cost : Nat]
    <3> HIDE DEF u
    <3> QED
      BY <2>1, <2>5, CountersTyped, TotalTyped
  <2> QED
    BY <1>4, <2>4, <2>6 DEF Count, Goto
<1>5. ASSUME NEW w \in Workers, ReadTier(w) PROVE Data'
  BY <1>5 DEF ReadTier, Levels
<1>6. ASSUME NEW w \in Workers, Price(w) PROVE Data'
  <2>1. Charge(w, level[w]) /\ level[w] \in Levels /\ Head(points[w]) \in Usages
    BY <1>6 DEF Price, PointPriced, Levels
  <2>2. /\ mem' \in [Sessions -> Counters] /\ used' \in Counters
        /\ total' \in [energy : Nat, cost : Nat]
    BY <2>1, ChargeTyped
  <2>3. points' \in [Sessions -> Seq(Points)]
    BY <1>6, TailTyped DEF Price, NextPoint, PointPriced
  <2> QED
    BY <1>6, <2>2, <2>3 DEF Price, Goto
<1>7. ASSUME NEW w \in Workers, Upgrade(w) PROVE Data'
  <2>0. level[w] \in 0 .. MaxLevel /\ level[w] < MaxLevel /\ pc[w] = "price"
    BY <1>7 DEF Upgrade, Exceeds, Sessions
  <2>1. level[w] + 1 \in Levels /\ Head(points[w]) \in Usages
    BY <2>0 DEF PointPriced, Levels
  <2>2. /\ mem' \in [Sessions -> Counters] /\ used' \in Counters
        /\ total' \in [energy : Nat, cost : Nat]
    BY <1>7, <2>1, ChargeTyped DEF Upgrade
  <2>3. points' \in [Sessions -> Seq(Points)]
    BY <1>7, TailTyped DEF Upgrade, NextPoint, PointPriced
  <2>4. tier' \in Levels /\ staleTier' \subseteq Sessions
    BY <1>7, <2>1 DEF Upgrade, SaveTier, Others
  <2>5. level' \in [Sessions -> 0 .. MaxLevel]
    BY <1>7, <2>1 DEF Upgrade, Levels
  <2> QED
    BY <1>7, <2>2, <2>3, <2>4, <2>5 DEF Upgrade, Goto
<1>8. ASSUME NEW w \in Workers, Drop(w) PROVE Data'
  BY <1>8, TailTyped DEF Drop, NextPoint, Goto, PointPriced
<1>9. ASSUME NEW w \in Workers, Store(w) PROVE Data'
  BY <1>9 DEF Store, Goto
<1>10. ASSUME NEW w \in Workers, Finish(w) PROVE Data'
  BY <1>10, SaveTyped, EndTyped DEF Finish
<1>11. CASE StartJob
  BY <1>11 DEF StartJob, Copy, Goto
<1>12. CASE ResetDay
  <2>1. [mem[Cron] EXCEPT !.daily = 0, !.cost = 0] \in Counters
    BY CountersTyped
  <2>2. used' \in Counters
    BY <1>12, CountersTyped DEF ResetDay
  <2> QED
    BY <1>12, <2>1, <2>2, SaveTyped, EndTyped DEF ResetDay
<1>13. CASE ResetTier
  <2>0. limits' \in Limits
    BY <1>13 DEF ResetTier, Reform
  <2>1. tier' \in Levels /\ staleTier' \subseteq Sessions
    BY <1>13 DEF ResetTier, SaveTier, Others, Levels
  <2> QED
    BY <1>13, <2>0, <2>1 DEF ResetTier, Goto
<1>14. CASE ResetMonth
  <2>1. [mem[Cron] EXCEPT !.monthly = 0] \in Counters
    BY CountersTyped
  <2>2. used' \in Counters
    BY <1>14, CountersTyped DEF ResetMonth
  <2> QED
    BY <1>14, <2>1, <2>2, SaveTyped, EndTyped DEF ResetMonth
<1>15. CASE JobDies
  BY <1>15, EndTyped DEF JobDies, Die
<1>16. CASE OpenPage
  BY <1>16 DEF OpenPage, Copy, Goto
<1>17. CASE ClearTerritory
  BY <1>17 DEF ClearTerritory, Goto
<1>18. CASE AddTerritory
  <2>0. limits' \in Limits
    BY <1>18 DEF AddTerritory, Reform
  <2>1. CASE Die(Page)
    BY <1>18, <2>0, <2>1, EndTyped DEF AddTerritory, Die
  <2>2. CASE Goto(Page, "save") /\ UNCHANGED <<mem, points, level, stale, staleTier>>
    BY <1>18, <2>0, <2>2 DEF AddTerritory, Goto
  <2> QED
    BY <1>18, <2>1, <2>2 DEF AddTerritory
<1>19. CASE SavePage
  BY <1>19, SaveTyped, EndTyped DEF SavePage
<1>20. CASE AddRatePlan \/ CalendarTurns
  <2>1. CASE AddRatePlan
    BY <2>1 DEF AddRatePlan
  <2>2. CASE CalendarTurns
    BY <2>2 DEF CalendarTurns, Reform
  <2> QED
    BY <1>20, <2>1, <2>2
<1>21. CASE UNCHANGED vars
  BY <1>21 DEF vars
<1> QED
  BY <1>1, <1>2, <1>3, <1>4, <1>5, <1>6, <1>7, <1>8, <1>9, <1>10, <1>11, <1>12,
     <1>13, <1>14, <1>15, <1>16, <1>17, <1>18, <1>19, <1>20, <1>21
  DEF Next, Serve, Reset, Edit

-----------------------------------------------------------------------------
(* What the invariant says of the values, action by action.                *)

LEMMA Types ==
  ASSUME Data
  PROVE  /\ row.monthly \in Nat /\ row.daily \in Nat /\ row.cost \in Nat
         /\ used.monthly \in Nat /\ used.daily \in Nat /\ used.cost \in Nat
         /\ total.energy \in Nat /\ total.cost \in Nat
         /\ \A s \in Sessions : /\ mem[s].monthly \in Nat /\ mem[s].daily \in Nat
                                /\ mem[s].cost \in Nat
  BY CountersTyped, TotalTyped DEF Data

LEMMA NextPointPriced == Data /\ PointPriced /\ [Next]_vars => PointPriced'
<1> SUFFICES ASSUME Data, PointPriced, [Next]_vars PROVE PointPriced'
  OBVIOUS
<1> USE SessionFacts DEF Data, PointPriced, session, End, Goto
<1>1. ASSUME NEW w \in Workers, Serve(w) PROVE PointPriced'
  BY <1>1 DEF Serve, Receive, PassOver, DieOnMissing, Count, ReadTier, Price, Upgrade,
     Drop, Store, Fail, Finish, Die, NextPoint
<1>2. CASE Reset
  BY <1>2 DEF Reset, StartJob, ResetDay, ResetTier, ResetMonth, JobDies, Die
<1>3. CASE Edit
  BY <1>3 DEF Edit, OpenPage, ClearTerritory, AddTerritory, SavePage, Die
<1>4. CASE AddRatePlan \/ CalendarTurns
  BY <1>4 DEF AddRatePlan, CalendarTurns
<1>5. CASE UNCHANGED vars
  BY <1>5 DEF vars
<1> QED
  BY <1>1, <1>2, <1>3, <1>4, <1>5 DEF Next

Justified == NeverInvented /\ CopiesJustified

(* What the actions do to the fields.                                      *)

LEMMA CountFields ==
  ASSUME Data, NEW w \in Workers, Count(w)
  PROVE  \E u \in Nat :
           /\ mem'[w].monthly = mem[w].monthly + u /\ mem'[w].daily = mem[w].daily + u
           /\ mem'[w].cost = mem[w].cost
           /\ \A s \in Sessions \ {w} : mem'[s] = mem[s]
           /\ row' = mem'[w]
           /\ used'.monthly = used.monthly + u /\ used'.daily = used.daily + u
           /\ used'.cost = used.cost
           /\ total'.energy = total.energy + u /\ total'.cost = total.cost
           /\ stale' = (stale \ {w}) \cup Others(w) /\ clash' = (clash \/ w \in stale)
<1> DEFINE u == Head(points[w])
           counters == [mem[w] EXCEPT !.monthly = @ + u, !.daily = @ + u]
<1>1. u \in Nat
  BY TierAssumption DEF Count
<1>2. /\ mem' = [mem EXCEPT ![w] = counters] /\ row' = counters
      /\ used' = [used EXCEPT !.monthly = @ + u, !.daily = @ + u]
      /\ total' = [total EXCEPT !.energy = @ + u]
      /\ stale' = (stale \ {w}) \cup Others(w) /\ clash' = (clash \/ w \in stale)
  BY DEF Count, Save, Copy
<1>3. mem[w] \in Counters /\ mem'[w] = counters
  BY <1>2, SessionFacts DEF Data
<1>4. /\ counters.monthly = mem[w].monthly + u /\ counters.daily = mem[w].daily + u
      /\ counters.cost = mem[w].cost
  BY <1>3 DEF Counters
<1>5. /\ used'.monthly = used.monthly + u /\ used'.daily = used.daily + u
      /\ used'.cost = used.cost
      /\ total'.energy = total.energy + u /\ total'.cost = total.cost
  BY <1>2 DEF Data, Counters
<1>6. \A s \in Sessions \ {w} : mem'[s] = mem[s]
  BY <1>2 DEF Data
<1> HIDE DEF u, counters
<1> QED
  BY <1>1, <1>2, <1>3, <1>4, <1>5, <1>6

LEMMA ChargeFields ==
  ASSUME Data, NEW w \in Workers, NEW l \in Levels, Charge(w, l),
         Head(points[w]) \in Usages
  PROVE  \E c \in Nat :
           /\ mem'[w].monthly = mem[w].monthly /\ mem'[w].daily = mem[w].daily
           /\ mem'[w].cost = mem[w].cost + c
           /\ \A s \in Sessions \ {w} : mem'[s] = mem[s]
           /\ used'.monthly = used.monthly /\ used'.daily = used.daily
           /\ used'.cost = used.cost + c
           /\ total'.energy = total.energy /\ total'.cost = total.cost + c
<1> DEFINE c == Cost(l, Head(points[w]))
<1>1. c \in Nat
  BY TierAssumption
<1>2. /\ mem' = [mem EXCEPT ![w].cost = @ + c]
      /\ used' = [used EXCEPT !.cost = @ + c]
      /\ total' = [total EXCEPT !.cost = @ + c]
  BY DEF Charge
<1> HIDE DEF c
<1>3. mem[w] \in Counters /\ mem'[w] = [mem[w] EXCEPT !.cost = @ + c]
  BY <1>2, SessionFacts DEF Data
<1>4. /\ mem'[w].monthly = mem[w].monthly /\ mem'[w].daily = mem[w].daily
      /\ mem'[w].cost = mem[w].cost + c
  BY <1>3 DEF Counters
<1>5. /\ used'.monthly = used.monthly /\ used'.daily = used.daily
      /\ used'.cost = used.cost + c
      /\ total'.energy = total.energy /\ total'.cost = total.cost + c
  BY <1>2 DEF Data, Counters
<1>6. \A s \in Sessions \ {w} : mem'[s] = mem[s]
  BY <1>2 DEF Data
<1> QED
  BY <1>1, <1>4, <1>5, <1>6

LEMMA UpgradeFields ==
  ASSUME Data, NEW w \in Workers, Upgrade(w), Head(points[w]) \in Usages
  PROVE  \E c \in Nat :
           /\ mem'[w].monthly = mem[w].monthly /\ mem'[w].daily = mem[w].daily
           /\ mem'[w].cost = mem[w].cost + c
           /\ \A s \in Sessions \ {w} : mem'[s] = mem[s]
           /\ used'.monthly = used.monthly /\ used'.daily = used.daily
           /\ used'.cost = used.cost + c
           /\ total'.energy = total.energy /\ total'.cost = total.cost + c
<1>1. level[w] + 1 \in Levels
  BY SessionFacts, TierAssumption DEF Upgrade, Exceeds, Levels, Data
<1>2. CASE Charge(w, level[w] + 1)
  BY <1>1, <1>2, ChargeFields
<1>3. CASE UNCHANGED <<mem, used, total>>
  <2>1. /\ used'.cost = used.cost + 0 /\ total'.cost = total.cost + 0
        /\ mem'[w].cost = mem[w].cost + 0
    BY <1>3, Types, SessionFacts
  <2> QED
    BY <1>3, <2>1
<1> QED
  BY <1>2, <1>3 DEF Upgrade

LEMMA EndFields ==
  ASSUME Data, NEW s \in Sessions, End(s)
  PROVE  /\ pc'[s] = "idle" /\ mem'[s].monthly = 0 /\ mem'[s].daily = 0 /\ mem'[s].cost = 0
         /\ \A t \in Sessions \ {s} : mem'[t] = mem[t] /\ pc'[t] = pc[t]
  BY DEF End, Goto, Copy, Data, Zero

LEMMA BelowLast == \A l \in Levels : l # 1 => l - 1 \in 1 .. MaxLevel - 1
  BY TierAssumption DEF Levels

(* All it takes: what there was does not shrink, the tier stays or was     *)
(* reached, and row and copies hold no more than there was.                *)
LEMMA JustifiedFollows ==
  ASSUME Data, Justified, Data',
         total'.energy >= total.energy, total'.cost >= total.cost,
         \/ tier' = tier \/ tier' = 1
         \/ \E a \in Limits : total.energy > a[tier' - 1],
         \/ row' = row
         \/ /\ row'.monthly <= total'.energy /\ row'.daily <= total'.energy
            /\ row'.cost <= total'.cost,
         \A s \in Sessions :
            \/ mem'[s] = mem[s]
            \/ /\ mem'[s].monthly <= total'.energy /\ mem'[s].daily <= total'.energy
               /\ mem'[s].cost <= total'.cost
  PROVE  Justified'
<1>1. /\ row.monthly <= total.energy /\ row.daily <= total.energy /\ row.cost <= total.cost
      /\ \A s \in Sessions : /\ mem[s].monthly <= total.energy
                             /\ mem[s].daily <= total.energy /\ mem[s].cost <= total.cost
  BY DEF Justified, NeverInvented, CopiesJustified
<1>2. /\ total'.energy \in Nat /\ total'.cost \in Nat
      /\ total.energy \in Nat /\ total.cost \in Nat
  BY TotalTyped DEF Data
<1>3. row'.monthly <= total'.energy /\ row'.daily <= total'.energy /\ row'.cost <= total'.cost
  BY <1>1, <1>2, Types
<1>4. CopiesJustified'
  <2> SUFFICES ASSUME NEW s \in Sessions
               PROVE  /\ mem'[s].monthly <= total'.energy
                      /\ mem'[s].daily <= total'.energy /\ mem'[s].cost <= total'.cost
    BY DEF CopiesJustified
  <2> QED
    BY <1>1, <1>2, Types
<1>5. tier' > 1 => \E a \in Limits : total'.energy > a[tier' - 1]
  <2> SUFFICES ASSUME tier' > 1 PROVE \E a \in Limits : total'.energy > a[tier' - 1]
    OBVIOUS
  <2>1. tier > 1 => \E a \in Limits : total.energy > a[tier - 1]
    BY DEF Justified, NeverInvented
  <2>2. tier' # 1
    OBVIOUS
  <2>3. PICK a \in Limits : total.energy > a[tier' - 1]
    BY <2>1, <2>2
  <2>4. tier' \in 1 .. MaxLevel
    BY DEF Data, Levels
  <2>5. tier' - 1 \in 1 .. MaxLevel - 1
    BY <2>2, <2>4, BelowLast DEF Levels
  <2>6. a[tier' - 1] \in Nat
    BY <2>5, TierAssumption
  <2>7. total'.energy > a[tier' - 1]
    BY <1>2, <2>3, <2>6
  <2> QED
    BY <2>7
<1> QED
  BY <1>3, <1>4, <1>5 DEF Justified, NeverInvented

LEMMA NextJustified == Data /\ PointPriced /\ Justified /\ [Next]_vars => Justified'
<1> SUFFICES ASSUME Data, PointPriced, Justified, [Next]_vars PROVE Justified'
  OBVIOUS
<1>0. Data'
  BY DataKept
<1>t. /\ total.energy \in Nat /\ total.cost \in Nat
      /\ row.monthly <= total.energy /\ row.daily <= total.energy /\ row.cost <= total.cost
      /\ \A s \in Sessions : /\ mem[s].monthly <= total.energy
                             /\ mem[s].daily <= total.energy /\ mem[s].cost <= total.cost
  BY Types DEF Justified, NeverInvented, CopiesJustified
<1>1. ASSUME NEW s \in Sessions, Copy(s, row), UNCHANGED <<row, tier, total>>
      PROVE  Justified'
  <2>1. \A t \in Sessions : mem'[t] = mem[t] \/ mem'[t] = row
    BY <1>1 DEF Copy, Data
  <2>2. total'.energy >= total.energy /\ total'.cost >= total.cost
    BY <1>1, <1>t
  <2>3. \A t \in Sessions :
            \/ mem'[t] = mem[t]
            \/ /\ mem'[t].monthly <= total'.energy /\ mem'[t].daily <= total'.energy
               /\ mem'[t].cost <= total'.cost
    BY <1>1, <1>t, <2>1
  <2> QED
    BY <1>0, <1>1, <2>2, <2>3, JustifiedFollows
<1>2. ASSUME UNCHANGED <<row, mem, total>>, tier' = tier \/ tier' = 1 PROVE Justified'
  <2>1. total'.energy >= total.energy /\ total'.cost >= total.cost
    BY <1>2, <1>t
  <2> QED
    BY <1>0, <1>2, <2>1, JustifiedFollows
<1>3. ASSUME NEW s \in Sessions, End(s), UNCHANGED <<tier, total>>,
             \/ row' = row
             \/ /\ row'.monthly = 0 \/ row'.monthly = mem[s].monthly
                /\ row'.daily = 0 \/ row'.daily = mem[s].daily
                /\ row'.cost = 0 \/ row'.cost = mem[s].cost
      PROVE  Justified'
  <2>1. total'.energy >= total.energy /\ total'.cost >= total.cost
    BY <1>3, <1>t
  <2>2. \A t \in Sessions :
            \/ mem'[t] = mem[t]
            \/ /\ mem'[t].monthly <= total'.energy /\ mem'[t].daily <= total'.energy
               /\ mem'[t].cost <= total'.cost
    BY <1>3, <1>t, EndFields
  <2>3. \/ row' = row
        \/ /\ row'.monthly <= total'.energy /\ row'.daily <= total'.energy
           /\ row'.cost <= total'.cost
    BY <1>3, <1>t
  <2> QED
    BY <1>0, <1>3, <2>1, <2>2, <2>3, JustifiedFollows
<1>4. ASSUME NEW w \in Workers, Count(w) PROVE Justified'
  <2>1. PICK u \in Nat :
           /\ mem'[w].monthly = mem[w].monthly + u /\ mem'[w].daily = mem[w].daily + u
           /\ mem'[w].cost = mem[w].cost
           /\ \A s \in Sessions \ {w} : mem'[s] = mem[s]
           /\ row' = mem'[w]
           /\ total'.energy = total.energy + u /\ total'.cost = total.cost
    BY <1>4, CountFields
  <2>2. UNCHANGED tier
    BY <1>4 DEF Count
  <2>3. total'.energy >= total.energy /\ total'.cost >= total.cost
    BY <1>t, <2>1
  <2>4. /\ mem'[w].monthly <= total'.energy /\ mem'[w].daily <= total'.energy
        /\ mem'[w].cost <= total'.cost
    BY <1>t, <2>1, Types, SessionFacts
  <2> QED
    BY <1>0, <2>1, <2>2, <2>3, <2>4, JustifiedFollows
<1>5. ASSUME NEW w \in Workers, Price(w) \/ Upgrade(w) PROVE Justified'
  <2>1. Head(points[w]) \in Usages
    BY <1>5 DEF Price, Upgrade, PointPriced
  <2>2. \E c \in Nat :
           /\ mem'[w].monthly = mem[w].monthly /\ mem'[w].daily = mem[w].daily
           /\ mem'[w].cost = mem[w].cost + c
           /\ \A s \in Sessions \ {w} : mem'[s] = mem[s]
           /\ total'.energy = total.energy /\ total'.cost = total.cost + c
    <3>1. CASE Price(w)
      <4>1. Charge(w, level[w]) /\ level[w] \in Levels
        BY <3>1, SessionFacts DEF Price, Levels, Data
      <4> QED
        BY <2>1, <4>1, ChargeFields
    <3>2. CASE Upgrade(w)
      BY <2>1, <3>2, UpgradeFields
    <3> QED
      BY <1>5, <3>1, <3>2
  <2>3. PICK c \in Nat :
           /\ mem'[w].monthly = mem[w].monthly /\ mem'[w].daily = mem[w].daily
           /\ mem'[w].cost = mem[w].cost + c
           /\ \A s \in Sessions \ {w} : mem'[s] = mem[s]
           /\ total'.energy = total.energy /\ total'.cost = total.cost + c
    BY <2>2
  <2>4. total'.energy >= total.energy /\ total'.cost >= total.cost
    BY <1>t, <2>3
  <2>5. /\ mem'[w].monthly <= total'.energy /\ mem'[w].daily <= total'.energy
        /\ mem'[w].cost <= total'.cost
    BY <1>t, <2>3, Types, SessionFacts
  <2>6. row' = row
    BY <1>5 DEF Price, Upgrade, database
  <2>7. tier' = tier \/ \E a \in Limits : total.energy > a[tier' - 1]
    <3>1. CASE Price(w)
      BY <3>1 DEF Price, database
    <3>2. CASE Upgrade(w)
      <4>1. tier' = level[w] + 1 /\ mem[w].monthly > limits[level[w]]
        BY <3>2 DEF Upgrade, SaveTier, Exceeds
      <4>2. level[w] \in 1 .. MaxLevel - 1 /\ limits[level[w]] \in Nat /\ limits \in Limits
        BY <3>2, TierAssumption, SessionFacts DEF Upgrade, Exceeds, Data
      <4>3. mem[w].monthly \in Nat /\ mem[w].monthly <= total.energy
        BY <1>t, Types, SessionFacts
      <4>4. tier' - 1 = level[w]
        BY <4>1, <4>2
      <4> QED
        BY <1>t, <4>1, <4>2, <4>3, <4>4
    <3> QED
      BY <1>5, <3>1, <3>2
  <2> QED
    BY <1>0, <2>3, <2>4, <2>5, <2>6, <2>7, JustifiedFollows
<1>6. ASSUME NEW w \in Workers, Serve(w) PROVE Justified'
  <2>1. CASE Receive(w)
    BY <1>1, <2>1, SessionFacts DEF Receive, database, history, reform
  <2>2. CASE PassOver(w) \/ ReadTier(w) \/ Drop(w) \/ Store(w)
    BY <1>2, <2>2 DEF PassOver, ReadTier, Drop, Store, database, history, reform
  <2>3. CASE DieOnMissing(w) \/ Fail(w)
    BY <1>3, <2>3, SessionFacts DEF DieOnMissing, Fail, Die, database
  <2>4. CASE Finish(w)
    BY <1>3, <2>4, SessionFacts DEF Finish, Save
  <2> QED
    BY <1>4, <1>5, <1>6, <2>1, <2>2, <2>3, <2>4 DEF Serve
<1>7. CASE Reset
  <2>1. CASE StartJob
    BY <1>1, <2>1, SessionFacts DEF StartJob, database, history, reform
  <2>2. CASE ResetDay
    <3>1. row' = [mem[Cron] EXCEPT !.daily = 0, !.cost = 0] /\ mem[Cron] \in Counters
      BY <2>2, SessionFacts DEF ResetDay, Save, Data
    <3>2. row'.monthly = mem[Cron].monthly /\ row'.daily = 0 /\ row'.cost = 0
      BY <3>1 DEF Counters
    <3>3. End(Cron) /\ UNCHANGED <<tier, total>>
      BY <2>2 DEF ResetDay
    <3> QED
      BY <1>3, <3>2, <3>3, SessionFacts
  <2>3. CASE ResetMonth
    <3>1. row' = [mem[Cron] EXCEPT !.monthly = 0] /\ mem[Cron] \in Counters
      BY <2>3, SessionFacts DEF ResetMonth, Save, Data
    <3>2. row'.monthly = 0 /\ row'.daily = mem[Cron].daily /\ row'.cost = mem[Cron].cost
      BY <3>1 DEF Counters
    <3>3. End(Cron) /\ UNCHANGED <<tier, total>>
      BY <2>3 DEF ResetMonth
    <3> QED
      BY <1>3, <3>2, <3>3, SessionFacts
  <2>4. CASE ResetTier
    BY <1>2, <2>4 DEF ResetTier, SaveTier, history, reform
  <2>5. CASE JobDies
    BY <1>3, <2>5, SessionFacts DEF JobDies, Die, database, history, reform
  <2> QED
    BY <1>7, <2>1, <2>2, <2>3, <2>4, <2>5 DEF Reset
<1>8. CASE Edit
  <2>1. CASE OpenPage
    BY <1>1, <2>1, SessionFacts DEF OpenPage, database, history, reform
  <2>2. CASE ClearTerritory
    BY <1>2, <2>2 DEF ClearTerritory, history, reform
  <2>3. CASE AddTerritory
    BY <1>2, <1>3, <2>3, SessionFacts DEF AddTerritory, Die, history, reform
  <2>4. CASE SavePage
    BY <1>3, <2>4, SessionFacts DEF SavePage, Save
  <2> QED
    BY <1>8, <2>1, <2>2, <2>3, <2>4 DEF Edit
<1>9. CASE AddRatePlan \/ CalendarTurns \/ UNCHANGED vars
  BY <1>2, <1>9 DEF AddRatePlan, CalendarTurns, vars, database, session, history, reform
<1> QED
  BY <1>6, <1>7, <1>8, <1>9 DEF Next

(* The copy of a session that has seen all saves is the row, as far as the *)
(* energy goes, so that its save loses nothing; every save makes the       *)
(* copies of the others stale.                                             *)
Exact == EnergyKnown /\ CountIsExact

LEMMA OthersStale ==
  ASSUME Data, NEW s \in Sessions, NEW counters, Save(s, counters)
  PROVE  \A t \in Sessions \ {s} : Active(t) => t \in stale'
  BY DEF Save, Others, Active

LEMMA NextExact == Data /\ Flags /\ PointPriced /\ Exact /\ [Next]_vars => Exact'
<1> SUFFICES ASSUME Data, Flags, PointPriced, Exact, [Next]_vars PROVE Exact'
  OBVIOUS
<1>1. ASSUME NEW s \in Sessions, Copy(s, row), UNCHANGED <<row, used, clash, stale>>,
             \A t \in Sessions \ {s} : pc'[t] = pc[t]
      PROVE  Exact'
  <2>1. mem'[s] = row /\ \A t \in Sessions \ {s} : mem'[t] = mem[t]
    BY <1>1 DEF Copy, Data
  <2> QED
    BY <1>1, <2>1 DEF Exact, EnergyKnown, CountIsExact, Active
<1>2. ASSUME UNCHANGED <<row, mem, used, stale>>, clash => clash',
             \A s \in Sessions : Active(s)' => Active(s)
      PROVE  Exact'
  BY <1>2 DEF Exact, EnergyKnown, CountIsExact, Active
<1>3. ASSUME NEW s \in Sessions, Die(s), UNCHANGED <<row, used, clash>> PROVE Exact'
  <2>1. \A t \in Sessions \ {s} : mem'[t] = mem[t] /\ pc'[t] = pc[t] /\ (t \in stale <=> t \in stale')
    BY <1>3, EndFields DEF Die
  <2>2. ~Active(s)'
    BY <1>3, EndFields DEF Die, Active
  <2> QED
    BY <1>3, <2>1, <2>2 DEF Exact, EnergyKnown, CountIsExact, Active
(* A save: what the others have is stale now; what s had was the row's,    *)
(* unless it clashes.                                                      *)
<1>4. ASSUME NEW s \in Sessions, NEW counters, Save(s, counters),
             \A t \in Sessions \ {s} : pc'[t] = pc[t],
             Active(s)' => mem'[s] = counters,
             s \notin stale =>
               \/ ~(row.monthly = used.monthly /\ row.daily = used.daily)
               \/ counters.monthly = used'.monthly /\ counters.daily = used'.daily
      PROVE  Exact'
  <2>1. \A t \in Sessions \ {s} : Active(t)' => t \in stale'
    BY <1>4, OthersStale DEF Active
  <2>2. row' = counters /\ (clash' <=> clash \/ s \in stale)
    BY <1>4 DEF Save
  <2>3. EnergyKnown'
    BY <1>4, <2>1, <2>2 DEF EnergyKnown
  <2>4. CountIsExact'
    BY <1>4, <2>2 DEF Exact, CountIsExact
  <2> QED
    BY <2>3, <2>4 DEF Exact
<1>5. ASSUME NEW w \in Workers, Count(w) PROVE Exact'
  <2>1. PICK u \in Nat :
           /\ mem'[w].monthly = mem[w].monthly + u /\ mem'[w].daily = mem[w].daily + u
           /\ row' = mem'[w]
           /\ used'.monthly = used.monthly + u /\ used'.daily = used.daily + u
    BY <1>5, CountFields
  <2>2. Save(w, mem'[w])
    BY <1>5, SessionFacts DEF Count, Copy, Data
  <2>3. \A t \in Sessions \ {w} : pc'[t] = pc[t]
    BY <1>5 DEF Count, Goto, Data
  <2>4. w \notin stale => mem[w].monthly = row.monthly /\ mem[w].daily = row.daily
    BY <1>5, SessionFacts DEF Exact, EnergyKnown, Active, Count
  <2> QED
    BY <1>4, <2>1, <2>2, <2>3, <2>4, SessionFacts
<1>6. ASSUME NEW w \in Workers, Price(w) \/ Upgrade(w) PROVE Exact'
  <2>1. Head(points[w]) \in Usages
    BY <1>6 DEF Price, Upgrade, PointPriced
  <2>2. /\ \A s \in Sessions : mem'[s].monthly = mem[s].monthly /\ mem'[s].daily = mem[s].daily
        /\ used'.monthly = used.monthly /\ used'.daily = used.daily
    <3>1. CASE Price(w)
      <4>1. Charge(w, level[w]) /\ level[w] \in Levels
        BY <3>1, SessionFacts DEF Price, Levels, Data
      <4> QED
        BY <2>1, <4>1, ChargeFields
    <3>2. CASE Upgrade(w)
      BY <2>1, <3>2, UpgradeFields
    <3> QED
      BY <1>6, <3>1, <3>2
  <2>3. /\ UNCHANGED <<row, stale>> /\ (clash => clash')
        /\ \A s \in Sessions : Active(s)' => Active(s)
    <3>1. UNCHANGED <<row, stale>>
      BY <1>6 DEF Price, Upgrade, database
    <3>2. clash => clash'
      BY <1>6 DEF Price, Upgrade
    <3>3. \A s \in Sessions : Active(s)' => Active(s)
      BY <1>6 DEF Price, Upgrade, Active, Goto, Data
    <3> QED
      BY <3>1, <3>2, <3>3
  <2> QED
    BY <2>2, <2>3 DEF Exact, EnergyKnown, CountIsExact
<1>7. ASSUME NEW w \in Workers, Serve(w) PROVE Exact'
  <2>1. CASE Receive(w)
    BY <1>1, <2>1, SessionFacts DEF Receive, Goto, Data, database, history, reform
  <2>2. CASE PassOver(w) \/ ReadTier(w) \/ Drop(w) \/ Store(w)
    BY <1>2, <2>2 DEF PassOver, ReadTier, Drop, Store, Goto, Active, Data, database, history, reform
  <2>3. CASE DieOnMissing(w) \/ Fail(w)
    BY <1>3, <2>3, SessionFacts DEF DieOnMissing, Fail, database
  <2>4. CASE Finish(w)
    <3>1. Save(w, mem[w]) /\ End(w) /\ used' = used /\ Active(w)
      BY <2>4 DEF Finish, Active
    <3>2. ~Active(w)' /\ \A t \in Sessions \ {w} : pc'[t] = pc[t]
      BY <3>1, EndFields, SessionFacts DEF Active
    <3>3. w \notin stale => mem[w].monthly = row.monthly /\ mem[w].daily = row.daily
      BY <3>1, SessionFacts DEF Exact, EnergyKnown
    <3> QED
      BY <1>4, <3>1, <3>2, <3>3, SessionFacts
  <2> QED
    BY <1>5, <1>6, <1>7, <2>1, <2>2, <2>3, <2>4 DEF Serve
<1>8. CASE Reset
  <2>1. CASE StartJob
    BY <1>1, <2>1, SessionFacts DEF StartJob, Goto, Data, database, history, reform
  <2>2. CASE ResetDay
    <3> DEFINE counters == [mem[Cron] EXCEPT !.daily = 0, !.cost = 0]
    <3>1. Save(Cron, counters) /\ End(Cron) /\ Active(Cron)
      BY <2>2 DEF ResetDay, Active
    <3>2. ~Active(Cron)' /\ \A t \in Sessions \ {Cron} : pc'[t] = pc[t]
      BY <3>1, EndFields, SessionFacts DEF Active
    <3>3. Cron \notin stale => mem[Cron].monthly = row.monthly
      BY <3>1, SessionFacts DEF Exact, EnergyKnown
    <3>4. counters.monthly = mem[Cron].monthly /\ counters.daily = 0
      BY SessionFacts DEF Data, Counters
    <3>5. used'.monthly = used.monthly /\ used'.daily = 0
      BY <2>2 DEF ResetDay, Data, Counters
    <3> HIDE DEF counters
    <3> QED
      BY <1>4, <3>1, <3>2, <3>3, <3>4, <3>5, SessionFacts
  <2>3. CASE ResetMonth
    <3> DEFINE counters == [mem[Cron] EXCEPT !.monthly = 0]
    <3>1. Save(Cron, counters) /\ End(Cron) /\ Active(Cron)
      BY <2>3 DEF ResetMonth, Active
    <3>2. ~Active(Cron)' /\ \A t \in Sessions \ {Cron} : pc'[t] = pc[t]
      BY <3>1, EndFields, SessionFacts DEF Active
    <3>3. Cron \notin stale => mem[Cron].daily = row.daily
      BY <3>1, SessionFacts DEF Exact, EnergyKnown
    <3>4. counters.daily = mem[Cron].daily /\ counters.monthly = 0
      BY SessionFacts DEF Data, Counters
    <3>5. used'.daily = used.daily /\ used'.monthly = 0
      BY <2>3 DEF ResetMonth, Data, Counters
    <3> HIDE DEF counters
    <3> QED
      BY <1>4, <3>1, <3>2, <3>3, <3>4, <3>5, SessionFacts
  <2>4. CASE ResetTier
    BY <1>2, <2>4 DEF ResetTier, Goto, Active, Data, history, reform
  <2>5. CASE JobDies
    BY <1>3, <2>5, SessionFacts DEF JobDies, database, history, reform
  <2> QED
    BY <1>8, <2>1, <2>2, <2>3, <2>4, <2>5 DEF Reset
<1>9. CASE Edit
  <2>1. CASE OpenPage
    BY <1>1, <2>1, SessionFacts DEF OpenPage, Goto, Data, database, history, reform
  <2>2. CASE ClearTerritory
    BY <1>2, <2>2 DEF ClearTerritory, Goto, Active, Data, history, reform
  <2>3. CASE AddTerritory
    <3>1. CASE Die(Page)
      BY <1>3, <2>3, <3>1, SessionFacts DEF AddTerritory, history, reform
    <3>2. CASE Goto(Page, "save") /\ UNCHANGED <<mem, stale>>
      BY <1>2, <2>3, <3>2 DEF AddTerritory, Goto, Active, Data, history, reform
    <3> QED
      BY <2>3, <3>1, <3>2 DEF AddTerritory
  <2>4. CASE SavePage
    <3>1. Save(Page, mem[Page]) /\ End(Page) /\ used' = used /\ Active(Page)
      BY <2>4 DEF SavePage, Active
    <3>2. ~Active(Page)' /\ \A t \in Sessions \ {Page} : pc'[t] = pc[t]
      BY <3>1, EndFields, SessionFacts DEF Active
    <3>3. Page \notin stale => mem[Page].monthly = row.monthly /\ mem[Page].daily = row.daily
      BY <3>1, SessionFacts DEF Exact, EnergyKnown
    <3> QED
      BY <1>4, <3>1, <3>2, <3>3, SessionFacts
  <2> QED
    BY <1>9, <2>1, <2>2, <2>3, <2>4 DEF Edit
<1>10. CASE AddRatePlan \/ CalendarTurns \/ UNCHANGED vars
  BY <1>2, <1>10 DEF AddRatePlan, CalendarTurns, vars, database, session, history, reform, Active
<1> QED
  BY <1>7, <1>8, <1>9, <1>10 DEF Next

(***************************************************************************)
(* What is owed.  A step leaves nobody doomed only if nobody was.          *)
(***************************************************************************)

Billed == CostKnown /\ CostSomewhere

LEMMA OnceDoomed ==
  ASSUME Data, ~Doomed', clash => clash', failed => failed',
         \A w \in Workers : Active(w) /\ w \in stale => Active(w)' /\ w \in stale'
  PROVE  ~Doomed
  BY DEF Doomed

LEMMA NextBilled == Data /\ Flags /\ PointPriced /\ Billed /\ [Next]_vars => Billed'
<1> SUFFICES ASSUME Data, Flags, PointPriced, Billed, [Next]_vars PROVE Billed'
  OBVIOUS
<1>0. Data'
  BY DataKept
(* A session reads the row. *)
<1>1. ASSUME NEW s \in Sessions, Copy(s, row), ~Active(s), Active(s)',
             UNCHANGED <<row, used, clash, failed, stale>>,
             \A t \in Sessions \ {s} : pc'[t] = pc[t]
      PROVE  Billed'
  <2>1. mem'[s] = row /\ \A t \in Sessions \ {s} : mem'[t] = mem[t] /\ (Active(t)' <=> Active(t))
    BY <1>1 DEF Copy, Data, Active
  <2>2. CostKnown'
    BY <1>1, <2>1, Types, SessionFacts DEF Billed, CostKnown
  <2>3. CostSomewhere'
    <3> SUFFICES ASSUME ~Doomed'
                 PROVE  /\ (\A w \in Workers : ~Owes(w)') => row'.cost = used'.cost
                        /\ \A w \in Workers :
                             Active(w)' /\ (\A v \in Workers \ {w} : ~Owes(v)') =>
                               mem'[w].cost = used'.cost
      BY DEF CostSomewhere
    <3>1. ~Doomed
      <4>1. \A w \in Workers : Active(w) /\ w \in stale => Active(w)' /\ w \in stale'
        BY <1>1, <2>1, SessionFacts
      <4> QED
        BY <1>1, <4>1, OnceDoomed
    <3>2. ~Owes(s)' /\ ~Owes(s) /\ \A v \in Sessions \ {s} : Owes(v)' <=> Owes(v)
      BY <1>1, <2>1 DEF Owes
    <3>3. (\A w \in Workers : ~Owes(w)') => \A w \in Workers : ~Owes(w)
      BY <3>2, SessionFacts
    <3>4. ASSUME NEW w \in Workers, Active(w)', \A v \in Workers \ {w} : ~Owes(v)'
          PROVE  mem'[w].cost = used'.cost
      <4>1. CASE w = s
        <5>1. \A v \in Workers : ~Owes(v)
          BY <3>2, <3>4, <4>1, SessionFacts
        <5> QED
          BY <1>1, <2>1, <3>1, <4>1, <5>1 DEF Billed, CostSomewhere
      <4>2. CASE w # s
        <5>1. Active(w) /\ \A v \in Workers \ {w} : ~Owes(v)
          BY <2>1, <3>2, <3>4, <4>2, SessionFacts
        <5> QED
          BY <1>1, <2>1, <3>1, <4>2, <5>1, SessionFacts DEF Billed, CostSomewhere
      <4> QED
        BY <4>1, <4>2
    <3> QED
      BY <1>1, <3>1, <3>3, <3>4 DEF Billed, CostSomewhere
  <2> QED
    BY <2>2, <2>3 DEF Billed
(* Nothing about money happens. *)
<1>2. ASSUME UNCHANGED <<row, mem, used, stale, failed>>, clash => clash',
             \A s \in Sessions : Active(s)' <=> Active(s)
      PROVE  Billed'
  <2>1. CostKnown'
    BY <1>2, SessionFacts DEF Billed, CostKnown
  <2>2. \A w \in Workers : (Owes(w)' <=> Owes(w)) /\ (Active(w)' <=> Active(w))
    BY <1>2, SessionFacts DEF Owes
  <2>3. ~Doomed' => ~Doomed
    BY <1>2, <2>2, OnceDoomed
  <2>4. CostSomewhere'
    BY <1>2, <2>2, <2>3 DEF Billed, CostSomewhere
  <2> QED
    BY <2>1, <2>4 DEF Billed
(* Job or page end without a save. *)
<1>3. ASSUME NEW s \in {Cron, Page}, Die(s), UNCHANGED <<row, used, clash, failed>>
      PROVE  Billed'
  <2>1. s \in Sessions /\ s \notin Workers
    BY TierAssumption, SessionFacts
  <2>2. /\ ~Active(s)'
        /\ \A t \in Sessions \ {s} : /\ mem'[t] = mem[t] /\ (Active(t)' <=> Active(t))
                                     /\ (t \in stale' <=> t \in stale)
    BY <1>3, <2>1, EndFields DEF Die, Active
  <2>3. CostKnown'
    BY <1>3, <2>1, <2>2, SessionFacts DEF Billed, CostKnown
  <2>4. \A w \in Workers :
          /\ (Owes(w)' <=> Owes(w)) /\ (Active(w)' <=> Active(w))
          /\ mem'[w] = mem[w] /\ (w \in stale' <=> w \in stale)
    BY <1>3, <2>1, <2>2, SessionFacts DEF Owes
  <2>5. ~Doomed' => ~Doomed
    BY <1>3, <2>4, OnceDoomed
  <2>6. CostSomewhere'
    BY <1>3, <2>4, <2>5 DEF Billed, CostSomewhere
  <2> QED
    BY <2>3, <2>6 DEF Billed
(* A request dies: nothing more is promised, but of copies. *)
<1>4. ASSUME NEW w \in Workers, Die(w), failed', UNCHANGED row PROVE Billed'
  <2>1. /\ ~Active(w)'
        /\ \A t \in Sessions \ {w} : /\ mem'[t] = mem[t] /\ (Active(t)' <=> Active(t))
                                     /\ (t \in stale' <=> t \in stale)
    BY <1>4, SessionFacts, EndFields DEF Die, Active
  <2>2. CostKnown'
    BY <1>4, <2>1, SessionFacts DEF Billed, CostKnown
  <2> QED
    BY <1>4, <2>2 DEF Billed, CostSomewhere, Doomed
(* Job or page save: every request at work is doomed. *)
<1>5. ASSUME NEW s \in {Cron, Page}, NEW counters, Save(s, counters), End(s), Active(s),
             UNCHANGED failed,
             \/ counters.cost = mem[s].cost /\ used'.cost = used.cost
             \/ counters.cost = 0 /\ used'.cost = 0
      PROVE  Billed'
  <2>1. s \in Sessions /\ s \notin Workers
    BY TierAssumption, SessionFacts
  <2>2. /\ ~Active(s)' /\ row' = counters /\ (clash' <=> clash \/ s \in stale)
        /\ \A t \in Sessions \ {s} : (Active(t)' <=> Active(t)) /\ (Active(t) => t \in stale')
    BY <1>5, <2>1, EndFields, OthersStale DEF Save, Active
  <2>3. CostKnown'
    BY <2>2, SessionFacts DEF CostKnown
  <2>4. CostSomewhere'
    <3> SUFFICES ASSUME ~Doomed'
                 PROVE  row'.cost = used'.cost /\ \A w \in Workers : ~Active(w)'
      BY DEF CostSomewhere
    <3>1. \A w \in Workers : ~Active(w)' /\ ~Active(w)
      BY <2>1, <2>2, SessionFacts DEF Doomed
    <3>2. ~Doomed /\ s \notin stale
      BY <1>5, <2>2, <3>1 DEF Doomed
    <3>3. row.cost = used.cost
      BY <3>1, <3>2 DEF Billed, CostSomewhere, Owes
    <3>4. mem[s].cost = row.cost
      BY <1>5, <3>2 DEF Billed, CostKnown
    <3> QED
      BY <1>5, <2>2, <3>1, <3>3, <3>4
  <2> QED
    BY <2>3, <2>4 DEF Billed
(* A request saves: the other requests at work are doomed. *)
<1>6. ASSUME NEW w \in Workers, NEW counters, Save(w, counters), Active(w), UNCHANGED failed,
             counters.cost = mem[w].cost, used'.cost = used.cost,
             Active(w)' => mem'[w] = counters,
             \A t \in Sessions \ {w} : pc'[t] = pc[t]
      PROVE  Billed'
  <2>1. /\ row' = counters /\ (clash' <=> clash \/ w \in stale)
        /\ \A t \in Sessions \ {w} : (Active(t)' <=> Active(t)) /\ (Active(t) => t \in stale')
    BY <1>6, SessionFacts, OthersStale DEF Save, Active
  <2>2. mem[w].cost \in Nat
    BY Types, SessionFacts
  <2>3. CostKnown'
    BY <1>6, <2>1, <2>2, SessionFacts DEF CostKnown
  <2>4. CostSomewhere'
    <3> SUFFICES ASSUME ~Doomed'
                 PROVE  /\ row'.cost = used'.cost
                        /\ \A v \in Workers : Active(v)' => mem'[v].cost = used'.cost
      BY DEF CostSomewhere
    <3>1. \A v \in Workers \ {w} : ~Active(v)' /\ ~Active(v)
      BY <2>1, SessionFacts DEF Doomed
    <3>2. ~Doomed /\ w \notin stale
      BY <1>6, <2>1, <3>1 DEF Doomed
    <3>3. mem[w].cost = used.cost
      BY <1>6, <3>1, <3>2 DEF Billed, CostSomewhere, Owes
    <3> QED
      BY <1>6, <2>1, <3>1, <3>3
  <2> QED
    BY <2>3, <2>4 DEF Billed
(* A request prices a point: it owes, unless the point is for free. *)
<1>7. ASSUME NEW w \in Workers, NEW c \in Nat, Active(w), UNCHANGED <<row, stale, failed>>,
             clash => clash', \A s \in Sessions : Active(s)' <=> Active(s),
             mem'[w].cost = mem[w].cost + c, used'.cost = used.cost + c,
             \A s \in Sessions \ {w} : mem'[s] = mem[s]
      PROVE  Billed'
  <2>1. /\ mem[w].cost \in Nat /\ row.cost \in Nat /\ used.cost \in Nat
        /\ \A v \in Workers \ {w} : (Owes(v)' <=> Owes(v)) /\ (Active(v)' <=> Active(v))
    BY <1>7, Types, SessionFacts DEF Owes
  <2>2. CostKnown'
    <3>1. \A s \in {Cron, Page} : mem'[s] = mem[s] /\ (Active(s)' <=> Active(s))
      BY <1>7, SessionFacts
    <3>2. \A v \in Workers \ {w} : mem'[v] = mem[v]
      BY <1>7, SessionFacts
    <3>3. w \notin stale' => mem'[w].cost >= row'.cost
      BY <1>7, <2>1 DEF Billed, CostKnown
    <3> QED
      BY <1>7, <2>1, <3>1, <3>2, <3>3 DEF Billed, CostKnown
  <2>3. CostSomewhere'
    <3> SUFFICES ASSUME ~Doomed'
                 PROVE  /\ (\A v \in Workers : ~Owes(v)') => row'.cost = used'.cost
                        /\ \A v \in Workers :
                             Active(v)' /\ (\A x \in Workers \ {v} : ~Owes(x)') =>
                               mem'[v].cost = used'.cost
      BY DEF CostSomewhere
    <3>1. ~Doomed
      BY <1>7, SessionFacts, OnceDoomed
    <3>2. w \notin stale /\ mem[w].cost >= row.cost
      BY <1>7, <3>1 DEF Doomed, Billed, CostKnown
    <3>3. CASE c = 0
      <4>1. mem'[w].cost = mem[w].cost /\ used'.cost = used.cost
        BY <1>7, <2>1, <3>3
      <4>2. \A v \in Workers : (Owes(v)' <=> Owes(v)) /\ mem'[v].cost = mem[v].cost
        BY <1>7, <2>1, <4>1, SessionFacts DEF Owes
      <4> QED
        BY <1>7, <3>1, <4>1, <4>2, SessionFacts DEF Billed, CostSomewhere
    <3>4. CASE c # 0
      <4>1. Owes(w)'
        BY <1>7, <2>1, <3>2, <3>4, SessionFacts DEF Owes
      <4>2. ASSUME \A x \in Workers \ {w} : ~Owes(x)' PROVE mem'[w].cost = used'.cost
        BY <1>7, <2>1, <3>1, <4>2 DEF Billed, CostSomewhere
      <4> QED
        BY <4>1, <4>2
    <3> QED
      BY <3>3, <3>4
  <2> QED
    BY <2>2, <2>3 DEF Billed
<1>8. ASSUME NEW w \in Workers, Price(w) \/ Upgrade(w) PROVE Billed'
  <2>1. Head(points[w]) \in Usages
    BY <1>8 DEF Price, Upgrade, PointPriced
  <2>2. \E c \in Nat :
           /\ mem'[w].cost = mem[w].cost + c /\ used'.cost = used.cost + c
           /\ \A s \in Sessions \ {w} : mem'[s] = mem[s]
    <3>1. CASE Price(w)
      <4>1. Charge(w, level[w]) /\ level[w] \in Levels
        BY <3>1, SessionFacts DEF Price, Levels, Data
      <4> QED
        BY <2>1, <4>1, ChargeFields
    <3>2. CASE Upgrade(w)
      BY <2>1, <3>2, UpgradeFields
    <3> QED
      BY <1>8, <3>1, <3>2
  <2>3. UNCHANGED <<row, stale, failed>>
    BY <1>8 DEF Price, Upgrade, database
  <2>4. clash => clash'
    BY <1>8 DEF Price, Upgrade
  <2>5. Active(w) /\ \A s \in Sessions : Active(s)' <=> Active(s)
    BY <1>8 DEF Price, Upgrade, Active, Goto, Data
  <2> QED
    BY <1>7, <2>2, <2>3, <2>4, <2>5
<1>9. ASSUME NEW w \in Workers, Serve(w) PROVE Billed'
  <2>1. CASE Receive(w)
    BY <1>1, <2>1, SessionFacts DEF Receive, Goto, Active, Data, database, history, reform
  <2>2. CASE PassOver(w) \/ ReadTier(w) \/ Drop(w) \/ Store(w)
    BY <1>2, <2>2 DEF PassOver, ReadTier, Drop, Store, Goto, Active, Data, database, history, reform
  <2>3. CASE DieOnMissing(w) \/ Fail(w)
    BY <1>4, <2>3 DEF DieOnMissing, Fail, database
  <2>4. CASE Count(w)
    <3>1. Save(w, mem'[w]) /\ Active(w) /\ UNCHANGED failed
      BY <2>4, SessionFacts DEF Count, Copy, Active, Data
    <3>2. mem'[w].cost = mem[w].cost /\ used'.cost = used.cost
      BY <2>4, CountFields
    <3>3. \A t \in Sessions \ {w} : pc'[t] = pc[t]
      BY <2>4 DEF Count, Goto, Data
    <3> QED
      BY <1>6, <3>1, <3>2, <3>3
  <2>5. CASE Finish(w)
    <3>1. Save(w, mem[w]) /\ End(w) /\ used' = used /\ Active(w) /\ UNCHANGED failed
      BY <2>5 DEF Finish, Active
    <3>2. ~Active(w)' /\ \A t \in Sessions \ {w} : pc'[t] = pc[t]
      BY <3>1, EndFields, SessionFacts DEF Active
    <3> QED
      BY <1>6, <3>1, <3>2
  <2> QED
    BY <1>8, <1>9, <2>1, <2>2, <2>3, <2>4, <2>5 DEF Serve
<1>10. CASE Reset
  <2>1. CASE StartJob
    BY <1>1, <2>1, SessionFacts DEF StartJob, Goto, Active, Data, database, history, reform
  <2>2. CASE ResetDay
    <3> DEFINE counters == [mem[Cron] EXCEPT !.daily = 0, !.cost = 0]
    <3>1. Save(Cron, counters) /\ End(Cron) /\ Active(Cron) /\ UNCHANGED failed
      BY <2>2 DEF ResetDay, Active
    <3>2. counters.cost = 0 /\ used'.cost = 0
      BY <2>2, SessionFacts DEF ResetDay, Data, Counters
    <3> HIDE DEF counters
    <3> QED
      BY <1>5, <3>1, <3>2
  <2>3. CASE ResetMonth
    <3> DEFINE counters == [mem[Cron] EXCEPT !.monthly = 0]
    <3>1. Save(Cron, counters) /\ End(Cron) /\ Active(Cron) /\ UNCHANGED failed
      BY <2>3 DEF ResetMonth, Active
    <3>2. counters.cost = mem[Cron].cost /\ used'.cost = used.cost
      BY <2>3, SessionFacts DEF ResetMonth, Data, Counters
    <3> HIDE DEF counters
    <3> QED
      BY <1>5, <3>1, <3>2
  <2>4. CASE ResetTier
    BY <1>2, <2>4 DEF ResetTier, Goto, Active, Data, history, reform
  <2>5. CASE JobDies
    BY <1>3, <2>5 DEF JobDies, database, history, reform
  <2> QED
    BY <1>10, <2>1, <2>2, <2>3, <2>4, <2>5 DEF Reset
<1>11. CASE Edit
  <2>1. CASE OpenPage
    BY <1>1, <2>1, SessionFacts DEF OpenPage, Goto, Active, Data, database, history, reform
  <2>2. CASE ClearTerritory
    BY <1>2, <2>2 DEF ClearTerritory, Goto, Active, Data, history, reform
  <2>3. CASE AddTerritory
    <3>1. CASE Die(Page)
      BY <1>3, <2>3, <3>1 DEF AddTerritory, history, reform
    <3>2. CASE Goto(Page, "save") /\ UNCHANGED <<mem, stale>>
      BY <1>2, <2>3, <3>2 DEF AddTerritory, Goto, Active, Data, history, reform
    <3> QED
      BY <2>3, <3>1, <3>2 DEF AddTerritory
  <2>4. CASE SavePage
    <3>1. Save(Page, mem[Page]) /\ End(Page) /\ used' = used /\ Active(Page) /\ UNCHANGED failed
      BY <2>4 DEF SavePage, Active
    <3> QED
      BY <1>5, <3>1
  <2> QED
    BY <1>11, <2>1, <2>2, <2>3, <2>4 DEF Edit
<1>12. CASE AddRatePlan \/ CalendarTurns \/ UNCHANGED vars
  BY <1>2, <1>12 DEF AddRatePlan, CalendarTurns, vars, database, session, history, reform, Active
<1> QED
  BY <1>9, <1>10, <1>11, <1>12 DEF Next

-----------------------------------------------------------------------------
LEMMA InitTierInv == Init => TierInv
<1> SUFFICES ASSUME Init PROVE TierInv
  OBVIOUS
<1>1. Flags
  BY DEF Init, Flags
<1>2. Data
  <2>1. 1 \in Levels /\ 0 \in 0 .. MaxLevel /\ 0 \in 0 .. MaxRequests /\ 0 \in 0 .. MaxJobs /\ 0 \in 0 .. MaxTurns
    BY TierAssumption DEF Levels
  <2>2. <<>> \in Seq(Points)
    OBVIOUS
  <2> QED
    BY <2>1, <2>2, ZeroTyped, StepFacts DEF Init, Data
<1>3. \A s \in Sessions : pc[s] = "idle" /\ mem[s] = Zero
  BY DEF Init
<1>4. /\ Zero.monthly = 0 /\ Zero.daily = 0 /\ Zero.cost = 0 /\ row = Zero /\ used = Zero
      /\ total.energy = 0 /\ total.cost = 0 /\ tier = 1
  BY DEF Init, Zero
<1>5. NeverInvented /\ CopiesJustified
  BY <1>3, <1>4 DEF NeverInvented, CopiesJustified
<1>6. PointPriced /\ EnergyKnown /\ CostKnown
  BY <1>3, SessionFacts DEF PointPriced, EnergyKnown, CostKnown, Active
<1>7. CountIsExact /\ CostSomewhere
  BY <1>3, <1>4, SessionFacts DEF CountIsExact, CostSomewhere, Active
<1> QED
  BY <1>1, <1>2, <1>5, <1>6, <1>7 DEF TierInv

LEMMA TierInvHolds == Spec => []TierInv
<1>1. TierInv /\ [Next]_vars => TierInv'
  <2>1. TierInv <=> Flags /\ Data /\ PointPriced /\ Justified /\ Exact /\ Billed
    BY DEF TierInv, Justified, Exact, Billed
  <2>2. TierInv' <=> (Flags /\ Data /\ PointPriced /\ Justified /\ Exact /\ Billed)'
    BY DEF TierInv, Justified, Exact, Billed
  <2> QED
    BY <2>1, <2>2, FlagsKept, DataKept, NextPointPriced, NextJustified, NextExact, NextBilled
<1> QED
  BY <1>1, InitTierInv, PTL DEF Spec

(* Every variable keeps its range; with Overflow and Missing no numbers,   *)
(* the program never adds or compares anything but energies and costs.     *)
THEOREM TierTypeCorrect == Spec => []TypeOK
  BY TierInvHolds, TypeParts, PTL DEF TierInv

(* However many requests, whatever rate plan: row and tier never exceed    *)
(* what was used.                                                          *)
THEOREM NothingInvented == Spec => []NeverInvented
  BY TierInvHolds, PTL DEF TierInv

(* The energy of month and day is counted exactly unless a session saves   *)
(* over a change it has not seen.                                          *)
THEOREM CountsAreExact == Spec => []CountIsExact
  BY TierInvHolds, PTL DEF TierInv

(* At rest, what was priced is in the row once, unless a session clashed   *)
(* or a request died: two requests that owe cannot both come to rest.      *)
THEOREM PricedPointsBilled == Spec => []BilledOnce
<1>1. TierInv => BilledOnce
  <2> SUFFICES ASSUME TierInv, AtRest, ~clash, ~failed PROVE row.cost = used.cost
    BY DEF BilledOnce
  <2>1. \A w \in Workers : ~Active(w)
    BY SessionFacts DEF AtRest, Active
  <2> QED
    BY <2>1 DEF TierInv, CostSomewhere, Doomed, Owes
<1> QED
  BY <1>1, TierInvHolds, PTL
-----------------------------------------------------------------------------
(* The tier of a device and its energy of the month.                       *)

(* Some save is bound to be made over a change that was not seen, or some  *)
(* request to die, or it has happened: two requests under way cannot both  *)
(* end well.                                                               *)
Condemned ==
  \/ clash \/ failed \/ skipped
  \/ \E w \in Workers : Active(w) /\ w \in stale
  \/ \E v, w \in Workers : v # w /\ Active(v) /\ Active(w)

(* The monthly job has not stopped short of the counter.                   *)
Regular == ~halfReset /\ pc[Cron] # "month"

(* The tier is one for m units of energy in the month, not too low a one   *)
(* where the job has reset both rows.                                      *)
Fits(m) ==
  ~moved => /\ tier > 1 => m > limits[tier - 1]
            /\ Regular /\ tier < MaxLevel => m <= limits[tier]

(* The job finds the tier as it has left it, unless it is going to save    *)
(* over what a request has saved.                                          *)
MonthKnown ==
  ~Condemned /\ pc[Cron] = "month" /\ Cron \notin stale /\ (\A w \in Workers : ~Active(w))
    => tier = 1

(* Where nothing is condemned, the tier is right but for the point that is *)
(* being priced, and the one request at work knows it.                     *)
TierKnown ==
  ~Condemned =>
    /\ (\A w \in Workers : pc[w] # "price") => Fits(row.monthly)
    /\ \A w \in Workers : pc[w] = "price" => Fits(row.monthly - Head(points[w]))
    /\ Regular => \A w \in Workers : Active(w) => level[w] \in {0, tier}

LevelsForgotten == \A w \in Workers : ~Active(w) => level[w] = 0

TierSettled == LevelsForgotten /\ MonthKnown /\ TierKnown

(* What is condemned stays condemned, whatever the sessions do.            *)
LEMMA StaysCondemned ==
  ASSUME Data, Condemned, [Next]_vars
  PROVE  Condemned'
<1>1. ASSUME clash => clash', failed => failed', skipped => skipped',
             \A w \in Workers : Active(w) => Active(w)' /\ (w \in stale => w \in stale')
      PROVE  Condemned'
  BY <1>1 DEF Condemned
<1>2. ASSUME NEW s \in Sessions, NEW counters, Save(s, counters),
             UNCHANGED <<failed, skipped>>, \A t \in Sessions \ {s} : pc'[t] = pc[t]
      PROVE  Condemned'
  <2>1. /\ clash' <=> clash \/ s \in stale
        /\ \A t \in Sessions \ {s} : (Active(t)' <=> Active(t)) /\ (Active(t) => t \in stale')
    BY <1>2, OthersStale DEF Save, Active
  <2>2. CASE clash \/ failed \/ skipped
    BY <1>2, <2>1, <2>2 DEF Condemned
  <2>3. ASSUME NEW w \in Workers, Active(w), w \in stale
        PROVE  Condemned'
    <3>1. CASE w # s
      BY <2>1, <2>3, <3>1, SessionFacts DEF Condemned
    <3>2. CASE w = s
      BY <2>1, <2>3, <3>2 DEF Condemned
    <3> QED
      BY <3>1, <3>2
  <2>4. ASSUME NEW v \in Workers, NEW w \in Workers, v # w, Active(v), Active(w)
        PROVE  Condemned'
    <3>1. \E x \in Workers : x # s /\ Active(x)
      BY <2>4
    <3> QED
      BY <2>1, <3>1, SessionFacts DEF Condemned
  <2> QED
    BY <2>2, <2>3, <2>4 DEF Condemned
(* The job or the page ends without a save. *)
<1>3. ASSUME NEW s \in {Cron, Page}, Die(s), UNCHANGED <<clash, failed, skipped>>
      PROVE  Condemned'
  <2>1. s \in Sessions /\ s \notin Workers
    BY TierAssumption, SessionFacts
  <2>2. \A t \in Sessions \ {s} : pc'[t] = pc[t] /\ (t \in stale => t \in stale')
    BY <1>3, <2>1, EndFields DEF Die
  <2> QED
    BY <1>1, <1>3, <2>1, <2>2, SessionFacts DEF Active
<1>4. ASSUME NEW w \in Workers, Serve(w) PROVE Condemned'
  <2>1. CASE Receive(w)
    BY <1>1, <2>1, SessionFacts DEF Receive, Goto, Active, Data, history
  <2>2. CASE PassOver(w) \/ ReadTier(w) \/ Store(w)
    BY <1>1, <2>2, SessionFacts DEF PassOver, ReadTier, Store, Goto, Active, Data, history
  <2>3. CASE DieOnMissing(w) \/ Fail(w) \/ Drop(w)
    BY <2>3 DEF DieOnMissing, Fail, Drop, Condemned
  <2>4. CASE Count(w)
    <3>1. Save(w, mem'[w]) /\ UNCHANGED <<failed, skipped>>
      BY <2>4, SessionFacts DEF Count, Copy, Data
    <3>2. \A t \in Sessions \ {w} : pc'[t] = pc[t]
      BY <2>4 DEF Count, Goto, Data
    <3> QED
      BY <1>2, <3>1, <3>2, SessionFacts
  <2>5. CASE Price(w) \/ Upgrade(w)
    <3>1. \A v \in Workers : Active(v) => Active(v)' /\ (v \in stale => v \in stale')
      BY <2>5, SessionFacts DEF Price, Upgrade, Goto, Active, Data
    <3>2. clash => clash'
      BY <2>5 DEF Price, Upgrade
    <3>3. failed => failed'
      BY <2>5 DEF Price, Upgrade
    <3>4. skipped => skipped'
      BY <2>5 DEF Price, Upgrade
    <3> QED
      BY <1>1, <3>1, <3>2, <3>3, <3>4
  <2>6. CASE Finish(w)
    <3>1. Save(w, mem[w]) /\ End(w) /\ UNCHANGED <<failed, skipped>>
      BY <2>6 DEF Finish
    <3> QED
      BY <1>2, <3>1, EndFields, SessionFacts
  <2> QED
    BY <1>4, <2>1, <2>2, <2>3, <2>4, <2>5, <2>6 DEF Serve
<1>5. CASE Reset
  <2>1. CASE StartJob
    BY <1>1, <2>1, SessionFacts DEF StartJob, Goto, Active, Data, history
  <2>2. CASE ResetTier
    BY <1>1, <2>2, SessionFacts DEF ResetTier, Goto, Active, Data
  <2>3. CASE JobDies
    BY <1>3, <2>3 DEF JobDies
  <2>4. CASE ResetDay
    <3>1. Save(Cron, [mem[Cron] EXCEPT !.daily = 0, !.cost = 0]) /\ End(Cron)
          /\ UNCHANGED <<failed, skipped>>
      BY <2>4 DEF ResetDay
    <3> QED
      BY <1>2, <3>1, EndFields, SessionFacts
  <2>5. CASE ResetMonth
    <3>1. Save(Cron, [mem[Cron] EXCEPT !.monthly = 0]) /\ End(Cron)
          /\ UNCHANGED <<failed, skipped>>
      BY <2>5 DEF ResetMonth
    <3> QED
      BY <1>2, <3>1, EndFields, SessionFacts
  <2> QED
    BY <1>5, <2>1, <2>2, <2>3, <2>4, <2>5 DEF Reset
<1>6. CASE Edit
  <2>1. CASE OpenPage
    BY <1>1, <2>1, SessionFacts DEF OpenPage, Goto, Active, Data, history
  <2>2. CASE ClearTerritory
    BY <1>1, <2>2, SessionFacts DEF ClearTerritory, Goto, Active, Data, history
  <2>3. CASE AddTerritory
    <3>1. CASE Die(Page)
      BY <1>3, <2>3, <3>1 DEF AddTerritory
    <3>2. CASE Goto(Page, "save") /\ UNCHANGED stale
      BY <1>1, <2>3, <3>2, SessionFacts DEF AddTerritory, Goto, Active, Data
    <3> QED
      BY <2>3, <3>1, <3>2 DEF AddTerritory
  <2>4. CASE SavePage
    <3>1. Save(Page, mem[Page]) /\ End(Page) /\ UNCHANGED <<failed, skipped>>
      BY <2>4 DEF SavePage
    <3> QED
      BY <1>2, <3>1, EndFields, SessionFacts
  <2> QED
    BY <1>6, <2>1, <2>2, <2>3, <2>4 DEF Edit
<1>7. CASE AddRatePlan \/ CalendarTurns \/ UNCHANGED vars
  BY <1>1, <1>7 DEF AddRatePlan, CalendarTurns, vars, session, history, Active
<1> QED
  BY <1>4, <1>5, <1>6, <1>7 DEF Next

(* Between the job's two saves the tier changes only by a request, which   *)
(* saves the row before it ends, or dies.                                  *)
LEMMA NextMonthKnown ==
  ASSUME Data, MonthKnown, [Next]_vars
  PROVE  MonthKnown'
<1> SUFFICES ASSUME ~Condemned', pc'[Cron] = "month", Cron \notin stale',
                    \A w \in Workers : ~Active(w)'
             PROVE  tier' = 1
  BY DEF MonthKnown
<1>0. ~Condemned
  BY StaysCondemned
<1>1. ASSUME tier' = tier, pc[Cron] = "month", Cron \in stale => Cron \in stale',
             \A w \in Workers : Active(w) => Active(w)'
      PROVE  tier' = 1
  BY <1>0, <1>1 DEF MonthKnown
<1>2. ASSUME NEW s \in Sessions \ {Cron}, NEW counters, Save(s, counters)
      PROVE  pc[Cron] # "month" \/ Cron \in stale'
  BY <1>2, OthersStale, SessionFacts DEF Active
<1>3. ASSUME NEW w \in Workers, Serve(w) PROVE tier' = 1
  <2>1. \/ pc'[w] # "idle" \/ Finish(w) \/ DieOnMissing(w) \/ Fail(w)
    BY <1>3, SessionFacts DEF Serve, Receive, PassOver, Count, ReadTier, Price, Upgrade, Drop,
       Store, Goto, Data
  <2>2. pc'[w] = "idle"
    BY DEF Active
  <2>3. ~DieOnMissing(w) /\ ~Fail(w)
    BY DEF DieOnMissing, Fail, Condemned
  <2>4. Save(w, mem[w]) /\ End(w)
    BY <2>1, <2>2, <2>3 DEF Finish
  <2>5. pc'[Cron] = pc[Cron]
    BY <2>4, EndFields, SessionFacts
  <2> QED
    BY <1>2, <2>4, <2>5, SessionFacts
<1>4. CASE Reset
  <2>1. CASE ResetTier
    BY <2>1 DEF ResetTier, SaveTier
  <2>2. CASE StartJob
    BY <2>2, SessionFacts DEF StartJob, Goto, Data
  <2>3. CASE ResetDay \/ ResetMonth \/ JobDies
    BY <2>3, EndFields, SessionFacts DEF ResetDay, ResetMonth, JobDies, Die
  <2> QED
    BY <1>4, <2>1, <2>2, <2>3 DEF Reset
<1>5. CASE Edit
  <2>1. CASE OpenPage \/ ClearTerritory
    BY <1>1, <2>1, SessionFacts DEF OpenPage, ClearTerritory, Goto, Active, Data, database
  <2>2. CASE AddTerritory
    <3>1. CASE Die(Page)
      <4>1. /\ pc'[Cron] = pc[Cron] /\ \A w \in Workers : pc'[w] = pc[w]
            /\ (Cron \in stale => Cron \in stale') /\ tier' = tier
        BY <2>2, <3>1, EndFields, SessionFacts DEF AddTerritory, Die
      <4> QED
        BY <1>1, <4>1 DEF Active
    <3>2. CASE Goto(Page, "save") /\ UNCHANGED stale
      BY <1>1, <2>2, <3>2, SessionFacts DEF AddTerritory, Goto, Active, Data
    <3> QED
      BY <2>2, <3>1, <3>2 DEF AddTerritory
  <2>3. CASE SavePage
    <3>1. Save(Page, mem[Page]) /\ End(Page)
      BY <2>3 DEF SavePage
    <3> QED
      BY <1>2, <3>1, EndFields, SessionFacts
  <2> QED
    BY <1>5, <2>1, <2>2, <2>3 DEF Edit
<1>6. CASE AddRatePlan \/ CalendarTurns \/ UNCHANGED vars
  BY <1>1, <1>6 DEF AddRatePlan, CalendarTurns, vars, database, session, Active
<1> QED
  BY <1>3, <1>4, <1>5, <1>6 DEF Next

(* What a count leaves in the row.                                         *)
LEMMA CountMonth ==
  ASSUME Data, NEW w \in Workers, Count(w)
  PROVE  /\ Head(points[w]) \in Nat
         /\ row'.monthly = mem[w].monthly + Head(points[w])
<1> DEFINE u == Head(points[w])
           counters == [mem[w] EXCEPT !.monthly = @ + u, !.daily = @ + u]
<1>1. u \in Nat /\ row' = counters
  BY TierAssumption DEF Count, Save
<1>2. mem[w] \in Counters
  BY SessionFacts DEF Data
<1>3. counters.monthly = mem[w].monthly + u
  BY <1>2 DEF Counters
<1> HIDE DEF u, counters
<1> QED
  BY <1>1, <1>3 DEF u

LEMMA LimitsTyped == ASSUME Data PROVE \A l \in 1 .. MaxLevel - 1 : limits[l] \in Nat
  BY TierAssumption DEF Data

(* The tiers are further apart than the energy of any point.               *)
LEMMA NextFits ==
  ASSUME TiersApart, Data, NEW l \in 1 .. MaxLevel - 1, NEW m \in Nat, NEW u \in Usages,
         m - u <= limits[l], l + 1 < MaxLevel
  PROVE  m <= limits[l + 1]
<1>1. l \in 1 .. MaxLevel - 2 /\ l + 1 \in 1 .. MaxLevel - 1
  BY TierAssumption
<1>2. limits[l] \in Nat /\ limits[l + 1] \in Nat /\ u \in Nat
  BY <1>1, LimitsTyped, TierAssumption
<1>3. limits[l] + u <= limits[l + 1]
  BY <1>1 DEF TiersApart, Data
<1> QED
  BY <1>2, <1>3

LEMMA ForgottenStep ==
  ASSUME Data, LevelsForgotten, [Next]_vars
  PROVE  LevelsForgotten'
<1> USE SessionFacts DEF Data, LevelsForgotten, Active, session, End, Goto
<1>1. ASSUME NEW w \in Workers, Serve(w) PROVE LevelsForgotten'
  BY <1>1 DEF Serve, Receive, PassOver, DieOnMissing, Count, ReadTier, Price, Upgrade,
     Drop, Store, Fail, Finish, Die
<1>2. CASE Reset
  BY <1>2 DEF Reset, StartJob, ResetDay, ResetTier, ResetMonth, JobDies, Die
<1>3. CASE Edit
  BY <1>3 DEF Edit, OpenPage, ClearTerritory, AddTerritory, SavePage, Die
<1>4. CASE AddRatePlan \/ CalendarTurns \/ UNCHANGED vars
  BY <1>4 DEF AddRatePlan, CalendarTurns, vars
<1> QED
  BY <1>1, <1>2, <1>3, <1>4 DEF Next

(* Where nothing is condemned a request at work is the only one, has the   *)
(* row's energy and knows the tier if it has read it.                      *)
LEMMA Alone ==
  ASSUME Data, Exact, TierSettled, ~Condemned, NEW w \in Workers, Active(w)
  PROVE  /\ mem[w].monthly = row.monthly /\ (Regular => level[w] \in {0, tier})
         /\ \A v \in Workers \ {w} : ~Active(v)
  BY SessionFacts DEF Condemned, Exact, EnergyKnown, TierSettled, TierKnown

(* Limits that change without a reset are known to have moved.             *)
LEMMA StaysMoved ==
  ASSUME Flags, [Next]_vars
  PROVE  ResetMonth \/ (~moved' => ~moved /\ limits' = limits)
<1> USE DEF Flags, Reform, database, history, reform
<1>1. ASSUME NEW w \in Workers, Serve(w) PROVE ~moved' => ~moved /\ limits' = limits
  BY <1>1 DEF Serve, Receive, PassOver, DieOnMissing, Count, ReadTier, Price, Upgrade,
     Drop, Store, Fail, Finish
<1>2. CASE Reset
  BY <1>2 DEF Reset, StartJob, ResetDay, ResetTier, JobDies
<1>3. CASE Edit
  BY <1>3 DEF Edit, OpenPage, ClearTerritory, AddTerritory, SavePage
<1>4. CASE AddRatePlan \/ CalendarTurns \/ UNCHANGED vars
  BY <1>4 DEF AddRatePlan, CalendarTurns, vars
<1> QED
  BY <1>1, <1>2, <1>3, <1>4 DEF Next

(* A job that leaves the month's counter as it is has died.                *)
LEMMA StaysIrregular ==
  ASSUME Data, Flags, [Next]_vars
  PROVE  ResetMonth \/ (Regular' => Regular)
<1> USE SessionFacts DEF Data, Flags, Regular, history, reform, session
<1>1. ASSUME NEW w \in Workers, Serve(w) PROVE Regular' => Regular
  <2>1. halfReset' = halfReset
    BY <1>1 DEF Serve, Receive, PassOver, DieOnMissing, Count, ReadTier, Price, Upgrade,
       Drop, Store, Fail, Finish
  <2>2. pc'[Cron] = pc[Cron]
    BY <1>1 DEF Serve, Receive, PassOver, DieOnMissing, Count, ReadTier, Price, Upgrade,
       Drop, Store, Fail, Finish, Die, End, Goto
  <2> QED
    BY <2>1, <2>2
<1>2. CASE Reset
  <2>1. CASE JobDies
    BY <2>1 DEF JobDies
  <2>2. CASE StartJob
    BY <2>2 DEF StartJob
  <2>3. CASE ResetDay
    BY <2>3 DEF ResetDay
  <2>4. CASE ResetTier
    BY <2>4 DEF ResetTier
  <2> QED
    BY <1>2, <2>1, <2>2, <2>3, <2>4 DEF Reset
<1>3. CASE Edit
  <2>1. halfReset' = halfReset
    BY <1>3 DEF Edit, OpenPage, ClearTerritory, AddTerritory, SavePage
  <2>2. pc'[Cron] = pc[Cron]
    BY <1>3, TierAssumption
    DEF Edit, OpenPage, ClearTerritory, AddTerritory, SavePage, Die, End, Goto
  <2> QED
    BY <2>1, <2>2
<1>4. CASE AddRatePlan \/ CalendarTurns \/ UNCHANGED vars
  BY <1>4 DEF AddRatePlan, CalendarTurns, vars
<1> QED
  BY <1>1, <1>2, <1>3, <1>4 DEF Next

LEMMA NextTierKnown ==
  ASSUME TiersApart, Data, Flags, PointPriced, Exact, TierSettled, [Next]_vars
  PROVE  TierKnown'
<1> DEFINE Known == /\ (\A w \in Workers : pc'[w] # "price") => Fits(row.monthly)'
                    /\ \A w \in Workers : pc'[w] = "price" =>
                         Fits(row.monthly - Head(points[w]))'
                    /\ Regular' => \A w \in Workers : Active(w)' => level'[w] \in {0, tier'}
<1> SUFFICES ASSUME ~Condemned' PROVE Known
  BY DEF TierKnown
<1>0. /\ ~Condemned /\ Data'
      /\ (\A w \in Workers : pc[w] # "price") => Fits(row.monthly)
      /\ \A w \in Workers : pc[w] = "price" => Fits(row.monthly - Head(points[w]))
      /\ Regular => \A w \in Workers : Active(w) => level[w] \in {0, tier}
      /\ \A w \in Workers : ~Active(w) => level[w] = 0
  BY StaysCondemned, DataKept DEF TierSettled, TierKnown, LevelsForgotten
<1>00. /\ ResetMonth \/ (~moved' => ~moved /\ limits' = limits)
       /\ ResetMonth \/ (Regular' => Regular)
  BY StaysMoved, StaysIrregular
(* Nothing about the tier happens. *)
<1>1. ASSUME ~ResetMonth, row'.monthly = row.monthly, tier' = tier,
             \A w \in Workers : /\ pc'[w] = "price" <=> pc[w] = "price"
                                /\ pc[w] = "price" => points'[w] = points[w]
                                /\ level'[w] \in {0, level[w]}
      PROVE  Known
  <2>1. Fits(row.monthly) => Fits(row.monthly)'
    BY <1>00, <1>1 DEF Fits
  <2>2. \A w \in Workers : pc[w] = "price" =>
          (Fits(row.monthly - Head(points[w])) => Fits(row.monthly - Head(points[w]))')
    BY <1>00, <1>1 DEF Fits
  <2>3. Regular' => \A w \in Workers : Active(w)' => level'[w] \in {0, tier'}
    BY <1>0, <1>00, <1>1
  <2> QED
    BY <1>0, <1>1, <2>1, <2>2, <2>3
(* The job or the page saves what it has read, or a request what it knows. *)
<1>2. ASSUME NEW s \in Sessions, Active(s), pc[s] # "price", ~ResetMonth, NEW counters,
             Save(s, counters), counters.monthly = mem[s].monthly, End(s), UNCHANGED tier
      PROVE  Known
  <2>1. s \notin stale
    BY <1>2 DEF Save, Condemned
  <2>2. row'.monthly = row.monthly
    BY <1>2, <2>1 DEF Save, Exact, EnergyKnown
  <2>3. /\ \A t \in Sessions \ {s} : pc'[t] = pc[t] /\ points'[t] = points[t] /\ level'[t] = level[t]
        /\ pc'[s] = "idle" /\ level'[s] = 0
    BY <1>2 DEF End, Goto, Data
  <2> QED
    BY <1>1, <1>2, <2>2, <2>3, SessionFacts
<1>3. ASSUME NEW w \in Workers, Count(w) PROVE Known
  <2>1. /\ pc[w] = "count" /\ tier' = tier /\ points' = points /\ level' = level
        /\ pc' = [pc EXCEPT ![w] = "price"]
    BY <1>3 DEF Count, Goto
  <2>2. Active(w) /\ limits' = limits /\ moved' = moved
    BY <1>3, <2>1 DEF Active, Count, reform
  <2>3. /\ mem[w].monthly = row.monthly /\ (Regular => level[w] \in {0, tier})
        /\ \A v \in Workers \ {w} : ~Active(v)
    BY <1>0, <2>2, Alone
  <2>4. Fits(row.monthly)
    BY <1>0, <2>1, <2>3 DEF Active
  <2>5. row'.monthly = row.monthly + Head(points[w]) /\ Head(points[w]) \in Nat
    BY <1>3, <2>3, CountMonth
  <2>6. row'.monthly - Head(points'[w]) = row.monthly
    BY <2>1, <2>5, Types
  <2>7. /\ pc'[w] = "price" /\ pc'[Cron] = pc[Cron] /\ halfReset' = halfReset
        /\ \A v \in Workers \ {w} : pc'[v] = "idle"
    BY <1>3, <2>1, <2>3, SessionFacts DEF Active, Data, Count, reform
  <2>8. Fits(row.monthly - Head(points[w]))'
    BY <2>1, <2>2, <2>4, <2>6, <2>7 DEF Fits, Regular
  <2>9. Regular' => Regular
    BY <2>7 DEF Regular
  <2> QED
    BY <2>1, <2>3, <2>7, <2>8, <2>9 DEF Active
<1>4. ASSUME NEW w \in Workers, ReadTier(w) PROVE Known
  <2>1. /\ row' = row /\ tier' = tier /\ pc' = pc /\ points' = points
        /\ limits' = limits /\ moved' = moved /\ halfReset' = halfReset
        /\ level' = [level EXCEPT ![w] = tier]
    BY <1>4 DEF ReadTier, database, history, reform
  <2>2. Fits(row.monthly) => Fits(row.monthly)'
    BY <2>1 DEF Fits, Regular
  <2>3. \A v \in Workers :
          Fits(row.monthly - Head(points[v])) => Fits(row.monthly - Head(points[v]))'
    BY <2>1 DEF Fits, Regular
  <2>4. Regular' => \A v \in Workers : Active(v)' => level'[v] \in {0, tier'}
    BY <1>0, <2>1, SessionFacts DEF Active, Data, Regular
  <2> QED
    BY <1>0, <2>1, <2>2, <2>3, <2>4
(* A point is priced: the only request that was doing so is past it. *)
<1>5. ASSUME NEW w \in Workers, Price(w) \/ Upgrade(w) PROVE Known
  <2>1. /\ pc[w] = "price" /\ level[w] # 0 /\ row' = row /\ pc' = [pc EXCEPT ![w] = "count"]
        /\ limits' = limits /\ moved' = moved /\ halfReset' = halfReset
    BY <1>5 DEF Price, Upgrade, database, reform, Goto
  <2>2. Active(w)
    BY <2>1 DEF Active
  <2>3. /\ mem[w].monthly = row.monthly /\ (Regular => level[w] = tier)
        /\ \A v \in Workers \ {w} : ~Active(v)
    BY <1>0, <2>1, <2>2, Alone
  <2>4. /\ pc'[w] = "count" /\ pc'[Cron] = pc[Cron]
        /\ \A v \in Workers \ {w} : pc'[v] = "idle"
    BY <2>1, <2>3, SessionFacts DEF Active, Data
  <2>5. PICK u \in Usages : u = Head(points[w])
    BY <2>1 DEF PointPriced
  <2>l. level[w] \in 1 .. MaxLevel
    <3>1. level[w] \in 0 .. MaxLevel
      BY SessionFacts DEF Data
    <3> QED
      BY <2>1, <3>1, TierAssumption
  <2>6. /\ u \in Nat /\ row.monthly \in Nat /\ tier \in 1 .. MaxLevel /\ MaxLevel \in Nat
        /\ level[w] \in 1 .. MaxLevel
    BY <2>l, TierAssumption, Types DEF Data, Levels
  <2>r. Regular' <=> Regular
    BY <2>1, <2>4 DEF Regular
  <2>7. ~moved => /\ tier > 1 => row.monthly - u > limits[tier - 1]
                  /\ Regular /\ tier < MaxLevel => row.monthly - u <= limits[tier]
    BY <1>0, <2>1, <2>5 DEF Fits
  <2>8. CASE Price(w)
    <3>1. tier' = tier /\ level' = level /\ ~Exceeds(w)
      BY <2>8 DEF Price, database
    <3>2. Regular /\ tier < MaxLevel => row.monthly <= limits[tier]
      <4>1. tier < MaxLevel => limits[tier] \in Nat
        BY <2>6, LimitsTyped
      <4> QED
        BY <2>3, <2>6, <3>1, <4>1 DEF Exceeds
    <3>3. ~moved => (tier > 1 => row.monthly > limits[tier - 1])
      <4>1. tier > 1 => limits[tier - 1] \in Nat
        BY <2>6, LimitsTyped
      <4> QED
        BY <2>6, <2>7, <4>1
    <3>4. Fits(row.monthly)'
      BY <2>1, <2>r, <3>1, <3>2, <3>3 DEF Fits
    <3> QED
      BY <2>3, <2>4, <2>r, <3>1, <3>4 DEF Active
  <2>9. CASE Upgrade(w)
    <3>1. tier' = level[w] + 1 /\ level' = [level EXCEPT ![w] = @ + 1]
          /\ level[w] < MaxLevel /\ row.monthly > limits[level[w]]
      BY <2>3, <2>9 DEF Upgrade, SaveTier, Exceeds
    <3>2. level'[w] = tier'
      BY <3>1, SessionFacts DEF Data
    <3>3. level[w] \in 1 .. MaxLevel - 1 /\ tier' - 1 = level[w]
      BY <2>6, <3>1
    <3>4. ~moved /\ Regular /\ tier' < MaxLevel => row.monthly <= limits[tier']
      BY <2>3, <2>6, <2>7, <3>1, <3>3, NextFits
    <3>5. Fits(row.monthly)'
      BY <2>1, <2>r, <3>1, <3>3, <3>4 DEF Fits
    <3> QED
      BY <2>3, <2>4, <3>2, <3>5 DEF Active
  <2> QED
    BY <1>5, <2>8, <2>9
<1>6. ASSUME NEW w \in Workers, Serve(w) PROVE Known
  <2>0. ResetMonth => pc'[Cron] = "idle" /\ pc[Cron] = "month"
    BY SessionFacts, EndFields DEF ResetMonth
  <2>1. CASE Receive(w) \/ PassOver(w) \/ Store(w)
    <3>1. pc'[Cron] = pc[Cron]
      BY <2>1, SessionFacts DEF Receive, PassOver, Store, Goto, Data
    <3>2. ~ResetMonth
      BY <2>0, <3>1
    <3> QED
      BY <1>1, <2>1, <3>2, SessionFacts
      DEF Receive, PassOver, Store, NextPoint, Goto, Data, database
  <2>2. CASE DieOnMissing(w) \/ Fail(w) \/ Drop(w)
    BY <2>2 DEF DieOnMissing, Fail, Drop, Condemned
  <2>3. CASE Finish(w)
    <3>1. /\ Save(w, mem[w]) /\ End(w) /\ Active(w) /\ pc[w] = "finish" /\ UNCHANGED tier
      BY <2>3 DEF Finish, Active
    <3>2. pc'[Cron] = pc[Cron]
      BY <3>1, EndFields, SessionFacts
    <3>3. ~ResetMonth
      BY <2>0, <3>2
    <3> QED
      BY <1>2, <3>1, <3>3, SessionFacts
  <2> QED
    BY <1>3, <1>4, <1>5, <1>6, <2>1, <2>2, <2>3 DEF Serve
<1>7. CASE Reset
  <2>1. CASE StartJob
    <3>1. ~ResetMonth
      BY <2>1 DEF StartJob, ResetMonth
    <3> QED
      BY <1>1, <2>1, <3>1, SessionFacts DEF StartJob, Goto, Data, database
  <2>2. CASE ResetDay
    <3> DEFINE counters == [mem[Cron] EXCEPT !.daily = 0, !.cost = 0]
    <3>1. counters.monthly = mem[Cron].monthly
      BY SessionFacts DEF Data, Counters
    <3>2. Save(Cron, counters) /\ End(Cron) /\ pc[Cron] = "daily" /\ UNCHANGED tier
      BY <2>2 DEF ResetDay
    <3>3. Active(Cron) /\ ~ResetMonth
      BY <3>2 DEF Active, ResetMonth
    <3> HIDE DEF counters
    <3> QED
      BY <1>2, <3>1, <3>2, <3>3, SessionFacts
  <2>3. CASE ResetTier
    <3>1. /\ pc'[Cron] = "month" /\ tier' = 1 /\ row' = row /\ points' = points
          /\ \A w \in Workers : pc'[w] = pc[w]
      BY <2>3, SessionFacts DEF ResetTier, SaveTier, Goto, Data
    <3>2. ~Regular' /\ ~(tier' > 1)
      BY <3>1 DEF Regular
    <3>3. Fits(row.monthly)' /\ \A w \in Workers : Fits(row.monthly - Head(points[w]))'
      BY <3>2 DEF Fits
    <3> QED
      BY <3>2, <3>3
  <2>4. CASE ResetMonth
    <3>0. \A w \in Workers : Active(w)' <=> Active(w)
      BY <2>4, EndFields, SessionFacts DEF ResetMonth, Active
    <3>1. \A w \in Workers : ~Active(w)
      <4>1. \A w \in Workers : Active(w) => w \in stale'
        BY <2>4, OthersStale, SessionFacts DEF ResetMonth
      <4> QED
        BY <3>0, <4>1 DEF Condemned
    <3>2. Cron \notin stale
      BY <2>4 DEF ResetMonth, Save, Condemned
    <3>3. tier' = tier /\ tier = 1
      BY <1>0, <2>4, <3>1, <3>2 DEF ResetMonth, TierSettled, MonthKnown
    <3>4. row'.monthly = 0
      BY <2>4, SessionFacts DEF ResetMonth, Save, Data, Counters
    <3>5. Fits(row.monthly)'
      <4>1. 1 < MaxLevel => limits'[1] \in Nat
        BY <1>0, TierAssumption DEF Data
      <4> QED
        BY <3>3, <3>4, <4>1 DEF Fits
    <3> QED
      BY <3>0, <3>1, <3>5 DEF Active
  <2>5. CASE JobDies
    <3>1. End(Cron) /\ UNCHANGED <<row, tier>>
      BY <2>5 DEF JobDies, Die, database
    <3>2. CASE ~ResetMonth
      BY <1>1, <3>1, <3>2, SessionFacts DEF End, Goto, Data
    <3>3. CASE ResetMonth
      BY <2>4, <3>3
    <3> QED
      BY <3>2, <3>3
  <2> QED
    BY <1>7, <2>1, <2>2, <2>3, <2>4, <2>5 DEF Reset
<1>8. CASE Edit
  <2>0. ~ResetMonth
    BY <1>8, SessionFacts, TierAssumption DEF Edit, OpenPage, ClearTerritory, AddTerritory, SavePage,
       ResetMonth, Die, End, Goto, Data
  <2>1. CASE OpenPage \/ ClearTerritory
    BY <1>1, <2>0, <2>1, SessionFacts DEF OpenPage, ClearTerritory, Goto, Data, database
  <2>2. CASE AddTerritory
    <3>1. CASE Die(Page)
      BY <1>1, <2>0, <2>2, <3>1, SessionFacts DEF AddTerritory, Die, End, Goto, Data
    <3>2. CASE Goto(Page, "save") /\ UNCHANGED <<points, level>>
      BY <1>1, <2>0, <2>2, <3>2, SessionFacts DEF AddTerritory, Goto, Data
    <3> QED
      BY <2>2, <3>1, <3>2 DEF AddTerritory
  <2>3. CASE SavePage
    <3>1. /\ Save(Page, mem[Page]) /\ End(Page) /\ pc[Page] = "save" /\ UNCHANGED tier
      BY <2>3 DEF SavePage
    <3>2. Active(Page)
      BY <3>1 DEF Active
    <3> QED
      BY <1>2, <2>0, <3>1, <3>2, SessionFacts
  <2> QED
    BY <1>8, <2>1, <2>2, <2>3 DEF Edit
<1>9. CASE AddRatePlan \/ CalendarTurns \/ UNCHANGED vars
  <2>1. CASE ~ResetMonth
    BY <1>1, <1>9, <2>1 DEF AddRatePlan, CalendarTurns, vars, database, session
  <2>2. CASE ResetMonth
    BY <1>7, <2>2 DEF Reset
  <2> QED
    BY <2>1, <2>2
<1> QED
  BY <1>6, <1>7, <1>8, <1>9 DEF Next

(* A device at rest is in the tier its energy of the month calls for, when *)
(* no session clashed, no request died, every point could be priced and    *)
(* the limits have not changed since the last monthly reset; and not in    *)
(* too high a one even after a job that died between its two saves         *)
(* (reset_kilowatt_accumulations.py:28-29): so long as no point carries a  *)
(* device over a whole tier, for the code moves it by one tier at a point  *)
(* (models.py:290-292).                                                    *)
THEOREM TiersFollowEnergy ==
  ASSUME TiersApart
  PROVE  Spec => []TierFits
<1>1. Init => TierSettled
  <2> SUFFICES ASSUME Init PROVE TierSettled
    OBVIOUS
  <2>1. /\ tier = 1 /\ row.monthly = 0 /\ limits \in Limits
        /\ \A s \in Sessions : pc[s] = "idle" /\ level[s] = 0
    BY DEF Init, Zero
  <2>2. 1 < MaxLevel => limits[1] \in Nat
    BY <2>1, TierAssumption
  <2>3. Fits(row.monthly)
    BY <2>1, <2>2 DEF Fits
  <2> QED
    BY <2>1, <2>3, SessionFacts DEF TierSettled, LevelsForgotten, MonthKnown, TierKnown, Active
<1>2. TierInv /\ TierSettled /\ [Next]_vars => TierSettled'
  BY NextTierKnown, NextMonthKnown, ForgottenStep DEF TierSettled, TierInv, Exact
<1>3. TierSettled => TierFits
  <2> SUFFICES ASSUME TierSettled, AtRest, ~clash, ~failed, ~skipped, ~moved
               PROVE  /\ tier > 1 => row.monthly > limits[tier - 1]
                      /\ tier < MaxLevel /\ ~halfReset => row.monthly <= limits[tier]
    BY DEF TierFits
  <2>1. pc[Cron] = "idle" /\ \A w \in Workers : pc[w] = "idle"
    BY SessionFacts DEF AtRest
  <2>2. ~Condemned
    BY <2>1 DEF Condemned, Active
  <2>3. Fits(row.monthly)
    BY <2>1, <2>2 DEF TierSettled, TierKnown
  <2> QED
    BY <2>1, <2>3 DEF Fits, Regular
<1> QED
  BY <1>1, <1>2, <1>3, TierInvHolds, PTL DEF Spec
=============================================================================
