-------------------------- MODULE BackgroundProofs --------------------------
(***************************************************************************)
(* Theorems about the BFF's background work.  AlertEvaluator, for any      *)
(* alerts, cool-downs, days, passes and faults: notifications keep the     *)
(* cool-down and are in the history, and one pass runs at a time.  PdfJobs,*)
(* for any jobs and bounds: the row, the queue and the bucket never        *)
(* contradict one another.                                                 *)
(***************************************************************************)
EXTENDS AlertEvaluator, PdfJobs, WellFoundedInduction, FiniteSetTheorems, TLAPS

USE AlertAssumption

-----------------------------------------------------------------------------
(* The shortest cool-down, and the last flagged day.                       *)

LEMMA ShortestCooldown ==
    Min(Cooldowns) \in Nat /\ \A c \in Cooldowns : Min(Cooldowns) <= c
<1> DEFINE R == OpToRel(<, Nat)
<1>1. IsWellFoundedOn(R, Nat)
  BY NatLessThanWellFounded
<1>2. PICK m \in Cooldowns : \A c \in Cooldowns : ~(<<c, m>> \in R)
  <2> HIDE DEF R
  <2> QED BY <1>1, WFMin
<1>3. ASSUME NEW c \in Cooldowns PROVE m <= c
  <2>1. ~(c < m)
    BY <1>2 DEF OpToRel
  <2> QED BY <2>1
<1> QED BY <1>3 DEF Min

LEMMA LastFlaggedIs ==
    ASSUME NEW a \in Alerts, flagged[a] \in SUBSET Days, flagged[a] # {}
    PROVE  LastFlagged(a) \in Days
<1> DEFINE S == flagged[a]
           T == {MaxDays - x : x \in S}
           R == OpToRel(<, Nat)
<1>1. T \subseteq Nat /\ T # {}
  <2>1. \A x \in S : MaxDays - x \in Nat
    BY DEF Days
  <2> QED BY <2>1
<1>2. IsWellFoundedOn(R, Nat)
  BY NatLessThanWellFounded
<1>3. PICK m \in T : \A y \in T : ~(<<y, m>> \in R)
  <2> HIDE DEF T, R
  <2> QED BY <1>1, <1>2, WFMin
<1>4. PICK d \in S : m = MaxDays - d
  OBVIOUS
<1>5. ASSUME NEW x \in S PROVE d >= x
  <2>1. MaxDays - x \in T /\ MaxDays - x \in Nat /\ m \in Nat
    BY <1>1
  <2>2. ~(MaxDays - x < m)
    BY <2>1, <1>3 DEF OpToRel
  <2> QED BY <2>1, <2>2, <1>4 DEF Days
<1> QED BY <1>5 DEF LastFlagged, Max

-----------------------------------------------------------------------------
(* The invariant, without the count of the active passes.                  *)

Core ==
    /\ TypeOK /\ NotificationsSpaced /\ NotifiedIsInHistory
    /\ ActivePass /\ RowsInOrder /\ AlertInHand /\ SnapshotHolds
    /\ NotifiedIsStamped /\ FireIsDue

LEMMA Derived == Core => RunningIsOnePass
<1> SUFFICES ASSUME Core PROVE RunningIsOnePass
  OBVIOUS
<1> DEFINE active == {p \in Passes : pc[p] # "idle"}
<1>1. CASE running
  <2>1. PICK p \in Passes : active = {p}
    BY <1>1 DEF Core, ActivePass
  <2> QED BY <2>1, <1>1, FS_Singleton DEF RunningIsOnePass
<1>2. CASE ~running
  <2>1. active = {}
    BY <1>2 DEF Core, ActivePass
  <2> QED BY <2>1, <1>2, FS_EmptySet DEF RunningIsOnePass
<1> QED BY <1>1, <1>2

LEMMA Empties ==
    /\ NoRow \in [cooldown : Cooldowns \cup {0}, lastFired : Times \cup {Never}]
    /\ NoHit \in [at : Times \cup {Never}, ds : Days \cup {0}]
    /\ [a \in Alerts |-> NoRow] \in
         [Alerts -> [cooldown : Cooldowns \cup {0}, lastFired : Times \cup {Never}]]
    /\ Never = -1 /\ 0 \in Times /\ Times \subseteq Nat /\ Days \subseteq Nat
BY DEF NoRow, NoHit, Times, Days, Never

LEMMA Numbers == /\ Never \in Int /\ Never = -1
                 /\ \A t \in Times : t \in Int /\ t >= 0
BY DEF Times, Never

LEMMA CoreInit == Init => Core
<1> SUFFICES ASSUME Init PROVE Core
  OBVIOUS
<1>1. TypeOK
  <2>1. snap \in [Passes -> [Alerts -> [cooldown : Cooldowns \cup {0},
                                       lastFired : Times \cup {Never}]]]
    BY Empties DEF Init
  <2>2. clock \in Times /\ today \in 0 .. MaxDays /\ faults \in 0 .. MaxFaults
        /\ edits \in 0 .. MaxEdits
    BY Empties DEF Init
  <2>3. hit \in [Passes -> [at : Times \cup {Never}, ds : Days \cup {0}]]
    BY Empties DEF Init
  <2> QED BY <2>1, <2>2, <2>3, Empties DEF Init, TypeOK
<1>2. ActivePass /\ RowsInOrder
  BY DEF Init, ActivePass, RowsInOrder
<1>3. AlertInHand /\ SnapshotHolds /\ FireIsDue
  BY DEF Init, AlertInHand, SnapshotHolds, Unstamped, FireIsDue, Due
<1>4. NotificationsSpaced /\ NotifiedIsInHistory /\ NotifiedIsStamped
  BY DEF Init, NotificationsSpaced, NotifiedIsInHistory, NotifiedIsStamped
<1> QED BY <1>1, <1>2, <1>3, <1>4 DEF Core

\* Time and the users: a row that is being judged exists, and nobody but a pass
\* stamps it.
LEMMA WorldCore ==
    ASSUME Core,
           \/ Tick \/ DayEnds
           \/ \E a \in Alerts : Delete(a) \/ \E c \in Cooldowns, on \in BOOLEAN :
                Create(a, c, on) \/ Update(a, c, on)
    PROVE  Core'
<1> USE DEF Core, TypeOK, NotificationsSpaced, NotifiedIsInHistory, ActivePass,
        RowsInOrder, AlertInHand, SnapshotHolds, Unstamped, NotifiedIsStamped, FireIsDue, Due,
        world, table, pass, Times, Days, Never
<1>1. CASE Tick
  BY <1>1 DEF Tick
<1>2. CASE DayEnds
  BY <1>2 DEF DayEnds
<1>3. ASSUME NEW a \in Alerts, Delete(a) PROVE Core'
  BY <1>3 DEF Delete, Edit
<1>4. ASSUME NEW a \in Alerts, NEW c \in Cooldowns, NEW on \in BOOLEAN, Create(a, c, on)
      PROVE  Core'
  BY <1>4 DEF Create, Edit
<1>5. ASSUME NEW a \in Alerts, NEW c \in Cooldowns, NEW on \in BOOLEAN, Update(a, c, on)
      PROVE  Core'
  BY <1>5 DEF Update, Edit
<1> QED BY ONLY <1>1, <1>2, <1>3, <1>4, <1>5,
           \/ Tick \/ DayEnds
           \/ \E a \in Alerts : Delete(a) \/ \E c \in Cooldowns, on \in BOOLEAN :
                Create(a, c, on) \/ Update(a, c, on)

\* A pass begins alone, reads the rows as they are, and ends with nothing left.
LEMMA PassCore ==
    ASSUME Core, NEW p \in Passes,
           StartPass(p) \/ List(p) \/ TakeAlert(p) \/ Finish(p) \/ ListRaises(p)
    PROVE  Core'
<1> USE DEF world, table, pass
<1>1. CASE StartPass(p)
  <2>1. TypeOK'
    BY <1>1, Empties DEF StartPass, Busy, Core, TypeOK, AlertInHand, FireIsDue, Due
  <2>2. ActivePass' /\ RowsInOrder'
    BY <1>1, Empties DEF StartPass, Busy, Core, TypeOK, ActivePass, RowsInOrder, AlertInHand
  <2>3. AlertInHand'
    BY <1>1, Empties DEF StartPass, Busy, Core, TypeOK, RowsInOrder, AlertInHand
  <2>4. SnapshotHolds'
    BY <1>1, Empties DEF StartPass, Busy, Core, TypeOK, ActivePass, RowsInOrder, AlertInHand, SnapshotHolds, Unstamped
  <2>5. FireIsDue'
    BY <1>1, Empties DEF StartPass, Busy, Core, TypeOK, ActivePass, RowsInOrder, AlertInHand, SnapshotHolds, Unstamped, FireIsDue, Due
  <2>6. NotificationsSpaced' /\ NotifiedIsInHistory' /\ NotifiedIsStamped'
    BY <1>1, Empties DEF StartPass, Busy, Core, TypeOK, NotificationsSpaced, NotifiedIsInHistory, NotifiedIsStamped, AlertInHand, FireIsDue, Due
  <2> QED BY <2>1, <2>2, <2>3, <2>4, <2>5, <2>6 DEF Core
<1>2. CASE List(p)
  <2>1. TypeOK'
    BY <1>2, Empties DEF List, Row, Core, TypeOK, AlertInHand, FireIsDue, Due
  <2>2. ActivePass' /\ RowsInOrder'
    BY <1>2, Empties DEF List, Row, Core, TypeOK, ActivePass, RowsInOrder, AlertInHand
  <2>3. AlertInHand'
    BY <1>2, Empties DEF List, Row, Core, TypeOK, RowsInOrder, AlertInHand
  <2>4. SnapshotHolds'
    BY <1>2, Empties DEF List, Row, Core, TypeOK, ActivePass, RowsInOrder, AlertInHand, SnapshotHolds, Unstamped
  <2>5. FireIsDue'
    BY <1>2, Empties DEF List, Row, Core, TypeOK, ActivePass, RowsInOrder, AlertInHand, SnapshotHolds, Unstamped, FireIsDue, Due
  <2>6. NotificationsSpaced' /\ NotifiedIsInHistory' /\ NotifiedIsStamped'
    BY <1>2, Empties DEF List, Row, Core, TypeOK, NotificationsSpaced, NotifiedIsInHistory, NotifiedIsStamped, AlertInHand, FireIsDue, Due
  <2> QED BY <2>1, <2>2, <2>3, <2>4, <2>5, <2>6 DEF Core
<1>3. CASE TakeAlert(p)
  <2>1. TypeOK'
    BY <1>3, Empties DEF TakeAlert, Core, TypeOK, AlertInHand, FireIsDue, Due
  <2>2. ActivePass' /\ RowsInOrder'
    BY <1>3, Empties DEF TakeAlert, Core, TypeOK, ActivePass, RowsInOrder, AlertInHand
  <2>3. AlertInHand'
    BY <1>3, Empties DEF TakeAlert, Core, TypeOK, RowsInOrder, AlertInHand, SnapshotHolds, Unstamped
  <2>4. SnapshotHolds'
    BY <1>3, Empties DEF TakeAlert, Core, TypeOK, ActivePass, RowsInOrder, AlertInHand, SnapshotHolds, Unstamped
  <2>5. FireIsDue'
    BY <1>3, Empties DEF TakeAlert, Core, TypeOK, ActivePass, RowsInOrder, AlertInHand, SnapshotHolds, Unstamped, FireIsDue, Due
  <2>6. NotificationsSpaced' /\ NotifiedIsInHistory' /\ NotifiedIsStamped'
    BY <1>3, Empties DEF TakeAlert, Core, TypeOK, NotificationsSpaced, NotifiedIsInHistory, NotifiedIsStamped, AlertInHand, FireIsDue, Due
  <2> QED BY <2>1, <2>2, <2>3, <2>4, <2>5, <2>6 DEF Core
<1>4. CASE Finish(p)
  <2>1. TypeOK'
    BY <1>4, Empties DEF Finish, EndPass, RunningAfter, Core, TypeOK, AlertInHand, FireIsDue, Due
  <2>2. ActivePass' /\ RowsInOrder'
    BY <1>4, Empties DEF Finish, EndPass, RunningAfter, Core, TypeOK, ActivePass, RowsInOrder, AlertInHand
  <2>3. AlertInHand'
    BY <1>4, Empties DEF Finish, EndPass, RunningAfter, Core, TypeOK, RowsInOrder, AlertInHand
  <2>4. SnapshotHolds'
    BY <1>4, Empties DEF Finish, EndPass, RunningAfter, Core, TypeOK, ActivePass, RowsInOrder, AlertInHand, SnapshotHolds, Unstamped
  <2>5. FireIsDue'
    BY <1>4, Empties DEF Finish, EndPass, RunningAfter, Core, TypeOK, ActivePass, RowsInOrder, AlertInHand, SnapshotHolds, Unstamped, FireIsDue, Due
  <2>6. NotificationsSpaced' /\ NotifiedIsInHistory' /\ NotifiedIsStamped'
    BY <1>4, Empties DEF Finish, EndPass, RunningAfter, Core, TypeOK, NotificationsSpaced, NotifiedIsInHistory, NotifiedIsStamped, AlertInHand, FireIsDue, Due
  <2> QED BY <2>1, <2>2, <2>3, <2>4, <2>5, <2>6 DEF Core
<1>5. CASE ListRaises(p)
  <2>1. TypeOK'
    <3>1. snap' \in [Passes -> [Alerts -> [cooldown : Cooldowns \cup {0},
                                          lastFired : Times \cup {Never}]]]
      BY <1>5, Empties DEF ListRaises, EndPass, Core, TypeOK
    <3>2. faults' \in 0 .. MaxFaults
      BY <1>5 DEF ListRaises, Core, TypeOK
    <3>3. hit' \in [Passes -> [at : Times \cup {Never}, ds : Days \cup {0}]]
      BY <1>5, Empties DEF ListRaises, EndPass, Core, TypeOK
    <3> QED BY <1>5, <3>1, <3>2, <3>3 DEF ListRaises, EndPass, RunningAfter, Core, TypeOK
  <2>2. ActivePass' /\ RowsInOrder'
    BY <1>5, Empties DEF ListRaises, EndPass, RunningAfter, Core, TypeOK, ActivePass, RowsInOrder, AlertInHand
  <2>3. AlertInHand'
    BY <1>5, Empties DEF ListRaises, EndPass, RunningAfter, Core, TypeOK, RowsInOrder, AlertInHand
  <2>4. SnapshotHolds'
    BY <1>5, Empties DEF ListRaises, EndPass, RunningAfter, Core, TypeOK, ActivePass, RowsInOrder, AlertInHand, SnapshotHolds, Unstamped
  <2>5. FireIsDue'
    BY <1>5, Empties DEF ListRaises, EndPass, RunningAfter, Core, TypeOK, ActivePass, RowsInOrder, AlertInHand, SnapshotHolds, Unstamped, FireIsDue, Due
  <2>6. NotificationsSpaced' /\ NotifiedIsInHistory' /\ NotifiedIsStamped'
    BY <1>5, Empties DEF ListRaises, EndPass, RunningAfter, Core, TypeOK, NotificationsSpaced, NotifiedIsInHistory, NotifiedIsStamped, AlertInHand, FireIsDue, Due
  <2> QED BY <2>1, <2>2, <2>3, <2>4, <2>5, <2>6 DEF Core
<1> QED BY <1>1, <1>2, <1>3, <1>4, <1>5

LEMMA CrashCore ==
    ASSUME Core, Crash PROVE Core'
<1> USE DEF world, table, pass
<1>1. TypeOK'
  <2>1. snap' \in [Passes -> [Alerts -> [cooldown : Cooldowns \cup {0},
                                        lastFired : Times \cup {Never}]]]
    BY Empties DEF Crash
  <2>2. faults' \in 0 .. MaxFaults
    BY DEF Crash, Core, TypeOK
  <2>3. hit' \in [Passes -> [at : Times \cup {Never}, ds : Days \cup {0}]]
    BY Empties DEF Crash
  <2> QED BY <2>1, <2>2, <2>3, Empties DEF Crash, Core, TypeOK
<1>2. ActivePass' /\ RowsInOrder'
  BY Empties DEF Crash, Core, TypeOK, ActivePass, RowsInOrder, AlertInHand
<1>3. AlertInHand'
  BY Empties DEF Crash, Core, TypeOK, RowsInOrder, AlertInHand
<1>4. SnapshotHolds'
  BY Empties DEF Crash, Core, TypeOK, ActivePass, RowsInOrder, AlertInHand, SnapshotHolds, Unstamped
<1>5. FireIsDue'
  BY Empties DEF Crash, Core, TypeOK, ActivePass, RowsInOrder, AlertInHand, SnapshotHolds, Unstamped, FireIsDue, Due
<1>6. NotificationsSpaced' /\ NotifiedIsInHistory' /\ NotifiedIsStamped'
  BY Empties DEF Crash, Core, TypeOK, NotificationsSpaced, NotifiedIsInHistory, NotifiedIsStamped, AlertInHand, FireIsDue, Due
<1> QED BY <1>1, <1>2, <1>3, <1>4, <1>5, <1>6 DEF Core

\* A pass whose call is under way is the only one; the others have nothing left.
LEMMA TheOthers ==
    ASSUME Core, NEW p \in Passes, pc[p] # "idle"
    PROVE  \A q \in Passes \ {p} : pc[q] = "idle" /\ todo[q] = {} /\ Unstamped(q) = {}
BY DEF Core, ActivePass, AlertInHand, Unstamped

LEMMA UnstampedAre ==
    ASSUME Core, NEW q \in Passes PROVE Unstamped(q) \subseteq Alerts
<1>1. todo[q] \subseteq Alerts
  BY DEF Core, TypeOK
<1>2. pc[q] \in {"anomaly", "record", "stamp"} => cur[q] \in Alerts
  BY DEF Core, AlertInHand
<1> QED BY <1>1, <1>2 DEF Unstamped

\* Once an alert in hand is stamped or left, only those of the list remain.
LEMMA OneLess ==
    ASSUME Core, NEW p \in Passes, NEW next, next \notin {"anomaly", "record", "stamp"},
           pc[p] \in {"anomaly", "record", "stamp", "notify", "publish"},
           pc' = [pc EXCEPT ![p] = next], todo' = todo,
           \A q \in Passes \ {p} : cur'[q] = cur[q],
           NEW q \in Passes
    PROVE  Unstamped(q)' \subseteq Unstamped(q) \ {cur[p]}
<1>1. CASE q = p
  <2>1. Unstamped(q)' = todo[p] /\ cur[p] \notin todo[p]
    BY <1>1 DEF Core, TypeOK, AlertInHand, Unstamped
  <2> QED BY <2>1, <1>1 DEF Unstamped
<1>2. CASE q # p
  <2>1. pc[q] = "idle" /\ todo[q] = {} /\ Unstamped(q) = {}
    BY Zenon, <1>2, TheOthers
  <2>2. pc'[q] = pc[q] /\ todo'[q] = todo[q]
    BY <1>2 DEF Core, TypeOK
  <2>3. Unstamped(q)' = {}
    BY ONLY <2>1, <2>2 DEF Unstamped
  <2> QED BY <2>3
<1> QED BY <1>1, <1>2

\* A fire is judged on the row of the start of the pass, which is the row that
\* is there: nobody was told after it was stamped.
LEMMA FireCore ==
    ASSUME Core, NEW p \in Passes, pc[p] = "anomaly",
           ~CoolingDown(snap[p][cur[p]]), NEW d \in Days,
           hit' = [hit EXCEPT ![p] = [at |-> clock, ds |-> d]],
           pc' = [pc EXCEPT ![p] = "record"],
           UNCHANGED <<cur, todo, snap, world, table, running, notified, faults, edits>>
    PROVE  Core'
<1> USE DEF world, table
<1> DEFINE a == cur[p]
<1>1. a \in Alerts /\ a \in Unstamped(p) /\ clock \in Times /\ clock \in Int
  BY Empties DEF Core, TypeOK, AlertInHand, Unstamped
<1>2. /\ snap[p][a].lastFired = lastFired[a] /\ lastFired[a] \in Int
      /\ snap[p][a].cooldown \in Cooldowns
  <2>1. snap[p][a].lastFired = lastFired[a] /\ snap[p][a].cooldown \in Cooldowns
    BY <1>1 DEF Core, SnapshotHolds
  <2>2. lastFired[a] \in Times \cup {Never}
    BY <1>1 DEF Core, TypeOK
  <2> QED BY <2>1, <2>2, Numbers
<1>3. lastFired[a] # Never => clock - lastFired[a] >= snap[p][a].cooldown
  <2> HIDE DEF a
  <2>1. snap[p][a].cooldown \in Nat
    BY <1>2
  <2> QED BY <1>1, <1>2, <2>1 DEF CoolingDown, a
<1>4. ASSUME NEW s \in notified[a] PROVE clock - s >= Min(Cooldowns)
  <2> DEFINE c == snap[p][a].cooldown
             m == Min(Cooldowns)
             l == lastFired[a]
  <2>1. s \in Int /\ s <= l /\ l # -1 /\ s >= 0
    BY <1>1, <1>2, Empties DEF Core, TypeOK, NotifiedIsStamped
  <2>2. c \in Nat /\ m \in Nat /\ m <= c
    BY <1>2, ShortestCooldown
  <2>3. clock - l >= c
    BY <1>3, <2>1 DEF Never
  <2> HIDE DEF c, m, l
  <2>4. clock - s >= m
    BY <1>1, <2>1, <2>2, <2>3, <1>2 DEF l
  <2> QED BY <2>4 DEF m
<1>5. TypeOK'
  BY <1>1, Empties DEF Core, TypeOK
<1>6. ActivePass' /\ RowsInOrder' /\ AlertInHand' /\ SnapshotHolds'
  BY DEF Core, TypeOK, ActivePass, RowsInOrder, AlertInHand, SnapshotHolds, Unstamped
<1>7. ASSUME NEW q \in Passes PROVE Due(q)'
  <2>1. CASE q = p
    <3>1. pc'[p] = "record" /\ hit'[p] = [at |-> clock, ds |-> d] /\ cur'[p] = a
      BY DEF Core, TypeOK
    <3> HIDE DEF a
    <3>2. /\ lastFired' = lastFired /\ notified' = notified /\ snap' = snap
          /\ hit'[p].at = clock /\ hit'[p].ds = d
      BY <3>1
    <3> QED BY ONLY <2>1, <1>1, <1>3, <1>4, <3>1, <3>2, d \in Days DEF Due
  <2>2. CASE q # p
    <3>1. pc[q] = "idle"
      BY <2>2, TheOthers
    <3>2. pc'[q] = pc[q]
      BY <2>2 DEF Core, TypeOK
    <3> QED BY ONLY <3>1, <3>2 DEF Due
  <2> QED BY <2>1, <2>2
<1>8. NotificationsSpaced' /\ NotifiedIsInHistory' /\ NotifiedIsStamped'
  BY DEF Core, NotificationsSpaced, NotifiedIsInHistory, NotifiedIsStamped
<1> QED BY <1>5, <1>6, <1>7, <1>8 DEF Core, FireIsDue

LEMMA AnswerCore ==
    ASSUME Core, NEW p \in Passes, Answer(p), ~NextAlert(p, todo[p])
    PROVE  Core'
<1> DEFINE a == cur[p]
<1>1. a \in Alerts /\ flagged[a] \in SUBSET Days /\ flagged[a] # {}
  BY DEF Answer, Core, TypeOK, AlertInHand
<1>2. LastFlagged(a) \in Days
  BY <1>1, LastFlaggedIs
<1>3. /\ pc[p] = "anomaly" /\ ~CoolingDown(snap[p][a])
      /\ hit' = [hit EXCEPT ![p] = [at |-> clock, ds |-> LastFlagged(a)]]
      /\ pc' = [pc EXCEPT ![p] = "record"]
      /\ UNCHANGED <<cur, todo, snap, world, table, running, notified, faults, edits>>
  BY DEF Answer, Advance, After
<1> QED BY <1>2, <1>3, FireCore

\* evaluateOne() is left, whatever its last call has written.
LEMMA LeaveCore ==
    ASSUME Core, NEW p \in Passes,
           pc[p] \in {"anomaly", "record", "stamp", "notify", "publish"},
           NextAlert(p, todo[p]), faults' \in 0 .. MaxFaults,
           UNCHANGED <<world, status, enabled, cooldown, running, notified, edits>>,
           \/ UNCHANGED <<events, lastFired>>
           \/ pc[p] = "record" /\ Insert(p) /\ UNCHANGED lastFired
           \/ pc[p] = "stamp" /\ status[cur[p]] = "live" /\ Stamp(p) /\ UNCHANGED events
    PROVE  Core'
<1> USE DEF world
<1> DEFINE a == cur[p]
<1>1. /\ a \in Alerts \ todo[p]
      /\ pc' = [pc EXCEPT ![p] = "loop"] /\ cur' = [cur EXCEPT ![p] = NoAlert]
      /\ hit' = [hit EXCEPT ![p] = NoHit] /\ todo' = todo /\ snap' = snap
  BY DEF NextAlert, Core, TypeOK, AlertInHand
\* What was written: a row of the history, or a stamp that moves forward.
<1>2. events \subseteq events' /\ events' \subseteq [alert : Alerts, at : Times, ds : Days]
  BY <1>1 DEF Insert, Core, TypeOK, FireIsDue, Due
<1>3. /\ \A b \in Alerts \ {a} : lastFired'[b] = lastFired[b]
      /\ lastFired' \in [Alerts -> Times \cup {Never}]
      /\ status[a] = "none" => lastFired'[a] = lastFired[a]
  BY <1>1 DEF Stamp, Core, TypeOK, FireIsDue, Due
<1>4. \A s \in notified[a] : s <= lastFired'[a]
  <2>1. CASE lastFired' = lastFired
    BY <1>1, <2>1 DEF Core, NotifiedIsStamped
  <2>2. CASE pc[p] = "stamp" /\ Stamp(p)
    <3>1. lastFired'[a] = hit[p].at
      BY <1>1, <2>2 DEF Stamp, Core, TypeOK
    <3>2. hit[p].at \in Nat /\ \A s \in notified[a] : s \in Nat /\ hit[p].at - s >= Min(Cooldowns)
      BY <1>1, <2>2, Empties DEF Core, TypeOK, FireIsDue, Due
    <3> QED BY <3>1, <3>2, ShortestCooldown
  <2> QED BY <2>1, <2>2 DEF Insert
<1>5. TypeOK'
  BY <1>1, <1>2, <1>3, Empties DEF Core, TypeOK
<1>6. ActivePass' /\ RowsInOrder' /\ AlertInHand'
  BY <1>1, <1>3 DEF Core, TypeOK, ActivePass, RowsInOrder, AlertInHand
<1>7. SnapshotHolds'
  <2>1. \A q \in Passes : Unstamped(q)' \subseteq Unstamped(q) \ {a}
    BY <1>1, OneLess DEF Core, TypeOK
  <2>2. \A q \in Passes : \A b \in Unstamped(q) : b \in Alerts
    BY UnstampedAre
  <2> QED BY <1>1, <1>3, <2>1, <2>2 DEF Core, SnapshotHolds
<1>8. ASSUME NEW q \in Passes PROVE Due(q)'
  <2>1. pc'[q] \in {"idle", "loop"}
    BY <1>1, TheOthers DEF Core, TypeOK
  <2> QED BY <2>1 DEF Due
<1>9. NotificationsSpaced' /\ NotifiedIsInHistory' /\ NotifiedIsStamped'
  BY <1>2, <1>3, <1>4 DEF Core, NotificationsSpaced, NotifiedIsInHistory, NotifiedIsStamped
<1> QED BY <1>5, <1>6, <1>7, <1>8, <1>9 DEF Core, FireIsDue

LEMMA RecordCore ==
    ASSUME Core, NEW p \in Passes, Record(p)
    PROVE  Core'
<1> USE DEF world
<1> DEFINE a == cur[p]
<1>1. /\ pc[p] = "record" /\ a \in Alerts /\ pc' = [pc EXCEPT ![p] = "stamp"]
      /\ UNCHANGED <<cur, todo, snap, world, status, enabled, cooldown, lastFired,
                     running, hit, notified, faults, edits>>
  BY DEF Record, Advance, After, Core, AlertInHand
<1>2. /\ events \subseteq events' /\ events' \subseteq [alert : Alerts, at : Times, ds : Days]
      /\ \E e \in events' : e.alert = a /\ e.at = hit[p].at
  <2> DEFINE e == [alert |-> a, at |-> hit[p].at, ds |-> hit[p].ds]
  <2>1. events' = events \cup {e}
    BY DEF Record, Insert
  <2>2. e \in [alert : Alerts, at : Times, ds : Days]
    BY <1>1 DEF Core, FireIsDue, Due
  <2>3. e.alert = a /\ e.at = hit[p].at
    OBVIOUS
  <2> HIDE DEF e
  <2> QED BY <2>1, <2>2, <2>3 DEF Core, TypeOK
<1>3. TypeOK'
  BY <1>1, <1>2 DEF Core, TypeOK
<1>4. ActivePass' /\ RowsInOrder' /\ AlertInHand' /\ SnapshotHolds'
  BY <1>1 DEF Core, TypeOK, ActivePass, RowsInOrder, AlertInHand, SnapshotHolds, Unstamped
<1>5. ASSUME NEW q \in Passes PROVE Due(q)'
  BY <1>1, <1>2, TheOthers DEF Core, TypeOK, FireIsDue, Due
<1>6. NotificationsSpaced' /\ NotifiedIsInHistory' /\ NotifiedIsStamped'
  BY <1>1, <1>2 DEF Core, NotificationsSpaced, NotifiedIsInHistory, NotifiedIsStamped
<1> QED BY <1>3, <1>4, <1>5, <1>6 DEF Core, FireIsDue

\* The stamp only moves forward, past everything that was sent.
LEMMA StampCore ==
    ASSUME Core, NEW p \in Passes, StampFire(p)
    PROVE  Core'
<1> USE DEF world
<1> DEFINE a == cur[p]
<1>1. /\ pc[p] = "stamp" /\ a \in Alerts /\ status[a] = "live"
      /\ pc' = [pc EXCEPT ![p] = "notify"]
      /\ lastFired' = [lastFired EXCEPT ![a] = hit[p].at]
      /\ UNCHANGED <<cur, todo, snap, world, status, enabled, cooldown, events,
                     running, hit, notified, faults, edits>>
  BY DEF StampFire, Stamp, Advance, After, Core, AlertInHand
<1>2. /\ hit[p].at \in Times
      /\ \A s \in notified[a] : s \in Nat /\ hit[p].at - s >= Min(Cooldowns)
  BY <1>1, Empties DEF Core, TypeOK, FireIsDue, Due
<1>3. \A s \in notified[a] : s <= hit[p].at
  BY <1>2, ShortestCooldown, Numbers
<1>4. TypeOK'
  BY <1>1, <1>2 DEF Core, TypeOK
<1>5. ActivePass' /\ RowsInOrder' /\ AlertInHand'
  BY <1>1 DEF Core, TypeOK, ActivePass, RowsInOrder, AlertInHand
<1>6. SnapshotHolds'
  <2>1. \A q \in Passes : Unstamped(q)' \subseteq Unstamped(q) \ {a}
    BY <1>1, OneLess DEF Core, TypeOK
  <2>2. \A q \in Passes : \A b \in Unstamped(q) : b \in Alerts
    BY UnstampedAre
  <2> QED BY <1>1, <2>1, <2>2 DEF Core, TypeOK, SnapshotHolds
<1>7. ASSUME NEW q \in Passes PROVE Due(q)'
  <2>1. lastFired'[a] = hit[p].at
    BY <1>1 DEF Core, TypeOK
  <2>2. hit[p].at <= hit[p].at
    BY <1>2, Numbers
  <2>3. CASE q = p
    BY <1>1, <2>1, <2>2, <2>3 DEF Core, TypeOK, FireIsDue, Due
  <2>4. CASE q # p
    BY <1>1, <2>4, TheOthers DEF Due
  <2> QED BY <2>3, <2>4
<1>8. NotificationsSpaced' /\ NotifiedIsInHistory' /\ NotifiedIsStamped'
  BY <1>1, <1>3 DEF Core, TypeOK, NotificationsSpaced, NotifiedIsInHistory, NotifiedIsStamped
<1> QED BY <1>4, <1>5, <1>6, <1>7, <1>8 DEF Core, FireIsDue

\* The fire is told of: it is in the history, stamped, and a cool-down after
\* every one before.
LEMMA NotifyCore ==
    ASSUME Core, NEW p \in Passes, Notify(p)
    PROVE  Core'
<1> USE DEF world, table
<1> DEFINE a == cur[p]
           t == hit[p].at
<1>1. /\ pc[p] = "notify" /\ a \in Alerts /\ pc' = [pc EXCEPT ![p] = "publish"]
      /\ notified' = [notified EXCEPT ![a] = @ \cup {t}]
      /\ UNCHANGED <<cur, todo, snap, world, table, running, hit, faults, edits>>
  BY DEF Notify, Advance, After, Core, AlertInHand
<1>2. /\ t \in Times /\ t <= lastFired[a]
      /\ \A s \in notified[a] : s \in Nat /\ t - s >= Min(Cooldowns)
      /\ status[a] = "live" => \E e \in events : e.alert = a /\ e.at = t
  BY <1>1, Empties DEF Core, TypeOK, FireIsDue, Due
<1>3. TypeOK'
  BY <1>1, <1>2 DEF Core, TypeOK
<1>4. ActivePass' /\ RowsInOrder' /\ AlertInHand' /\ SnapshotHolds'
  BY <1>1 DEF Core, TypeOK, ActivePass, RowsInOrder, AlertInHand, SnapshotHolds, Unstamped
<1>5. ASSUME NEW q \in Passes PROVE Due(q)'
  <2>1. pc'[q] \in {"idle", "publish"}
    BY <1>1, TheOthers DEF Core, TypeOK
  <2> QED BY <2>1 DEF Due
<1>6. NotificationsSpaced'
  <2> SUFFICES ASSUME NEW b \in Alerts, NEW s \in notified'[b], NEW u \in notified'[b], s < u
               PROVE  u - s >= Min(Cooldowns)
    BY DEF NotificationsSpaced
  <2>1. CASE s \in notified[b] /\ u \in notified[b]
    BY <2>1 DEF Core, NotificationsSpaced
  <2>2. CASE b = a /\ s \in notified[a] /\ u = t
    BY <1>2, <2>2
  <2>3. CASE b = a /\ u \in notified[a] /\ s = t
    BY <1>2, <2>3, ShortestCooldown, Numbers
  <2>4. CASE s = t /\ u = t
    BY <1>2, <2>4, Numbers
  <2> QED BY <1>1, <2>1, <2>2, <2>3, <2>4 DEF Core, TypeOK
<1>7. NotifiedIsInHistory' /\ NotifiedIsStamped'
  BY <1>1, <1>2 DEF Core, TypeOK, NotifiedIsInHistory, NotifiedIsStamped
<1> QED BY <1>3, <1>4, <1>5, <1>6, <1>7 DEF Core, FireIsDue

LEMMA CoreStep == Core /\ [Next]_vars => Core'
<1> SUFFICES ASSUME Core, [Next]_vars PROVE Core'
  OBVIOUS
<1>1. ASSUME NEW p \in Passes, CallRaises(p) PROVE Core'
  BY <1>1, LeaveCore DEF CallRaises, GoesOn, LeftAfterError, Core, TypeOK
<1>2. ASSUME NEW p \in Passes, Publish(p) PROVE Core'
  BY <1>2, LeaveCore DEF Publish, Core, TypeOK, world, table
<1>3. ASSUME NEW p \in Passes, Answer(p) PROVE Core'
  <2>1. CASE NextAlert(p, todo[p])
    BY <1>3, <2>1, LeaveCore DEF Answer, Core, TypeOK, world, table
  <2> QED BY <1>3, <2>1, AnswerCore
<1>4. CASE UNCHANGED vars
  BY <1>4 DEF vars, world, table, pass, Core, TypeOK, NotificationsSpaced, NotifiedIsInHistory,
          ActivePass, RowsInOrder, AlertInHand, SnapshotHolds, Unstamped, NotifiedIsStamped,
          FireIsDue, Due, CoolingDown
<1> QED BY <1>1, <1>2, <1>3, <1>4, WorldCore, PassCore, CrashCore, RecordCore, StampCore,
           NotifyCore DEF Next, PassStep

-----------------------------------------------------------------------------
LEMMA CoreAlways == Spec => []Core
BY CoreInit, CoreStep, PTL DEF Spec

\* The rows, the pass, the history and the channels agree in every reachable
\* state.
THEOREM Invariant == Spec => []IInv
<1>1. Core => IInv
  BY Derived DEF Core, IInv
<1> QED BY <1>1, CoreAlways, PTL

\* Two fires of an alert that were told of are at least the shortest cool-down
\* apart, whatever fails and whatever users edit in between.
THEOREM NobodyIsSpammed == Spec => []NotificationsSpaced
<1>1. IInv => NotificationsSpaced
  BY DEF IInv
<1> QED BY <1>1, Invariant, PTL

\* What was told of is in the history, unless the alert was deleted.
THEOREM ToldIsRecorded == Spec => []NotifiedIsInHistory
<1>1. IInv => NotifiedIsInHistory
  BY DEF IInv
<1> QED BY <1>1, Invariant, PTL

\* this.running is set exactly while one pass is active.
THEOREM PassesDoNotOverlap == Spec => []RunningIsOnePass
<1>1. IInv => RunningIsOnePass
  BY DEF IInv
<1> QED BY <1>1, Invariant, PTL

\* Only the active pass stamps, by a call that returns or one that raises after
\* the row was written.
LEMMA OnlyStamps ==
    ASSUME Core, Next, lastFired' # lastFired
    PROVE  \E q \in Passes : pc[q] = "stamp" /\ Stamp(q)
<1>1. ASSUME NEW q \in Passes, CallRaises(q)
      PROVE  pc[q] = "stamp" /\ Stamp(q)
  BY <1>1 DEF CallRaises
<1>2. ASSUME NEW q \in Passes, StampFire(q)
      PROVE  pc[q] = "stamp" /\ Stamp(q)
  BY <1>2 DEF StampFire
<1> QED BY <1>1, <1>2 DEF Next, PassStep, Tick, DayEnds, Crash, Delete, Create, Update,
           StartPass, List, TakeAlert, Finish, Answer, Record, Notify, Publish, ListRaises,
           table, world

\* When a fire is stamped, the cool-down that was judged on the row of the
\* start of the pass holds against the row as it is.
THEOREM StampsRespectCooldown == Spec => StampRespectsCooldown
<1>1. Core /\ [Next]_vars =>
        [\A p \in Passes :
           pc[p] = "stamp" /\ lastFired' # lastFired =>
              LET a == cur[p] IN
              lastFired[a] # Never => lastFired'[a] - lastFired[a] >= snap[p][a].cooldown]_vars
  <2> SUFFICES ASSUME Core, Next, NEW p \in Passes, pc[p] = "stamp", lastFired' # lastFired,
                      lastFired[cur[p]] # Never
               PROVE  lastFired'[cur[p]] - lastFired[cur[p]] >= snap[p][cur[p]].cooldown
    OBVIOUS
  <2>1. PICK q \in Passes : pc[q] = "stamp" /\ Stamp(q)
    BY OnlyStamps
  <2>2. q = p
    BY <2>1 DEF Core, ActivePass
  <2>3. cur[p] \in Alerts
    BY DEF Core, AlertInHand
  <2>4. lastFired'[cur[p]] = hit[p].at
    BY <2>1, <2>2, <2>3 DEF Stamp, Core, TypeOK
  <2>5. Due(p)
    BY DEF Core, FireIsDue
  <2> QED BY <2>4, <2>5 DEF Due
<1> QED BY <1>1, CoreAlways, PTL DEF Spec, StampRespectsCooldown

-----------------------------------------------------------------------------
(* PDF jobs.                                                               *)

USE PdfJobsAssumption

LEMMA PdfInvInit == PdfInit => PdfInv
BY DEF PdfInit, PdfInv, PdfTypeOK, DownloadHasFile, Downloadable, CompletedIsDone,
       UnfinishedIsHeld, At

LEMMA PdfInvStep == PdfInv /\ [PdfNext]_pdfVars => PdfInv'
<1> SUFFICES ASSUME PdfInv, [PdfNext]_pdfVars PROVE PdfInv'
  OBVIOUS
<1> USE DEF PdfInv, PdfTypeOK, DownloadHasFile, Downloadable, CompletedIsDone, UnfinishedIsHeld,
            Excused, At, redis, process, trouble
\* The API and the users.
<1>1. ASSUME NEW j \in Jobs, CreateRow(j) PROVE PdfInv'
  BY <1>1 DEF CreateRow
<1>2. ASSUME NEW j \in Jobs, Add(j) PROVE PdfInv'
  BY <1>2 DEF Add
<1>3. ASSUME NEW j \in Jobs, AddFails(j) PROVE PdfInv'
  BY <1>3 DEF AddFails, Fault
<1>4. CASE DeleteDashboard
  BY <1>4 DEF DeleteDashboard
\* An attempt: the job is the worker's, so nobody else writes its row.
<1>5. ASSUME NEW j \in Jobs, Take(j) PROVE PdfInv'
  BY <1>5 DEF Take
<1>6. CASE WriteRunning
  BY <1>6 DEF WriteRunning, Goto, SetRow
<1>7. CASE WriteRunningFails
  BY <1>7 DEF WriteRunningFails, Goto, Fault
<1>8. CASE Lookup
  BY <1>8 DEF Lookup, Goto, WhenGone
<1>9. CASE Render
  BY <1>9 DEF Render, Goto, AfterRender
<1>10. CASE Upload
  BY <1>10 DEF Upload, Goto
<1>11. CASE TryRaises
  BY <1>11 DEF TryRaises, Goto
<1>12. CASE WriteDone
  BY <1>12 DEF WriteDone, Goto, SetRow, AfterDone
<1>13. CASE WriteDoneFails
  BY <1>13 DEF WriteDoneFails, Goto, Fault
<1>14. CASE WriteFailed
  BY <1>14 DEF WriteFailed, Goto, SetRow, RowAfterCatch, AfterCatch
<1>15. CASE WriteFailedFails
  BY <1>15 DEF WriteFailedFails, Goto, Fault
\* The queue: a job is over when its row is, and one that stalls once too often
\* has seen more crashes than MaxStalls.
<1>16. CASE Return
  BY <1>16 DEF Return, Leave
<1>17. CASE Throw
  BY <1>17 DEF Throw, Leave, AnotherAttempt
<1>18. ASSUME NEW j \in Jobs, BackoffOver(j) PROVE PdfInv'
  BY <1>18 DEF BackoffOver
<1>19. ASSUME NEW j \in Jobs, Stalled(j) PROVE PdfInv'
  BY <1>19 DEF Stalled
<1>20. CASE ProcessDies
  BY <1>20 DEF ProcessDies, Leave
<1>21. CASE UNCHANGED pdfVars
  BY <1>21 DEF pdfVars
<1> QED
  BY <1>1, <1>2, <1>3, <1>4, <1>5, <1>6, <1>7, <1>8, <1>9, <1>10, <1>11, <1>12, <1>13,
     <1>14, <1>15, <1>16, <1>17, <1>18, <1>19, <1>20, <1>21 DEF PdfNext, WorkerStep

\* The invariant holds in every reachable state: types, the attempts and stalls
\* BullMQ allows, and the agreement of row, queue, worker and bucket.
THEOREM PdfInvariant == PdfSpec => []PdfInv
BY PdfInvInit, PdfInvStep, PTL DEF PdfSpec

\* download() gives a URL for files that are there only.
THEOREM DownloadsWork == PdfSpec => []DownloadHasFile
<1>1. PdfInv => DownloadHasFile
  BY DEF PdfInv
<1> QED BY <1>1, PdfInvariant, PTL

\* A job the queue counts as completed has its PDF.
THEOREM CompletedJobs == PdfSpec => []CompletedIsDone
<1>1. PdfInv => CompletedIsDone
  BY DEF PdfInv
<1> QED BY <1>1, PdfInvariant, PTL

\* An unfinished row is held by its request or by the queue, unless a call for
\* it failed, or the process died between the two stores or too often.
THEOREM UnfinishedJobs == PdfSpec => []UnfinishedIsHeld
<1>1. PdfInv => UnfinishedIsHeld
  BY DEF PdfInv
<1> QED BY <1>1, PdfInvariant, PTL

\* A finished PDF is only attempted again after a failed call or a crash.
THEOREM FinishedStays == PdfSpec => DoneIsFinal
<1>1. PdfInv /\ [PdfNext]_pdfVars =>
        [\A j \in Jobs : row[j] = "done" /\ row'[j] # "done" => failures[j] + crashes > 0]_pdfVars
  <2> SUFFICES ASSUME PdfInv, [PdfNext]_pdfVars, NEW j \in Jobs, row[j] = "done", row'[j] # "done"
               PROVE  failures[j] + crashes > 0
    OBVIOUS
  <2>1. /\ \/ queue[j] = "completed"
           \/ worker = j /\ stage = "return"
           \/ failures[j] + crashes > 0
        /\ worker # NoJob => queue[worker] = "active"
        /\ request[j] # "answered" => queue[j] = "none"
    BY DEF PdfInv
  <2>2. CASE \E k \in Jobs : CreateRow(k)
    BY <2>1, <2>2 DEF CreateRow, PdfInv, PdfTypeOK
  <2>3. CASE WriteRunning \/ WriteRunningFails
    BY <2>1, <2>3 DEF WriteRunning, WriteRunningFails, SetRow, At, PdfInv, PdfTypeOK
  <2>4. CASE WriteFailed \/ WriteFailedFails
    BY <2>1, <2>4 DEF WriteFailed, WriteFailedFails, SetRow, At, PdfInv, PdfTypeOK
  <2>5. CASE WriteDone \/ WriteDoneFails
    BY <2>5 DEF WriteDone, WriteDoneFails, SetRow, At, PdfInv, PdfTypeOK
  <2>6. CASE row' = row
    BY <2>6
  <2> QED
    BY <2>2, <2>3, <2>4, <2>5, <2>6
       DEF PdfNext, WorkerStep, Add, AddFails, BackoffOver, Stalled, DeleteDashboard, ProcessDies, Take,
           Lookup, Render, Upload, TryRaises, Return, Throw, pdfVars
<1> QED BY <1>1, PdfInvariant, PTL DEF PdfSpec, DoneIsFinal
=============================================================================
