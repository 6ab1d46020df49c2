--------------------------- MODULE AlertEvaluator ---------------------------
(***************************************************************************)
(* Alerts (api/src/alerts): a cron job of the API process evaluates every  *)
(* enabled alert against the forecast service, records and stamps a fire   *)
(* unless the alert is cooling down, notifies its channels and publishes to*)
(* Redis, while users create, change and delete alerts.  A step ends at an *)
(* await.  Postgres, the forecast service and the channels are external.   *)
(*                                                                         *)
(* Two passes could run at once if the code let them: Passes has two.      *)
(***************************************************************************)
EXTENDS Integers, FiniteSets, FiniteSetsExt

CONSTANTS
    Alerts,         \* ids of alerts
    NoAlert,        \* no current alert
    Threshold,      \* alerts of method `threshold`, which are never evaluated
    Broken,         \* alerts the forecast service refuses
    Cooldowns,      \* values of cooldown_seconds, in ticks of the clock
    Passes,         \* activations of evaluate()
    MaxClock,       \* bound: ticks in a run
    MaxDays,        \* bound: days that end in a run
    MaxFaults,      \* bound: crashes and failed calls
    MaxEdits        \* bound: changes by users

ASSUME AlertAssumption ==
    /\ NoAlert \notin Alerts
    /\ Threshold \subseteq Alerts /\ Broken \subseteq Alerts
    /\ Cooldowns \subseteq Nat /\ Cooldowns # {} /\ IsFiniteSet(Cooldowns)
    /\ MaxClock \in Nat /\ MaxDays \in Nat /\ MaxFaults \in Nat /\ MaxEdits \in Nat

Days == 1 .. MaxDays
Times == 0 .. MaxClock
Never == -1

VARIABLES
    clock, today,   \* the time, and days that ended
    flagged,        \* forecast service: alert -> days /anomaly flags
    status,         \* Postgres: alert -> "none", "live" or "deleted"
    enabled,        \* Postgres: alerts that are enabled
    cooldown,       \* Postgres: alert -> cooldown_seconds
    lastFired,      \* Postgres: alert -> last_fired_at
    events,         \* Postgres: rows of alert_events: alert, at, ds
    running,        \* API process: this.running
    pc, cur,        \* pass: where it is, the alert in hand
    todo, snap,     \* pass: alerts left, and the rows findMany returned
    hit,            \* pass: firedAt and the day of the flagged point
    notified,       \* history: alert -> firedAt of the fires sent to channels
    faults, edits   \* counters

table == <<status, enabled, cooldown, lastFired, events>>
world == <<clock, today, flagged>>
pass == <<pc, cur, todo, snap, hit>>
vars == <<world, table, running, pass, notified, faults, edits>>

NoHit == [at |-> Never, ds |-> 0]
NoRow == [cooldown |-> 0, lastFired |-> Never]
Row(a) == [cooldown |-> cooldown[a], lastFired |-> lastFired[a]]

Init ==
    /\ clock = 0 /\ today = 0
    /\ flagged = [a \in Alerts |-> {}]
    /\ status = [a \in Alerts |-> "none"]
    /\ enabled = {}
    /\ cooldown \in [Alerts -> Cooldowns]
    /\ lastFired = [a \in Alerts |-> Never]
    /\ events = {}
    /\ running = FALSE
    /\ pc = [p \in Passes |-> "idle"]
    /\ cur = [p \in Passes |-> NoAlert]
    /\ todo = [p \in Passes |-> {}]
    /\ snap = [p \in Passes |-> [a \in Alerts |-> NoRow]]
    /\ hit = [p \in Passes |-> NoHit]
    /\ notified = [a \in Alerts |-> {}]
    /\ faults = 0 /\ edits = 0

-----------------------------------------------------------------------------
(* The world and the users (AlertsService).                                *)

Tick ==
    /\ clock < MaxClock
    /\ clock' = clock + 1
    /\ UNCHANGED <<today, flagged, table, running, pass, notified, faults, edits>>

\* A day ends; its point is flagged for some alerts.  zscore_detect and
\* iqr_detect look back only, so what they say of earlier days stays.
DayEnds ==
    /\ today < MaxDays
    /\ today' = today + 1
    /\ \E S \in SUBSET Alerts :
        flagged' = [a \in Alerts |-> flagged[a] \cup (IF a \in S THEN {today'} ELSE {})]
    /\ UNCHANGED <<clock, table, running, pass, notified, faults, edits>>

Edit == edits < MaxEdits /\ edits' = edits + 1

Create(a, c, on) ==
    /\ Edit
    /\ status[a] = "none"
    /\ status' = [status EXCEPT ![a] = "live"]
    /\ cooldown' = [cooldown EXCEPT ![a] = c]
    /\ enabled' = IF on THEN enabled \cup {a} ELSE enabled
    /\ UNCHANGED <<world, lastFired, events, running, pass, notified, faults>>

\* update(): a new cool-down, enabled or not; last_fired_at is left alone.
Update(a, c, on) ==
    /\ Edit
    /\ status[a] = "live"
    /\ cooldown' = [cooldown EXCEPT ![a] = c]
    /\ enabled' = IF on THEN enabled \cup {a} ELSE enabled \ {a}
    /\ UNCHANGED <<world, status, lastFired, events, running, pass, notified, faults>>

\* delete(): the alert's events go with it (ON DELETE CASCADE).
Delete(a) ==
    /\ Edit
    /\ status[a] = "live"
    /\ status' = [status EXCEPT ![a] = "deleted"]
    /\ enabled' = enabled \ {a}
    /\ events' = {e \in events : e.alert # a}
    /\ UNCHANGED <<world, cooldown, lastFired, running, pass, notified, faults>>

-----------------------------------------------------------------------------
(* The evaluator.                                                          *)

\* evaluate(): a tick of the cron job is skipped while a pass is running.
BusyNever == FALSE                          \* mutant: no running flag
Busy == running

StartPass(p) ==
    /\ pc[p] = "idle" /\ ~Busy
    /\ running' = TRUE
    /\ pc' = [pc EXCEPT ![p] = "list"]
    /\ UNCHANGED <<world, table, cur, todo, snap, hit, notified, faults, edits>>

\* findMany({ where: { enabled: true } })
List(p) ==
    /\ pc[p] = "list"
    /\ todo' = [todo EXCEPT ![p] = enabled]
    /\ snap' = [snap EXCEPT ![p] =
           [a \in Alerts |-> IF a \in enabled THEN Row(a) ELSE NoRow]]
    /\ pc' = [pc EXCEPT ![p] = "loop"]
    /\ UNCHANGED <<world, table, running, cur, hit, notified, faults, edits>>

\* The flag after a pass; `finally` runs whether or not the pass raised.
ResetOnSuccess(p) == pc[p] # "loop"         \* mutant: no finally block
RunningAfter(p) == FALSE

EndPass(p) ==
    /\ running' = RunningAfter(p)
    /\ pc' = [pc EXCEPT ![p] = "idle"]
    /\ cur' = [cur EXCEPT ![p] = NoAlert]
    /\ todo' = [todo EXCEPT ![p] = {}]
    /\ snap' = [snap EXCEPT ![p] = [a \in Alerts |-> NoRow]]
    /\ hit' = [hit EXCEPT ![p] = NoHit]

\* The loop takes the next alert, in the order Postgres returned; a threshold
\* alert returns at once.
TakeAlert(p) ==
    /\ pc[p] = "loop"
    /\ \E a \in todo[p] :
        /\ todo' = [todo EXCEPT ![p] = @ \ {a}]
        /\ cur' = [cur EXCEPT ![p] = IF a \in Threshold THEN @ ELSE a]
        /\ pc' = [pc EXCEPT ![p] = IF a \in Threshold THEN @ ELSE "anomaly"]
    /\ UNCHANGED <<world, table, running, snap, hit, notified, faults, edits>>

Finish(p) ==
    /\ pc[p] = "loop" /\ todo[p] = {}
    /\ EndPass(p)
    /\ UNCHANGED <<world, table, notified, faults, edits>>

\* evaluateOne ends, by a return or by an error that evaluate() catches.
AbortLoop(p) == {}                          \* mutant: the first error ends the loop
LeftAfterError(p) == todo[p]

NextAlert(p, left) ==
    /\ pc' = [pc EXCEPT ![p] = "loop"]
    /\ cur' = [cur EXCEPT ![p] = NoAlert]
    /\ hit' = [hit EXCEPT ![p] = NoHit]
    /\ todo' = [todo EXCEPT ![p] = left]
    /\ UNCHANGED snap

\* The order of the calls of a fire.
NotifyFirst(stage) ==                       \* mutant: stamped last
    CASE stage = "anomaly" -> "record" [] stage = "record" -> "notify"
      [] stage = "notify" -> "stamp"   [] stage = "stamp" -> "publish"
After(stage) ==
    CASE stage = "anomaly" -> "record" [] stage = "record" -> "stamp"
      [] stage = "stamp" -> "notify"   [] stage = "notify" -> "publish"

Advance(p) ==
    /\ pc' = [pc EXCEPT ![p] = After(@)]
    /\ UNCHANGED <<cur, todo, snap>>

\* now - lastFiredAt < cooldownSeconds, on the row the pass has read
CoolingDown(row) == row.lastFired # Never /\ clock - row.lastFired < row.cooldown

\* [...data.points].reverse().find(is_anomaly)
LastFlagged(a) == Max(flagged[a])

\* The answer of /anomaly: the last flagged point of the 180 days counts.
Answer(p) ==
    /\ pc[p] = "anomaly" /\ cur[p] \notin Broken
    /\ LET a == cur[p] IN
       IF flagged[a] = {} \/ CoolingDown(snap[p][a]) THEN NextAlert(p, todo[p])
       ELSE /\ hit' = [hit EXCEPT ![p] = [at |-> clock, ds |-> LastFlagged(a)]]
            /\ Advance(p)
    /\ UNCHANGED <<world, table, running, notified, faults, edits>>

Insert(p) == events' = events \cup {[alert |-> cur[p], at |-> hit[p].at, ds |-> hit[p].ds]}
Stamp(p) == lastFired' = [lastFired EXCEPT ![cur[p]] = hit[p].at]

\* recordFire, the update of last_fired_at, the fan-out (a channel that fails is
\* only logged) and the publication, each by its call.
Record(p) ==
    /\ pc[p] = "record" /\ status[cur[p]] = "live"
    /\ Insert(p) /\ Advance(p)
    /\ UNCHANGED <<world, status, enabled, cooldown, lastFired, running, hit,
                   notified, faults, edits>>

StampFire(p) ==
    /\ pc[p] = "stamp" /\ status[cur[p]] = "live"
    /\ Stamp(p) /\ Advance(p)
    /\ UNCHANGED <<world, status, enabled, cooldown, events, running, hit,
                   notified, faults, edits>>

Notify(p) ==
    /\ pc[p] = "notify"
    /\ notified' = [notified EXCEPT ![cur[p]] = @ \cup {hit[p].at}]
    /\ Advance(p)
    /\ UNCHANGED <<world, table, running, hit, faults, edits>>

Publish(p) ==
    /\ pc[p] = "publish"
    /\ NextAlert(p, todo[p])
    /\ UNCHANGED <<world, table, running, notified, faults, edits>>

\* The stage after a call that raised: evaluateOne is left.
GoOn(p) == pc[p] = "record"                 \* mutant: a failed insert is ignored
GoesOn(p) == FALSE

\* A call of evaluateOne raises: refused by the forecast service, a row that is
\* gone, or a fault, which may strike after the write was done.
CallRaises(p) ==
    /\ \/ /\ pc[p] = "anomaly" /\ cur[p] \in Broken
          /\ UNCHANGED <<events, lastFired, faults>>
       \/ /\ pc[p] \in {"record", "stamp"} /\ status[cur[p]] # "live"
          /\ UNCHANGED <<events, lastFired, faults>>
       \/ /\ pc[p] \in {"anomaly", "record", "stamp", "publish"}
          /\ faults < MaxFaults
          /\ faults' = faults + 1
          /\ \/ UNCHANGED <<events, lastFired>>
             \/ pc[p] = "record" /\ status[cur[p]] = "live" /\ Insert(p) /\ UNCHANGED lastFired
             \/ pc[p] = "stamp" /\ status[cur[p]] = "live" /\ Stamp(p) /\ UNCHANGED events
    /\ IF GoesOn(p) THEN Advance(p) /\ UNCHANGED hit
                    ELSE NextAlert(p, LeftAfterError(p))
    /\ UNCHANGED <<world, status, enabled, cooldown, running, notified, edits>>

\* findMany raises: the pass is over.
ListRaises(p) ==
    /\ pc[p] = "list"
    /\ faults < MaxFaults
    /\ faults' = faults + 1
    /\ EndPass(p)
    /\ UNCHANGED <<world, table, notified, edits>>

\* The API process dies and is started again.
Crash ==
    /\ faults < MaxFaults
    /\ faults' = faults + 1
    /\ running' = FALSE
    /\ pc' = [p \in Passes |-> "idle"]
    /\ cur' = [p \in Passes |-> NoAlert]
    /\ todo' = [p \in Passes |-> {}]
    /\ snap' = [p \in Passes |-> [a \in Alerts |-> NoRow]]
    /\ hit' = [p \in Passes |-> NoHit]
    /\ UNCHANGED <<world, table, notified, edits>>

PassStep(p) ==
    \/ List(p) \/ TakeAlert(p) \/ Finish(p) \/ Answer(p) \/ Record(p)
    \/ StampFire(p) \/ Notify(p) \/ Publish(p) \/ CallRaises(p) \/ ListRaises(p)

Next ==
    \/ Tick \/ DayEnds \/ Crash
    \/ \E a \in Alerts : Delete(a) \/ \E c \in Cooldowns, on \in BOOLEAN :
        Create(a, c, on) \/ Update(a, c, on)
    \/ \E p \in Passes : StartPass(p) \/ PassStep(p)

\* Time passes, the cron job ticks for ever, and a call that is under way ends.
Fairness ==
    /\ WF_vars(Tick)
    /\ WF_vars(\E p \in Passes : StartPass(p))
    /\ \A p \in Passes : WF_vars(PassStep(p))

Spec == Init /\ [][Next]_vars
FairSpec == Spec /\ Fairness

-----------------------------------------------------------------------------
TypeOK ==
    /\ clock \in Times /\ today \in 0 .. MaxDays
    /\ flagged \in [Alerts -> SUBSET Days]
    /\ status \in [Alerts -> {"none", "live", "deleted"}]
    /\ enabled \subseteq Alerts
    /\ cooldown \in [Alerts -> Cooldowns]
    /\ lastFired \in [Alerts -> Times \cup {Never}]
    /\ events \subseteq [alert : Alerts, at : Times, ds : Days]
    /\ running \in BOOLEAN
    /\ pc \in [Passes -> {"idle", "list", "loop", "anomaly", "record", "stamp",
                          "notify", "publish"}]
    /\ cur \in [Passes -> Alerts \cup {NoAlert}]
    /\ todo \in [Passes -> SUBSET Alerts]
    /\ snap \in [Passes -> [Alerts -> [cooldown : Cooldowns \cup {0},
                                       lastFired : Times \cup {Never}]]]
    /\ hit \in [Passes -> [at : Times \cup {Never}, ds : Days \cup {0}]]
    /\ notified \in [Alerts -> SUBSET Times]
    /\ faults \in 0 .. MaxFaults /\ edits \in 0 .. MaxEdits

\* A persistent anomaly does not spam the channels: two notified fires of an
\* alert are at least the shortest cool-down apart, across passes, failed calls
\* and crashes between any two calls (last_fired_at is written first).
NotificationsSpaced ==
    \A a \in Alerts : \A s, t \in notified[a] :
        s < t => t - s >= Min(Cooldowns)

\* The cool-down is judged on a row read at the start of the pass, and yet it
\* holds against the row as it is when the fire is stamped: nobody else has
\* stamped the alert in between, and last_fired_at only moves forward.
StampRespectsCooldown ==
    [][\A p \in Passes :
         pc[p] = "stamp" /\ lastFired' # lastFired =>
            LET a == cur[p] IN
            lastFired[a] # Never => lastFired'[a] - lastFired[a] >= snap[p][a].cooldown]_vars

\* A user who is notified finds the fire in the history (alert_events), unless
\* the alert was deleted meanwhile; a failed insert means no notification.
NotifiedIsInHistory ==
    \A a \in Alerts : \A t \in notified[a] :
        status[a] = "live" => \E e \in events : e.alert = a /\ e.at = t

\* this.running tells the truth: it is set exactly while one pass is active,
\* and a pass that raised or a crash does not leave it set.
RunningIsOnePass ==
    LET active == {p \in Passes : pc[p] # "idle"} IN
    Cardinality(active) = IF running THEN 1 ELSE 0

\* Why one pass suffices: nobody else stamps the alerts it has still to judge,
\* so the rows it has read are current where it matters.
ActivePass ==
    /\ \A p, q \in Passes : pc[p] # "idle" /\ pc[q] # "idle" => p = q
    /\ running <=> \E p \in Passes : pc[p] # "idle"
RowsInOrder ==
    \A a \in Alerts : /\ a \in enabled => status[a] = "live"
                      /\ status[a] = "none" => lastFired[a] = Never
AlertInHand ==
    \A p \in Passes :
        /\ pc[p] \in {"idle", "list"} => todo[p] = {}
        /\ pc[p] \in {"anomaly", "record", "stamp", "notify", "publish"} =>
             cur[p] \in Alerts \ todo[p] /\ status[cur[p]] # "none"
Unstamped(p) == todo[p] \cup IF pc[p] \in {"anomaly", "record", "stamp"} THEN {cur[p]} ELSE {}
SnapshotHolds ==
    \A p \in Passes : \A a \in Unstamped(p) :
        /\ status[a] # "none"
        /\ snap[p][a].lastFired = lastFired[a] /\ snap[p][a].cooldown \in Cooldowns

\* Why the order of the calls suffices: a fire is judged, recorded and stamped
\* before anybody is told of it.
NotifiedIsStamped == \A a \in Alerts : \A s \in notified[a] : s <= lastFired[a]
Due(p) ==
    LET a == cur[p] t == hit[p].at IN
    /\ pc[p] \in {"record", "stamp", "notify"} =>
         t \in Times /\ hit[p].ds \in Days /\ \A s \in notified[a] : t - s >= Min(Cooldowns)
    /\ pc[p] \in {"record", "stamp"} /\ lastFired[a] # Never =>
         t - lastFired[a] >= snap[p][a].cooldown
    /\ pc[p] \in {"stamp", "notify"} /\ status[a] = "live" =>
         \E e \in events : e.alert = a /\ e.at = t
    /\ pc[p] = "notify" => t <= lastFired[a]
FireIsDue == \A p \in Passes : Due(p)

\* One pass runs at a time, nobody is told again within the cool-down, and what
\* was sent is what the history shows, through edits, failed calls and crashes
\* between any two calls.
IInv ==
    /\ TypeOK /\ NotificationsSpaced /\ NotifiedIsInHistory /\ RunningIsOnePass
    /\ ActivePass /\ RowsInOrder /\ AlertInHand /\ SnapshotHolds
    /\ NotifiedIsStamped /\ FireIsDue

\* An alert the forecast service refuses does not keep the others from firing:
\* an enabled alert with a flagged day is notified in the end, or a fault or a
\* user came between.
FlaggedIsNotified ==
    \A a \in Alerts \ (Broken \cup Threshold) :
        (a \in enabled /\ flagged[a] # {}) ~>
            (notified[a] # {} \/ faults > 0 \/ a \notin enabled)
=============================================================================
