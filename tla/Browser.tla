------------------------------ MODULE Browser -------------------------------
(***************************************************************************)
(* A tab of the dashboard app with its network, and what it owes its user. *)
(***************************************************************************)
EXTENDS Pages, Drawings

\* What is answered: a forecast's rows are the days one after the other, its
\* band is around the point or else below zero (AnswerContinues of Forecasts);
\* a funnel does not widen, and a cohort has its users in the first week
\* (ReadoutsMatch of ControlPlane).
ASSUME AnswersAssumption ==
    /\ \A m \in Answers["models"] :
         m.kind \in {"prophet", "arima"} /\ m.at \in Nat /\ m.mape \in Nat \cup {Null}
    /\ \A a \in Answers["forecast"] :
         LET Point == [ds : Int, y : Nat, lower : Nat, upper : Int]
             rows == a.history \o a.forecast
         IN  /\ a.history \in Seq(Point) /\ a.forecast \in Seq(Point)
             /\ \A i \in 2..Len(rows) : rows[i].ds = rows[i - 1].ds + 1
             /\ \A i \in 1..Len(a.forecast) :
                  LET p == a.forecast[i] IN p.lower <= p.y /\ (p.y <= p.upper \/ p.upper < 0)
    /\ \A a \in Answers["funnel"] : a \in Seq(Nat) /\ \A i \in 2..Len(a) : a[i] <= a[i - 1]
    /\ \A a \in Answers["cohort"] :
         /\ a \in Seq([size : Nat, weeks : [0..12 -> Nat]])
         /\ \A n \in 1..Len(a) : a[n].size = a[n].weeks[0]

Init ==
    /\ mix \in Mixes /\ left = mix.most /\ faults = mix.faults
    /\ session \in mix.from
    /\ entry = [k \in Keys |-> Absent]
    /\ stored = [k \in Keys |-> [w \in Workspaces |->
                   IF k[1] \in DOMAIN mix.made /\ (k \in Boards => k = Board(w, 1))
                   THEN <<mix.made[k[1]]>> ELSE <<>>]]
    /\ page \in [at : mix.may \cap {"login", "dashboards", "alerts", "models"}, id : {<<>>}]
                \cup [at : mix.may \cap {"board"}, id : {k \in Boards : stored[k][k[2]] # <<>>}]
    /\ ready = (page.at = "login")
    /\ button = AllIdle /\ open = {} /\ flags = {}
    /\ calls = [s \in Slots |-> NoCall]
    /\ owed = [k \in Keys |-> [ws |-> NONE, len |-> 0]]

Fetches == \E k \in Keys :
    \/ ServerReads(k) /\ UNCHANGED <<session, stored, ui, calls, flags, owed, env>>
    \/ FetchFails(k, Retries(k)) /\ Fault(Readable(k, entry[k].fetch.ws))
       /\ UNCHANGED <<session, stored, ui, calls, flags, owed>>
    \/ Lands(k)
Replies == \E s \in Slots : Executed(s) \/ Fails(s) \/ SignedIn(s) \/ Succeeds(s)
User == \/ Navigate \/ Logout \/ OtherTab \/ Reload
        \/ \E b \in Buttons : OpenOrClose(b) \/ Submit(b)
        \/ Refused \/ ChangeAlert \/ MarkEvent \/ Dismiss
Next == Fetches \/ Replies \/ LayoutEffect \/ User \/ OthersWrite

Spec == Init /\ [][Next]_vars
FairSpec == Spec /\ WF_vars(Fetches) /\ WF_vars(Replies) /\ WF_vars(LayoutEffect)

-----------------------------------------------------------------------------
CallOK(c) ==
    \/ c = NoCall
    \/ /\ DOMAIN c = {"what", "pc", "here", "key", "ws", "of", "item", "len"}
       /\ c.what \in Buttons \cup {"changeAlert"} /\ c.pc \in {"sent", "done", "failed"}
       /\ c.here \in {"here", "left", "gone"}
       /\ c.ws \in Workspaces \cup {NONE} /\ c.len \in Nat
       /\ IF c.what \in SignIns THEN c.ws # NONE ELSE c.key \in Keys /\ c.item \in Items(c.key)

TypeOK ==
    /\ session \in Workspaces \cup {NONE} /\ ready \in BOOLEAN
    /\ DOMAIN entry = Keys /\ \A k \in Keys : entry[k] \in EntriesOf(k)
    /\ DOMAIN stored = Keys
    /\ \A k \in Keys : /\ stored[k] \in [Workspaces -> Seq(Items(k))]
                       /\ \A w \in Workspaces : Len(stored[k][w]) <= MaxItems
    /\ page.at = "board" => page.id \in Boards
    /\ button \in [Buttons -> {"idle", "pending", "error"}]
    /\ open \subseteq Forms \cup {"issued"} /\ flags \subseteq {"eventSent", "dismissed"}
    /\ DOMAIN calls = Slots /\ \A s \in Slots : CallOK(calls[s])
    /\ owed \in [Keys -> [ws : Workspaces \cup {NONE}, len : Nat]]

\* A form's button says whether a call of the mounted form is in flight,
\* and there is never a second one.
OneSubmission ==
    \A b \in Buttons : Cardinality({s \in Slots : calls[s].what = b /\ calls[s].here = "here"})
                       = IF button[b] = "pending" THEN 1 ELSE 0

\* Whoever dismissed the card had done each of its steps, somewhere.
DismissedIsEarned ==
    "dismissed" \in flags =>
        /\ "eventSent" \in flags
        /\ \A k \in {List("api-keys"), List("dashboards"), List("models")} :
             \E w \in Workspaces : stored[k][w] # <<>>
        /\ \E k \in Boards : stored[k][k[2]] # <<>>

\* A change the user made is never lost sight of: data or an answer of its
\* workspace that does not show it yet is marked invalid, and then no page shows
\* it without fetching anew, until that fails.
Shows(k, answer) == answer.ws = owed[k].ws => Len(answer.val) >= owed[k].len
OwedComes ==
    \A k \in Keys :
        LET e == entry[k] IN
        /\ Loaded(e) /\ ~e.invalid => Shows(k, e.data)
        /\ e.fetch.pc = "read" => Shows(k, e.fetch)
        /\ k \in Active /\ Loaded(e) /\ e.invalid => Fetching(e) \/ e.failed
\* What is owed, and what a call wrote, is on the server.
OwedIsStored ==
    /\ \A k \in Keys : owed[k].ws # NONE => owed[k].len <= Len(stored[k][owed[k].ws])
    /\ \A s \in Slots :
        LET c == calls[s] IN
        c.pc = "done" /\ c.what \notin SignIns =>
            c.ws # NONE /\ c.len <= Len(stored[c.key][c.ws])

(* The inductive invariant of the tab: the cache holds what its workspace  *)
(* has or had, a button is pending exactly while its one call is in flight,*)
(* the card is dismissed only by who earned it, and a user's change is on  *)
(* its way to every page that shows it - while cached answers of several   *)
(* sessions, old pages and late answers overlap.                           *)
IInv == /\ TypeOK /\ CacheIsPast /\ OneSubmission /\ DismissedIsEarned
        /\ OwedComes /\ OwedIsStored

(* What the user has just changed is on the page: once nothing is in       *)
(* flight and nothing failed, a mounted query shows at least what the last *)
(* own change to it left behind, whichever page was open when it           *)
(* succeeded - except a change whose success met a first load, or a fetch  *)
(* of a page that was left, which the library does not cancel.             *)
ShowsOwnWrites ==
    \A k \in Active :
        LET e == entry[k] IN
        (Loaded(e) /\ ~Fetching(e) /\ ~e.failed /\ e.data.ws = owed[k].ws) =>
            Len(e.data.val) >= owed[k].len

(* What is drawn is what was answered: the models page shows the newest    *)
(* model of each kind and picks one no worse than the other; a funnel      *)
(* narrows from full width and a step nobody reached lost everybody; the   *)
(* chart has the past before the future and a band around the future only  *)
(* (or none, below zero); a cohort's shades and shares stay within the     *)
(* whole.                                                                  *)
ModelsDrawn(models) ==
    LET of(x, kind) == {models[n] : n \in {i \in 1..Len(models) :
                                             models[i].metric = x /\ models[i].kind = kind}}
    IN  /\ {r.metric : r \in Rollup(models)} = {models[n].metric : n \in 1..Len(models)}
        /\ \A r \in Rollup(models) :
             LET kept == [kind \in {"prophet", "arima"} |-> IF kind = "prophet" THEN r.prophet ELSE r.arima]
                 pick == Winner(r)
             IN  /\ \A kind \in {"prophet", "arima"} :
                      IF of(r.metric, kind) = {} THEN kept[kind] = NoModel
                      ELSE /\ kept[kind] \in of(r.metric, kind)
                           /\ \A m \in of(r.metric, kind) : m.at <= kept[kind].at
                 /\ IF pick = "none" THEN Mape(r.prophet) = Null /\ Mape(r.arima) = Null
                    ELSE /\ Mape(kept[pick]) # Null
                         /\ \A kind \in {"prophet", "arima"} :
                              Mape(kept[kind]) = Null \/ Mape(kept[pick]) <= Mape(kept[kind])

FunnelDrawn(reached) ==
    LET bars == Bars(reached) IN
    \A i \in 2..Len(reached) :
        /\ bars[i].width <= bars[i - 1].width /\ bars[i - 1].width <= 1000
        /\ bars[i].drop = 1000 <=> (reached[i] = 0 /\ reached[i - 1] > 0)

ForecastDrawn(answer) ==
    LET rows == Combine(answer) IN
    /\ \A m, n \in 1..Len(rows) : m < n => rows[m].ds < rows[n].ds
    /\ \A n \in 1..Len(rows) :
         IF n <= Len(answer.history) THEN rows[n].band = <<>> /\ rows[n].actual # Null
         ELSE /\ rows[n].actual = Null /\ rows[n].band[1] <= rows[n].yhat
              /\ rows[n].yhat <= rows[n].band[2] \/ rows[n].band[2] < 0

CohortDrawn(cohorts) ==
    \A n \in 1..Len(cohorts), i \in 0..12, mode \in {"retention", "count"} :
        LET row == cohorts[n] cell == Cell(row, i, mode, MaxCount(cohorts)) IN
        /\ (mode = "count" /\ i > 0 /\ cell.shade = "none") => cell.text = <<>>
        /\ (mode = "count" /\ i > 0 /\ cell.shade = "full") => row.weeks[i] = MaxCount(cohorts)
        /\ (mode = "retention" /\ i = 0 /\ row.size > 0) => cell = [shade |-> "full", text |-> <<100, "%">>]

DrawnAsAnswered ==
    \A k \in Active \cap {List("models"), List("forecast"), List("funnel"), List("cohort")} :
        Has(k) => LET val == entry[k].data.val answer == val[Len(val)] IN
                  CASE k = List("models") -> ModelsDrawn(val)
                    [] k = List("forecast") -> ForecastDrawn(answer)
                    [] k = List("funnel") -> FunnelDrawn(answer)
                    [] OTHER -> CohortDrawn(answer)

(* No wait is for ever: the buttons that wait come back, a page that shows *)
(* that it is loading comes to show something else, and a guarded page     *)
(* mounts or gives way to the login - whatever fails, if the network and   *)
(* React go on.                                                            *)
Waits == (\E b \in Buttons : button[b] = "pending") \/ "loading" \in Parts \/ ~ready
EveryWaitEnds == Waits ~> ~Waits
=============================================================================
