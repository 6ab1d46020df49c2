------------------------------- MODULE Pages --------------------------------
(***************************************************************************)
(* The pages of the dashboard app in one browser tab: navigation and the   *)
(* layouts' guard, the queries each page observes, the forms and buttons   *)
(* whose calls go on when their page is left, and the getting-started card.*)
(***************************************************************************)
EXTENDS QueryCache

CONSTANTS Slots,        \* 1..n: calls in flight at once
          Mixes         \* bound: records of may, the pages and actions of a
                        \* behaviour, most, how many the user takes, faults,
                        \* how often what could succeed fails, from, the first
                        \* sessions, and made, what each workspace has already

ASSUME PagesAssumption ==
    \A m \in Mixes : /\ m.from \subseteq Workspaces \cup {NONE}
                    /\ \A k \in Keys : k[1] \in DOMAIN m.made => m.made[k[1]] \in Items(k)

VARIABLES page,         \* [at, id]: where the tab is, and the board's key
          ready,        \* the layout has let the page mount
          button,       \* the button of each form of the mounted page
          open,         \* the forms shown, and "issued", the secret of a new key
          calls,        \* slot -> a login, sign-up or mutation in flight
          flags,        \* localStorage: "eventSent", "dismissed"
          owed,         \* ghost: key -> what the user's last change made of it
          left, faults, mix

ui == <<page, ready, button, open>>
env == <<left, faults, mix>>
vars == <<session, entry, stored, ui, calls, flags, owed, env>>

SignIns == {"login", "signup"}
Forms == {"createBoard", "createKey", "createAlert"}
Buttons == SignIns \cup Forms \cup {"addWidget"}
Section(at) == CASE at \in SignIns -> "auth"
                 [] at \in {"dashboards", "board"} -> "dashboards"
                 [] at \in {"alerts", "history"} -> "alerts"
                 [] OTHER -> at

NoCall == [what |-> NONE, pc |-> "idle", here |-> "gone"]
AllIdle == [b \in Buttons |-> "idle"]

-----------------------------------------------------------------------------
(* What a page observes, and what it shows of it.                          *)
FirstBoard(cache) ==
    LET d == cache[List("dashboards")].data IN
    IF d.val = <<>> THEN {} ELSE {Board(d.ws, Len(d.val))}
WidgetsOf(cache, k) == {cache[k].data.val[n] : n \in 1..Len(cache[k].data.val)}

CardKeys(cache) == {List("api-keys"), List("dashboards"), List("models")} \cup FirstBoard(cache)
BoardKeys(pg, cache) == {pg.id} \cup {List(t) : t \in WidgetsOf(cache, pg.id) \cap Reports}
Observed(pg, cache) == CASE pg.at = "dashboards" -> CardKeys(cache)
                         [] pg.at = "board" -> BoardKeys(pg, cache)
                         [] pg.at = "alerts" -> {List("alerts")}
                         [] pg.at = "history" -> {List("alert-history")}
                         [] pg.at = "models" -> {List("models")}
                         [] OTHER -> {}
Active == IF ready THEN Observed(page, entry) ELSE {}
Retries(k) == IF k \notin Active \/ (k = List("models") /\ page.at = "dashboards") THEN 0 ELSE 1

Has(k) == entry[k].data.val # <<>>
StepsDone == {k \in CardKeys(entry) : Has(k)} \cup {<<f>> : f \in flags \cap {"eventSent"}}
AllDone == Cardinality(StepsDone) = 5

\* The parts of a list page, of the alerts page and of the canvas.
ListParts(k) == {x \in {"loading", "error", "empty", "items"} :
                   CASE x = "loading" -> IsLoading(entry[k])
                     [] x = "error" -> IsError(entry[k])
                     [] x = "empty" -> Loaded(entry[k]) /\ ~Has(k)
                     [] x = "items" -> Has(k)}
AlertParts == ListParts(List("alerts")) \ {"error"}
CanvasParts(k) == ({"loading"} \cap ListParts(k)) \cup WidgetsOf(entry, k)
                  \cup (IF ~IsLoading(entry[k]) /\ ~Has(k) THEN {"empty"} ELSE {})
Parts == CASE ~ready \/ page.at \in SignIns -> {}
           [] page.at = "board" -> CanvasParts(page.id)
           [] page.at = "alerts" -> AlertParts
           [] page.at = "history" -> ListParts(List("alert-history")) \cap {"empty", "items"}
           [] OTHER -> ListParts(List(page.at))

-----------------------------------------------------------------------------
(* Moving between pages.                                                   *)
\* The queries that come into view are mounted, more than staleTime after
\* their answers or sooner (bound: all of them, or none).
Appear(pg, cache, ws, seen) ==
    LET new == Observed(pg, cache) \ seen IN
    \E old \in {{}, {k \in new : Loaded(cache[k]) /\ ~cache[k].invalid}} :
        entry' = MountAll(cache, ws, new, old)

\* The page that is left forgets its forms; its calls go on.
Go(at, id, ws, going) ==
    LET inside == Section(at) = Section(page.at) /\ ready IN
    /\ page' = [at |-> at, id |-> id] /\ button' = AllIdle /\ open' = {}
    /\ calls' = [s \in Slots |-> IF going[s].here = "here"
                                 THEN [going[s] EXCEPT !.here = "left"] ELSE going[s]]
    /\ ready' = (inside \/ at \in SignIns)
    /\ IF inside THEN Appear(page', entry, ws, {}) ELSE UNCHANGED entry

LayoutEffect ==
    /\ ~ready /\ ready' = TRUE
    /\ IF session = NONE THEN page' = [at |-> "login", id |-> <<>>] /\ UNCHANGED entry
       ELSE Appear(page, entry, session, {}) /\ UNCHANGED page
    /\ UNCHANGED <<session, stored, button, open, calls, flags, owed, env>>

Does(action) == action \in mix.may /\ left > 0 /\ left' = left - 1 /\ UNCHANGED <<faults, mix>>
Fault(avoidable) == /\ (avoidable => faults > 0) /\ faults' = faults - (IF avoidable THEN 1 ELSE 0)
                    /\ UNCHANGED <<left, mix>>

Links == CASE page.at \in SignIns -> SignIns
           [] page.at \in {"alerts", "history"} -> {"dashboards", "models", "alerts", "history"}
           [] OTHER -> {"dashboards", "models", "alerts"}
BoardLinks == IF page.at # "dashboards" THEN {}
              ELSE LET d == entry[List("dashboards")].data IN
                   {Board(d.ws, n) : n \in 1..Len(d.val)}
Navigate ==
    /\ ready
    /\ \/ \E at \in Links \ {page.at} : Does(at) /\ Go(at, <<>>, session, calls)
       \/ Does("board") /\ \E k \in BoardLinks : Go("board", k, session, calls)
    /\ UNCHANGED <<session, stored, flags, owed>>

Logout ==
    /\ Does("logout") /\ ready /\ page.at \notin SignIns
    /\ session' = NONE /\ Go("login", <<>>, NONE, calls)
    /\ UNCHANGED <<stored, flags, owed>>

\* Another tab signs in or out: it shares localStorage and nothing else.
OtherTab ==
    /\ Does("otherTab")
    /\ session' \in (Workspaces \cup {NONE}) \ {session}
    /\ UNCHANGED <<entry, stored, ui, calls, flags, owed>>

\* A reload starts another QueryClient and drops every answer.
Reload ==
    /\ Does("reload") /\ page.at \notin SignIns
    /\ entry' = [k \in Keys |-> Absent] /\ ready' = FALSE
    /\ button' = AllIdle /\ open' = {}
    /\ calls' = [s \in Slots |-> [calls[s] EXCEPT !.here = "gone"]]
    /\ UNCHANGED <<session, stored, page, flags, owed>>

-----------------------------------------------------------------------------
(* Forms and buttons.                                                      *)
CardShown == page.at = "dashboards" /\ "dismissed" \notin flags
CanMakeKey == CardShown /\ ~Has(List("api-keys")) /\ "issued" \notin open
Offered == CASE page.at \in SignIns -> {page.at}
             [] page.at = "dashboards" -> {"createBoard"} \cup (IF CanMakeKey THEN {"createKey"} ELSE {})
             [] page.at = "board" -> {"addWidget"}
             [] page.at = "alerts" -> {"createAlert"}
             [] OTHER -> {}
KeyOf(b) == CASE b = "createBoard" -> List("dashboards")
              [] b = "createKey" -> List("api-keys")
              [] b = "addWidget" -> page.id
              [] OTHER -> List("alerts")

\* mutant: the button is not disabled while its call is in flight
AlwaysEnabled(b) == TRUE
Enabled(b) == button[b] # "pending"

OpenOrClose(b) ==
    /\ ready /\ b \in mix.may /\ b \in Offered \cap Forms /\ left > 0
    /\ open' = IF b \in open THEN open \ {b} ELSE open \cup {b}
    /\ UNCHANGED <<session, entry, stored, page, ready, button, calls, flags, owed, env>>

\* The call starts with the session and the workspace the page has now:
\* "of" is the workspace of what it is about.
Call(b, k, w, of, item) ==
    \E s \in Slots :
        /\ calls[s] = NoCall /\ \A r \in Slots : r < s => calls[r] # NoCall
        /\ calls' = [calls EXCEPT ![s] = [what |-> b, pc |-> "sent", here |-> "here", key |-> k,
                                          ws |-> w, of |-> of, item |-> item, len |-> 0]]

Submit(b) ==
    /\ Does(b) /\ ready /\ b \in Offered /\ (b \in Forms => b \in open) /\ Enabled(b)
    /\ button' = [button EXCEPT ![b] = "pending"]
    /\ IF b \in SignIns THEN \E w \in Workspaces : Call(b, <<>>, w, w, NONE)
       ELSE \E item \in Items(KeyOf(b)) :
              Call(b, KeyOf(b), session, IF b = "addWidget" THEN page.id[2] ELSE session, item)
    /\ UNCHANGED <<session, entry, stored, page, ready, open, flags, owed>>

\* onSubmit of the sign-in forms: what the schema refuses is not sent.
Refused ==
    /\ page.at \in SignIns \cap mix.may /\ Enabled(page.at)
    /\ button' = [button EXCEPT ![page.at] = "error"]
    /\ UNCHANGED <<session, entry, stored, page, ready, open, calls, flags, owed, env>>

\* Toggling or removing an alert that is shown, as often as one likes.
ChangeAlert ==
    /\ Does("changeAlert") /\ ready /\ page.at = "alerts" /\ Has(List("alerts"))
    /\ Call("changeAlert", List("alerts"), session, entry[List("alerts")].data.ws, "item")
    /\ UNCHANGED <<session, entry, stored, ui, flags, owed>>

-----------------------------------------------------------------------------
(* The calls: the server does it or not, and the answer arrives or not.    *)
Served(c) == c.what \in SignIns \/ (c.ws # NONE /\ c.of = c.ws /\ Len(stored[c.key][c.ws]) < MaxItems)

Executed(s) ==
    LET c == calls[s] IN
    /\ c.pc = "sent"
    /\ \/ /\ c.what \notin SignIns /\ Served(c)
          /\ Write(c.key, c.ws, c.item) /\ UNCHANGED env
          /\ calls' = [calls EXCEPT ![s].pc = "done", ![s].len = Len(stored[c.key][c.ws]) + 1]
       \/ /\ c.what \in SignIns /\ calls' = [calls EXCEPT ![s].pc = "done"]
          /\ UNCHANGED <<stored, env>>
       \/ /\ calls' = [calls EXCEPT ![s].pc = "failed"] /\ Fault(Served(c))
          /\ UNCHANGED stored
    /\ UNCHANGED <<session, entry, ui, flags, owed>>

\* mutant: setPending(false) is not in a finally block
StaysPending(b) == IF b \in SignIns THEN "pending" ELSE "error"
AfterFailure(b) == "error"

Fails(s) ==
    LET c == calls[s] IN
    /\ c.pc \in {"done", "failed"} /\ Fault(c.pc = "done" /\ c.here # "gone")
    /\ calls' = [calls EXCEPT ![s] = NoCall]
    /\ button' = IF c.here = "here" /\ c.what \in Buttons
                 THEN [button EXCEPT ![c.what] = AfterFailure(c.what)] ELSE button
    /\ UNCHANGED <<session, entry, stored, page, ready, open, flags, owed>>

\* storeSession, then router.replace, wherever the tab is by then: the page
\* it is on already stays.
SignedIn(s) ==
    /\ calls[s].pc = "done" /\ calls[s].what \in SignIns /\ calls[s].here # "gone"
    /\ session' = calls[s].ws
    /\ LET going == [calls EXCEPT ![s] = NoCall] IN
       IF page.at = "dashboards" THEN calls' = going /\ UNCHANGED <<entry, ui>>
       ELSE Go("dashboards", <<>>, session', going)
    /\ UNCHANGED <<stored, flags, owed, env>>

\* mutant: onSuccess invalidates nothing
NothingTouched(c) == {}
Touched(c) == {c.key}

\* A first load in flight is not cancelled, nor the fetch of a page that
\* was left: their answer may be older than the change.
Cancels(k) == LET e == entry[k] IN ~Fetching(e) \/ (Loaded(e) /\ k \in Active)

Succeeds(s) ==
    LET c == calls[s] IN
    /\ c.pc = "done" /\ c.what \notin SignIns /\ c.here # "gone"
    /\ entry' = InvalidateQueries(entry, Touched(c), Active)
    /\ owed' = IF Cancels(c.key) THEN [owed EXCEPT ![c.key] = [ws |-> c.ws, len |-> c.len]] ELSE owed
    /\ calls' = [calls EXCEPT ![s] = NoCall]
    /\ IF c.here = "here" /\ c.what \in Buttons
       THEN /\ button' = [button EXCEPT ![c.what] = "idle"]
            /\ open' = (open \ {c.what}) \cup (IF c.what = "createKey" THEN {"issued"} ELSE {})
       ELSE UNCHANGED <<button, open>>
    /\ UNCHANGED <<session, stored, page, ready, flags, env>>

\* The answer to a query, and the queries it brings into view.
Lands(k) ==
    /\ entry[k].fetch.pc = "read"
    /\ Appear(page, [entry EXCEPT ![k] = Landed(@)], session, IF ready THEN Active ELSE Keys)
    /\ UNCHANGED <<session, stored, ui, calls, flags, owed, env>>

-----------------------------------------------------------------------------
(* The card.                                                               *)
MarkEvent ==
    /\ ready /\ CardShown /\ "eventSent" \notin flags /\ "mark" \in mix.may
    /\ flags' = flags \cup {"eventSent"}
    /\ UNCHANGED <<session, entry, stored, ui, calls, owed, env>>
MayDismiss == AllDone
Dismiss ==
    /\ ready /\ CardShown /\ MayDismiss
    /\ flags' = flags \cup {"dismissed"}
    /\ UNCHANGED <<session, entry, stored, ui, calls, owed, env>>

OthersWrite ==
    /\ Does("others")
    /\ \E k \in Keys, w \in Workspaces :
         /\ k[1] \in mix.may /\ (k \in Boards => k[2] = w /\ k[3] <= Len(stored[List("dashboards")][w]))
         /\ \E item \in Items(k) : Write(k, w, item)
    /\ UNCHANGED <<session, entry, ui, calls, flags, owed>>
=============================================================================
