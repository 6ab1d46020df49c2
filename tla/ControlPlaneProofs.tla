------------------------- MODULE ControlPlaneProofs -------------------------
(***************************************************************************)
(* Theorems about ControlPlane, for any users, rows, keys, slots, mixes of *)
(* operations and lengths of a behaviour. The tables only grow in what a   *)
(* request may have found out (Grows), so whoever is suspended at an await *)
(* goes on with facts that are still true (WaitsInOrder); a step is then   *)
(* judged by the request that takes it alone: ReplyKept and MovedKept for  *)
(* reads, WriteKept for writes. What a 500 takes follows from that: Fair.  *)
(* What a query answers is a result's read-out: ResultsKept, and the sums. *)
(***************************************************************************)
EXTENDS ControlPlane, WellFoundedInduction, FiniteSetTheorems, TLAPS

-----------------------------------------------------------------------------
(* Who may call what, as one table.                                        *)
Reads == {"listBoards", "getBoard", "listLinks", "listAlerts", "pdfStatus", "kpi",
          "funnel", "cohort", "forecast", "models"}
Edits == {"createBoard", "updateBoard", "createWidget", "updateWidget", "deleteWidget",
          "createAlert", "updateAlert", "enqueuePdf"}
Ownings == {"deleteBoard", "createLink", "revokeLink", "deleteAlert"}

\* The operations behind WorkspaceGuard.
LEMMA GuardedAre == DOMAIN Guarded = Reads \cup Edits \cup Ownings
BY DEF Guarded, Both, DashboardRoutes, WidgetRoutes, ShareRoutes, AlertRoutes, PdfRoutes,
       EventRoutes, ForecastRoutes, Reads, Edits, Ownings

\* The roles each operation asks for: requireRole of every controller.
LEMMA RolesAre ==
    /\ DOMAIN RolesFor = DOMAIN Guarded \cup {"listKeys", "issueKey", "revokeKey", "invite"}
    /\ \A op \in Reads : RolesFor[op] = AnyRole
    /\ \A op \in Edits : RolesFor[op] = Editors
    /\ \A op \in Ownings \cup {"issueKey", "revokeKey", "invite"} : RolesFor[op] = Owners
    /\ RolesFor["listKeys"] = Editors
<1> USE DEF Both, DashboardRoutes, WidgetRoutes, ShareRoutes, AlertRoutes, PdfRoutes,
            EventRoutes, ForecastRoutes, KeyRoutes, WorkspaceRoutes
<1>1. DOMAIN RolesFor = DOMAIN Guarded \cup {"listKeys", "issueKey", "revokeKey", "invite"}
  <2> HIDE DEF Guarded
  <2> QED BY DEF RolesFor
<1>2. \A op \in Reads : Guarded[op] = AnyRole
  BY DEF Guarded, Reads
<1>3. \A op \in Edits : Guarded[op] = Editors
  BY DEF Guarded, Edits
<1>4. \A op \in Ownings : Guarded[op] = Owners
  BY DEF Guarded, Ownings
<1>5. \A op \in DOMAIN Guarded : RolesFor[op] = Guarded[op]
  BY DEF RolesFor
<1>6. \A op \in {"issueKey", "revokeKey", "invite"} : RolesFor[op] = Owners
  BY GuardedAre DEF RolesFor, Reads, Edits, Ownings
<1>7. RolesFor["listKeys"] = Editors
  BY GuardedAre DEF RolesFor, Reads, Edits, Ownings
<1> QED BY <1>1, <1>2, <1>3, <1>4, <1>5, <1>6, <1>7, GuardedAre DEF Reads, Edits, Ownings
-----------------------------------------------------------------------------
(* What a request has found stays so.                                      *)

\* What no step of anybody undoes.
Grows ==
    /\ Workspaces \subseteq Workspaces'
    /\ \A w, u \in Users : member[w][u] # NONE => member'[w][u] # NONE
    /\ \A r \in Rows : rows[r].kind # "free" =>
         /\ rows'[r].kind = rows[r].kind /\ rows'[r].ws = rows[r].ws
         /\ rows'[r].board = rows[r].board /\ rows'[r].exp = rows[r].exp
         /\ rows[r].state # "live" => rows'[r].state # "live"
    /\ \A p \in Prefixes : keys[p].state # "free" =>
         keys'[p].state # "free" /\ keys'[p].ws = keys[p].ws

\* What the others' steps do to a request in flight.
Waits(t) ==
    /\ DOMAIN req'[t] = Fields
    /\ req'[t].op = req[t].op /\ req'[t].user = req[t].user /\ req'[t].ws = req[t].ws
    /\ req'[t].x = req[t].x /\ req'[t].y = req[t].y /\ req'[t].pc = req[t].pc
    /\ req[t].held \subseteq req'[t].held
    /\ req[t].op \in DOMAIN RolesFor =>
         ResolveRole(t)' \in req'[t].held \cup {ResolveRole(t)}

\* A row keeps its kind: ids that were good to send stay so.
LEMMA KindsGrow ==
    ASSUME TypeOK, Grows, NEW k, k # "free"
    PROVE  OfKind(k) \subseteq OfKind(k)'
BY DEF OfKind, Grows, TypeOK

\* What a request may carry stays among what requests may carry.
LEMMA ChoicesGrow ==
    ASSUME TypeOK, Grows, NEW op, NEW u, NEW x
    PROVE  /\ Firsts(op) \subseteq Firsts(op)'
           /\ op \in {"updateWidget", "deleteWidget", "invite"} =>
                Seconds(op, x) \subseteq Seconds(op, x)'
           /\ Callers(op) \subseteq Callers(op)'
           /\ Spaces(op, u) \subseteq Spaces(op, u)'
<1>1. \A k \in {"board", "widget", "link", "alert", "pdf"} : OfKind(k) \subseteq OfKind(k)'
  BY KindsGrow
<1>2. Workspaces \subseteq Workspaces'
  BY DEF Grows
<1>3. Firsts(op) \subseteq Firsts(op)'
  BY <1>1 DEF Firsts
<1>4. op \in {"updateWidget", "deleteWidget", "invite"} =>
        Seconds(op, x) \subseteq Seconds(op, x)'
  BY <1>1 DEF Seconds
<1>5. Callers(op) \subseteq Callers(op)'
  BY <1>2 DEF Callers
<1>6. Spaces(op, u) \subseteq Spaces(op, u)'
  BY <1>2 DEF Spaces
<1> QED BY <1>3, <1>4, <1>5, <1>6

\* The rows a request is about, by its operation.
LEMMA Subjects ==
    ASSUME TypeOK, NEW s \in Slots, AsSent(s)
    PROVE  /\ req[s].op \in OnRow \cup OnBoard \cup {"resolve", "getBoard", "enqueuePdf", "pdfStatus"} =>
                req[s].x \in Rows /\ rows[req[s].x].kind # "free"
           /\ req[s].op \in OnRow \cap {"createWidget", "updateBoard", "deleteBoard", "createLink"} =>
                req[s].x \in OfKind("board")
           /\ req[s].op \in OnBoard => req[s].x \in OfKind("widget") /\ req[s].y \in OfKind("board")
           /\ req[s].op \in {"revokeLink", "resolve"} => req[s].x \in OfKind("link")
           /\ req[s].op \in {"updateAlert", "deleteAlert"} => req[s].x \in OfKind("alert")
           /\ req[s].op = "revokeKey" => req[s].x \in Prefixes
           /\ req[s].op = "invite" => req[s].x \in Users /\ req[s].y \in {"member", "viewer"}
BY DEF AsSent, Firsts, Seconds, OfKind, OnRow, OnBoard

\* Whose request it is and where it goes.
LEMMA Parties ==
    ASSUME TypeOK, NEW s \in Slots, AsSent(s)
    PROVE  /\ Workspaces \subseteq Users
           /\ req[s].op # "resolve" => req[s].user \in Users
           /\ req[s].op \notin {"resolve", "signup", "login"} => req[s].user \in Workspaces
           /\ req[s].op \in DOMAIN RolesFor \cup {"connect", "getWorkspace"} =>
                req[s].ws \in Workspaces
           /\ req[s].op \in {"signup", "login", "listWorkspaces"} => req[s].ws = req[s].user
<1>1. Workspaces \subseteq Users
  BY DEF TypeOK, Workspaces
<1> HIDE DEF Workspaces
<1>2. {"signup", "login", "listWorkspaces"} \cap (DOMAIN RolesFor \cup {"connect", "getWorkspace"}) = {}
  BY RolesAre, GuardedAre DEF Reads, Edits, Ownings
<1> QED BY <1>1, <1>2 DEF AsSent, Callers, Spaces

\* Time goes on while the queries are within theirs.
Clock == \/ now' = now
         \/ now' = now + 1 /\ now < MaxTime /\ QueryInTime

\* What a request in flight has found out is not undone while it waits.
LEMMA WaitsInOrder ==
    ASSUME TypeOK, NEW t \in Slots, Busy(t), AsSent(t), AsFound(t), AsAllowed(t),
           Grows, Clock, Waits(t)
    PROVE  AsSent(t)' /\ AsFound(t)' /\ AsAllowed(t)'
<1>1. AsSent(t)'
  BY ChoicesGrow DEF AsSent, Waits
<1>2. AsAllowed(t)'
  BY DEF AsAllowed, At, Waits
<1>3. AsFound(t)'
  <2>1. /\ At(t, "signup", "create")' => req'[t].y # <<>>
        /\ (req[t].op = "createLink" =>
              req[t].y \in IF req[t].pc = "write" THEN 0..MaxTime + 1 ELSE {0, 1})'
        /\ At(t, "issueKey", "create")' => req'[t].x \in Prefixes
    BY DEF AsFound, Waits, At
  <2>2. (At(t, "login", "home") => req[t].user \in Workspaces)'
    BY DEF AsFound, Waits, At, Grows
  <2>3. (req[t].op \in OnRow /\ req[t].pc = "write" => rows[req[t].x].ws = req[t].ws)'
    BY Subjects DEF AsFound, Waits, Grows
  <2>4. /\ (req[t].op \in OnBoard /\ req[t].pc \in {"find", "write"} => rows[req[t].y].ws = req[t].ws)'
        /\ (req[t].op \in OnBoard /\ req[t].pc = "write" => rows[req[t].x].board = req[t].y)'
    BY Subjects DEF AsFound, Waits, Grows, OfKind
  <2>5. (At(t, "revokeKey", "write") => keys[req[t].x].state # "free" /\ keys[req[t].x].ws = req[t].ws)'
    BY Subjects DEF AsFound, Waits, Grows, At
  <2>6. (req[t].op = "connect" /\ req[t].pc \in {"subscribing", "live"} => ResolveRole(t) # NONE)'
    BY Parties DEF AsFound, Waits, Grows, ResolveRole
  <2>7. (req[t].op = "resolve" /\ req[t].y # "live" =>
           /\ ~LinkLives(req[t].x) /\ req[t].pc # "page"
           /\ req[t].pc = "record" => rows[req[t].x].state # "live")'
    <3> SUFFICES ASSUME req[t].op = "resolve", req[t].y # "live"
                 PROVE  (/\ ~LinkLives(req[t].x) /\ req[t].pc # "page"
                         /\ req[t].pc = "record" => rows[req[t].x].state # "live")'
      BY DEF Waits
    <3> DEFINE x == req[t].x
    <3>1. /\ x \in Rows /\ rows[x].kind # "free" /\ rows[x].exp \in Int
          /\ now \in Int /\ now' \in Int /\ now <= now'
      BY Subjects, RequestsAssumption DEF TypeOK, RowOK, Clock
    <3>2. /\ rows[x].state # "live" => rows'[x].state # "live"
          /\ rows'[x].exp = rows[x].exp /\ req'[t].x = x
      BY <3>1 DEF Grows, Waits
    <3>3. ~LinkLives(x) /\ req[t].pc # "page" /\ (req[t].pc = "record" => rows[x].state # "live")
      BY DEF AsFound
    <3>4. ~LinkLives(req[t].x)'
      BY <3>1, <3>2, <3>3 DEF LinkLives
    <3> QED BY <3>2, <3>3, <3>4 DEF Waits
  <2>8. (req[t].op \in Queries /\ req[t].pc = "store" =>
              req[t].y.asOf \in 0..now /\ now - req[t].y.asOf <= QuerySpan)'
    <3> SUFFICES ASSUME req[t].op \in Queries, req[t].pc = "store"
                 PROVE  req[t].y.asOf \in 0..now' /\ now' - req[t].y.asOf <= QuerySpan
      BY DEF Waits, Queries
    <3>1. req[t].y.asOf \in 0..now /\ now - req[t].y.asOf <= QuerySpan
      BY DEF AsFound
    <3>2. now' = now \/ (now' = now + 1 /\ now - req[t].y.asOf < QuerySpan)
      BY DEF Clock, QueryInTime
    <3>3. now \in Nat /\ QuerySpan \in Nat
      BY RequestsAssumption, AnalyticsAssumption DEF TypeOK
    <3> QED BY <3>1, <3>2, <3>3
  <2> QED BY <2>1, <2>2, <2>3, <2>4, <2>5, <2>6, <2>7, <2>8 DEF AsFound
<1> QED BY <1>1, <1>2, <1>3

-----------------------------------------------------------------------------
(* What is to be shown of every step, and what a step of one request that  *)
(* writes nothing takes.                                                   *)
Right == AnswersStayInside /\ AnswersAreRecent /\ ServedLinkWasLive
Kept == InOrder' /\ Right' /\ Authorised

Lists == {"listBoards", "getBoard", "listLinks", "listAlerts", "pdfStatus",
          "listKeys", "forecast", "models"}
Homes == {"signup", "login", "listWorkspaces", "getWorkspace"}

\* An answer with a 200 is one the caller may have.
Answers(r, val) ==
    /\ r.op \in Queries => val.ws = r.ws /\ now - val.asOf <= Ttl(r.op) + QuerySpan
    /\ r.op \in Lists => val \subseteq {r.ws}
    /\ r.op \in Homes => val # {} /\ \A w \in val : member[w][r.user] # NONE
    /\ r.op = "resolve" => val = "live"

Still == UNCHANGED <<accounts, keys, rows, cache, gateway, env>>

\* An answered request leaves its slot, and nobody else's changes.
LEMMA ReplyIs ==
    ASSUME DOMAIN req = Slots, NEW s \in Slots, NEW code, NEW val, Reply(s, code, val)
    PROVE  /\ DOMAIN req' = Slots /\ ~Busy(s)'
           /\ \A t \in Slots \ {s} : req'[t] = req[t]
           /\ out'.op = req[s].op /\ out'.user = req[s].user /\ out'.ws = req[s].ws
           /\ out'.code = code /\ out'.val = val
BY DEF Reply, Says, Busy, Idle

\* A request goes on to pc, perhaps with another x or y.
Moved(s, pc) ==
    /\ DOMAIN req' = Slots /\ DOMAIN req'[s] = DOMAIN req[s]
    /\ req'[s].pc = pc
    /\ req'[s].op = req[s].op /\ req'[s].user = req[s].user /\ req'[s].ws = req[s].ws
    /\ req'[s].held = req[s].held
    /\ \A t \in Slots \ {s} : req'[t] = req[t]

\* Goto moves one request and changes nothing else of it.
LEMMA GotoIs ==
    ASSUME DOMAIN req = Slots, NEW s \in Slots, DOMAIN req[s] = Fields, NEW pc, Goto(s, pc)
    PROVE  Moved(s, pc) /\ req'[s].x = req[s].x /\ req'[s].y = req[s].y /\ out' = Silence
BY DEF Goto, Moved, Fields

\* Note moves one request and keeps one thing it found.
LEMMA NoteIs ==
    ASSUME DOMAIN req = Slots, NEW s \in Slots, DOMAIN req[s] = Fields, NEW pc, NEW y,
           Note(s, pc, y)
    PROVE  Moved(s, pc) /\ req'[s].x = req[s].x /\ req'[s].y = y /\ out' = Silence
BY DEF Note, Moved, Fields

\* Nothing is undone by a step that leaves the tables alone.
LEMMA SameGrows == ASSUME UNCHANGED <<accounts, keys, rows>> PROVE Grows
BY DEF Grows, accounts, Workspaces

\* Nothing is written: who does not move waits.
LEMMA SomeMove ==
    ASSUME InOrder, UNCHANGED <<accounts, keys, rows>>, Clock, left' \in Nat, DOMAIN req' = Slots,
           \A t \in Slots : req'[t] # req[t] /\ Busy(t)' =>
             /\ AsSent(t)' /\ AsFound(t)' /\ AsAllowed(t)'
             /\ At(t, "connect", "live")' => req'[t].ws \in onChannel',
           onChannel \subseteq onChannel' \/ \A t \in Slots : ~Busy(t)',
           subscribed' \subseteq onChannel', onChannel' \subseteq Workspaces,
           DOMAIN cache' = Queries \X Users, CacheInOrder'
    PROVE  InOrder'
<1> USE DEF InOrder
<1>1. RequestsInOrder'
  <2> SUFFICES ASSUME NEW t \in Slots, Busy(t)' PROVE (AsSent(t) /\ AsFound(t) /\ AsAllowed(t))'
    BY DEF RequestsInOrder
  <2>1. CASE req'[t] = req[t]
    <3>1. Busy(t) /\ Waits(t)
      BY <2>1 DEF Busy, Waits, ResolveRole, accounts, RequestsInOrder, AsSent
    <3> QED BY <3>1, SameGrows, WaitsInOrder DEF RequestsInOrder
  <2>2. CASE req'[t] # req[t]
    BY <2>2
  <2> QED BY <2>1, <2>2
<1>2. TypeOK'
  <2>1. Workspaces' = Workspaces
    BY DEF accounts, Workspaces
  <2>2. subscribed' \cup onChannel' \subseteq Workspaces'
    BY <2>1
  <2>3. now' \in 0..MaxTime
    BY RequestsAssumption DEF TypeOK, Clock
  <2> QED BY <2>1, <2>2, <2>3 DEF TypeOK, accounts
<1>3. NoOrphans' /\ SlugsUnique'
  BY DEF NoOrphans, SlugsUnique, accounts, Workspaces, OfKind
<1>4. HelloMeansLive'
  <2> SUFFICES ASSUME NEW t \in Slots, Busy(t)', At(t, "connect", "live")'
               PROVE  req'[t].ws \in onChannel' /\ ResolveRole(t)' # NONE
    BY DEF HelloMeansLive, At
  <2>1. ResolveRole(t)' # NONE
    BY <1>1 DEF RequestsInOrder, AsFound, At
  <2>2. CASE req'[t] = req[t]
    <3>1. onChannel \subseteq onChannel'
      BY DEF Busy
    <3> QED BY <2>1, <2>2, <3>1 DEF HelloMeansLive, Busy, At
  <2> QED BY <2>1, <2>2
<1> QED BY <1>1, <1>2, <1>3, <1>4

\* One request moves, nothing is written.
LEMMA OneMoves ==
    ASSUME InOrder, NEW s \in Slots, UNCHANGED <<accounts, keys, rows, now>>, left' \in Nat,
           DOMAIN req' = Slots, \A t \in Slots \ {s} : req'[t] = req[t],
           Busy(s)' => /\ AsSent(s)' /\ AsFound(s)' /\ AsAllowed(s)'
                       /\ At(s, "connect", "live")' => req'[s].ws \in onChannel',
           onChannel \subseteq onChannel', subscribed' \subseteq onChannel',
           onChannel' \subseteq Workspaces,
           DOMAIN cache' = Queries \X Users, CacheInOrder'
    PROVE  InOrder'
<1>1. Clock
  BY DEF Clock, accounts
<1> QED BY <1>1, SomeMove

\* Nor by one that leaves everything but the requests alone.
LEMMA StillGrows == ASSUME Still PROVE Grows /\ now' = now
BY SameGrows DEF Still, env

\* One request moves and everything else stays.
LEMMA StillKept ==
    ASSUME InOrder, NEW s \in Slots, Still, DOMAIN req' = Slots,
           \A t \in Slots \ {s} : req'[t] = req[t],
           Busy(s)' => /\ AsSent(s)' /\ AsFound(s)' /\ AsAllowed(s)'
                       /\ At(s, "connect", "live")' => req'[s].ws \in onChannel
    PROVE  InOrder'
<1>1. DOMAIN cache' = Queries \X Users /\ CacheInOrder'
  BY DEF InOrder, CacheInOrder, Still, env
<1>2. /\ UNCHANGED <<accounts, keys, rows, now>> /\ left' \in Nat
      /\ onChannel' = onChannel /\ subscribed' \subseteq onChannel'
      /\ onChannel' \subseteq Workspaces
  BY DEF InOrder, TypeOK, HelloMeansLive, Still, env, gateway
<1> QED BY <1>1, <1>2, OneMoves

\* A step that writes nothing needs no role.
LEMMA StillAuthorised == ASSUME UNCHANGED <<member, keys, rows>> PROVE Authorised
BY DEF Authorised

\* At "home" the user has a workspace.
LEMMA HomeIsThere ==
    ASSUME InOrder'
    PROVE  \A s \in Slots : (Busy(s) /\ At(s, "login", "home") => MayRead(req[s].user) # {})'
BY DEF InOrder, RequestsInOrder, AsFound, MayRead

\* An answer from a read is right if the caller may have it.
LEMMA ReplyKept ==
    ASSUME InOrder, NEW s \in Slots, NEW code, NEW val, Reply(s, code, val), Still,
           req[s].op # "tick", code = 200 => Answers(req[s], val)
    PROVE  Kept
<1>1. InOrder'
  BY ReplyIs, StillKept DEF InOrder
<1>2. Authorised
  BY StillAuthorised DEF Still, accounts
<1>3. UNCHANGED <<member, now>>
  BY DEF Still, accounts, env
<1>4. Right'
  BY <1>1, <1>3, ReplyIs, HomeIsThere
     DEF InOrder, Right, AnswersStayInside, AnswersAreRecent, ServedLinkWasLive, Answers,
         Lists, Homes, Ttl
<1> QED BY <1>1, <1>2, <1>4 DEF Kept

\* The answer to nobody is right.
LEMMA SilenceRight ==
    ASSUME InOrder', out' = Silence
    PROVE  Right'
BY HomeIsThere DEF Right, AnswersStayInside, AnswersAreRecent, ServedLinkWasLive, Silence, Queries, NONE

\* A request goes on to its next query, having found something out.
LEMMA MovedKept ==
    ASSUME InOrder, NEW s \in Slots, Busy(s), NEW pc, Moved(s, pc), Still, out' = Silence,
           pc # "guard" /\ (pc = "role" => req[s].op \in DOMAIN RolesFor),
           req[s].op # "issueKey" => req'[s].x = req[s].x,
           req[s].op \in OnBoard \cup {"invite"} => req'[s].y = req[s].y,
           req[s].op \in DOMAIN RolesFor /\ pc # "role" =>
             req[s].held \cap RolesFor[req[s].op] # {},
           AsFound(s)', ~(req[s].op = "connect" /\ pc = "live")
    PROVE  Kept
<1>1. AsSent(s) /\ AsAllowed(s) /\ TypeOK
  BY DEF InOrder, RequestsInOrder
<1>2. AsSent(s)'
  BY <1>1, ChoicesGrow, StillGrows DEF AsSent, Moved, OnBoard
<1>3. AsAllowed(s)'
  BY <1>1 DEF AsAllowed, Moved, ResolveRole, At, Still, accounts
<1>4. InOrder'
  <2>1. ~At(s, "connect", "live")'
    BY DEF At, Moved
  <2> QED BY <1>2, <1>3, <2>1, StillKept DEF Moved
<1>5. Authorised
  BY StillAuthorised DEF Still, accounts
<1> QED BY <1>4, <1>5, SilenceRight DEF Kept

\* What the invariant says of one request in flight.
LEMMA InFlight ==
    ASSUME InOrder, NEW s \in Slots, Busy(s)
    PROVE  /\ TypeOK /\ DOMAIN req = Slots /\ DOMAIN req[s] = Fields
           /\ AsSent(s) /\ AsFound(s) /\ AsAllowed(s)
BY DEF InOrder, RequestsInOrder, AsSent

-----------------------------------------------------------------------------
(* The guards.                                                             *)

\* Who has a role now has held it since the request came.
LEMMA RoleHeld ==
    ASSUME InOrder, NEW s \in Slots, Busy(s), req[s].op \in DOMAIN RolesFor, ResolveRole(s) # NONE
    PROVE  ResolveRole(s) \in req[s].held /\ ResolveRole(s) \in Roles
<1>1. req[s].ws \in Users /\ req[s].user \in Users
  BY InFlight, Parties, RolesAre, GuardedAre DEF Reads, Edits, Ownings
<1> QED BY <1>1, InFlight DEF AsAllowed, ResolveRole, TypeOK

\* WorkspaceGuard and requireRole let through who has held a role.
LEMMA AuthoriseKept ==
    ASSUME InOrder, NEW s \in Slots, Authorise(s)
    PROVE  Kept
<1>1. Still
  BY DEF Authorise, Still
<1>2. /\ Busy(s) /\ req[s].op \in DOMAIN RolesFor
      /\ req[s].pc = "guard" => req[s].op \in DOMAIN Guarded
  <2>1. Busy(s)
    BY DEF Authorise, WorkspaceGuard, RequireRole, Busy
  <2> QED BY <2>1, InFlight, RolesAre DEF Authorise, WorkspaceGuard, RequireRole, AsAllowed
<1>3. req[s].op \notin {"tick", "signup", "login", "resolve", "connect"}
  BY <1>2, RolesAre, GuardedAre DEF Reads, Edits, Ownings
<1>4. ASSUME NEW pc \in {"role", "service", "upsert"}, Goto(s, pc),
             req[s].pc \in {"guard", "role"}, pc # "role" => Allowed(s)
      PROVE  Kept
  <2>1. Moved(s, pc) /\ req'[s].x = req[s].x /\ req'[s].y = req[s].y /\ out' = Silence
    BY <1>2, <1>4, GotoIs, InFlight
  <2>2. pc # "role" => req[s].held \cap RolesFor[req[s].op] # {}
    <3> SUFFICES ASSUME pc # "role" PROVE req[s].held \cap RolesFor[req[s].op] # {}
      OBVIOUS
    <3>1. ResolveRole(s) \in RolesFor[req[s].op] /\ ResolveRole(s) # NONE
      BY <1>2, <1>4, RolesAre, GuardedAre
         DEF Allowed, AnyRole, Roles, Editors, Owners, NONE
    <3> QED BY <1>2, <3>1, RoleHeld
  <2>3. AsFound(s)'
    BY <1>2, <1>3, <1>4, <2>1, InFlight DEF AsFound, At, Moved
  <2> QED BY <1>1, <1>2, <1>3, <2>1, <2>2, <2>3, MovedKept
<1>5. CASE WorkspaceGuard(s)
  <2>1. CASE Reply(s, 403, NONE)
    BY <1>1, <1>3, <2>1, ReplyKept
  <2>2. CASE /\ ResolveRole(s) # NONE
             /\ Goto(s, IF RolesFor[req[s].op] = AnyRole THEN "service" ELSE "role")
    <3>1. RolesFor[req[s].op] = AnyRole => Allowed(s)
      BY <1>2, <2>2, RoleHeld DEF Allowed, AnyRole
    <3> QED BY <1>4, <1>5, <2>2, <3>1 DEF WorkspaceGuard
  <2> QED BY <1>5, <2>1, <2>2 DEF WorkspaceGuard
<1>6. CASE RequireRole(s)
  <2>1. CASE Reply(s, 403, NONE)
    BY <1>1, <1>3, <2>1, ReplyKept
  <2>2. CASE Allowed(s) /\ Goto(s, IF req[s].op = "invite" THEN "upsert" ELSE "service")
    BY <1>4, <1>6, <2>2 DEF RequireRole
  <2> QED BY <1>6, <2>1, <2>2 DEF RequireRole
<1> QED BY <1>5, <1>6 DEF Authorise

-----------------------------------------------------------------------------
(* Steps past the guards that write nothing.                               *)
\* Past the guards a request that moves on stays in order if what it found is true.
LEMMA GoesOn ==
    ASSUME InOrder, NEW s \in Slots, NEW pc, Goto(s, pc), Still,
           {req[s].pc, pc} \cap {"idle", "guard", "role"} = {},
           req[s].op \notin {"invite", "connect"},
           Moved(s, pc) /\ req'[s].x = req[s].x /\ req'[s].y = req[s].y => AsFound(s)'
    PROVE  Kept
<1>1. Busy(s) /\ AsAllowed(s) /\ DOMAIN req = Slots /\ DOMAIN req[s] = Fields
  BY InFlight DEF Busy
<1>2. Moved(s, pc) /\ req'[s].x = req[s].x /\ req'[s].y = req[s].y /\ out' = Silence
  BY <1>1, GotoIs
<1> QED BY <1>1, <1>2, MovedKept DEF AsAllowed, At

\* The same for a request that keeps what it found.
LEMMA NotesDown ==
    ASSUME InOrder, NEW s \in Slots, NEW pc, NEW y, Note(s, pc, y), Still,
           {req[s].pc, pc} \cap {"idle", "guard", "role"} = {},
           req[s].op \notin {"invite", "connect"} \cup OnBoard,
           Moved(s, pc) /\ req'[s].x = req[s].x /\ req'[s].y = y => AsFound(s)'
    PROVE  Kept
<1>1. Busy(s) /\ AsAllowed(s) /\ DOMAIN req = Slots /\ DOMAIN req[s] = Fields
  BY InFlight DEF Busy
<1>2. Moved(s, pc) /\ req'[s].x = req[s].x /\ req'[s].y = y /\ out' = Silence
  BY <1>1, NoteIs
<1> QED BY <1>1, <1>2, MovedKept DEF AsAllowed, At

\* The oldest of a user's workspaces is one of them.
LEMMA FirstIs ==
    ASSUME TypeOK, NEW S \in SUBSET Workspaces, S # {}
    PROVE  FirstOf(S) # {} /\ FirstOf(S) \subseteq S
<1> DEFINE T == {i \in 1..Len(joined) : joined[i] \in S}
           R == OpToRel(<, Nat)
<1>1. T \subseteq Nat /\ T # {}
  <2>1. T \subseteq Nat
    BY DEF TypeOK
  <2>2. PICK w \in S : w \in Workspaces
    OBVIOUS
  <2>3. PICK i \in 1..Len(joined) : joined[i] = w
    BY <2>2 DEF Workspaces
  <2> QED BY <2>1, <2>3
<1>2. IsWellFoundedOn(R, Nat)
  BY NatLessThanWellFounded
<1>3. PICK m \in T : \A k \in T : ~(<<k, m>> \in R)
  <2> HIDE DEF T, R
  <2> QED BY <1>1, <1>2, WFMin
<1>4. \A k \in 1..m - 1 : joined[k] \notin S
  <2> SUFFICES ASSUME NEW k \in 1..m - 1, joined[k] \in S PROVE FALSE
    OBVIOUS
  <2>1. k \in T /\ k < m /\ k \in Nat /\ m \in Nat
    BY DEF TypeOK
  <2> QED BY <1>3, <2>1 DEF OpToRel
<1> QED BY <1>3, <1>4 DEF FirstOf

\* The workspaces of a user: each has a role for them, and their own is one.
LEMMA MayReadIs ==
    ASSUME TypeOK, NEW u
    PROVE  /\ MayRead(u) \subseteq Workspaces
           /\ \A w \in MayRead(u) : member[w][u] # NONE
           /\ u \in Workspaces => u \in MayRead(u)
BY DEF MayRead, TypeOK

\* Sign-up until it writes, login, refresh and the two reads of workspaces.
LEMMA AccountReads ==
    ASSUME InOrder, NEW s \in Slots, Still,
           \/ EmailFree(s) \/ UniqueSlug(s) \/ Login(s) \/ Refresh(s)
           \/ ListForUser(s) \/ GetForUser(s)
    PROVE  Kept
<1> DEFINE u == req[s].user
<1>0. Busy(s) /\ TypeOK /\ DOMAIN req = Slots /\ DOMAIN req[s] = Fields
  BY InFlight DEF EmailFree, UniqueSlug, Login, Refresh, ListForUser, GetForUser, At, Busy
<1>1. CASE EmailFree(s)
  <2>1. CASE Reply(s, 409, NONE)
    BY <1>1, <2>1, ReplyKept DEF EmailFree, At
  <2>2. CASE Goto(s, "slug")
    BY <1>1, <2>2, GoesOn DEF EmailFree, At, Moved, AsFound, OnRow, OnBoard
  <2> QED BY <1>1, <2>1, <2>2 DEF EmailFree
<1>2. CASE UniqueSlug(s)
  <2>1. ASSUME NEW a, NEW b, Note(s, "create", <<a, b>>) PROVE Kept
    <3>1. <<a, b>> # <<>>
      OBVIOUS
    <3> QED BY <1>2, <2>1, <3>1, NotesDown DEF UniqueSlug, At, Moved, AsFound, OnRow, OnBoard
  <2>2. ASSUME NEW y, Note(s, "slug", y) PROVE Kept
    BY <1>2, <2>2, NotesDown DEF UniqueSlug, At, Moved, AsFound, OnRow, OnBoard
  <2> QED BY <1>2, <2>1, <2>2 DEF UniqueSlug
<1>3. CASE Login(s)
  <2>1. CASE Reply(s, 401, NONE)
    BY <1>3, <2>1, ReplyKept DEF Login, At
  <2>2. CASE At(s, "login", "service") /\ u \in Workspaces /\ Goto(s, "home")
    BY <2>2, GoesOn DEF At, Moved, AsFound, OnRow, OnBoard, Still, accounts, Workspaces
  <2>3. CASE At(s, "login", "home") /\ MayRead(u) # {} /\ Reply(s, 200, FirstOf(MayRead(u)))
    <3>1. FirstOf(MayRead(u)) # {} /\ FirstOf(MayRead(u)) \subseteq MayRead(u)
      BY <1>0, <2>3, FirstIs, MayReadIs
    <3>2. Answers(req[s], FirstOf(MayRead(u)))
      BY <1>0, <2>3, <3>1, MayReadIs DEF Answers, At, Queries, Lists, Homes
    <3> QED BY <2>3, <3>2, ReplyKept DEF At
  <2> QED BY <1>3, <2>1, <2>2, <2>3 DEF Login
<1>4. CASE Refresh(s)
  BY <1>4, ReplyKept DEF Refresh, At, Answers, Queries, Lists, Homes
<1>5. CASE ListForUser(s)
  <2>1. MayRead(u) # {} /\ \A w \in MayRead(u) : member[w][u] # NONE
    BY <1>0, <1>5, InFlight, Parties, MayReadIs DEF ListForUser, At
  <2>2. Answers(req[s], MayRead(u))
    BY <1>5, <2>1 DEF Answers, ListForUser, At, Queries, Lists, Homes
  <2> QED BY <1>5, <2>2, ReplyKept DEF ListForUser, At
<1>6. CASE GetForUser(s)
  <2>1. CASE Reply(s, 404, NONE)
    BY <1>6, <2>1, ReplyKept DEF GetForUser, At
  <2>2. CASE req[s].ws \in MayRead(u) /\ Reply(s, 200, {req[s].ws})
    <3>1. Answers(req[s], {req[s].ws})
      BY <1>0, <1>6, <2>2, MayReadIs DEF Answers, GetForUser, At, Queries, Lists, Homes
    <3> QED BY <1>6, <2>2, <3>1, ReplyKept DEF GetForUser, At
  <2> QED BY <1>6, <2>1, <2>2 DEF GetForUser
<1> QED BY <1>1, <1>2, <1>3, <1>4, <1>5, <1>6

\* The reads of invitations and keys.
LEMMA KeyReads ==
    ASSUME InOrder, NEW s \in Slots, Still,
           \/ Invite(s) /\ At(s, "invite", "service")
           \/ DrawPrefix(s) \/ ListKeys(s)
           \/ CreateKey(s) /\ Reply(s, 500, NONE)
           \/ RevokeKey(s) /\ At(s, "revokeKey", "service")
    PROVE  Kept
<1>0. Busy(s) /\ TypeOK /\ DOMAIN req = Slots /\ DOMAIN req[s] = Fields /\ AsAllowed(s)
  BY InFlight DEF Invite, DrawPrefix, ListKeys, CreateKey, RevokeKey, At, Busy
<1>1. CASE Invite(s) /\ At(s, "invite", "service")
  <2>1. CASE Reply(s, 200, NONE)
    BY <1>1, <2>1, ReplyKept DEF At, Answers, Queries, Lists, Homes
  <2>2. CASE Goto(s, "role")
    <3>1. Moved(s, "role") /\ req'[s].x = req[s].x /\ req'[s].y = req[s].y /\ out' = Silence
      BY <1>0, <2>2, GotoIs
    <3>2. AsFound(s)'
      BY <1>1, <3>1 DEF At, Moved, AsFound, OnRow, OnBoard
    <3> QED BY <1>0, <1>1, <3>1, <3>2, RolesAre, MovedKept DEF At
  <2> QED BY <1>1, <2>1, <2>2 DEF Invite, At
<1>2. CASE DrawPrefix(s)
  <2>1. ASSUME NEW p \in Prefixes, out' = Silence,
               req' = [req EXCEPT ![s].pc = "create", ![s].x = p]
        PROVE  Kept
    <3>1. Moved(s, "create") /\ req'[s].x = p
      BY <1>0, <2>1 DEF Moved, Fields
    <3>2. AsFound(s)'
      BY <1>2, <3>1 DEF DrawPrefix, At, Moved, AsFound, OnRow, OnBoard
    <3>3. req[s].held \cap RolesFor[req[s].op] # {}
      BY <1>0, <1>2, RolesAre DEF AsAllowed, DrawPrefix, At
    <3> QED BY <1>0, <1>2, <2>1, <3>1, <3>2, <3>3, MovedKept DEF DrawPrefix, At, OnBoard
  <2>2. CASE Note(s, "service", req[s].y + 1)
    BY <1>2, <2>2, NotesDown DEF DrawPrefix, At, Moved, AsFound, OnRow, OnBoard
  <2>3. CASE Reply(s, 500, "exhausted")
    BY <1>2, <2>3, ReplyKept DEF DrawPrefix, At
  <2> QED BY <1>2, <2>1, <2>2, <2>3 DEF DrawPrefix
<1>3. CASE ListKeys(s)
  BY <1>3, ReplyKept DEF ListKeys, At, Answers, Queries, Lists, Homes
<1>4. CASE CreateKey(s) /\ Reply(s, 500, NONE)
  BY <1>4, ReplyKept DEF CreateKey, At
<1>5. CASE RevokeKey(s) /\ At(s, "revokeKey", "service")
  <2>1. ASSUME NEW code \in {404, 200}, Reply(s, code, NONE) PROVE Kept
    BY <1>5, <2>1, ReplyKept DEF At, Answers, Queries, Lists, Homes
  <2>2. CASE /\ keys[req[s].x].state # "free" /\ keys[req[s].x].ws = req[s].ws
             /\ Goto(s, "write")
    BY <1>5, <2>2, GoesOn DEF At, Moved, AsFound, OnRow, OnBoard, Still
  <2> QED BY <1>5, <2>1, <2>2 DEF RevokeKey, At
<1> QED BY <1>1, <1>2, <1>3, <1>4, <1>5

-----------------------------------------------------------------------------
(* The rows' reads.                                                        *)

\* A list of rows shows the workspace it was asked for.
LEMMA SpacesAre ==
    ASSUME NEW k, NEW w
    PROVE  SpacesOf(k, w) \subseteq {w}
BY DEF SpacesOf, Found

\* The lists, the reads of one row, and the status of a job.
LEMMA BoardLists ==
    ASSUME InOrder, NEW s \in Slots, Still,
           \/ ListBoards(s) \/ GetBoard(s) \/ ListLinks(s) \/ ListAlerts(s) \/ PdfStatus(s)
    PROVE  Kept
<1>1. ASSUME NEW k, Reply(s, 200, SpacesOf(k, req[s].ws)),
             req[s].op \in {"listBoards", "listLinks", "listAlerts"}
      PROVE  Kept
  <2>1. Answers(req[s], SpacesOf(k, req[s].ws))
    BY <1>1, SpacesAre DEF Answers, Queries, Lists, Homes
  <2> QED BY <1>1, <2>1, ReplyKept
<1>2. CASE ListBoards(s) \/ ListLinks(s) \/ ListAlerts(s)
  BY <1>1, <1>2 DEF ListBoards, ListLinks, ListAlerts, Read, At
<1>3. CASE GetBoard(s) \/ PdfStatus(s)
  <2>1. CASE Reply(s, 404, NONE)
    BY <1>3, <2>1, ReplyKept DEF GetBoard, PdfStatus, At
  <2>2. CASE rows[req[s].x].ws = req[s].ws /\ Reply(s, 200, {rows[req[s].x].ws})
    <3>1. Answers(req[s], {rows[req[s].x].ws})
      BY <1>3, <2>2 DEF GetBoard, PdfStatus, At, Answers, Queries, Lists, Homes
    <3> QED BY <1>3, <2>2, <3>1, ReplyKept DEF GetBoard, PdfStatus, At
  <2> QED BY <1>3, <2>1, <2>2
          DEF GetBoard, PdfStatus, BoardFound, Found, Read, NotFound
<1> QED BY <1>2, <1>3

\* The check before a write: what was found is noted in AsFound.
LEMMA Checks ==
    ASSUME InOrder, NEW s \in Slots, Still,
           \/ UpdateBoard(s) /\ At(s, "updateBoard", "service")
           \/ DeleteBoard(s) /\ At(s, "deleteBoard", "service")
           \/ CreateWidget(s) /\ At(s, "createWidget", "service")
           \/ UpdateAlert(s) /\ At(s, "updateAlert", "service")
           \/ DeleteAlert(s) /\ At(s, "deleteAlert", "service")
           \/ RevokeLink(s) /\ At(s, "revokeLink", "service")
           \/ AssertDashboard(s)
           \/ UpdateWidget(s) /\ At(s, "updateWidget", "find")
           \/ DeleteWidget(s) /\ At(s, "deleteWidget", "find")
           \/ CreateLink(s) /\ At(s, "createLink", "service")
    PROVE  Kept
<1>0. Busy(s) /\ TypeOK /\ AsFound(s) /\ req[s].pc \notin {"idle", "guard", "role"}
  BY InFlight DEF At, Busy, AssertDashboard
<1>1. UNCHANGED <<rows, now>>
  BY DEF Still, env
<1>2. ASSUME Reply(s, 404, NONE), req[s].op # "tick" PROVE Kept
  BY <1>2, ReplyKept
<1>3. ASSUME Goto(s, "write"), rows[req[s].x].ws = req[s].ws,
             req[s].op \in {"updateBoard", "deleteBoard", "createWidget", "updateAlert",
                            "deleteAlert", "revokeLink"}
      PROVE  Kept
  BY <1>0, <1>1, <1>3, GoesOn DEF At, Moved, AsFound, OnRow, OnBoard, Queries
<1>4. CASE \/ UpdateBoard(s) /\ At(s, "updateBoard", "service")
           \/ DeleteBoard(s) /\ At(s, "deleteBoard", "service")
           \/ CreateWidget(s) /\ At(s, "createWidget", "service")
           \/ UpdateAlert(s) /\ At(s, "updateAlert", "service")
           \/ DeleteAlert(s) /\ At(s, "deleteAlert", "service")
  <2>1. \/ Reply(s, 404, NONE)
        \/ rows[req[s].x].ws = req[s].ws /\ Goto(s, "write")
    BY <1>4 DEF UpdateBoard, DeleteBoard, CreateWidget, UpdateAlert, DeleteAlert, At,
                Check, NotFound, BoardFound, AlertFound, Found
  <2> QED BY <1>2, <1>3, <1>4, <2>1 DEF At
<1>5. CASE RevokeLink(s) /\ At(s, "revokeLink", "service")
  <2>1. \/ Reply(s, 404, NONE) \/ Reply(s, 200, NONE)
        \/ rows[req[s].x].ws = req[s].ws /\ Goto(s, "write")
    BY <1>5 DEF RevokeLink, At, Check, NotFound, Read, Found
  <2>2. Reply(s, 200, NONE) => Kept
    BY <1>5, ReplyKept DEF At, Answers, Queries, Lists, Homes
  <2> QED BY <1>2, <1>3, <1>5, <2>1, <2>2 DEF At
<1>6. CASE AssertDashboard(s)
  <2>1. CASE Reply(s, 404, NONE)
    BY <1>2, <1>6, <2>1 DEF AssertDashboard, At
  <2>2. CASE rows[req[s].y].ws = req[s].ws /\ Goto(s, "find")
    BY <1>0, <1>1, <1>6, <2>2, GoesOn
       DEF AssertDashboard, At, Moved, AsFound, OnRow, OnBoard, Queries
  <2> QED BY <1>6, <2>1, <2>2 DEF AssertDashboard, Found
<1>7. CASE \/ UpdateWidget(s) /\ At(s, "updateWidget", "find")
           \/ DeleteWidget(s) /\ At(s, "deleteWidget", "find")
  <2>1. CASE Reply(s, 404, NONE)
    BY <1>2, <1>7, <2>1 DEF At
  <2>2. CASE rows[req[s].x].board = req[s].y /\ Goto(s, "write")
    BY <1>0, <1>1, <1>7, <2>2, GoesOn DEF At, Moved, AsFound, OnRow, OnBoard, Queries
  <2> QED BY <1>7, <2>1, <2>2
          DEF UpdateWidget, DeleteWidget, At, Check, NotFound, WidgetFound
<1>8. CASE CreateLink(s) /\ At(s, "createLink", "service")
  <2>1. CASE Reply(s, 404, NONE)
    BY <1>2, <1>8, <2>1 DEF At
  <2>2. CASE rows[req[s].x].ws = req[s].ws /\ Note(s, "write", Expiry(req[s].y))
    <3>1. Expiry(req[s].y) \in 0..MaxTime + 1
      BY <1>0, <1>8, RequestsAssumption DEF AsFound, At, Expiry, TypeOK
    <3> QED BY <1>0, <1>1, <1>8, <2>2, <3>1, NotesDown
            DEF At, Moved, AsFound, OnRow, OnBoard, Queries
  <2> QED BY <1>8, <2>1, <2>2 DEF CreateLink, At, BoardFound, Found
<1> QED BY <1>4, <1>5, <1>6, <1>7, <1>8

\* A page is served through a link that was good when the request came.
LEMMA ResolveKept ==
    ASSUME InOrder, NEW s \in Slots, Still, Resolve(s)
    PROVE  Kept
<1> DEFINE x == req[s].x
<1>0. /\ Busy(s) /\ TypeOK /\ AsFound(s) /\ req[s].op = "resolve"
      /\ req[s].pc \in {"service", "record", "page"}
      /\ x \in Rows
  BY InFlight, Subjects DEF At, Busy, Resolve, Verify, ReadDashboard, OfKind
<1>1. UNCHANGED <<rows, now>> /\ rows[x].exp \in Int /\ now \in Int
  BY <1>0, RequestsAssumption DEF Still, env, TypeOK, RowOK
<1>2. ASSUME NEW code \in {401, 404}, Reply(s, code, NONE) PROVE Kept
  BY <1>0, <1>2, ReplyKept
<1>3. CASE /\ At(s, "resolve", "service") /\ ~(rows[x].exp # 0 /\ rows[x].exp < now)
           /\ Goto(s, "record")
  BY <1>0, <1>1, <1>3, GoesOn DEF At, Moved, AsFound, OnRow, OnBoard, Queries, LinkLives
<1>4. CASE At(s, "resolve", "record") /\ NotRevoked(x) /\ Goto(s, "page")
  BY <1>0, <1>1, <1>4, GoesOn DEF At, Moved, AsFound, OnRow, OnBoard, Queries, NotRevoked
<1>5. CASE At(s, "resolve", "page") /\ Reply(s, 200, req[s].y)
  <2>1. Answers(req[s], req[s].y)
    BY <1>0, <1>5 DEF AsFound, At, Answers, Queries, Lists, Homes
  <2> QED BY <1>0, <1>5, <2>1, ReplyKept
<1> QED BY <1>2, <1>3, <1>4, <1>5 DEF Resolve, Verify, ReadDashboard

-----------------------------------------------------------------------------
(* Queries. *)

\* Times to live are whole ticks.
LEMMA TtlIs == ASSUME NEW op PROVE Ttl(op) \in Nat
BY AnalyticsAssumption DEF Ttl

\* What a request finds in the cache is of its workspace and not too old.
LEMMA HitAnswers ==
    ASSUME InOrder, NEW s \in Slots, Busy(s), req[s].op \in Queries, Cached(req[s])
    PROVE  Answers(req[s], cache[CacheKey(req[s])])
<1> DEFINE k == CacheKey(req[s])
           c == cache[k]
<1>1. k \in Queries \X Users /\ k[1] = req[s].op /\ k[2] = req[s].ws
  BY InFlight, Parties, RolesAre, GuardedAre DEF CacheKey, Queries, Reads
<1>2. now \in Nat /\ QuerySpan \in Nat /\ Ttl(req[s].op) \in Nat
  BY TtlIs, RequestsAssumption, AnalyticsAssumption DEF InOrder, TypeOK
<1>3. c # Missing
  BY <1>2 DEF Cached, Missing
<1>4. c.ws = req[s].ws /\ c.asOf \in 0..now /\ c.dies \in 0..c.asOf + QuerySpan + Ttl(req[s].op)
  BY <1>1, <1>3 DEF InOrder, CacheInOrder
<1>5. c.dies > now
  BY DEF Cached
<1>6. now - c.asOf <= Ttl(req[s].op) + QuerySpan
  BY <1>2, <1>4, <1>5
<1> HIDE DEF c, k
<1> QED BY <1>4, <1>6 DEF Answers, c, k, Queries, Lists, Homes

\* Cache look-ups, queries, their errors, and the forecast proxy.
LEMMA QueryReads ==
    ASSUME InOrder, NEW s \in Slots, Still,
           LookUp(s) \/ Query(s) \/ QueryFails(s) \/ Forecast(s) \/ ListModels(s)
    PROVE  Kept
<1>0. /\ Busy(s) /\ TypeOK /\ req[s].pc \notin {"idle", "guard", "role"}
      /\ req[s].op \in Queries \cup {"forecast", "models"}
  BY InFlight DEF At, Busy, LookUp, Query, QueryFails, Forecast, ListModels
<1>1. ASSUME NEW code \in {400, 422, 500, 502}, NEW val, Reply(s, code, val) PROVE Kept
  BY <1>0, <1>1, ReplyKept DEF Queries
<1>2. CASE LookUp(s)
  <2>1. CASE Cached(req[s]) /\ Reply(s, 200, cache[CacheKey(req[s])])
    <3>1. Answers(req[s], cache[CacheKey(req[s])])
      BY <1>0, <1>2, <2>1, HitAnswers DEF LookUp
    <3> QED BY <1>0, <2>1, <3>1, ReplyKept DEF Queries
  <2>2. CASE Goto(s, "query")
    BY <1>0, <1>2, <2>2, GoesOn DEF LookUp, At, Moved, AsFound, OnRow, OnBoard, Queries
  <2> QED BY <1>1, <1>2, <2>1, <2>2 DEF LookUp
<1>3. CASE Query(s)
  <2>1. PICK result \in Results[req[s].op] : Note(s, "store", [asOf |-> now, result |-> result])
    BY <1>3 DEF Query
  <2>2. now \in 0..now /\ now - now <= QuerySpan /\ now' = now
    BY <1>0, RequestsAssumption, AnalyticsAssumption DEF TypeOK, Still, env
  <2> QED BY <1>0, <1>3, <2>1, <2>2, NotesDown
          DEF Query, At, Moved, AsFound, OnRow, OnBoard, Queries
<1>4. CASE QueryFails(s)
  BY <1>1, <1>4 DEF QueryFails
<1>5. CASE Forecast(s) \/ ListModels(s)
  <2>1. ASSUME NEW val, val \subseteq {req[s].ws}, Reply(s, 200, val) PROVE Kept
    BY <1>0, <1>5, <2>1, ReplyKept DEF Answers, Forecast, ListModels, At, Queries, Lists, Homes
  <2>2. ASSUME NEW trained PROVE {w \in trained : w = req[s].ws} \subseteq {req[s].ws}
    OBVIOUS
  <2>3. Forecast(s) => Kept
    BY <1>1, <2>1 DEF Forecast
  <2>4. ListModels(s) => Kept
    <3>1. ASSUME NEW trained, Reply(s, 200, {w \in trained : w = req[s].ws}) PROVE Kept
      BY <2>1, <2>2, <3>1
    <3>2. ListModels(s) => \/ Reply(s, 502, "unavailable")
                           \/ \E trained : Reply(s, 200, {w \in trained : w = req[s].ws})
      BY Zenon DEF ListModels
    <3>3. Reply(s, 502, "unavailable") => Kept
      BY <1>1
    <3> QED BY Zenon, <3>1, <3>2, <3>3
  <2> QED BY <1>5, <2>3, <2>4
<1> QED BY <1>2, <1>3, <1>4, <1>5

\* The answer stored is of its workspace, and as old as the query took.
LEMMA StoreKept ==
    ASSUME InOrder, NEW s \in Slots, Store(s), UNCHANGED <<accounts, keys, rows, gateway, env>>
    PROVE  Kept
<1> DEFINE r == req[s]
           k == CacheKey(r)
           c == [asOf |-> r.y.asOf, ws |-> r.ws, dies |-> DiesAt(r.op),
                 result |-> r.y.result, payload |-> Payload(r.op, r.y.result)]
<1>0. /\ Busy(s) /\ TypeOK /\ r.op \in Queries
      /\ r.y.asOf \in 0..now /\ now - r.y.asOf <= QuerySpan
  BY InFlight DEF Store, Busy, AsFound
<1>1. k \in Queries \X Users /\ k[1] = r.op /\ k[2] = r.ws
  BY <1>0, InFlight, Parties, RolesAre, GuardedAre DEF CacheKey, Queries, Reads
<1>2. now \in Nat /\ QuerySpan \in Nat /\ Ttl(r.op) \in Nat
  BY TtlIs, RequestsAssumption, AnalyticsAssumption DEF InOrder, TypeOK
<1>3. cache' = [cache EXCEPT ![k] = c] /\ Reply(s, 200, c)
  BY DEF Store
<1>4. c.ws = r.ws /\ c.asOf = r.y.asOf /\ c.dies = now + Ttl(r.op)
  BY DEF DiesAt
<1> HIDE DEF c, k
<1>5. DOMAIN cache' = Queries \X Users /\ CacheInOrder'
  <2>1. now' = now /\ DOMAIN cache' = Queries \X Users
    BY <1>3 DEF env, InOrder
  <2> SUFFICES ASSUME NEW q \in Queries \X Users, cache'[q] # Missing
               PROVE  /\ cache'[q].ws = q[2] /\ cache'[q].asOf \in 0..now
                      /\ cache'[q].dies \in 0..cache'[q].asOf + QuerySpan + Ttl(q[1])
    BY <2>1 DEF CacheInOrder, Ttl
  <2>2. CASE q = k
    <3>1. c.dies \in 0..c.asOf + QuerySpan + Ttl(r.op)
      BY <1>0, <1>2, <1>4
    <3> QED BY <1>0, <1>1, <1>3, <1>4, <2>2, <3>1 DEF InOrder
  <2>3. CASE q # k
    BY <1>3, <2>3 DEF InOrder, CacheInOrder
  <2> QED BY <2>2, <2>3
<1>6. InOrder'
  <2>1. /\ DOMAIN req' = Slots /\ \A t \in Slots \ {s} : req'[t] = req[t]
        /\ ~Busy(s)'
    BY <1>3, ReplyIs DEF InOrder
  <2>2. /\ UNCHANGED <<accounts, keys, rows, now>> /\ left' \in Nat
        /\ onChannel' = onChannel /\ subscribed' \subseteq onChannel'
        /\ onChannel' \subseteq Workspaces
    BY DEF InOrder, TypeOK, HelloMeansLive, env, gateway
  <2> QED BY <1>5, <2>1, <2>2, OneMoves
<1>7. Right'
  <2>1. now - c.asOf <= Ttl(r.op) + QuerySpan
    BY <1>0, <1>2, <1>4
  <2>2. now' = now
    BY DEF env
  <2>3. out'.op = r.op /\ out'.ws = r.ws /\ out'.val = c
    BY <1>3, ReplyIs DEF InOrder
  <2> QED BY <1>0, <1>4, <1>6, <2>1, <2>2, <2>3, HomeIsThere
          DEF Right, AnswersStayInside, AnswersAreRecent, ServedLinkWasLive, Queries, Ttl
<1>8. Authorised
  BY StillAuthorised DEF accounts
<1> QED BY <1>6, <1>7, <1>8 DEF Kept

-----------------------------------------------------------------------------
(* Sockets.                                                                *)
SocketsOnly == UNCHANGED <<accounts, keys, rows, cache, env>>

\* What a socket is told shows nothing of a workspace.
LEMMA SocketRight == ASSUME InOrder', out' = Silence \/ out'.op = "connect" PROVE Right'
BY HomeIsThere, SilenceRight
   DEF Right, AnswersStayInside, AnswersAreRecent, ServedLinkWasLive, Queries

\* A handshake goes on, or its room is live.
LEMMA SocketMoves ==
    ASSUME InOrder, NEW s \in Slots, Busy(s), req[s].op = "connect", SocketsOnly,
           NEW pc, pc \notin {"idle", "guard", "role"}, Moved(s, pc), req'[s].x = req[s].x,
           pc \in {"subscribing", "live"} => ResolveRole(s) # NONE,
           onChannel \subseteq onChannel', subscribed' \subseteq onChannel',
           onChannel' \subseteq Workspaces, pc = "live" => req[s].ws \in onChannel',
           out' = Silence \/ out'.op = "connect"
    PROVE  Kept
<1>1. TypeOK /\ AsSent(s) /\ SocketsOnly
  BY InFlight
<1>2. "connect" \notin DOMAIN RolesFor
  BY RolesAre, GuardedAre DEF Reads, Edits, Ownings
<1>3. Grows /\ UNCHANGED <<accounts, keys, rows, now>> /\ left' \in Nat
  BY <1>1, SameGrows DEF SocketsOnly, env, TypeOK
<1>4. AsSent(s)'
  BY <1>1, <1>3, ChoicesGrow DEF AsSent, Moved
<1>5. AsFound(s)' /\ AsAllowed(s)'
  BY <1>2, <1>3 DEF AsFound, AsAllowed, Moved, At, ResolveRole, accounts, OnRow, OnBoard, Queries
<1>6. DOMAIN cache' = Queries \X Users /\ CacheInOrder'
  BY <1>3 DEF InOrder, CacheInOrder, SocketsOnly
<1>7. InOrder'
  BY <1>3, <1>4, <1>5, <1>6, OneMoves DEF Moved, At
<1>8. Authorised
  BY <1>3, StillAuthorised DEF accounts
<1> QED BY <1>7, <1>8, SocketRight DEF Kept

\* A socket that leaves changes nothing for the others.
LEMMA SocketLeaves ==
    ASSUME InOrder, NEW s \in Slots, SocketsOnly, UNCHANGED gateway,
           req' = [req EXCEPT ![s] = Idle], out' = Silence
    PROVE  Kept
<1>1. Still
  BY DEF Still, SocketsOnly
<1>2. InOrder'
  BY <1>1, StillKept DEF InOrder, Busy, Idle
<1>3. Authorised
  BY StillAuthorised DEF SocketsOnly, accounts
<1> QED BY <1>2, <1>3, SilenceRight DEF Kept

\* MetricsGateway: handleConnection and handleDisconnect.
LEMMA GatewayKept ==
    ASSUME InOrder, NEW s \in Slots, GatewayStep(s)
    PROVE  Kept
<1>0. /\ Busy(s) /\ req[s].op = "connect" /\ SocketsOnly
      /\ DOMAIN req = Slots /\ DOMAIN req[s] = Fields /\ AsSent(s) /\ AsFound(s) /\ TypeOK
  <2>1. Busy(s) /\ req[s].op = "connect" /\ SocketsOnly
    BY DEF GatewayStep, SocketsOnly, Handshake, Subscribe, Hello, SubscribeFails, Disconnect,
           Forgotten, At, Busy
  <2> QED BY <2>1, InFlight
<1>1. subscribed \subseteq onChannel /\ onChannel \subseteq Workspaces
  BY DEF InOrder, TypeOK, HelloMeansLive
<1>2. ASSUME UNCHANGED gateway PROVE Still /\ UNCHANGED <<subscribed, onChannel>>
  BY <1>0, <1>2 DEF SocketsOnly, Still, gateway
<1>3. ASSUME UNCHANGED gateway, NEW code \in {403, 500}, NEW val, Reply(s, code, val) PROVE Kept
  BY <1>0, <1>2, <1>3, ReplyKept
<1>4. ASSUME NEW pc, req' = [req EXCEPT ![s].pc = pc]
      PROVE  Moved(s, pc) /\ req'[s].x = req[s].x
  BY <1>0, <1>4 DEF Moved, Fields
<1>5. ASSUME NEW code, NEW val, Says(s, code, val) PROVE out'.op = "connect"
  BY <1>0, <1>5 DEF Says
<1>6. CASE Handshake(s)
  <2>1. CASE Reply(s, 403, NONE) /\ UNCHANGED gateway
    BY <1>3, <2>1
  <2>2. CASE /\ req[s].ws \in subscribed /\ ResolveRole(s) # NONE
             /\ req' = [req EXCEPT ![s].pc = "live"] /\ Says(s, 200, NONE)
             /\ UNCHANGED gateway
    BY <1>0, <1>1, <1>2, <1>4, <1>5, <2>2, SocketMoves
  <2>3. CASE /\ ResolveRole(s) # NONE /\ Goto(s, "subscribing")
             /\ subscribed' = subscribed /\ UNCHANGED onChannel
    BY <1>0, <1>1, <1>4, <2>3, SocketMoves DEF Goto
  <2> QED BY <1>6, <2>1, <2>2, <2>3 DEF Handshake, SubscribedMeanwhile
<1>7. CASE Subscribe(s)
  <2>1. req[s].ws \in Workspaces
    BY <1>0, Parties
  <2>2. Moved(s, "subscribing") /\ req'[s].x = req[s].x /\ ResolveRole(s) # NONE
    BY <1>0, <1>7 DEF Subscribe, At, Moved, AsFound
  <2> QED BY <1>0, <1>1, <1>7, <2>1, <2>2, SocketMoves DEF Subscribe
<1>8. CASE Hello(s)
  <2>1. ResolveRole(s) # NONE
    BY <1>0, <1>8 DEF Hello, At, AsFound
  <2> QED BY <1>0, <1>1, <1>4, <1>5, <1>8, <2>1, SocketMoves DEF Hello
<1>9. CASE SubscribeFails(s)
  BY <1>3, <1>9 DEF SubscribeFails
<1>10. CASE Disconnect(s)
  <2>1. CASE req' = [req EXCEPT ![s] = Idle]
    BY <1>0, <1>10, <2>1, SocketLeaves DEF Disconnect
  <2>2. CASE req[s].pc # "live" /\ req' = [req EXCEPT ![s].y = "closed"]
    <3>1. Moved(s, req[s].pc) /\ req'[s].x = req[s].x
      BY <1>0, <2>2 DEF Moved, Fields
    <3>2. req[s].pc \notin {"idle", "guard", "role", "live"}
      BY <1>0, <2>2, InFlight, RolesAre, GuardedAre DEF AsAllowed, Busy, Reads, Edits, Ownings
    <3>3. req[s].pc \in {"subscribing", "live"} => ResolveRole(s) # NONE
      BY <1>0 DEF AsFound
    <3> QED BY <1>0, <1>1, <1>2, <1>10, <3>1, <3>2, <3>3, SocketMoves DEF Disconnect
  <2> QED BY <1>10, <2>1, <2>2 DEF Disconnect
<1>11. CASE Forgotten(s)
  BY <1>0, <1>11, SocketLeaves DEF Forgotten
<1> QED BY <1>6, <1>7, <1>8, <1>9, <1>10, <1>11 DEF GatewayStep

-----------------------------------------------------------------------------
(* Ticks, the clock, restarts and arrivals.                                *)

\* Nobody's request changes and nothing is written.
LEMMA UnmovedKept ==
    ASSUME InOrder, UNCHANGED <<accounts, keys, rows, cache, gateway, req, env>>
    PROVE  InOrder'
<1>1. UNCHANGED <<accounts, keys, rows>> /\ UNCHANGED <<cache, gateway, req, env>>
  OBVIOUS
<1>2. Clock /\ UNCHANGED <<now, left, mix>> /\ UNCHANGED <<subscribed, onChannel>>
  BY <1>1 DEF Clock, env, gateway
<1>3. /\ left' \in Nat /\ DOMAIN req' = Slots /\ onChannel \subseteq onChannel'
      /\ subscribed' \subseteq onChannel' /\ onChannel' \subseteq Workspaces
      /\ DOMAIN cache' = Queries \X Users
  BY <1>1, <1>2 DEF InOrder, TypeOK, HelloMeansLive
<1>4. CacheInOrder'
  BY <1>1, <1>2 DEF InOrder, CacheInOrder, Ttl, Queries
<1> QED BY <1>1, <1>2, <1>3, <1>4, SomeMove

\* A tick goes to members: who is in a room had a role when they came in.
LEMMA FanoutKept ==
    ASSUME InOrder, Fanout
    PROVE  Kept
<1>1. UNCHANGED <<accounts, keys, rows, cache, gateway, req, env>>
  BY DEF Fanout
<1>2. InOrder'
  BY <1>1, UnmovedKept
<1>3. UNCHANGED <<member, keys, rows>>
  BY <1>1 DEF accounts
<1>4. PICK w \in Workspaces : out' = [op |-> "tick", ws |-> w, to |-> {req[s].user : s \in Room(w)}]
  BY DEF Fanout
<1>5. \A s \in Room(w) : member[w][req[s].user] # NONE
  BY InFlight DEF Room, AsFound, ResolveRole
<1>6. out'.op = "tick" /\ out'.ws = w /\ out'.to = {req[s].user : s \in Room(w)}
  BY <1>4
<1>7. \A u \in out'.to : member'[w][u] # NONE
  BY <1>3, <1>5, <1>6
<1>8. Right'
  BY <1>2, <1>6, <1>7, HomeIsThere
     DEF Right, AnswersStayInside, AnswersAreRecent, ServedLinkWasLive, Queries
<1> QED BY <1>2, <1>3, <1>8, StillAuthorised DEF Kept

\* The clock moves only while the queries are within their timeout.
LEMMA TickKept ==
    ASSUME InOrder, Tick
    PROVE  Kept
<1>1. /\ UNCHANGED <<accounts, keys, rows>> /\ UNCHANGED <<cache, gateway, req, left>>
      /\ now' = now + 1 /\ now < MaxTime /\ QueryInTime /\ out' = Silence
  BY DEF Tick
<1>2. Clock
  BY <1>1 DEF Clock
<1>3. /\ left' \in Nat /\ DOMAIN req' = Slots /\ onChannel \subseteq onChannel'
      /\ subscribed' \subseteq onChannel' /\ onChannel' \subseteq Workspaces
      /\ DOMAIN cache' = Queries \X Users
  BY <1>1 DEF InOrder, TypeOK, HelloMeansLive, gateway
<1>4. CacheInOrder'
  <2> SUFFICES ASSUME NEW k \in Queries \X Users, cache[k] # Missing
               PROVE  /\ cache[k].ws = k[2] /\ cache[k].asOf \in 0..now'
                      /\ cache[k].dies \in 0..cache[k].asOf + QuerySpan + Ttl(k[1])
    BY <1>1 DEF CacheInOrder, Ttl, Queries
  <2>1. now \in Nat /\ now' = now + 1
    BY <1>1, RequestsAssumption DEF InOrder, TypeOK
  <2> QED BY <2>1 DEF InOrder, CacheInOrder
<1>5. InOrder'
  BY <1>1, <1>2, <1>3, <1>4, SomeMove
<1> QED BY <1>1, <1>5, SilenceRight, StillAuthorised DEF Kept, accounts

\* A restart loses requests and subscriptions together.
LEMMA RestartKept ==
    ASSUME InOrder, Restart
    PROVE  Kept
<1>1. /\ UNCHANGED <<accounts, keys, rows>> /\ UNCHANGED <<cache, now>>
      /\ req' = [s \in Slots |-> Idle] /\ left > 0 /\ left' = left - 1
      /\ subscribed' = {} /\ onChannel' = {} /\ out' = Silence
  BY DEF Restart
<1>2. Clock /\ left' \in Nat
  BY <1>1 DEF Clock, InOrder, TypeOK
<1>3. DOMAIN req' = Slots /\ \A t \in Slots : ~Busy(t)'
  BY <1>1 DEF Busy, Idle
<1>4. DOMAIN cache' = Queries \X Users /\ CacheInOrder'
  BY <1>1 DEF InOrder, CacheInOrder, Ttl, Queries
<1>5. InOrder'
  BY <1>1, <1>2, <1>3, <1>4, SomeMove
<1> QED BY <1>1, <1>5, SilenceRight, StillAuthorised DEF Kept, accounts

\* A request is new: it holds the role it finds, and has found nothing out.
LEMMA ArriveKept ==
    ASSUME InOrder, NEW s \in Slots, Arrive(s)
    PROVE  Kept
<1> DEFINE New(op, u, x, w, y) ==
             req' = [req EXCEPT ![s] =
                       [op |-> op, user |-> u, ws |-> w, x |-> x, y |-> y, pc |-> FirstPc(op),
                        held |-> RolesOf(w, u), alone |-> TRUE]]
<1>a. PICK op \in mix.ops : \E u \in Callers(op), x \in Firsts(op) :
        \E w \in Spaces(op, u), y \in Seconds(op, x) : New(op, u, x, w, y)
  BY ONLY Arrive(s) DEF Arrive
<1>b. PICK u \in Callers(op), x \in Firsts(op) :
        \E w \in Spaces(op, u), y \in Seconds(op, x) : New(op, u, x, w, y)
  BY <1>a
<1>c. PICK w \in Spaces(op, u), y \in Seconds(op, x) : New(op, u, x, w, y)
  BY <1>b
<1>1. /\ u \in Callers(op) /\ x \in Firsts(op) /\ w \in Spaces(op, u)
      /\ y \in Seconds(op, x)
      /\ req' = [req EXCEPT ![s] =
                   [op |-> op, user |-> u, ws |-> w, x |-> x, y |-> y, pc |-> FirstPc(op),
                    held |-> RolesOf(w, u), alone |-> TRUE]]
  BY <1>c
<1> HIDE DEF New
<1>2. /\ UNCHANGED <<accounts, keys, rows>> /\ UNCHANGED <<cache, gateway, now>>
      /\ left > 0 /\ left' = left - 1 /\ out' = Silence /\ TypeOK
  BY DEF Arrive, InOrder
<1>3. /\ DOMAIN req' = Slots /\ \A t \in Slots \ {s} : req'[t] = req[t]
      /\ req'[s] = [op |-> op, user |-> u, ws |-> w, x |-> x, y |-> y, pc |-> FirstPc(op),
                    held |-> RolesOf(w, u), alone |-> TRUE]
  BY <1>1 DEF InOrder
<1>4. AsSent(s)'
  <2>1. u \in Callers(op)' /\ x \in Firsts(op)' /\ w \in Spaces(op, u)'
        /\ (op \in {"updateWidget", "deleteWidget", "invite"} => y \in Seconds(op, x)')
    BY <1>1, <1>2, SameGrows, ChoicesGrow
  <2> QED BY <1>3, <2>1 DEF AsSent, Fields
<1>5. FirstPc(op) \in {"guard", "role", "service"}
  BY DEF FirstPc
<1>6. AsFound(s)'
  <2>1. op = "createLink" => y \in {0, 1}
    BY <1>1 DEF Seconds
  <2>2. op = "resolve" /\ y # "live" => ~LinkLives(x)
    BY <1>1 DEF Seconds
  <2>3. LinkLives(x)' <=> LinkLives(x)
    BY <1>2 DEF LinkLives
  <2> QED BY <1>3, <1>5, <2>1, <2>2, <2>3 DEF AsFound, At, OnRow, OnBoard, Queries
<1>7. AsAllowed(s)'
  <2>1. FirstPc(op) = "guard" => op \in DOMAIN Guarded
    BY DEF FirstPc
  <2>2. FirstPc(op) = "role" => op \in DOMAIN RolesFor
    BY RolesAre, GuardedAre DEF FirstPc, KeyRoutes
  <2>3. op \in DOMAIN RolesFor => FirstPc(op) \in {"guard", "role"} \/ op = "invite"
    BY RolesAre, GuardedAre DEF FirstPc, KeyRoutes
  <2>4. op \in DOMAIN RolesFor => member[w][u] \in RolesOf(w, u) \cup {NONE}
    BY <1>1 DEF Spaces, RolesOf
  <2>5. ResolveRole(s)' = member[w][u]
    BY <1>2, <1>3 DEF ResolveRole, accounts
  <2> QED BY <1>3, <1>5, <2>1, <2>2, <2>3, <2>4, <2>5 DEF AsAllowed, At
<1>8. /\ left' \in Nat /\ onChannel \subseteq onChannel'
      /\ subscribed' \subseteq onChannel' /\ onChannel' \subseteq Workspaces
      /\ DOMAIN cache' = Queries \X Users
  BY <1>2 DEF InOrder, TypeOK, HelloMeansLive, gateway
<1>9. CacheInOrder'
  BY <1>2 DEF InOrder, CacheInOrder, Ttl, Queries
<1>10. InOrder'
  <2>1. ~At(s, "connect", "live")'
    BY <1>3, <1>5 DEF At
  <2> QED BY <1>2, <1>3, <1>4, <1>6, <1>7, <1>8, <1>9, <2>1, OneMoves
<1> QED BY <1>2, <1>10, SilenceRight, StillAuthorised DEF Kept, accounts

-----------------------------------------------------------------------------
(* What a step that writes takes.                                          *)
Rest == UNCHANGED <<cache, gateway, env>>

\* The others wait, none appears or is answered.
Others(s) == \A t \in Slots \ {s} : (Busy(t) => Waits(t)) /\ (Busy(t)' => Busy(t))

\* A write is kept if nothing is undone and the caller may make it.
LEMMA WriteKept ==
    ASSUME InOrder, NEW s \in Slots, Busy(s), ~Busy(s)', DOMAIN req' = Slots, Others(s), Rest, Grows,
           TypeOK', NoOrphans', SlugsUnique', MayChange(s),
           out'.op \notin Queries \cup Lists \cup {"tick", "resolve"} \cup (Homes \ {"signup"}),
           out'.op = "signup" /\ out'.code = 200 =>
             out'.val # {} /\ \A w \in out'.val : member'[w][out'.user] # NONE
    PROVE  Kept
<1> USE DEF InOrder
<1>0. Clock /\ UNCHANGED <<cache, now>> /\ UNCHANGED <<subscribed, onChannel>>
  BY DEF Clock, Rest, env, gateway
<1>1. RequestsInOrder'
  <2> SUFFICES ASSUME NEW t \in Slots, Busy(t)' PROVE (AsSent(t) /\ AsFound(t) /\ AsAllowed(t))'
    BY DEF RequestsInOrder
  <2>1. t # s /\ Busy(t) /\ Waits(t)
    BY DEF Others
  <2> QED BY <1>0, <2>1, WaitsInOrder DEF RequestsInOrder
<1>2. HelloMeansLive'
  <2> SUFFICES ASSUME NEW t \in Slots, Busy(t)', At(t, "connect", "live")'
               PROVE  req'[t].ws \in onChannel' /\ ResolveRole(t)' # NONE
    BY <1>0 DEF HelloMeansLive, At
  <2>1. ResolveRole(t)' # NONE
    BY <1>1 DEF RequestsInOrder, AsFound, At
  <2>2. Busy(t) /\ Waits(t)
    BY DEF Others
  <2> QED BY <1>0, <2>1, <2>2 DEF HelloMeansLive, Waits, At
<1>3. DOMAIN cache' = Queries \X Users /\ CacheInOrder'
  BY <1>0 DEF CacheInOrder, Ttl, Queries
<1>4. InOrder'
  BY <1>1, <1>2, <1>3
<1>5. Authorised
  BY DEF Authorised
<1>6. Right'
  BY <1>4, HomeIsThere
     DEF Right, AnswersStayInside, AnswersAreRecent, ServedLinkWasLive, Lists, Homes, Queries
<1> QED BY <1>4, <1>5, <1>6 DEF Kept

\* A request that commits is answered; the others see its write and wait.
LEMMA CommitIs ==
    ASSUME InOrder, NEW s \in Slots, NEW val, Commit(s, val),
           \A t \in Slots : Busy(t) /\ req[t].op \in DOMAIN RolesFor =>
             member'[req[t].ws][req[t].user] = ResolveRole(t)
    PROVE  /\ ~Busy(s)' /\ DOMAIN req' = Slots /\ Others(s)
           /\ out'.op = req[s].op /\ out'.user = req[s].user /\ out'.val = val
<1>1. /\ DOMAIN req' = Slots /\ req'[s] = Idle
      /\ \A t \in Slots \ {s} : req'[t] = IF ~Busy(t) THEN req[t] ELSE [req[t] EXCEPT !.alone = FALSE]
  BY DEF Commit, Overtaken
<1>2. ~Busy(s)'
  BY <1>1 DEF Busy, Idle
<1>3. Others(s)
  <2> SUFFICES ASSUME NEW t \in Slots \ {s}
               PROVE  (Busy(t) => Waits(t)) /\ (Busy(t)' => Busy(t))
    BY DEF Others
  <2>1. CASE ~Busy(t)
    BY <1>1, <2>1 DEF Busy
  <2>2. CASE Busy(t)
    <3>1. DOMAIN req[t] = Fields
      BY <2>2, InFlight
    <3>2. /\ DOMAIN req'[t] = Fields
          /\ \A f \in Fields \ {"alone"} : req'[t][f] = req[t][f]
      BY <1>1, <2>2, <3>1
    <3>3. /\ req'[t].op = req[t].op /\ req'[t].user = req[t].user /\ req'[t].ws = req[t].ws
          /\ req'[t].x = req[t].x /\ req'[t].y = req[t].y /\ req'[t].pc = req[t].pc
          /\ req'[t].held = req[t].held
      BY <3>2 DEF Fields
    <3> QED BY <2>2, <3>2, <3>3 DEF Waits, ResolveRole
  <2> QED BY <2>1, <2>2
<1> QED BY <1>1, <1>2, <1>3 DEF Commit, Says

\* A request writes rows of its workspace.
LEMMA RowsKept ==
    ASSUME InOrder, NEW s \in Slots, Busy(s), Commit(s, NONE), UNCHANGED <<accounts, keys>>, Rest,
           req[s].op \in Edits \cup Ownings, rows' \in [Rows -> RowOK],
           \A r \in Rows : rows'[r].kind = "free" <=> rows'[r].state = "free",
           \A r \in Rows : rows[r].kind # "free" =>
             /\ rows'[r].kind = rows[r].kind /\ rows'[r].ws = rows[r].ws
             /\ rows'[r].board = rows[r].board /\ rows'[r].exp = rows[r].exp
             /\ rows[r].state # "live" => rows'[r].state # "live",
           NoOrphans',
           \A r \in Rows : rows'[r] # rows[r] => WsOf(r)' = req[s].ws /\ May(s, Needs(r)')
    PROVE  Kept
<1>1. /\ UNCHANGED <<joined, slug, member>> /\ UNCHANGED keys /\ UNCHANGED env
      /\ UNCHANGED gateway /\ Workspaces' = Workspaces
  BY DEF accounts, Workspaces, Rest
<1>2. Grows
  BY <1>1 DEF Grows
<1>3. TypeOK'
  BY <1>1 DEF InOrder, TypeOK, env, gateway
<1>4. SlugsUnique'
  BY <1>1 DEF InOrder, SlugsUnique
<1>5. MayChange(s)
  BY <1>1 DEF MayChange
<1>6. /\ ~Busy(s)' /\ DOMAIN req' = Slots /\ Others(s) /\ out'.op = req[s].op
  <2>1. \A t \in Slots : member'[req[t].ws][req[t].user] = ResolveRole(t)
    BY <1>1 DEF ResolveRole
  <2> QED BY <2>1, CommitIs
<1>7. req[s].op \notin Queries \cup Lists \cup {"tick", "resolve"} \cup Homes
  BY DEF Edits, Ownings, Queries, Lists, Homes
<1> QED BY <1>2, <1>3, <1>4, <1>5, <1>6, <1>7, WriteKept DEF Homes

\* create: the id is a new one.
LEMMA InsertKept ==
    ASSUME InOrder, NEW s \in Slots, Busy(s), NEW row \in RowOK, Insert(s, row),
           UNCHANGED <<accounts, keys>>, Rest, req[s].op \in Edits \cup Ownings,
           row.kind # "free" /\ row.state = "live",
           IF row.kind = "widget" THEN row.board \in OfKind("board") /\ rows[row.board].ws = req[s].ws
           ELSE row.ws = req[s].ws,
           row.kind = "link" => row.board \in OfKind("board") /\ rows[row.board].ws = row.ws,
           May(s, IF row.kind = "link" THEN Owners ELSE Editors)
    PROVE  Kept
<1>1. CASE Reply(s, 500, NONE) /\ UNCHANGED rows
  <2>1. Still
    BY <1>1 DEF Still, Rest
  <2>2. req[s].op # "tick"
    BY DEF Edits, Ownings
  <2> QED BY <1>1, <2>1, <2>2, ReplyKept
<1>2. CASE /\ IdsLeft /\ rows' = [rows EXCEPT ![NewId] = row] /\ Commit(s, NONE)
           /\ row.kind = "pdf" \/ BoardThere(row.board)
  <2>1. PICK n \in Rows : n = NewId /\ rows[n].state = "free"
    BY <1>2 DEF IdsLeft, NewId
  <2>2. rows \in [Rows -> RowOK] /\ \A r \in Rows : rows[r].kind = "free" <=> rows[r].state = "free"
    BY DEF InOrder, TypeOK
  <2>3. rows' = [rows EXCEPT ![n] = row] /\ Commit(s, NONE)
    BY <1>2, <2>1
  <2>4. /\ rows' \in [Rows -> RowOK] /\ rows'[n] = row
        /\ \A r \in Rows \ {n} : rows'[r] = rows[r]
        /\ \A r \in Rows : rows[r].kind # "free" => rows'[r] = rows[r]
    BY <2>1, <2>2, <2>3
  <2>5. \A r \in Rows : rows'[r].kind = "free" <=> rows'[r].state = "free"
    BY <2>2, <2>4
  <2>6. NoOrphans'
    <3> SUFFICES ASSUME NEW r \in Rows, rows'[r].kind \in {"widget", "link"},
                        rows'[r].state # "gone"
                 PROVE  /\ rows'[r].board \in Rows /\ rows'[rows'[r].board].kind = "board"
                        /\ rows'[rows'[r].board].state = "live"
                        /\ rows'[r].kind = "link" => rows'[rows'[r].board].ws = rows'[r].ws
      BY DEF NoOrphans, OfKind
    <3>1. CASE r = n
      <4>1. row.board \in Rows /\ rows[row.board].kind = "board" /\ row.kind # "pdf"
        BY <2>4, <3>1 DEF OfKind
      <4>2. rows[row.board].state = "live"
        BY <1>2, <4>1, RequestsAssumption DEF BoardThere
      <4> QED BY <2>4, <3>1, <4>1, <4>2
    <3>2. CASE r # n
      BY <2>4, <3>2 DEF InOrder, NoOrphans, OfKind
    <3> QED BY <3>1, <3>2
  <2>7. WsOf(n)' = req[s].ws
    BY <2>4 DEF WsOf, OfKind
  <2>8. May(s, Needs(n)')
    BY <2>4 DEF Needs
  <2>9. \A r \in Rows : rows'[r] # rows[r] => WsOf(r)' = req[s].ws /\ May(s, Needs(r)')
    BY <2>4, <2>7, <2>8
  <2>10. \A r \in Rows : rows[r].kind # "free" =>
           /\ rows'[r].kind = rows[r].kind /\ rows'[r].ws = rows[r].ws
           /\ rows'[r].board = rows[r].board /\ rows'[r].exp = rows[r].exp
           /\ rows[r].state # "live" => rows'[r].state # "live"
    BY <2>4
  <2> QED BY <2>3, <2>4, <2>5, <2>6, <2>9, <2>10, RowsKept
<1> QED BY <1>1, <1>2 DEF Insert

\* update: the row keeps its place.
LEMMA UpdateKept ==
    ASSUME InOrder, NEW s \in Slots, Busy(s), NEW row \in RowOK, UpdateRow(s, row),
           UNCHANGED <<accounts, keys>>, Rest, req[s].op \in Edits \cup Ownings,
           req[s].x \in Rows, rows[req[s].x].kind # "free",
           row.kind = rows[req[s].x].kind, row.ws = rows[req[s].x].ws,
           row.board = rows[req[s].x].board, row.exp = rows[req[s].x].exp,
           row.state # rows[req[s].x].state => row.kind = "link" /\ row.state = "revoked",
           row.kind = "widget" => row.board \in OfKind("board"),
           WsOf(req[s].x) = req[s].ws, May(s, IF row.kind = "link" THEN Owners ELSE Editors)
    PROVE  Kept
<1>0. PICK x \in Rows : x = req[s].x
  OBVIOUS
<1>1. CASE Reply(s, 500, NONE) /\ UNCHANGED rows
  <2>1. Still
    BY <1>1 DEF Still, Rest
  <2>2. req[s].op # "tick"
    BY DEF Edits, Ownings
  <2> QED BY <1>1, <2>1, <2>2, ReplyKept
<1>2. CASE rows[x].state # "gone" /\ rows' = [rows EXCEPT ![x] = row] /\ Commit(s, NONE)
  <2>1. rows \in [Rows -> RowOK] /\ \A r \in Rows : rows[r].kind = "free" <=> rows[r].state = "free"
    BY DEF InOrder, TypeOK
  <2>2. /\ rows' \in [Rows -> RowOK] /\ rows'[x] = row
        /\ \A r \in Rows \ {x} : rows'[r] = rows[r]
    BY <1>0, <1>2, <2>1
  <2>3. \A r \in Rows : /\ rows'[r].kind = rows[r].kind /\ rows'[r].ws = rows[r].ws
                        /\ rows'[r].board = rows[r].board /\ rows'[r].exp = rows[r].exp
                        /\ rows[r].state # "live" => rows'[r].state # "live"
                        /\ rows[r].state # rows'[r].state =>
                             rows[r].kind = "link" /\ rows'[r].state = "revoked"
                                /\ rows[r].state # "gone"
    BY <1>0, <1>2, <2>2
  <2>4. \A r \in Rows : rows'[r].kind = "free" <=> rows'[r].state = "free"
    BY <2>1, <2>3
  <2>5. NoOrphans'
    <3> SUFFICES ASSUME NEW r \in Rows, rows[r].kind \in {"widget", "link"},
                        rows'[r].state # "gone"
                 PROVE  /\ rows[r].board \in Rows /\ rows[rows[r].board].kind = "board"
                        /\ rows'[rows[r].board].state = "live"
                        /\ rows[r].kind = "link" => rows[rows[r].board].ws = rows[r].ws
      BY <2>3 DEF NoOrphans, OfKind
    <3>1. rows[r].state # "gone"
      BY <2>3
    <3>2. /\ rows[r].board \in Rows /\ rows[rows[r].board].kind = "board"
          /\ rows[rows[r].board].state = "live"
          /\ rows[r].kind = "link" => rows[rows[r].board].ws = rows[r].ws
      BY <3>1 DEF InOrder, NoOrphans, OfKind
    <3> QED BY <2>3, <3>2
  <2>6. WsOf(x)' = req[s].ws
    <3>1. WsOf(x) = req[s].ws /\ rows'[x].kind = rows[x].kind
          /\ rows'[x].ws = rows[x].ws /\ rows'[x].board = rows[x].board
      BY <1>0, <2>3
    <3>2. rows[x].kind = "widget" => rows[x].board \in Rows
      BY <1>0 DEF OfKind
    <3>3. rows[x].kind = "widget" => rows'[rows[x].board].ws = rows[rows[x].board].ws
      BY <3>2, <2>3
    <3> QED BY ONLY <3>1, <3>3 DEF WsOf
  <2>7. May(s, Needs(x)')
    BY <1>0, <1>2, <2>2, <2>3 DEF Needs
  <2>8. \A r \in Rows : rows'[r] # rows[r] => WsOf(r)' = req[s].ws /\ May(s, Needs(r)')
    BY <2>2, <2>6, <2>7
  <2> QED BY <1>2, <2>2, <2>3, <2>4, <2>5, <2>8, RowsKept
<1> QED BY <1>0, <1>1, <1>2 DEF UpdateRow

\* delete: what hangs from a dashboard goes with it.
LEMMA DeleteKept ==
    ASSUME InOrder, NEW s \in Slots, Busy(s), DeleteRow(s),
           UNCHANGED <<accounts, keys>>, Rest, req[s].op \in Edits \cup Ownings,
           req[s].x \in Rows, rows[req[s].x].kind \in {"board", "widget", "alert"},
           rows[req[s].x].kind = "widget" => rows[req[s].x].board \in OfKind("board"),
           WsOf(req[s].x) = req[s].ws,
           May(s, IF rows[req[s].x].kind = "widget" THEN Editors ELSE Owners)
    PROVE  Kept
<1> DEFINE x == req[s].x
<1>1. CASE Reply(s, 500, NONE) /\ UNCHANGED rows
  <2>1. Still
    BY <1>1 DEF Still, Rest
  <2>2. req[s].op # "tick"
    BY DEF Edits, Ownings
  <2> QED BY <1>1, <2>1, <2>2, ReplyKept
<1>2. CASE /\ rows[x].state # "gone" /\ Commit(s, NONE)
           /\ rows' = [r \in Rows |-> IF r \in Cascade(x) THEN [rows[r] EXCEPT !.state = "gone"]
                                      ELSE rows[r]]
  <2>1. rows \in [Rows -> RowOK] /\ \A r \in Rows : rows[r].kind = "free" <=> rows[r].state = "free"
    BY DEF InOrder, TypeOK
  <2>2. \A r \in Rows : rows[r] \in RowOK /\ rows'[r] \in RowOK
    BY <1>2, <2>1 DEF RowOK
  <2>3. \A r \in Rows : /\ rows'[r].kind = rows[r].kind /\ rows'[r].ws = rows[r].ws
                        /\ rows'[r].board = rows[r].board /\ rows'[r].exp = rows[r].exp
                        /\ rows'[r].rev = rows[r].rev
                        /\ rows'[r].state = IF r \in Cascade(x) THEN "gone" ELSE rows[r].state
    BY <1>2, <2>2 DEF RowOK
  <2>4. \A r \in Cascade(x) : r \in Rows /\ rows[r].kind # "free"
    BY DEF Cascade
  <2>5. \A r \in Rows : rows'[r].kind = "free" <=> rows'[r].state = "free"
    BY <2>1, <2>3, <2>4
  <2>6. NoOrphans'
    <3> SUFFICES ASSUME NEW r \in Rows, rows[r].kind \in {"widget", "link"},
                        rows'[r].state # "gone"
                 PROVE  /\ rows[r].board \in Rows /\ rows[rows[r].board].kind = "board"
                        /\ rows'[rows[r].board].state = "live"
                        /\ rows[r].kind = "link" => rows[rows[r].board].ws = rows[r].ws
      BY <2>3 DEF NoOrphans, OfKind
    <3>1. rows[r].state # "gone" /\ r \notin Cascade(x)
      BY <2>3
    <3>2. /\ rows[r].board \in Rows /\ rows[rows[r].board].kind = "board"
          /\ rows[rows[r].board].state = "live"
          /\ rows[r].kind = "link" => rows[rows[r].board].ws = rows[r].ws
      BY <3>1 DEF InOrder, NoOrphans, OfKind
    <3>3. rows[r].board \notin Cascade(x)
      BY <3>1, <3>2 DEF Cascade
    <3> QED BY <2>3, <3>2, <3>3
  <2>7. ASSUME NEW r \in Rows, rows'[r] # rows[r]
        PROVE  WsOf(r)' = req[s].ws /\ May(s, Needs(r)')
    <3>1. r \in Cascade(x) /\ rows[r].state # "gone"
      BY <1>2, <2>2, <2>7 DEF RowOK
    <3>2. CASE r = x
      <4>1. WsOf(r)' = req[s].ws
        BY <2>3, <3>2 DEF WsOf, OfKind
      <4>2. Needs(r)' = IF rows[x].kind = "widget" THEN Editors ELSE Owners
        BY <2>3, <3>1, <3>2 DEF Needs
      <4> QED BY <4>1, <4>2
    <3>3. CASE r # x
      <4>1. /\ rows[x].kind = "board" /\ rows[r].board = x /\ rows[r].kind \in {"widget", "link"}
        BY <3>1, <3>3 DEF Cascade
      <4>2. rows[x].ws = req[s].ws /\ May(s, Owners) /\ May(s, Editors)
        BY <4>1 DEF WsOf, May, Owners, Editors
      <4>3. rows[r].kind = "link" => rows[r].ws = rows[x].ws
        BY <3>1, <4>1 DEF InOrder, NoOrphans
      <4>4. WsOf(r)' = req[s].ws
        BY <2>3, <4>1, <4>2, <4>3 DEF WsOf
      <4> QED BY <4>2, <4>4 DEF Needs
    <3> QED BY <3>2, <3>3
  <2>8. rows' \in [Rows -> RowOK]
    BY <1>2, <2>2
  <2>9. \A r \in Rows : rows[r].kind # "free" =>
          /\ rows'[r].kind = rows[r].kind /\ rows'[r].ws = rows[r].ws
          /\ rows'[r].board = rows[r].board /\ rows'[r].exp = rows[r].exp
          /\ rows[r].state # "live" => rows'[r].state # "live"
    BY <2>3
  <2> HIDE DEF x
  <2> QED BY <1>2, <2>5, <2>6, <2>7, <2>8, <2>9, RowsKept
<1> QED BY <1>1, <1>2 DEF DeleteRow

\* Who is past the guards may write.
LEMMA Entitled ==
    ASSUME InOrder, NEW s \in Slots, req[s].pc \notin {"idle", "guard", "role"}
    PROVE  /\ req[s].op \in Edits \cup Ownings => May(s, Editors)
           /\ req[s].op \in Ownings \cup {"issueKey", "revokeKey"} => May(s, Owners)
<1>1. AsAllowed(s)
  BY InFlight DEF Busy
<1>2. Owners \subseteq Editors
  BY DEF Owners, Editors
<1> QED BY <1>1, <1>2, RolesAre, GuardedAre DEF AsAllowed, At, May, Edits, Ownings

\* The five creates, each under a dashboard it found or under none.
LEMMA Inserts ==
    ASSUME InOrder, NEW s \in Slots, UNCHANGED <<accounts, keys>>, Rest,
           \/ CreateBoard(s) \/ CreateAlert(s) \/ EnqueuePdf(s)
           \/ CreateWidget(s) /\ At(s, "createWidget", "write")
           \/ CreateLink(s) /\ At(s, "createLink", "write")
    PROVE  Kept
<1> DEFINE w == req[s].ws
           x == req[s].x
<1>0. /\ Busy(s) /\ TypeOK /\ AsSent(s) /\ AsFound(s)
      /\ req[s].op \in {"createBoard", "createAlert", "enqueuePdf", "createWidget", "createLink"}
      /\ req[s].pc \in {"service", "write"}
  BY InFlight DEF CreateBoard, CreateAlert, EnqueuePdf, CreateWidget, CreateLink, At, Busy
<1>1. /\ w \in Users /\ NONE \in Users \cup {NONE} /\ 0 \in 0..MaxTime + 1
      /\ req[s].op \in Edits \cup Ownings
      /\ May(s, Editors) /\ (req[s].op = "createLink" => May(s, Owners))
  BY <1>0, Parties, RolesAre, GuardedAre, Entitled, RequestsAssumption DEF Edits, Ownings
<1>2. CASE CreateBoard(s) \/ CreateAlert(s)
  <2>1. ASSUME NEW kind \in {"board", "alert"}, Insert(s, Row(kind, w, 0, 0)) PROVE Kept
    <3> DEFINE row == Row(kind, w, 0, 0)
    <3>1. /\ row \in RowOK /\ row.kind = kind /\ row.state = "live" /\ row.ws = w
      BY <1>1 DEF Row, RowOK
    <3> HIDE DEF row
    <3> QED BY <1>0, <1>1, <2>1, <3>1, InsertKept DEF row
  <2> QED BY <1>2, <2>1 DEF CreateBoard, CreateAlert
<1>3. CASE EnqueuePdf(s)
  <2> DEFINE row == Row("pdf", w, x, 0)
  <2>1. x \in Rows
    BY <1>0, <1>3, Subjects DEF EnqueuePdf, At
  <2>2. /\ row \in RowOK /\ row.kind = "pdf" /\ row.state = "live" /\ row.ws = w
    BY <1>1, <2>1 DEF Row, RowOK
  <2>3. Insert(s, row)
    BY <1>3 DEF EnqueuePdf
  <2> HIDE DEF row
  <2> QED BY <1>0, <1>1, <2>2, <2>3, InsertKept
<1>4. CASE CreateWidget(s) /\ At(s, "createWidget", "write")
  <2> DEFINE row == Row("widget", NONE, x, 0)
  <2>1. x \in Rows /\ x \in OfKind("board") /\ rows[x].ws = w
    BY <1>0, <1>4, Subjects DEF AsFound, OnRow, At
  <2>2. /\ row \in RowOK /\ row.kind = "widget" /\ row.state = "live" /\ row.board = x
    BY <1>1, <2>1 DEF Row, RowOK
  <2>3. Insert(s, row)
    BY <1>4 DEF CreateWidget, At
  <2> HIDE DEF row
  <2> QED BY <1>0, <1>1, <2>1, <2>2, <2>3, InsertKept
<1>5. CASE CreateLink(s) /\ At(s, "createLink", "write")
  <2> DEFINE row == Row("link", w, x, req[s].y)
  <2>1. /\ x \in Rows /\ x \in OfKind("board") /\ rows[x].ws = w
        /\ req[s].y \in 0..MaxTime + 1
    BY <1>0, <1>5, Subjects DEF AsFound, OnRow, At
  <2>2. /\ row \in RowOK /\ row.kind = "link" /\ row.state = "live" /\ row.board = x /\ row.ws = w
    BY <1>1, <2>1 DEF Row, RowOK
  <2>3. Insert(s, row) /\ req[s].op = "createLink"
    BY <1>5 DEF CreateLink, At
  <2> HIDE DEF row
  <2> QED BY <1>0, <1>1, <2>1, <2>2, <2>3, InsertKept
<1> QED BY <1>2, <1>3, <1>4, <1>5

\* The row that was looked up is still in its place when it is written.
LEMMA RowWrites ==
    ASSUME InOrder, NEW s \in Slots, UNCHANGED <<accounts, keys>>, Rest, req[s].pc = "write",
           \/ UpdateBoard(s) \/ UpdateWidget(s) \/ UpdateAlert(s) \/ RevokeLink(s)
           \/ DeleteBoard(s) \/ DeleteWidget(s) \/ DeleteAlert(s)
    PROVE  Kept
<1> DEFINE w == req[s].ws
           x == req[s].x
           row == rows[x]
<1>0. /\ Busy(s) /\ TypeOK /\ AsSent(s) /\ AsFound(s)
      /\ req[s].op \in {"updateBoard", "updateWidget", "updateAlert", "revokeLink",
                        "deleteBoard", "deleteWidget", "deleteAlert"}
  BY InFlight DEF UpdateBoard, UpdateWidget, UpdateAlert, RevokeLink, DeleteBoard,
                  DeleteWidget, DeleteAlert, At, Busy
<1>1. /\ x \in Rows /\ row \in RowOK /\ row.kind # "free"
      /\ row.kind = "board" <=> req[s].op \in {"updateBoard", "deleteBoard"}
      /\ row.kind = "widget" <=> req[s].op \in {"updateWidget", "deleteWidget"}
      /\ row.kind = "alert" <=> req[s].op \in {"updateAlert", "deleteAlert"}
      /\ row.kind = "link" <=> req[s].op = "revokeLink"
  BY <1>0, Subjects DEF OnRow, OnBoard, OfKind, TypeOK
<1>2. row.kind = "widget" => row.board \in OfKind("board") /\ rows[row.board].ws = w
  BY <1>0, <1>1, Subjects DEF AsFound, OnBoard
<1>3. row.kind # "widget" => row.ws = w
  BY <1>0, <1>1 DEF AsFound, OnRow
<1>4. WsOf(x) = w
  BY <1>2, <1>3 DEF WsOf
<1>5. /\ req[s].op \in Edits \cup Ownings /\ May(s, Editors)
      /\ req[s].op \in {"revokeLink", "deleteBoard", "deleteAlert"} => May(s, Owners)
  BY <1>0, Entitled DEF Edits, Ownings
<1>6. CASE req[s].op \in {"updateBoard", "updateWidget", "updateAlert"}
  <2> DEFINE new == Touched(x)
  <2>1. /\ new \in RowOK /\ new.kind = row.kind /\ new.ws = row.ws /\ new.board = row.board
        /\ new.exp = row.exp /\ new.state = row.state
    BY <1>1 DEF Touched, RowOK
  <2>2. UpdateRow(s, new)
    BY <1>6 DEF UpdateBoard, UpdateWidget, UpdateAlert, RevokeLink, DeleteBoard,
                DeleteWidget, DeleteAlert, At
  <2> HIDE DEF new
  <2>3. May(s, IF new.kind = "link" THEN Owners ELSE Editors)
    BY <1>1, <1>5, <1>6, <2>1
  <2>4. new.kind = "widget" => new.board \in OfKind("board")
    BY <1>2, <2>1
  <2> QED BY <1>0, <1>1, <1>4, <1>5, <2>1, <2>2, <2>3, <2>4, UpdateKept
<1>7. CASE req[s].op = "revokeLink"
  <2> DEFINE new == [row EXCEPT !.state = "revoked"]
  <2>1. /\ new \in RowOK /\ new.kind = row.kind /\ new.ws = row.ws /\ new.board = row.board
        /\ new.exp = row.exp /\ new.state = "revoked"
    BY <1>1 DEF RowOK
  <2>2. UpdateRow(s, new)
    BY <1>7 DEF UpdateBoard, UpdateWidget, UpdateAlert, RevokeLink, DeleteBoard,
                DeleteWidget, DeleteAlert, At
  <2>3. row.kind = "link" /\ May(s, Owners)
    BY <1>1, <1>5, <1>7
  <2> HIDE DEF new
  <2> QED BY <1>0, <1>1, <1>4, <1>5, <2>1, <2>2, <2>3, UpdateKept
<1>8. CASE req[s].op \in {"deleteBoard", "deleteWidget", "deleteAlert"}
  <2>1. DeleteRow(s)
    BY <1>8 DEF UpdateBoard, UpdateWidget, UpdateAlert, RevokeLink, DeleteBoard,
                DeleteWidget, DeleteAlert, At
  <2>2. row.kind \in {"board", "widget", "alert"} /\ (row.kind # "widget" => May(s, Owners))
    BY <1>1, <1>5, <1>8
  <2> QED BY <1>0, <1>1, <1>2, <1>4, <1>5, <2>1, <2>2, DeleteKept
<1> QED BY <1>0, <1>6, <1>7, <1>8

\* Every step of dashboards, widgets, links, alerts and jobs.
LEMMA BoardKept ==
    ASSUME InOrder, NEW s \in Slots, BoardStep(s)
    PROVE  Kept
<1>1. UNCHANGED <<accounts, keys>> /\ Rest
  BY DEF BoardStep, Rest
<1>2. ASSUME UNCHANGED rows PROVE Still
  BY <1>1, <1>2 DEF Still, Rest
<1>3. CASE ListBoards(s) \/ GetBoard(s) \/ ListLinks(s) \/ ListAlerts(s) \/ PdfStatus(s)
  <2>1. UNCHANGED rows
    BY <1>3 DEF ListBoards, GetBoard, ListLinks, ListAlerts, PdfStatus, Read, NotFound
  <2> QED BY <1>2, <1>3, <2>1, BoardLists
<1>4. CASE \/ UpdateBoard(s) /\ At(s, "updateBoard", "service")
           \/ DeleteBoard(s) /\ At(s, "deleteBoard", "service")
           \/ CreateWidget(s) /\ At(s, "createWidget", "service")
           \/ UpdateAlert(s) /\ At(s, "updateAlert", "service")
           \/ DeleteAlert(s) /\ At(s, "deleteAlert", "service")
           \/ RevokeLink(s) /\ At(s, "revokeLink", "service")
           \/ AssertDashboard(s)
           \/ UpdateWidget(s) /\ At(s, "updateWidget", "find")
           \/ DeleteWidget(s) /\ At(s, "deleteWidget", "find")
           \/ CreateLink(s) /\ At(s, "createLink", "service")
  <2>1. UNCHANGED rows
    BY <1>4 DEF UpdateBoard, DeleteBoard, CreateWidget, UpdateAlert, DeleteAlert, RevokeLink,
                AssertDashboard, UpdateWidget, DeleteWidget, CreateLink, Check, NotFound, Read, At
  <2> QED BY <1>2, <1>4, <2>1, Checks
<1>5. CASE Resolve(s)
  BY <1>2, <1>5, ResolveKept DEF Resolve
<1>6. CASE \/ CreateBoard(s) \/ CreateAlert(s) \/ EnqueuePdf(s)
           \/ CreateWidget(s) /\ At(s, "createWidget", "write")
           \/ CreateLink(s) /\ At(s, "createLink", "write")
  BY <1>1, <1>6, Inserts
<1>7. CASE /\ req[s].pc = "write"
           /\ \/ UpdateBoard(s) \/ UpdateWidget(s) \/ UpdateAlert(s) \/ RevokeLink(s)
              \/ DeleteBoard(s) \/ DeleteWidget(s) \/ DeleteAlert(s)
  BY <1>1, <1>7, RowWrites
<1>8. /\ UpdateBoard(s) => At(s, "updateBoard", "service") \/ req[s].pc = "write"
      /\ DeleteBoard(s) => At(s, "deleteBoard", "service") \/ req[s].pc = "write"
      /\ CreateWidget(s) => At(s, "createWidget", "service") \/ At(s, "createWidget", "write")
      /\ UpdateWidget(s) => At(s, "updateWidget", "find") \/ req[s].pc = "write"
      /\ DeleteWidget(s) => At(s, "deleteWidget", "find") \/ req[s].pc = "write"
      /\ CreateLink(s) => At(s, "createLink", "service") \/ At(s, "createLink", "write")
      /\ RevokeLink(s) => At(s, "revokeLink", "service") \/ req[s].pc = "write"
      /\ UpdateAlert(s) => At(s, "updateAlert", "service") \/ req[s].pc = "write"
      /\ DeleteAlert(s) => At(s, "deleteAlert", "service") \/ req[s].pc = "write"
  BY DEF UpdateBoard, DeleteBoard, CreateWidget, UpdateAlert, DeleteAlert, RevokeLink,
         UpdateWidget, DeleteWidget, CreateLink, At
<1> QED BY <1>3, <1>4, <1>5, <1>6, <1>7, <1>8 DEF BoardStep

-----------------------------------------------------------------------------
(* Sign-ups, invitations and keys.                                         *)
\* A sign-up makes a user and a workspace, or fails on a unique index.
LEMMA CreateAccountKept ==
    ASSUME InOrder, NEW s \in Slots, CreateAccount(s), UNCHANGED <<keys, rows>>, Rest
    PROVE  Kept
<1>0. /\ Busy(s) /\ TypeOK /\ AsSent(s) /\ AsFound(s) /\ At(s, "signup", "create")
  BY InFlight DEF CreateAccount, At, Busy
<1>1. ASSUME NEW val, Reply(s, 500, val), UNCHANGED accounts PROVE Kept
  <2>1. Still
    BY <1>1 DEF Still, Rest
  <2> QED BY <1>0, <1>1, <2>1, ReplyKept DEF At
<1>2. PICK u \in Users : u = req[s].user
  BY <1>0, Parties DEF At
<1>3. CASE /\ u \notin Workspaces /\ ~SlugTaken(req[s].y) /\ Commit(s, {u})
           /\ joined' = Append(joined, u) /\ slug' = [slug EXCEPT ![u] = req[s].y]
           /\ member' = [member EXCEPT ![u][u] = "owner"]
  <2>1. /\ joined \in Seq(Users) /\ joined' \in Seq(Users) /\ Len(joined') = Len(joined) + 1
        /\ Len(joined) \in Nat
        /\ \A i \in 1..Len(joined) : joined'[i] = joined[i]
        /\ joined'[Len(joined) + 1] = u
    BY <1>0, <1>3 DEF TypeOK
  <2>2. Workspaces' = Workspaces \cup {u}
    BY <2>1 DEF Workspaces
  <2>3. \A i, k \in 1..Len(joined') : joined'[i] = joined'[k] => i = k
    <3> SUFFICES ASSUME NEW i \in 1..Len(joined'), NEW k \in 1..Len(joined'),
                        joined'[i] = joined'[k]
                 PROVE  i = k
      OBVIOUS
    <3>1. \A j \in 1..Len(joined) : joined[j] # u
      BY <1>3 DEF Workspaces
    <3>2. /\ i \in 1..Len(joined) \/ i = Len(joined) + 1
          /\ k \in 1..Len(joined) \/ k = Len(joined) + 1
      BY <2>1
    <3>3. \A a, b \in 1..Len(joined) : joined[a] = joined[b] => a = b
      BY <1>0 DEF TypeOK
    <3> QED BY <2>1, <3>1, <3>2, <3>3
  <2>4. /\ DOMAIN slug' = Users /\ slug'[u] = req[s].y
        /\ \A v \in Users \ {u} : slug'[v] = slug[v]
    BY <1>0, <1>3 DEF TypeOK
  <2>5. /\ member' \in [Users -> [Users -> Roles \cup {NONE}]] /\ member'[u][u] = "owner"
        /\ \A v, w \in Users : v # u \/ w # u => member'[v][w] = member[v][w]
    BY <1>0, <1>3 DEF TypeOK, Roles
  <2>6. Workspaces \subseteq Users /\ req[s].y # <<>>
    BY <1>0, Parties DEF AsFound
  <2>7. "owner" # NONE
    BY DEF NONE
  <2>8. TypeOK'
    <3>1. \A v \in Users : slug'[v] # <<>> <=> v \in Workspaces'
      BY <1>0, <2>2, <2>4, <2>6 DEF TypeOK
    <3>2. \A v \in Workspaces' : member'[v][v] # NONE
      BY <1>0, <2>2, <2>5, <2>6, <2>7 DEF TypeOK
    <3>3. /\ UNCHANGED <<subscribed, onChannel>> /\ UNCHANGED <<now, left>>
          /\ subscribed \cup onChannel \subseteq Workspaces'
      BY <1>0, <2>2 DEF Rest, gateway, env, TypeOK
    <3> QED BY <1>0, <2>1, <2>3, <2>4, <2>5, <3>1, <3>2, <3>3 DEF TypeOK
  <2>9. SlugsUnique'
    <3> SUFFICES ASSUME NEW v \in Workspaces', NEW w \in Workspaces', slug'[v] = slug'[w]
                 PROVE  v = w
      BY DEF SlugsUnique
    <3>1. \A t \in Workspaces : slug[t] # req[s].y
      BY <1>3 DEF SlugTaken
    <3>2. \A a, b \in Workspaces : slug[a] = slug[b] => a = b
      BY DEF InOrder, SlugsUnique
    <3> HIDE DEF Workspaces
    <3>3. \A t \in Workspaces : t # u /\ slug'[t] = slug[t]
      BY <1>3, <2>4, <2>6
    <3> QED BY <2>2, <2>4, <3>1, <3>2, <3>3
  <2>10. Grows
    BY <2>2, <2>5, <2>7 DEF Grows
  <2>11. NoOrphans'
    BY DEF InOrder, NoOrphans, OfKind
  <2>12. MayChange(s)
    BY <1>3, <2>5, <2>6 DEF MayChange
  <2>13. \A t \in Slots : Busy(t) /\ req[t].op \in DOMAIN RolesFor =>
           member'[req[t].ws][req[t].user] = ResolveRole(t)
    <3> SUFFICES ASSUME NEW t \in Slots, Busy(t), req[t].op \in DOMAIN RolesFor
                 PROVE  member'[req[t].ws][req[t].user] = ResolveRole(t)
      OBVIOUS
    <3>1. req[t].ws \in Workspaces /\ req[t].user \in Users
      BY InFlight, Parties, RolesAre, GuardedAre DEF Reads, Edits, Ownings
    <3> QED BY <1>3, <2>5, <2>6, <3>1 DEF ResolveRole
  <2>14. /\ ~Busy(s)' /\ DOMAIN req' = Slots /\ Others(s)
         /\ out'.op = "signup" /\ out'.user = u /\ out'.val = {u}
    BY <1>0, <1>2, <1>3, <2>13, CommitIs DEF At
  <2> QED BY <1>0, <2>5, <2>7, <2>8, <2>9, <2>10, <2>11, <2>12, <2>14, WriteKept
          DEF Queries, Lists, Homes
<1> QED BY <1>1, <1>2, <1>3 DEF CreateAccount, FirstRole

\* Whoever gets the role has held it since, for the requests in flight too.
LEMMA InviteKept ==
    ASSUME InOrder, NEW s \in Slots, Invite(s), At(s, "invite", "upsert"),
           UNCHANGED <<keys, rows>>, Rest
    PROVE  Kept
<1>0. /\ Busy(s) /\ TypeOK /\ AsSent(s) /\ AsAllowed(s) /\ DOMAIN req = Slots
  BY InFlight DEF At, Busy
<1>1. PICK w \in Workspaces, u \in Users, role \in {"member", "viewer"} :
        w = req[s].ws /\ u = req[s].x /\ role = req[s].y
  BY <1>0, Parties, Subjects, RolesAre DEF At
<1>2. /\ member' = [member EXCEPT ![w][u] = role] /\ UNCHANGED <<joined, slug>>
      /\ Says(s, 200, {w})
      /\ req' = [t \in Slots |-> IF t = s THEN Idle
                    ELSE IF Busy(t) /\ req[t].user = u /\ req[t].ws = w
                         THEN [Overtaken(s)[t] EXCEPT !.held = @ \cup {role}]
                    ELSE Overtaken(s)[t]]
  BY <1>1 DEF Invite, At
<1>3. /\ member' \in [Users -> [Users -> Roles \cup {NONE}]] /\ member'[w][u] = role
      /\ role # NONE /\ w \in Users /\ Workspaces' = Workspaces
      /\ \A v, t \in Users : v # w \/ t # u => member'[v][t] = member[v][t]
  BY <1>0, <1>1, <1>2, Parties DEF TypeOK, Roles, NONE, Workspaces
<1>4. ~Busy(s)' /\ DOMAIN req' = Slots
  BY <1>2 DEF Busy, Idle
<1>5. Others(s)
  <2> SUFFICES ASSUME NEW t \in Slots \ {s}
               PROVE  (Busy(t) => Waits(t)) /\ (Busy(t)' => Busy(t))
    BY DEF Others
  <2>1. CASE ~Busy(t)
    BY <1>2, <2>1 DEF Busy, Overtaken
  <2>2. CASE Busy(t)
    <3>1. DOMAIN req[t] = Fields
      BY <2>2, InFlight
    <3>2. /\ DOMAIN req'[t] = Fields
          /\ req'[t].op = req[t].op /\ req'[t].user = req[t].user /\ req'[t].ws = req[t].ws
          /\ req'[t].x = req[t].x /\ req'[t].y = req[t].y /\ req'[t].pc = req[t].pc
          /\ req'[t].held = IF req[t].user = u /\ req[t].ws = w
                            THEN req[t].held \cup {role} ELSE req[t].held
      <4>1. DOMAIN Overtaken(s)[t] = Fields /\ Overtaken(s)[t].held = req[t].held
            /\ \A f \in Fields \ {"alone", "held"} : Overtaken(s)[t][f] = req[t][f]
        BY <2>2, <3>1 DEF Overtaken, Fields
      <4>2. DOMAIN req'[t] = Fields
            /\ (\A f \in Fields \ {"held"} : req'[t][f] = Overtaken(s)[t][f])
            /\ req'[t].held = IF req[t].user = u /\ req[t].ws = w
                              THEN req[t].held \cup {role} ELSE req[t].held
        BY <1>2, <2>2, <4>1 DEF Fields
      <4> QED BY <4>1, <4>2 DEF Fields
    <3>3. req[t].op \in DOMAIN RolesFor => ResolveRole(t)' \in req'[t].held \cup {ResolveRole(t)}
      <4> SUFFICES ASSUME req[t].op \in DOMAIN RolesFor
                   PROVE  ResolveRole(t)' \in req'[t].held \cup {ResolveRole(t)}
        OBVIOUS
      <4>1. req[t].ws \in Users /\ req[t].user \in Users
        BY <2>2, InFlight, Parties, RolesAre, GuardedAre DEF Reads, Edits, Ownings
      <4> QED BY <1>3, <3>2, <4>1 DEF ResolveRole
    <3> QED BY <2>2, <3>2, <3>3 DEF Waits, Busy
  <2> QED BY <2>1, <2>2
<1>6. TypeOK'
  <2>1. UNCHANGED <<subscribed, onChannel>> /\ UNCHANGED <<now, left>>
    BY DEF Rest, gateway, env
  <2>2. \A v \in Workspaces : member'[v][v] # NONE
    BY <1>0, <1>3, Parties DEF TypeOK
  <2> QED BY <1>0, <1>2, <1>3, <2>1, <2>2 DEF TypeOK
<1>7. NoOrphans' /\ SlugsUnique'
  BY <1>2, <1>3 DEF InOrder, NoOrphans, OfKind, SlugsUnique
<1>8. Grows
  BY <1>3 DEF Grows
<1>9. MayChange(s)
  <2>1. May(s, Owners)
    BY <1>0, RolesAre, GuardedAre DEF AsAllowed, At, May
  <2> QED BY <1>1, <1>3, <2>1, Parties, <1>0 DEF MayChange
<1>10. out'.op = "invite"
  BY <1>2 DEF Says, At
<1> QED BY <1>0, <1>4, <1>5, <1>6, <1>7, <1>8, <1>9, <1>10, WriteKept DEF Queries, Lists, Homes

\* A key is made or revoked by an owner of its workspace.
LEMMA KeyKept ==
    ASSUME InOrder, NEW s \in Slots, Commit(s, NONE), UNCHANGED <<accounts, rows>>, Rest,
           req[s].op \in {"issueKey", "revokeKey"}, req[s].pc \in {"create", "write"},
           NEW p \in Prefixes, NEW key \in [state : {"live", "revoked"}, ws : {req[s].ws}],
           keys' = [keys EXCEPT ![p] = key],
           keys[p].state # "free" => keys[p].ws = req[s].ws
    PROVE  Kept
<1>0. Busy(s) /\ TypeOK /\ AsSent(s) /\ May(s, Owners)
  BY InFlight, Entitled DEF Busy
<1>1. /\ UNCHANGED <<joined, slug, member>> /\ Workspaces' = Workspaces
      /\ UNCHANGED <<subscribed, onChannel>> /\ UNCHANGED <<now, left>>
  BY DEF accounts, Workspaces, Rest, gateway, env
<1>2. req[s].ws \in Users
  BY <1>0, Parties, RolesAre
<1>3. /\ keys' \in [Prefixes -> [state : {"free", "live", "revoked"}, ws : Users \cup {NONE}]]
      /\ keys'[p] = key /\ \A q \in Prefixes \ {p} : keys'[q] = keys[q]
  BY <1>0, <1>2 DEF TypeOK
<1>4. TypeOK'
  BY <1>0, <1>1, <1>3 DEF TypeOK
<1>5. NoOrphans' /\ SlugsUnique'
  BY <1>1 DEF InOrder, NoOrphans, OfKind, SlugsUnique
<1>6. Grows
  BY <1>1, <1>3 DEF Grows
<1>7. MayChange(s)
  BY <1>0, <1>1, <1>3 DEF MayChange
<1>8. ~Busy(s)' /\ DOMAIN req' = Slots /\ Others(s) /\ out'.op = req[s].op
  <2>1. \A t \in Slots : member'[req[t].ws][req[t].user] = ResolveRole(t)
    BY <1>1 DEF ResolveRole
  <2> QED BY <2>1, CommitIs
<1> QED BY <1>0, <1>4, <1>5, <1>6, <1>7, <1>8, WriteKept DEF Queries, Lists, Homes

\* Every step of sign-ups, logins, workspaces and keys.
LEMMA AccountKept ==
    ASSUME InOrder, NEW s \in Slots, AccountStep(s)
    PROVE  Kept
<1>1. CASE /\ \/ Signup(s) \/ Login(s) \/ Refresh(s)
              \/ ListForUser(s) \/ GetForUser(s) \/ Invite(s)
           /\ UNCHANGED <<keys, rows, cache, gateway, env>>
  <2>1. ASSUME UNCHANGED accounts PROVE Still
    BY <1>1, <2>1 DEF Still
  <2>2. UNCHANGED <<keys, rows>> /\ Rest
    BY <1>1 DEF Rest
  <2>3. CASE CreateAccount(s)
    BY <2>2, <2>3, CreateAccountKept
  <2>4. CASE Invite(s) /\ At(s, "invite", "upsert")
    BY <2>2, <2>4, InviteKept
  <2>5. CASE Invite(s) /\ At(s, "invite", "service")
    <3>1. UNCHANGED accounts
      BY <2>5 DEF Invite, At
    <3> QED BY <2>1, <2>5, <3>1, KeyReads
  <2>6. CASE \/ EmailFree(s) \/ UniqueSlug(s) \/ Login(s) \/ Refresh(s)
             \/ ListForUser(s) \/ GetForUser(s)
    <3>1. UNCHANGED accounts
      BY <2>6 DEF EmailFree, UniqueSlug, Login, Refresh, ListForUser, GetForUser
    <3> QED BY <2>1, <2>6, <3>1, AccountReads
  <2>7. Invite(s) => At(s, "invite", "service") \/ At(s, "invite", "upsert")
    BY DEF Invite
  <2> QED BY <1>1, <2>3, <2>4, <2>5, <2>6, <2>7 DEF Signup
<1>2. CASE /\ DrawPrefix(s) \/ CreateKey(s) \/ ListKeys(s) \/ RevokeKey(s)
           /\ UNCHANGED <<accounts, rows, cache, gateway, env>>
  <2>1. ASSUME UNCHANGED keys PROVE Still
    BY <1>2, <2>1 DEF Still
  <2>2. UNCHANGED <<accounts, rows>> /\ Rest
    BY <1>2 DEF Rest
  <2>3. CASE DrawPrefix(s) \/ ListKeys(s)
    BY <2>1, <2>3, KeyReads DEF DrawPrefix, ListKeys
  <2>4. CASE CreateKey(s)
    <3>1. CASE Reply(s, 500, NONE) /\ UNCHANGED keys
      BY <2>1, <2>4, <3>1, KeyReads
    <3>2. CASE /\ keys[req[s].x].state = "free" /\ Commit(s, NONE)
               /\ keys' = [keys EXCEPT ![req[s].x] = [state |-> "live", ws |-> req[s].ws]]
      <4>1. PICK p \in Prefixes : p = req[s].x
        BY <2>4, InFlight DEF CreateKey, At, Busy, AsFound
      <4> QED BY <2>2, <2>4, <3>2, <4>1, KeyKept DEF CreateKey, At
    <3> QED BY <2>4, <3>1, <3>2 DEF CreateKey
  <2>5. CASE RevokeKey(s) /\ At(s, "revokeKey", "service")
    <3>1. UNCHANGED keys
      BY <2>5 DEF RevokeKey, At
    <3> QED BY <2>1, <2>5, <3>1, KeyReads
  <2>6. CASE RevokeKey(s) /\ At(s, "revokeKey", "write")
    <3>1. PICK p \in Prefixes : p = req[s].x
      BY <2>6, InFlight, Subjects DEF At, Busy
    <3>2. /\ keys' = [keys EXCEPT ![p].state = "revoked"] /\ Commit(s, NONE)
          /\ keys[p].state # "free" /\ keys[p].ws = req[s].ws
      BY <2>6, <3>1, InFlight DEF RevokeKey, At, Busy, AsFound
    <3>3. keys \in [Prefixes -> [state : {"free", "live", "revoked"}, ws : Users \cup {NONE}]]
      BY DEF InOrder, TypeOK
    <3>4. /\ [keys[p] EXCEPT !.state = "revoked"] \in [state : {"live", "revoked"}, ws : {req[s].ws}]
          /\ keys' = [keys EXCEPT ![p] = [keys[p] EXCEPT !.state = "revoked"]]
      BY <3>2, <3>3
    <3> QED BY <2>2, <2>6, <3>2, <3>4, KeyKept DEF At
  <2>7. RevokeKey(s) => At(s, "revokeKey", "service") \/ At(s, "revokeKey", "write")
    BY DEF RevokeKey
  <2> QED BY <1>2, <2>3, <2>4, <2>5, <2>6, <2>7
<1> QED BY <1>1, <1>2 DEF AccountStep

-----------------------------------------------------------------------------
(* The start.                                                              *)
\* The process starts idle on a database in order.
LEMMA InvInit ==
    ASSUME Init
    PROVE  InOrder /\ Right
<1>1. joined \in Seq(Users) /\ \A i, k \in 1..Len(joined) : joined[i] = joined[k] => i = k
  <2>1. CASE joined = <<>>
    BY <2>1
  <2>2. CASE joined = Founders
    BY <2>2, ControlPlaneAssumption
  <2> QED BY <2>1, <2>2 DEF Init
<1>2. Workspaces \subseteq Users
  BY <1>1 DEF Workspaces
<1> DEFINE at(u) == CHOOSE i \in 1..Len(joined) : joined[i] = u
<1>3. \A u \in Workspaces : at(u) \in 1..Len(joined) /\ joined[at(u)] = u
  BY DEF Workspaces
<1>4. slug = [u \in Users |-> IF u \in Workspaces THEN <<SlugBase[u], at(u) - 1>> ELSE <<>>]
  BY DEF Init
<1> HIDE DEF at
<1>5. DOMAIN slug = Users /\ \A u \in Users : slug[u] # <<>> <=> u \in Workspaces
  BY <1>4
<1>6. SlugsUnique
  <2> SUFFICES ASSUME NEW v \in Workspaces, NEW w \in Workspaces, slug[v] = slug[w] PROVE v = w
    BY DEF SlugsUnique
  <2> HIDE DEF Workspaces
  <2>1. <<SlugBase[v], at(v) - 1>> = <<SlugBase[w], at(w) - 1>>
    BY <1>2, <1>4
  <2>2. at(v) - 1 = at(w) - 1
    BY <2>1
  <2>3. Len(joined) \in Nat
    BY <1>1
  <2>4. at(v) = at(w)
    BY <1>3, <2>2, <2>3
  <2> QED BY <1>3, <2>4
<1>7. /\ member \in [Users -> [Users -> Roles \cup {NONE}]]
      /\ \A w \in Workspaces : member[w][w] # NONE
  BY <1>2 DEF Init, NONE
<1>8. keys \in [Prefixes -> [state : {"free", "live", "revoked"}, ws : Users \cup {NONE}]]
  BY DEF Init
<1>9. /\ DOMAIN rows = Rows
      /\ \A r \in Rows : \/ r \in DOMAIN Stock /\ joined # <<>> /\ rows[r] = Stock[r]
                         \/ ~(r \in DOMAIN Stock /\ joined # <<>>) /\ rows[r] = FreeRow
  BY DEF Init
<1>10. FreeRow \in RowOK /\ FreeRow.kind = "free" /\ FreeRow.state = "free"
  BY RequestsAssumption DEF FreeRow, Row, RowOK
<1>11. /\ rows \in [Rows -> RowOK]
       /\ \A r \in Rows : rows[r].kind = "free" <=> rows[r].state = "free"
  <2>1. \A r \in Rows : rows[r] \in RowOK /\ (rows[r].kind = "free" <=> rows[r].state = "free")
    BY <1>9, <1>10, ControlPlaneAssumption
  <2>2. rows = [r \in Rows |-> rows[r]]
    BY DEF Init
  <2> QED BY <2>1, <2>2
<1>12. NoOrphans
  <2> SUFFICES ASSUME NEW r \in Rows, rows[r].kind \in {"widget", "link"}
               PROVE  /\ rows[r].board \in Rows /\ rows[rows[r].board].kind = "board"
                      /\ rows[rows[r].board].state = "live"
                      /\ rows[r].kind = "link" => rows[rows[r].board].ws = rows[r].ws
    BY DEF NoOrphans, OfKind
  <2>1. r \in DOMAIN Stock /\ joined # <<>> /\ rows[r] = Stock[r]
    BY <1>9, <1>10
  <2>2. PICK b \in Rows \cap DOMAIN Stock :
          /\ b = Stock[r].board /\ Stock[b].kind = "board" /\ Stock[b].state = "live"
          /\ Stock[r].kind = "link" => Stock[b].ws = Stock[r].ws
    BY <2>1, ControlPlaneAssumption
  <2>3. rows[b] = Stock[b]
    BY <1>9, <2>1, <2>2
  <2> QED BY <2>1, <2>2, <2>3
<1>13. TypeOK
  <2>1. now \in 0..MaxTime /\ left \in Nat /\ subscribed \cup onChannel \subseteq Workspaces
    BY RequestsAssumption DEF Init
  <2> QED BY <1>1, <1>5, <1>7, <1>8, <1>11, <2>1 DEF TypeOK
<1>14. DOMAIN req = Slots /\ \A s \in Slots : ~Busy(s)
  BY DEF Init, Busy, Idle
<1>15. /\ DOMAIN cache = Queries \X Users /\ CacheInOrder
       /\ HelloMeansLive /\ RequestsInOrder
  BY <1>14 DEF Init, CacheInOrder, HelloMeansLive, RequestsInOrder
<1>16. InOrder
  BY <1>6, <1>12, <1>13, <1>14, <1>15 DEF InOrder
<1>17. Right
  BY <1>14 DEF Init, Right, AnswersStayInside, AnswersAreRecent, ServedLinkWasLive, Silence,
               Queries, NONE
<1> QED BY <1>16, <1>17

-----------------------------------------------------------------------------
(* Every step.                                                             *)
\* Every action keeps the invariant, answers rightly and writes with authority.
LEMMA StepKept ==
    ASSUME InOrder, Next
    PROVE  Kept
<1>1. ASSUME NEW s \in Slots, Arrive(s) PROVE Kept
  BY <1>1, ArriveKept
<1>2. ASSUME NEW s \in Slots, Authorise(s) PROVE Kept
  BY <1>2, AuthoriseKept
<1>3. ASSUME NEW s \in Slots, AccountStep(s) PROVE Kept
  BY <1>3, AccountKept
<1>4. ASSUME NEW s \in Slots, BoardStep(s) PROVE Kept
  BY <1>4, BoardKept
<1>5. ASSUME NEW s \in Slots, AnalyticsStep(s) PROVE Kept
  <2>1. CASE Store(s)
    BY <1>5, <2>1, StoreKept DEF AnalyticsStep
  <2>2. CASE LookUp(s) \/ Query(s) \/ QueryFails(s) \/ Forecast(s) \/ ListModels(s)
    <3>1. Still
      BY <1>5, <2>2
         DEF Still, AnalyticsStep, LookUp, Query, QueryFails, Forecast, ListModels
    <3> QED BY <2>2, <3>1, QueryReads
  <2> QED BY <1>5, <2>1, <2>2 DEF AnalyticsStep
<1>6. ASSUME NEW s \in Slots, GatewayStep(s) PROVE Kept
  BY <1>6, GatewayKept
<1> QED BY <1>1, <1>2, <1>3, <1>4, <1>5, <1>6, FanoutKept, TickKept, RestartKept DEF Next

\* A stuttering step keeps both.
LEMMA StutterKept ==
    ASSUME InOrder /\ Right, UNCHANGED vars
    PROVE  InOrder' /\ Right'
<1>1. UNCHANGED <<accounts, keys, rows, cache, gateway, req, env>> /\ UNCHANGED <<out, req>>
  BY DEF vars
<1>2. InOrder'
  BY <1>1, UnmovedKept
<1>3. UNCHANGED <<joined, slug, member>> /\ UNCHANGED <<now, left, mix>>
  BY <1>1 DEF accounts, env
<1>4. Right'
  BY <1>1, <1>2, <1>3, HomeIsThere
     DEF Right, AnswersStayInside, AnswersAreRecent, ServedLinkWasLive, Queries, Ttl
<1> QED BY <1>2, <1>4

\* Both hold for ever.
LEMMA InvRight == Spec => [](InOrder /\ Right)
<1>1. Init => InOrder /\ Right
  BY InvInit
<1>2. (InOrder /\ Right) /\ [Next]_vars => (InOrder /\ Right)'
  BY StepKept, StutterKept DEF Kept
<1> QED BY <1>1, <1>2, PTL DEF Spec

-----------------------------------------------------------------------------
(* What a 500 takes.                                                       *)
Tables == <<joined, slug, keys, rows>>

\* A step of the request in s fails only by a race. Either it writes nothing and
\* s goes on with what it found, or everybody in flight is told that it wrote.
Told(s) == \A t \in Slots \ {s} : Busy(t)' => ~req'[t].alone
Fair(s) ==
    /\ OnlyRacesFail'
    /\ \/ /\ UNCHANGED Tables /\ \A t \in Slots \ {s} : req'[t] = req[t]
          /\ Busy(s)' => AsAlone(s)'
       \/ ~Busy(s)' /\ Told(s) /\ OnlyLinksRevoked'

\* An answer that is no failure, or one of the failures named.
LEMMA ReplyFair ==
    ASSUME InOrder, NEW s \in Slots, NEW code, NEW val, Reply(s, code, val), UNCHANGED Tables,
           code # 500 \/ val \in {"unavailable", "exhausted"} \/ ~req[s].alone
    PROVE  Fair(s)
<1>1. out'.code = code /\ out'.val = val /\ out'.alone = req[s].alone
  BY DEF Reply, Says
<1>2. OnlyRacesFail'
  BY <1>1 DEF OnlyRacesFail
<1>3. ~Busy(s)' /\ \A t \in Slots \ {s} : req'[t] = req[t]
  BY DEF Reply, Busy, Idle, InOrder
<1> QED BY <1>2, <1>3 DEF Fair

\* What a request must have found to stop before pc with y.
Ready(s, pc, y) ==
    LET r == req[s] IN
    r.alone =>
      /\ r.op = "signup" /\ pc \in {"slug", "create"} => r.user \notin Workspaces
      /\ r.op = "signup" /\ pc = "create" /\ LookedUp(y) => ~SlugTaken(y)
      /\ r.op = "issueKey" => pc # "create"
      /\ r.op \in OnRow \cup OnBoard /\ pc = "write" => rows[r.x].state # "gone"

\* A request goes on with what it has found.
LEMMA NoteFair ==
    ASSUME InOrder, NEW s \in Slots, Busy(s), NEW pc, NEW y,
           Note(s, pc, y) \/ (Goto(s, pc) /\ y = req[s].y), UNCHANGED Tables, Ready(s, pc, y)
    PROVE  Fair(s)
<1>1. OnlyRacesFail'
  BY DEF OnlyRacesFail, Note, Goto, Silence
<1>2. \A t \in Slots \ {s} : req'[t] = req[t]
  BY DEF Note, Goto, InOrder
<1>3. DOMAIN req[s] = Fields /\ DOMAIN req = Slots
  BY InFlight
<1>4. /\ req'[s].op = req[s].op /\ req'[s].user = req[s].user /\ req'[s].x = req[s].x
      /\ req'[s].alone = req[s].alone /\ req'[s].pc = pc /\ req'[s].y = y
  BY <1>3 DEF Note, Goto, Fields
<1>5. AsAlone(s)'
  BY <1>4 DEF AsAlone, Ready, At, Tables, SlugTaken, Workspaces
<1> QED BY <1>1, <1>2, <1>5 DEF Fair

\* A write.
LEMMA CommitFair ==
    ASSUME InOrder, NEW s \in Slots, NEW val, Commit(s, val), OnlyLinksRevoked'
    PROVE  Fair(s)
<1>1. OnlyRacesFail'
  BY DEF OnlyRacesFail, Commit, Says
<1>2. ~Busy(s)'
  BY DEF Commit, Overtaken, Busy, Idle
<1>3. ASSUME NEW t \in Slots \ {s}, Busy(t)' PROVE ~req'[t].alone
  <2>1. req'[t] = IF ~Busy(t) THEN req[t] ELSE [req[t] EXCEPT !.alone = FALSE]
    BY DEF Commit, Overtaken
  <2>2. Busy(t)
    BY <1>3, <2>1 DEF Busy
  <2>3. DOMAIN req[t] = Fields
    BY <2>2, InFlight
  <2> QED BY <2>1, <2>2, <2>3 DEF Fields
<1> QED BY <1>1, <1>2, <1>3 DEF Fair, Told

\* A sign-up whose email and slug were free when it looked.
LEMMA SignupFair ==
    ASSUME InOrder, FoundIsThere, OnlyLinksRevoked, NEW s \in Slots, Signup(s), UNCHANGED <<keys, rows>>
    PROVE  Fair(s)
<1>1. Busy(s) /\ AsAlone(s)
  BY DEF FoundIsThere, Signup, EmailFree, UniqueSlug, CreateAccount, At, Busy
<1>2. CASE EmailFree(s)
  <2>1. UNCHANGED Tables
    BY <1>2 DEF EmailFree, Tables, accounts
  <2>2. CASE Reply(s, 409, NONE)
    BY <2>1, <2>2, ReplyFair
  <2>3. CASE Goto(s, "slug") /\ req[s].user \notin Workspaces
    <3>1. Ready(s, "slug", req[s].y)
      BY <1>2, <2>3 DEF Ready, EmailFree, At, OnRow, OnBoard
    <3> QED BY <1>1, <2>1, <2>3, <3>1, NoteFair
  <2> QED BY <1>2, <2>2, <2>3 DEF EmailFree
<1>3. CASE UniqueSlug(s)
  <2>1. UNCHANGED Tables
    BY <1>3 DEF UniqueSlug, Tables, accounts
  <2>2. req[s].alone => req[s].user \notin Workspaces
    BY <1>1, <1>3 DEF AsAlone, UniqueSlug, At
  <2>3. PICK base, n : \/ Note(s, "create", <<base, n>>) /\ ~SlugTaken(<<base, n>>)
                       \/ Note(s, "slug", req[s].y + 1)
                       \/ Note(s, "create", <<base, StampOf(now)>>)
    BY <1>3 DEF UniqueSlug
  <2>4. req[s].op = "signup"
    BY <1>3 DEF UniqueSlug, At
  <2>5. ~LookedUp(<<base, StampOf(now)>>)
    BY AccountsAssumption DEF LookedUp, InOrder, TypeOK
  <2>6. /\ ~SlugTaken(<<base, n>>) => Ready(s, "create", <<base, n>>)
        /\ Ready(s, "create", <<base, StampOf(now)>>)
        /\ Ready(s, "slug", req[s].y + 1)
    BY <2>2, <2>4, <2>5 DEF Ready, OnRow, OnBoard
  <2> QED BY <1>1, <2>1, <2>3, <2>6, NoteFair, Zenon
<1>4. CASE CreateAccount(s)
  <2>1. CASE /\ req[s].user \in Workspaces \/ SlugTaken(req[s].y)
             /\ Reply(s, 500, IF LookedUp(req[s].y) THEN NONE ELSE "exhausted")
             /\ UNCHANGED accounts
    <3>1. req[s].alone => ~LookedUp(req[s].y)
      BY <1>1, <1>4, <2>1 DEF AsAlone, CreateAccount, At
    <3>2. UNCHANGED Tables
      BY <2>1 DEF Tables, accounts
    <3> DEFINE val == IF LookedUp(req[s].y) THEN NONE ELSE "exhausted"
    <3>3. val = "exhausted" \/ ~req[s].alone
      BY <3>1
    <3>4. Reply(s, 500, val)
      BY <2>1
    <3> HIDE DEF val
    <3> QED BY <3>2, <3>3, <3>4, ReplyFair
  <2>2. CASE \E val : Commit(s, val)
    <3>1. OnlyLinksRevoked'
      BY DEF OnlyLinksRevoked
    <3> QED BY <2>2, <3>1, CommitFair
  <2> QED BY <1>4, <2>1, <2>2 DEF CreateAccount
<1> QED BY <1>2, <1>3, <1>4 DEF Signup

\* A key whose prefix was free when it was drawn.
LEMMA KeyFair ==
    ASSUME InOrder, FoundIsThere, OnlyLinksRevoked, NEW s \in Slots,
           DrawPrefix(s) \/ CreateKey(s) \/ ListKeys(s) \/ RevokeKey(s),
           UNCHANGED <<accounts, rows>>
    PROVE  Fair(s)
<1>1. Busy(s) /\ AsAlone(s)
  BY DEF FoundIsThere, DrawPrefix, CreateKey, ListKeys, RevokeKey, At, Busy
<1>2. OnlyLinksRevoked'
  BY DEF OnlyLinksRevoked
<1>3. keys' = keys => UNCHANGED Tables
  BY DEF Tables, accounts
<1>4. CASE DrawPrefix(s)
  <2>1. UNCHANGED Tables /\ req[s].op = "issueKey"
    BY <1>3, <1>4 DEF DrawPrefix, At
  <2>2. PICK p \in Prefixes :
          \/ /\ keys[p].state = "free"
             /\ req' = [req EXCEPT ![s].pc = "create", ![s].x = p] /\ out' = Silence
          \/ Note(s, "service", req[s].y + 1)
          \/ Reply(s, 500, "exhausted")
    BY <1>4 DEF DrawPrefix
  <2>3. CASE /\ keys[p].state = "free"
             /\ req' = [req EXCEPT ![s].pc = "create", ![s].x = p] /\ out' = Silence
    <3>1. OnlyRacesFail'
      BY <2>3 DEF OnlyRacesFail, Silence
    <3>2. DOMAIN req[s] = Fields /\ DOMAIN req = Slots
      BY <1>1, InFlight
    <3>3. req'[s].op = "issueKey" /\ req'[s].x = p /\ \A t \in Slots \ {s} : req'[t] = req[t]
      BY <2>1, <2>3, <3>2 DEF Fields
    <3>4. AsAlone(s)'
      BY <2>1, <2>3, <3>3 DEF AsAlone, At, OnRow, OnBoard, Tables
    <3> QED BY <2>1, <3>1, <3>3, <3>4 DEF Fair
  <2>4. Ready(s, "service", req[s].y + 1)
    BY DEF Ready
  <2> QED BY <1>1, <2>1, <2>2, <2>3, <2>4, NoteFair, ReplyFair, Zenon
<1>5. CASE CreateKey(s)
  <2>1. CASE keys[req[s].x].state = "free"
    BY <1>2, <1>5, <2>1, CommitFair DEF CreateKey
  <2>2. CASE keys[req[s].x].state # "free"
    <3>1. ~req[s].alone
      BY <1>1, <1>5, <2>2 DEF AsAlone, CreateKey
    <3> QED BY <1>3, <1>5, <2>2, <3>1, ReplyFair DEF CreateKey
  <2> QED BY <2>1, <2>2
<1>6. CASE ListKeys(s)
  BY <1>3, <1>6, ReplyFair DEF ListKeys
<1>7. CASE RevokeKey(s)
  <2>1. Ready(s, "write", req[s].y)
    BY <1>7 DEF Ready, RevokeKey, At, OnRow, OnBoard
  <2> QED BY <1>1, <1>2, <1>3, <1>7, <2>1, ReplyFair, NoteFair, CommitFair DEF RevokeKey
<1> QED BY <1>4, <1>5, <1>6, <1>7

\* The rest of the accounts fails never; an invitation is a write.
LEMMA AccountFair ==
    ASSUME InOrder, FoundIsThere, OnlyLinksRevoked, NEW s \in Slots, AccountStep(s)
    PROVE  Fair(s)
<1>1. CASE Signup(s) /\ UNCHANGED <<keys, rows>>
  BY <1>1, SignupFair
<1>2. CASE /\ DrawPrefix(s) \/ CreateKey(s) \/ ListKeys(s) \/ RevokeKey(s)
           /\ UNCHANGED <<accounts, rows>>
  BY <1>2, KeyFair
<1>3. CASE /\ Login(s) \/ Refresh(s) \/ ListForUser(s) \/ GetForUser(s)
           /\ UNCHANGED <<keys, rows>>
  <2>1. UNCHANGED Tables /\ Busy(s)
    BY <1>3 DEF Login, Refresh, ListForUser, GetForUser, Tables, accounts, At, Busy
  <2>2. CASE Goto(s, "home") /\ req[s].op = "login"
    <3>1. Ready(s, "home", req[s].y)
      BY DEF Ready
    <3> QED BY <2>1, <2>2, <3>1, NoteFair
  <2>3. CASE \E code \in {200, 401, 404} : \E val : Reply(s, code, val)
    BY <2>1, <2>3, ReplyFair
  <2> QED BY <1>3, <2>2, <2>3 DEF Login, Refresh, ListForUser, GetForUser, At
<1>4. CASE Invite(s) /\ UNCHANGED <<keys, rows>>
  <2>1. CASE At(s, "invite", "service")
    <3>1. UNCHANGED Tables /\ Busy(s) /\ (Goto(s, "role") \/ Reply(s, 200, NONE))
      BY <1>4, <2>1 DEF Invite, Tables, accounts, At, Busy
    <3>2. Ready(s, "role", req[s].y)
      BY DEF Ready
    <3> QED BY <3>1, <3>2, NoteFair, ReplyFair
  <2>2. CASE At(s, "invite", "upsert")
    <3>1. /\ req'[s] = Idle /\ Says(s, 200, {req[s].ws}) /\ UNCHANGED rows
          /\ \A t \in Slots \ {s} :
               req'[t] = IF Busy(t) /\ req[t].user = req[s].x /\ req[t].ws = req[s].ws
                         THEN [Overtaken(s)[t] EXCEPT !.held = @ \cup {req[s].y}]
                         ELSE Overtaken(s)[t]
      BY <1>4, <2>2 DEF Invite, At
    <3>2. OnlyRacesFail' /\ OnlyLinksRevoked' /\ ~Busy(s)'
      BY <3>1 DEF OnlyRacesFail, Says, OnlyLinksRevoked, Busy, Idle
    <3>3. ASSUME NEW t \in Slots \ {s}, Busy(t)' PROVE ~req'[t].alone
      <4>1. Overtaken(s)[t] = IF ~Busy(t) THEN req[t] ELSE [req[t] EXCEPT !.alone = FALSE]
        BY DEF Overtaken
      <4>2. Busy(t)
        BY <3>1, <3>3, <4>1 DEF Busy
      <4>3. DOMAIN req[t] = Fields
        BY <4>2, InFlight
      <4>4. DOMAIN Overtaken(s)[t] = Fields /\ Overtaken(s)[t].alone = FALSE
        BY <4>1, <4>2, <4>3 DEF Fields
      <4> QED BY <3>1, <4>4 DEF Fields
    <3> QED BY <3>2, <3>3 DEF Fair, Told
  <2> QED BY <1>4, <2>1, <2>2 DEF Invite
<1> QED BY <1>1, <1>2, <1>3, <1>4 DEF AccountStep

\* A row is inserted, or its dashboard has gone.
LEMMA InsertFair ==
    ASSUME InOrder, OnlyLinksRevoked, NEW s \in Slots, NEW row, Insert(s, row), row.state = "live",
           UNCHANGED <<accounts, keys>>, row.kind # "pdf" /\ req[s].alone => BoardThere(row.board)
    PROVE  Fair(s)
<1>1. CASE rows' = [rows EXCEPT ![NewId] = row] /\ Commit(s, NONE)
  <2>1. rows \in [Rows -> RowOK]
    BY DEF InOrder, TypeOK
  <2>2. \A r \in Rows : rows'[r] = rows[r] \/ rows'[r].state = "live"
    BY <1>1, <2>1
  <2>3. OnlyLinksRevoked'
    BY <2>2 DEF OnlyLinksRevoked
  <2> QED BY <1>1, <2>3, CommitFair
<1>2. CASE Reply(s, 500, NONE) /\ UNCHANGED rows /\ row.kind # "pdf" /\ ~BoardThere(row.board)
  <2>1. UNCHANGED Tables /\ ~req[s].alone
    BY <1>2 DEF Tables, accounts
  <2> QED BY <1>2, <2>1, ReplyFair
<1> QED BY <1>1, <1>2 DEF Insert

\* A row is written, or it has gone.
LEMMA RowFair ==
    ASSUME InOrder, OnlyLinksRevoked, NEW s \in Slots, req[s].x \in Rows, UNCHANGED <<accounts, keys>>,
           \/ DeleteRow(s)
           \/ \E row : UpdateRow(s, row) /\ (row.state = "revoked" => row.kind = "link"),
           req[s].alone => rows[req[s].x].state # "gone"
    PROVE  Fair(s)
<1>1. CASE Reply(s, 500, NONE) /\ UNCHANGED rows /\ rows[req[s].x].state = "gone"
  <2>1. UNCHANGED Tables /\ ~req[s].alone
    BY <1>1 DEF Tables, accounts
  <2> QED BY <1>1, <2>1, ReplyFair
<1>2. rows \in [Rows -> RowOK]
  BY DEF InOrder, TypeOK
<1>3. CASE \E row : /\ rows' = [rows EXCEPT ![req[s].x] = row] /\ Commit(s, NONE)
                    /\ row.state = "revoked" => row.kind = "link"
  <2>1. OnlyLinksRevoked'
    BY <1>2, <1>3 DEF OnlyLinksRevoked
  <2> QED BY <1>3, <2>1, CommitFair
<1>4. CASE /\ rows' = [r \in Rows |-> IF r \in Cascade(req[s].x)
                                      THEN [rows[r] EXCEPT !.state = "gone"] ELSE rows[r]]
           /\ Commit(s, NONE)
  <2>1. ASSUME NEW r \in Rows PROVE rows'[r] = rows[r] \/ rows'[r].state = "gone"
    BY <1>2, <1>4 DEF RowOK
  <2>2. OnlyLinksRevoked'
    BY <2>1 DEF OnlyLinksRevoked
  <2> QED BY <1>4, <2>2, CommitFair
<1> QED BY <1>1, <1>3, <1>4 DEF DeleteRow, UpdateRow

\* A method looks its rows up, or inserts one that hangs on nothing.
LEMMA BoardReadsFair ==
    ASSUME InOrder, FoundIsThere, OnlyLinksRevoked, NEW s \in Slots, UNCHANGED <<accounts, keys>>,
           req[s].pc # "write", BoardStep(s)
    PROVE  Fair(s)
<1>1. Busy(s)
  BY DEF BoardStep, ListBoards, GetBoard, CreateBoard, UpdateBoard, DeleteBoard, AssertDashboard,
         CreateWidget, UpdateWidget, DeleteWidget, CreateLink, ListLinks, RevokeLink, Resolve,
         Verify, ReadDashboard, ListAlerts, CreateAlert, UpdateAlert, DeleteAlert, EnqueuePdf,
         PdfStatus, At, Busy
<1>2. AsSent(s) /\ TypeOK
  BY <1>1, InFlight
<1>3. ASSUME UNCHANGED rows, NEW code \in {200, 401, 404}, NEW val, Reply(s, code, val) PROVE Fair(s)
  BY <1>3, ReplyFair DEF Tables, accounts
<1>4. ASSUME UNCHANGED rows, NEW pc \in {"find", "record", "page"}, Goto(s, pc) PROVE Fair(s)
  <2>1. Ready(s, pc, req[s].y)
    BY <1>4 DEF Ready
  <2> QED BY <1>1, <1>4, <2>1, NoteFair DEF Tables, accounts
<1>5. ASSUME req[s].op # "signup", req[s].op # "issueKey", UNCHANGED rows,
             NEW y, Note(s, "write", y) \/ (Goto(s, "write") /\ y = req[s].y),
             rows[req[s].x].state # "gone"
      PROVE  Fair(s)
  <2>1. Ready(s, "write", y)
    BY <1>5 DEF Ready
  <2> QED BY <1>1, <1>5, <2>1, NoteFair DEF Tables, accounts
<1>6. CASE ListBoards(s) \/ GetBoard(s) \/ ListLinks(s) \/ ListAlerts(s) \/ PdfStatus(s)
           \/ Resolve(s) \/ AssertDashboard(s)
  BY <1>3, <1>4, <1>6 DEF ListBoards, GetBoard, ListLinks, ListAlerts, PdfStatus, Read, NotFound,
         Resolve, Verify, ReadDashboard, AssertDashboard
<1>7. CASE CreateBoard(s) \/ CreateAlert(s) \/ EnqueuePdf(s)
  <2>1. PICK kind, b : Insert(s, Row(kind, req[s].ws, b, 0)) /\ (kind = "pdf" \/ b = 0)
    BY <1>7 DEF CreateBoard, CreateAlert, EnqueuePdf
  <2> DEFINE row == Row(kind, req[s].ws, b, 0)
  <2>2. row.state = "live" /\ row.kind = kind /\ row.board = b
    BY DEF Row
  <2>3. Insert(s, row)
    BY <2>1
  <2> HIDE DEF row
  <2> QED BY <2>1, <2>2, <2>3, InsertFair DEF BoardThere
<1>8. CASE /\ UNCHANGED rows
           /\ \/ UpdateBoard(s) \/ DeleteBoard(s) \/ UpdateWidget(s) \/ DeleteWidget(s)
              \/ CreateWidget(s) \/ CreateLink(s) \/ RevokeLink(s) \/ UpdateAlert(s) \/ DeleteAlert(s)
  <2>1. req[s].op # "signup" /\ req[s].op # "issueKey"
    BY <1>8 DEF UpdateBoard, DeleteBoard, UpdateWidget, DeleteWidget, CreateWidget, CreateLink,
           RevokeLink, UpdateAlert, DeleteAlert, At
  <2>2. \/ \E code \in {200, 401, 404} : \E val : Reply(s, code, val)
        \/ /\ rows[req[s].x].state # "gone"
           /\ Goto(s, "write") \/ \E y : Note(s, "write", y)
    BY <1>8 DEF UpdateBoard, DeleteBoard, UpdateWidget, DeleteWidget, CreateWidget, CreateLink,
           RevokeLink, UpdateAlert, DeleteAlert, At, Check, NotFound, Read, BoardFound, WidgetFound,
           AlertFound, Found
  <2> QED BY <1>3, <1>5, <1>8, <2>1, <2>2
<1>9. (\/ UpdateBoard(s) \/ DeleteBoard(s) \/ UpdateWidget(s) \/ DeleteWidget(s)
       \/ CreateWidget(s) \/ CreateLink(s) \/ RevokeLink(s) \/ UpdateAlert(s) \/ DeleteAlert(s))
        => UNCHANGED rows
  BY DEF UpdateBoard, DeleteBoard, UpdateWidget, DeleteWidget, CreateWidget, CreateLink,
         RevokeLink, UpdateAlert, DeleteAlert, At, Check, NotFound, Read
<1> QED BY <1>6, <1>7, <1>8, <1>9 DEF BoardStep

\* What was looked up when nobody wrote is there to be written.
LEMMA BoardWritesFair ==
    ASSUME InOrder, FoundIsThere, OnlyLinksRevoked, NEW s \in Slots, UNCHANGED <<accounts, keys>>,
           req[s].pc = "write", BoardStep(s)
    PROVE  Fair(s)
<1>1. \/ UpdateBoard(s) \/ DeleteBoard(s) \/ UpdateWidget(s) \/ DeleteWidget(s)
      \/ CreateWidget(s) \/ CreateLink(s) \/ RevokeLink(s) \/ UpdateAlert(s) \/ DeleteAlert(s)
  BY DEF BoardStep, ListBoards, GetBoard, CreateBoard, AssertDashboard, ListLinks, Resolve,
         Verify, ReadDashboard, ListAlerts, CreateAlert, EnqueuePdf, PdfStatus, At
<1>2. Busy(s) /\ req[s].op \in OnRow \cup OnBoard
  BY <1>1 DEF UpdateBoard, DeleteBoard, UpdateWidget, DeleteWidget, CreateWidget, CreateLink,
         RevokeLink, UpdateAlert, DeleteAlert, At, Busy, OnRow, OnBoard
<1>3. /\ req[s].x \in Rows /\ AsSent(s) /\ TypeOK
      /\ req[s].alone => rows[req[s].x].state # "gone"
  BY <1>2, InFlight, Subjects DEF FoundIsThere, AsAlone
<1>4. CASE CreateWidget(s) \/ CreateLink(s)
  <2>1. PICK kind, w, e : Insert(s, Row(kind, w, req[s].x, e)) /\ kind # "pdf"
    BY <1>4 DEF CreateWidget, CreateLink, At
  <2>2. req[s].x \in OfKind("board")
    BY <1>2, <1>3, <1>4, Subjects DEF CreateWidget, CreateLink, At, OnRow
  <2>3. rows[req[s].x].state \in {"free", "live", "revoked", "gone"}
    BY <1>3 DEF TypeOK, RowOK
  <2>4. req[s].alone => rows[req[s].x].state = "live"
    BY <1>3, <2>2, <2>3 DEF OnlyLinksRevoked, OfKind, TypeOK
  <2> DEFINE row == Row(kind, w, req[s].x, e)
  <2>5. row.state = "live" /\ row.kind = kind /\ row.board = req[s].x
    BY DEF Row
  <2>6. Insert(s, row)
    BY <2>1
  <2> HIDE DEF row
  <2> QED BY <2>4, <2>5, <2>6, InsertFair DEF BoardThere
<1>5. CASE DeleteBoard(s) \/ DeleteWidget(s) \/ DeleteAlert(s)
  <2>1. DeleteRow(s)
    BY <1>5 DEF DeleteBoard, DeleteWidget, DeleteAlert, At
  <2> QED BY <1>3, <2>1, RowFair
<1>6. CASE UpdateBoard(s) \/ UpdateWidget(s) \/ UpdateAlert(s)
  <2>1. UpdateRow(s, Touched(req[s].x))
    BY <1>6 DEF UpdateBoard, UpdateWidget, UpdateAlert, At
  <2>2. Touched(req[s].x).state = rows[req[s].x].state /\ Touched(req[s].x).kind = rows[req[s].x].kind
    BY <1>3 DEF Touched, TypeOK, RowOK
  <2>3. Touched(req[s].x).state = "revoked" => Touched(req[s].x).kind = "link"
    BY <1>3, <2>2 DEF OnlyLinksRevoked
  <2> QED BY <1>3, <2>1, <2>3, RowFair
<1>7. CASE RevokeLink(s)
  <2> DEFINE row == [rows[req[s].x] EXCEPT !.state = "revoked"]
  <2>1. UpdateRow(s, row)
    BY <1>7 DEF RevokeLink, At
  <2>2. req[s].x \in OfKind("link")
    BY <1>3, <1>7, Subjects DEF RevokeLink, At
  <2>3. row.kind = "link"
    BY <1>3, <2>2 DEF OfKind, TypeOK, RowOK
  <2> HIDE DEF row
  <2> QED BY <1>3, <2>1, <2>3, RowFair
<1> QED BY <1>1, <1>4, <1>5, <1>6, <1>7

\* Queries and forecasts fail with another service.
LEMMA QueryFair ==
    ASSUME InOrder, NEW s \in Slots, AnalyticsStep(s)
    PROVE  Fair(s)
<1>1. UNCHANGED Tables
  BY DEF AnalyticsStep, Tables, accounts
<1>2. ASSUME NEW code, NEW val, Reply(s, code, val), code # 500 \/ val = "unavailable" PROVE Fair(s)
  BY <1>1, <1>2, ReplyFair
<1>3. Busy(s) /\ \A pc \in {"query", "store"} : \A y : Ready(s, pc, y)
  BY DEF AnalyticsStep, LookUp, Query, QueryFails, Store, Forecast, ListModels, At, Busy, Ready
<1>4. ASSUME NEW pc \in {"query", "store"}, NEW y, Note(s, pc, y) \/ (Goto(s, pc) /\ y = req[s].y)
      PROVE  Fair(s)
  BY <1>1, <1>3, <1>4, NoteFair
<1>5. CASE LookUp(s)
  <2>1. Reply(s, 400, NONE) \/ Reply(s, 200, cache[CacheKey(req[s])]) \/ Goto(s, "query")
    BY <1>5 DEF LookUp
  <2> QED BY <1>2, <1>4, <2>1
<1>6. CASE Query(s)
  <2>1. PICK y : Note(s, "store", y)
    BY <1>6 DEF Query
  <2> QED BY <1>4, <2>1
<1>7. CASE QueryFails(s)
  BY <1>2, <1>7 DEF QueryFails
<1>8. CASE Store(s)
  <2>1. PICK val : Reply(s, 200, val)
    BY <1>8 DEF Store
  <2> QED BY <1>2, <2>1
<1>9. CASE Forecast(s)
  <2>1. PICK code \in {200, 400, 422, 500} :
          Reply(s, code, IF code = 200 THEN {req[s].ws} ELSE "unavailable")
    BY <1>9 DEF Forecast
  <2> DEFINE val == IF code = 200 THEN {req[s].ws} ELSE "unavailable"
  <2>2. Reply(s, code, val) /\ (code # 500 \/ val = "unavailable")
    BY <2>1
  <2> HIDE DEF val
  <2> QED BY <1>2, <2>2
<1>10. CASE ListModels(s)
  <2>1. CASE Reply(s, 502, "unavailable")
    BY <1>2, <2>1
  <2>2. CASE \E trained \in SUBSET Workspaces : Reply(s, 200, {w \in trained : w = req[s].ws})
    <3>1. PICK trained : Reply(s, 200, {w \in trained : w = req[s].ws})
      BY <2>2
    <3> DEFINE val == {w \in trained : w = req[s].ws}
    <3>2. Reply(s, 200, val)
      BY <3>1
    <3> HIDE DEF val
    <3> QED BY <1>2, <3>2
  <2> QED BY <1>10, <2>1, <2>2 DEF ListModels
<1> QED BY <1>5, <1>6, <1>7, <1>8, <1>9, <1>10 DEF AnalyticsStep

\* Sockets write no table.
LEMMA GatewayFair ==
    ASSUME InOrder, NEW s \in Slots, GatewayStep(s)
    PROVE  Fair(s)
<1>1. UNCHANGED Tables
  BY DEF GatewayStep, Tables, accounts
<1>2. Busy(s) /\ req[s].op = "connect"
  BY DEF GatewayStep, Handshake, Subscribe, Hello, SubscribeFails, Disconnect, Forgotten, At, Busy
<1>3. DOMAIN req = Slots /\ DOMAIN req[s] = Fields
  BY <1>2, InFlight
<1>4. OnlyRacesFail'
  BY DEF OnlyRacesFail, GatewayStep, Handshake, Subscribe, Hello, SubscribeFails, Disconnect,
         Forgotten, Reply, Goto, Says, Silence
<1>5. \A t \in Slots \ {s} : req'[t] = req[t]
  BY <1>3 DEF GatewayStep, Handshake, Subscribe, Hello, SubscribeFails, Disconnect, Forgotten,
         Reply, Goto
<1>6. req'[s] = Idle \/ req'[s].op = "connect"
  BY <1>2, <1>3 DEF GatewayStep, Handshake, Subscribe, Hello, SubscribeFails, Disconnect, Forgotten,
         Reply, Goto, Fields
<1>7. Busy(s)' => AsAlone(s)'
  BY <1>6 DEF AsAlone, At, OnRow, OnBoard, Busy, Idle
<1> QED BY <1>1, <1>4, <1>5, <1>7 DEF Fair

\* Who has just come has found nothing yet.
LEMMA ArriveFair ==
    ASSUME InOrder, NEW s \in Slots, Arrive(s) \/ Authorise(s)
    PROVE  Fair(s)
<1>1. CASE Arrive(s)
  <2>1. UNCHANGED Tables /\ OnlyRacesFail' /\ \A t \in Slots \ {s} : req'[t] = req[t]
    BY <1>1 DEF Arrive, Tables, accounts, OnlyRacesFail, Silence, InOrder
  <2>2. req'[s].pc \in {"guard", "role", "service"}
    BY <1>1 DEF Arrive, FirstPc, InOrder
  <2>3. AsAlone(s)'
    BY <2>2 DEF AsAlone, At
  <2> QED BY <2>1, <2>3 DEF Fair
<1>2. CASE Authorise(s)
  <2>1. UNCHANGED Tables /\ Busy(s)
    BY <1>2 DEF Authorise, WorkspaceGuard, RequireRole, Tables, accounts, Busy
  <2>2. Reply(s, 403, NONE) \/ \E pc \in {"service", "role", "upsert"} : Goto(s, pc)
    BY <1>2 DEF Authorise, WorkspaceGuard, RequireRole
  <2>3. \A pc \in {"service", "role", "upsert"} : Ready(s, pc, req[s].y)
    BY DEF Ready
  <2> QED BY <2>1, <2>2, <2>3, ReplyFair, NoteFair
<1> QED BY <1>1, <1>2

\* Whoever is alone has found what is still there, and a 500 takes somebody else.
LEMMA FailStep ==
    ASSUME InOrder, FoundIsThere, OnlyLinksRevoked, Next
    PROVE  FoundIsThere' /\ OnlyLinksRevoked' /\ OnlyRacesFail'
<1>1. ASSUME NEW s \in Slots, Fair(s) PROVE FoundIsThere' /\ OnlyLinksRevoked' /\ OnlyRacesFail'
  <2>1. CASE ~Busy(s)' /\ Told(s) /\ OnlyLinksRevoked'
    BY <1>1, <2>1 DEF Fair, FoundIsThere, Told, AsAlone
  <2>2. CASE /\ UNCHANGED Tables /\ \A t \in Slots \ {s} : req'[t] = req[t]
             /\ Busy(s)' => AsAlone(s)'
    <3>1. ASSUME NEW t \in Slots \ {s}, Busy(t)' PROVE AsAlone(t)'
      BY <2>2, <3>1 DEF FoundIsThere, AsAlone, Busy, At, Tables, SlugTaken, Workspaces
    <3> QED BY <1>1, <2>2, <3>1 DEF Fair, FoundIsThere, Tables, OnlyLinksRevoked
  <2> QED BY <1>1, <2>1, <2>2 DEF Fair
<1>2. ASSUME NEW s \in Slots, Arrive(s) \/ Authorise(s) PROVE Fair(s)
  BY <1>2, ArriveFair
<1>3. ASSUME NEW s \in Slots, AccountStep(s) PROVE Fair(s)
  BY <1>3, AccountFair
<1>4. ASSUME NEW s \in Slots, BoardStep(s) PROVE Fair(s)
  BY <1>4, BoardReadsFair, BoardWritesFair DEF BoardStep
<1>5. ASSUME NEW s \in Slots, AnalyticsStep(s) \/ GatewayStep(s) PROVE Fair(s)
  BY <1>5, QueryFair, GatewayFair
<1>6. CASE Fanout \/ Tick
  BY <1>6 DEF Fanout, Tick, FoundIsThere, OnlyLinksRevoked, OnlyRacesFail, AsAlone, Busy, At, SlugTaken,
         Workspaces, accounts, Silence
<1>7. CASE Restart
  BY <1>7 DEF Restart, FoundIsThere, OnlyLinksRevoked, OnlyRacesFail, Busy, Idle, accounts, Silence
<1> QED BY <1>1, <1>2, <1>3, <1>4, <1>5, <1>6, <1>7 DEF Next

\* With what a 500 takes, the invariant is complete.
LEMMA InvFails == Spec => [](IInv /\ OnlyRacesFail)
<1>1. Init => IInv /\ OnlyRacesFail
  <2> SUFFICES ASSUME Init PROVE IInv /\ OnlyRacesFail
    OBVIOUS
  <2>1. InOrder
    BY InvInit
  <2>2. FoundIsThere /\ OnlyRacesFail
    BY DEF Init, FoundIsThere, Busy, Idle, OnlyRacesFail, Silence
  <2>3. \A r \in Rows : rows[r].state # "revoked"
    BY ControlPlaneAssumption DEF Init, FreeRow, Row
  <2> QED BY <2>1, <2>2, <2>3 DEF IInv, OnlyLinksRevoked, FoundIsThere
<1>2. (IInv /\ OnlyRacesFail) /\ InOrder' /\ [Next]_vars => (IInv /\ OnlyRacesFail)'
  <2> SUFFICES ASSUME IInv, OnlyRacesFail, InOrder', [Next]_vars PROVE IInv' /\ OnlyRacesFail'
    OBVIOUS
  <2>1. InOrder /\ FoundIsThere /\ OnlyLinksRevoked
    BY DEF IInv, FoundIsThere
  <2>2. CASE Next
    BY <2>1, <2>2, FailStep DEF IInv, FoundIsThere
  <2>3. CASE UNCHANGED vars
    BY <2>1, <2>3 DEF IInv, FoundIsThere, OnlyLinksRevoked, OnlyRacesFail, AsAlone, Busy, At, SlugTaken,
           Workspaces, vars, accounts
  <2> QED BY <2>2, <2>3
<1>3. InOrder /\ Right => InOrder
  OBVIOUS
<1> QED BY <1>1, <1>2, <1>3, InvRight, PTL DEF Spec

\* Every widget and link that is there has its dashboard, slugs name one
\* workspace, greeted sockets hear theirs, and what a request has found on its
\* way, or the cache was told, stays true until it is used.
THEOREM Invariant == Spec => []IInv
<1>1. IInv /\ OnlyRacesFail => IInv
  OBVIOUS
<1> QED BY <1>1, InvFails, PTL

\* Whatever a caller is shown - by a service, a query, the cache or a tick -
\* is of the workspace asked for, and a login leads where the user may go.
THEOREM AnswersStay == Spec => []AnswersStayInside
<1>1. InOrder /\ Right => AnswersStayInside
  BY DEF Right
<1> QED BY <1>1, InvRight, PTL

\* No answer is older than its time to live and the one query it took.
THEOREM AnswersFresh == Spec => []AnswersAreRecent
<1>1. InOrder /\ Right => AnswersAreRecent
  BY DEF Right
<1> QED BY <1>1, InvRight, PTL

\* A page goes out only through a link that was good when the request came,
\* whatever is revoked, deleted or run out between the three reads.
THEOREM LinksServedLive == Spec => []ServedLinkWasLive
<1>1. InOrder /\ Right => ServedLinkWasLive
  BY DEF Right
<1> QED BY <1>1, InvRight, PTL

\* Whatever a request writes, by an id alone and after others have gone on, is
\* in its workspace, and its caller has held a role that may write it.
THEOREM WritesAuthorised == Spec => ChangesAreAuthorised
<1>1. (InOrder /\ Right) /\ [Next]_vars => [Authorised]_vars
  BY StepKept DEF Kept
<1> QED BY <1>1, InvRight, PTL DEF Spec, ChangesAreAuthorised

\* Only a race ends in a 500: a request in whose time nobody wrote finds what it
\* looked up still there, unless every prefix or slug it tried was taken.
THEOREM FailuresAreRaces == Spec => []OnlyRacesFail
<1>1. IInv /\ OnlyRacesFail => OnlyRacesFail
  OBVIOUS
<1> QED BY <1>1, InvFails, PTL
-----------------------------------------------------------------------------
(* What the read-outs make of a result.                                    *)

\* What holds of 0 and, with j - 1, of j holds up to n.
LEMMA Onwards ==
    ASSUME NEW n \in Nat, NEW S \in SUBSET (0 .. n), 0 \in S,
           \A j \in 1 .. n : j - 1 \in S => j \in S
    PROVE  S = 0 .. n
<1> DEFINE T == (0 .. n) \ S
           R == OpToRel(<, Nat)
<1>1. T = {}
  <2> SUFFICES ASSUME T # {} PROVE FALSE
    OBVIOUS
  <2>1. T \subseteq Nat
    OBVIOUS
  <2>2. PICK m \in T : \A x \in T : ~(<<x, m>> \in R)
    <3>1. IsWellFoundedOn(R, Nat)
      BY NatLessThanWellFounded
    <3> HIDE DEF T, R
    <3> QED BY <2>1, <3>1, WFMin
  <2>3. ASSUME NEW x \in T PROVE ~(x < m)
    <3>1. x \in Nat /\ m \in Nat /\ ~(<<x, m>> \in R)
      <4> HIDE DEF R, T
      <4> QED BY <2>1, <2>2
    <3> QED BY <3>1 DEF OpToRel
  <2> HIDE DEF R
  <2>4. m \in 1 .. n /\ m - 1 \in 0 .. n
    OBVIOUS
  <2>5. m - 1 \notin T
    BY <2>3, <2>4
  <2> QED BY <2>4, <2>5
<1> QED BY <1>1

\* Whole parts: of one number by the same divisor, and of a multiple.
LEMMA Quotient ==
    ASSUME NEW a \in Nat, NEW b \in Nat \ {0}
    PROVE  /\ a \div b \in Nat
           /\ b * (a \div b) <= a /\ a < b * (a \div b) + b
<1> DEFINE c == a \div b
           r == a % b
<1>1. c \in Int /\ r \in 0 .. b - 1 /\ a = b * c + r
  OBVIOUS
<1>2. c >= 0
  <2> SUFFICES ASSUME c <= -1 PROVE FALSE
    BY <1>1
  <2>1. b * (-1 - c) >= 0
    BY <1>1
  <2>2. b * (-1 - c) = -b - b * c
    BY <1>1
  <2> QED BY <1>1, <2>1, <2>2
<1> QED BY <1>1, <1>2

LEMMA QuotientGrows ==
    ASSUME NEW a \in Nat, NEW d \in Nat, NEW b \in Nat \ {0}, a <= d
    PROVE  a \div b <= d \div b
<1> DEFINE c == a \div b
           e == d \div b
<1>1. /\ c \in Nat /\ b * c <= a
      /\ e \in Nat /\ d < b * e + b
  BY Quotient
<1> HIDE DEF c, e
<1> SUFFICES ASSUME e <= c - 1 PROVE FALSE
  BY <1>1 DEF c, e
<1>2. b * (c - 1 - e) >= 0
  BY <1>1
<1>3. b * (c - 1 - e) = b * c - b - b * e
  BY <1>1
<1>4. b * e \in Int /\ b * c \in Int
  BY <1>1
<1> QED BY <1>1, <1>2, <1>3, <1>4

\* The users a result has at a level, and a sum over some of n levels: level
\* by level, in a row g of partial sums.
Level(r, l) == IF l \in DOMAIN r THEN r[l] ELSE 0
Counts(r) == \A l \in DOMAIN r : r[l] \in Nat
Adds(r, n, s, g) ==
    /\ g \in [0 .. n -> Nat] /\ g[0] = 0
    /\ \A j \in 1 .. n : g[j] = g[j - 1] + (IF j \in s THEN Level(r, j) ELSE 0)
SumOver(r, n, s) == (CHOOSE g : Adds(r, n, s, g))[n]

LEMMA AddsUp ==
    ASSUME NEW n \in Nat, NEW r, Counts(r), NEW s
    PROVE  \E g : Adds(r, n, s, g)
<1> DEFINE Part(j) == IF j \in s THEN Level(r, j) ELSE 0
           Far == {m \in 0 .. n : \E g : Adds(r, m, s, g)}
<1>1. \A j : Part(j) \in Nat
  BY DEF Level, Counts
<1>2. 0 \in Far
  <2> DEFINE g == [j \in 0 .. 0 |-> 0]
  <2>1. Adds(r, 0, s, g)
    BY DEF Adds
  <2> HIDE DEF g
  <2> QED BY <2>1
<1>3. ASSUME NEW m \in 1 .. n, m - 1 \in Far PROVE m \in Far
  <2>1. PICK g : Adds(r, m - 1, s, g)
    BY <1>3
  <2> DEFINE h == [j \in 0 .. m |-> IF j = m THEN g[m - 1] + Part(m) ELSE g[j]]
  <2> HIDE DEF Part
  <2>2. /\ g \in [0 .. m - 1 -> Nat] /\ g[0] = 0
        /\ \A j \in 1 .. m - 1 : g[j] = g[j - 1] + Part(j)
    BY <2>1 DEF Adds, Part
  <2>3. h \in [0 .. m -> Nat] /\ h[0] = 0
    BY <1>1, <2>2
  <2>4. ASSUME NEW j \in 1 .. m PROVE h[j] = h[j - 1] + Part(j)
    <3>1. CASE j = m
      BY <3>1, <2>2
    <3>2. CASE j # m
      <4>1. j \in 1 .. m - 1 /\ j - 1 \in 0 .. m /\ j \in 0 .. m /\ j - 1 # m
        BY <3>2
      <4> QED BY <4>1, <3>2, <2>2
    <3> QED BY <3>1, <3>2
  <2>5. Adds(r, m, s, h)
    <3> HIDE DEF h
    <3> QED BY <2>3, <2>4 DEF Adds, Part
  <2> HIDE DEF h
  <2> QED BY <2>5
<1>4. Far \in SUBSET (0 .. n) /\ \A j \in 1 .. n : j - 1 \in Far => j \in Far
  <2>1. Far \in SUBSET (0 .. n)
    OBVIOUS
  <2> HIDE DEF Far
  <2> QED BY <1>3, <2>1
<1>5. n \in Far
  <2> HIDE DEF Far
  <2> QED BY <1>2, <1>4, Onwards
<1> QED BY <1>5

\* A sum does not depend on which of its levels is taken first.
LEMMA TakeOut ==
    ASSUME NEW n \in Nat, NEW r, Counts(r)
    PROVE  /\ SumOver(r, n, {}) = 0
           /\ \A s : SumOver(r, n, s) \in Nat
           /\ \A s \in SUBSET (1 .. n) : \A x \in s :
                SumOver(r, n, s) = Level(r, x) + SumOver(r, n, s \ {x})
<1> DEFINE Sums(s) == CHOOSE g : Adds(r, n, s, g)
<1>1. \A s : Adds(r, n, s, Sums(s)) /\ SumOver(r, n, s) = Sums(s)[n]
  BY AddsUp DEF SumOver
<1> HIDE DEF Sums
<1>2. \A s : SumOver(r, n, s) \in Nat
  BY <1>1 DEF Adds
<1>3. SumOver(r, n, {}) = 0
  <2> DEFINE g == Sums({})
             Good == {j \in 0 .. n : g[j] = 0}
  <2>1. g[0] = 0 /\ \A j \in 1 .. n : g[j] = g[j - 1] + 0
    BY <1>1 DEF Adds
  <2> HIDE DEF g
  <2>2. 0 \in Good /\ Good \in SUBSET (0 .. n) /\ \A j \in 1 .. n : j - 1 \in Good => j \in Good
    BY <2>1
  <2>3. n \in Good
    <3> HIDE DEF Good
    <3> QED BY <2>2, Onwards
  <2> QED BY <1>1, <2>3 DEF g
<1>4. ASSUME NEW s \in SUBSET (1 .. n), NEW x \in s
      PROVE  SumOver(r, n, s) = Level(r, x) + SumOver(r, n, s \ {x})
  <2> DEFINE g == Sums(s)
             h == Sums(s \ {x})
             Part(j) == IF j \in s THEN Level(r, j) ELSE 0
             Without(j) == IF j \in s \ {x} THEN Level(r, j) ELSE 0
             Good == {j \in 0 .. n : g[j] = h[j] + (IF x <= j THEN Level(r, x) ELSE 0)}
  <2>1. /\ g \in [0 .. n -> Nat] /\ g[0] = 0 /\ \A j \in 1 .. n : g[j] = g[j - 1] + Part(j)
        /\ h \in [0 .. n -> Nat] /\ h[0] = 0 /\ \A j \in 1 .. n : h[j] = h[j - 1] + Without(j)
    BY <1>1 DEF Adds
  <2>2. x \in 1 .. n /\ \A j : Part(j) \in Nat /\ Without(j) \in Nat /\ Level(r, j) \in Nat
    BY DEF Level, Counts
  <2>3. \A j : Part(j) = Without(j) + (IF j = x THEN Level(r, x) ELSE 0)
    BY <2>2
  <2> HIDE DEF g, h, Part, Without
  <2>4. 0 \in Good /\ Good \in SUBSET (0 .. n)
    <3>1. ~(x <= 0) /\ 0 \in 0 .. n
      BY <2>2
    <3>2. g[0] = 0 /\ h[0] = 0 /\ 0 + 0 = 0
      BY <2>1
    <3> QED BY <3>1, <3>2
  <2>5. ASSUME NEW j \in 1 .. n, j - 1 \in Good PROVE j \in Good
    <3>1. g[j - 1] = h[j - 1] + (IF x <= j - 1 THEN Level(r, x) ELSE 0)
      BY <2>5
    <3>2. /\ g[j] = g[j - 1] + Part(j) /\ h[j] = h[j - 1] + Without(j)
          /\ Part(j) = Without(j) + (IF j = x THEN Level(r, x) ELSE 0)
          /\ Without(j) \in Nat /\ h[j - 1] \in Nat /\ Level(r, x) \in Nat
      <4>1. j - 1 \in 0 .. n
        OBVIOUS
      <4> QED BY <4>1, <2>1, <2>2, <2>3
    <3>3. g[j] = h[j] + (IF x <= j THEN Level(r, x) ELSE 0)
      BY <2>2, <3>1, <3>2
    <3> QED BY <3>3
  <2>6. n \in Good
    <3> HIDE DEF Good
    <3> QED BY <2>4, <2>5, Onwards
  <2>7. g[n] = h[n] + Level(r, x)
    BY <2>2, <2>6
  <2>8. SumOver(r, n, s) = g[n] /\ SumOver(r, n, s \ {x}) = h[n]
    BY <1>1 DEF g, h
  <2>9. h[n] \in Nat /\ Level(r, x) \in Nat
    BY <2>1, <2>2
  <2> QED BY <2>7, <2>8, <2>9
<1> QED BY <1>2, <1>3, <1>4

\* MapThenSumSet takes the levels in an order of its own: the sum is the same.
LEMMA SumSetIs ==
    ASSUME NEW n \in Nat, NEW r, Counts(r), NEW T \in SUBSET (1 .. n)
    PROVE  Sets!MapThenSumSet(LAMBDA l : IF l \in DOMAIN r THEN r[l] ELSE 0, T) = SumOver(r, n, T)
<1> DEFINE pick(s) == CHOOSE x \in s : TRUE
           Step(g) == [s \in SUBSET T |-> IF s = {} THEN 0 ELSE Level(r, pick(s)) + g[s \ {pick(s)}]]
           v == CHOOSE g : g = Step(g)
           u == [s \in SUBSET T |-> SumOver(r, n, s)]
<1>1. Sets!MapThenSumSet(LAMBDA l : IF l \in DOMAIN r THEN r[l] ELSE 0, T) = v[T]
  BY DEF Sets!MapThenSumSet, Sets!MapThenFoldSet, Level
<1>2. \A s \in SUBSET T : s # {} => pick(s) \in s /\ s \ {pick(s)} \in SUBSET T
  OBVIOUS
<1> HIDE DEF pick
<1>3. u = Step(u)
  <2>1. ASSUME NEW s \in SUBSET T
        PROVE  u[s] = IF s = {} THEN 0 ELSE Level(r, pick(s)) + u[s \ {pick(s)}]
    <3>1. CASE s = {}
      BY <3>1, TakeOut
    <3>2. CASE s # {}
      <4>1. pick(s) \in s /\ s \in SUBSET (1 .. n) /\ s \ {pick(s)} \in SUBSET T
        BY <3>2, <1>2
      <4>2. SumOver(r, n, s) = Level(r, pick(s)) + SumOver(r, n, s \ {pick(s)})
        <5>1. \A x \in s : SumOver(r, n, s) = Level(r, x) + SumOver(r, n, s \ {x})
          BY <4>1, TakeOut
        <5> QED BY <4>1, <5>1
      <4> QED BY <3>2, <4>1, <4>2
    <3> QED BY <3>1, <3>2
  <2>2. u = [s \in SUBSET T |-> u[s]]
    OBVIOUS
  <2> HIDE DEF u
  <2> QED BY <2>1, <2>2
<1>4. v = Step(v)
  <2> HIDE DEF Step, u
  <2> QED BY <1>3
<1> HIDE DEF v
<1>5. IsFiniteSet(T)
  <2>1. IsFiniteSet(1 .. n)
    BY FS_Interval
  <2> QED BY <2>1, FS_Subset
<1> DEFINE m == Cardinality(T)
           Good == {k \in 0 .. m : \A s \in SUBSET T : Cardinality(s) = k => v[s] = u[s]}
<1>6. /\ m \in Nat
      /\ \A s \in SUBSET T : IsFiniteSet(s) /\ Cardinality(s) \in Nat
  <2>1. \A s \in SUBSET T : IsFiniteSet(s)
    BY <1>5, FS_Subset
  <2> QED BY <1>5, <2>1, FS_CardinalityType
<1>7. \A s \in SUBSET T : v[s] = IF s = {} THEN 0 ELSE Level(r, pick(s)) + v[s \ {pick(s)}]
  BY <1>4
<1>8. \A s \in SUBSET T : u[s] = IF s = {} THEN 0 ELSE Level(r, pick(s)) + u[s \ {pick(s)}]
  BY <1>3
<1> HIDE DEF u, m
<1>9. 0 \in Good
  <2>1. ASSUME NEW s \in SUBSET T, Cardinality(s) = 0 PROVE s = {}
    BY <1>6, <2>1, FS_EmptySet
  <2>2. \A s \in SUBSET T : Cardinality(s) = 0 => v[s] = u[s]
    BY <2>1, <1>7, <1>8
  <2> QED BY <2>2, <1>6
<1>10. ASSUME NEW k \in 1 .. m, k - 1 \in Good PROVE k \in Good
  <2>1. ASSUME NEW s \in SUBSET T, Cardinality(s) = k PROVE v[s] = u[s]
    <3> DEFINE x == pick(s)
               t == s \ {x}
    <3>1. s # {}
      BY <2>1, FS_EmptySet
    <3>2. x \in s /\ t \in SUBSET T
      BY <3>1, <1>2
    <3>3. Cardinality(t) = k - 1
      BY <1>6, <2>1, <3>2, FS_RemoveElement
    <3>4. v[t] = u[t]
      BY <1>10, <3>2, <3>3
    <3>5. v[s] = Level(r, x) + v[t] /\ u[s] = Level(r, x) + u[t]
      <4>1. v[s] = Level(r, x) + v[t]
        BY <3>1, <1>7
      <4>2. u[s] = Level(r, x) + u[t]
        BY <3>1, <1>8
      <4> QED BY <4>1, <4>2
    <3> HIDE DEF x, t
    <3> QED BY <3>4, <3>5
  <2>2. k \in 0 .. m
    BY <1>6
  <2> QED BY <2>1, <2>2
<1>11. Good \in SUBSET (0 .. m)
  OBVIOUS
<1>12. v[T] = u[T]
  <2>1. m \in Good
    <3> HIDE DEF Good
    <3> QED BY <1>6, <1>9, <1>10, <1>11, Onwards
  <2> QED BY <2>1 DEF m
<1> QED BY <1>1, <1>12 DEF u

\* Adding from the last step down gives the users who came at least so far.
LEMMA ReachedIs ==
    ASSUME NEW r, FunnelSteps \in Nat, Counts(r)
    PROVE  \A i \in 1 .. FunnelSteps :
             /\ Reached(r)[i] = SumOver(r, FunnelSteps, i .. FunnelSteps)
             /\ Reached(r)[i] \in Nat
             /\ i < FunnelSteps => Reached(r)[i + 1] <= Reached(r)[i]
<1> DEFINE n == FunnelSteps
           Step(g) == [i \in 1 .. n + 1 |-> IF i > n THEN 0 ELSE LevelCounts(r)[i] + g[i + 1]]
           v == CHOOSE g : g = Step(g)
           u == [i \in 1 .. n + 1 |-> SumOver(r, n, i .. n)]
<1>1. Reached(r) = [i \in 1 .. n |-> v[i]]
  BY DEF Reached
<1>2. \A i \in 1 .. n : LevelCounts(r)[i] = Level(r, i) /\ Level(r, i) \in Nat
  BY DEF LevelCounts, Level, Counts
<1>3. \A i \in 1 .. n : SumOver(r, n, i .. n) = Level(r, i) + SumOver(r, n, i + 1 .. n)
  <2> TAKE i \in 1 .. n
  <2>1. i .. n \in SUBSET (1 .. n) /\ i \in i .. n /\ (i .. n) \ {i} = i + 1 .. n
    OBVIOUS
  <2> QED BY <2>1, TakeOut
<1>4. SumOver(r, n, n + 1 .. n) = 0 /\ \A s : SumOver(r, n, s) \in Nat
  <2>1. n + 1 .. n = {}
    OBVIOUS
  <2> QED BY <2>1, TakeOut
<1>5. u = Step(u)
  <2>1. ASSUME NEW i \in 1 .. n + 1
        PROVE  u[i] = IF i > n THEN 0 ELSE LevelCounts(r)[i] + u[i + 1]
    <3>1. CASE i > n
      <4>1. i = n + 1
        BY <3>1
      <4> QED BY <4>1, <3>1, <1>4
    <3>2. CASE ~(i > n)
      <4>1. i \in 1 .. n /\ i + 1 \in 1 .. n + 1
        BY <3>2
      <4> QED BY <3>2, <4>1, <1>2, <1>3
    <3> QED BY <3>1, <3>2
  <2>2. u = [i \in 1 .. n + 1 |-> u[i]]
    OBVIOUS
  <2> HIDE DEF u
  <2> QED BY <2>1, <2>2
<1>6. v = Step(v)
  <2> HIDE DEF Step, u
  <2> QED BY <1>5
<1> HIDE DEF v
<1> DEFINE Good == {k \in 0 .. n : v[n + 1 - k] = u[n + 1 - k]}
<1>7. Good = 0 .. n
  <2>1. \A i \in 1 .. n + 1 : v[i] = IF i > n THEN 0 ELSE LevelCounts(r)[i] + v[i + 1]
    BY <1>6
  <2>2. \A i \in 1 .. n + 1 : u[i] = IF i > n THEN 0 ELSE LevelCounts(r)[i] + u[i + 1]
    BY <1>5
  <2> HIDE DEF u
  <2>3. 0 \in Good
    <3>1. n + 1 \in 1 .. n + 1 /\ n + 1 > n /\ n + 1 - 0 = n + 1
      OBVIOUS
    <3> QED BY <2>1, <2>2, <3>1
  <2>4. ASSUME NEW k \in 1 .. n, k - 1 \in Good PROVE k \in Good
    <3> DEFINE i == n + 1 - k
    <3>1. i \in 1 .. n + 1 /\ ~(i > n) /\ n + 1 - (k - 1) = i + 1
      OBVIOUS
    <3>2. v[i + 1] = u[i + 1]
      BY <2>4, <3>1
    <3>3. v[i] = u[i]
      BY <3>1, <3>2, <2>1, <2>2
    <3> QED BY <3>3
  <2>5. Good \in SUBSET (0 .. n)
    OBVIOUS
  <2> HIDE DEF Good
  <2> QED BY <2>3, <2>4, <2>5, Onwards
<1>8. ASSUME NEW i \in 1 .. n PROVE v[i] = SumOver(r, n, i .. n)
  <2>1. n + 1 - i \in 0 .. n /\ n + 1 - (n + 1 - i) = i
    OBVIOUS
  <2>2. n + 1 - i \in Good
    <3> HIDE DEF Good
    <3> QED BY <2>1, <1>7
  <2> QED BY <2>1, <2>2
<1>9. ASSUME NEW i \in 1 .. n, i < n PROVE Reached(r)[i + 1] <= Reached(r)[i]
  <2>1. i + 1 \in 1 .. n
    BY <1>9
  <2>2. SumOver(r, n, i + 1 .. n) <= SumOver(r, n, i .. n)
    BY <1>2, <1>3, <1>4
  <2> QED BY <2>1, <2>2, <1>1, <1>8
<1> QED BY <1>1, <1>4, <1>8, <1>9

\* A funnel's answer is what was counted, and its shares do not widen.
LEMMA FunnelIsRead ==
    ASSUME NEW result \in Results["funnel"]
    PROVE  LET users(l) == IF l \in DOMAIN result THEN result[l] ELSE 0
               payload == Payload("funnel", result)
           IN  \A i \in 1 .. FunnelSteps :
                 /\ payload[i][1] = Sets!MapThenSumSet(users, i .. FunnelSteps)
                 /\ i < FunnelSteps => payload[i + 1][2] <= payload[i][2]
<1> DEFINE n == FunnelSteps
           reached == Reached(result)
           payload == Payload("funnel", result)
<1>1. n \in Nat /\ Counts(result)
  BY ResultsAssumption DEF Counts
<1>2. \A i \in 1 .. n : payload[i][1] = reached[i] /\ payload[i][2] = Conversion(reached, i)
  BY DEF Payload
<1>3. \A i \in 1 .. n : /\ reached[i] = SumOver(result, n, i .. n) /\ reached[i] \in Nat
                        /\ i < n => reached[i + 1] <= reached[i]
  BY <1>1, ReachedIs
<1>4. ASSUME NEW i \in 1 .. n
      PROVE  Sets!MapThenSumSet(LAMBDA l : IF l \in DOMAIN result THEN result[l] ELSE 0, i .. n)
             = SumOver(result, n, i .. n)
  <2>1. i .. n \in SUBSET (1 .. n)
    BY <1>1
  <2> QED BY <1>1, <2>1, SumSetIs
<1> HIDE DEF reached, payload
<1>5. ASSUME NEW i \in 1 .. n, i < n PROVE Conversion(reached, i + 1) <= Conversion(reached, i)
  <2> DEFINE a == 1000 * reached[i + 1]
             d == 1000 * reached[i]
  <2>1. i + 1 \in 1 .. n /\ 1 \in 1 .. n
    BY <1>1, <1>5
  <2>2. a \in Nat /\ d \in Nat /\ a <= d /\ reached[1] \in Nat
    <3>1. reached[i] \in Nat /\ reached[i + 1] \in Nat /\ reached[1] \in Nat
      BY <1>3, <2>1
    <3>2. reached[i + 1] <= reached[i]
      BY <1>3, <1>5
    <3> QED BY <3>1, <3>2
  <2>3. /\ Conversion(reached, i + 1) = IF reached[1] > 0 THEN a \div reached[1] ELSE 0
        /\ Conversion(reached, i) = IF reached[1] > 0 THEN d \div reached[1] ELSE 0
    BY DEF Conversion
  <2> HIDE DEF a, d
  <2>4. CASE reached[1] > 0
    <3>1. reached[1] \in Nat \ {0}
      BY <2>2, <2>4
    <3>2. a \div reached[1] <= d \div reached[1]
      BY <2>2, <3>1, QuotientGrows
    <3> QED BY <2>3, <2>4, <3>2
  <2>5. CASE ~(reached[1] > 0)
    BY <2>3, <2>5
  <2> QED BY <2>4, <2>5
<1>6. \A i \in 1 .. n : i < n => payload[i + 1][2] <= payload[i][2]
  <2> SUFFICES ASSUME NEW i \in 1 .. n, i < n PROVE payload[i + 1][2] <= payload[i][2]
    OBVIOUS
  <2>1. i + 1 \in 1 .. n
    BY <1>1
  <2>2. payload[i + 1][2] = Conversion(reached, i + 1) /\ payload[i][2] = Conversion(reached, i)
    BY <2>1, <1>2
  <2> QED BY <2>2, <1>5
<1> QED BY <1>2, <1>3, <1>4, <1>6 DEF payload

\* A cohort's answer has the users of each row in their place.
LEMMA CohortIsRead ==
    ASSUME NEW result \in Results["cohort"]
    PROVE  LET payload == Payload("cohort", result) IN
           /\ \A r \in result : r.off <= 12 =>
                \E c \in payload : c.week = r.week /\ c.weeks[r.off] = r.users
           /\ \A c \in payload : c.size = c.weeks[0]
<1> DEFINE kept == {r \in result : r.off \in 0 .. 12}
           same(wk, off) == {r \in kept : r.week = wk /\ r.off = off}
           users(wk, off) == IF same(wk, off) = {} THEN 0 ELSE (CHOOSE r \in same(wk, off) : TRUE).users
           row(wk) == [week |-> wk, size |-> users(wk, 0), weeks |-> [off \in 0 .. 12 |-> users(wk, off)]]
<1>1. Payload("cohort", result) = {row(wk) : wk \in {r.week : r \in kept}}
  BY DEF Payload, Cohorts
<1>2. ASSUME NEW r \in result, r.off <= 12
      PROVE  \E c \in Payload("cohort", result) : c.week = r.week /\ c.weeks[r.off] = r.users
  <2>1. r.off \in 0 .. 12 /\ r \in kept
    BY <1>2, ResultsAssumption
  <2>2. same(r.week, r.off) = {r}
    BY <2>1, ResultsAssumption
  <2>3. users(r.week, r.off) = r.users
    <3> HIDE DEF same
    <3> QED BY <2>2
  <2> HIDE DEF users
  <2>4. row(r.week).week = r.week /\ row(r.week).weeks[r.off] = r.users
    BY <2>1, <2>3
  <2> HIDE DEF row, kept
  <2> QED BY <2>1, <2>4, <1>1
<1>3. \A wk : row(wk).size = row(wk).weeks[0]
  <2> HIDE DEF users
  <2> QED OBVIOUS
<1> HIDE DEF row, kept
<1> QED BY <1>1, <1>2, <1>3

-----------------------------------------------------------------------------
(* Results on their way: what a query found, what is cached of it, and what*)
(* is answered.                                                            *)
IsReadOut(op, answer) ==
    answer.result \in Results[op] /\ answer.payload = Payload(op, answer.result)
ResultsKept ==
    /\ \A s \in Slots : req[s].op \in Queries /\ req[s].pc = "store" =>
         req[s].y.result \in Results[req[s].op]
    /\ \A k \in Queries \X Users : cache[k] # Missing => IsReadOut(k[1], cache[k])
    /\ out.op \in Queries /\ out.code = 200 => IsReadOut(out.op, out.val)

\* A step that finds no result and answers with none.
Aside ==
    /\ cache' = cache
    /\ \A t \in Slots : req'[t].op \in Queries /\ req'[t].pc = "store" =>
         req'[t].op = req[t].op /\ req[t].pc = "store" /\ req'[t].y = req[t].y
    /\ ~(out'.op \in Queries /\ out'.code = 200)

LEMMA AsideKeeps == ASSUME ResultsKept, Aside PROVE ResultsKept'
BY DEF ResultsKept, Aside, IsReadOut

\* The ways a request goes on or ends without a result.
Plain(s) ==
    \/ \E code, val : Reply(s, code, val) /\ (code # 200 \/ req[s].op \notin Queries)
    \/ \E pc, y : pc # "store" /\ (Goto(s, pc) \/ Note(s, pc, y))
    \/ \E val : Commit(s, val) /\ req[s].op \notin Queries

LEMMA Ended == ASSUME NEW s, NEW code, NEW val, Reply(s, code, val), code # 200 \/ req[s].op \notin Queries
               PROVE  Plain(s)
BY DEF Plain
LEMMA Gone == ASSUME NEW s, NEW pc, pc # "store", Goto(s, pc) PROVE Plain(s)
BY DEF Plain
LEMMA Noted == ASSUME NEW s, NEW pc, NEW y, pc # "store", Note(s, pc, y) PROVE Plain(s)
BY DEF Plain
LEMMA Written == ASSUME NEW s, NEW val, Commit(s, val), req[s].op \notin Queries PROVE Plain(s)
BY DEF Plain

LEMMA PlainIsAside ==
    ASSUME InOrder, NEW s \in Slots, Busy(s), Plain(s), cache' = cache
    PROVE  Aside
<1>1. DOMAIN req = Slots /\ DOMAIN req[s] = Fields
  BY InFlight
<1>2. ASSUME NEW code, NEW val, Reply(s, code, val), code # 200 \/ req[s].op \notin Queries PROVE Aside
  BY <1>1, <1>2, ReplyIs DEF Aside, Busy
<1>3. ASSUME NEW pc, NEW y, pc # "store", Goto(s, pc) \/ Note(s, pc, y) PROVE Aside
  <2>1. req'[s].pc = pc /\ (\A t \in Slots \ {s} : req'[t] = req[t]) /\ out' = Silence
    BY <1>1, <1>3, GotoIs, NoteIs DEF Moved
  <2> QED BY <1>3, <2>1 DEF Aside, Silence, NONE, Queries
<1>4. ASSUME NEW val, Commit(s, val), req[s].op \notin Queries PROVE Aside
  <2>1. ASSUME NEW t \in Slots, req'[t].op \in Queries
        PROVE  req'[t].op = req[t].op /\ req'[t].pc = req[t].pc /\ req'[t].y = req[t].y
    <3>1. req'[t] = IF t = s THEN Idle ELSE Overtaken(s)[t]
      BY <1>4 DEF Commit, Overtaken
    <3>2. t # s
      BY <2>1, <3>1 DEF Idle, NONE, Queries
    <3>3. req'[t] = req[t] \/ (Busy(t) /\ req'[t] = [req[t] EXCEPT !.alone = FALSE])
      BY <3>1, <3>2 DEF Overtaken
    <3>4. Busy(t) => DOMAIN req[t] = Fields
      BY InFlight
    <3> QED BY <3>3, <3>4 DEF Fields
  <2>2. out'.op = req[s].op
    BY <1>4 DEF Commit, Says
  <2> QED BY <1>4, <2>1, <2>2 DEF Aside
<1> QED BY <1>2, <1>3, <1>4 DEF Plain

\* Guards, sign-ups, members, keys and rows have nothing to do with results.
LEMMA GuardAside ==
    ASSUME InOrder, NEW s \in Slots, Arrive(s) \/ Authorise(s)
    PROVE  Aside
<1>1. CASE Arrive(s)
  <2>1. cache' = cache /\ out' = Silence /\ \A t \in Slots \ {s} : req'[t] = req[t]
    BY <1>1 DEF Arrive, InOrder
  <2>2. req'[s].pc \in {"guard", "role", "service"}
    BY <1>1 DEF Arrive, FirstPc, InOrder
  <2> QED BY <2>1, <2>2 DEF Aside, Silence, NONE, Queries
<1>2. CASE Authorise(s)
  <2>1. Busy(s) /\ cache' = cache
    BY <1>2 DEF Authorise, WorkspaceGuard, RequireRole, Busy
  <2>2. Reply(s, 403, NONE) \/ \E pc \in {"service", "role", "upsert"} : Goto(s, pc)
    BY <1>2 DEF Authorise, WorkspaceGuard, RequireRole
  <2>3. Plain(s)
    BY <2>2 DEF Plain
  <2> QED BY <2>1, <2>3, PlainIsAside
<1> QED BY <1>1, <1>2

LEMMA AccountAside ==
    ASSUME InOrder, NEW s \in Slots, AccountStep(s)
    PROVE  Aside
<1>1. Busy(s) /\ req[s].op \notin Queries /\ cache' = cache
  BY DEF AccountStep, Signup, EmailFree, UniqueSlug, CreateAccount, Login, Refresh, ListForUser,
         GetForUser, Invite, DrawPrefix, CreateKey, ListKeys, RevokeKey, At, Busy, Queries
<1>2. CASE Signup(s)
  <2>1. ASSUME EmailFree(s) PROVE Plain(s)
    <3>1. Reply(s, 409, NONE) \/ Goto(s, "slug")
      BY <2>1 DEF EmailFree
    <3> QED BY <1>1, <3>1, Ended, Gone
  <2>2. ASSUME UniqueSlug(s) PROVE Plain(s)
    <3>1. \E pc \in {"create", "slug"} : \E y : Note(s, pc, y)
      BY <2>2 DEF UniqueSlug
    <3> QED BY <3>1, Noted
  <2>3. ASSUME CreateAccount(s) PROVE Plain(s)
    <3>1. (\E code, val : Reply(s, code, val)) \/ \E val : Commit(s, val)
      BY <2>3 DEF CreateAccount
    <3> QED BY <1>1, <3>1, Ended, Written
  <2>4. Plain(s)
    BY <1>2, <2>1, <2>2, <2>3 DEF Signup
  <2> QED BY <1>1, <2>4, PlainIsAside
<1>3. CASE Login(s) \/ Refresh(s) \/ ListForUser(s) \/ GetForUser(s)
  <2>1. (\E code, val : Reply(s, code, val)) \/ Goto(s, "home")
    BY <1>3 DEF Login, Refresh, ListForUser, GetForUser
  <2>2. Plain(s)
    BY <1>1, <2>1 DEF Plain
  <2> QED BY <1>1, <2>2, PlainIsAside
<1>4. CASE Invite(s)
  <2>1. CASE At(s, "invite", "service")
    <3>1. Goto(s, "role") \/ Reply(s, 200, NONE)
      BY <1>4, <2>1 DEF Invite, At
    <3>2. Plain(s)
      BY <1>1, <3>1 DEF Plain
    <3> QED BY <1>1, <3>2, PlainIsAside
  <2>2. CASE At(s, "invite", "upsert")
    <3>1. /\ \A t \in Slots : req'[t] = IF t = s THEN Idle
                     ELSE IF Busy(t) /\ req[t].user = req[s].x /\ req[t].ws = req[s].ws
                          THEN [Overtaken(s)[t] EXCEPT !.held = @ \cup {req[s].y}]
                     ELSE Overtaken(s)[t]
          /\ out'.op = "invite"
      BY <1>4, <2>2 DEF Invite, At, Says
    <3>2. ASSUME NEW t \in Slots, req'[t].op \in Queries
          PROVE  req'[t].op = req[t].op /\ req'[t].pc = req[t].pc /\ req'[t].y = req[t].y
      <4>1. t # s
        <5>1. req'[s] = Idle
          BY <3>1
        <5> QED BY <3>2, <5>1 DEF Idle, NONE, Queries
      <4>2. Busy(t) => DOMAIN req[t] = Fields
        BY InFlight
      <4>3. ~Busy(t) => req'[t] = req[t]
        BY <3>1, <4>1 DEF Overtaken
      <4>4. CASE Busy(t)
        <5>1. Overtaken(s)[t] = [req[t] EXCEPT !.alone = FALSE]
          BY <4>1, <4>4 DEF Overtaken
        <5>2. \/ req'[t] = [Overtaken(s)[t] EXCEPT !.held = @ \cup {req[s].y}]
              \/ req'[t] = Overtaken(s)[t]
          BY <3>1, <4>1
        <5> QED BY <4>2, <4>4, <5>1, <5>2 DEF Fields
      <4> QED BY <4>3, <4>4
    <3> QED BY <1>1, <3>1, <3>2 DEF Aside, Queries
  <2> QED BY <1>4, <2>1, <2>2 DEF Invite
<1>5. CASE DrawPrefix(s)
  <2>1. PICK p \in Prefixes :
          \/ req' = [req EXCEPT ![s].pc = "create", ![s].x = p] /\ out' = Silence
          \/ \E y : Note(s, "service", y)
          \/ Reply(s, 500, "exhausted")
    BY <1>5 DEF DrawPrefix
  <2>2. CASE req' = [req EXCEPT ![s].pc = "create", ![s].x = p] /\ out' = Silence
    <3>1. DOMAIN req = Slots /\ DOMAIN req[s] = Fields
      BY <1>1, InFlight
    <3>2. req'[s].pc = "create" /\ \A t \in Slots \ {s} : req'[t] = req[t]
      BY <2>2, <3>1 DEF Fields
    <3> QED BY <1>1, <2>2, <3>2 DEF Aside, Silence, NONE, Queries
  <2>3. CASE (\E y : Note(s, "service", y)) \/ Reply(s, 500, "exhausted")
    <3>1. Plain(s)
      BY <2>3 DEF Plain
    <3> QED BY <1>1, <3>1, PlainIsAside
  <2> QED BY <2>1, <2>2, <2>3
<1>6. CASE CreateKey(s) \/ ListKeys(s) \/ RevokeKey(s)
  <2>1. (\E code, val : Reply(s, code, val)) \/ (\E val : Commit(s, val)) \/ Goto(s, "write")
    BY <1>6 DEF CreateKey, ListKeys, RevokeKey
  <2>2. Plain(s)
    BY <1>1, <2>1 DEF Plain
  <2> QED BY <1>1, <2>2, PlainIsAside
<1> QED BY <1>2, <1>3, <1>4, <1>5, <1>6 DEF AccountStep

LEMMA BoardAside ==
    ASSUME InOrder, NEW s \in Slots, BoardStep(s)
    PROVE  Aside
<1> DEFINE Ends == (\E code, val : Reply(s, code, val)) \/ \E val : Commit(s, val)
           Goes == \E pc \in {"write", "find", "record", "page"} : Goto(s, pc)
           Notes == \E y : Note(s, "write", y)
<1>1. /\ Busy(s) /\ cache' = cache /\ req[s].op \notin Queries
      /\ Ends \/ Goes \/ Notes
  <2>1. \A val : Read(s, val) => Ends
    BY DEF Read
  <2>2. NotFound(s) => Ends
    BY DEF NotFound
  <2>3. \A found \in BOOLEAN : Check(s, found) => Goes \/ Ends
    BY <2>2 DEF Check
  <2>4. (\A row : Insert(s, row) => Ends) /\ (\A row : UpdateRow(s, row) => Ends) /\ (DeleteRow(s) => Ends)
    BY DEF Insert, UpdateRow, DeleteRow
  <2> HIDE DEF Ends, Goes, Notes
  <2>5. CASE ListBoards(s) \/ GetBoard(s) \/ ListLinks(s) \/ ListAlerts(s) \/ PdfStatus(s)
    BY <2>1, <2>2, <2>5 DEF BoardStep, ListBoards, GetBoard, ListLinks, ListAlerts, PdfStatus, At, Busy, Queries
  <2>6. CASE CreateBoard(s) \/ CreateAlert(s) \/ EnqueuePdf(s)
    BY <2>4, <2>6 DEF BoardStep, CreateBoard, CreateAlert, EnqueuePdf, At, Busy, Queries
  <2>7. CASE UpdateBoard(s) \/ DeleteBoard(s) \/ CreateWidget(s)
    BY <2>3, <2>4, <2>7 DEF BoardStep, UpdateBoard, DeleteBoard, CreateWidget, BoardFound, Found, At, Busy, Queries
  <2>8. CASE UpdateWidget(s) \/ DeleteWidget(s)
    BY <2>3, <2>4, <2>8 DEF BoardStep, UpdateWidget, DeleteWidget, WidgetFound, At, Busy, Queries
  <2>9. CASE UpdateAlert(s) \/ DeleteAlert(s)
    BY <2>3, <2>4, <2>9 DEF BoardStep, UpdateAlert, DeleteAlert, AlertFound, Found, At, Busy, Queries
  <2>10. CASE RevokeLink(s)
    BY <2>1, <2>3, <2>4, <2>10 DEF BoardStep, RevokeLink, Found, At, Busy, Queries
  <2>11. CASE CreateLink(s) \/ AssertDashboard(s) \/ Resolve(s)
    BY <2>4, <2>11 DEF Ends, Goes, Notes, BoardStep, CreateLink, AssertDashboard, Resolve, Verify, ReadDashboard,
                       At, Busy, Queries
  <2> QED BY <2>5, <2>6, <2>7, <2>8, <2>9, <2>10, <2>11 DEF BoardStep
<1>2. Plain(s)
  <2>1. CASE Ends
    BY <1>1, <2>1, Ended, Written
  <2>2. CASE Goes
    <3>1. PICK pc \in {"write", "find", "record", "page"} : Goto(s, pc)
      BY <2>2
    <3> QED BY <3>1, Gone
  <2>3. CASE Notes
    BY <2>3, Noted
  <2> QED BY <1>1, <2>1, <2>2, <2>3
<1> HIDE DEF Ends, Goes, Notes
<1> QED BY <1>1, <1>2, PlainIsAside

LEMMA GatewayAside ==
    ASSUME InOrder, NEW s \in Slots, GatewayStep(s)
    PROVE  Aside
<1>1. Busy(s) /\ req[s].op = "connect" /\ cache' = cache
  BY DEF GatewayStep, Handshake, Subscribe, Hello, SubscribeFails, Disconnect, Forgotten, At, Busy
<1>2. DOMAIN req = Slots /\ DOMAIN req[s] = Fields
  BY <1>1, InFlight
<1>3. out' = Silence \/ out'.op = "connect"
  BY <1>1 DEF GatewayStep, Handshake, Subscribe, Hello, SubscribeFails, Disconnect, Forgotten,
         Reply, Goto, Says
<1>4. \A t \in Slots \ {s} : req'[t] = req[t]
  BY <1>2 DEF GatewayStep, Handshake, Subscribe, Hello, SubscribeFails, Disconnect, Forgotten,
         Reply, Goto
<1>5. req'[s] = Idle \/ req'[s].op = "connect"
  BY <1>1, <1>2 DEF GatewayStep, Handshake, Subscribe, Hello, SubscribeFails, Disconnect, Forgotten,
         Reply, Goto, Fields
<1> QED BY <1>1, <1>3, <1>4, <1>5 DEF Aside, Silence, Idle, NONE, Queries

\* A query brings a result, and Store makes the answer of it; the cache gives it back.
LEMMA QueryResults ==
    ASSUME InOrder, ResultsKept, NEW s \in Slots, AnalyticsStep(s)
    PROVE  ResultsKept'
<1>1. Busy(s) /\ DOMAIN req = Slots /\ DOMAIN req[s] = Fields
  <2>1. Busy(s)
    BY DEF AnalyticsStep, LookUp, Query, QueryFails, Store, Forecast, ListModels, At, Busy
  <2> QED BY <2>1, InFlight
<1>2. ASSUME Plain(s), cache' = cache PROVE ResultsKept'
  BY <1>1, <1>2, PlainIsAside, AsideKeeps
<1>3. req[s].op \in Queries =>
        LET k == CacheKey(req[s]) IN k \in Queries \X Users /\ k[1] = req[s].op
  BY <1>1, InFlight, Parties, RolesAre, GuardedAre DEF CacheKey, Queries, Reads
<1>4. CASE LookUp(s)
  <2>1. CASE Cached(req[s]) /\ Reply(s, 200, cache[CacheKey(req[s])])
    <3> DEFINE k == CacheKey(req[s])
    <3>1. req[s].op \in Queries /\ cache' = cache /\ k \in Queries \X Users /\ k[1] = req[s].op
      BY <1>3, <1>4 DEF LookUp
    <3>2. cache[k] # Missing
      BY <2>1, RequestsAssumption DEF Cached, Missing, InOrder, TypeOK
    <3>3. IsReadOut(req[s].op, cache[k])
      BY <3>1, <3>2 DEF ResultsKept
    <3>4. /\ out'.op = req[s].op /\ out'.val = cache[k]
          /\ ~Busy(s)' /\ \A t \in Slots \ {s} : req'[t] = req[t]
      BY <1>1, <2>1, ReplyIs
    <3> HIDE DEF k
    <3> QED BY <3>1, <3>3, <3>4 DEF ResultsKept, Busy, IsReadOut
  <2>2. CASE Reply(s, 400, NONE) \/ Goto(s, "query")
    <3>1. Plain(s)
      BY <2>2 DEF Plain
    <3> QED BY <1>2, <1>4, <3>1 DEF LookUp
  <2> QED BY <1>4, <2>1, <2>2 DEF LookUp
<1>5. CASE Query(s)
  <2>1. PICK result \in Results[req[s].op] : Note(s, "store", [asOf |-> now, result |-> result])
    BY <1>5 DEF Query
  <2>2. /\ req'[s].op = req[s].op /\ req'[s].y = [asOf |-> now, result |-> result] /\ out' = Silence
        /\ \A t \in Slots \ {s} : req'[t] = req[t]
    BY <1>1, <2>1, NoteIs DEF Moved
  <2>3. cache' = cache
    BY <1>5 DEF Query
  <2> QED BY <2>2, <2>3 DEF ResultsKept, IsReadOut, Silence, NONE, Queries
<1>6. CASE QueryFails(s)
  <2>1. Plain(s) /\ cache' = cache
    BY <1>6 DEF QueryFails, Plain
  <2> QED BY <1>2, <2>1
<1>7. CASE Store(s)
  <2> DEFINE r == req[s]
             answer == [asOf |-> r.y.asOf, ws |-> r.ws, dies |-> DiesAt(r.op),
                        result |-> r.y.result, payload |-> Payload(r.op, r.y.result)]
             k == CacheKey(r)
  <2>1. /\ r.op \in Queries /\ r.pc = "store" /\ k \in Queries \X Users /\ k[1] = r.op
        /\ cache' = [cache EXCEPT ![k] = answer] /\ Reply(s, 200, answer)
    BY <1>3, <1>7 DEF Store
  <2>2. IsReadOut(r.op, answer)
    <3>1. r.y.result \in Results[r.op]
      BY <2>1 DEF ResultsKept
    <3> QED BY <3>1 DEF IsReadOut
  <2> HIDE DEF answer, k
  <2>3. /\ out'.op = r.op /\ out'.val = answer
        /\ ~Busy(s)' /\ \A t \in Slots \ {s} : req'[t] = req[t]
    BY <1>1, <2>1, ReplyIs
  <2>4. \A q \in Queries \X Users : cache'[q] = IF q = k THEN answer ELSE cache[q]
    BY <2>1 DEF InOrder
  <2> QED BY <2>1, <2>2, <2>3, <2>4 DEF ResultsKept, Busy, IsReadOut
<1>8. CASE Forecast(s) \/ ListModels(s)
  <2>1. req[s].op \notin Queries /\ cache' = cache
    BY <1>8 DEF Forecast, ListModels, At, Queries
  <2>2. ASSUME Forecast(s) PROVE Plain(s)
    <3> DEFINE val(code) == IF code = 200 THEN {req[s].ws} ELSE "unavailable"
    <3>1. PICK code \in {200, 400, 422, 500} : Reply(s, code, val(code))
      BY <2>2 DEF Forecast
    <3> HIDE DEF val
    <3> QED BY <2>1, <3>1, Ended
  <2>3. ASSUME ListModels(s) PROVE Plain(s)
    <3>1. \E code, val : Reply(s, code, val)
      BY <2>3 DEF ListModels
    <3> QED BY <2>1, <3>1, Ended
  <2> QED BY <1>2, <1>8, <2>1, <2>2, <2>3
<1> QED BY <1>4, <1>5, <1>6, <1>7, <1>8 DEF AnalyticsStep

LEMMA ResultsStep ==
    ASSUME InOrder, ResultsKept, [Next]_vars
    PROVE  ResultsKept'
<1>1. ASSUME NEW s \in Slots, Arrive(s) \/ Authorise(s) \/ AccountStep(s) \/ BoardStep(s) \/ GatewayStep(s)
      PROVE  ResultsKept'
  <2>1. Aside
    BY <1>1, GuardAside, AccountAside, BoardAside, GatewayAside
  <2> QED BY <2>1, AsideKeeps
<1>2. ASSUME NEW s \in Slots, AnalyticsStep(s) PROVE ResultsKept'
  BY <1>2, QueryResults
<1>3. CASE Fanout \/ Tick \/ Restart
  <2>1. /\ cache' = cache /\ out'.op \notin Queries
        /\ \A t \in Slots : req'[t] = req[t] \/ req'[t] = Idle
    BY <1>3 DEF Fanout, Tick, Restart, Silence, NONE, Queries
  <2>2. Aside
    BY <2>1 DEF Aside, Idle
  <2> QED BY <2>2, AsideKeeps
<1>4. CASE UNCHANGED vars
  BY <1>4 DEF vars, ResultsKept, IsReadOut
<1> QED BY <1>1, <1>2, <1>3, <1>4 DEF Next

(* Whatever a query answers - from ClickHouse or from the cache, however   *)
(* long a request waited between the query and its answer - is what was    *)
(* counted, for any number of steps and any result: a funnel's steps have  *)
(* the users of their level and above, a cohort's weeks theirs.            *)
THEOREM ReadoutsAreRight == Spec => []ReadoutsMatch
<1>1. Init => ResultsKept
  BY DEF Init, ResultsKept, Idle, NONE, Queries, Silence
<1>2. (InOrder /\ Right) /\ ResultsKept /\ [Next]_vars => ResultsKept'
  BY ResultsStep
<1>3. ResultsKept => ReadoutsMatch
  <2> SUFFICES ASSUME ResultsKept PROVE ReadoutsMatch
    OBVIOUS
  <2>1. ASSUME out.op = "funnel", out.code = 200
        PROVE  LET users(l) == IF l \in DOMAIN out.val.result THEN out.val.result[l] ELSE 0 IN
               \A i \in 1 .. FunnelSteps :
                 /\ out.val.payload[i][1] = Sets!MapThenSumSet(users, i .. FunnelSteps)
                 /\ i < FunnelSteps => out.val.payload[i + 1][2] <= out.val.payload[i][2]
    <3>1. out.val.result \in Results["funnel"] /\ out.val.payload = Payload("funnel", out.val.result)
      BY <2>1 DEF ResultsKept, IsReadOut, Queries
    <3> QED BY <3>1, FunnelIsRead
  <2>2. ASSUME out.op = "cohort", out.code = 200
        PROVE  /\ \A r \in out.val.result : r.off <= 12 =>
                    \E c \in out.val.payload : c.week = r.week /\ c.weeks[r.off] = r.users
               /\ \A c \in out.val.payload : c.size = c.weeks[0]
    <3>1. out.val.result \in Results["cohort"] /\ out.val.payload = Payload("cohort", out.val.result)
      BY <2>2 DEF ResultsKept, IsReadOut, Queries
    <3> QED BY <3>1, CohortIsRead
  <2> QED BY <2>1, <2>2 DEF ReadoutsMatch
<1> QED BY <1>1, <1>2, <1>3, InvRight, PTL DEF Spec
=============================================================================
