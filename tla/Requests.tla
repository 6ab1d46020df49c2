------------------------------ MODULE Requests ------------------------------
(***************************************************************************)
(* The process of the BFF (src/api) as its request handlers see it: the    *)
(* tables in Postgres, the answers cached in Redis, and the requests in    *)
(* flight, each of which stops at every await and lets others go on.       *)
(* A workspace is named after the user whose sign-up made it: every        *)
(* sign-up makes exactly one.                                              *)
(***************************************************************************)
EXTENDS Integers, Sequences

CONSTANTS Users,        \* email addresses
          Slots,        \* requests and sockets the process handles at once
          Rows,         \* ids of dashboards, widgets, links, alerts and jobs
          Prefixes,     \* prefixes of API keys
          MaxTime,      \* bound: ticks of the clock of a behaviour
          Mixes         \* bound: what a behaviour may be made of, as records of
                        \* ops, the operations, and most, the number of
                        \* requests, sockets and restarts

Roles == {"owner", "member", "viewer"}
NONE == "none"

ASSUME RequestsAssumption ==
    /\ NONE \notin Users /\ 0 \notin Rows
    /\ MaxTime \in Nat /\ \A m \in Mixes : m.most \in Nat

VARIABLES joined,      \* the users, in the order of their sign-ups
          slug,        \* workspace -> its slug
          member,      \* workspace -> user -> role, or NONE
          keys,        \* prefix -> the key that has it
          rows,        \* id -> dashboard, widget, share link, alert or PDF job
          cache,       \* <<query, workspace>> -> the answer kept in Redis
          subscribed,  \* MetricsGateway.subscribedWorkspaces
          onChannel,   \* workspaces whose channel the Redis client receives
          req,         \* slot -> the request in flight
          out,         \* what the last step sent to a client
          now, left, mix

accounts == <<joined, slug, member>>
gateway == <<subscribed, onChannel>>
env == <<now, left, mix>>
vars == <<accounts, keys, rows, cache, gateway, req, out, env>>

Workspaces == {joined[i] : i \in 1..Len(joined)}
Silence == [op |-> NONE]
Idle == [pc |-> "idle", op |-> NONE]
Busy(s) == req[s].pc # "idle"
At(s, op, pc) == req[s].pc = pc /\ req[s].op = op

Row(kind, w, board, exp) ==
    [kind |-> kind, ws |-> w, board |-> board, exp |-> exp, state |-> "live", rev |-> 0]
FreeRow == [Row("free", NONE, 0, 0) EXCEPT !.state = "free"]
NewId == CHOOSE r \in Rows : rows[r].state = "free"
IdsLeft == \E r \in Rows : rows[r].state = "free"     \* bound: the ids of a behaviour

\* A step that reads: the request goes on, or is answered.
Goto(s, pc) == req' = [req EXCEPT ![s].pc = pc] /\ out' = Silence
Note(s, pc, y) == req' = [req EXCEPT ![s].pc = pc, ![s].y = y] /\ out' = Silence
Says(s, code, val) ==
    out' = [op |-> req[s].op, user |-> req[s].user, ws |-> req[s].ws,
            alone |-> req[s].alone, code |-> code, val |-> val]
Reply(s, code, val) == req' = [req EXCEPT ![s] = Idle] /\ Says(s, code, val)

\* A step that writes: "alone" of the others says that nothing was written
\* while they were in flight.
Overtaken(s) == [t \in Slots |-> IF t = s \/ ~Busy(t) THEN req[t]
                                 ELSE [req[t] EXCEPT !.alone = FALSE]]
Commit(s, val) == req' = [Overtaken(s) EXCEPT ![s] = Idle] /\ Says(s, 200, val)

-----------------------------------------------------------------------------
(* Who may call what: each controller's guards and requireRole calls.      *)
AnyRole == Roles
Editors == {"owner", "member"}
Owners == {"owner"}

DashboardRoutes == [listBoards |-> AnyRole, getBoard |-> AnyRole, createBoard |-> Editors,
                    updateBoard |-> Editors, deleteBoard |-> Owners]
WidgetRoutes == [createWidget |-> Editors, updateWidget |-> Editors, deleteWidget |-> Editors]
ShareRoutes == [listLinks |-> AnyRole, createLink |-> Owners, revokeLink |-> Owners]
AlertRoutes == [listAlerts |-> AnyRole, createAlert |-> Editors,
                updateAlert |-> Editors, deleteAlert |-> Owners]
PdfRoutes == [enqueuePdf |-> Editors, pdfStatus |-> AnyRole]
EventRoutes == [kpi |-> AnyRole, funnel |-> AnyRole, cohort |-> AnyRole]
ForecastRoutes == [forecast |-> AnyRole, models |-> AnyRole]
KeyRoutes == [listKeys |-> Editors, issueKey |-> Owners, revokeKey |-> Owners]
WorkspaceRoutes == [invite |-> Owners]

Both(f, g) ==
    [op \in DOMAIN f \cup DOMAIN g |-> IF op \in DOMAIN f THEN f[op] ELSE g[op]]
Guarded == Both(Both(Both(DashboardRoutes, WidgetRoutes), Both(ShareRoutes, AlertRoutes)),
                Both(PdfRoutes, Both(EventRoutes, ForecastRoutes)))
RolesFor == Both(Guarded, Both(KeyRoutes, WorkspaceRoutes))

FirstPc(op) == IF op \in DOMAIN Guarded THEN "guard"
               ELSE IF op \in DOMAIN KeyRoutes THEN "role" ELSE "service"

ResolveRole(s) == member[req[s].ws][req[s].user]

WorkspaceGuard(s) ==
    /\ req[s].pc = "guard"
    /\ IF ResolveRole(s) = NONE THEN Reply(s, 403, NONE)
       ELSE Goto(s, IF RolesFor[req[s].op] = AnyRole THEN "service" ELSE "role")

Allowed(s) == ResolveRole(s) \in RolesFor[req[s].op]

RequireRole(s) ==
    /\ req[s].pc = "role"
    /\ IF Allowed(s) THEN Goto(s, IF req[s].op = "invite" THEN "upsert" ELSE "service")
       ELSE Reply(s, 403, NONE)

Authorise(s) == /\ WorkspaceGuard(s) \/ RequireRole(s)
                /\ UNCHANGED <<accounts, keys, rows, cache, gateway, env>>

-----------------------------------------------------------------------------
(* The clients and the clock.                                              *)
OfKind(kind) == {r \in Rows : rows[r].kind = kind}
LinkLives(r) == rows[r].state = "live" /\ (rows[r].exp = 0 \/ rows[r].exp >= now)

\* The ids and values a request may carry, by its operation.
Firsts(op) ==
    CASE op \in {"getBoard", "updateBoard", "deleteBoard", "createWidget",
                 "createLink", "enqueuePdf"} -> OfKind("board")
      [] op \in {"updateWidget", "deleteWidget"} -> OfKind("widget")
      [] op \in {"revokeLink", "resolve"} -> OfKind("link")
      [] op \in {"updateAlert", "deleteAlert"} -> OfKind("alert")
      [] op = "pdfStatus" -> OfKind("pdf")
      [] op = "revokeKey" -> Prefixes
      [] op = "invite" -> Users
      [] OTHER -> {NONE}
Seconds(op, x) ==
    CASE op \in {"updateWidget", "deleteWidget"} -> OfKind("board")
      [] op = "createLink" -> {0, 1}
      [] op = "resolve" -> {IF LinkLives(x) THEN "live" ELSE "dead"}
      [] op = "invite" -> {"member", "viewer"}
      [] op \in {"signup", "issueKey"} -> {0}
      [] OTHER -> {NONE}
Callers(op) == CASE op = "resolve" -> {NONE}
                 [] op \in {"signup", "login"} -> Users
                 [] OTHER -> Workspaces
Spaces(op, u) == IF op \in DOMAIN RolesFor \cup {"connect", "getWorkspace"}
                 THEN Workspaces ELSE {u}
RolesOf(w, u) == IF w \in Workspaces THEN {member[w][u]} \ {NONE} ELSE {}

Arrive(s) ==
    /\ ~Busy(s) /\ left > 0
    /\ left' = left - 1
    /\ \E op \in mix.ops : \E u \in Callers(op), x \in Firsts(op) :
       \E w \in Spaces(op, u), y \in Seconds(op, x) :
          req' = [req EXCEPT ![s] =
                    [op |-> op, user |-> u, ws |-> w, x |-> x, y |-> y, pc |-> FirstPc(op),
                     held |-> RolesOf(w, u), alone |-> TRUE]]
    /\ out' = Silence
    /\ UNCHANGED <<accounts, keys, rows, cache, gateway, now, mix>>

-----------------------------------------------------------------------------
RowOK == [kind : {"free", "board", "widget", "link", "alert", "pdf"}, ws : Users \cup {NONE},
          board : Rows \cup {0}, exp : 0..MaxTime + 1,
          state : {"free", "live", "revoked", "gone"}, rev : 0..1]
TypeOK == /\ joined \in Seq(Users)
          /\ \A i, k \in 1..Len(joined) : joined[i] = joined[k] => i = k
          /\ DOMAIN slug = Users /\ \A u \in Users : slug[u] # <<>> <=> u \in Workspaces
          /\ member \in [Users -> [Users -> Roles \cup {NONE}]]
          /\ \A w \in Workspaces : member[w][w] # NONE
          /\ keys \in [Prefixes -> [state : {"free", "live", "revoked"}, ws : Users \cup {NONE}]]
          /\ rows \in [Rows -> RowOK]
          /\ \A r \in Rows : rows[r].kind = "free" <=> rows[r].state = "free"
          /\ subscribed \cup onChannel \subseteq Workspaces
          /\ now \in 0..MaxTime /\ left \in Nat
=============================================================================
