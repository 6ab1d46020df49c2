---------------------------- MODULE ControlPlane ----------------------------
(***************************************************************************)
(* The whole BFF: its modules share the process, Postgres and Redis. A     *)
(* restart loses the requests, the sockets and the subscriptions.          *)
(***************************************************************************)
EXTENDS Accounts, Boards, Analytics, LiveMetrics
Sets == INSTANCE FiniteSetsExt

CONSTANT Founders,     \* who has signed up at the start, in order
         GuestRole,    \* the second founder's role in the first one's workspace
         Stock         \* the rows there are at the start

\* A database in order: every widget and link has its dashboard.
ASSUME ControlPlaneAssumption ==
    /\ Founders \in Seq(Users)
    /\ \A i, k \in 1..Len(Founders) : Founders[i] = Founders[k] => i = k
    /\ \A r \in Rows \cap DOMAIN Stock :
         /\ Stock[r] \in RowOK /\ Stock[r].kind # "free" /\ Stock[r].state = "live"
         /\ Stock[r].kind \in {"widget", "link"} =>
              LET b == Stock[r].board IN
              /\ b \in Rows \cap DOMAIN Stock /\ Stock[b].kind = "board"
              /\ Stock[r].kind = "link" => Stock[b].ws = Stock[r].ws

Timed == Queries \cup {"createLink", "resolve"}

Init ==
    /\ mix \in Mixes
    /\ joined = IF "signup" \in mix.ops THEN <<>> ELSE Founders
    /\ slug = [u \in Users |-> IF u \in Workspaces
                             THEN <<SlugBase[u], (CHOOSE i \in 1..Len(joined) : joined[i] = u) - 1>>
                             ELSE <<>>]
    /\ member \in [Users -> [Users -> Roles \cup {NONE}]]
    /\ \A w \in Users, u \in Users :
         member[w][u] \in IF w \notin Workspaces THEN {NONE}
                          ELSE IF u = w THEN {"owner"}
                          ELSE IF w = joined[1] /\ u \in Workspaces THEN GuestRole ELSE {NONE}
    /\ keys = [p \in Prefixes |-> [state |-> "free", ws |-> NONE]]
    /\ rows = [r \in Rows |-> IF r \in DOMAIN Stock /\ joined # <<>> THEN Stock[r] ELSE FreeRow]
    /\ cache = [k \in Queries \X Users |-> Missing]
    /\ subscribed = {} /\ onChannel = {}
    /\ req = [s \in Slots |-> Idle] /\ out = Silence
    /\ now = 0 /\ left = mix.most

Tick ==
    /\ mix.ops \cap Timed # {} /\ now < MaxTime /\ QueryInTime
    /\ now' = now + 1 /\ out' = Silence
    /\ UNCHANGED <<accounts, keys, rows, cache, gateway, req, left, mix>>

Restart ==
    /\ left > 0 /\ left' = left - 1
    /\ \E s \in Slots : Busy(s)
    /\ req' = [s \in Slots |-> Idle]
    /\ subscribed' = {} /\ onChannel' = {}
    /\ out' = Silence
    /\ UNCHANGED <<accounts, keys, rows, cache, now, mix>>

Next ==
    \/ \E s \in Slots : \/ Arrive(s) \/ Authorise(s) \/ AccountStep(s) \/ BoardStep(s)
                        \/ AnalyticsStep(s) \/ GatewayStep(s)
    \/ Fanout \/ Tick \/ Restart

Spec == Init /\ [][Next]_vars

-----------------------------------------------------------------------------
(* A widget or a link that is there has its dashboard, in its workspace.   *)
NoOrphans ==
    \A r \in Rows : (rows[r].kind \in {"widget", "link"} /\ rows[r].state # "gone") =>
        /\ rows[r].board \in OfKind("board") /\ rows[rows[r].board].state = "live"
        /\ rows[r].kind = "link" => rows[rows[r].board].ws = rows[r].ws

(* No two workspaces share a slug.                                         *)
SlugsUnique == \A v, w \in Workspaces : slug[v] = slug[w] => v = w

(* A socket that was greeted hears its workspace: Redis sends the channel  *)
(* to this process, and its user is in the workspace.                      *)
HelloMeansLive ==
    /\ subscribed \subseteq onChannel
    /\ \A s \in Slots : (Busy(s) /\ req[s].op = "connect" /\ req[s].pc = "live") =>
         req[s].ws \in onChannel /\ ResolveRole(s) # NONE

(* Why: a request keeps what it was sent with, and everything it has found *)
(* out on its way stays true, whatever others do between two of its steps. *)
Fields == {"op", "user", "ws", "x", "y", "pc", "held", "alone"}
AsSent(s) ==
    LET r == req[s] IN
    /\ DOMAIN r = Fields
    /\ r.user \in Callers(r.op) /\ r.ws \in Spaces(r.op, r.user)
    /\ r.op # "issueKey" => r.x \in Firsts(r.op)
    /\ r.op \in {"updateWidget", "deleteWidget", "invite"} => r.y \in Seconds(r.op, r.x)

\* What was looked up: the row of x, for a widget of its dashboard y, is of the
\* workspace; ids, workspaces and roles do not go away again, and a link that
\* was not good when the request came does not get to the page.
OnBoard == {"updateWidget", "deleteWidget"}
OnRow == {"createWidget", "updateBoard", "deleteBoard", "createLink", "revokeLink",
          "updateAlert", "deleteAlert"}
AsFound(s) ==
    LET r == req[s] IN
    /\ At(s, "signup", "create") => r.y # <<>>
    /\ At(s, "login", "home") => r.user \in Workspaces
    /\ r.op \in OnRow /\ r.pc = "write" => rows[r.x].ws = r.ws
    /\ r.op \in OnBoard /\ r.pc \in {"find", "write"} => rows[r.y].ws = r.ws
    /\ r.op \in OnBoard /\ r.pc = "write" => rows[r.x].board = r.y
    /\ r.op = "createLink" => r.y \in IF r.pc = "write" THEN 0..MaxTime + 1 ELSE {0, 1}
    /\ At(s, "issueKey", "create") => r.x \in Prefixes
    /\ At(s, "revokeKey", "write") => keys[r.x].state # "free" /\ keys[r.x].ws = r.ws
    /\ r.op = "connect" /\ r.pc \in {"subscribing", "live"} => ResolveRole(s) # NONE
    /\ r.op = "resolve" /\ r.y # "live" =>
         /\ ~LinkLives(r.x) /\ r.pc # "page"
         /\ r.pc = "record" => rows[r.x].state # "live"
    /\ r.op \in Queries /\ r.pc = "store" =>
         r.y.asOf \in 0..now /\ now - r.y.asOf <= QuerySpan

\* Whoever got past the guards has held a sufficient role since it came.
AsAllowed(s) ==
    LET r == req[s] IN
    /\ r.pc = "guard" => r.op \in DOMAIN Guarded
    /\ r.pc = "role" => r.op \in DOMAIN RolesFor
    /\ r.op \in DOMAIN RolesFor =>
         /\ ResolveRole(s) \in r.held \cup {NONE}
         /\ \/ r.pc \in {"guard", "role"} \/ At(s, "invite", "service")
            \/ r.held \cap RolesFor[r.op] # {}

\* While nobody else has written, what a request has looked up is as it was:
\* the email and the slug are free, the prefix is, the row is there.
AsAlone(s) ==
    LET r == req[s] IN
    r.alone =>
      /\ r.op = "signup" /\ r.pc \in {"slug", "create"} => r.user \notin Workspaces
      /\ At(s, "signup", "create") /\ LookedUp(r.y) => ~SlugTaken(r.y)
      /\ At(s, "issueKey", "create") => keys[r.x].state = "free"
      /\ r.op \in OnRow \cup OnBoard /\ r.pc = "write" => rows[r.x].state # "gone"
FoundIsThere == \A s \in Slots : Busy(s) => AsAlone(s)

RequestsInOrder == \A s \in Slots : Busy(s) => AsSent(s) /\ AsFound(s) /\ AsAllowed(s)

\* What is cached is of the workspace in its key and goes in time.
CacheInOrder ==
    \A k \in Queries \X Users : cache[k] # Missing =>
        LET c == cache[k] IN
        c.ws = k[2] /\ c.asOf \in 0..now /\ c.dies \in 0..c.asOf + QuerySpan + Ttl(k[1])

\* Of a row that was found, only a link's may be revoked.
OnlyLinksRevoked == \A r \in Rows : rows[r].state = "revoked" => rows[r].kind = "link"

\* The inductive invariant: what every request may rely on, and what one that is
\* alone may.
InOrder == /\ TypeOK /\ NoOrphans /\ SlugsUnique /\ HelloMeansLive
           /\ DOMAIN req = Slots /\ RequestsInOrder
           /\ DOMAIN cache = Queries \X Users /\ CacheInOrder
IInv == InOrder /\ OnlyLinksRevoked /\ FoundIsThere

(* Whatever a request writes is in the workspace it was addressed to, and  *)
(* its caller held a role that may write it at some time since it arrived: *)
(* links, keys, roles and deletions of dashboards and alerts are the       *)
(* owners', the rest the editors'. Lookup, guard and write are different   *)
(* steps, and the writes name a row by its id alone.                       *)
WsOf(r) == IF rows[r].kind = "widget" THEN rows[rows[r].board].ws ELSE rows[r].ws
Needs(r) == IF \/ rows[r].kind = "link"
               \/ rows[r].kind \in {"board", "alert"} /\ rows[r].state = "gone"
            THEN Owners ELSE Editors
May(s, roles) == req[s].held \cap roles # {}
MayChange(s) ==
    /\ \A r \in Rows : rows'[r] # rows[r] => WsOf(r)' = req[s].ws /\ May(s, Needs(r)')
    /\ \A p \in Prefixes : keys'[p] # keys[p] => keys'[p].ws = req[s].ws /\ May(s, Owners)
    /\ \A v \in Workspaces, u \in Users :
         member'[v][u] # member[v][u] => v = req[s].ws /\ May(s, Owners)
Authorised == \/ UNCHANGED <<member, keys, rows>>
              \/ \E s \in Slots : Busy(s) /\ ~Busy(s)' /\ MayChange(s)
ChangesAreAuthorised == [][Authorised]_vars

(* What a caller is shown is of the workspace asked for, whichever cache   *)
(* or service it came from; a login leads to a workspace the guards will   *)
(* let the user into; a tick reaches members only.                         *)
AnswersStayInside ==
    LET shown == out.op # NONE /\ out.op # "tick" /\ out.code = 200 IN
    /\ (out.op \in Queries /\ shown) => out.val.ws = out.ws
    /\ (out.op \in {"listBoards", "getBoard", "listLinks", "listAlerts", "pdfStatus",
                    "listKeys", "forecast", "models"} /\ shown) => out.val \subseteq {out.ws}
    /\ (out.op \in {"signup", "login", "listWorkspaces", "getWorkspace"} /\ shown) =>
         out.val # {} /\ \A w \in out.val : member[w][out.user] # NONE
    /\ out.op = "tick" => \A u \in out.to : member[out.ws][u] # NONE
    /\ \A s \in Slots : (Busy(s) /\ At(s, "login", "home")) => MayRead(req[s].user) # {}

(* An answer from the cache is at most its time to live and one query old. *)
AnswersAreRecent ==
    (out.op \in Queries /\ out.code = 200) => now - out.val.asOf <= Ttl(out.op) + QuerySpan

(* A page is served through a link only if the link was still good - not   *)
(* revoked, not expired, its dashboard there - when the request arrived.   *)
ServedLinkWasLive == (out.op = "resolve" /\ out.code = 200) => out.val = "live"

(* A request that nothing was written alongside never ends in a 500,       *)
(* unless another service failed, or all prefixes it drew or all slugs it  *)
(* tried were taken.                                                       *)
OnlyRacesFail ==
    (out.op \notin {NONE, "tick"} /\ out.code = 500) =>
        ~out.alone \/ out.val \in {"unavailable", "exhausted"}

(* What a query answers is what ClickHouse counted: step i of a funnel has *)
(* the users whose level is at least i, so it never widens, whatever rows  *)
(* are missing; a cohort has each week's users in its place and its size   *)
(* in the first.                                                           *)
ReadoutsMatch ==
    /\ (out.op = "funnel" /\ out.code = 200) =>
         LET users(l) == IF l \in DOMAIN out.val.result THEN out.val.result[l] ELSE 0 IN
         \A i \in 1..FunnelSteps :
           /\ out.val.payload[i][1] = Sets!MapThenSumSet(users, i..FunnelSteps)
           /\ i < FunnelSteps => out.val.payload[i + 1][2] <= out.val.payload[i][2]
    /\ (out.op = "cohort" /\ out.code = 200) =>
         /\ \A r \in out.val.result : r.off <= 12 =>
              \E c \in out.val.payload : c.week = r.week /\ c.weeks[r.off] = r.users
         /\ \A c \in out.val.payload : c.size = c.weeks[0]
=============================================================================
