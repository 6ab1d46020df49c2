------------------------------ MODULE Accounts ------------------------------
(***************************************************************************)
(* Sign-up, login, workspaces, invitations and API keys: auth.service.ts,  *)
(* workspaces.service.ts and api-keys.service.ts, one step per await that  *)
(* reads or writes. A password is right or wrong, a token is always valid. *)
(***************************************************************************)
EXTENDS Requests

CONSTANTS SlugBase,    \* what slugify makes of the name of a user's workspace
          Suffixes     \* what Math.random() may add to it

StampOf(time) == 100 + time    \* Date.now() in base 36

\* A suffix is at most four characters long, a time eight.
ASSUME AccountsAssumption == \A time \in 0..MaxTime : StampOf(time) \notin {0} \cup Suffixes

SlugTaken(c) == \E w \in Workspaces : slug[w] = c
MayRead(u) == {w \in Workspaces : w = u \/ member[w][u] # NONE}

-----------------------------------------------------------------------------
(* AuthService.signup                                                      *)
EmailFree(s) ==
    /\ At(s, "signup", "service")
    /\ IF req[s].user \in Workspaces THEN Reply(s, 409, NONE) ELSE Goto(s, "slug")
    /\ UNCHANGED accounts

\* uniqueSlug: the base, four random suffixes, then the time unchecked.
\* y is i, then the slug that was chosen.
UniqueSlug(s) ==
    LET base == SlugBase[req[s].user] i == req[s].y IN
    /\ At(s, "signup", "slug")
    /\ \E n \in IF i = 0 THEN {0} ELSE Suffixes :
         IF ~SlugTaken(<<base, n>>) THEN Note(s, "create", <<base, n>>)
         ELSE IF i < 4 THEN Note(s, "slug", i + 1)
         ELSE Note(s, "create", <<base, StampOf(now)>>)
    /\ UNCHANGED accounts

FirstRole == "owner"

\* The slug was looked up before it was chosen: it is not the time, which
\* is only taken when all others were.
LookedUp(chosen) == chosen[2] \in {0} \cup Suffixes

CreateAccount(s) ==
    LET u == req[s].user IN
    /\ At(s, "signup", "create")
    /\ IF u \in Workspaces \/ SlugTaken(req[s].y)
       THEN /\ Reply(s, 500, IF LookedUp(req[s].y) THEN NONE ELSE "exhausted")
            /\ UNCHANGED accounts
       ELSE /\ joined' = Append(joined, u)
            /\ slug' = [slug EXCEPT ![u] = req[s].y]
            /\ member' = [member EXCEPT ![u][u] = FirstRole]
            /\ Commit(s, {u})

Signup(s) == EmailFree(s) \/ UniqueSlug(s) \/ CreateAccount(s)

\* AuthService.login: the user and the password, then the oldest workspace.
FirstOf(ws) == {joined[CHOOSE i \in 1..Len(joined) :
                         joined[i] \in ws /\ \A k \in 1..i - 1 : joined[k] \notin ws]}
Login(s) ==
    /\ \/ /\ At(s, "login", "service")
          /\ \/ Reply(s, 401, NONE)
             \/ req[s].user \in Workspaces /\ Goto(s, "home")
       \/ /\ At(s, "login", "home")
          /\ IF MayRead(req[s].user) = {} THEN Reply(s, 401, NONE)
             ELSE Reply(s, 200, FirstOf(MayRead(req[s].user)))
    /\ UNCHANGED accounts

\* AuthService.refresh: users are never deleted, so only the token can be bad.
Refresh(s) ==
    /\ At(s, "refresh", "service")
    /\ \E code \in {200, 401} : Reply(s, code, IF code = 200 THEN {} ELSE NONE)
    /\ UNCHANGED accounts

-----------------------------------------------------------------------------
(* WorkspacesService                                                       *)
ListForUser(s) ==
    /\ At(s, "listWorkspaces", "service")
    /\ Reply(s, 200, MayRead(req[s].user))
    /\ UNCHANGED accounts

GetForUser(s) ==
    /\ At(s, "getWorkspace", "service")
    /\ IF req[s].ws \in MayRead(req[s].user) THEN Reply(s, 200, {req[s].ws})
       ELSE Reply(s, 404, NONE)
    /\ UNCHANGED accounts

\* x is the invitee, y the role. An unknown invitee is a normal answer.
Invite(s) ==
    LET w == req[s].ws u == req[s].x role == req[s].y IN
    \/ /\ At(s, "invite", "service")
       /\ IF u \in Workspaces THEN Goto(s, "role") ELSE Reply(s, 200, NONE)
       /\ UNCHANGED accounts
    \/ /\ At(s, "invite", "upsert")
       /\ member' = [member EXCEPT ![w][u] = role]
       /\ req' = [t \in Slots |-> IF t = s THEN Idle
                     ELSE IF Busy(t) /\ req[t].user = u /\ req[t].ws = w
                          THEN [Overtaken(s)[t] EXCEPT !.held = @ \cup {role}]
                     ELSE Overtaken(s)[t]]
       /\ Says(s, 200, {w})
       /\ UNCHANGED <<joined, slug>>

-----------------------------------------------------------------------------
(* ApiKeysService                                                          *)
Attempts == 3

\* y counts the attempts. The hash is computed between the two awaits.
DrawPrefix(s) ==
    /\ At(s, "issueKey", "service")
    /\ \E p \in Prefixes :
         IF keys[p].state = "free"
         THEN req' = [req EXCEPT ![s].pc = "create", ![s].x = p] /\ out' = Silence
         ELSE IF req[s].y + 1 < Attempts THEN Note(s, "service", req[s].y + 1)
         ELSE Reply(s, 500, "exhausted")
    /\ UNCHANGED keys

CreateKey(s) ==
    /\ At(s, "issueKey", "create")
    /\ IF keys[req[s].x].state = "free"
       THEN /\ keys' = [keys EXCEPT ![req[s].x] = [state |-> "live", ws |-> req[s].ws]]
            /\ Commit(s, NONE)
       ELSE Reply(s, 500, NONE) /\ UNCHANGED keys

ListKeys(s) ==
    /\ At(s, "listKeys", "service")
    /\ Reply(s, 200, {keys[p].ws : p \in {q \in Prefixes : keys[q].ws = req[s].ws}})
    /\ UNCHANGED keys

RevokeKey(s) ==
    LET p == req[s].x IN
    \/ /\ At(s, "revokeKey", "service")
       /\ IF keys[p].state = "free" \/ keys[p].ws # req[s].ws THEN Reply(s, 404, NONE)
          ELSE IF keys[p].state = "revoked" THEN Reply(s, 200, NONE)
          ELSE Goto(s, "write")
       /\ UNCHANGED keys
    \/ /\ At(s, "revokeKey", "write")
       /\ keys' = [keys EXCEPT ![p].state = "revoked"]
       /\ Commit(s, NONE)

-----------------------------------------------------------------------------
AccountStep(s) ==
    \/ /\ \/ Signup(s) \/ Login(s) \/ Refresh(s)
          \/ ListForUser(s) \/ GetForUser(s) \/ Invite(s)
       /\ UNCHANGED <<keys, rows, cache, gateway, env>>
    \/ /\ DrawPrefix(s) \/ CreateKey(s) \/ ListKeys(s) \/ RevokeKey(s)
       /\ UNCHANGED <<accounts, rows, cache, gateway, env>>
=============================================================================
