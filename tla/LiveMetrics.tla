---------------------------- MODULE LiveMetrics -----------------------------
(***************************************************************************)
(* MetricsGateway: a socket is authorised, joins its workspace's room, and *)
(* the first one of a workspace subscribes to its Redis channel, once and  *)
(* for the life of the process. A socket keeps its slot until it leaves.   *)
(***************************************************************************)
EXTENDS Requests

Room(w) == {s \in Slots : Busy(s) /\ req[s].op = "connect" /\ req[s].ws = w
                          /\ req[s].pc \in {"subscribing", "live"} /\ req[s].y # "closed"}

SubscribedMeanwhile(w) == subscribed

\* The role, the room and the look at the set are one step.
Handshake(s) ==
    LET w == req[s].ws IN
    /\ At(s, "connect", "service")
    /\ IF ResolveRole(s) = NONE
       THEN Reply(s, 403, NONE) /\ UNCHANGED gateway
       ELSE IF w \in subscribed
       THEN /\ req' = [req EXCEPT ![s].pc = "live"] /\ Says(s, 200, NONE)
            /\ UNCHANGED gateway
       ELSE /\ Goto(s, "subscribing")
            /\ subscribed' = SubscribedMeanwhile(w)
            /\ UNCHANGED onChannel

\* SUBSCRIBE reaches Redis, and its answer the handler.
Subscribe(s) ==
    /\ At(s, "connect", "subscribing") /\ req[s].ws \notin onChannel
    /\ onChannel' = onChannel \cup {req[s].ws}
    /\ UNCHANGED <<subscribed, req>> /\ out' = Silence
Hello(s) ==
    /\ At(s, "connect", "subscribing") /\ req[s].ws \in onChannel
    /\ subscribed' = subscribed \cup {req[s].ws}
    /\ req' = [req EXCEPT ![s].pc = "live"] /\ Says(s, 200, NONE)
    /\ UNCHANGED onChannel
SubscribeFails(s) ==
    /\ At(s, "connect", "subscribing")
    /\ Reply(s, 500, "unavailable") /\ UNCHANGED gateway

\* handleDisconnect changes nothing; a handshake goes on without its socket.
Disconnect(s) ==
    /\ Busy(s) /\ req[s].op = "connect" /\ req[s].y # "closed"
    /\ IF req[s].pc = "live" THEN req' = [req EXCEPT ![s] = Idle]
       ELSE req' = [req EXCEPT ![s].y = "closed"]
    /\ out' = Silence /\ UNCHANGED gateway
Forgotten(s) ==
    /\ At(s, "connect", "live") /\ req[s].y = "closed"
    /\ req' = [req EXCEPT ![s] = Idle]
    /\ out' = Silence /\ UNCHANGED gateway

GatewayStep(s) == /\ \/ Handshake(s) \/ Subscribe(s) \/ Hello(s) \/ SubscribeFails(s)
                     \/ Disconnect(s) \/ Forgotten(s)
                  /\ UNCHANGED <<accounts, keys, rows, cache, env>>

\* fanout: a message on a channel goes to the room of its workspace.
Fanout ==
    /\ \E w \in onChannel \cap Workspaces :
         /\ Room(w) # {}
         /\ out' = [op |-> "tick", ws |-> w, to |-> {req[s].user : s \in Room(w)}]
    /\ UNCHANGED <<accounts, keys, rows, cache, gateway, req, env>>
=============================================================================
