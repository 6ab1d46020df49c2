--------------------------- MODULE ModelRegistry ---------------------------
(***************************************************************************)
(* The forecast service's models of one workspace and metric (forecast/app)*)
(* : retrain tasks run in threads and save a Prophet and an ARIMA model as *)
(* an artifact and a manifest; forecast requests pick the latest model,    *)
(* look its forecast up in Redis and otherwise load the artifact.  Requests*)
(* run on the event loop: a step of theirs ends at an await, while a thread*)
(* may stop between any two file operations.                               *)
(*                                                                         *)
(* A model is identified by its kind and fitted_at; two saves never get the*)
(* same microsecond.  The file system and Redis are external.              *)
(***************************************************************************)
EXTENDS Integers, FiniteSets, FiniteSetsExt

CONSTANTS
    Tasks,          \* threads of the executor, each with one retrain at a time
    Readers,        \* forecast requests
    MaxSaves,       \* bound: models whose save has begun
    MaxFaults       \* bound: crashes, failed saves and Redis errors

ASSUME RegistryAssumption == MaxSaves \in Nat /\ MaxFaults \in Nat

Kinds == {"prophet", "arima"}
AnyKind == "any"                \* a request without model_kind
Stamps == 1 .. MaxSaves
Models == [kind : Kinds, at : Stamps]
NoModel == [kind |-> AnyKind, at |-> 0]
Error(code) == [kind |-> code, at |-> 0]

VARIABLES
    clock,          \* the last fitted_at given out
    pkl,            \* disk: model -> "none", "partial" or "whole" artifact
    manifest,       \* disk: model -> the same for its manifest
    cache,          \* Redis: pairs of a key and the model the forecast is of
    stage, saving,  \* task: where _retrain_pair is, the model it saves
    pc, wanted,     \* reader: where post_forecast is, the kind it asks for
    ref,            \* reader: latest()'s answer
    floor,          \* reader, history: the newest saved model of each kind then
    reply,          \* reader: the model the forecast is of, or an error
    served,         \* history: kind -> fitted_at of the ref taken last
    faults,         \* number of faults so far
    crashes         \* history: how many of them were crashes

disk == <<pkl, manifest>>
task == <<stage, saving>>
reader == <<pc, wanted, ref, floor, reply, served>>
failures == <<faults, crashes>>
vars == <<clock, disk, cache, task, reader, failures>>

Whole(m) == pkl[m] = "whole" /\ manifest[m] = "whole"
NewestStamp(k) == Max({0} \cup {m.at : m \in {x \in Models : x.kind = k /\ Whole(x)}})

Init ==
    /\ clock = 0
    /\ pkl = [m \in Models |-> "none"] /\ manifest = [m \in Models |-> "none"]
    /\ cache = {}
    /\ stage = [t \in Tasks |-> "idle"]
    /\ saving = [t \in Tasks |-> NoModel]
    /\ pc = [r \in Readers |-> "idle"]
    /\ wanted = [r \in Readers |-> AnyKind]
    /\ ref = [r \in Readers |-> NoModel]
    /\ floor = [r \in Readers |-> [k \in Kinds |-> 0]]
    /\ reply = [r \in Readers |-> Error("none")]
    /\ served = [k \in Kinds |-> 0]
    /\ faults = 0 /\ crashes = 0

-----------------------------------------------------------------------------
(* Retraining.                                                             *)

\* post_retrain hands the pair to a thread; it begins with Prophet.
Retrain(t) ==
    /\ stage[t] = "idle"
    /\ stage' = [stage EXCEPT ![t] = "fit"]
    /\ saving' = [saving EXCEPT ![t] = [kind |-> "prophet", at |-> 0]]
    /\ UNCHANGED <<clock, disk, cache, reader, failures>>

\* A kind is done, saved or not: ARIMA follows Prophet, whose error is caught.
EndPair(t) == FALSE                         \* mutant: the error ends the pair
ArimaFollows(t) == saving[t].kind = "prophet"

NextKind(t, goOn) ==
    /\ stage' = [stage EXCEPT ![t] = IF goOn THEN "fit" ELSE "idle"]
    /\ saving' = [saving EXCEPT ![t] =
           IF goOn THEN [kind |-> "arima", at |-> 0] ELSE NoModel]

\* datetime.now() in save(): later than every time it gave before.
NextStamp == clock + 1

\* The model is fitted: save() takes the time and creates the artifact.
Fit(t) ==
    /\ stage[t] = "fit"
    /\ clock < MaxSaves
    /\ clock' = NextStamp
    /\ LET m == [kind |-> saving[t].kind, at |-> NextStamp] IN
       /\ saving' = [saving EXCEPT ![t] = m]
       /\ pkl' = [pkl EXCEPT ![m] = "partial"]
    /\ stage' = [stage EXCEPT ![t] = "dump"]
    /\ UNCHANGED <<manifest, cache, reader, failures>>

\* fit_and_persist raises before the save (too few rows, ClickHouse, the fit).
FitFails(t) ==
    /\ stage[t] = "fit"
    /\ NextKind(t, ArimaFollows(t))
    /\ UNCHANGED <<clock, disk, cache, reader, failures>>

\* When the manifest is opened: after the artifact was dumped and hashed.
ManifestEarly(t) == stage[t] = "dump"       \* mutant: before the dump is done
ManifestDue(t) == stage[t] = "hash"

Dump(t) ==
    /\ stage[t] = "dump"
    /\ pkl' = [pkl EXCEPT ![saving[t]] = "whole"]
    /\ stage' = [stage EXCEPT ![t] = "hash"]
    /\ UNCHANGED <<clock, manifest, cache, saving, reader, failures>>

OpenManifest(t) ==
    /\ ManifestDue(t)
    /\ manifest' = [manifest EXCEPT ![saving[t]] = "partial"]
    /\ stage' = [stage EXCEPT ![t] = "write"]
    /\ UNCHANGED <<clock, pkl, cache, saving, reader, failures>>

WriteManifest(t) ==
    /\ stage[t] = "write"
    /\ manifest' = [manifest EXCEPT ![saving[t]] = "whole"]
    /\ NextKind(t, ArimaFollows(t))
    /\ UNCHANGED <<clock, pkl, cache, reader, failures>>

\* save() raises half-way: what is on the disk stays as it is, and the error is
\* caught like one of the fit.
EscapesSave(t) == FALSE                     \* mutant: save() outside the try
AfterFailedSave(t) == ArimaFollows(t)

SaveFails(t) ==
    /\ stage[t] \in {"dump", "hash", "write"}
    /\ faults < MaxFaults
    /\ faults' = faults + 1
    /\ NextKind(t, AfterFailedSave(t))
    /\ UNCHANGED <<clock, disk, cache, reader, crashes>>

-----------------------------------------------------------------------------
(* Forecasts.                                                              *)

\* What latest() may return: manifests that parse and have an artifact file.
Candidates(want) ==
    {m \in Models : /\ manifest[m] = "whole" /\ pkl[m] # "none"
                    /\ want \in {AnyKind, m.kind}}

\* Names are `{kind}__{fitted_at}`, sorted in reverse.
Before(m, n) ==
    \/ m.kind = "prophet" /\ n.kind = "arima"
    \/ m.kind = n.kind /\ m.at > n.at
ByNameUp(m, n) == Before(n, m)              \* mutant: not reversed
ByName(m, n) == Before(m, n)

Latest(want) ==
    IF Candidates(want) = {} THEN NoModel
    ELSE CHOOSE m \in Candidates(want) : \A n \in Candidates(want) \ {m} : ByName(m, n)

\* post_forecast up to the lookup in the cache; 503 without a model.
Ask(r, want) ==
    /\ pc[r] = "idle"
    /\ wanted' = [wanted EXCEPT ![r] = want]
    /\ floor' = [floor EXCEPT ![r] = [k \in Kinds |-> NewestStamp(k)]]
    /\ LET m == Latest(want) IN
       IF m = NoModel
       THEN /\ reply' = [reply EXCEPT ![r] = Error("503")]
            /\ UNCHANGED <<pc, ref, served>>
       ELSE /\ ref' = [ref EXCEPT ![r] = m]
            /\ served' = [served EXCEPT ![m.kind] = m.at]
            /\ pc' = [pc EXCEPT ![r] = "get"]
            /\ reply' = [reply EXCEPT ![r] = Error("none")]
    /\ UNCHANGED <<clock, disk, cache, task, failures>>

Reply(r, what) ==
    /\ pc' = [pc EXCEPT ![r] = "idle"]
    /\ ref' = [ref EXCEPT ![r] = NoModel]
    /\ reply' = [reply EXCEPT ![r] = what]
    /\ wanted' = [wanted EXCEPT ![r] = AnyKind]
    /\ UNCHANGED <<floor, served>>

KeyOfKind(m) == [m EXCEPT !.at = 1]         \* mutant: fitted_at not in the key
CacheKey(m) == m
Hits(m) == {c \in cache : c.key = CacheKey(m)}

CacheHit(r) ==
    /\ pc[r] = "get"
    /\ \E c \in Hits(ref[r]) : Reply(r, c.model)
    /\ UNCHANGED <<clock, disk, cache, task, failures>>

\* A miss: load() compares the hash with the manifest's, and refuses; or the
\* forecast is made and its store in the cache awaited.
CacheMiss(r) ==
    /\ pc[r] = "get" /\ Hits(ref[r]) = {}
    /\ IF pkl[ref[r]] = "whole"
       THEN pc' = [pc EXCEPT ![r] = "set"] /\ UNCHANGED <<wanted, ref, floor, reply, served>>
       ELSE Reply(r, Error("500"))
    /\ UNCHANGED <<clock, disk, cache, task, failures>>

StoreForecast(r) ==
    /\ pc[r] = "set"
    /\ LET c == [key |-> CacheKey(ref[r]), model |-> ref[r]] IN
       cache' = {d \in cache : d.key # c.key} \cup {c}
    /\ Reply(r, ref[r])
    /\ UNCHANGED <<clock, disk, task, failures>>

\* Redis raises, or the prediction does: a 500.
ForecastFails(r) ==
    /\ pc[r] \in {"get", "set"}
    /\ faults < MaxFaults
    /\ faults' = faults + 1
    /\ Reply(r, Error("500"))
    /\ UNCHANGED <<clock, disk, cache, task, crashes>>

\* cache_ttl_seconds have passed.
Expire(c) ==
    /\ c \in cache
    /\ cache' = cache \ {c}
    /\ UNCHANGED <<clock, disk, task, reader, failures>>

\* The forecast service dies and is started again.
Crash ==
    /\ faults < MaxFaults
    /\ faults' = faults + 1
    /\ crashes' = crashes + 1
    /\ stage' = [t \in Tasks |-> "idle"]
    /\ saving' = [t \in Tasks |-> NoModel]
    /\ pc' = [r \in Readers |-> "idle"]
    /\ wanted' = [r \in Readers |-> AnyKind]
    /\ ref' = [r \in Readers |-> NoModel]
    /\ reply' = [r \in Readers |-> IF pc[r] = "idle" THEN reply[r] ELSE Error("lost")]
    /\ UNCHANGED <<clock, disk, cache, floor, served>>

TaskStep(t) ==
    \/ Fit(t) \/ FitFails(t) \/ Dump(t) \/ OpenManifest(t) \/ WriteManifest(t)
    \/ SaveFails(t)
ReaderStep(r) == CacheHit(r) \/ CacheMiss(r) \/ StoreForecast(r) \/ ForecastFails(r)

Next ==
    \/ \E t \in Tasks : Retrain(t) \/ TaskStep(t)
    \/ \E r \in Readers :
        ReaderStep(r) \/ \E want \in Kinds \cup {AnyKind} : Ask(r, want)
    \/ \E c \in cache : Expire(c)
    \/ Crash

\* Threads and the event loop run, and calls to Redis return.
Fairness ==
    /\ \A t \in Tasks : WF_vars(TaskStep(t))
    /\ \A r \in Readers : WF_vars(ReaderStep(r))

Spec == Init /\ [][Next]_vars
FairSpec == Spec /\ Fairness

-----------------------------------------------------------------------------
TypeOK ==
    /\ clock \in 0 .. MaxSaves
    /\ pkl \in [Models -> {"none", "partial", "whole"}]
    /\ manifest \in [Models -> {"none", "partial", "whole"}]
    /\ cache \subseteq [key : Models, model : Models]
    /\ stage \in [Tasks -> {"idle", "fit", "dump", "hash", "write"}]
    /\ saving \in [Tasks -> [kind : Kinds, at : 0 .. MaxSaves] \cup {NoModel}]
    /\ \A t \in Tasks : stage[t] \in {"dump", "hash", "write"} => saving[t] \in Models
    /\ pc \in [Readers -> {"idle", "get", "set"}]
    /\ wanted \in [Readers -> Kinds \cup {AnyKind}]
    /\ ref \in [Readers -> Models \cup {NoModel}]
    /\ floor \in [Readers -> [Kinds -> 0 .. MaxSaves]]
    /\ reply \in [Readers ->
                     Models \cup {Error(c) : c \in {"none", "503", "500", "lost"}}]
    /\ served \in [Kinds -> 0 .. MaxSaves]
    /\ faults \in 0 .. MaxFaults
    /\ crashes \in 0 .. faults

\* A model a request has picked can be loaded: its artifact is whole and is
\* what the manifest hashed, whatever save was under way or died half-way.
PickedIsLoadable ==
    \A r \in Readers : pc[r] # "idle" => Whole(ref[r])

\* Why: a manifest is opened when its artifact is whole, and no save ever
\* touches the files of another one, finished or not.
Saving(t) == stage[t] \in {"dump", "hash", "write"}
ManifestComesLast == \A m \in Models : manifest[m] # "none" => pkl[m] = "whole"
StampsAreNew == \A m \in Models : m.at > clock => pkl[m] = "none"
SavesApart ==
    \A t, u \in Tasks : Saving(t) /\ Saving(u) /\ t # u => saving[t] # saving[u]
SaveInOrder ==
    \A t \in Tasks :
        /\ stage[t] # "idle" => saving[t].kind \in Kinds
        /\ Saving(t) => saving[t].at <= clock /\ manifest[saving[t]] # "whole"
        /\ stage[t] = "dump" => manifest[saving[t]] = "none"
        /\ stage[t] \in {"hash", "write"} => pkl[saving[t]] = "whole"

\* Why no request is behind: what it picked is as new as what was saved when it
\* came, the cache gives no older model than its key names, and the model
\* served last is still on the disk.
PickedIsFresh ==
    \A r \in Readers :
        pc[r] # "idle" => ref[r] \in Models /\ ref[r].at >= floor[r][ref[r].kind]
CacheNotBehind == \A c \in cache : c.model.kind = c.key.kind /\ c.model.at >= c.key.at
ServedIsSaved ==
    \A k \in Kinds : served[k] = 0 \/ \E m \in Models : m.kind = k /\ m.at = served[k] /\ Whole(m)

\* No interleaving of saves, crashes and requests leads a request to half a model.
IInv ==
    /\ TypeOK /\ PickedIsLoadable
    /\ ManifestComesLast /\ StampsAreNew /\ SavesApart /\ SaveInOrder
    /\ PickedIsFresh /\ CacheNotBehind /\ ServedIsSaved

\* Requests for one kind never step back to an older model, even when saves
\* overlap and the later stamp is written first.
ServedNeverOlder == [][\A k \in Kinds : served'[k] >= served[k]]_vars

\* A retrained model takes over at once: a forecast is of a model at least as
\* new as every model of its kind that was saved when the request came, so no
\* cached forecast outlives its model (the cache key holds fitted_at).
ForecastIsFresh ==
    \A r \in Readers :
        reply[r] \in Models => reply[r].at >= floor[r][reply[r].kind]

\* Every retrain of a pair reaches ARIMA, though Prophet fails to fit or its save
\* fails half-way, and whatever failed before: only a crash of the process while
\* Prophet is fitted and saved ends the pair (_retrain_pair catches per kind).
ArimaGetsItsTurn ==
    \A t \in Tasks, c \in 0 .. MaxFaults :
        (saving[t].kind = "prophet" /\ crashes = c) ~>
            (saving[t].kind = "arima" \/ crashes > c)
=============================================================================
