--------------------------- MODULE BackendGuesser ---------------------------
(***************************************************************************)
(* BackendGuesser (backend_guess.go): the cache of what llama-swap lists   *)
(* and runs, which routes /sdcpp requests (FindRunningSDProxy) and tells   *)
(* llama.cpp models from others (IsLlamaCppModel).  Requests share the     *)
(* cache under an RWMutex; the one that finds it expired refreshes it with *)
(* the lock held, by two fetches that may fail.                            *)
(*                                                                         *)
(* The clock counts intervals.  A fetch ends within Timeout of them, the   *)
(* http.Client's limit; what a request does apart from waiting, for the    *)
(* lock or for llama-swap, takes no time.                                  *)
(***************************************************************************)
EXTENDS Integers

CONSTANTS Request,   \* the requests, one lookup each
          Model,     \* the models of llama-swap
          TypeOf,    \* model_type of each: "sd", "llm" or "" (not given)
          Asks,      \* Asks[r]: the model r asks the type of, or FindSD
          FindSD,    \* not a model: r looks for a running sd model
          Nothing,   \* no request
          TTL,       \* 2 s in the code
          Timeout,   \* 5 s in the code
          Loads,     \* bound: the models that llama-swap loads at some time
          MaxClock   \* bound on the clock

\* What a request is told when it is not a model.
Answer == {"none", "error", "not found", "unresolved", "other", "llama.cpp"}

ASSUME GuesserAssumption ==
  /\ TypeOf \in [Model -> {"sd", "llm", ""}]
  /\ FindSD \notin Model /\ Nothing \notin Request
  /\ Model \intersect Answer = {}
  /\ Asks \in [Request -> Model \union {FindSD}] /\ Loads \subseteq Model
  /\ TTL \in Nat \ {0} /\ Timeout \in Nat /\ MaxClock \in Nat

VARIABLES
  clock,
  running,    \* the models llama-swap has loaded
  pc,         \* pc[r]: where r is
  now,        \* now[r]: the time r read when it called ensureFresh
  sent,       \* sent[r]: when it sent its current fetch (0 when it has none)
  types,      \* types[r]: the models its fetch of /v1/models returned, until
  fetched,    \* stored, and fetched[r]: those its fetch of /running returned
  answer,     \* answer[r]: what r was told
  lock,       \* the request that holds mu for writing, or Nothing
  listed,     \* modelTypeByID: the models it has types of
  cached,     \* runningProxyByID: the models it has proxies of
  expiresAt,
  ran, idle   \* history: ran[t], the sd models that ran at some moment of
              \* interval t, and idle[t], those that did not run, or that a
              \* reply of llama-swap left out

cache == <<listed, cached, expiresAt>>
world == <<clock, running, ran, idle>>
vars == <<world, pc, now, sent, types, fetched, answer, lock, cache>>

SD == {m \in Model : TypeOf[m] = "sd"}

Init ==
  /\ clock = 0
  /\ running \in SUBSET Loads
  /\ pc = [r \in Request |-> "idle"]
  /\ now = [r \in Request |-> 0]
  /\ sent = [r \in Request |-> 0]
  /\ types = [r \in Request |-> {}]
  /\ fetched = [r \in Request |-> {}]
  /\ answer = [r \in Request |-> "none"]
  /\ lock = Nothing
  /\ listed = {} /\ cached = {} /\ expiresAt = 0
  /\ ran = [t \in 0..MaxClock |-> IF t = 0 THEN SD \intersect running ELSE {}]
  /\ idle = [t \in 0..MaxClock |-> IF t = 0 THEN SD \ running ELSE {}]

-----------------------------------------------------------------------------
(***************************************************************************)
(* llama-swap, and time.                                                   *)
(***************************************************************************)

\* llama-swap loads or unloads a model.
Swap(m) ==
  /\ running' = IF m \in running THEN running \ {m} ELSE running \union {m}
  /\ ran' = [ran EXCEPT ![clock] = @ \union (SD \intersect running')]
  /\ idle' = [idle EXCEPT ![clock] = @ \union (SD \ running')]
  /\ UNCHANGED <<clock, pc, now, sent, types, fetched, answer, lock, cache>>

Fetching(r) == pc[r] \in {"models", "running", "store"}

Tick ==
  /\ clock < MaxClock
  /\ \A r \in Request : Fetching(r) => clock - sent[r] < Timeout
  /\ clock' = clock + 1
  /\ ran' = [ran EXCEPT ![clock'] = SD \intersect running]
  /\ idle' = [idle EXCEPT ![clock'] = SD \ running]
  /\ UNCHANGED <<running, pc, now, sent, types, fetched, answer, lock, cache>>

-----------------------------------------------------------------------------
(***************************************************************************)
(* ensureFresh.                                                            *)
(***************************************************************************)

\* The request comes in and reads the clock ...
Arrive(r) ==
  /\ pc[r] = "idle"
  /\ now' = [now EXCEPT ![r] = clock]
  /\ pc' = [pc EXCEPT ![r] = "check"]
  /\ UNCHANGED <<world, sent, types, fetched, answer, lock, cache>>

\* Mutant: an entry that expires now is taken for fresh.
MutantCheck(r) ==
  /\ pc[r] = "check" /\ lock = Nothing
  /\ pc' = [pc EXCEPT ![r] = IF now[r] <= expiresAt THEN "look" ELSE "lock"]
  /\ UNCHANGED <<world, now, sent, types, fetched, answer, lock, cache>>

\* ... compares it with expiresAt under the read lock
Check(r) ==
  /\ pc[r] = "check" /\ lock = Nothing
  /\ pc' = [pc EXCEPT ![r] = IF now[r] < expiresAt THEN "look" ELSE "lock"]
  /\ UNCHANGED <<world, now, sent, types, fetched, answer, lock, cache>>

\* and again under the write lock, as another request may have refreshed the
\* cache by then.
Lock(r) ==
  /\ pc[r] = "lock" /\ lock = Nothing
  /\ IF now[r] < expiresAt
     THEN /\ pc' = [pc EXCEPT ![r] = "look"]
          /\ UNCHANGED <<lock, sent>>
     ELSE /\ pc' = [pc EXCEPT ![r] = "models"]
          /\ lock' = r
          /\ sent' = [sent EXCEPT ![r] = clock]
  /\ UNCHANGED <<world, now, types, fetched, answer, cache>>

\* What r has fetched is gone.
Forget(r) ==
  /\ sent' = [sent EXCEPT ![r] = 0]
  /\ types' = [types EXCEPT ![r] = {}]
  /\ fetched' = [fetched EXCEPT ![r] = {}]

\* Mutant: a failed refresh counts as one.
MutantFetchFails(r) ==
  /\ Fetching(r)
  /\ answer' = [answer EXCEPT ![r] = "error"]
  /\ pc' = [pc EXCEPT ![r] = "done"]
  /\ lock' = Nothing
  /\ expiresAt' = clock + TTL
  /\ Forget(r)
  /\ UNCHANGED <<world, now, listed, cached>>

\* A fetch fails or times out: the lookup fails, the cache stays as it was.
FetchFails(r) ==
  /\ Fetching(r)
  /\ answer' = [answer EXCEPT ![r] = "error"]
  /\ pc' = [pc EXCEPT ![r] = "done"]
  /\ lock' = Nothing
  /\ Forget(r)
  /\ UNCHANGED <<world, now, cache>>

\* What a reply that should list the models in S lists: the status is not looked
\* at, and a JSON object that tells of an error has no list.
Reply(S) == {S, {}}

\* fetchModelTypes returns; fetchRunningProxies begins.
FetchModels(r) ==
  /\ pc[r] = "models"
  /\ \E reply \in Reply(Model) :
       /\ types' = [types EXCEPT ![r] = reply]
       /\ idle' = [idle EXCEPT ![clock] = @ \union (SD \ reply)]
  /\ pc' = [pc EXCEPT ![r] = "running"]
  /\ sent' = [sent EXCEPT ![r] = clock]
  /\ UNCHANGED <<clock, running, ran, now, fetched, answer, lock, cache>>

\* llama-swap answers fetchRunningProxies ...
FetchRunning(r) ==
  /\ pc[r] = "running"
  /\ \E reply \in Reply(running) :
       /\ fetched' = [fetched EXCEPT ![r] = reply]
       /\ idle' = [idle EXCEPT ![clock] = @ \union (SD \ reply)]
  /\ pc' = [pc EXCEPT ![r] = "store"]
  /\ UNCHANGED <<clock, running, ran, now, sent, types, answer, lock, cache>>

\* Mutant: the lock is given back only when the cache has changed.
MutantStore(r) ==
  /\ pc[r] = "store"
  /\ listed' = types[r] /\ cached' = fetched[r] /\ expiresAt' = clock + TTL
  /\ pc' = [pc EXCEPT ![r] = "look"]
  /\ lock' = IF fetched[r] = cached THEN lock ELSE Nothing
  /\ Forget(r)
  /\ UNCHANGED <<world, now, answer>>

\* ... and the answer is in: the cache changes as a whole.
Store(r) ==
  /\ pc[r] = "store"
  /\ listed' = types[r] /\ cached' = fetched[r] /\ expiresAt' = clock + TTL
  /\ pc' = [pc EXCEPT ![r] = "look"]
  /\ lock' = Nothing
  /\ Forget(r)
  /\ UNCHANGED <<world, now, answer>>

-----------------------------------------------------------------------------
(***************************************************************************)
(* The lookups, under the read lock.                                       *)
(***************************************************************************)

\* The models FindRunningSDProxy may return; the map's order picks one.
RunningSD == SD \intersect listed \intersect cached

\* classifyLlamaCppModelType.
Classify(m) ==
  CASE TypeOf[m] = "sd" -> "other"
    [] TypeOf[m] = "llm" -> "llama.cpp"
    [] TypeOf[m] = "" -> "unresolved"

Look(r) ==
  /\ pc[r] = "look" /\ lock = Nothing
  /\ \E a \in IF Asks[r] # FindSD
              THEN {IF Asks[r] \in listed THEN Classify(Asks[r]) ELSE "unresolved"}
              ELSE IF RunningSD = {} THEN {"not found"} ELSE RunningSD :
       answer' = [answer EXCEPT ![r] = a]
  /\ pc' = [pc EXCEPT ![r] = "done"]
  /\ UNCHANGED <<world, now, sent, types, fetched, lock, cache>>

-----------------------------------------------------------------------------
Step(r) ==
  \/ Check(r) \/ Lock(r) \/ FetchModels(r) \/ FetchRunning(r) \/ FetchFails(r)
  \/ Store(r) \/ Look(r)

Next == \/ \E r \in Request : Arrive(r) \/ Step(r)
        \/ \E m \in Loads : Swap(m)
        \/ Tick

Spec == Init /\ [][Next]_vars

\* A request that came in goes on whenever it can: the lock is given back and
\* fetches end, by an answer or by the timeout.
FairSpec == Spec /\ \A r \in Request : WF_vars(Step(r))

-----------------------------------------------------------------------------
\* The lock is held by the request that fetches.
TypeOK ==
  /\ clock \in 0..MaxClock
  /\ running \subseteq Model
  /\ pc \in [Request -> {"idle", "check", "lock", "models", "running", "store",
                         "look", "done"}]
  /\ now \in [Request -> 0..MaxClock]
  /\ sent \in [Request -> 0..MaxClock]
  /\ types \in [Request -> SUBSET Model] /\ fetched \in [Request -> SUBSET Model]
  /\ answer \in [Request -> Answer \union Model]
  /\ lock \in Request \union {Nothing}
  /\ \A r \in Request : lock = r <=> Fetching(r)
  /\ listed \subseteq Model /\ cached \subseteq Model
  /\ expiresAt \in 0..MaxClock + TTL
  /\ ran \in [0..MaxClock -> SUBSET SD]
  /\ idle \in [0..MaxClock -> SUBSET SD]

\* The intervals an answer to r may be about.
Window(r) == {t \in 0..clock : t > now[r] - TTL - Timeout}

\* A request is routed to an sd model that was running at some moment since
\* TTL + Timeout before it came, however refreshes of other requests fail,
\* are slow or overtake it. (ensureFresh, FindRunningSDProxy)
RoutedToRunning ==
  \A r \in Request : answer[r] \in Model =>
    \E t \in Window(r) : answer[r] \in ran[t]

\* "no running sd model found" is never told while one ran all that time, and
\* was in every reply of llama-swap.  (FindRunningSDProxy)
NotFoundIsTrue ==
  \A r \in Request : answer[r] = "not found" =>
    \A m \in SD : \E t \in Window(r) : m \in idle[t]

\* Every request gets an answer, also behind others whose fetches fail one
\* after the other. (ensureFresh)
RequestsEnd == \A r \in Request : pc[r] = "check" ~> pc[r] = "done"
=============================================================================
