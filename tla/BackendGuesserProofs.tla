------------------------ MODULE BackendGuesserProofs ------------------------
(***************************************************************************)
(* Proofs about BackendGuesser for any requests, models, TTL and timeout:  *)
(* its type invariant, and that an answer is about an interval no older    *)
(* than the TTL and the timeout allow.                                     *)
(***************************************************************************)
EXTENDS BackendGuesser, TLAPS

-----------------------------------------------------------------------------
(***************************************************************************)
(* Types.                                                                  *)
(***************************************************************************)

\* The constants: the limits are numbers, and names are kept apart.
LEMMA Limits ==
  TTL \in Nat \ {0} /\ Timeout \in Nat /\ MaxClock \in Nat
BY GuesserAssumption

\* Names of models are none of the other answers.
LEMMA Names ==
  Nothing \notin Request /\ Asks \in [Request -> Model \union {FindSD}]
BY GuesserAssumption

\* What a lookup answers: an sd model that is listed and cached, that there is
\* none, or the type of the model asked for.
LEMMA LookAnswers ==
  ASSUME TypeOK, NEW r \in Request, Look(r)
  PROVE  \E a \in Answer \union Model :
           /\ answer' = [answer EXCEPT ![r] = a]
           /\ a \in Model => a \in RunningSD
           /\ a = "not found" => RunningSD = {}
<1> USE GuesserAssumption
<1>1. CASE Asks[r] # FindSD
  <2>1. Asks[r] \in Model
    BY <1>1
  <2>2. Classify(Asks[r]) \in {"other", "llama.cpp", "unresolved"}
    BY <2>1 DEF Classify
  <2>3. PICK a \in {IF Asks[r] \in listed THEN Classify(Asks[r]) ELSE "unresolved"} :
          answer' = [answer EXCEPT ![r] = a]
    BY <1>1 DEF Look
  <2>4. a \in {"other", "llama.cpp", "unresolved"}
    BY <2>2, <2>3
  <2>5. a \in Answer /\ a \notin Model /\ a # "not found"
    BY <2>4 DEF Answer
  <2> QED BY <2>3, <2>5
<1>2. CASE Asks[r] = FindSD
  <2>1. PICK a \in IF RunningSD = {} THEN {"not found"} ELSE RunningSD :
          answer' = [answer EXCEPT ![r] = a]
    BY <1>2 DEF Look
  <2>2. CASE RunningSD = {}
    <3>1. a = "not found" /\ a \in Answer
      BY <2>1, <2>2 DEF Answer
    <3> QED BY <2>1, <2>2, <3>1
  <2>3. CASE RunningSD # {}
    <3>1. a \in RunningSD /\ a \in Model
      BY <2>1, <2>3 DEF RunningSD, SD
    <3>2. a # "not found"
      BY <3>1 DEF Answer
    <3> QED BY <2>1, <3>1, <3>2
  <2> QED BY <2>2, <2>3
<1> QED BY <1>1, <1>2

\* TypeOK holds initially.
LEMMA TypeInit == Init => TypeOK
<1> SUFFICES ASSUME Init PROVE TypeOK
  OBVIOUS
<1> USE Limits, Names
<1>1. ran \in [0..MaxClock -> SUBSET SD] /\ idle \in [0..MaxClock -> SUBSET SD]
  BY DEF Init, SD
<1>2. 0 \in 0..MaxClock /\ 0 \in 0..MaxClock + TTL
  OBVIOUS
<1>3. \A r \in Request : ~Fetching(r) /\ lock # r
  BY DEF Init, Fetching
<1> QED BY <1>1, <1>2, <1>3, GuesserAssumption DEF Init, TypeOK, Answer

\* Every step keeps TypeOK.
LEMMA TypeStep == TypeOK /\ [Next]_vars => TypeOK'
<1> SUFFICES ASSUME TypeOK, [Next]_vars PROVE TypeOK'
  OBVIOUS
<1> USE Limits, Names
<1>1. ASSUME NEW r \in Request, Arrive(r) \/ Check(r)
      PROVE  TypeOK'
  <2>1. UNCHANGED <<world, sent, types, fetched, answer, lock, cache>>
    BY <1>1 DEF Arrive, Check
  <2>2. \A q \in Request : Fetching(q)' <=> Fetching(q)
    BY <1>1 DEF TypeOK, Arrive, Check, Fetching
  <2>3. pc' \in [Request -> {"idle", "check", "lock", "models", "running", "store",
                             "look", "done"}]
    BY <1>1 DEF TypeOK, Arrive, Check
  <2>4. now' \in [Request -> 0..MaxClock]
    <3>1. now' = now \/ now' = [now EXCEPT ![r] = clock]
      BY <1>1 DEF Arrive, Check
    <3> QED BY <3>1 DEF TypeOK
  <2> QED BY <2>1, <2>2, <2>3, <2>4 DEF TypeOK, world, cache
<1>2. ASSUME NEW r \in Request, Lock(r) PROVE TypeOK'
  <2>1. UNCHANGED <<world, now, types, fetched, answer, cache>> /\ lock = Nothing
    BY <1>2 DEF Lock
  <2>2. pc' \in [Request -> {"idle", "check", "lock", "models", "running", "store",
                             "look", "done"}]
    BY <1>2 DEF TypeOK, Lock
  <2>3. sent' \in [Request -> 0..MaxClock] /\ lock' \in Request \union {Nothing}
    BY <1>2 DEF TypeOK, Lock
  <2>4. \A q \in Request : lock' = q <=> Fetching(q)'
    <3>1. \A q \in Request : ~Fetching(q)
      BY <2>1 DEF TypeOK
    <3> QED BY <1>2, <3>1 DEF TypeOK, Lock, Fetching
  <2> QED BY <2>1, <2>2, <2>3, <2>4 DEF TypeOK, world, cache
<1>3. ASSUME NEW r \in Request, FetchModels(r) \/ FetchRunning(r) PROVE TypeOK'
  <2>1. UNCHANGED <<clock, running, ran, now, answer, lock, cache>>
    BY <1>3 DEF FetchModels, FetchRunning
  <2>2. \A q \in Request : Fetching(q)' <=> Fetching(q)
    BY <1>3 DEF TypeOK, FetchModels, FetchRunning, Fetching
  <2>3. pc' \in [Request -> {"idle", "check", "lock", "models", "running", "store",
                             "look", "done"}]
    BY <1>3 DEF TypeOK, FetchModels, FetchRunning
  <2>4. PICK reply \in SUBSET Model :
          /\ idle' = [idle EXCEPT ![clock] = @ \union (SD \ reply)]
          /\ types' = types \/ types' = [types EXCEPT ![r] = reply]
          /\ fetched' = fetched \/ fetched' = [fetched EXCEPT ![r] = reply]
          /\ sent' = sent \/ sent' = [sent EXCEPT ![r] = clock]
    <3>1. Reply(Model) \subseteq SUBSET Model /\ Reply(running) \subseteq SUBSET Model
      BY DEF TypeOK, Reply
    <3>2. CASE FetchModels(r)
      <4>1. PICK reply \in Reply(Model) :
              /\ types' = [types EXCEPT ![r] = reply]
              /\ idle' = [idle EXCEPT ![clock] = @ \union (SD \ reply)]
        BY <3>2 DEF FetchModels
      <4>2. sent' = [sent EXCEPT ![r] = clock] /\ fetched' = fetched
        BY <3>2 DEF FetchModels
      <4> QED BY <3>1, <4>1, <4>2
    <3>3. CASE FetchRunning(r)
      <4>1. PICK reply \in Reply(running) :
              /\ fetched' = [fetched EXCEPT ![r] = reply]
              /\ idle' = [idle EXCEPT ![clock] = @ \union (SD \ reply)]
        BY <3>3 DEF FetchRunning
      <4>2. sent' = sent /\ types' = types
        BY <3>3 DEF FetchRunning
      <4> QED BY <3>1, <4>1, <4>2
    <3> QED BY <1>3, <3>2, <3>3
  <2>5. /\ types' \in [Request -> SUBSET Model] /\ fetched' \in [Request -> SUBSET Model]
        /\ sent' \in [Request -> 0..MaxClock]
    <3>1. types' \in [Request -> SUBSET Model]
      BY <2>4 DEF TypeOK
    <3>2. fetched' \in [Request -> SUBSET Model]
      BY <2>4 DEF TypeOK
    <3>3. sent' \in [Request -> 0..MaxClock]
      BY <2>4 DEF TypeOK
    <3> QED BY <3>1, <3>2, <3>3
  <2>6. idle' \in [0..MaxClock -> SUBSET SD]
    BY <2>4 DEF TypeOK
  <2> QED BY <2>1, <2>2, <2>3, <2>5, <2>6 DEF TypeOK, cache
<1>4. ASSUME NEW r \in Request, FetchFails(r) \/ Store(r) PROVE TypeOK'
  <2>1. /\ UNCHANGED <<world, now>> /\ Fetching(r)
        /\ lock' = Nothing /\ pc'[r] \in {"look", "done"}
        /\ \A q \in Request \ {r} : pc'[q] = pc[q]
    BY <1>4 DEF TypeOK, FetchFails, Store, Fetching
  <2>2. \A q \in Request : lock' = q <=> Fetching(q)'
    <3>1. \A q \in Request \ {r} : ~Fetching(q)
      BY <2>1 DEF TypeOK
    <3> QED BY <2>1, <3>1 DEF Fetching
  <2>3. /\ pc' \in [Request -> {"idle", "check", "lock", "models", "running",
                                "store", "look", "done"}]
        /\ sent' = [sent EXCEPT ![r] = 0] /\ fetched' = [fetched EXCEPT ![r] = {}]
        /\ types' = [types EXCEPT ![r] = {}]
    BY <1>4 DEF TypeOK, FetchFails, Store, Forget
  <2>4. answer' \in [Request -> Answer \union Model]
    <3>1. "error" \in Answer
      BY DEF Answer
    <3> QED BY <1>4, <3>1 DEF TypeOK, FetchFails, Store
  <2>5. /\ sent' \in [Request -> 0..MaxClock] /\ fetched' \in [Request -> SUBSET Model]
        /\ types' \in [Request -> SUBSET Model]
    BY <2>3 DEF TypeOK
  <2>6. listed' \subseteq Model /\ cached' \subseteq Model
    BY <1>4 DEF TypeOK, FetchFails, Store, cache
  <2>7. expiresAt' \in 0..MaxClock + TTL
    BY <1>4 DEF TypeOK, FetchFails, Store, cache
  <2> QED BY <2>1, <2>2, <2>3, <2>4, <2>5, <2>6, <2>7 DEF TypeOK, world
<1>5. ASSUME NEW r \in Request, Look(r) PROVE TypeOK'
  <2>1. answer' \in [Request -> Answer \union Model]
    BY <1>5, LookAnswers DEF TypeOK
  <2>2. \A q \in Request : Fetching(q)' <=> Fetching(q)
    BY <1>5 DEF TypeOK, Look, Fetching
  <2> QED BY <1>5, <2>1, <2>2 DEF TypeOK, Look, world, cache
<1>6. ASSUME NEW m \in Model, Swap(m) PROVE TypeOK'
  <2>1. running' \subseteq Model
    BY <1>6 DEF TypeOK, Swap
  <2>2. ran' \in [0..MaxClock -> SUBSET SD] /\ idle' \in [0..MaxClock -> SUBSET SD]
    BY <1>6 DEF TypeOK, Swap
  <2> QED BY <1>6, <2>1, <2>2 DEF TypeOK, Swap, Fetching, cache
<1>7. CASE Tick
  <2>1. clock' \in 0..MaxClock
    BY <1>7 DEF TypeOK, Tick
  <2>2. ran' \in [0..MaxClock -> SUBSET SD] /\ idle' \in [0..MaxClock -> SUBSET SD]
    BY <1>7, <2>1 DEF TypeOK, Tick
  <2> QED BY <1>7, <2>1, <2>2 DEF TypeOK, Tick, Fetching, cache
<1>8. CASE UNCHANGED vars
  BY <1>8 DEF TypeOK, vars, world, cache, Fetching
<1> QED BY <1>1, <1>2, <1>3, <1>4, <1>5, <1>6, <1>7, <1>8, GuesserAssumption DEF Next, Step

\* Every variable keeps its type, and the lock is held by the request that
\* fetches and by no other. (ensureFresh)
THEOREM TypeCorrect == Spec => []TypeOK
BY TypeInit, TypeStep, PTL DEF Spec

-----------------------------------------------------------------------------
(***************************************************************************)
(* What the cache says was so not long ago.                                *)
(***************************************************************************)

\* F says, of every sd model, whether it ran at a moment of an interval since
\* lo, the same for all of them, or was left out of a reply then.
SampledSince(F, lo) ==
  \E t \in 0..clock :
    t >= lo /\ SD \intersect F \subseteq ran[t] /\ SD \ F \subseteq idle[t]

\* A fetch in progress has not timed out, and what it was answered was so: the
\* types are all, or none of them since the fetch of /running began.
FetchInTime(r) ==
  /\ now[r] <= clock /\ sent[r] <= clock
  /\ Fetching(r) => clock - sent[r] <= Timeout
  /\ pc[r] = "running" => SD \ types[r] \subseteq idle[sent[r]]
  /\ pc[r] \in {"running", "store"} => types[r] = Model \/ types[r] = {}
  /\ pc[r] = "store" => SampledSince(types[r] \intersect fetched[r], sent[r])

\* A request looks up a cache that was fresh when it came in, also when others
\* have refreshed it since.
LooksFresh(r) == pc[r] = "look" => now[r] < expiresAt

\* What r was told, if anything, was so in its window.
Told(r) ==
  /\ pc[r] # "done" => answer[r] = "none"
  /\ answer[r] \in Model => \E t \in Window(r) : answer[r] \in ran[t]
  /\ answer[r] = "not found" => \A m \in SD : \E t \in Window(r) : m \in idle[t]

Served(r) == FetchInTime(r) /\ LooksFresh(r) /\ Told(r)

\* The history is that of llama-swap.
Witnessed == SD \intersect running \subseteq ran[clock] /\ SD \ running \subseteq idle[clock]

\* The cache was true at a moment that its expiry bounds from below.
CacheIsSample ==
  /\ expiresAt <= clock + TTL
  /\ expiresAt > 0 =>
       SampledSince(listed \intersect cached, expiresAt - TTL - Timeout)

Timely == Witnessed /\ CacheIsSample /\ \A r \in Request : Served(r)

\* What the world adds to its history contradicts no sample.
LEMMA SampleStays ==
  ASSUME TypeOK, TypeOK', clock' >= clock,
         \A t \in 0..clock : ran[t] \subseteq ran'[t] /\ idle[t] \subseteq idle'[t],
         NEW F, NEW lo \in Int, SampledSince(F, lo)
  PROVE  \E t \in 0..clock' :
           t >= lo /\ SD \intersect F \subseteq ran'[t] /\ SD \ F \subseteq idle'[t]
<1>1. PICK t \in 0..clock :
        t >= lo /\ SD \intersect F \subseteq ran[t] /\ SD \ F \subseteq idle[t]
  BY DEF SampledSince
<1>2. t \in 0..clock'
  BY DEF TypeOK
<1>3. SD \intersect F \subseteq ran'[t] /\ SD \ F \subseteq idle'[t]
  BY <1>1
<1> QED BY <1>1, <1>2, <1>3

\* A fetch that is under way, with the same types and proxies, stays in time.
LEMMA FetchStays ==
  ASSUME TypeOK, TypeOK', clock' >= clock,
         \A t \in 0..clock : ran[t] \subseteq ran'[t] /\ idle[t] \subseteq idle'[t],
         NEW r \in Request, FetchInTime(r), Fetching(r) => clock' - sent[r] <= Timeout,
         pc'[r] = pc[r], now'[r] = now[r], sent'[r] = sent[r], types'[r] = types[r],
         fetched'[r] = fetched[r]
  PROVE  FetchInTime(r)'
<1>1. clock \in Nat /\ clock' \in Nat /\ now[r] \in Nat /\ sent[r] \in Nat
  BY DEF TypeOK
<1> DEFINE F == types[r] \intersect fetched[r]
<1>2. pc[r] = "store" => SampledSince(F, sent[r])
  BY DEF FetchInTime
<1> HIDE DEF F
<1>3. pc[r] = "store" =>
        \E t \in 0..clock' :
          t >= sent[r] /\ SD \intersect F \subseteq ran'[t] /\ SD \ F \subseteq idle'[t]
  <2>1. sent[r] \in Int
    BY <1>1
  <2> QED BY <1>2, <2>1, SampleStays
<1>4. pc[r] = "store" => SampledSince(types[r] \intersect fetched[r], sent[r])'
  BY <1>3 DEF SampledSince, F
<1>5. pc[r] = "running" => SD \ types[r] \subseteq idle'[sent[r]]
  <2>1. sent[r] \in 0..clock
    BY <1>1 DEF FetchInTime
  <2> QED BY <2>1 DEF FetchInTime
<1> QED BY <1>1, <1>4, <1>5 DEF FetchInTime, Fetching

\* What was told stays told, about a window that only grows.
LEMMA ToldStays ==
  ASSUME TypeOK, TypeOK', clock' >= clock,
         \A t \in 0..clock : ran[t] \subseteq ran'[t] /\ idle[t] \subseteq idle'[t],
         NEW r \in Request, Told(r), now'[r] = now[r], answer'[r] = answer[r],
         pc'[r] = pc[r] \/ pc[r] # "done"
  PROVE  Told(r)'
<1>1. \A t \in Window(r) : t \in 0..clock /\ t \in Window(r)'
  BY DEF TypeOK, Window
<1>2. answer[r] \in Model => \E t \in Window(r)' : answer[r] \in ran'[t]
  BY <1>1 DEF Told
<1>3. answer[r] = "not found" => \A m \in SD : \E t \in Window(r)' : m \in idle'[t]
  BY <1>1 DEF Told
<1>4. pc'[r] # "done" => answer'[r] = "none"
  BY DEF Told
<1> QED BY <1>2, <1>3, <1>4 DEF Told, SD

\* Arithmetic that is used below.
LEMMA Later ==
  ASSUME NEW a \in Nat, NEW b \in Nat, NEW c \in Nat, b >= a
  PROVE  a + c <= b + c /\ a + c \in Nat /\ b + c \in Nat
OBVIOUS

\* At most is transitive.
LEMMA AtMost ==
  ASSUME NEW a \in Nat, NEW b \in Nat, NEW c \in Nat, a <= b, b <= c
  PROVE  a <= c
OBVIOUS

\* The cache stays true of the past.
LEMMA CacheKept ==
  ASSUME TypeOK, TypeOK', Timely, clock' >= clock,
         \A t \in 0..clock : ran[t] \subseteq ran'[t] /\ idle[t] \subseteq idle'[t],
         UNCHANGED cache
  PROVE  CacheIsSample'
<1> DEFINE F == listed \intersect cached
           lo == expiresAt - TTL - Timeout
<1>1. /\ CacheIsSample /\ lo \in Int /\ clock' >= clock
      /\ clock \in Nat /\ clock' \in Nat /\ expiresAt \in Nat
  BY Limits DEF Timely, TypeOK
<1>2. listed' = listed /\ cached' = cached /\ expiresAt' = expiresAt
  BY DEF cache
<1>3. expiresAt > 0 => SampledSince(F, lo)
  BY <1>1 DEF CacheIsSample
<1> HIDE DEF F, lo
<1>4. expiresAt > 0 =>
        \E t \in 0..clock' :
          t >= lo /\ SD \intersect F \subseteq ran'[t] /\ SD \ F \subseteq idle'[t]
  BY <1>1, <1>3, SampleStays
<1>5. expiresAt' <= clock' + TTL
  <2>1. expiresAt <= clock + TTL
    BY <1>1, Zenon DEF CacheIsSample
  <2>2. TTL \in Nat
    BY Limits
  <2>3. clock + TTL <= clock' + TTL /\ clock + TTL \in Nat /\ clock' + TTL \in Nat
    BY <1>1, <2>2, Later
  <2>4. expiresAt <= clock' + TTL
    BY <1>1, <2>1, <2>3, AtMost
  <2> QED BY <1>2, <2>4, Zenon
<1>6. expiresAt' > 0 => SampledSince(listed \intersect cached, expiresAt - TTL - Timeout)'
  <2>1. F = listed' \intersect cached' /\ lo = expiresAt' - TTL - Timeout
    BY <1>2 DEF F, lo
  <2>2. (\E t \in 0..clock' :
           t >= lo /\ SD \intersect F \subseteq ran'[t] /\ SD \ F \subseteq idle'[t])
        => SampledSince(listed \intersect cached, expiresAt - TTL - Timeout)'
    BY <2>1, Zenon DEF SampledSince, SD
  <2> QED BY <1>2, <1>4, <2>2
<1> QED BY <1>5, <1>6 DEF CacheIsSample

\* Timely holds initially.
LEMMA TimelyInit == Init => Timely
<1> SUFFICES ASSUME Init PROVE Timely
  OBVIOUS
<1> USE Limits
<1>1. Witnessed /\ CacheIsSample
  BY DEF Init, Witnessed, CacheIsSample
<1>2. "none" \notin Model
  BY GuesserAssumption DEF Answer
<1>3. ASSUME NEW r \in Request PROVE Served(r)
  BY <1>2 DEF Init, Served, FetchInTime, LooksFresh, Told, Fetching
<1> QED BY <1>1, <1>3 DEF Timely

-----------------------------------------------------------------------------
(***************************************************************************)
(* The steps of the requests.                                              *)
(***************************************************************************)

\* Only r moves, and the world does not; the history grows.
Moves(r) ==
  /\ UNCHANGED <<clock, running, ran>>
  /\ \A t \in 0..MaxClock : idle[t] \subseteq idle'[t]
  /\ \A q \in Request \ {r} :
       /\ pc'[q] = pc[q] /\ now'[q] = now[q] /\ sent'[q] = sent[q]
       /\ types'[q] = types[q] /\ fetched'[q] = fetched[q] /\ answer'[q] = answer[q]

\* A step of r leaves the world and the other requests as they are.
LEMMA StepMoves ==
  ASSUME TypeOK, NEW r \in Request, Arrive(r) \/ Step(r)
  PROVE  Moves(r)
<1>1. CASE Arrive(r) \/ Check(r) \/ Lock(r)
  BY <1>1 DEF TypeOK, Moves, Arrive, Check, Lock, world
<1>2. CASE FetchFails(r) \/ Store(r)
  BY <1>2 DEF TypeOK, Moves, FetchFails, Store, Forget, world
<1>4. CASE FetchModels(r)
  <2>1. PICK reply \in Reply(Model) :
          /\ types' = [types EXCEPT ![r] = reply]
          /\ idle' = [idle EXCEPT ![clock] = @ \union (SD \ reply)]
    BY <1>4 DEF FetchModels
  <2>2. \A t \in 0..MaxClock : idle[t] \subseteq idle'[t]
    BY <2>1 DEF TypeOK
  <2> QED BY <1>4, <2>1, <2>2 DEF TypeOK, Moves, FetchModels
<1>5. CASE FetchRunning(r)
  <2>1. PICK reply \in Reply(running) :
          /\ fetched' = [fetched EXCEPT ![r] = reply]
          /\ idle' = [idle EXCEPT ![clock] = @ \union (SD \ reply)]
    BY <1>5 DEF FetchRunning
  <2>2. \A t \in 0..MaxClock : idle[t] \subseteq idle'[t]
    BY <2>1 DEF TypeOK
  <2> QED BY <1>5, <2>1, <2>2 DEF TypeOK, Moves, FetchRunning
<1>3. CASE Look(r)
  <2>1. PICK a \in Answer \union Model : answer' = [answer EXCEPT ![r] = a]
    BY <1>3, LookAnswers
  <2> QED BY <1>3, <2>1 DEF TypeOK, Moves, Look, world
<1> QED BY <1>1, <1>2, <1>3, <1>4, <1>5 DEF Step

\* A request that is served well while the cache grows no older spoils nothing
\* for the others.
LEMMA OneServed ==
  ASSUME TypeOK, TypeOK', Timely, NEW r \in Request, Moves(r),
         expiresAt' >= expiresAt, CacheIsSample', Served(r)'
  PROVE  Timely'
<1>1. /\ UNCHANGED <<clock, running, ran>> /\ clock \in 0..MaxClock
      /\ \A t \in 0..clock : ran[t] \subseteq ran'[t] /\ idle[t] \subseteq idle'[t]
  BY Limits DEF Moves, TypeOK
<1>2. Witnessed'
  <2>1. clock \in 0..clock
    BY <1>1
  <2> QED BY <1>1, <2>1 DEF Timely, Witnessed
<1>3. ASSUME NEW q \in Request, q # r PROVE Served(q)'
  <2>1. /\ pc'[q] = pc[q] /\ now'[q] = now[q] /\ sent'[q] = sent[q]
        /\ types'[q] = types[q] /\ fetched'[q] = fetched[q] /\ answer'[q] = answer[q]
    BY <1>3 DEF Moves
  <2>2. FetchInTime(q) /\ LooksFresh(q) /\ Told(q)
    BY DEF Timely, Served
  <2>3. FetchInTime(q)'
    <3>1. clock' >= clock /\ (Fetching(q) => clock' - sent[q] <= Timeout)
      BY <1>1, <2>2 DEF FetchInTime
    <3> QED BY <1>1, <2>1, <2>2, <3>1, FetchStays
  <2>4. LooksFresh(q)'
    BY <2>1, <2>2 DEF LooksFresh, TypeOK
  <2>5. Told(q)'
    <3>1. clock' >= clock
      BY <1>1
    <3> QED BY <1>1, <2>1, <2>2, <3>1, ToldStays
  <2> QED BY <2>3, <2>4, <2>5 DEF Served
<1> QED BY <1>2, <1>3 DEF Timely

\* The steps of requests keep Timely.
LEMMA RequestKeepsTimely ==
  ASSUME TypeOK, TypeOK', Timely, NEW r \in Request, Arrive(r) \/ Step(r)
  PROVE  Timely'
<1> USE Limits
<1>1. /\ Moves(r) /\ UNCHANGED <<clock, running, ran>> /\ clock' >= clock
      /\ \A t \in 0..clock : ran[t] \subseteq ran'[t] /\ idle[t] \subseteq idle'[t]
  <2>1. Moves(r)
    BY StepMoves
  <2> QED BY <2>1 DEF Moves, TypeOK
<1>2. Served(r)
  BY DEF Timely
<1>3. /\ clock \in 0..MaxClock /\ now[r] \in 0..MaxClock /\ sent[r] \in 0..MaxClock
      /\ expiresAt \in Nat /\ expiresAt' \in Nat
  BY DEF TypeOK
\* What r was told is about the same window, unless it is told something now.
<1>4. ASSUME now'[r] = now[r], answer'[r] = answer[r], pc[r] # "done"
      PROVE  Told(r)'
  BY <1>1, <1>2, <1>4, ToldStays DEF Served
\* Nothing but Store changes the cache.
<1>5. ASSUME UNCHANGED cache, Served(r)' PROVE Timely'
  <2>1. CacheIsSample'
    BY <1>1, <1>5, CacheKept
  <2> QED BY <1>1, <1>3, <1>5, <2>1, OneServed DEF cache
<1>6. CASE Arrive(r)
  <2>1. /\ pc[r] = "idle" /\ pc'[r] = "check" /\ now'[r] = clock
        /\ UNCHANGED <<sent, types, fetched, answer, cache>>
    BY <1>6 DEF TypeOK, Arrive
  <2>2. answer[r] = "none" /\ "none" \notin Model
    BY <1>2, <2>1, GuesserAssumption DEF Served, Told, Answer
  <2>3. FetchInTime(r)' /\ LooksFresh(r)'
    BY <1>1, <1>2, <1>3, <2>1 DEF Served, FetchInTime, LooksFresh, Fetching
  <2>4. Told(r)'
    BY <2>1, <2>2 DEF Told
  <2> QED BY <1>5, <2>1, <2>3, <2>4 DEF Served
<1>7. CASE Check(r)
  <2>1. /\ pc[r] = "check"
        /\ pc'[r] = IF now[r] < expiresAt THEN "look" ELSE "lock"
        /\ UNCHANGED <<now, sent, types, fetched, answer, cache>>
    BY <1>7 DEF TypeOK, Check
  <2>2. FetchInTime(r)' /\ LooksFresh(r)'
    BY <1>1, <1>2, <1>3, <2>1
       DEF Served, FetchInTime, LooksFresh, Fetching, cache
  <2>3. Told(r)'
    BY <1>4, <2>1
  <2> QED BY <1>5, <2>1, <2>2, <2>3 DEF Served
<1>8. CASE Lock(r)
  <2>1. pc[r] = "lock" /\ UNCHANGED <<now, fetched, answer, cache>>
    BY <1>8 DEF Lock
  <2>2. \/ now[r] < expiresAt /\ pc'[r] = "look" /\ sent' = sent
        \/ pc'[r] = "models" /\ sent'[r] = clock
    BY <1>8 DEF TypeOK, Lock
  <2>3. FetchInTime(r)'
    BY <1>1, <1>2, <1>3, <2>1, <2>2 DEF Served, FetchInTime, Fetching
  <2>4. LooksFresh(r)'
    BY <1>3, <2>1, <2>2 DEF LooksFresh, cache
  <2>5. Told(r)'
    BY <1>4, <2>1
  <2> QED BY <1>5, <2>1, <2>3, <2>4, <2>5 DEF Served
<1>9. CASE FetchModels(r)
  <2>1. /\ pc[r] = "models" /\ pc'[r] = "running" /\ sent'[r] = clock
        /\ UNCHANGED <<now, fetched, answer, cache>>
    BY <1>9 DEF TypeOK, FetchModels
  <2>2. PICK reply \in Reply(Model) :
          /\ types' = [types EXCEPT ![r] = reply]
          /\ idle' = [idle EXCEPT ![clock] = @ \union (SD \ reply)]
    BY <1>9 DEF FetchModels
  <2>3. types'[r] = reply /\ SD \ reply \subseteq idle'[clock]
    BY <1>3, <2>2 DEF TypeOK
  <2>4. reply = Model \/ reply = {}
    BY DEF Reply
  <2>5. FetchInTime(r)' /\ LooksFresh(r)'
    BY <1>1, <1>2, <1>3, <2>1, <2>3, <2>4
       DEF Served, FetchInTime, LooksFresh, Fetching
  <2>6. Told(r)'
    BY <1>4, <2>1
  <2> QED BY <1>5, <2>1, <2>5, <2>6 DEF Served
<1>10. CASE FetchRunning(r)
  <2>1. /\ pc[r] = "running" /\ pc'[r] = "store"
        /\ UNCHANGED <<now, sent, types, answer, cache>>
    BY <1>10 DEF TypeOK, FetchRunning
  <2>2. PICK reply \in Reply(running) :
          /\ fetched' = [fetched EXCEPT ![r] = reply]
          /\ idle' = [idle EXCEPT ![clock] = @ \union (SD \ reply)]
    BY <1>10 DEF FetchRunning
  <2>3. fetched'[r] = reply /\ (reply = running \/ reply = {})
        /\ SD \ reply \subseteq idle'[clock]
    BY <1>3, <2>2 DEF TypeOK, Reply
  <2>4. /\ SD \intersect running \subseteq ran[clock]
        /\ types[r] = Model \/ types[r] = {}
        /\ SD \ types[r] \subseteq idle'[sent[r]]
    <3>1. sent[r] \in 0..clock
      BY <1>2, <1>3 DEF Served, FetchInTime
    <3> QED BY <1>1, <1>2, <2>1, <3>1 DEF Timely, Witnessed, Served, FetchInTime
  \* The sample is that of the reply, or of the types if there are none.
  <2>5. SampledSince(types[r] \intersect fetched[r], sent[r])'
    <3> DEFINE F == types[r] \intersect reply
               Holds(t) == t >= sent[r] /\ SD \intersect F \subseteq ran[t]
                           /\ SD \ F \subseteq idle'[t]
    <3>1. CASE types[r] = Model
      <4>1. F \subseteq running /\ SD \ F = SD \ reply
        BY <2>3, <3>1 DEF SD, TypeOK
      <4>2. clock \in 0..clock /\ Holds(clock)
        BY <1>2, <1>3, <2>3, <2>4, <4>1 DEF Served, FetchInTime
      <4> HIDE DEF F, Holds
      <4>3. \E t \in 0..clock : Holds(t)
        BY <4>2
      <4> QED BY <1>1, <2>1, <2>3, <4>3 DEF SampledSince, Holds, F
    <3>2. CASE types[r] = {}
      <4>1. F = {} /\ SD \ F = SD \ types[r]
        BY <3>2
      <4>2. sent[r] \in 0..clock /\ Holds(sent[r])
        BY <1>2, <1>3, <2>4, <4>1 DEF Served, FetchInTime
      <4> HIDE DEF F, Holds
      <4>3. \E t \in 0..clock : Holds(t)
        BY <4>2
      <4> QED BY <1>1, <2>1, <2>3, <4>3 DEF SampledSince, Holds, F
    <3> QED BY <2>4, <3>1, <3>2
  <2>6. FetchInTime(r)' /\ LooksFresh(r)'
    BY <1>1, <1>2, <1>3, <2>1, <2>4, <2>5
       DEF Served, FetchInTime, LooksFresh, Fetching
  <2>7. Told(r)'
    BY <1>4, <2>1
  <2> QED BY <1>5, <2>1, <2>6, <2>7 DEF Served
<1>11. CASE FetchFails(r)
  <2>1. /\ pc'[r] = "done" /\ answer'[r] = "error" /\ sent'[r] = 0
        /\ UNCHANGED <<now, cache>>
    BY <1>11 DEF TypeOK, FetchFails, Forget
  <2>2. FetchInTime(r)' /\ LooksFresh(r)'
    BY <1>1, <1>2, <1>3, <2>1
       DEF Served, FetchInTime, LooksFresh, Fetching
  <2>3. "error" \notin Model
    BY GuesserAssumption DEF Answer
  <2>4. Told(r)'
    BY <2>1, <2>3 DEF Told
  <2> QED BY <1>5, <2>1, <2>2, <2>4 DEF Served
<1>12. CASE Store(r)
  <2>1. /\ pc[r] = "store" /\ pc'[r] = "look" /\ sent'[r] = 0
        /\ listed' = types[r] /\ cached' = fetched[r] /\ expiresAt' = clock + TTL
        /\ UNCHANGED <<now, answer, idle>>
    BY <1>12 DEF TypeOK, Store, Forget, world
  <2>2. /\ SampledSince(types[r] \intersect fetched[r], sent[r])
        /\ clock - sent[r] <= Timeout /\ now[r] <= clock
    BY <1>2, <2>1 DEF Served, FetchInTime, Fetching
  \* The sample is no older than the fetch, and the fetch no older than Timeout.
  <2>3. SampledSince(types[r] \intersect fetched[r], clock + TTL - TTL - Timeout)
    BY <1>3, <2>2 DEF SampledSince
  <2>4. CacheIsSample'
    BY <1>1, <1>3, <2>1, <2>3 DEF CacheIsSample, SampledSince
  <2>5. expiresAt' >= expiresAt
    BY <1>3, <2>1 DEF Timely, CacheIsSample
  <2>6. FetchInTime(r)' /\ LooksFresh(r)'
    BY <1>1, <1>3, <2>1, <2>2 DEF FetchInTime, LooksFresh, Fetching
  <2>7. Told(r)'
    BY <1>4, <2>1
  <2> QED BY <1>1, <2>4, <2>5, <2>6, <2>7, OneServed DEF Served
<1>13. CASE Look(r)
  <2>1. /\ pc[r] = "look" /\ pc'[r] = "done"
        /\ UNCHANGED <<now, sent, types, fetched, cache, idle>>
    BY <1>13 DEF TypeOK, Look, world
  <2>2. PICK a \in Answer \union Model :
          /\ answer' = [answer EXCEPT ![r] = a]
          /\ a \in Model => a \in RunningSD
          /\ a = "not found" => RunningSD = {}
    BY <1>13, LookAnswers
  <2>3. answer'[r] = a
    BY <2>2 DEF TypeOK
  <2>4. now[r] < expiresAt
    BY <1>2, <2>1 DEF Served, LooksFresh
  <2>5. SampledSince(listed \intersect cached, expiresAt - TTL - Timeout)
    BY <1>3, <2>4 DEF Timely, CacheIsSample
  <2>6. PICK t \in 0..clock :
          /\ t >= expiresAt - TTL - Timeout
          /\ SD \intersect (listed \intersect cached) \subseteq ran[t]
          /\ SD \ (listed \intersect cached) \subseteq idle[t]
    BY <2>5 DEF SampledSince
  <2>7. t \in Window(r)
    BY <1>3, <2>4, <2>6 DEF Window
  <2>8. t \in Window(r)'
    BY <1>1, <2>1, <2>7 DEF Window
  <2>9. RunningSD = SD \intersect (listed \intersect cached)
    BY DEF RunningSD
  <2>10. a \in Model => a \in ran'[t]
    BY <1>1, <2>2, <2>6, <2>9
  <2>11. ASSUME a = "not found", NEW m \in SD PROVE m \in idle'[t]
    BY <2>1, <2>2, <2>6, <2>9, <2>11
  <2>12. Told(r)'
    BY <2>1, <2>3, <2>8, <2>10, <2>11 DEF Told, SD
  <2>13. FetchInTime(r)' /\ LooksFresh(r)'
    BY <1>1, <1>2, <1>3, <2>1
       DEF Served, FetchInTime, LooksFresh, Fetching
  <2> QED BY <1>5, <2>1, <2>12, <2>13 DEF Served
<1> QED BY <1>6, <1>7, <1>8, <1>9, <1>10, <1>11, <1>12, <1>13 DEF Step

-----------------------------------------------------------------------------
(***************************************************************************)
(* The steps of the world.                                                 *)
(***************************************************************************)

\* Time passes or models come and go: the history of the intervals so far only
\* grows, and no fetch that is under way is late.
LEMMA WorldKeepsTimely ==
  ASSUME TypeOK, TypeOK', Timely, Witnessed',
         clock' >= clock,
         \A t \in 0..clock : ran[t] \subseteq ran'[t] /\ idle[t] \subseteq idle'[t],
         \A r \in Request : Fetching(r) => clock' - sent[r] <= Timeout,
         UNCHANGED <<pc, now, sent, types, fetched, answer, lock, cache>>
  PROVE  Timely'
<1> USE Limits
<1>1. clock \in Int /\ clock' \in Int /\ expiresAt \in Int
  BY DEF TypeOK
<1>3. CacheIsSample'
  BY CacheKept DEF cache
<1>4. ASSUME NEW r \in Request PROVE Served(r)'
  <2>1. FetchInTime(r) /\ LooksFresh(r) /\ Told(r)
    BY DEF Timely, Served
  <2>4. FetchInTime(r)'
    BY <2>1, FetchStays
  <2>5. LooksFresh(r)'
    BY <2>1 DEF LooksFresh, cache
  <2>7. Told(r)'
    BY <2>1, ToldStays
  <2> QED BY <2>4, <2>5, <2>7 DEF Served
<1> QED BY <1>3, <1>4 DEF Timely

\* Every step keeps Timely.
LEMMA TimelyStep == TypeOK /\ Timely /\ [Next]_vars => Timely'
<1> SUFFICES ASSUME TypeOK, Timely, [Next]_vars PROVE Timely'
  OBVIOUS
<1> USE Limits
<1>t. TypeOK' /\ clock \in 0..MaxClock
  BY TypeStep DEF TypeOK
<1>f. \A r \in Request : Fetching(r) => clock - sent[r] <= Timeout
  BY DEF Timely, Served, FetchInTime
<1>1. ASSUME NEW r \in Request, Arrive(r) \/ Step(r) PROVE Timely'
  BY <1>1, <1>t, RequestKeepsTimely
<1>2. ASSUME NEW m \in Model, Swap(m) PROVE Timely'
  <2>1. /\ UNCHANGED <<clock, pc, now, sent, types, fetched, answer, lock, cache>>
        /\ ran' = [ran EXCEPT ![clock] = @ \union (SD \intersect running')]
        /\ idle' = [idle EXCEPT ![clock] = @ \union (SD \ running')]
    BY <1>2 DEF Swap
  <2>2. \A t \in 0..clock : ran[t] \subseteq ran'[t] /\ idle[t] \subseteq idle'[t]
    BY <1>t, <2>1 DEF TypeOK
  <2>3. Witnessed'
    BY <1>t, <2>1 DEF TypeOK, Witnessed, SD
  <2> QED BY <1>t, <1>f, <2>1, <2>2, <2>3, WorldKeepsTimely
<1>3. CASE Tick
  <2>1. /\ UNCHANGED <<running, pc, now, sent, types, fetched, answer, lock, cache>>
        /\ clock < MaxClock /\ clock' = clock + 1
        /\ ran' = [ran EXCEPT ![clock'] = SD \intersect running]
        /\ idle' = [idle EXCEPT ![clock'] = SD \ running]
    BY <1>3 DEF Tick
  <2>2. \A t \in 0..clock : ran[t] \subseteq ran'[t] /\ idle[t] \subseteq idle'[t]
    BY <1>t, <2>1 DEF TypeOK
  <2>3. Witnessed'
    BY <1>t, <2>1 DEF TypeOK, Witnessed, SD
  <2>4. \A r \in Request : Fetching(r) => clock' - sent[r] <= Timeout
    BY <1>3, <1>t, <2>1 DEF Tick, TypeOK
  <2>5. clock' >= clock
    BY <1>t, <2>1
  <2> QED BY <1>t, <2>1, <2>2, <2>3, <2>4, <2>5, WorldKeepsTimely
<1>4. CASE UNCHANGED vars
  <2>1. /\ UNCHANGED <<clock, running, ran, idle>>
        /\ UNCHANGED <<pc, now, sent, types, fetched, answer, lock, cache>>
    BY <1>4 DEF vars, world
  <2>2. Witnessed'
    BY <2>1 DEF Timely, Witnessed
  <2> QED BY <1>t, <1>f, <2>1, <2>2, WorldKeepsTimely
<1> QED BY <1>1, <1>2, <1>3, <1>4, GuesserAssumption DEF Next

\* Timely is an invariant.
LEMMA TimelyCorrect == Spec => []Timely
<1>1. Init => TypeOK /\ Timely
  BY TypeInit, TimelyInit
<1>2. TypeOK /\ Timely /\ [Next]_vars => (TypeOK /\ Timely)'
  BY TypeStep, TimelyStep
<1> QED BY <1>1, <1>2, PTL DEF Spec

\* A model a request is routed to ran at a moment since TTL + Timeout before
\* the request came. (ensureFresh, FindRunningSDProxy)
THEOREM RoutedToRunningCorrect == Spec => []RoutedToRunning
<1>1. Timely => RoutedToRunning
  BY DEF Timely, Served, Told, RoutedToRunning
<1> QED BY <1>1, TimelyCorrect, PTL

\* When a request is told that no sd model runs, each of them was seen not to
\* run, or was left out of a reply, since then. (FindRunningSDProxy)
THEOREM NotFoundIsTrueCorrect == Spec => []NotFoundIsTrue
<1>1. Timely => NotFoundIsTrue
  BY DEF Timely, Served, Told, NotFoundIsTrue
<1> QED BY <1>1, TimelyCorrect, PTL
=============================================================================
