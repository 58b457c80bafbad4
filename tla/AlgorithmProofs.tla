--------------------------- MODULE AlgorithmProofs ---------------------------
(***************************************************************************)
(* Proofs about the sequential parts, for inputs of any size: the way of a *)
(* request to llama-swap (RequestRules), the names of a page (Namespaces), *)
(* its scripts (WebUiGate), the reading of an event stream (SseReader),    *)
(* and the listing of models (OpenCode).  The merge of snapshots, GGUF     *)
(* files and macros have their lemmas in NestingProofs.                    *)
(***************************************************************************)
EXTENDS Algorithms, NestingProofs

-----------------------------------------------------------------------------
(***************************************************************************)
(* Requests.                                                               *)
(***************************************************************************)

\* A body that is a JSON object.
ObjectBody(T) ==
  [json : {TRUE}, stream : T, return_progress : T, model : T, number : Nat, headers : Ids(T)]

\* A request whose body was read: it cannot break off any more.
Whole(T) ==
  [route : {"upstream", "other"}, segment : T, body : Body(T), length : Nat,
   bytes : Nat, cut : {FALSE}, header : Ids(T)]

\* Only what is marked as JSON is an object.
LEMMA BodyIsRawOrObject ==
  ASSUME NEW T, NEW b \in Body(T)
  PROVE  \/ b = Raw /\ ~b.json
         \/ b \in ObjectBody(T) /\ b.json
<1>1. CASE b = Raw
  BY <1>1 DEF Raw
<1>2. CASE b \in ObjectBody(T)
  <2>1. b.json = TRUE
    BY <1>2 DEF ObjectBody
  <2> QED BY <1>2, <2>1
<1> QED BY <1>1, <1>2 DEF Body, ObjectBody

\* A number stays one as a float64, and itself if it is small enough.
LEMMA FloatNumber ==
  ASSUME NEW n \in Nat
  PROVE  Float(n) \in Nat /\ (n <= Exact => Float(n) = n)
<1>1. Exact \in Nat /\ 2 * (n \div 2) \in Nat
  BY RulesAssumption
<1> QED BY <1>1 DEF Float

\* The fields of a request, as it is and after its body was read.
LEMMA RequestFields ==
  ASSUME NEW T, NEW r \in Request(T)
  PROVE  /\ r \in [route : {"upstream", "other"}, segment : T, body : Body(T),
                   length : Nat, bytes : Nat, cut : BOOLEAN, header : Ids(T)]
         /\ r.cut => ReadAll(r).body = Raw
         /\ ~r.cut => ReadAll(r) = r /\ r.bytes = r.length
         /\ ReadAll(r) \in Whole(T)
         /\ ReadAll(r).bytes = r.bytes
<1>1. r \in [route : {"upstream", "other"}, segment : T, body : Body(T),
             length : Nat, bytes : Nat, cut : BOOLEAN, header : Ids(T)]
  BY DEF Request
<1>2. Raw \in Body(T)
  BY DEF Body
<1>3. ~r.cut => r.bytes = r.length
  BY DEF Request
<1> QED BY <1>1, <1>2, <1>3 DEF ReadAll, Whole

\* Reading a body again leaves it, and states the length of what there is.
LEMMA RereadFields ==
  ASSUME NEW T, NEW r \in Whole(T)
  PROVE  Reread(r) = [r EXCEPT !.length = r.bytes]
BY DEF Reread, ReadAll, Whole

\* An injection: of the field into the body, and of the body into the request.
Filled(b) == [b EXCEPT !.return_progress = "true", !.number = Float(@)]

Injected(r) == [r EXCEPT !.body = Filled(@), !.bytes = @ + Grown, !.length = r.bytes + Grown]

\* A body that is filled in is an object that asks for progress.
LEMMA FilledIsObject ==
  ASSUME NEW T, "true" \in T, NEW b \in ObjectBody(T)
  PROVE  /\ Filled(b) \in ObjectBody(T) /\ Filled(b).return_progress = "true"
         /\ Filled(b) = [b EXCEPT !.return_progress = "true",
                           !.number = IF @ <= Exact THEN @ ELSE Filled(b).number]
<1>1. b.number \in Nat
  BY DEF ObjectBody
<1>2. Float(b.number) \in Nat /\ (b.number <= Exact => Float(b.number) = b.number)
  BY <1>1, FloatNumber
<1>3. Filled(b).number = Float(b.number)
  BY DEF Filled, ObjectBody
<1>4. Filled(b).number = IF b.number <= Exact THEN b.number ELSE Filled(b).number
  BY <1>2, <1>3
<1>5. Filled(b) = [b EXCEPT !.return_progress = "true", !.number = Filled(b).number]
  BY <1>3 DEF Filled
<1>6. Filled(b) = [b EXCEPT !.return_progress = "true",
                     !.number = IF @ <= Exact THEN @ ELSE Filled(b).number]
  BY <1>4, <1>5
<1> QED BY <1>2, <1>6 DEF Filled, ObjectBody

\* An injected request differs in its body, which is filled in.
LEMMA InjectedFields ==
  ASSUME NEW T, "true" \in T, NEW r \in Whole(T), r.body.json
  PROVE  /\ Injected(r) \in Whole(T) /\ Injected(r).header = r.header
         /\ Injected(r).body = Filled(r.body)
<1>1. r.body \in ObjectBody(T)
  BY BodyIsRawOrObject DEF Whole
<1>2. Filled(r.body) \in Body(T)
  BY <1>1, FilledIsObject DEF Body, ObjectBody
<1> DEFINE n == r.bytes + Grown
           b == Filled(r.body)
           q == Injected(r)
<1>3. n \in Nat
  BY RulesAssumption DEF Whole
<1>4. q = [r EXCEPT !.body = b, !.bytes = n, !.length = n]
  BY DEF Injected
<1>5. b \in Body(T)
  BY <1>2
<1> HIDE DEF n, b, q
<1>6. q \in Whole(T) /\ q.body = b /\ q.bytes = n /\ q.header = r.header
  BY <1>3, <1>4, <1>5 DEF Whole
<1> QED BY <1>6 DEF b, q

\* The length that is stated in the end is that of the bytes.
LEMMA LengthStated ==
  ASSUME NEW T, NEW r \in Whole(T), NEW q, q = [r EXCEPT !.length = r.bytes]
  PROVE  /\ q \in Whole(T) /\ q.length = q.bytes /\ q.header = r.header
         /\ q.bytes = r.bytes /\ q.body = r.body
BY DEF Whole

\* The proxy fills in the field.
Injects(r, M, e) == e /\ Injectable(ReadAll(r)) /\ ModelOf(ReadAll(r)) \in M

\* What becomes of a request that is not for /upstream/.
LEMMA ForwardedFields ==
  ASSUME NEW T, "true" \in T, NEW r \in Request(T), r.route # "upstream",
         NEW M, NEW e \in BOOLEAN, NEW out, out = Forwarded(r, M, e)
  PROVE  /\ out.length = out.bytes /\ out.header = r.header
         /\ Injects(r, M, e) => out.body = Filled(ReadAll(r).body)
         /\ ~Injects(r, M, e) => out.body = ReadAll(r).body /\ out.bytes = r.bytes
<1> DEFINE q == ReadAll(r)
<1>1. q \in Whole(T) /\ q.bytes = r.bytes /\ q.header = r.header
  BY RequestFields DEF ReadAll
<1>2. out = IF Injects(r, M, e) THEN Reread(Injected(q)) ELSE [q EXCEPT !.length = q.bytes]
  <2>1. Reread(q) = [q EXCEPT !.length = q.bytes]
    BY <1>1, RereadFields
  <2>2. Reread(r) = [q EXCEPT !.length = q.bytes]
    BY <1>1 DEF Reread
  <2>3. Inject(r, M) = IF Injectable(q) /\ ModelOf(q) \in M THEN Injected(q) ELSE q
    BY DEF Inject, Injected, Filled
  <2> QED BY <2>1, <2>2, <2>3 DEF Forwarded, Injects
<1> HIDE DEF q
<1>3. CASE Injects(r, M, e)
  <2>1. q.body.json
    BY <1>3 DEF Injects, Injectable, q
  <2>2. /\ Injected(q) \in Whole(T) /\ Injected(q).header = q.header
        /\ Injected(q).body = Filled(q.body)
    BY <1>1, <2>1, InjectedFields
  <2>3. out = [Injected(q) EXCEPT !.length = Injected(q).bytes]
    BY <1>2, <1>3, <2>2, RereadFields
  <2> QED BY <1>1, <1>3, <2>2, <2>3, LengthStated DEF q
<1>4. CASE ~Injects(r, M, e)
  <2>1. out = [q EXCEPT !.length = q.bytes]
    BY <1>2, <1>4
  <2> QED BY <1>1, <1>4, <2>1, LengthStated DEF q
<1> QED BY <1>3, <1>4

\* llama-swap gets what the client sent, with a length that is the body's, and
\* with a return_progress only where the client asked for a stream and said
\* nothing of it; whatever the texts, the models and the length of the body.
\* (maybeInjectReturnProgress, readJSONRequestBodyAsMap)
THEOREM AsSentCorrect ==
  ASSUME NEW T, "true" \in T, NEW r \in Request(T), ~r.cut, NEW M, NEW e \in BOOLEAN
  PROVE  AsSent(r, M, e)
<1>1. ReadAll(r) = r /\ r.bytes = r.length
  BY RequestFields
<1>2. CASE r.route = "upstream"
  BY <1>1, <1>2 DEF AsSent, Forwarded
<1>3. CASE r.route # "upstream"
  <2> DEFINE out == Forwarded(r, M, e)
  <2>1. /\ out.length = out.bytes
        /\ Injects(r, M, e) => out.body = Filled(r.body)
        /\ ~Injects(r, M, e) => out.body = r.body /\ out.bytes = r.bytes
    BY <1>1, <1>3, ForwardedFields
  <2>2. CASE ~Injects(r, M, e)
    BY <2>1, <2>2 DEF AsSent
  <2>3. CASE Injects(r, M, e)
    <3>1. r.body.json /\ r.body.stream = "true" /\ r.body.return_progress = None
      BY <1>1, <2>3 DEF Injects, Injectable
    <3>2. r.body \in ObjectBody(T)
      BY <3>1, BodyIsRawOrObject, RequestFields
    <3> QED BY <2>1, <2>3, <3>1, <3>2, FilledIsObject DEF AsSent
  <2> QED BY <2>2, <2>3
<1> QED BY <1>2, <1>3

\* A stream that is tracked has progress to report, also if the client broke
\* off: what reads the body for the tracker sees what was injected.
\* (maybeInjectReturnProgress, derivePrefillCorrelationFromRequest)
THEOREM ReportsCorrect ==
  ASSUME NEW T, "true" \in T, NEW r \in Request(T), NEW M
  PROVE  Reports(r, M)
<1> DEFINE q == ReadAll(r)
           out == Forwarded(r, M, TRUE)
<1> SUFFICES ASSUME Tracked(out, "text/event-stream"), out.body.model \in M
             PROVE  out.body.return_progress # None
  BY DEF Reports
<1>1. CASE r.route = "upstream"
  BY <1>1 DEF Tracked, Forwarded
<1>2. CASE r.route # "upstream"
  <2>1. q \in Whole(T)
    BY RequestFields
  <2>2. /\ Injects(r, M, TRUE) => out.body = Filled(q.body)
        /\ ~Injects(r, M, TRUE) => out.body = q.body
    BY <1>2, ForwardedFields
  <2>3. CASE Injects(r, M, TRUE)
    <3>1. q.body \in ObjectBody(T)
      BY <2>1, <2>3, BodyIsRawOrObject DEF Injects, Injectable, Whole
    <3>2. Filled(q.body).return_progress = "true"
      BY <3>1, FilledIsObject
    <3> QED BY <2>2, <2>3, <3>2 DEF None
  <2>4. CASE ~Injects(r, M, TRUE)
    <3>1. out.body = q.body /\ q.body.json /\ q.body.stream = "true"
      BY <2>2, <2>4 DEF Tracked, Correlated
    <3>2. CASE q.body.return_progress = None
      <4>1. ModelOf(q) \notin M
        BY <2>4, <3>1, <3>2 DEF Injects, Injectable
      <4>2. q.body.model = None
        BY <3>1, <4>1 DEF ModelOf
      <4>3. q.route # "upstream"
        BY <1>2, RequestFields DEF ReadAll
      <4> QED BY <3>1, <4>1, <4>2, <4>3 DEF ModelOf
    <3> QED BY <3>1, <3>2
  <2> QED BY <2>3, <2>4
<1> QED BY <1>1, <1>2

-----------------------------------------------------------------------------
(***************************************************************************)
(* Names.                                                                  *)
(***************************************************************************)

\* A segment is what is before the first slash.
LEMMA SegmentIs ==
  ASSUME NEW s
  PROVE  Segment(s) = IF First(s, Slash) = 0 THEN s ELSE SubSeq(s, 1, First(s, Slash) - 1)
BY DEF Segment, First, At, SelectInSeq

\* A segment of a text is a text.
LEMMA SegmentTypes ==
  ASSUME NEW C, NEW s \in Seq(C)
  PROVE  Segment(s) \in Seq(C)
<1> DEFINE n == First(s, Slash)
<1>1. n = 0 \/ n \in 1..Len(s)
  BY FirstIs
<1>2. Segment(s) = IF n = 0 THEN s ELSE SubSeq(s, 1, n - 1)
  BY SegmentIs
<1> HIDE DEF n
<1>3. CASE n = 0
  BY <1>2, <1>3
<1>4. CASE n \in 1..Len(s)
  <2>1. \A i \in 1..(n - 1) : s[i] \in C
    BY <1>4
  <2> QED BY <1>2, <1>4, <2>1, SubSeqProperties
<1> QED BY <1>1, <1>3, <1>4

\* A name without slash is its own segment, also in front of a path.
LEMMA SegmentOfName ==
  ASSUME NEW C, NEW u \in Seq(C), \A i \in 1..Len(u) : u[i] # Slash
  PROVE  /\ Segment(u) = u
         /\ \A e \in Seq(C) : Slash \in C => Segment(u \o <<Slash>> \o e) = u
<1>1. Segment(u) = u
  <2>1. First(u, Slash) = 0
    BY FirstIs
  <2> QED BY <2>1, SegmentIs
<1>2. ASSUME NEW e \in Seq(C), Slash \in C
      PROVE  Segment(u \o <<Slash>> \o e) = u
  <2> DEFINE p == u \o <<Slash>> \o e
             n == First(p, Slash)
  <2>1. /\ p \in Seq(C) /\ Len(p) = Len(u) + 1 + Len(e)
        /\ \A i \in 1..Len(u) : p[i] = u[i]
        /\ p[Len(u) + 1] = Slash
    BY <1>2, PutAround DEF Around
  <2> HIDE DEF p
  <2>2. \/ n = 0 /\ \A i \in 1..Len(p) : p[i] # Slash
        \/ n \in 1..Len(p) /\ p[n] = Slash /\ \A i \in 1..Len(p) : i < n => p[i] # Slash
    BY <2>1, FirstIs
  <2> HIDE DEF n
  <2>3. Len(u) + 1 \in 1..Len(p)
    BY <2>1
  <2>4. n = Len(u) + 1
    BY <2>1, <2>2, <2>3
  <2>5. Segment(p) = SubSeq(p, 1, Len(u))
    BY <2>4, SegmentIs DEF n
  <2>6. SubSeq(p, 1, Len(u)) = u
    <3>1. /\ SubSeq(p, 1, Len(u)) \in Seq(C) /\ Len(SubSeq(p, 1, Len(u))) = Len(u)
          /\ \A i \in 1..Len(u) : SubSeq(p, 1, Len(u))[i] = p[i]
      <4>1. \A i \in 1..Len(u) : p[i] \in C
        BY <2>1
      <4> QED BY <4>1, SubSeqProperties
    <3> QED BY <2>1, <3>1, SeqEqual
  <2> QED BY <2>5, <2>6 DEF p
<1> QED BY <1>1, <1>2

\* A path without slashes at its ends is not trimmed.
LEMMA TrimmedIs ==
  ASSUME NEW C, NEW p \in Seq(C), p # <<>>, p[1] # Slash, p[Len(p)] # Slash
  PROVE  Trimmed(p) = p
<1> DEFINE at == {n \in 1..Len(p) : p[n] # Slash}
<1>1. Len(p) \in Nat /\ Len(p) > 0
  OBVIOUS
<1>2. at \in SUBSET Nat /\ 1 \in at /\ Len(p) \in at /\ at # {}
      /\ \A j \in at : 1 <= j /\ Len(p) >= j
  BY <1>1
<1>3. Trimmed(p) = IF at = {} THEN <<>> ELSE SubSeq(p, Min(at), Max(at))
  BY DEF Trimmed
<1> HIDE DEF at
<1>4. Min(at) = 1 /\ Max(at) = Len(p)
  BY <1>2, MinIs, MaxIs
<1> QED BY <1>2, <1>3, <1>4, SubSeqFull

\* What is needed of the characters: those of the program's names are some.
Characters(C) == {Slash, Bar, "global", "model:", "sync", "ws"} \subseteq C

\* Users without slash and bar are not cut.
LEMMA PlainUserNames ==
  ASSUME NEW C, NEW u \in Seq(C), PlainUser(u)
  PROVE  /\ u # <<>> /\ Len(u) \in Nat /\ Len(u) > 0
         /\ \A i \in 1..Len(u) : u[i] # Slash /\ u[i] # Bar
<1>1. u # <<>> /\ Len(u) \in Nat /\ Len(u) > 0
  BY DEF PlainUser
<1>2. \A i \in 1..Len(u) : u[i] \in ToSet(u)
  BY DEF ToSet
<1> QED BY <1>1, <1>2 DEF PlainUser

\* Scopes are never empty, and isolated ones are told apart by the segments.
LEMMA ScopeTypes ==
  ASSUME NEW C, Characters(C), NEW m \in Seq(C), NEW b \in BOOLEAN
  PROVE  ScopeOf(m, b) \in Seq(C) /\ ScopeOf(m, b) # <<>>
<1>1. Global \in Seq(C) /\ Len(Global) = 1
  BY DEF Global, Characters
<1>2. Segment(m) \in Seq(C)
  BY SegmentTypes
<1>3. ModelPrefix \in Seq(C) /\ Len(ModelPrefix) = 1
  BY DEF ModelPrefix, Characters
<1>4. /\ ModelPrefix \o Segment(m) \in Seq(C)
      /\ Len(ModelPrefix \o Segment(m)) = 1 + Len(Segment(m))
      /\ Len(Segment(m)) \in Nat
  <2>1. ModelPrefix \o Segment(m) \in Seq(C) /\ Joins(ModelPrefix \o Segment(m), ModelPrefix, Segment(m))
    BY <1>2, <1>3, Prefixed
  <2>2. Len(Segment(m)) \in Nat
    BY <1>2
  <2> QED BY <1>3, <2>1, <2>2 DEF Joins
<1>5. \A s \in Seq(C) : Len(s) > 0 => s # <<>>
  OBVIOUS
<1> QED BY <1>1, <1>4, <1>5 DEF ScopeOf

\* Isolated pages share a scope just if the segments are the same.
LEMMA IsolatedScopes ==
  ASSUME NEW C, Characters(C), NEW m \in Seq(C), NEW n \in Seq(C)
  PROVE  ScopeOf(m, TRUE) = ScopeOf(n, TRUE) <=> Segment(m) = Segment(n)
<1>1. Segment(m) \in Seq(C) /\ Segment(n) \in Seq(C)
  BY SegmentTypes
<1>2. ModelPrefix \in Seq(C) /\ Global \in Seq(C) /\ Len(ModelPrefix) = 1 /\ Len(Global) = 1
  BY DEF Characters, ModelPrefix, Global
<1>3. ASSUME NEW s \in Seq(C), s # <<>>, ModelPrefix \o s = Global PROVE FALSE
  <2>1. Len(s) \in Nat /\ Len(s) # 0
    BY <1>3
  <2>2. Joins(Global, ModelPrefix, s)
    BY <1>2, <1>3, Prefixed
  <2>3. Len(Global) = Len(ModelPrefix) + Len(s)
    BY <2>2 DEF Joins
  <2>4. 1 = 1 + Len(s)
    BY <1>2, <2>3
  <2> QED BY <2>1, <2>4
<1>4. ASSUME NEW s \in Seq(C), NEW t \in Seq(C), ModelPrefix \o s = ModelPrefix \o t
      PROVE  s = t
  <2> DEFINE r == ModelPrefix \o s
  <2>1. Joins(r, ModelPrefix, s)
    BY <1>2, Prefixed
  <2>2. Joins(r, ModelPrefix, t)
    BY <1>2, <1>4, Prefixed
  <2> HIDE DEF r
  <2> QED BY <1>2, <2>1, <2>2, PrefixCancels
<1> QED BY <1>1, <1>3, <1>4 DEF ScopeOf

\* Users without bar and their scopes can be told from their channel.
LEMMA ChannelKeyInjective ==
  ASSUME NEW C, Bar \in C, NEW u \in Seq(C), NEW v \in Seq(C),
         NEW s \in Seq(C), NEW t \in Seq(C),
         \A i \in 1..Len(u) : u[i] # Bar, \A i \in 1..Len(v) : v[i] # Bar,
         ChannelKey(u, s) = ChannelKey(v, t)
  PROVE  u = v /\ s = t
<1> DEFINE k == ChannelKey(u, s)
<1>1. Around(k, u, Bar, s) /\ Around(k, v, Bar, t)
  BY PutAround DEF ChannelKey
<1> HIDE DEF k
<1>2. Len(u) \in Nat /\ Len(v) \in Nat /\ Len(s) \in Nat /\ Len(t) \in Nat
  OBVIOUS
<1>3. Len(u) = Len(v)
  <2>1. ~ (Len(u) < Len(v))
    <3>1. ASSUME Len(u) < Len(v) PROVE FALSE
      <4>1. Len(u) + 1 \in 1..Len(v)
        BY <1>2, <3>1
      <4> QED BY <1>1, <4>1 DEF Around
    <3> QED BY <3>1
  <2>2. ~ (Len(v) < Len(u))
    <3>1. ASSUME Len(v) < Len(u) PROVE FALSE
      <4>1. Len(v) + 1 \in 1..Len(u)
        BY <1>2, <3>1
      <4> QED BY <1>1, <4>1 DEF Around
    <3> QED BY <3>1
  <2> QED BY <1>2, <2>1, <2>2
<1>4. u = v
  <2>1. \A i \in 1..Len(u) : u[i] = v[i]
    BY <1>1, <1>3 DEF Around
  <2> QED BY <1>3, <2>1, SeqEqual
<1>5. s = t
  <2>1. Len(s) = Len(t)
    BY <1>1, <1>2, <1>3 DEF Around
  <2>2. \A i \in 1..Len(s) : s[i] = t[i]
    BY <1>1, <1>3, <2>1 DEF Around
  <2> QED BY <2>1, <2>2, SeqEqual
<1> QED BY <1>4, <1>5

\* The requests of a page reach the row of its user and scope, whatever
\* characters user and model have beyond slash and bar, and the endpoint they
\* are for.  (apiBase, HandleSessions, resolveUser, resolveScope)
THEOREM ReachesItsRowCorrect ==
  ASSUME NEW C, Characters(C), NEW page \in Page(C), PlainUser(page.user),
         NEW e \in Seq(C), e # <<>>, \A i \in 1..Len(e) : e[i] # Slash
  PROVE  ReachesItsRow(page, e)
<1> DEFINE u == page.user
           p == u \o <<Slash>> \o e
           scope == ScopeOf(page.model, page.isolate)
<1>1. u \in Seq(C) /\ Slash \in C /\ page.model \in Seq(C) /\ page.isolate \in BOOLEAN
  BY DEF Page, Characters
<1>2. Len(u) \in Nat /\ Len(u) > 0 /\ \A i \in 1..Len(u) : u[i] # Slash
  BY <1>1, PlainUserNames
<1>3. scope # <<>>
  BY <1>1, ScopeTypes
<1>4. Segment(p) = u
  BY <1>1, <1>2, SegmentOfName
<1> HIDE DEF u, scope
<1>5. Len(e) \in Nat /\ Len(e) > 0
  OBVIOUS
<1>6. /\ p \in Seq(C) /\ Len(p) = Len(u) + 1 + Len(e)
      /\ \A i \in 1..Len(u) : p[i] = u[i]
      /\ p[Len(u) + 1] = Slash
      /\ \A i \in 1..Len(e) : p[Len(u) + 1 + i] = e[i]
  BY <1>1, PutAround DEF Around
<1> HIDE DEF p
<1>7. Trimmed(p) = p
  <2>1. p[1] # Slash
    BY <1>2, <1>6
  <2>2. p[Len(p)] # Slash
    <3>1. p[Len(u) + 1 + Len(e)] = e[Len(e)] /\ Len(e) \in 1..Len(e)
      BY <1>5, <1>6
    <3> QED BY <1>6, <3>1
  <2>3. p # <<>>
    BY <1>2, <1>5, <1>6
  <2> QED BY <1>6, <2>1, <2>2, <2>3, TrimmedIs
<1>8. Contains(p, Slash)
  <2>1. Len(u) + 1 \in 1..Len(p)
    BY <1>2, <1>5, <1>6
  <2> QED BY <1>6, <2>1 DEF Contains
<1>9. SubSeq(p, Len(u) + 2, Len(p)) = e
  <2> DEFINE r == SubSeq(p, Len(u) + 2, Len(p))
  <2>1. \A i \in (Len(u) + 2)..Len(p) : p[i] \in C
    BY <1>2, <1>6
  <2>2. r \in Seq(C) /\ Len(r) = Len(e) /\ \A i \in 1..Len(e) : r[i] = p[Len(u) + 2 + i - 1]
    BY <1>2, <1>5, <1>6, <2>1, SubSeqProperties
  <2> HIDE DEF r
  <2>3. \A i \in 1..Len(e) : r[i] = e[i]
    BY <1>2, <1>5, <1>6, <2>2
  <2> QED BY <2>2, <2>3, SeqEqual DEF r
<1>10. Segment(e) = e
  BY SegmentOfName
<1>11. u # <<>>
  BY <1>2
<1>12. Resolve(p, scope, u) = [user |-> u, scope |-> scope, endpoint |-> e]
  BY <1>3, <1>4, <1>7, <1>8, <1>9, <1>10, <1>11 DEF Resolve
<1> QED BY <1>12 DEF ReachesItsRow, Resolved, RequestPath, u, p, scope

\* The pages of two rows never share a channel, and those of one row always do;
\* the isolated pages of a user share a row just if their models have the same
\* first segment.  (sessionChannelKey, resolveScope, injectWebUISync)
THEOREM SharesByRowCorrect ==
  ASSUME NEW C, Characters(C), NEW p \in Page(C), NEW q \in Page(C),
         PlainUser(p.user), PlainUser(q.user), p.isolate = q.isolate
  PROVE  SharesByRow(p, q)
<1>1. /\ p.user \in Seq(C) /\ p.model \in Seq(C) /\ p.isolate \in BOOLEAN
      /\ q.user \in Seq(C) /\ q.model \in Seq(C)
  BY DEF Page
<1>2. /\ <<"sync">> \in Seq(C) /\ <<"sync">> # <<>> /\ \A i \in 1..Len(<<"sync">>) : <<"sync">>[i] # Slash
      /\ <<"ws">> \in Seq(C) /\ <<"ws">> # <<>> /\ \A i \in 1..Len(<<"ws">>) : <<"ws">>[i] # Slash
  BY DEF Characters, Slash
<1>3. ReachesItsRow(p, <<"sync">>) /\ ReachesItsRow(q, <<"ws">>)
  BY <1>2, ReachesItsRowCorrect
<1> DEFINE here == Resolved(p, <<"sync">>)
           there == Resolved(q, <<"ws">>)
<1>4. /\ here.user = p.user /\ here.scope = ScopeOf(p.model, p.isolate)
      /\ there.user = q.user /\ there.scope = ScopeOf(q.model, q.isolate)
  BY <1>3 DEF ReachesItsRow
<1> HIDE DEF here, there
<1>5. here.scope \in Seq(C) /\ there.scope \in Seq(C)
  BY <1>1, <1>4, ScopeTypes
<1>6. /\ \A i \in 1..Len(here.user) : here.user[i] # Bar
      /\ \A i \in 1..Len(there.user) : there.user[i] # Bar
  BY <1>1, <1>4, PlainUserNames
<1>7. ASSUME ChannelKey(here.user, here.scope) = ChannelKey(there.user, there.scope)
      PROVE  here.user = there.user /\ here.scope = there.scope
  <2>1. here.user \in Seq(C) /\ there.user \in Seq(C) /\ Bar \in C
    BY <1>1, <1>4 DEF Characters
  <2> QED BY <1>5, <1>6, <1>7, <2>1, ChannelKeyInjective
<1>8. ASSUME p.isolate
      PROVE  here.scope = there.scope <=> Segment(p.model) = Segment(q.model)
  <2>1. p.isolate = TRUE /\ q.isolate = TRUE
    BY <1>1, <1>8
  <2>2. ScopeOf(p.model, TRUE) = ScopeOf(q.model, TRUE) <=> Segment(p.model) = Segment(q.model)
    BY <1>1, IsolatedScopes
  <2> QED BY <1>4, <2>1, <2>2
<1> QED BY <1>7, <1>8 DEF SharesByRow, here, there

-----------------------------------------------------------------------------
(***************************************************************************)
(* The bootstrap and the scripts of a page.                                *)
(***************************************************************************)

\* An element that is inserted in a sequence gives a sequence.
LEMMA InsertedIn ==
  ASSUME NEW S, NEW s \in Seq(S), NEW n \in 1..Len(s), NEW e \in S
  PROVE  InsertAt(s, n, e) \in Seq(S)
<1>1. Len(s) \in Nat /\ n \in Nat /\ 1 <= n /\ n <= Len(s)
  OBVIOUS
<1>2. \A i \in 1..Len(s) : s[i] \in S
  OBVIOUS
<1>3. SubSeq(s, 1, n - 1) \in Seq(S) /\ SubSeq(s, n, Len(s)) \in Seq(S)
  <2>1. SubSeq(s, 1, n - 1) \in Seq(S)
    BY <1>1, <1>2, SubSeqProperties
  <2>2. SubSeq(s, n, Len(s)) \in Seq(S)
    BY <1>1, <1>2, SubSeqProperties
  <2> QED BY <2>1, <2>2
<1> QED BY <1>3 DEF InsertAt

\* What is inserted comes before what was at its place.
LEMMA InsertedAt ==
  ASSUME NEW S, NEW s \in Seq(S), NEW n \in 1..Len(s), NEW e \in S
  PROVE  LET r == InsertAt(s, n, e) IN
         /\ Len(r) = Len(s) + 1 /\ r[n] = e
         /\ \A i \in 1..Len(s) : r[IF i < n THEN i ELSE i + 1] = s[i]
<1> DEFINE a == SubSeq(s, 1, n - 1)
           b == SubSeq(s, n, Len(s))
           r == a \o <<e>> \o b
<1>1. Len(s) \in Nat /\ n \in Nat /\ 1 <= n /\ n <= Len(s)
  OBVIOUS
<1>2. a \in Seq(S) /\ Len(a) = n - 1 /\ \A i \in 1..(n - 1) : a[i] = s[i]
  <2>1. \A i \in 1..(n - 1) : s[i] \in S
    BY <1>1
  <2>2. /\ a \in Seq(S) /\ Len(a) = IF 1 <= n - 1 THEN n - 1 - 1 + 1 ELSE 0
        /\ \A i \in 1..(n - 1 - 1 + 1) : a[i] = s[1 + i - 1]
    BY <1>1, <2>1, SubSeqProperties
  <2> QED BY <1>1, <2>2
<1>3. b \in Seq(S) /\ Len(b) = Len(s) - n + 1 /\ \A i \in 1..(Len(s) - n + 1) : b[i] = s[n + i - 1]
  <2>1. \A i \in n..Len(s) : s[i] \in S
    BY <1>1
  <2> QED BY <1>1, <2>1, SubSeqProperties
<1> HIDE DEF a, b
<1>4. Around(r, a, e, b)
  BY <1>2, <1>3, PutAround
<1> HIDE DEF r
<1>5. Len(r) = Len(s) + 1 /\ r[n] = e
  BY <1>1, <1>2, <1>3, <1>4 DEF Around
<1>6. ASSUME NEW i \in 1..Len(s)
      PROVE  r[IF i < n THEN i ELSE i + 1] = s[i]
  <2>1. CASE i < n
    BY <1>1, <1>2, <1>4, <2>1 DEF Around
  <2>2. CASE ~ (i < n)
    <3> DEFINE j == i - n + 1
    <3>1. /\ j \in 1..Len(b) /\ j \in 1..(Len(s) - n + 1)
          /\ Len(a) + 1 + j = i + 1 /\ n + j - 1 = i
      BY <1>1, <1>2, <1>3, <2>2
    <3> HIDE DEF j
    <3>2. r[Len(a) + 1 + j] = b[j] /\ b[j] = s[n + j - 1]
      BY <1>3, <1>4, <3>1 DEF Around
    <3> QED BY <2>2, <3>1, <3>2
  <2> QED BY <2>1, <2>2
<1>7. InsertAt(s, n, e) = r
  BY DEF InsertAt, r, a, b
<1> QED BY <1>5, <1>6, <1>7

\* The rewriting of a tag holds the script back, and keeps what it was.
LEMMA RewrittenTag ==
  ASSUME NEW T, NEW s \in Element(T), s.other = NoType
  PROVE  /\ RewriteTag(s).piece = "script" /\ RewriteTag(s).mark = "deferred"
         /\ RewriteTag(s).type \notin JavaScript
         /\ Restored(RewriteTag(s)) = AsItWas(s)
<1>1. RewriteTag(s) = [s EXCEPT !.mark = "deferred", !.was = s.type, !.type = Deferred]
  BY DEF RewriteTag, Element
<1>2. Deferred \notin JavaScript
  BY DEF Deferred, JavaScript, NoType
<1>3. /\ RewriteTag(s).piece = "script" /\ RewriteTag(s).mark = "deferred"
      /\ RewriteTag(s).type = Deferred /\ RewriteTag(s).n = s.n
      /\ RewriteTag(s).was = s.type /\ RewriteTag(s).src = s.src
      /\ RewriteTag(s).nomodule = s.nomodule
  BY <1>1 DEF Element
<1> QED BY <1>2, <1>3 DEF Restored, AsItWas

\* In no script of the page the pattern for the type finds something before it.
NoOther(page) == \A i \in ScriptAt(page) : page[i].other = NoType

\* The place of the end of the head.
LEMMA EndOfHeadIs ==
  ASSUME NEW S, NEW page \in Seq(S), Contains(page, HeadEnd)
  PROVE  EndOfHead(page) \in 1..Len(page) /\ page[EndOfHead(page)] = HeadEnd
<1>1. EndOfHead(page) = First(page, HeadEnd)
  BY DEF EndOfHead, First, At, SelectInSeq
<1>2. \E i \in 1..Len(page) : page[i] = HeadEnd
  BY DEF Contains
<1> QED BY <1>1, <1>2, FirstIs

\* No script of a page that is rewritten runs before the bootstrap, and none is
\* lost: the bootstrap is at the end of the head and finds each in its place,
\* with all that runDeferredScripts puts back.
\* (rewriteScriptTagsForSyncGate, injectBootstrapScript)
THEOREM GatedCorrect ==
  ASSUME NEW T, NEW page \in Seq(Piece(T)), Contains(page, HeadEnd), NoOther(page)
  PROVE  LET out == Served(page, TRUE, FALSE) IN
         Gated(page, out, EndOfHead(page)) /\ \E U : out \in Seq(U)
<1> DEFINE S == Piece(T) \union {RewriteTag(x) : x \in Piece(T)} \union {Bootstrap}
           w == Rewrite(page)
           n == EndOfHead(page)
           out == Served(page, TRUE, FALSE)
<1>1. n \in 1..Len(page) /\ page[n] = HeadEnd
  BY EndOfHeadIs
<1>2. w \in Seq(S) /\ Len(w) = Len(page)
      /\ \A i \in 1..Len(page) :
           w[i] = IF page[i].piece = "script" THEN RewriteTag(page[i]) ELSE page[i]
  <2>1. Len(page) \in Nat /\ \A i \in 1..Len(page) : page[i] \in Piece(T)
    OBVIOUS
  <2> QED BY <2>1 DEF Rewrite
<1>3. out = InsertAt(w, n, Bootstrap)
  BY DEF Served
<1>4. Bootstrap \in S
  OBVIOUS
<1> HIDE DEF S, w, n, out
<1>5. /\ Len(out) = Len(page) + 1 /\ out[n] = Bootstrap /\ out \in Seq(S)
      /\ \A i \in 1..Len(page) : out[IF i < n THEN i ELSE i + 1] = w[i]
  <2>1. w \in Seq(S) /\ n \in 1..Len(w) /\ Len(w) = Len(page)
    BY <1>1, <1>2
  <2>2. out \in Seq(S)
    BY <1>3, <1>4, <2>1, InsertedIn
  <2>3. /\ Len(out) = Len(w) + 1 /\ out[n] = Bootstrap
        /\ \A i \in 1..Len(w) : out[IF i < n THEN i ELSE i + 1] = w[i]
    BY <1>3, <1>4, <2>1, InsertedAt
  <2> QED BY <2>1, <2>2, <2>3
<1>6. ASSUME NEW i \in 1..Len(page), page[i].piece = "script"
      PROVE  page[i] \in Element(T) /\ page[i].other = NoType
  <2>1. HeadEnd.piece # "script"
    BY DEF HeadEnd
  <2>2. page[i] \in Piece(T)
    OBVIOUS
  <2> QED BY <1>6, <2>1, <2>2 DEF Piece, NoOther, ScriptAt
<1>7. ASSUME NEW i \in 1..Len(page)
      PROVE  LET put == out[IF i < n THEN i ELSE i + 1] IN
             IF page[i].piece = "script"
             THEN /\ put.piece = "script" /\ put.mark = "deferred" /\ put.type \notin JavaScript
                  /\ Restored(put) = AsItWas(page[i])
             ELSE put = page[i]
  <2>1. CASE page[i].piece = "script"
    <3>1. out[IF i < n THEN i ELSE i + 1] = RewriteTag(page[i])
      BY <1>2, <1>5, <2>1
    <3> QED BY <1>6, <2>1, <3>1, RewrittenTag
  <2>2. CASE page[i].piece # "script"
    BY <1>2, <1>5, <2>2
  <2> QED BY <2>1, <2>2
<1>8. Gated(page, out, n)
  BY <1>1, <1>5, <1>7 DEF Gated
<1> QED BY <1>5, <1>8 DEF out, n

\* The part of a gated page that ends after the head is gated.
LEMMA GatedPart ==
  ASSUME NEW T, NEW page \in Seq(Piece(T)), NEW U, NEW out \in Seq(U), NEW n,
         Gated(page, out, n), NEW k \in n..Len(page)
  PROVE  LET here == SubSeq(page, 1, k)
             there == SubSeq(out, 1, k + 1) IN
         /\ here \in Seq(Piece(T)) /\ there \in Seq(U)
         /\ Gated(here, there, n)
<1> DEFINE here == SubSeq(page, 1, k)
           there == SubSeq(out, 1, k + 1)
<1>1. /\ n \in 1..Len(page) /\ page[n] = HeadEnd /\ out[n] = Bootstrap
      /\ Len(out) = Len(page) + 1 /\ Len(page) \in Nat
  BY DEF Gated
<1>2. k \in Nat /\ n \in Nat /\ 1 <= n /\ n <= k /\ k <= Len(page)
  BY <1>1
<1>3. here \in Seq(Piece(T)) /\ Len(here) = k /\ \A i \in 1..k : here[i] = page[i]
  <2>1. \A i \in 1..k : page[i] \in Piece(T)
    BY <1>1, <1>2
  <2> QED BY <1>2, <2>1, SubSeqProperties
<1>4. there \in Seq(U) /\ Len(there) = k + 1 /\ \A i \in 1..(k + 1) : there[i] = out[i]
  <2>1. k + 1 \in Nat /\ \A i \in 1..(k + 1) : out[i] \in U
    BY <1>1, <1>2
  <2> QED BY <2>1, SubSeqProperties
<1> HIDE DEF here, there
<1>5. ASSUME NEW i \in 1..k
      PROVE  LET put == there[IF i < n THEN i ELSE i + 1] IN
             IF here[i].piece = "script"
             THEN /\ put.piece = "script" /\ put.mark = "deferred" /\ put.type \notin JavaScript
                  /\ Restored(put) = AsItWas(here[i])
             ELSE put = here[i]
  <2> DEFINE j == IF i < n THEN i ELSE i + 1
  <2>1. i \in 1..Len(page) /\ j \in 1..(k + 1)
    BY <1>1, <1>2
  <2>2. here[i] = page[i] /\ there[j] = out[j]
    BY <1>3, <1>4, <2>1
  <2>3. IF page[i].piece = "script"
        THEN /\ out[j].piece = "script" /\ out[j].mark = "deferred"
             /\ out[j].type \notin JavaScript /\ Restored(out[j]) = AsItWas(page[i])
        ELSE out[j] = page[i]
    BY <2>1 DEF Gated
  <2> HIDE DEF j
  <2>4. IF here[i].piece = "script"
        THEN /\ there[j].piece = "script" /\ there[j].mark = "deferred"
             /\ there[j].type \notin JavaScript /\ Restored(there[j]) = AsItWas(here[i])
        ELSE there[j] = here[i]
    BY <2>2, <2>3
  <2> QED BY <2>4 DEF j
<1>6. n \in 1..Len(here) /\ here[n] = HeadEnd /\ there[n] = Bootstrap
      /\ Len(there) = Len(here) + 1
  <2>1. n \in 1..k /\ n \in 1..(k + 1)
    BY <1>2
  <2> QED BY <1>1, <1>3, <1>4, <2>1
<1>7. Gated(here, there, n)
  BY <1>3, <1>5, <1>6 DEF Gated
<1> QED BY <1>3, <1>4, <1>7 DEF here, there

\* The deferred scripts of a gated page are those of the page, and the parser
\* runs nothing but the bootstrap.
LEMMA GatedScripts ==
  ASSUME NEW T, NEW page \in Seq(Piece(T)), NEW U, NEW out \in Seq(U), NEW n,
         Gated(page, out, n)
  PROVE  LET held == Picked(out, {i \in ScriptAt(out) : out[i].mark = "deferred"})
             all == Scripts(page) IN
         /\ RunByParser(out) = <<Bootstrap>>
         /\ Len(all) \in Nat /\ Len(held) = Len(all)
         /\ \A i \in 1..Len(all) : Restored(held[i]) = AsItWas(all[i])
<1> DEFINE D == {i \in ScriptAt(out) : out[i].mark = "deferred"}
           J == {i \in ScriptAt(out) : Executable(out[i])}
           I == ScriptAt(page)
           held == Picked(out, D)
           all == Scripts(page)
           m == Len(all)
<1>1. /\ n \in 1..Len(page) /\ page[n] = HeadEnd /\ out[n] = Bootstrap
      /\ Len(out) = Len(page) + 1
      /\ \A i \in 1..Len(page) :
           LET put == out[IF i < n THEN i ELSE i + 1] IN
           IF page[i].piece = "script"
           THEN /\ put.piece = "script" /\ put.mark = "deferred" /\ put.type \notin JavaScript
                /\ Restored(put) = AsItWas(page[i])
           ELSE put = page[i]
  BY DEF Gated
<1> DEFINE to(i) == IF i < n THEN i ELSE i + 1
<1>2. Len(page) \in Nat /\ n \in Nat /\ 1 <= n /\ n <= Len(page)
  BY <1>1
<1>3. \A i \in 1..Len(page) : to(i) \in 1..Len(out) /\ to(i) # n /\ to(i) \in Nat
  BY <1>1, <1>2
<1>4. \A i, j \in 1..Len(page) : i < j => to(i) < to(j)
  BY <1>2
<1>5. ASSUME NEW k \in 1..Len(out), k # n
      PROVE  \E i \in 1..Len(page) : to(i) = k
  <2>1. CASE k < n
    BY <1>1, <1>2, <1>5, <2>1
  <2>2. CASE ~ (k < n)
    <3>1. k - 1 \in 1..Len(page) /\ ~ (k - 1 < n) /\ k - 1 + 1 = k
      BY <1>1, <1>2, <1>5, <2>2
    <3>2. to(k - 1) = k
      BY <3>1
    <3> QED BY <3>1, <3>2
  <2> QED BY <2>1, <2>2
<1>6. \A i \in 1..Len(page) :
             IF page[i].piece = "script"
             THEN /\ out[to(i)].piece = "script" /\ out[to(i)].mark = "deferred"
                  /\ out[to(i)].type \notin JavaScript
                  /\ Restored(out[to(i)]) = AsItWas(page[i])
             ELSE out[to(i)] = page[i]
  BY <1>1
<1> HIDE DEF to
<1>7. \A k : k \in D <=> \E i \in I : k = to(i)
  <2>1. ASSUME NEW k \in D PROVE \E i \in I : k = to(i)
    <3>1. k \in 1..Len(out) /\ out[k].piece = "script" /\ out[k].mark = "deferred"
      BY DEF ScriptAt
    <3>2. k # n
      BY <1>1, <3>1 DEF Bootstrap, Script
    <3>3. PICK i \in 1..Len(page) : to(i) = k
      BY <1>5, <3>1, <3>2
    <3>4. page[i].piece = "script"
      BY <1>6, <3>1, <3>3
    <3> QED BY <3>3, <3>4 DEF ScriptAt
  <2>2. ASSUME NEW i \in I PROVE to(i) \in D
    BY <1>3, <1>6 DEF ScriptAt
  <2> QED BY <2>1, <2>2
<1>8. J = {n}
  <2>1. n \in J
    BY <1>1, <1>2 DEF ScriptAt, Executable, Bootstrap, Script, JavaScript
  <2>2. ASSUME NEW k \in J PROVE k = n
    <3>1. k \in 1..Len(out) /\ out[k].piece = "script" /\ out[k].type \in JavaScript
      BY DEF ScriptAt, Executable
    <3> SUFFICES ASSUME k # n PROVE FALSE
      OBVIOUS
    <3>2. PICK i \in 1..Len(page) : to(i) = k
      BY <1>5, <3>1
    <3> QED BY <1>6, <3>1, <3>2
  <2> QED BY <2>1, <2>2
<1>9. I \in SUBSET (1..Len(page)) /\ D \in SUBSET (1..Len(out)) /\ J \in SUBSET (1..Len(out))
  BY DEF ScriptAt
<1>10. RunByParser(out) = <<Bootstrap>>
  <2> DEFINE one == 1
             p == [i \in 1..one |-> n]
             r == Picked(out, J)
  <2>1. Lists(p, one, J) /\ p[1] = n
    BY <1>8 DEF Lists
  <2>2. J \in SUBSET (1..Len(out)) /\ one \in Nat /\ 1 \in 1..one
    BY <1>9
  <2> HIDE DEF J, p, one
  <2>3. r \in Seq(U) /\ Len(r) = one /\ \A i \in 1..one : r[i] = out[p[i]]
    BY <2>1, <2>2, PickedAlong
  <2> HIDE DEF r
  <2>4. Len(r) = 1 /\ r[1] = Bootstrap
    BY <1>1, <2>1, <2>2, <2>3 DEF one
  <2>5. r = <<Bootstrap>>
    <3>1. <<Bootstrap>> \in Seq({Bootstrap}) /\ Len(<<Bootstrap>>) = 1
      OBVIOUS
    <3>2. \A i \in 1..1 : i = 1
      OBVIOUS
    <3> QED BY <2>3, <2>4, <3>1, <3>2, SeqEqual
  <2> QED BY <2>5 DEF RunByParser, r, J
<1> HIDE DEF D, I
<1>11. Follows(all, Piece(T), page, I)
  BY <1>9, PickedFollows DEF Scripts, I
<1> HIDE DEF all
<1>12. m \in Nat
  BY <1>11 DEF Follows
<1>13. PICK p : Lists(p, m, I) /\ \A i \in 1..m : all[i] = page[p[i]]
  BY <1>11 DEF Follows
<1> HIDE DEF m
<1> DEFINE q == [i \in 1..m |-> to(p[i])]
<1>14. \A i \in 1..m : p[i] \in I /\ p[i] \in 1..Len(page) /\ q[i] = to(p[i])
  BY <1>9, <1>13 DEF Lists
<1>15. Lists(q, m, D)
  <2>1. q \in [1..m -> D]
    BY <1>7, <1>14
  <2> HIDE DEF q
  <2>2. \A i, j \in 1..m : i < j => q[i] < q[j]
    BY <1>4, <1>13, <1>14 DEF Lists
  <2>3. ASSUME NEW x \in D PROVE \E i \in 1..m : q[i] = x
    <3>1. PICK k \in I : x = to(k)
      BY <1>7
    <3>2. PICK i \in 1..m : p[i] = k
      BY <1>13 DEF Lists
    <3> QED BY <1>14, <3>1, <3>2
  <2> QED BY <2>1, <2>2, <2>3 DEF Lists
<1> HIDE DEF q
<1>16. Len(held) = m /\ \A i \in 1..m : held[i] = out[q[i]]
  BY <1>9, <1>12, <1>15, PickedAlong
<1> HIDE DEF held
<1>17. \A i \in 1..m : Restored(held[i]) = AsItWas(all[i])
  <2> TAKE i \in 1..m
  <2>1. page[p[i]].piece = "script"
    BY <1>14 DEF I, ScriptAt
  <2>2. Restored(out[to(p[i])]) = AsItWas(page[p[i]])
    BY <1>6, <1>14, <2>1
  <2> QED BY <1>13, <1>14, <1>16, <2>2
<1> QED BY <1>10, <1>12, <1>16, <1>17 DEF held, D, m, all

\* A script that is awaited for ever when it is put back is a silent one.
LEMMA StuckIsSilent ==
  ASSUME NEW T, NEW s \in Element(T), NEW signals \in BOOLEAN, NEW held,
         Restored(held) = AsItWas(s),
         Awaits(Restored(held)), ~Signalled(Restored(held), signals)
  PROVE  Silent(s, signals)
<1> DEFINE r == AsItWas(s)
<1>1. r.type = s.type /\ r.src = s.src /\ r.nomodule = s.nomodule
  BY DEF AsItWas
<1>2. s.src \in BOOLEAN /\ s.nomodule \in BOOLEAN
  BY DEF Element
<1>3. Awaits(r) /\ ~Signalled(r, signals)
  OBVIOUS
<1> HIDE DEF r
<1>4. s.src \/ s.type = "module"
  BY <1>1, <1>3 DEF Awaits
<1>5. ~(s.type \in JavaScript /\ (s.nomodule => s.type = "module")) \/ ~(s.src \/ signals)
  BY <1>1, <1>3 DEF Signalled, Executable
<1>6. "module" \in JavaScript
  BY DEF JavaScript
<1>7. CASE s.src
  BY <1>5, <1>7 DEF Silent
<1>8. CASE ~s.src
  <2>1. s.type = "module"
    BY <1>4, <1>8
  <2>2. ~signals
    BY <1>5, <1>6, <2>1
  <2> QED BY <1>8, <2>1, <2>2 DEF Silent
<1> QED BY <1>2, <1>7, <1>8

\* The scripts are put back in the order of the page, as they were, up to one
\* that never signals its end.  (runDeferredScripts)
THEOREM DeferredRunInOrderCorrect ==
  ASSUME NEW T, NEW page \in Seq(Piece(T)), NEW U, NEW out \in Seq(U), NEW n,
         Gated(page, out, n), NEW signals \in BOOLEAN
  PROVE  LET all == Scripts(page)
             run == RunDeferred(out, signals) IN
         /\ \A i \in 1..Len(run) : run[i] = AsItWas(all[i])
         /\ Len(run) = Len(all) \/ Silent(all[Len(run)], signals)
<1> DEFINE all == Scripts(page)
           held == Picked(out, {i \in ScriptAt(out) : out[i].mark = "deferred"})
           run == RunDeferred(out, signals)
           Stops(s) == Awaits(Restored(s)) /\ ~Signalled(Restored(s), signals)
           At0 == {i \in 1..Len(held) : Stops(held[i])}
           stuck == IF At0 # {} THEN Min(At0) ELSE 0
           k == IF stuck = 0 THEN Len(held) ELSE stuck
<1>1. /\ Len(all) \in Nat /\ Len(held) = Len(all)
      /\ \A i \in 1..Len(all) : Restored(held[i]) = AsItWas(all[i])
  BY GatedScripts
<1>2. run = [i \in 1..k |-> Restored(held[i])]
  BY DEF RunDeferred, SelectInSeq
<1>3. \A i \in 1..Len(all) : all[i] \in Element(T)
  <2> DEFINE I == ScriptAt(page)
  <2>1. I \in SUBSET (1..Len(page))
    BY DEF ScriptAt
  <2>2. Follows(all, Piece(T), page, I)
    BY <2>1, PickedFollows DEF Scripts
  <2> HIDE DEF all, I
  <2>3. PICK p : Lists(p, Len(all), I) /\ \A i \in 1..Len(all) : all[i] = page[p[i]]
    BY <2>2 DEF Follows
  <2>4. ASSUME NEW j \in I PROVE page[j] \in Element(T)
    <3>1. page[j].piece = "script" /\ page[j] \in Piece(T)
      BY DEF I, ScriptAt
    <3>2. HeadEnd.piece # "script"
      BY DEF HeadEnd
    <3> QED BY <3>1, <3>2 DEF Piece
  <2>5. ASSUME NEW i \in 1..Len(all) PROVE p[i] \in I
    BY <2>3 DEF Lists
  <2> QED BY <2>3, <2>4, <2>5
<1> HIDE DEF all, held, run
<1>4. stuck = 0 \/ (stuck \in 1..Len(held) /\ Stops(held[stuck]))
  <2>1. CASE At0 = {}
    BY <2>1
  <2>2. CASE At0 # {}
    <3>1. At0 \in SUBSET Nat
      OBVIOUS
    <3> HIDE DEF At0
    <3>2. Min(At0) \in At0
      BY <2>2, <3>1, LeastIsMin
    <3>3. stuck = Min(At0)
      BY <2>2
    <3> HIDE DEF stuck
    <3>4. stuck \in At0
      BY <3>2, <3>3
    <3> QED BY <3>4 DEF At0
  <2> QED BY <2>1, <2>2
<1> HIDE DEF stuck
<1>5. k \in Nat /\ k <= Len(all)
  BY <1>1, <1>4
<1> HIDE DEF k
<1>6. Len(run) = k
  <2> DEFINE f(i) == Restored(held[i])
             R == {f(i) : i \in 1..k}
  <2>1. run = [i \in 1..k |-> f(i)] /\ k \in Nat
    BY <1>2, <1>5
  <2>2. \A i \in 1..k : f(i) \in R
    OBVIOUS
  <2> HIDE DEF f, R
  <2>3. [i \in 1..k |-> f(i)] \in Seq(R) /\ Len([i \in 1..k |-> f(i)]) = k
    BY <2>1, <2>2
  <2> QED BY <2>1, <2>3
<1>7. \A i \in 1..k : run[i] = AsItWas(all[i])
  BY <1>1, <1>2, <1>5
<1>8. k = Len(all) \/ Silent(all[k], signals)
  <2>1. CASE stuck = 0
    BY <1>1, <2>1 DEF k
  <2>2. CASE stuck # 0
    <3>1. k \in 1..Len(all) /\ Stops(held[k])
      BY <1>1, <1>4, <2>2 DEF k
    <3>2. Restored(held[k]) = AsItWas(all[k]) /\ all[k] \in Element(T)
      BY <1>1, <1>3, <3>1
    <3> QED BY <3>1, <3>2, StuckIsSilent
  <2> QED BY <2>1, <2>2
<1> QED BY <1>6, <1>7, <1>8 DEF all, run

-----------------------------------------------------------------------------
(***************************************************************************)
(* Event streams.                                                          *)
(***************************************************************************)

\* A reader with a buffer l, data lines d, and events e.
Reader(l, d, e) == [line |-> l, data |-> d, events |-> e]

\* The buffer is not looked at when a line is handled.
LEMMA HandledLine ==
  ASSUME NEW d, NEW e, NEW x
  PROVE  \E d2, e2 : \A l : HandleLine(Reader(l, d, e), x) = Reader(l, d2, e2)
<1>1. CASE x = <<>> /\ d = <<>>
  BY <1>1 DEF HandleLine, Reader
<1>2. CASE x = <<>> /\ d # <<>>
  <2>1. \A l : HandleLine(Reader(l, d, e), x) = Reader(l, <<>>, Append(e, JoinedLines(d)))
    BY <1>2 DEF HandleLine, Reader
  <2> QED BY <2>1
<1>3. CASE x # <<>> /\ Head(x) = Data
  <2>1. \A l : HandleLine(Reader(l, d, e), x)
                 = Reader(l, Append(d, Payload(x)), e)
    BY <1>3 DEF HandleLine, Reader
  <2> QED BY <2>1
<1>4. CASE x # <<>> /\ Head(x) # Data
  <2>1. \A l : HandleLine(Reader(l, d, e), x) = Reader(l, d, e)
    BY <1>4 DEF HandleLine, Reader
  <2> QED BY <2>1
<1> QED BY <1>1, <1>2, <1>3, <1>4

\* What is taken off a buffer, and what stays.
LEMMA TakenLine ==
  ASSUME NEW l, NEW d, NEW e
  PROVE  TakeLine(Reader(l, d, e)) =
           IF First(l, LF) = 0 THEN Reader(l, d, e)
           ELSE HandleLine(Reader(SubSeq(l, First(l, LF) + 1, Len(l)), d, e),
                           TrimSuffix(SubSeq(l, 1, First(l, LF) - 1), CR))
<1>1. Reader(l, d, e).line = l
  BY DEF Reader
<1>2. \A m : [Reader(l, d, e) EXCEPT !.line = m] = Reader(m, d, e)
  BY DEF Reader
<1>3. TakeLine(Reader(l, d, e)) =
        IF First(l, LF) = 0 THEN Reader(l, d, e)
        ELSE HandleLine([Reader(l, d, e) EXCEPT !.line = SubSeq(l, First(l, LF) + 1, Len(l))],
                        TrimSuffix(SubSeq(l, 1, First(l, LF) - 1), CR))
  BY <1>1 DEF TakeLine, First, At, SelectInSeq
<1> QED BY <1>2, <1>3

\* The first line of a buffer is that of a longer one, whose rest is longer.
LEMMA LongerBuffer ==
  ASSUME NEW C, NEW l \in Seq(C), NEW b \in Seq(C), First(l, LF) # 0
  PROVE  LET n == First(l, LF)
             r == SubSeq(l, n + 1, Len(l))
         IN /\ r \in Seq(C) /\ Len(r) < Len(l)
            /\ First(l \o b, LF) = n
            /\ SubSeq(l \o b, 1, n - 1) = SubSeq(l, 1, n - 1)
            /\ SubSeq(l \o b, n + 1, Len(l \o b)) = r \o b
<1> DEFINE n == First(l, LF)
           r == SubSeq(l, n + 1, Len(l))
           k == l \o b
<1>1. n \in 1..Len(l) /\ l[n] = LF /\ \A i \in 1..Len(l) : i < n => l[i] # LF
  BY FirstIs
<1>2. k \in Seq(C) /\ Joins(k, l, b)
  BY Prefixed
<1>3. Len(l) \in Nat /\ Len(b) \in Nat
  OBVIOUS
<1> HIDE DEF n, k
<1>4. First(k, LF) = n
  <2> DEFINE m == First(k, LF)
  <2>1. \/ m = 0 /\ \A i \in 1..Len(k) : k[i] # LF
        \/ m \in 1..Len(k) /\ k[m] = LF /\ \A i \in 1..Len(k) : i < m => k[i] # LF
    BY <1>2, FirstIs
  <2> HIDE DEF m
  <2>2. n \in 1..Len(k) /\ k[n] = LF /\ \A i \in 1..Len(k) : i < n => k[i] # LF
    <3>1. n \in 1..Len(k) /\ k[n] = LF
      BY <1>1, <1>2, <1>3 DEF Joins
    <3>2. ASSUME NEW i \in 1..Len(k), i < n PROVE k[i] # LF
      <4>1. i \in 1..Len(l)
        BY <1>1, <3>2
      <4> QED BY <1>1, <1>2, <3>2, <4>1 DEF Joins
    <3> QED BY <3>1, <3>2
  <2>3. m = n
    BY <2>1, <2>2
  <2> QED BY <2>3 DEF m
<1>5. SubSeq(k, 1, n - 1) = SubSeq(l, 1, n - 1)
  <2>1. \A i \in 1..(n - 1) : k[i] = l[i] /\ l[i] \in C
    BY <1>1, <1>2, <1>3 DEF Joins
  <2>2. /\ SubSeq(k, 1, n - 1) \in Seq(C) /\ SubSeq(l, 1, n - 1) \in Seq(C)
        /\ Len(SubSeq(k, 1, n - 1)) = Len(SubSeq(l, 1, n - 1))
        /\ \A i \in 1..(n - 1 - 1 + 1) : SubSeq(k, 1, n - 1)[i] = k[1 + i - 1]
                                      /\ SubSeq(l, 1, n - 1)[i] = l[1 + i - 1]
        /\ Len(SubSeq(k, 1, n - 1)) = IF 1 <= n - 1 THEN n - 1 - 1 + 1 ELSE 0
    BY <1>1, <1>3, <2>1, SubSeqProperties
  <2>3. \A i \in 1..Len(SubSeq(k, 1, n - 1)) : SubSeq(k, 1, n - 1)[i] = SubSeq(l, 1, n - 1)[i]
    BY <1>1, <1>3, <2>1, <2>2
  <2> QED BY <2>2, <2>3, SeqEqual
<1>6. r \in Seq(C) /\ Len(r) = Len(l) - n /\ \A i \in 1..(Len(l) - n) : r[i] = l[n + i]
  <2>1. \A i \in (n + 1)..Len(l) : l[i] \in C
    BY <1>1, <1>3
  <2>2. /\ r \in Seq(C) /\ Len(r) = IF n + 1 <= Len(l) THEN Len(l) - (n + 1) + 1 ELSE 0
        /\ \A i \in 1..(Len(l) - (n + 1) + 1) : r[i] = l[n + 1 + i - 1]
    BY <1>1, <1>3, <2>1, SubSeqProperties
  <2> QED BY <1>1, <1>3, <2>2
<1> HIDE DEF r
<1>7. SubSeq(k, n + 1, Len(k)) = r \o b
  <2> DEFINE q == SubSeq(k, n + 1, Len(k))
             z == r \o b
  <2>1. \A i \in (n + 1)..Len(k) : k[i] \in C
    BY <1>1, <1>2, <1>3 DEF Joins
  <2>2. n + 1 \in Int /\ Len(k) \in Int
    BY <1>1, <1>2, <1>3
  <2>3. /\ q \in Seq(C) /\ Len(q) = IF n + 1 <= Len(k) THEN Len(k) - (n + 1) + 1 ELSE 0
        /\ \A i \in 1..(Len(k) - (n + 1) + 1) : q[i] = k[n + 1 + i - 1]
    BY <2>1, <2>2, SubSeqProperties
  <2>4. z \in Seq(C) /\ Joins(z, r, b)
    BY <1>6, Prefixed
  <2> HIDE DEF q, z
  <2>5. Len(q) = Len(z)
    BY <1>1, <1>2, <1>3, <1>6, <2>3, <2>4 DEF Joins
  <2>6. ASSUME NEW i \in 1..Len(q) PROVE q[i] = z[i]
    <3>1. q[i] = k[n + i]
      <4>1. Len(k) = Len(l) + Len(b)
        BY <1>2 DEF Joins
      <4>2. i \in 1..(Len(k) - (n + 1) + 1)
        BY <1>1, <1>3, <2>3, <4>1
      <4>3. n + 1 + i - 1 = n + i
        BY <1>1, <1>3, <4>2
      <4> QED BY <2>3, <4>2, <4>3
    <3>2. CASE i <= Len(l) - n
      BY <1>1, <1>2, <1>3, <1>6, <2>4, <3>1, <3>2 DEF Joins
    <3>3. CASE ~ (i <= Len(l) - n)
      <4> DEFINE j == i - (Len(l) - n)
      <4>1. j \in 1..Len(b) /\ n + i = Len(l) + j /\ i = Len(r) + j
        BY <1>1, <1>2, <1>3, <1>6, <2>4, <2>5, <3>3 DEF Joins
      <4> HIDE DEF j
      <4>2. k[Len(l) + j] = b[j] /\ z[Len(r) + j] = b[j]
        BY <1>2, <2>4, <4>1 DEF Joins
      <4> QED BY <3>1, <4>1, <4>2
    <3> QED BY <3>2, <3>3
  <2> QED BY <2>3, <2>4, <2>5, <2>6, SeqEqual DEF q, z
<1>8. Len(r) < Len(l)
  BY <1>1, <1>3, <1>6
<1> QED BY <1>4, <1>5, <1>6, <1>7, <1>8 DEF n, r, k

\* The sequence of the readers that taking lines from t goes through.
Steps(t) == CHOOSE g : g = [n \in Nat |-> IF n = 0 THEN t ELSE TakeLine(g[n - 1])]

\* The first n of them.
FirstSteps(g, t, n) == g[0] = t /\ \A i \in 0..(n - 1) : g[i + 1] = TakeLine(g[i])

\* The recursion is well defined: there is such a sequence.
LEMMA StepsAre ==
  ASSUME NEW t
  PROVE  Steps(t)[0] = t /\ \A n \in Nat : Steps(t)[n + 1] = TakeLine(Steps(t)[n])
<1> DEFINE I == {n \in Nat : \E g : FirstSteps(g, t, n)}
<1>1. 0 \in I
  <2>1. FirstSteps([i \in 0..0 |-> t], t, 0)
    BY DEF FirstSteps
  <2> QED BY <2>1
<1>2. ASSUME NEW n \in Nat, n \in I PROVE n + 1 \in I
  <2>1. PICK g : FirstSteps(g, t, n)
    BY <1>2
  <2> DEFINE h == [i \in 0..(n + 1) |-> IF i = n + 1 THEN TakeLine(g[n]) ELSE g[i]]
  <2>2. h[0] = t
    BY <2>1 DEF FirstSteps
  <2>3. ASSUME NEW i \in 0..((n + 1) - 1) PROVE h[i + 1] = TakeLine(h[i])
    <3>1. i \in 0..n /\ h[i] = g[i]
      OBVIOUS
    <3>2. CASE i = n
      BY <3>1, <3>2
    <3>3. CASE i # n
      <4>1. i \in 0..(n - 1) /\ h[i + 1] = g[i + 1]
        BY <3>3
      <4> QED BY <2>1, <3>1, <4>1 DEF FirstSteps
    <3> QED BY <3>2, <3>3
  <2> HIDE DEF h
  <2>4. FirstSteps(h, t, n + 1)
    BY <2>2, <2>3 DEF FirstSteps
  <2> QED BY <2>4
<1> DEFINE U == {n \in Nat : \A g, h : FirstSteps(g, t, n) /\ FirstSteps(h, t, n + 1) => g[n] = h[n]}
<1>3. 0 \in U
  BY DEF FirstSteps
<1>4. ASSUME NEW n \in Nat, n \in U PROVE n + 1 \in U
  <2>1. SUFFICES ASSUME NEW g, NEW h, FirstSteps(g, t, n + 1), FirstSteps(h, t, n + 1 + 1)
                 PROVE  g[n + 1] = h[n + 1]
    OBVIOUS
  <2>2. FirstSteps(g, t, n) /\ FirstSteps(h, t, n + 1)
    BY <2>1 DEF FirstSteps
  <2>3. g[n] = h[n]
    BY <1>4, <2>2
  <2>4. n \in 0..(n + 1 - 1) /\ n \in 0..(n + 1 + 1 - 1)
    OBVIOUS
  <2> QED BY <2>1, <2>3, <2>4 DEF FirstSteps
<1> HIDE DEF I, U
<1>5. \A n \in Nat : n \in I
  BY <1>1, <1>2, Induction
<1>6. \A n \in Nat : n \in U
  BY <1>3, <1>4, Induction
<1> DEFINE A(n) == CHOOSE g : FirstSteps(g, t, n)
           G == [n \in Nat |-> A(n)[n]]
<1>7. \A n \in Nat : FirstSteps(A(n), t, n)
  BY <1>5 DEF I
<1>8. \A n \in Nat : A(n)[n] = A(n + 1)[n]
  <2> TAKE n \in Nat
  <2>1. FirstSteps(A(n), t, n) /\ FirstSteps(A(n + 1), t, n + 1)
    BY <1>7
  <2> HIDE DEF A
  <2> QED BY <1>6, <2>1 DEF U
<1> HIDE DEF A
<1>9. G[0] = t
  BY <1>7 DEF FirstSteps
<1>10. ASSUME NEW n \in Nat PROVE G[n + 1] = TakeLine(G[n])
  <2>1. FirstSteps(A(n + 1), t, n + 1) /\ n \in 0..(n + 1 - 1)
    BY <1>7
  <2>2. A(n + 1)[n + 1] = TakeLine(A(n + 1)[n])
    BY <2>1 DEF FirstSteps
  <2> QED BY <1>8, <2>2
<1>11. G = [n \in Nat |-> IF n = 0 THEN t ELSE TakeLine(G[n - 1])]
  <2>1. ASSUME NEW n \in Nat PROVE G[n] = IF n = 0 THEN t ELSE TakeLine(G[n - 1])
    <3>1. CASE n = 0
      BY <1>9, <3>1
    <3>2. CASE n # 0
      <4>1. n - 1 \in Nat /\ n = (n - 1) + 1
        BY <3>2
      <4>2. G[(n - 1) + 1] = TakeLine(G[n - 1])
        BY <1>10, <4>1
      <4> QED BY <3>2, <4>1, <4>2
    <3> QED BY <3>1, <3>2
  <2> DEFINE H == [n \in Nat |-> IF n = 0 THEN t ELSE TakeLine(G[n - 1])]
  <2>2. \A n \in Nat : G[n] = H[n]
    BY <2>1
  <2>3. G = [n \in Nat |-> G[n]] /\ H = [n \in Nat |-> H[n]]
    OBVIOUS
  <2> QED BY <2>2, <2>3
<1> HIDE DEF G
<1>12. Steps(t) = [n \in Nat |-> IF n = 0 THEN t ELSE TakeLine(Steps(t)[n - 1])]
  BY <1>11 DEF Steps
<1> DEFINE s == Steps(t)
<1> HIDE DEF s
<1>13. s = [n \in Nat |-> IF n = 0 THEN t ELSE TakeLine(s[n - 1])]
  BY <1>12 DEF s
<1>14. s[0] = t
  BY <1>13
<1>15. ASSUME NEW n \in Nat PROVE s[n + 1] = TakeLine(s[n])
  <2>1. n + 1 \in Nat /\ n + 1 # 0 /\ (n + 1) - 1 = n
    OBVIOUS
  <2> QED BY <1>13, <2>1
<1> QED BY <1>14, <1>15 DEF s

\* TakeLines is as many rounds as there are characters.
LEMMA LinesTaken ==
  ASSUME NEW t
  PROVE  TakeLines(t) = Steps(t)[Len(t.line)]
BY DEF TakeLines, Steps

\* One step now or later.
LEMMA StepFirst ==
  ASSUME NEW t
  PROVE  \A n \in Nat : Steps(t)[n + 1] = Steps(TakeLine(t))[n]
<1> DEFINE I == {n \in Nat : Steps(t)[n + 1] = Steps(TakeLine(t))[n]}
<1>1. 0 \in I
  BY StepsAre
<1>2. ASSUME NEW n \in Nat, n \in I PROVE n + 1 \in I
  <2>1. Steps(t)[(n + 1) + 1] = TakeLine(Steps(t)[n + 1])
    BY StepsAre
  <2>2. Steps(TakeLine(t))[n + 1] = TakeLine(Steps(TakeLine(t))[n])
    BY StepsAre
  <2> QED BY <1>2, <2>1, <2>2
<1> HIDE DEF I
<1>3. \A n \in Nat : n \in I
  BY <1>1, <1>2, Induction
<1> QED BY <1>3 DEF I

\* With no line to take, nothing changes.
LEMMA StepsStay ==
  ASSUME NEW t, TakeLine(t) = t
  PROVE  \A n \in Nat : Steps(t)[n] = t
<1> DEFINE I == {n \in Nat : Steps(t)[n] = t}
<1>1. 0 \in I
  BY StepsAre
<1>2. ASSUME NEW n \in Nat, n \in I PROVE n + 1 \in I
  BY <1>2, StepsAre
<1> HIDE DEF I
<1>3. \A n \in Nat : n \in I
  BY <1>1, <1>2, Induction
<1> QED BY <1>3 DEF I

\* What taking a line does does not depend on what follows it.
TakesOne(C, l, d, e) ==
  \E l2 \in Seq(C) : \E d2, e2 :
    /\ Len(l2) < Len(l) /\ TakeLine(Reader(l, d, e)) = Reader(l2, d2, e2)
    /\ \A b \in Seq(C) : TakeLine(Reader(l \o b, d, e)) = Reader(l2 \o b, d2, e2)

\* A round does nothing without a line end, and takes one line otherwise.
LEMMA LineTaken ==
  ASSUME NEW C, NEW l \in Seq(C), NEW d, NEW e
  PROVE  \/ First(l, LF) = 0 /\ TakeLine(Reader(l, d, e)) = Reader(l, d, e)
         \/ First(l, LF) # 0 /\ TakesOne(C, l, d, e)
<1>1. CASE First(l, LF) = 0
  BY <1>1, TakenLine
<1>2. CASE First(l, LF) # 0
  <2> DEFINE n == First(l, LF)
             r == SubSeq(l, n + 1, Len(l))
             x == TrimSuffix(SubSeq(l, 1, n - 1), CR)
  <2>1. PICK d2, e2 : \A k : HandleLine(Reader(k, d, e), x) = Reader(k, d2, e2)
    BY HandledLine
  <2>2. r \in Seq(C) /\ Len(r) < Len(l)
    <3>1. <<>> \in Seq(C)
      OBVIOUS
    <3> QED BY <1>2, <3>1, LongerBuffer
  <2>3. TakeLine(Reader(l, d, e)) = Reader(r, d2, e2)
    BY <1>2, <2>1, TakenLine
  <2>4. ASSUME NEW b \in Seq(C)
        PROVE  TakeLine(Reader(l \o b, d, e)) = Reader(r \o b, d2, e2)
    <3>1. /\ First(l \o b, LF) = n
          /\ SubSeq(l \o b, 1, n - 1) = SubSeq(l, 1, n - 1)
          /\ SubSeq(l \o b, n + 1, Len(l \o b)) = r \o b
      BY <1>2, LongerBuffer
    <3>2. TakeLine(Reader(l \o b, d, e)) = HandleLine(Reader(r \o b, d, e), x)
      BY <1>2, <3>1, TakenLine
    <3> QED BY <2>1, <3>2
  <2> HIDE DEF r
  <2> QED BY <1>2, <2>2, <2>3, <2>4 DEF TakesOne
<1> QED BY <1>1, <1>2

\* As many steps as there are characters are enough.
Settles(l, d, e) ==
  \A k \in Nat : k >= Len(l) => Steps(Reader(l, d, e))[k] = TakeLines(Reader(l, d, e))

\* As many rounds as there are characters are enough.
LEMMA StepsSettle ==
  ASSUME NEW C, NEW l \in Seq(C), NEW d, NEW e
  PROVE  Settles(l, d, e)
<1> DEFINE I == {n \in Nat : \A m \in Seq(C) : \A x, y : Len(m) <= n => Settles(m, x, y)}
<1>1. ASSUME NEW m \in Seq(C), NEW x, NEW y, First(m, LF) = 0
      PROVE  Settles(m, x, y)
  <2>1. TakeLine(Reader(m, x, y)) = Reader(m, x, y)
    BY <1>1, TakenLine
  <2>2. \A k \in Nat : Steps(Reader(m, x, y))[k] = Reader(m, x, y)
    BY <2>1, StepsStay
  <2>3. TakeLines(Reader(m, x, y)) = Steps(Reader(m, x, y))[Len(m)] /\ Len(m) \in Nat
    BY LinesTaken DEF Reader
  <2> QED BY <2>2, <2>3 DEF Settles
<1>2. 0 \in I
  <2>1. ASSUME NEW m \in Seq(C), Len(m) <= 0 PROVE First(m, LF) = 0
    BY <2>1, FirstIs
  <2> QED BY <1>1, <2>1
<1>3. ASSUME NEW n \in Nat, n \in I PROVE n + 1 \in I
  <2>1. SUFFICES ASSUME NEW m \in Seq(C), NEW x, NEW y, Len(m) <= n + 1
                 PROVE  Settles(m, x, y)
    OBVIOUS
  <2>2. CASE First(m, LF) = 0
    BY <1>1, <2>2
  <2>3. CASE First(m, LF) # 0
    <3>1. PICK m2, x2, y2 :
            m2 \in Seq(C) /\ Len(m2) < Len(m) /\ TakeLine(Reader(m, x, y)) = Reader(m2, x2, y2)
      BY <2>3, LineTaken DEF TakesOne
    <3>2. Len(m2) \in Nat /\ Len(m) \in Nat /\ Len(m2) <= n
      BY <2>1, <3>1
    <3>3. Settles(m2, x2, y2)
      BY <1>3, <3>1, <3>2
    <3>4. ASSUME NEW k \in Nat, k >= Len(m)
          PROVE  Steps(Reader(m, x, y))[k] = TakeLines(Reader(m2, x2, y2))
      <4>1. k - 1 \in Nat /\ k - 1 >= Len(m2) /\ (k - 1) + 1 = k
        BY <3>1, <3>2, <3>4
      <4>2. Steps(Reader(m, x, y))[(k - 1) + 1] = Steps(Reader(m2, x2, y2))[k - 1]
        BY <3>1, <4>1, StepFirst
      <4> QED BY <3>3, <4>1, <4>2 DEF Settles
    <3>5. TakeLines(Reader(m, x, y)) = Steps(Reader(m, x, y))[Len(m)]
      BY LinesTaken DEF Reader
    <3>6. Len(m) >= Len(m)
      BY <3>2
    <3> QED BY <3>2, <3>4, <3>5, <3>6 DEF Settles
  <2> QED BY <2>2, <2>3
<1> HIDE DEF I
<1>4. \A n \in Nat : n \in I
  BY <1>2, <1>3, Induction
<1>5. Len(l) \in Nat /\ Len(l) <= Len(l)
  OBVIOUS
<1> QED BY <1>4, <1>5 DEF I

\* A line that is there is taken first; without one, nothing changes.
LEMMA LinesFirst ==
  ASSUME NEW C, NEW l \in Seq(C), NEW d, NEW e
  PROVE  TakeLines(Reader(l, d, e)) = TakeLines(TakeLine(Reader(l, d, e)))
<1> DEFINE t == Reader(l, d, e)
<1>1. CASE First(l, LF) = 0
  BY <1>1, LineTaken
<1>2. CASE First(l, LF) # 0
  <2>1. PICK l2, d2, e2 :
          l2 \in Seq(C) /\ Len(l2) < Len(l) /\ TakeLine(t) = Reader(l2, d2, e2)
    BY <1>2, LineTaken DEF TakesOne
  <2>2. /\ Len(l) - 1 \in Nat /\ Len(l) - 1 >= Len(l2) /\ (Len(l) - 1) + 1 = Len(l)
        /\ Len(l) \in Nat /\ Len(l) >= Len(l)
    BY <2>1
  <2>3. Steps(t)[(Len(l) - 1) + 1] = Steps(TakeLine(t))[Len(l) - 1]
    BY <2>2, StepFirst
  <2>4. Steps(TakeLine(t))[Len(l) - 1] = TakeLines(TakeLine(t))
    BY <2>1, <2>2, StepsSettle DEF Settles
  <2>5. TakeLines(t) = Steps(t)[Len(l)]
    BY LinesTaken DEF Reader
  <2> QED BY <2>2, <2>3, <2>4, <2>5
<1> QED BY <1>1, <1>2

\* Without a line end no line is taken.
LEMMA NoLine ==
  ASSUME NEW C, NEW l \in Seq(C), NEW d, NEW e, First(l, LF) = 0
  PROVE  TakeLines(Reader(l, d, e)) = Reader(l, d, e)
<1>1. TakeLine(Reader(l, d, e)) = Reader(l, d, e)
  BY TakenLine
<1>2. TakeLines(Reader(l, d, e)) = Steps(Reader(l, d, e))[Len(l)] /\ Len(l) \in Nat
  BY LinesTaken DEF Reader
<1> QED BY <1>1, <1>2, StepsStay

\* The lines of a buffer can be taken before more characters arrive.
TakesFirst(C, l, d, e) ==
  \E l2 \in Seq(C) : \E d2, e2 :
    /\ TakeLines(Reader(l, d, e)) = Reader(l2, d2, e2)
    /\ \A b \in Seq(C) : TakeLines(Reader(l \o b, d, e)) = TakeLines(Reader(l2 \o b, d2, e2))

\* Lines may be taken before or after more characters arrive.
LEMMA LinesTakenFirst ==
  ASSUME NEW C, NEW l \in Seq(C), NEW d, NEW e
  PROVE  TakesFirst(C, l, d, e)
<1> DEFINE I == {n \in Nat : \A m \in Seq(C) : \A x, y : Len(m) <= n => TakesFirst(C, m, x, y)}
<1>1. ASSUME NEW m \in Seq(C), NEW x, NEW y, First(m, LF) = 0
      PROVE  TakesFirst(C, m, x, y)
  <2>1. TakeLines(Reader(m, x, y)) = Reader(m, x, y)
    BY <1>1, NoLine
  <2> QED BY <2>1 DEF TakesFirst
<1>2. 0 \in I
  <2>1. ASSUME NEW m \in Seq(C), Len(m) <= 0 PROVE First(m, LF) = 0
    BY <2>1, FirstIs
  <2> QED BY <1>1, <2>1
<1>3. ASSUME NEW n \in Nat, n \in I PROVE n + 1 \in I
  <2>1. SUFFICES ASSUME NEW m \in Seq(C), NEW x, NEW y, Len(m) <= n + 1
                 PROVE  TakesFirst(C, m, x, y)
    OBVIOUS
  <2>2. CASE First(m, LF) = 0
    BY <1>1, <2>2
  <2>3. CASE First(m, LF) # 0
    <3>1. PICK m2, x2, y2 :
            /\ m2 \in Seq(C)
            /\ Len(m2) < Len(m) /\ TakeLine(Reader(m, x, y)) = Reader(m2, x2, y2)
            /\ \A b \in Seq(C) : TakeLine(Reader(m \o b, x, y)) = Reader(m2 \o b, x2, y2)
      BY <2>3, LineTaken DEF TakesOne
    <3>2. Len(m2) \in Nat /\ Len(m) \in Nat /\ Len(m2) <= n
      BY <2>1, <3>1
    <3>3. TakesFirst(C, m2, x2, y2)
      BY <1>3, <3>1, <3>2
    <3>4. TakeLines(Reader(m, x, y)) = TakeLines(Reader(m2, x2, y2))
      BY <3>1, LinesFirst
    <3>5. ASSUME NEW b \in Seq(C)
          PROVE  TakeLines(Reader(m \o b, x, y)) = TakeLines(Reader(m2 \o b, x2, y2))
      <4>1. m \o b \in Seq(C)
        OBVIOUS
      <4>2. TakeLines(Reader(m \o b, x, y)) = TakeLines(TakeLine(Reader(m \o b, x, y)))
        BY <4>1, LinesFirst
      <4> QED BY <3>1, <4>2
    <3> QED BY <3>3, <3>4, <3>5 DEF TakesFirst
  <2> QED BY <2>2, <2>3
<1> HIDE DEF I
<1>4. \A n \in Nat : n \in I
  BY <1>2, <1>3, Induction
<1>5. Len(l) \in Nat /\ Len(l) <= Len(l)
  OBVIOUS
<1> QED BY <1>4, <1>5 DEF I

\* A chunk is put at the end of the buffer, and the lines are taken.
LEMMA FedOnce ==
  ASSUME NEW l, NEW d, NEW e, NEW c
  PROVE  Feed(Reader(l, d, e), c) = TakeLines(Reader(l \o c, d, e))
<1>1. Reader(l, d, e).line = l
  BY DEF Reader
<1>2. \A m : [Reader(l, d, e) EXCEPT !.line = m] = Reader(m, d, e)
  BY DEF Reader
<1>3. Feed(Reader(l, d, e), c) = TakeLines([Reader(l, d, e) EXCEPT !.line = l \o c])
  BY <1>1 DEF Feed
<1> QED BY <1>2, <1>3

\* Two chunks that are fed one after the other are fed as one.
LEMMA FedTwice ==
  ASSUME NEW C, NEW l \in Seq(C), NEW d, NEW e, NEW a \in Seq(C), NEW b \in Seq(C)
  PROVE  Feed(Feed(Reader(l, d, e), a), b) = Feed(Reader(l, d, e), a \o b)
<1> DEFINE k == l \o a
<1>1. k \in Seq(C)
  OBVIOUS
<1>2. k \o b = l \o (a \o b)
  BY ConcatAssociative
<1>3. Feed(Reader(l, d, e), a) = TakeLines(Reader(k, d, e))
  BY FedOnce
<1> HIDE DEF k
<1>4. TakesFirst(C, k, d, e)
  BY <1>1, LinesTakenFirst
<1>5. PICK l2, d2, e2 :
        /\ l2 \in Seq(C)
        /\ TakeLines(Reader(k, d, e)) = Reader(l2, d2, e2)
        /\ TakeLines(Reader(k \o b, d, e)) = TakeLines(Reader(l2 \o b, d2, e2))
  BY <1>4 DEF TakesFirst
<1>6. Feed(Reader(l2, d2, e2), b) = TakeLines(Reader(l2 \o b, d2, e2))
  BY FedOnce
<1>7. Feed(Reader(l, d, e), a \o b) = TakeLines(Reader(l \o (a \o b), d, e))
  BY FedOnce
<1>8. Feed(Feed(Reader(l, d, e), a), b) = Feed(Reader(l2, d2, e2), b)
  BY <1>3, <1>5
<1> QED BY <1>2, <1>5, <1>6, <1>7, <1>8

\* Nothing fed, nothing done.
LEMMA FedNothing == Feed(NewReader, <<>>) = NewReader
<1>1. NewReader = Reader(<<>>, <<>>, <<>>)
  BY DEF NewReader, Reader
<1>2. Feed(Reader(<<>>, <<>>, <<>>), <<>>) = TakeLines(Reader(<<>> \o <<>>, <<>>, <<>>))
  BY FedOnce
<1>3. <<>> \o <<>> = <<>>
  OBVIOUS
<1>4. <<>> \in Seq({0}) /\ First(<<>>, LF) = 0
  <2>1. <<>> \in Seq({0}) /\ At(<<>>, LF) = {}
    BY DEF At
  <2> QED BY <2>1 DEF First
<1>5. TakeLines(Reader(<<>>, <<>>, <<>>)) = Reader(<<>>, <<>>, <<>>)
  BY <1>4, NoLine
<1> QED BY <1>1, <1>2, <1>3, <1>5

\* How the body of a response is cut when it is read: chunk i + 1 goes from
\* at[i] to at[i + 1].
Cuts(s, n) ==
  {at \in [0..n -> 0..Len(s)] : /\ at[0] = 0 /\ at[n] = Len(s)
                                /\ \A i \in 1..n : at[i - 1] <= at[i]}

Chunks(s, n, at) == [i \in 1..n |-> SubSeq(s, at[i - 1] + 1, at[i])]

\* A prefix and the chunk after it are the prefix that ends with the chunk.
LEMMA PrefixAndChunk ==
  ASSUME NEW C, NEW s \in Seq(C), NEW i \in 0..Len(s), NEW j \in 0..Len(s), i <= j
  PROVE  /\ SubSeq(s, 1, i) \in Seq(C) /\ SubSeq(s, i + 1, j) \in Seq(C)
         /\ SubSeq(s, 1, i) \o SubSeq(s, i + 1, j) = SubSeq(s, 1, j)
<1> DEFINE a == SubSeq(s, 1, i)
           b == SubSeq(s, i + 1, j)
           p == SubSeq(s, 1, j)
           r == a \o b
<1>1. Len(s) \in Nat /\ i \in Nat /\ j \in Nat /\ i <= Len(s) /\ j <= Len(s)
  OBVIOUS
<1>2. a \in Seq(C) /\ Len(a) = i /\ \A k \in 1..i : a[k] = s[k]
  <2>1. \A k \in 1..i : s[k] \in C
    BY <1>1
  <2>2. a \in Seq(C) /\ Len(a) = (IF 1 <= i THEN i - 1 + 1 ELSE 0)
        /\ \A k \in 1..(i - 1 + 1) : a[k] = s[1 + k - 1]
    BY <1>1, <2>1, SubSeqProperties
  <2> QED BY <1>1, <2>2
<1>3. b \in Seq(C) /\ Len(b) = j - i /\ \A k \in 1..(j - i) : b[k] = s[i + k]
  <2>1. \A k \in (i + 1)..j : s[k] \in C
    BY <1>1
  <2>2. b \in Seq(C) /\ Len(b) = (IF i + 1 <= j THEN j - (i + 1) + 1 ELSE 0)
        /\ \A k \in 1..(j - (i + 1) + 1) : b[k] = s[i + 1 + k - 1]
    BY <1>1, <2>1, SubSeqProperties
  <2> QED BY <1>1, <2>2
<1>4. p \in Seq(C) /\ Len(p) = j /\ \A k \in 1..j : p[k] = s[k]
  <2>1. \A k \in 1..j : s[k] \in C
    BY <1>1
  <2>2. p \in Seq(C) /\ Len(p) = (IF 1 <= j THEN j - 1 + 1 ELSE 0)
        /\ \A k \in 1..(j - 1 + 1) : p[k] = s[1 + k - 1]
    BY <1>1, <2>1, SubSeqProperties
  <2> QED BY <1>1, <2>2
<1> HIDE DEF a, b, p
<1>5. r \in Seq(C) /\ Joins(r, a, b)
  BY <1>2, <1>3, Prefixed
<1> HIDE DEF r
<1>6. Len(r) = Len(p)
  BY <1>1, <1>2, <1>3, <1>4, <1>5 DEF Joins
<1>7. ASSUME NEW k \in 1..Len(r) PROVE r[k] = p[k]
  <2>1. CASE k <= i
    BY <1>1, <1>2, <1>4, <1>5, <1>6, <2>1 DEF Joins
  <2>2. CASE ~ (k <= i)
    <3> DEFINE m == k - i
    <3>1. m \in 1..Len(b) /\ m \in 1..(j - i) /\ k = Len(a) + m /\ k = i + m /\ k \in 1..j
      BY <1>1, <1>2, <1>3, <1>4, <1>6, <2>2
    <3> HIDE DEF m
    <3>2. r[Len(a) + m] = b[m]
      BY <1>5, <3>1 DEF Joins
    <3> QED BY <1>3, <1>4, <3>1, <3>2
  <2> QED BY <2>1, <2>2
<1>8. r = p
  BY <1>4, <1>5, <1>6, <1>7, SeqEqual
<1> QED BY <1>2, <1>3, <1>8 DEF r, a, b, p

\* What the readers of chunks cs go through, by its first reader and its steps.
Reads(g, cs, m) == g[0] = NewReader /\ \A i \in 1..m : g[i] = Feed(g[i - 1], cs[i])

\* What the recursion of EventsRead goes through.
LEMMA ReadsFrom ==
  ASSUME NEW cs, NEW m \in Nat, NEW g,
         g = [i \in 0..m |-> IF i = 0 THEN NewReader ELSE Feed(g[i - 1], cs[i])]
  PROVE  Reads(g, cs, m)
<1>1. 0 \in 0..m
  OBVIOUS
<1>2. ASSUME NEW i \in 1..m PROVE i \in 0..m /\ i # 0
  OBVIOUS
<1>3. g[0] = NewReader
  BY <1>1
<1>4. ASSUME NEW i \in 1..m PROVE g[i] = Feed(g[i - 1], cs[i])
  <2>1. i \in 0..m /\ i # 0
    BY <1>2
  <2>2. [j \in 0..m |-> IF j = 0 THEN NewReader ELSE Feed(g[j - 1], cs[j])][i] = Feed(g[i - 1], cs[i])
    BY <2>1
  <2> QED BY <2>2
<1> QED BY <1>3, <1>4 DEF Reads

\* They are determined by that.
LEMMA ReadsOnce ==
  ASSUME NEW cs, NEW m \in Nat, NEW g, NEW h, Reads(g, cs, m), Reads(h, cs, m)
  PROVE  g[m] = h[m]
<1> DEFINE I == {i \in Nat : i <= m => g[i] = h[i]}
<1>1. 0 \in I
  BY DEF Reads
<1>2. ASSUME NEW i \in Nat, i \in I PROVE i + 1 \in I
  <2>1. SUFFICES ASSUME i + 1 <= m PROVE g[i + 1] = h[i + 1]
    OBVIOUS
  <2>2. g[i] = h[i] /\ i + 1 \in 1..m /\ (i + 1) - 1 = i
    BY <1>2, <2>1
  <2> QED BY <2>2 DEF Reads
<1> HIDE DEF I
<1>3. \A i \in Nat : i \in I
  BY <1>1, <1>2, Induction
<1>4. m \in I /\ m <= m
  BY <1>3
<1> QED BY <1>4 DEF I

\* However the body of a response is cut into chunks, its reader finds the same
\* events.  (prefillTrackingReadCloser.Read, feed)
THEOREM CutsDoNotShowCorrect ==
  ASSUME NEW C, NEW s \in Seq(C), NEW n \in Nat, NEW at \in Cuts(s, n)
  PROVE  EventsRead(Chunks(s, n, at)) = EventsRead(<<s>>)
<1> DEFINE T(i) == Feed(NewReader, SubSeq(s, 1, i))
<1>1. NewReader = Reader(<<>>, <<>>, <<>>) /\ <<>> \in Seq(C) /\ Len(s) \in Nat
  BY DEF NewReader, Reader
<1>2. T(0) = NewReader
  <2>1. SubSeq(s, 1, 0) = <<>>
    BY SubSeqProperties
  <2> QED BY <2>1, FedNothing
<1>3. ASSUME NEW i \in 0..Len(s), NEW j \in 0..Len(s), i <= j
      PROVE  Feed(T(i), SubSeq(s, i + 1, j)) = T(j)
  <2>1. /\ SubSeq(s, 1, i) \in Seq(C) /\ SubSeq(s, i + 1, j) \in Seq(C)
        /\ SubSeq(s, 1, i) \o SubSeq(s, i + 1, j) = SubSeq(s, 1, j)
    BY <1>3, PrefixAndChunk
  <2>2. Feed(Feed(NewReader, SubSeq(s, 1, i)), SubSeq(s, i + 1, j))
          = Feed(NewReader, SubSeq(s, 1, i) \o SubSeq(s, i + 1, j))
    <3>1. PICK l, d, e : l \in Seq(C) /\ NewReader = Reader(l, d, e)
      BY <1>1
    <3>2. \A a, b \in Seq(C) : Feed(Feed(NewReader, a), b) = Feed(NewReader, a \o b)
      BY <3>1, FedTwice
    <3> QED BY <2>1, <3>2
  <2> QED BY <2>1, <2>2
<1> HIDE DEF T
<1>4. ASSUME NEW cs, NEW m \in Nat, Len(cs) = m, NEW cut \in [0..m -> 0..Len(s)],
             cut[0] = 0, cut[m] = Len(s), \A i \in 1..m : cut[i - 1] <= cut[i],
             \A i \in 1..m : cs[i] = SubSeq(s, cut[i - 1] + 1, cut[i])
      PROVE  EventsRead(cs) = T(Len(s)).events
  <2> DEFINE Run(g) == g = [i \in 0..Len(cs) |-> IF i = 0 THEN NewReader ELSE Feed(g[i - 1], cs[i])]
             w == [i \in 0..m |-> T(cut[i])]
             g == CHOOSE h : Run(h)
  <2>1. Run(w)
    <3> DEFINE v == [i \in 0..m |-> IF i = 0 THEN NewReader ELSE Feed(w[i - 1], cs[i])]
    <3>1. ASSUME NEW i \in 0..m PROVE w[i] = IF i = 0 THEN NewReader ELSE Feed(w[i - 1], cs[i])
      <4>1. CASE i = 0
        BY <1>2, <1>4, <4>1
      <4>2. CASE i # 0
        <5>1. i \in 1..m /\ i - 1 \in 0..m
          BY <4>2
        <5>2. /\ cut[i - 1] \in 0..Len(s) /\ cut[i] \in 0..Len(s) /\ cut[i - 1] <= cut[i]
              /\ cs[i] = SubSeq(s, cut[i - 1] + 1, cut[i])
              /\ w[i - 1] = T(cut[i - 1]) /\ w[i] = T(cut[i])
          BY <1>4, <5>1
        <5>3. Feed(T(cut[i - 1]), SubSeq(s, cut[i - 1] + 1, cut[i])) = T(cut[i])
          BY <1>3, <5>2
        <5>4. w[i] = Feed(w[i - 1], cs[i])
          BY <5>2, <5>3
        <5> QED BY <4>2, <5>4
      <4> QED BY <4>1, <4>2
    <3>2. w = v
      BY <3>1
    <3> QED BY <1>4, <3>2
  <2> HIDE DEF w
  <2>2. Run(g)
    BY <2>1
  <2>3. EventsRead(cs) = g[m].events
    BY <1>4 DEF EventsRead
  <2> HIDE DEF g
  <2>4. Reads(g, cs, m)
    BY <1>4, <2>2, ReadsFrom
  <2>5. Reads(w, cs, m)
    BY <1>4, <2>1, ReadsFrom
  <2>6. g[m] = w[m]
    BY <2>4, <2>5, ReadsOnce
  <2>7. w[m] = T(Len(s))
    BY <1>4 DEF w
  <2> QED BY <2>3, <2>6, <2>7
<1>5. EventsRead(Chunks(s, n, at)) = T(Len(s)).events
  <2>1. /\ at \in [0..n -> 0..Len(s)] /\ at[0] = 0 /\ at[n] = Len(s)
        /\ \A i \in 1..n : at[i - 1] <= at[i]
    BY DEF Cuts
  <2>2. /\ Len(Chunks(s, n, at)) = n
        /\ \A i \in 1..n : Chunks(s, n, at)[i] = SubSeq(s, at[i - 1] + 1, at[i])
    <3>1. ASSUME NEW i \in 1..n PROVE SubSeq(s, at[i - 1] + 1, at[i]) \in Seq(C)
      <4>1. /\ at[i - 1] \in 0..Len(s) /\ at[i] \in 0..Len(s) /\ at[i - 1] <= at[i]
        BY <2>1, <3>1
      <4> QED BY <4>1, PrefixAndChunk
    <3> DEFINE f(i) == SubSeq(s, at[i - 1] + 1, at[i])
               c == [i \in 1..n |-> f(i)]
    <3> HIDE DEF f
    <3>2. c \in Seq(Seq(C)) /\ Len(c) = n /\ \A i \in 1..n : c[i] = f(i)
      <4>1. \A i \in 1..n : f(i) \in Seq(C)
        BY <3>1 DEF f
      <4> QED BY <4>1
    <3> QED BY <3>2 DEF Chunks, f
  <2> QED BY <1>4, <2>1, <2>2
<1>6. EventsRead(<<s>>) = T(Len(s)).events
  <2> DEFINE cut == [i \in 0..1 |-> IF i = 0 THEN 0 ELSE Len(s)]
             cs == <<s>>
  <2>1. cut \in [0..1 -> 0..Len(s)] /\ cut[0] = 0 /\ cut[1] = Len(s)
    BY <1>1
  <2>2. \A i \in 1..1 : cut[i - 1] <= cut[i]
    BY <1>1, <2>1
  <2>3. SubSeq(s, 1, Len(s)) = s
    OBVIOUS
  <2>4. Len(cs) = 1 /\ cs[1] = s
    OBVIOUS
  <2>5. \A i \in 1..1 : cs[i] = SubSeq(s, cut[i - 1] + 1, cut[i])
    BY <2>1, <2>3, <2>4
  <2> HIDE DEF cut, cs
  <2>6. EventsRead(cs) = T(Len(s)).events
    BY <1>4, <2>1, <2>2, <2>4, <2>5
  <2> QED BY <2>6 DEF cs
<1> QED BY <1>5, <1>6

\* A part of the rest of a sequence is a part of it.
LEMMA PartOfRest ==
  ASSUME NEW C, NEW s \in Seq(C), NEW a \in 0..Len(s),
         NEW i \in Nat, NEW j \in Nat, 1 <= i, j <= Len(s) - a
  PROVE  SubSeq(SubSeq(s, a + 1, Len(s)), i, j) = SubSeq(s, a + i, a + j)
<1> DEFINE r == SubSeq(s, a + 1, Len(s))
           x == SubSeq(r, i, j)
           y == SubSeq(s, a + i, a + j)
<1>1. Len(s) \in Nat /\ a \in Nat /\ a <= Len(s) /\ \A k \in 1..Len(s) : s[k] \in C
  OBVIOUS
<1>2. r \in Seq(C) /\ Len(r) = Len(s) - a /\ \A k \in 1..(Len(s) - a) : r[k] = s[a + k]
  <2>1. \A k \in (a + 1)..Len(s) : s[k] \in C
    BY <1>1
  <2>2. r \in Seq(C) /\ Len(r) = (IF a + 1 <= Len(s) THEN Len(s) - (a + 1) + 1 ELSE 0)
        /\ \A k \in 1..(Len(s) - (a + 1) + 1) : r[k] = s[a + 1 + k - 1]
    BY <1>1, <2>1, SubSeqProperties
  <2> QED BY <1>1, <2>2
<1> HIDE DEF r
<1>3. x \in Seq(C) /\ Len(x) = (IF i <= j THEN j - i + 1 ELSE 0)
      /\ \A k \in 1..(j - i + 1) : x[k] = r[i + k - 1]
  <2>1. \A k \in i..j : r[k] \in C
    BY <1>1, <1>2
  <2> QED BY <1>1, <2>1, SubSeqProperties
<1>4. y \in Seq(C) /\ Len(y) = (IF a + i <= a + j THEN a + j - (a + i) + 1 ELSE 0)
      /\ \A k \in 1..(a + j - (a + i) + 1) : y[k] = s[a + i + k - 1]
  <2>1. \A k \in (a + i)..(a + j) : s[k] \in C
    BY <1>1
  <2>2. a + i \in Int /\ a + j \in Int
    BY <1>1
  <2> QED BY <2>1, <2>2, SubSeqProperties
<1> HIDE DEF x, y
<1>5. Len(x) = Len(y)
  BY <1>1, <1>3, <1>4
<1>6. ASSUME NEW k \in 1..Len(x) PROVE x[k] = y[k]
  <2>1. k \in 1..(j - i + 1) /\ i + k - 1 \in 1..(Len(s) - a) /\ k \in 1..(a + j - (a + i) + 1)
        /\ a + (i + k - 1) = a + i + k - 1
    BY <1>1, <1>3
  <2>2. r[i + k - 1] = s[a + (i + k - 1)]
    BY <1>2, <2>1
  <2> QED BY <1>3, <1>4, <2>1, <2>2
<1>7. x = y
  BY <1>3, <1>4, <1>5, <1>6, SeqEqual
<1> QED BY <1>7 DEF x, y, r

\* The reading of a whole body.
LEMMA ReadWhole ==
  ASSUME NEW s
  PROVE  EventsRead(<<s>>) = Feed(NewReader, s).events
<1> DEFINE cs == <<s>>
           Run(g) == g = [i \in 0..Len(cs) |-> IF i = 0 THEN NewReader ELSE Feed(g[i - 1], cs[i])]
           w == [i \in 0..1 |-> IF i = 0 THEN NewReader ELSE Feed(NewReader, s)]
           g == CHOOSE h : Run(h)
<1>1. Len(cs) = 1 /\ cs[1] = s
  OBVIOUS
<1> HIDE DEF cs
<1>2. Run(w)
  <2> DEFINE v == [i \in 0..1 |-> IF i = 0 THEN NewReader ELSE Feed(w[i - 1], cs[i])]
  <2>1. \A i \in 0..1 : i = 0 \/ i = 1
    OBVIOUS
  <2>2. w[0] = NewReader /\ w[1] = Feed(NewReader, s)
    OBVIOUS
  <2>3. v[0] = NewReader /\ v[1] = Feed(w[0], cs[1])
    OBVIOUS
  <2>4. w = v
    <3>1. \A i \in 0..1 : w[i] = v[i]
      BY <1>1, <2>1, <2>2, <2>3
    <3>2. w = [i \in 0..1 |-> w[i]] /\ v = [i \in 0..1 |-> v[i]]
      OBVIOUS
    <3> HIDE DEF w, v
    <3> QED BY <3>1, <3>2
  <2> QED BY <1>1, <2>4
<1> HIDE DEF w
<1>3. Run(g)
  BY <1>2
<1>4. EventsRead(cs) = g[1].events
  BY <1>1 DEF EventsRead
<1> HIDE DEF g
<1>5. Reads(g, cs, 1)
  BY <1>1, <1>3, ReadsFrom
<1>6. 1 \in 1..1
  OBVIOUS
<1>7. g[1] = Feed(NewReader, s)
  BY <1>1, <1>5, <1>6 DEF Reads
<1> QED BY <1>4, <1>7 DEF cs

\* The ends of lines of s are p, of which there are N; the rest of s after k
\* lines.
Ends(s, p, N) == N \in Nat /\ Lists(p, N, LineEnds(s))
From(p, k) == IF k = 0 THEN 0 ELSE p[k]
Rest(s, p, k) == SubSeq(s, From(p, k) + 1, Len(s))

\* The next line of the rest of a stream is the next line of the stream.
LEMMA NextLine ==
  ASSUME NEW C, NEW s \in Seq(C), NEW p, NEW N, Ends(s, p, N), NEW k \in 0..N
  PROVE  LET r == Rest(s, p, k)
             n == First(r, LF) IN
         /\ r \in Seq(C)
         /\ k = N => n = 0
         /\ k < N => /\ n # 0
                     /\ TrimSuffix(SubSeq(r, 1, n - 1), CR) = Line(s, p[k + 1])
                     /\ SubSeq(r, n + 1, Len(r)) = Rest(s, p, k + 1)
<1> DEFINE a == From(p, k)
           r == Rest(s, p, k)
           n == First(r, LF)
           E == LineEnds(s)
<1>1. Len(s) \in Nat /\ \A i \in 1..Len(s) : s[i] \in C
  OBVIOUS
<1>2. E \in SUBSET (1..Len(s)) /\ \A i \in 1..Len(s) : i \in E <=> s[i] = LF
  BY DEF LineEnds
<1>3. /\ N \in Nat /\ \A i \in 1..N : p[i] \in E /\ p[i] \in 1..Len(s)
      /\ \A i, j \in 1..N : i < j => p[i] < p[j]
      /\ \A x \in E : \E i \in 1..N : p[i] = x
  BY <1>2 DEF Ends, Lists
<1> HIDE DEF E
<1>4. a \in 0..Len(s) /\ \A i \in 1..N : i <= k <=> p[i] <= a
  <2>1. CASE k = 0
    <3>1. a = 0
      BY <2>1 DEF From
    <3> QED BY <1>1, <1>3, <2>1, <3>1
  <2>2. CASE k # 0
    <3>1. k \in 1..N /\ a = p[k]
      BY <1>3, <2>2 DEF From
    <3>2. ASSUME NEW i \in 1..N PROVE i <= k <=> p[i] <= p[k]
      <4>1. i < k \/ i = k \/ k < i
        BY <1>3, <3>1
      <4>2. p[i] \in Nat /\ p[k] \in Nat
        BY <1>3, <3>1
      <4> QED BY <1>3, <3>1, <4>1, <4>2
    <3> QED BY <1>1, <1>3, <3>1, <3>2
  <2> QED BY <2>1, <2>2
<1> HIDE DEF a
<1>5. r = SubSeq(s, a + 1, Len(s))
  BY DEF Rest, a
<1>6. r \in Seq(C) /\ Len(r) = Len(s) - a /\ \A i \in 1..(Len(s) - a) : r[i] = s[a + i]
  <2>1. \A i \in (a + 1)..Len(s) : s[i] \in C
    BY <1>1, <1>4
  <2>2. r \in Seq(C) /\ Len(r) = (IF a + 1 <= Len(s) THEN Len(s) - (a + 1) + 1 ELSE 0)
        /\ \A i \in 1..(Len(s) - (a + 1) + 1) : r[i] = s[a + 1 + i - 1]
    BY <1>1, <1>4, <1>5, <2>1, SubSeqProperties
  <2> QED BY <1>1, <1>4, <2>2
<1> HIDE DEF r
<1>7. \/ n = 0 /\ \A i \in 1..Len(r) : r[i] # LF
      \/ n \in 1..Len(r) /\ r[n] = LF /\ \A i \in 1..Len(r) : i < n => r[i] # LF
  BY <1>6, FirstIs
<1> HIDE DEF n
<1>8. ASSUME k = N PROVE n = 0
  <2> SUFFICES ASSUME n \in 1..Len(r), r[n] = LF PROVE FALSE
    BY <1>7
  <2>1. a + n \in 1..Len(s) /\ s[a + n] = LF /\ a + n > a
    BY <1>1, <1>4, <1>6
  <2>2. PICK i \in 1..N : p[i] = a + n
    BY <1>2, <1>3, <2>1
  <2> QED BY <1>3, <1>4, <1>8, <2>1, <2>2
<1>9. ASSUME k < N
      PROVE  n # 0 /\ TrimSuffix(SubSeq(r, 1, n - 1), CR) = Line(s, p[k + 1])
             /\ SubSeq(r, n + 1, Len(r)) = Rest(s, p, k + 1)
  <2> DEFINE b == p[k + 1]
  <2>1. k + 1 \in 1..N
    BY <1>3, <1>9
  <2>2. b \in E /\ b \in 1..Len(s) /\ s[b] = LF /\ a < b
    <3>1. b \in E /\ b \in 1..Len(s) /\ s[b] = LF
      BY <1>2, <1>3, <2>1
    <3>2. ~ (b <= a)
      <4>1. ~ (k + 1 <= k)
        BY <1>3
      <4> QED BY <1>4, <2>1, <4>1
    <3> QED BY <1>4, <3>1, <3>2
  <2>3. \A x \in E : x < b => x <= a
    <3> SUFFICES ASSUME NEW x \in E, x < b PROVE x <= a
      OBVIOUS
    <3>1. PICK i \in 1..N : p[i] = x
      BY <1>3
    <3>2. i <= k
      <4> SUFFICES ASSUME ~ (i <= k) PROVE FALSE
        OBVIOUS
      <4>1. i = k + 1 \/ k + 1 < i
        BY <1>3
      <4>2. b <= p[i]
        BY <1>3, <2>1, <2>2, <4>1
      <4>3. x \in Nat /\ b \in Nat
        BY <1>1, <1>2, <2>2
      <4> QED BY <3>1, <4>2, <4>3
    <3> QED BY <1>4, <3>1, <3>2
  <2>0. k \in Nat /\ From(p, k + 1) = b
    BY <1>3 DEF From
  <2> HIDE DEF b
  <2>4. n = b - a
    <3>1. b - a \in 1..Len(r) /\ a + (b - a) = b /\ r[b - a] = LF
      BY <1>1, <1>4, <1>6, <2>2
    <3>2. n \in 1..Len(r) /\ r[n] = LF /\ ~ (b - a < n)
      BY <1>7, <3>1
    <3>3. a + n \in E /\ a + n > a
      BY <1>1, <1>2, <1>4, <1>6, <3>2
    <3>4. ~ (a + n < b)
      BY <1>1, <1>2, <1>4, <2>2, <2>3, <3>2, <3>3
    <3> QED BY <1>4, <1>6, <2>2, <3>2, <3>4
  <2>5. Line(s, b) = TrimSuffix(SubSeq(s, a + 1, b - 1), CR)
    <3> DEFINE before == E \intersect 1..(b - 1)
               start == IF before = {} THEN 1 ELSE Max(before) + 1
    <3>1. start = a + 1
      <4>1. \A x \in before : x <= a
        BY <1>2, <2>2, <2>3
      <4>2. CASE a = 0
        <5>1. before = {}
          BY <4>1, <4>2
        <5> QED BY <4>2, <5>1
      <4>3. CASE a # 0
        <5>1. k \in 1..N /\ a = p[k]
          BY <1>3, <4>3 DEF a, From
        <5>2. a \in before
          BY <1>2, <1>3, <2>2, <5>1
        <5>3. before \in SUBSET Nat /\ \A x \in before : a >= x
          BY <1>1, <1>2, <1>4, <4>1
        <5> HIDE DEF before
        <5>4. Max(before) = a
          BY <5>2, <5>3, MaxIs
        <5> QED BY <5>2, <5>4
      <4> QED BY <4>2, <4>3
    <3>2. Line(s, b) = TrimSuffix(SubSeq(s, start, b - 1), CR)
      BY DEF Line, E
    <3> QED BY <3>1, <3>2
  <2>6. SubSeq(r, 1, n - 1) = SubSeq(s, a + 1, b - 1)
    <3>1. n - 1 \in Nat /\ n - 1 <= Len(s) - a /\ a + (n - 1) = b - 1
      BY <1>1, <1>4, <2>2, <2>4
    <3> QED BY <1>4, <1>5, <3>1, PartOfRest
  <2>7. SubSeq(r, n + 1, Len(r)) = SubSeq(s, b + 1, Len(s))
    <3>1. /\ n + 1 \in Nat /\ 1 <= n + 1 /\ Len(r) \in Nat /\ Len(r) <= Len(s) - a
          /\ a + (n + 1) = b + 1 /\ a + Len(r) = Len(s)
      BY <1>1, <1>4, <1>6, <2>2, <2>4
    <3> DEFINE lo == n + 1
               hi == Len(r)
    <3>2. lo \in Nat /\ 1 <= lo /\ hi \in Nat /\ hi <= Len(s) - a
          /\ a + lo = b + 1 /\ a + hi = Len(s)
      BY <3>1
    <3> HIDE DEF lo, hi
    <3>3. SubSeq(SubSeq(s, a + 1, Len(s)), lo, hi) = SubSeq(s, a + lo, a + hi)
      BY <1>4, <3>2, PartOfRest
    <3>4. SubSeq(r, lo, hi) = SubSeq(s, b + 1, Len(s))
      BY <1>5, <3>2, <3>3
    <3> QED BY <3>4 DEF lo, hi
  <2>8. n # 0
    BY <1>4, <2>2, <2>4
  <2> QED BY <2>0, <2>5, <2>6, <2>7, <2>8 DEF Rest, b
<1> QED BY <1>6, <1>8, <1>9 DEF r, n

\* What DataBefore is made of: where the data of line n's event starts, the
\* data lines from there, and what each line says.
Starts(ls, n) ==
  LET empty == {m \in 1..(n - 1) : ls[m] = <<>>}
  IN IF empty = {} THEN 1 ELSE Max(empty) + 1
DataLines(ls, n) == {m \in Starts(ls, n)..(n - 1) : ls[m] # <<>> /\ Head(ls[m]) = Data}
Payloads(ls) == [m \in 1..Len(ls) |-> Payload(ls[m])]

\* The data before a line are the payloads of its data lines.
LEMMA DataBeforeIs ==
  ASSUME NEW ls, NEW n
  PROVE  DataBefore(ls, n) = Picked(Payloads(ls), DataLines(ls, n))
BY DEF DataBefore, DataLines, Starts, Payloads

\* The data lines before the first line, and before the line after the nth.
LEMMA DataGrows ==
  ASSUME NEW X, NEW ls \in Seq(X)
  PROVE  /\ DataBefore(ls, 1) = <<>>
         /\ \A n \in 1..Len(ls) :
              DataBefore(ls, n + 1) =
                IF ls[n] = <<>> THEN <<>>
                ELSE IF Head(ls[n]) = Data THEN Append(DataBefore(ls, n), Payload(ls[n]))
                ELSE DataBefore(ls, n)
<1> DEFINE pay == Payloads(ls)
           P == {Payload(ls[m]) : m \in 1..Len(ls)}
<1>1. Len(ls) \in Nat
  OBVIOUS
<1>2. pay \in Seq(P) /\ Len(pay) = Len(ls) /\ \A m \in 1..Len(ls) : pay[m] = Payload(ls[m])
  BY <1>1 DEF Payloads
<1> HIDE DEF pay, P
<1>3. ASSUME NEW n \in Nat, DataLines(ls, n) = {} PROVE DataBefore(ls, n) = <<>>
  BY <1>2, <1>3, DataBeforeIs, PickedNone DEF pay
<1>4. DataLines(ls, 1) = {}
  <2>1. Starts(ls, 1) = 1
    BY DEF Starts
  <2> QED BY <2>1 DEF DataLines
<1>5. ASSUME NEW n \in 1..Len(ls), ls[n] = <<>>
      PROVE  DataBefore(ls, n + 1) = <<>>
  <2> DEFINE empty == {m \in 1..(n + 1 - 1) : ls[m] = <<>>}
  <2>1. n \in Nat /\ n + 1 \in Nat /\ n \in empty /\ empty \in SUBSET Nat /\ \A m \in empty : n >= m
    BY <1>1, <1>5
  <2>2. Starts(ls, n + 1) = IF empty = {} THEN 1 ELSE Max(empty) + 1
    BY DEF Starts
  <2> HIDE DEF empty
  <2>3. Max(empty) = n /\ empty # {}
    BY <2>1, MaxIs
  <2>4. Starts(ls, n + 1) = n + 1
    BY <2>2, <2>3
  <2>5. DataLines(ls, n + 1) = {}
    BY <2>1, <2>4 DEF DataLines
  <2> QED BY <1>3, <2>1, <2>5
<1>6. ASSUME NEW n \in 1..Len(ls), ls[n] # <<>>
      PROVE  DataBefore(ls, n + 1) =
               IF Head(ls[n]) = Data THEN Append(DataBefore(ls, n), Payload(ls[n]))
               ELSE DataBefore(ls, n)
  <2>1. n \in Nat /\ n + 1 - 1 = n
    BY <1>1
  <2>2. Starts(ls, n + 1) = Starts(ls, n)
    <3> DEFINE empty(i) == {m \in 1..(i - 1) : ls[m] = <<>>}
    <3>1. empty(n + 1) = empty(n)
      <4>1. \A m \in 1..(n + 1 - 1) : m = n \/ m \in 1..(n - 1)
        BY <2>1
      <4>2. \A m \in 1..(n - 1) : m \in 1..(n + 1 - 1)
        BY <2>1
      <4> QED BY <1>6, <4>1, <4>2
    <3>2. \A i : Starts(ls, i) = IF empty(i) = {} THEN 1 ELSE Max(empty(i)) + 1
      BY DEF Starts
    <3> HIDE DEF empty
    <3> QED BY <3>1, <3>2
  <2>3. Starts(ls, n) \in 1..n
    <3> DEFINE empty == {m \in 1..(n - 1) : ls[m] = <<>>}
    <3>1. Starts(ls, n) = IF empty = {} THEN 1 ELSE Max(empty) + 1
      BY DEF Starts
    <3>2. empty \in SUBSET (1..(n - 1)) /\ n - 1 \in Nat
      BY <2>1
    <3> HIDE DEF empty
    <3>3. CASE empty = {}
      BY <2>1, <3>1, <3>3
    <3>4. CASE empty # {}
      <4>1. Max(empty) \in 1..(n - 1)
        BY <3>2, <3>4, GreatestIsMax
      <4> QED BY <2>1, <3>1, <3>4, <4>1
    <3> QED BY <3>3, <3>4
  <2> DEFINE I == DataLines(ls, n)
             start == Starts(ls, n)
  <2>4. I = {m \in start..(n - 1) : ls[m] # <<>> /\ Head(ls[m]) = Data}
    BY DEF DataLines
  <2>5. DataLines(ls, n + 1) = {m \in start..n : ls[m] # <<>> /\ Head(ls[m]) = Data}
    BY <2>1, <2>2 DEF DataLines
  <2>a. start \in Nat /\ start >= 1 /\ start <= n
    BY <2>1, <2>3
  <2> HIDE DEF start, I
  <2>6. I \in SUBSET (1..Len(ls)) /\ \A m \in I : m < n
    BY <1>1, <2>1, <2>a, <2>4
  <2>7. DataLines(ls, n + 1) = IF Head(ls[n]) = Data THEN I \union {n} ELSE I
    <3>1. ASSUME NEW m PROVE m \in start..n <=> (m \in start..(n - 1) \/ m = n)
      BY <2>1, <2>a
    <3>2. CASE Head(ls[n]) = Data
      BY <1>6, <2>4, <2>5, <3>1, <3>2
    <3>3. CASE Head(ls[n]) # Data
      BY <1>6, <2>4, <2>5, <3>1, <3>3
    <3> QED BY <3>2, <3>3
  <2>8. DataBefore(ls, n) = Picked(pay, I) /\ DataBefore(ls, n + 1) = Picked(pay, DataLines(ls, n + 1))
    BY DataBeforeIs DEF pay, I
  <2>9. Picked(pay, I \union {n}) = Append(Picked(pay, I), pay[n])
    <3>1. I \in SUBSET (1..Len(pay)) /\ n \in 1..Len(pay) /\ \A m \in I : m < n
      BY <1>2, <2>6
    <3> QED BY <1>2, <3>1, PickedNext
  <2>10. CASE Head(ls[n]) = Data
    <3>1. DataLines(ls, n + 1) = I \union {n}
      BY <2>7, <2>10
    <3>2. DataBefore(ls, n + 1) = Append(Picked(pay, I), Payload(ls[n]))
      BY <1>2, <2>8, <2>9, <3>1
    <3> QED BY <2>8, <2>10, <3>2
  <2>11. CASE Head(ls[n]) # Data
    <3>1. DataLines(ls, n + 1) = I
      BY <2>7, <2>11
    <3> QED BY <2>8, <2>11, <3>1
  <2> QED BY <2>10, <2>11
<1> QED
  <2>1. DataBefore(ls, 1) = <<>>
    BY <1>3, <1>4
  <2>2. ASSUME NEW n \in 1..Len(ls)
        PROVE  DataBefore(ls, n + 1) =
                 IF ls[n] = <<>> THEN <<>>
                 ELSE IF Head(ls[n]) = Data THEN Append(DataBefore(ls, n), Payload(ls[n]))
                 ELSE DataBefore(ls, n)
    BY <1>5, <1>6
  <2> QED BY <2>1, <2>2

\* The events of the first k lines, each at the empty line that ends it.
EventEnds(ls, k) == {n \in 1..k : ls[n] = <<>> /\ DataBefore(ls, n) # <<>>}
EventsUpTo(ls, k) ==
  Picked([n \in 1..Len(ls) |-> JoinedLines(DataBefore(ls, n))], EventEnds(ls, k))

\* An empty line adds an event if there are data, no other line does.
LEMMA EventsGrow ==
  ASSUME NEW X, NEW ls \in Seq(X)
  PROVE  /\ EventsUpTo(ls, 0) = <<>>
         /\ \A k \in 0..(Len(ls) - 1) :
              EventsUpTo(ls, k + 1) =
                IF ls[k + 1] = <<>> /\ DataBefore(ls, k + 1) # <<>>
                THEN Append(EventsUpTo(ls, k), JoinedLines(DataBefore(ls, k + 1)))
                ELSE EventsUpTo(ls, k)
<1> DEFINE f(n) == JoinedLines(DataBefore(ls, n))
           all == [n \in 1..Len(ls) |-> f(n)]
           S == {f(n) : n \in 1..Len(ls)}
<1>1. Len(ls) \in Nat /\ \A n \in 1..Len(ls) : f(n) \in S
  OBVIOUS
<1>2. \A k : EventsUpTo(ls, k) = Picked(all, EventEnds(ls, k))
  BY DEF EventsUpTo
<1> HIDE DEF f, S
<1>3. all \in Seq(S) /\ Len(all) = Len(ls) /\ \A n \in 1..Len(ls) : all[n] = f(n)
  BY <1>1
<1> HIDE DEF all
<1>4. EventsUpTo(ls, 0) = <<>>
  <2>1. EventEnds(ls, 0) = {}
    BY DEF EventEnds
  <2> QED BY <1>2, <1>3, <2>1, PickedNone
<1>5. ASSUME NEW k \in 0..(Len(ls) - 1)
      PROVE  EventsUpTo(ls, k + 1) =
               IF ls[k + 1] = <<>> /\ DataBefore(ls, k + 1) # <<>>
               THEN Append(EventsUpTo(ls, k), f(k + 1)) ELSE EventsUpTo(ls, k)
  <2> DEFINE n == k + 1
             I == EventEnds(ls, k)
             Ends1 == ls[n] = <<>> /\ DataBefore(ls, n) # <<>>
  <2>1. k \in Nat /\ n \in 1..Len(ls) /\ \A m : m \in 1..n <=> (m \in 1..k \/ m = n)
    BY <1>1
  <2>2. I \in SUBSET (1..Len(all)) /\ \A m \in I : m < n
    BY <1>1, <1>3, <2>1 DEF EventEnds
  <2>3. EventEnds(ls, n) = IF Ends1 THEN I \union {n} ELSE I
    <3>1. CASE Ends1
      BY <2>1, <3>1 DEF EventEnds
    <3>2. CASE ~ Ends1
      BY <2>1, <3>2 DEF EventEnds
    <3> QED BY <3>1, <3>2
  <2> HIDE DEF n, I
  <2>4. Picked(all, I \union {n}) = Append(Picked(all, I), all[n])
    BY <1>3, <2>1, <2>2, PickedNext
  <2>5. EventsUpTo(ls, n) = IF Ends1 THEN Append(Picked(all, I), f(n)) ELSE Picked(all, I)
    BY <1>2, <1>3, <2>1, <2>3, <2>4
  <2> QED BY <1>2, <2>5 DEF n, I
<1> QED BY <1>4, <1>5 DEF f

\* A reader that has handled k lines, at the rest r of the stream.
After(ls, k, r) == Reader(r, DataBefore(ls, k + 1), EventsUpTo(ls, k))

\* HandleLine takes the reader from the first k lines to the next.
LEMMA LineHandled ==
  ASSUME NEW X, NEW ls \in Seq(X), NEW k \in 0..(Len(ls) - 1), NEW r
  PROVE  HandleLine(After(ls, k, r), ls[k + 1]) = After(ls, k + 1, r)
<1> DEFINE n == k + 1
           d == DataBefore(ls, n)
           e == EventsUpTo(ls, k)
           x == ls[n]
<1>1. k \in Nat /\ n \in 1..Len(ls)
  OBVIOUS
<1>2. DataBefore(ls, n + 1) = IF x = <<>> THEN <<>>
                              ELSE IF Head(x) = Data THEN Append(d, Payload(x)) ELSE d
  BY <1>1, DataGrows
<1>3. EventsUpTo(ls, n) = IF x = <<>> /\ d # <<>> THEN Append(e, JoinedLines(d)) ELSE e
  BY EventsGrow
<1> HIDE DEF n, d, e, x
<1>4. HandleLine(Reader(r, d, e), x) = Reader(r, DataBefore(ls, n + 1), EventsUpTo(ls, n))
  <2>1. CASE x = <<>> /\ d = <<>>
    <3>1. HandleLine(Reader(r, d, e), x) = Reader(r, d, e)
      BY <2>1 DEF HandleLine, Reader
    <3> QED BY <1>2, <1>3, <2>1, <3>1
  <2>2. CASE x = <<>> /\ d # <<>>
    <3>1. HandleLine(Reader(r, d, e), x) = Reader(r, <<>>, Append(e, JoinedLines(d)))
      BY <2>2 DEF HandleLine, Reader
    <3> QED BY <1>2, <1>3, <2>2, <3>1
  <2>3. CASE x # <<>> /\ Head(x) = Data
    <3>1. HandleLine(Reader(r, d, e), x) = Reader(r, Append(d, Payload(x)), e)
      BY <2>3 DEF HandleLine, Reader
    <3> QED BY <1>2, <1>3, <2>3, <3>1
  <2>4. CASE x # <<>> /\ Head(x) # Data
    <3>1. HandleLine(Reader(r, d, e), x) = Reader(r, d, e)
      BY <2>4 DEF HandleLine, Reader
    <3> QED BY <1>2, <1>3, <2>4, <3>1
  <2> QED BY <2>1, <2>2, <2>3, <2>4
<1> QED BY <1>4 DEF After, n, d, e, x

\* The events that are read are those of the body, as the empty lines end them:
\* none is lost, doubled, joined with another or torn.
\* (prefillTrackingReadCloser: feed, handleLine, finalizeEvent)
THEOREM EventsReadCorrect ==
  ASSUME NEW C, NEW s \in Seq(C)
  PROVE  EventsRead(<<s>>) = EventsOf(s)
<1> DEFINE E == LineEnds(s)
           at == [n \in 1..Len(s) |-> Line(s, n)]
           X == {Line(s, n) : n \in 1..Len(s)}
           ls == Lines(s)
           N == Len(ls)
<1>1. Len(s) \in Nat /\ E \in SUBSET (1..Len(s))
  BY DEF LineEnds
<1>2. at \in Seq(X) /\ Len(at) = Len(s) /\ \A n \in 1..Len(s) : at[n] = Line(s, n)
  <2> DEFINE f(n) == Line(s, n)
  <2>1. \A n \in 1..Len(s) : f(n) \in X
    OBVIOUS
  <2>2. at = [n \in 1..Len(s) |-> f(n)]
    OBVIOUS
  <2> HIDE DEF X, at
  <2>3. \A n \in 1..Len(s) : Line(s, n) = f(n)
    OBVIOUS
  <2> HIDE DEF f
  <2> QED BY <1>1, <2>1, <2>2, <2>3
<1>3. ls = Picked(at, E)
  BY DEF Lines
<1> HIDE DEF at, X, E, ls
<1>4. Follows(ls, X, at, E)
  BY <1>1, <1>2, <1>3, PickedFollows
<1>5. ls \in Seq(X) /\ N \in Nat
  BY <1>4 DEF Follows
<1>6. PICK p : Lists(p, N, E) /\ \A i \in 1..N : ls[i] = at[p[i]]
  BY <1>4 DEF Follows
<1>7. Ends(s, p, N) /\ \A i \in 1..N : ls[i] = Line(s, p[i])
  <2>1. \A i \in 1..N : p[i] \in 1..Len(s)
    BY <1>1, <1>6 DEF Lists
  <2> QED BY <1>2, <1>5, <1>6, <2>1 DEF Ends, E
<1> HIDE DEF N
<1> DEFINE At0(k) == After(ls, k, Rest(s, p, k))
<1>8. ASSUME NEW k \in 0..N, k < N
      PROVE  TakeLines(At0(k)) = TakeLines(At0(k + 1))
  <2> DEFINE r == Rest(s, p, k)
             n == First(r, LF)
             d == DataBefore(ls, k + 1)
             e == EventsUpTo(ls, k)
  <2>1. /\ r \in Seq(C) /\ n # 0
        /\ TrimSuffix(SubSeq(r, 1, n - 1), CR) = Line(s, p[k + 1])
        /\ SubSeq(r, n + 1, Len(r)) = Rest(s, p, k + 1)
    BY <1>7, <1>8, NextLine
  <2>2. k \in 0..(Len(ls) - 1) /\ k + 1 \in 1..N
    BY <1>5, <1>8 DEF N
  <2>3. Line(s, p[k + 1]) = ls[k + 1]
    BY <1>7, <2>2
  <2> HIDE DEF r
  <2>4. TakeLine(Reader(r, d, e)) = HandleLine(Reader(Rest(s, p, k + 1), d, e), ls[k + 1])
    BY <2>1, <2>3, TakenLine
  <2>5. HandleLine(After(ls, k, Rest(s, p, k + 1)), ls[k + 1]) = At0(k + 1)
    BY <1>5, <2>2, LineHandled
  <2>6. TakeLine(Reader(r, d, e)) = At0(k + 1)
    BY <2>4, <2>5 DEF After
  <2>7. TakeLines(Reader(r, d, e)) = TakeLines(TakeLine(Reader(r, d, e)))
    BY <2>1, LinesFirst
  <2> QED BY <2>6, <2>7 DEF After, r
<1>9. At0(0) = Reader(s, <<>>, <<>>)
  <2>1. Rest(s, p, 0) = s
    <3>1. SubSeq(s, 1, Len(s)) = s
      OBVIOUS
    <3> QED BY <3>1 DEF Rest, From
  <2>2. DataBefore(ls, 0 + 1) = <<>> /\ EventsUpTo(ls, 0) = <<>>
    BY <1>5, DataGrows, EventsGrow
  <2> QED BY <2>1, <2>2 DEF After
<1>10. TakeLines(At0(N)) = At0(N)
  <2>1. Rest(s, p, N) \in Seq(C) /\ First(Rest(s, p, N), LF) = 0
    BY <1>5, <1>7, NextLine
  <2> QED BY <2>1, NoLine DEF After
<1> HIDE DEF At0
<1>11. TakeLines(Reader(s, <<>>, <<>>)) = At0(N)
  <2> DEFINE I == {k \in Nat : k <= N => TakeLines(Reader(s, <<>>, <<>>)) = TakeLines(At0(k))}
  <2>1. 0 \in I
    BY <1>9
  <2>2. ASSUME NEW k \in Nat, k \in I PROVE k + 1 \in I
    <3> SUFFICES ASSUME k + 1 <= N
                 PROVE  TakeLines(Reader(s, <<>>, <<>>)) = TakeLines(At0(k + 1))
      OBVIOUS
    <3>1. k \in 0..N /\ k < N /\ k <= N
      BY <1>5
    <3> QED BY <1>8, <2>2, <3>1
  <2> HIDE DEF I
  <2>3. \A k \in Nat : k \in I
    BY <2>1, <2>2, Induction
  <2>4. N \in I /\ N <= N
    BY <1>5, <2>3
  <2> QED BY <1>10, <2>4 DEF I
<1>12. Feed(NewReader, s) = TakeLines(Reader(s, <<>>, <<>>))
  <2>1. NewReader = Reader(<<>>, <<>>, <<>>)
    BY DEF NewReader, Reader
  <2>2. Feed(Reader(<<>>, <<>>, <<>>), s) = TakeLines(Reader(<<>> \o s, <<>>, <<>>))
    BY FedOnce
  <2>3. <<>> \o s = s
    OBVIOUS
  <2> QED BY <2>1, <2>2, <2>3
<1>13. EventsRead(<<s>>) = EventsUpTo(ls, N)
  <2>1. At0(N).events = EventsUpTo(ls, N)
    BY DEF At0, After, Reader
  <2> QED BY <1>11, <1>12, <2>1, ReadWhole
<1>14. EventsOf(s) = EventsUpTo(ls, N)
  BY DEF EventsOf, EventsUpTo, EventEnds, ls, N
<1> QED BY <1>13, <1>14

\* Three sequences that are put one after the other.
LEMMA FlattenedThree ==
  ASSUME NEW cs, Len(cs) = 3
  PROVE  FlattenSeq(cs) = (cs[1] \o cs[2]) \o cs[3]
<1> DEFINE Run(g) == g = [i \in 1..Len(cs) |-> IF i = 1 THEN cs[i] ELSE g[i - 1] \o cs[i]]
           w == [i \in 1..3 |-> IF i = 1 THEN cs[1] ELSE IF i = 2 THEN cs[1] \o cs[2]
                                ELSE (cs[1] \o cs[2]) \o cs[3]]
           g == CHOOSE h : Run(h)
<1>1. \A i \in 1..3 : i = 1 \/ i = 2 \/ i = 3
  OBVIOUS
<1>2. Run(w)
  <2> DEFINE v == [i \in 1..3 |-> IF i = 1 THEN cs[i] ELSE w[i - 1] \o cs[i]]
  <2>1. w[1] = cs[1] /\ w[2] = cs[1] \o cs[2] /\ w[3] = (cs[1] \o cs[2]) \o cs[3]
    OBVIOUS
  <2>2. w = [i \in 1..3 |-> w[i]]
    OBVIOUS
  <2> HIDE DEF w
  <2>3. v[1] = cs[1] /\ v[2] = w[1] \o cs[2] /\ v[3] = w[2] \o cs[3]
    OBVIOUS
  <2>4. v = [i \in 1..3 |-> v[i]]
    OBVIOUS
  <2> HIDE DEF v
  <2>5. \A i \in 1..3 : w[i] = v[i]
    BY <1>1, <2>1, <2>3
  <2>6. w = v
    BY <2>2, <2>4, <2>5
  <2> QED BY <2>6 DEF v
<1> HIDE DEF w
<1>3. Run(g)
  BY <1>2
<1>4. FlattenSeq(cs) = g[3]
  BY DEF FlattenSeq
<1> HIDE DEF g
<1>5. g[1] = cs[1] /\ g[2] = g[1] \o cs[2] /\ g[3] = g[2] \o cs[3]
  <2>1. ASSUME NEW i \in 1..3
        PROVE  g[i] = IF i = 1 THEN cs[i] ELSE g[i - 1] \o cs[i]
    <3>1. g = [j \in 1..3 |-> IF j = 1 THEN cs[j] ELSE g[j - 1] \o cs[j]]
      BY <1>3
    <3>2. [j \in 1..3 |-> IF j = 1 THEN cs[j] ELSE g[j - 1] \o cs[j]][i]
            = IF i = 1 THEN cs[i] ELSE g[i - 1] \o cs[i]
      OBVIOUS
    <3> QED BY <3>1, <3>2
  <2>2. 1 \in 1..3 /\ 2 \in 1..3 /\ 3 \in 1..3 /\ 2 - 1 = 1 /\ 3 - 1 = 2 /\ 2 # 1 /\ 3 # 1
    OBVIOUS
  <2> HIDE DEF Run
  <2>3. g[1] = cs[1]
    BY <2>1, <2>2
  <2>4. g[2] = g[2 - 1] \o cs[2]
    BY <2>1, <2>2
  <2>5. g[3] = g[3 - 1] \o cs[3]
    BY <2>1, <2>2
  <2> QED BY <2>2, <2>3, <2>4, <2>5
<1> QED BY <1>4, <1>5

\* A body that comes in three chunks is read as it is.
LEMMA ThreeChunks ==
  ASSUME NEW C, NEW s \in Seq(C), NEW m \in 0..Len(s), NEW n \in 0..Len(s), m <= n
  PROVE  LET cs == <<SubSeq(s, 1, m), SubSeq(s, m + 1, n), SubSeq(s, n + 1, Len(s))>> IN
         /\ FlattenSeq(cs) = s
         /\ EventsRead(cs) = EventsOf(s)
<1> DEFINE a == SubSeq(s, 1, m)
           b == SubSeq(s, m + 1, n)
           c == SubSeq(s, n + 1, Len(s))
           cs == <<a, b, c>>
           at == [i \in 0..3 |-> IF i = 0 THEN 0 ELSE IF i = 1 THEN m ELSE IF i = 2 THEN n ELSE Len(s)]
           f(i) == SubSeq(s, at[i - 1] + 1, at[i])
           ch == [i \in 1..3 |-> f(i)]
<1>1. Len(s) \in Nat /\ m \in Nat /\ n \in Nat /\ m <= Len(s) /\ n <= Len(s)
  OBVIOUS
<1>2. a \o b = SubSeq(s, 1, n) /\ SubSeq(s, 1, n) \o c = s
  <2>1. a \o b = SubSeq(s, 1, n)
    BY PrefixAndChunk
  <2>2. n \in 0..Len(s) /\ Len(s) \in 0..Len(s) /\ n <= Len(s)
    BY <1>1
  <2>3. SubSeq(s, 1, n) \o c = SubSeq(s, 1, Len(s))
    BY <2>2, PrefixAndChunk
  <2>4. SubSeq(s, 1, Len(s)) = s
    OBVIOUS
  <2> QED BY <2>1, <2>3, <2>4
<1>3. at \in [0..3 -> 0..Len(s)] /\ at[0] = 0 /\ at[1] = m /\ at[2] = n /\ at[3] = Len(s)
  BY <1>1
<1>4. at \in Cuts(s, 3)
  <2>1. \A i \in 1..3 : at[i - 1] <= at[i]
    <3>1. at[1 - 1] <= at[1] /\ at[2 - 1] <= at[2] /\ at[3 - 1] <= at[3]
      BY <1>1, <1>3
    <3>2. \A i \in 1..3 : i = 1 \/ i = 2 \/ i = 3
      OBVIOUS
    <3> HIDE DEF at
    <3> QED BY <3>1, <3>2
  <2> HIDE DEF at
  <2> QED BY <1>3, <2>1 DEF Cuts
<1>5. a = f(1) /\ b = f(2) /\ c = f(3)
  <2>1. 1 - 1 = 0 /\ 2 - 1 = 1 /\ 3 - 1 = 2 /\ 0 + 1 = 1
    OBVIOUS
  <2> HIDE DEF at
  <2> QED BY <1>3, <2>1
<1> HIDE DEF at
<1>6. Chunks(s, 3, at) = ch
  BY DEF Chunks
<1> HIDE DEF a, b, c, f
<1>7. Len(cs) = 3 /\ cs[1] = a /\ cs[2] = b /\ cs[3] = c /\ cs \in Seq({a, b, c})
  OBVIOUS
<1>8. ch = cs
  <2>1. Len(ch) = 3 /\ ch \in Seq({f(1), f(2), f(3)}) /\ ch[1] = f(1) /\ ch[2] = f(2) /\ ch[3] = f(3)
    <3>1. \A i \in 1..3 : f(i) \in {f(1), f(2), f(3)}
      <4>1. \A i \in 1..3 : i = 1 \/ i = 2 \/ i = 3
        OBVIOUS
      <4> QED BY <4>1
    <3>2. 3 \in Nat
      OBVIOUS
    <3> QED BY <3>1, <3>2
  <2> HIDE DEF ch, cs
  <2>2. \A i \in 1..Len(ch) : ch[i] = cs[i]
    <3>1. \A i \in 1..3 : i = 1 \/ i = 2 \/ i = 3
      OBVIOUS
    <3> QED BY <1>5, <1>7, <2>1, <3>1
  <2> QED BY <1>7, <2>1, <2>2, SeqEqual
<1> HIDE DEF ch, cs
<1>9. FlattenSeq(cs) = s
  BY <1>2, <1>7, FlattenedThree
<1>10. EventsRead(cs) = EventsOf(s)
  <2>1. EventsRead(Chunks(s, 3, at)) = EventsRead(<<s>>)
    <3>1. 3 \in Nat
      OBVIOUS
    <3> QED BY <1>4, <3>1, CutsDoNotShowCorrect
  <2> QED BY <1>6, <1>8, <2>1, EventsReadCorrect
<1> QED BY <1>9, <1>10 DEF cs, a, b, c

-----------------------------------------------------------------------------
(***************************************************************************)
(* The listing of models.                                                  *)
(***************************************************************************)

\* The rule that applies first, or the default.
LEMMA FirstOfIs ==
  ASSUME NEW rules, Len(rules) \in Nat, NEW d
  PROVE  \/ FirstOf(rules, d) = d /\ \A i \in 1..Len(rules) : ~rules[i][1]
         \/ \E n \in 1..Len(rules) :
              /\ rules[n][1] /\ FirstOf(rules, d) = rules[n][2]
              /\ \A i \in 1..Len(rules) : i < n => ~rules[i][1]
<1> DEFINE I == {i \in 1..Len(rules) : rules[i][1]}
           n == IF I # {} THEN Min(I) ELSE 0
<1>1. FirstOf(rules, d) = IF n = 0 THEN d ELSE rules[n][2]
  BY DEF FirstOf, SelectInSeq
<1>2. CASE I = {}
  BY <1>1, <1>2
<1>3. CASE I # {}
  <2>1. Min(I) \in I /\ \A j \in I : Min(I) <= j
    <3>1. I \in SUBSET Nat
      OBVIOUS
    <3> HIDE DEF I
    <3> QED BY <1>3, <3>1, LeastIsMin
  <2> DEFINE m == Min(I)
  <2>2. n = m
    BY <1>3
  <2> HIDE DEF n, m
  <2>3. m \in I /\ \A j \in I : m <= j
    BY <2>1 DEF m
  <2>4. m \in 1..Len(rules) /\ rules[m][1] /\ m # 0
    BY <2>3
  <2>5. FirstOf(rules, d) = rules[m][2]
    BY <1>1, <2>2, <2>4
  <2>6. \A i \in 1..Len(rules) : i < m => ~rules[i][1]
    BY <2>3, <2>4
  <2> QED BY <2>4, <2>5, <2>6
<1> QED BY <1>2, <1>3

\* One, two and five rules in turn.
LEMMA FirstOfOne ==
  ASSUME NEW a, NEW d
  PROVE  FirstOf(<<a>>, d) = IF a[1] THEN a[2] ELSE d
<1> DEFINE rules == <<a>>
<1>1. Len(rules) = 1 /\ rules[1] = a
  OBVIOUS
<1> HIDE DEF rules
<1>2. 1..Len(rules) = {1}
  BY <1>1
<1>3. \/ FirstOf(rules, d) = d /\ \A i \in {1} : ~rules[i][1]
      \/ \E n \in {1} :
              /\ rules[n][1] /\ FirstOf(rules, d) = rules[n][2]
              /\ \A i \in {1} : i < n => ~rules[i][1]
  <2>1. \/ FirstOf(rules, d) = d /\ \A i \in 1..Len(rules) : ~rules[i][1]
        \/ \E n \in 1..Len(rules) :
              /\ rules[n][1] /\ FirstOf(rules, d) = rules[n][2]
              /\ \A i \in 1..Len(rules) : i < n => ~rules[i][1]
    <3>1. Len(rules) \in Nat
      BY <1>1
    <3> QED BY <3>1, FirstOfIs
  <2> QED BY <1>2, <2>1
<1> QED BY <1>1, <1>3 DEF rules

\* Two rules.
LEMMA FirstOfTwo ==
  ASSUME NEW a, NEW b, NEW d
  PROVE  FirstOf(<<a, b>>, d) = IF a[1] THEN a[2] ELSE IF b[1] THEN b[2] ELSE d
<1> DEFINE rules == <<a, b>>
<1>1. Len(rules) = 2 /\ rules[1] = a /\ rules[2] = b
  OBVIOUS
<1> HIDE DEF rules
<1>2. 1..Len(rules) = {1, 2}
  BY <1>1
<1>3. \/ FirstOf(rules, d) = d /\ \A i \in {1, 2} : ~rules[i][1]
      \/ \E n \in {1, 2} :
              /\ rules[n][1] /\ FirstOf(rules, d) = rules[n][2]
              /\ \A i \in {1, 2} : i < n => ~rules[i][1]
  <2>1. \/ FirstOf(rules, d) = d /\ \A i \in 1..Len(rules) : ~rules[i][1]
        \/ \E n \in 1..Len(rules) :
              /\ rules[n][1] /\ FirstOf(rules, d) = rules[n][2]
              /\ \A i \in 1..Len(rules) : i < n => ~rules[i][1]
    <3>1. Len(rules) \in Nat
      BY <1>1
    <3> QED BY <3>1, FirstOfIs
  <2> QED BY <1>2, <2>1
<1> QED BY <1>1, <1>3 DEF rules

\* The first of five rules that applies.
LEMMA FirstOfFive ==
  ASSUME NEW a, NEW b, NEW c, NEW e, NEW f, NEW d
  PROVE  FirstOf(<<a, b, c, e, f>>, d)
           = IF a[1] THEN a[2] ELSE IF b[1] THEN b[2] ELSE IF c[1] THEN c[2]
             ELSE IF e[1] THEN e[2] ELSE IF f[1] THEN f[2] ELSE d
<1> DEFINE rules == <<a, b, c, e, f>>
<1>1. /\ Len(rules) = 5 /\ rules[1] = a /\ rules[2] = b /\ rules[3] = c
      /\ rules[4] = e /\ rules[5] = f
  OBVIOUS
<1> HIDE DEF rules
<1>2. 1..Len(rules) = {1, 2, 3, 4, 5}
  BY <1>1
<1>3. \/ FirstOf(rules, d) = d /\ \A i \in {1, 2, 3, 4, 5} : ~rules[i][1]
      \/ \E n \in {1, 2, 3, 4, 5} :
              /\ rules[n][1] /\ FirstOf(rules, d) = rules[n][2]
              /\ \A i \in {1, 2, 3, 4, 5} : i < n => ~rules[i][1]
  <2>1. \/ FirstOf(rules, d) = d /\ \A i \in 1..Len(rules) : ~rules[i][1]
        \/ \E n \in 1..Len(rules) :
              /\ rules[n][1] /\ FirstOf(rules, d) = rules[n][2]
              /\ \A i \in 1..Len(rules) : i < n => ~rules[i][1]
    <3>1. Len(rules) \in Nat
      BY <1>1
    <3> QED BY <3>1, FirstOfIs
  <2> QED BY <1>2, <2>1
<1>4. CASE FirstOf(rules, d) = d /\ \A i \in {1, 2, 3, 4, 5} : ~rules[i][1]
  BY <1>1, <1>4 DEF rules
<1>5. ASSUME NEW n \in {1, 2, 3, 4, 5}, rules[n][1], FirstOf(rules, d) = rules[n][2],
             \A i \in {1, 2, 3, 4, 5} : i < n => ~rules[i][1]
      PROVE  FirstOf(rules, d)
           = IF a[1] THEN a[2] ELSE IF b[1] THEN b[2] ELSE IF c[1] THEN c[2]
             ELSE IF e[1] THEN e[2] ELSE IF f[1] THEN f[2] ELSE d
  BY <1>1, <1>5
<1> QED BY <1>3, <1>4, <1>5 DEF rules

\* The fields of a model that its entry depends on.
LEMMA ModelFields ==
  ASSUME NEW T, NEW def \in Model(T)
  PROVE  /\ def.gguf.tools \in BOOLEAN /\ def.gguf.thinks \in BOOLEAN
         /\ def.gguf.context \in Nat /\ def.context \in Nat
         /\ \A x \in DOMAIN def.caps : def.caps[x] \in BOOLEAN
         /\ def.expands \in BOOLEAN
<1>1. def.caps \in Capabilities
  BY DEF Model
<1>2. PICK S : def.caps \in [S -> BOOLEAN]
  BY <1>1 DEF Capabilities
<1>3. \A x \in DOMAIN def.caps : def.caps[x] \in BOOLEAN
  BY <1>2
<1> QED BY <1>3 DEF Model

\* The assignments that follow each other come to the rules of the readme, the
\* first of which decides.  (opencodeHandler)
LEMMA CapabilitiesByRule ==
  ASSUME NEW T, NEW def \in Model(T)
  PROVE  /\ Reasoning(def) = ReasoningByRule(def)
         /\ ToolCall(def) = ToolCallByRule(def)
         /\ Limit(def) = LimitByRule(def)
         /\ Vision(def) = (VisionByRule(def) \/ VisionIgnored(def))
<1>1. /\ def.gguf.tools \in BOOLEAN /\ def.gguf.thinks \in BOOLEAN
      /\ def.gguf.context \in Nat /\ def.context \in Nat
      /\ \A x \in DOMAIN def.caps : def.caps[x] \in BOOLEAN
  BY ModelFields
<1>2. Limit(def) = LimitByRule(def)
  <2> DEFINE a == <<def.context > 0, def.context>>
             c == FirstOf(<<a>>, def.gguf.context)
  <2>1. a[1] = (def.context > 0) /\ a[2] = def.context
    OBVIOUS
  <2>2. LimitByRule(def) = [context |-> c, input |-> def.gguf.context]
    BY DEF LimitByRule
  <2> HIDE DEF a
  <2>3. c = IF a[1] THEN a[2] ELSE def.gguf.context
    BY FirstOfOne
  <2> HIDE DEF c
  <2> QED BY <2>1, <2>2, <2>3 DEF Limit
<1>3. ToolCall(def) = ToolCallByRule(def)
  <2>1. ToolCallByRule(def) =
         IF "tool_call" \in DOMAIN def.caps THEN def.caps["tool_call"]
         ELSE IF NoParsing(def)[1] THEN FALSE ELSE def.gguf.tools
    <3> DEFINE a == Metadata(def, "tool_call")
               b == NoParsing(def)
    <3>1. a[1] = ("tool_call" \in DOMAIN def.caps)
          /\ ("tool_call" \in DOMAIN def.caps => a[2] = def.caps["tool_call"]) /\ b[2] = FALSE
      BY DEF Metadata, NoParsing
    <3>2. ToolCallByRule(def) = FirstOf(<<a, b>>, def.gguf.tools)
      BY DEF ToolCallByRule
    <3> HIDE DEF a, b
    <3>3. ToolCallByRule(def) = IF a[1] THEN a[2] ELSE IF b[1] THEN b[2] ELSE def.gguf.tools
      BY <3>2, FirstOfTwo
    <3> QED BY <3>1, <3>3 DEF b
  <2> QED BY <1>1, <2>1 DEF ToolCall, NoParsing, Has, Assign
<1>4. Reasoning(def) = ReasoningByRule(def)
  <2>1. ReasoningByRule(def) =
         IF "reasoning" \in DOMAIN def.caps THEN def.caps["reasoning"]
         ELSE IF "reasoning on" \in def.flags THEN TRUE
         ELSE IF "reasoning off" \in def.flags THEN FALSE
         ELSE IF "reasoning-format none" \in def.flags THEN FALSE
         ELSE IF NoParsing(def)[1] THEN FALSE ELSE def.gguf.thinks
    <3> DEFINE a == Metadata(def, "reasoning")
               b == <<"reasoning on" \in def.flags, TRUE>>
               c == <<"reasoning off" \in def.flags, FALSE>>
               e == <<"reasoning-format none" \in def.flags, FALSE>>
               f == NoParsing(def)
    <3>1. a[1] = ("reasoning" \in DOMAIN def.caps)
          /\ ("reasoning" \in DOMAIN def.caps => a[2] = def.caps["reasoning"]) /\ f[2] = FALSE
      BY DEF Metadata, NoParsing
    <3>2. /\ b[1] = ("reasoning on" \in def.flags) /\ b[2] = TRUE
          /\ c[1] = ("reasoning off" \in def.flags) /\ c[2] = FALSE
          /\ e[1] = ("reasoning-format none" \in def.flags) /\ e[2] = FALSE
      OBVIOUS
    <3>3. ReasoningByRule(def) = FirstOf(<<a, b, c, e, f>>, def.gguf.thinks)
      BY DEF ReasoningByRule
    <3> HIDE DEF a, b, c, e, f
    <3>4. ReasoningByRule(def)
           = IF a[1] THEN a[2] ELSE IF b[1] THEN b[2] ELSE IF c[1] THEN c[2]
             ELSE IF e[1] THEN e[2] ELSE IF f[1] THEN f[2] ELSE def.gguf.thinks
      BY <3>3, FirstOfFive
    <3> QED BY <3>1, <3>2, <3>4 DEF f
  <2> QED BY <1>1, <2>1 DEF Reasoning, NoParsing, Has, Assign
<1>5. Vision(def) = (VisionByRule(def) \/ VisionIgnored(def))
  <2> DEFINE a == Metadata(def, "vision")
             file == "mmproj" \in def.flags
  <2>1. a = <<"vision" \in DOMAIN def.caps,
              IF "vision" \in DOMAIN def.caps THEN def.caps["vision"] ELSE FALSE>>
    BY DEF Metadata
  <2>2. a[1] = ("vision" \in DOMAIN def.caps)
        /\ ("vision" \in DOMAIN def.caps => a[2] = def.caps["vision"])
    BY DEF Metadata
  <2>3. VisionByRule(def) = FirstOf(<<a>>, file)
    BY DEF VisionByRule
  <2>4. VisionIgnored(def) =
          (file /\ "vision" \in DOMAIN def.caps /\ ~def.caps["vision"])
    BY DEF VisionIgnored
  <2>5. Vision(def) = (file \/ ("vision" \in DOMAIN def.caps /\ def.caps["vision"]))
    BY DEF Vision, Has
  <2>6. file \in BOOLEAN
    BY DEF file
  <2> HIDE DEF a, file
  <2>7. VisionByRule(def) = IF a[1] THEN a[2] ELSE file
    BY <2>3, FirstOfOne
  <2>8. CASE "vision" \in DOMAIN def.caps
    <3>1. a[1] = TRUE /\ a[2] = def.caps["vision"] /\ def.caps["vision"] \in BOOLEAN
      BY <1>1, <2>2, <2>8
    <3> QED BY <2>4, <2>5, <2>6, <2>7, <2>8, <3>1
  <2>9. CASE "vision" \notin DOMAIN def.caps
    <3>1. VisionByRule(def) = file
      BY <2>2, <2>7, <2>9
    <3> QED BY <2>4, <2>5, <2>6, <2>9, <3>1
  <2> QED BY <2>8, <2>9
<1> QED BY <1>2, <1>3, <1>4, <1>5

\* shouldIncludeOpenCodeModel is the rule of the readme.
LEMMA WantedIsIncluded ==
  ASSUME NEW t, NEW include, NEW exclude
  PROVE  ShouldInclude(t, include, exclude) <=> Wanted(t, include, exclude)
BY DEF ShouldInclude, Wanted

\* Right for the models in S: what the listing is after a part of the loop.
Chats(defs, n, include, exclude) ==
  Wanted(defs[n].type, include, exclude) /\ "embedding" \notin defs[n].flags

Fails(defs, n, include, exclude) ==
  Wanted(defs[n].type, include, exclude) /\ ~defs[n].expands

Names(defs, n) == {n} \union defs[n].aliases

RightFor(L, defs, S, include, exclude) ==
  IF \E n \in S : Fails(defs, n, include, exclude) THEN L = Error
  ELSE /\ L = [failed |-> FALSE, models |-> L.models]
       /\ \A x : x \in DOMAIN L.models <=>
                   \E n \in S : Chats(defs, n, include, exclude) /\ x \in Names(defs, n)
       /\ \A n \in S : Chats(defs, n, include, exclude) =>
            \A x \in Names(defs, n) : Tells(L.models[x], defs[n], x)

\* One that is right for all models is the listing.
LEMMA RightIsListing ==
  ASSUME NEW L, NEW defs, NEW include, NEW exclude,
         RightFor(L, defs, DOMAIN defs, include, exclude)
  PROVE  IsListing(L, defs, include, exclude)
<1> DEFINE D == DOMAIN defs
           wanted == {n \in D : Wanted(defs[n].type, include, exclude)}
           chat == {n \in wanted : "embedding" \notin defs[n].flags}
<1>1. \A n : n \in chat <=> n \in D /\ Chats(defs, n, include, exclude)
  BY DEF Chats
<1>2. (\E n \in wanted : ~defs[n].expands) <=> \E n \in D : Fails(defs, n, include, exclude)
  BY DEF Fails
<1>3. IsListing(L, defs, include, exclude) =
        IF \E n \in wanted : ~defs[n].expands THEN L = Error
        ELSE /\ ~L.failed
             /\ DOMAIN L.models = UNION {{n} \union defs[n].aliases : n \in chat}
             /\ \A n \in chat : \A x \in {n} \union defs[n].aliases :
                  Tells(L.models[x], defs[n], x)
  BY DEF IsListing
<1> HIDE DEF wanted, chat, D
<1>4. CASE \E n \in wanted : ~defs[n].expands
  BY <1>2, <1>3, <1>4 DEF RightFor, D
<1>5. CASE ~ \E n \in wanted : ~defs[n].expands
  <2>1. /\ L = [failed |-> FALSE, models |-> L.models]
        /\ \A x : x \in DOMAIN L.models <=>
                   \E n \in D : Chats(defs, n, include, exclude) /\ x \in Names(defs, n)
        /\ \A n \in D : Chats(defs, n, include, exclude) =>
            \A x \in Names(defs, n) : Tells(L.models[x], defs[n], x)
    BY <1>2, <1>5 DEF RightFor, D
  <2>2. DOMAIN L.models = UNION {{n} \union defs[n].aliases : n \in chat}
    BY <1>1, <2>1 DEF Names
  <2>3. ~L.failed
    BY <2>1
  <2>4. \A n \in chat : \A x \in {n} \union defs[n].aliases :
                  Tells(L.models[x], defs[n], x)
    BY <1>1, <2>1 DEF Names
  <2> QED BY <1>3, <1>5, <2>2, <2>3, <2>4
<1> QED BY <1>4, <1>5

\* The entries of a model tell what they should.
LEMMA EntriesTell ==
  ASSUME NEW T, NEW def \in Model(T), NEW m
  PROVE  /\ DOMAIN Entries(m, def) = {m} \union def.aliases
         /\ \A x \in {m} \union def.aliases : Tells(Entries(m, def)[x], def, x)
<1>1. DOMAIN Entries(m, def) = {m} \union def.aliases
  BY DEF Entries
<1>2. ASSUME NEW x \in {m} \union def.aliases
      PROVE  Tells(Entries(m, def)[x], def, x)
  <2>1. Entries(m, def)[x] = Entry(x, def)
    BY <1>2 DEF Entries
  <2> DEFINE e == Entry(x, def)
  <2>2. /\ e.name = x /\ e.limit = Limit(def) /\ e.vision = Vision(def)
        /\ e.tool_call = ToolCall(def) /\ e.reasoning = Reasoning(def)
    BY DEF Entry
  <2> HIDE DEF e
  <2>3. Tells(e, def, x)
    BY <2>2, CapabilitiesByRule DEF Tells
  <2> QED BY <2>1, <2>3 DEF e
<1> QED BY <1>1, <1>2

\* One more round keeps it right, as no two models share a name.
LEMMA RightAfterModel ==
  ASSUME NEW T, NEW defs, \A n \in DOMAIN defs : defs[n] \in Model(T), NamesDiffer(defs),
         NEW S \in SUBSET DOMAIN defs, NEW m \in DOMAIN defs \ S, NEW include, NEW exclude,
         NEW L, RightFor(L, defs, S, include, exclude)
  PROVE  RightFor(AddModel(L, m, defs[m], include, exclude), defs, S \union {m}, include, exclude)
<1> DEFINE M == AddModel(L, m, defs[m], include, exclude)
           Q == S \union {m}
           looked == ~L.failed /\ Wanted(defs[m].type, include, exclude)
<1>1. M = CASE ~looked -> L
            [] looked /\ ~defs[m].expands -> Error
            [] looked /\ defs[m].expands /\ Has(defs[m], {"embedding"}) -> L
            [] OTHER -> [failed |-> FALSE, models |-> Over(Entries(m, defs[m]), L.models)]
  BY WantedIsIncluded DEF AddModel
<1>2. Has(defs[m], {"embedding"}) <=> "embedding" \in defs[m].flags
  BY DEF Has
<1>3. CASE \E n \in S : Fails(defs, n, include, exclude)
  <2>1. L = Error /\ L.failed
    BY <1>3 DEF RightFor, Error
  <2>2. M = L
    BY <1>1, <2>1
  <2> QED BY <1>3, <2>1, <2>2 DEF RightFor
<1>4. CASE ~ \E n \in S : Fails(defs, n, include, exclude)
  <2>1. /\ L = [failed |-> FALSE, models |-> L.models]
        /\ \A x : x \in DOMAIN L.models <=>
                   \E n \in S : Chats(defs, n, include, exclude) /\ x \in Names(defs, n)
        /\ \A n \in S : Chats(defs, n, include, exclude) =>
            \A x \in Names(defs, n) : Tells(L.models[x], defs[n], x)
    BY <1>4 DEF RightFor
  <2>2. L.failed = FALSE
    BY <2>1
  <2>3. CASE Fails(defs, m, include, exclude)
    <3>1. M = Error
      BY <1>1, <2>2, <2>3 DEF Fails
    <3> QED BY <2>3, <3>1 DEF RightFor
  <2>4. CASE ~Fails(defs, m, include, exclude) /\ ~Chats(defs, m, include, exclude)
    <3>1. M = L
      BY <1>1, <1>2, <2>2, <2>4 DEF Fails, Chats
    <3>2. ~ \E n \in Q : Fails(defs, n, include, exclude)
      BY <1>4, <2>4
    <3>3. /\ \A x : x \in DOMAIN L.models <=>
                     \E n \in Q : Chats(defs, n, include, exclude) /\ x \in Names(defs, n)
          /\ \A n \in Q : Chats(defs, n, include, exclude) =>
               \A x \in Names(defs, n) : Tells(L.models[x], defs[n], x)
      BY <2>1, <2>4
    <3> HIDE DEF M, Q
    <3>4. RightFor(M, defs, Q, include, exclude)
      BY <2>1, <3>1, <3>2, <3>3 DEF RightFor
    <3> QED BY <3>4 DEF M, Q
  <2>5. CASE ~Fails(defs, m, include, exclude) /\ Chats(defs, m, include, exclude)
    <3> DEFINE new == Entries(m, defs[m])
               E == Over(new, L.models)
    <3>1. M = [failed |-> FALSE, models |-> E]
      <4>1. looked /\ defs[m].expands /\ ~Has(defs[m], {"embedding"})
        BY <1>2, <2>2, <2>5 DEF Fails, Chats
      <4> QED BY <1>1, <4>1
    <3>2. ~ \E n \in Q : Fails(defs, n, include, exclude)
      BY <1>4, <2>5
    <3>3. /\ DOMAIN new = Names(defs, m)
          /\ \A x \in Names(defs, m) : Tells(new[x], defs[m], x)
      BY EntriesTell DEF Names
    <3>4. DOMAIN E = DOMAIN new \union DOMAIN L.models
          /\ \A x \in DOMAIN E : E[x] = IF x \in DOMAIN new THEN new[x] ELSE L.models[x]
      BY DEF Over
    <3> HIDE DEF M, E, new
    <3>6. M.models = E
      BY <3>1
    <3>7. \A x : x \in DOMAIN E <=>
                   \E n \in Q : Chats(defs, n, include, exclude) /\ x \in Names(defs, n)
      BY <2>1, <2>5, <3>3, <3>4
    <3>8. ASSUME NEW n \in Q, Chats(defs, n, include, exclude), NEW x \in Names(defs, n)
          PROVE  Tells(E[x], defs[n], x)
      <4>1. x \in DOMAIN E
        BY <3>7, <3>8
      <4>2. CASE n = m
        BY <3>3, <3>4, <3>8, <4>1, <4>2
      <4>3. CASE n # m
        <5>1. n \in S /\ n \in DOMAIN defs
          BY <4>3
        <5>2. x \notin Names(defs, m)
          BY <3>8, <4>3, <5>1 DEF NamesDiffer, Names
        <5>3. E[x] = L.models[x]
          BY <3>3, <3>4, <4>1, <5>2
        <5> QED BY <2>1, <3>8, <5>1, <5>3
      <4> QED BY <4>2, <4>3
    <3>9. /\ M = [failed |-> FALSE, models |-> M.models]
          /\ \A x : x \in DOMAIN M.models <=>
                     \E n \in Q : Chats(defs, n, include, exclude) /\ x \in Names(defs, n)
          /\ \A n \in Q : Chats(defs, n, include, exclude) =>
               \A x \in Names(defs, n) : Tells(M.models[x], defs[n], x)
      BY <3>1, <3>6, <3>7, <3>8
    <3> HIDE DEF Q
    <3>10. RightFor(M, defs, Q, include, exclude)
      BY <3>2, <3>9 DEF RightFor
    <3> QED BY <3>10 DEF M, Q
  <2> QED BY <2>3, <2>4, <2>5
<1> QED BY <1>3, <1>4

\* The listings that the loop goes through, the first m.
ListingRounds(g, names, defs, include, exclude, m) ==
  /\ g[0] = NoModels
  /\ \A i \in 1..m : g[i] = AddModel(g[i - 1], names[i], defs[names[i]], include, exclude)

\* The recursion is well defined: there is such a sequence.
LEMMA RoundsAre ==
  ASSUME NEW names, NEW defs, NEW include, NEW exclude, Len(names) \in Nat
  PROVE  \E g : /\ ListingRounds(g, names, defs, include, exclude, Len(names))
                /\ Listing(names, defs, include, exclude) = g[Len(names)]
<1> DEFINE Add(L, i) == AddModel(L, names[i], defs[names[i]], include, exclude)
           is(g, m) == g = [n \in 0..m |-> IF n = 0 THEN NoModels ELSE Add(g[n - 1], n)]
           I == {m \in Nat : \E g : is(g, m)}
           after == CHOOSE g : is(g, Len(names))
<1>1. Listing(names, defs, include, exclude) = after[Len(names)]
  BY DEF Listing
<1>2. ASSUME NEW g, NEW m \in Nat, is(g, m)
      PROVE  ListingRounds(g, names, defs, include, exclude, m)
  <2> DEFINE f == [n \in 0..m |-> IF n = 0 THEN NoModels ELSE Add(g[n - 1], n)]
  <2>1. f[0] = NoModels /\ \A n \in 1..m : f[n] = Add(g[n - 1], n)
    <3>1. 0 \in 0..m /\ \A n \in 1..m : n \in 0..m /\ n # 0
      OBVIOUS
    <3> HIDE DEF Add
    <3> QED BY <3>1
  <2>2. g = f
    BY <1>2
  <2> QED BY <2>1, <2>2 DEF ListingRounds
<1> HIDE DEF Add
<1>3. 0 \in I
  <2> DEFINE f == [n \in 0..0 |-> NoModels]
  <2>1. is(f, 0)
    <3>1. \A n \in 0..0 : n = 0
      OBVIOUS
    <3> QED BY <3>1
  <2> QED BY <2>1
<1>4. ASSUME NEW m \in Nat, m \in I PROVE m + 1 \in I
  <2>1. PICK g : is(g, m)
    BY <1>4
  <2> DEFINE h == [n \in 0..(m + 1) |-> IF n = m + 1 THEN Add(g[m], m + 1) ELSE g[n]]
             k == [n \in 0..(m + 1) |-> IF n = 0 THEN NoModels ELSE Add(h[n - 1], n)]
  <2>2. ASSUME NEW n \in 0..(m + 1) PROVE h[n] = k[n]
    <3>1. CASE n = m + 1
      <4>1. m \in 0..(m + 1) /\ m # m + 1 /\ n # 0 /\ n - 1 = m
        BY <3>1
      <4>2. h[m] = g[m]
        BY <4>1
      <4> QED BY <3>1, <4>1, <4>2
    <3>2. CASE n # m + 1
      <4>1. n \in 0..m
        BY <3>2
      <4>2. h[n] = g[n] /\ g[n] = IF n = 0 THEN NoModels ELSE Add(g[n - 1], n)
        BY <2>1, <3>2, <4>1
      <4>3. n # 0 => n - 1 \in 0..(m + 1) /\ n - 1 # m + 1
        BY <4>1
      <4> QED BY <4>2, <4>3
    <3> QED BY <3>1, <3>2
  <2>3. h = k
    BY <2>2
  <2>4. is(h, m + 1)
    BY <2>3
  <2> HIDE DEF h, is
  <2>5. \E f : is(f, m + 1)
    BY <2>4
  <2> QED BY <2>5
<1>5. is(after, Len(names))
  <2> HIDE DEF I
  <2>1. Len(names) \in I
    BY <1>3, <1>4, Induction
  <2> QED BY <2>1 DEF I
<1> HIDE DEF after, is
<1>6. ListingRounds(after, names, defs, include, exclude, Len(names))
  BY <1>2, <1>5
<1> QED BY <1>1, <1>6

\* In every order of the models the listing is the one of the readme's rules.
\* (opencodeHandler)
THEOREM ListingCorrect ==
  ASSUME NEW T, NEW defs, IsFiniteSet(DOMAIN defs),
         \A n \in DOMAIN defs : defs[n] \in Model(T), NamesDiffer(defs),
         NEW include, NEW exclude, NEW L \in Listings(defs, include, exclude)
  PROVE  IsListing(L, defs, include, exclude)
<1>1. PICK names \in SetToSeqs(DOMAIN defs) : L = Listing(names, defs, include, exclude)
  BY DEF Listings
<1>2. /\ Len(names) \in Nat /\ \A i \in 1..Len(names) : names[i] \in DOMAIN defs
      /\ \A i, j \in 1..Len(names) : i # j => names[i] # names[j]
      /\ \A x \in DOMAIN defs : \E i \in 1..Len(names) : names[i] = x
  BY OrderIsOnto
<1>3. PICK g : ListingRounds(g, names, defs, include, exclude, Len(names)) /\ L = g[Len(names)]
  BY <1>1, <1>2, RoundsAre
<1> DEFINE S(m) == {names[i] : i \in 1..m}
           I == {m \in Nat : m <= Len(names) => RightFor(g[m], defs, S(m), include, exclude)}
<1>4. 0 \in I
  <2>1. S(0) = {} /\ g[0] = NoModels
    BY <1>3 DEF ListingRounds
  <2>2. NoModels = [failed |-> FALSE, models |-> NoModels.models] /\ DOMAIN NoModels.models = {}
    BY DEF NoModels
  <2>3. RightFor(NoModels, defs, {}, include, exclude)
    BY <2>2 DEF RightFor
  <2> QED BY <2>1, <2>3
<1>5. ASSUME NEW m \in Nat, m \in I PROVE m + 1 \in I
  <2>1. SUFFICES ASSUME m + 1 <= Len(names)
                 PROVE  RightFor(g[m + 1], defs, S(m + 1), include, exclude)
    OBVIOUS
  <2> DEFINE n == names[m + 1]
  <2>2. RightFor(g[m], defs, S(m), include, exclude)
    BY <1>2, <1>5, <2>1
  <2>3. S(m) \in SUBSET DOMAIN defs /\ n \in DOMAIN defs \ S(m)
    <3>1. m + 1 \in 1..Len(names) /\ \A i \in 1..m : i \in 1..Len(names) /\ i # m + 1
      BY <1>2, <2>1
    <3> QED BY <1>2, <3>1
  <2>4. g[m + 1] = AddModel(g[m], n, defs[n], include, exclude)
    <3>1. m + 1 \in 1..Len(names) /\ (m + 1) - 1 = m
      BY <1>2, <2>1
    <3> QED BY <1>3, <3>1 DEF ListingRounds
  <2>5. S(m + 1) = S(m) \union {n}
    <3>1. 1..(m + 1) = (1..m) \union {m + 1}
      OBVIOUS
    <3> QED BY <3>1
  <2> HIDE DEF S, n
  <2>6. RightFor(AddModel(g[m], n, defs[n], include, exclude), defs, S(m) \union {n}, include, exclude)
    BY <2>2, <2>3, RightAfterModel
  <2> QED BY <2>4, <2>5, <2>6
<1> HIDE DEF I
<1>6. RightFor(L, defs, S(Len(names)), include, exclude)
  <2>1. Len(names) \in I
    BY <1>2, <1>4, <1>5, Induction
  <2> QED BY <1>2, <1>3, <2>1 DEF I
<1>7. S(Len(names)) = DOMAIN defs
  BY <1>2
<1> HIDE DEF S
<1> QED BY <1>6, <1>7, RightIsListing

-----------------------------------------------------------------------------
(***************************************************************************)
(* What holds of the behaviours: the invariants.                           *)
(***************************************************************************)

\* An input is one of its part, and the pages' characters include the names.
InputOK ==
  /\ part = "merge" => \E e, p \in Snapshots : input = [existing |-> e, incoming |-> p]
  /\ part = "stream" =>
       \E s \in BoundedSeq(Streams, MaxStream) : \E m \in 0..Len(s) : \E n \in m..Len(s) :
         input = <<SubSeq(s, 1, m), SubSeq(s, m + 1, n), SubSeq(s, n + 1, Len(s))>>
  /\ part = "request" =>
       \E req \in Requests, on \in BOOLEAN, S \in SUBSET {"m1", "m2"} :
         input = [req |-> req, enabled |-> on, llamaCpp |-> S]
  /\ part = "page" =>
       \E page \in Pages : \E html, other, signals \in BOOLEAN :
       \E n \in EndOfHead(page)..Len(page) :
         input = [page |-> page, html |-> html, other |-> other, signals |-> signals,
                  parsed |-> n]
  /\ part = "visit" => input \in Visits
  /\ part = "models" =>
       \E defs \in Defs : \E include, exclude \in SUBSET {"llm", "sd"} :
         input = [defs |-> defs, include |-> include, exclude |-> exclude]
  /\ part = "macros" =>
       \E f \in MacroSets : \E S \in SUBSET EnvName : \E m \in DOMAIN f :
         input = [cmd |-> <<m>>, macros |-> f, env |-> [e \in S |-> <<"set">>]]
  /\ part = "file" =>
       \E f \in Files : \E cut \in 0..FileSize(f) : input = [file |-> f, cut |-> cut]

\* Inputs are those that the assumptions speak of.
LEMMA InputCorrect == Spec => []InputOK
<1>1. Init => InputOK
  BY DEF Init, InputOK
<1>2. ASSUME InputOK, [Next]_vars PROVE InputOK'
  <2>1. CASE TakeStream
    BY <2>1 DEF TakeStream, Take, InputOK
  <2>2. CASE TakeRequest
    BY <2>2 DEF TakeRequest, Take, InputOK
  <2>3. CASE TakePage
    BY <2>3, Zenon DEF TakePage, Take, InputOK
  <2>4. CASE TakeVisit
    BY <2>4 DEF TakeVisit, Take, InputOK
  <2>5. CASE TakeModels
    BY <2>5 DEF TakeModels, Take, InputOK
  <2>6. CASE TakeMerge
    BY <2>6 DEF TakeMerge, Take, InputOK
  <2>7. CASE UNCHANGED vars
    BY <1>2, <2>7 DEF vars, InputOK
  <2>8. CASE TakeMacros
    BY <2>8 DEF TakeMacros, Take, InputOK
  <2>9. CASE TakeFile
    BY <2>9 DEF TakeFile, Take, InputOK
  <2> QED BY <1>2, <2>1, <2>2, <2>3, <2>4, <2>5, <2>6, <2>7, <2>8, <2>9 DEF Next
<1> QED BY <1>1, <1>2, PTL DEF Spec

\* Uploading a snapshot once more changes nothing, whatever the row and the
\* browser had; and no record is doubled.  (mergeIndexedDB)
THEOREM MergeSettlesCorrect == Spec => []MergeSettles
<1>1. InputOK => MergeSettles
  <2> SUFFICES ASSUME InputOK, part = "merge"
               PROVE  LET m == MergeIndexedDB(input.existing, input.incoming) IN
                      /\ MergeIndexedDB(m, input.incoming) = m
                      /\ MergeIndexedDB(m, m) = m
                      /\ KeysDiffer(m)
    BY DEF MergeSettles
  <2>1. PICK e, p \in Snapshots : input = [existing |-> e, incoming |-> p]
    BY DEF InputOK
  <2>2. input.existing = e /\ input.incoming = p
    BY <2>1
  <2> QED BY <2>2, SnapshotsAssumption, SnapshotsSettle
<1> QED BY <1>1, InputCorrect, PTL

\* On leaves, an upload overrides the row, as SessionStore has it, wherever both
\* have objects at the same places.  (mergeIndexedDB)
THEOREM MergeIsOverrideCorrect == Spec => []MergeIsOverride
<1>1. InputOK => MergeIsOverride
  <2> SUFFICES ASSUME InputOK, part = "merge", AgreeInShape(input.existing, input.incoming)
               PROVE  Leaves(MergeIndexedDB(input.existing, input.incoming))
                        = Overridden(Leaves(input.existing), Leaves(input.incoming))
    BY DEF MergeIsOverride
  <2>1. PICK e, p \in Snapshots : input = [existing |-> e, incoming |-> p]
    BY DEF InputOK
  <2>2. input.existing = e /\ input.incoming = p
    BY <2>1
  <2> QED BY <2>2, SnapshotsAssumption, SnapshotsOverridden
<1> QED BY <1>1, InputCorrect, PTL

\* However the network cuts a stream, its events are read.  (feed)
THEOREM EventsAreTheStreamsCorrect == Spec => []EventsAreTheStreams
<1>1. InputOK => EventsAreTheStreams
  <2> SUFFICES ASSUME InputOK, part = "stream"
               PROVE  EventsRead(input) = EventsOf(FlattenSeq(input))
    BY DEF EventsAreTheStreams
  <2>1. PICK s \in BoundedSeq(Streams, MaxStream) : \E m \in 0..Len(s) : \E n \in m..Len(s) :
          input = <<SubSeq(s, 1, m), SubSeq(s, m + 1, n), SubSeq(s, n + 1, Len(s))>>
    BY DEF InputOK
  <2>2. s \in Seq(Streams)
    <3>1. PICK k \in 0..MaxStream : s \in [1..k -> Streams]
      BY DEF BoundedSeq, SeqOf
    <3>2. k \in Nat
      BY MaxStreamAssumption
    <3> QED BY <3>1, <3>2
  <2>3. PICK m \in 0..Len(s) : \E n \in m..Len(s) :
          input = <<SubSeq(s, 1, m), SubSeq(s, m + 1, n), SubSeq(s, n + 1, Len(s))>>
    BY <2>1
  <2>4. PICK n \in m..Len(s) :
          input = <<SubSeq(s, 1, m), SubSeq(s, m + 1, n), SubSeq(s, n + 1, Len(s))>>
    BY <2>3
  <2>5. m \in 0..Len(s) /\ n \in 0..Len(s) /\ m <= n
    BY <2>2
  <2>6. FlattenSeq(input) = s /\ EventsRead(input) = EventsOf(s)
    BY <2>2, <2>4, <2>5, ThreeChunks
  <2> QED BY <2>6
<1> QED BY <1>1, InputCorrect, PTL

\* llama-swap gets each request as the client sent it, but for a
\* return_progress that the client left to the proxy.
\* (maybeInjectReturnProgress, readJSONRequestBodyAsMap)
THEOREM ForwardedAsSentCorrect == Spec => []ForwardedAsSent
<1>1. InputOK => ForwardedAsSent
  <2> SUFFICES ASSUME InputOK, part = "request", ~input.req.cut
               PROVE  AsSent(input.req, input.llamaCpp, input.enabled)
    BY DEF ForwardedAsSent
  <2>1. PICK req \in Requests, on \in BOOLEAN, S \in SUBSET {"m1", "m2"} :
          input = [req |-> req, enabled |-> on, llamaCpp |-> S]
    BY DEF InputOK
  <2>2. input.req = req /\ input.enabled = on /\ input.llamaCpp = S /\ ~req.cut
    BY <2>1
  <2>3. req \in Request(Texts)
    BY RequestsAssumption
  <2>4. "true" \in Texts
    BY TextsAssumption
  <2> QED BY <2>2, <2>3, <2>4, AsSentCorrect
<1> QED BY <1>1, InputCorrect, PTL

\* Every stream that is tracked, of a model on llama.cpp, reports progress.
\* (maybeInjectReturnProgress, derivePrefillCorrelationFromRequest)
THEOREM TrackedStreamsReportCorrect == Spec => []TrackedStreamsReport
<1>1. InputOK => TrackedStreamsReport
  <2> SUFFICES ASSUME InputOK, part = "request"
               PROVE  Reports(input.req, input.llamaCpp)
    BY DEF TrackedStreamsReport
  <2>1. PICK req \in Requests, on \in BOOLEAN, S \in SUBSET {"m1", "m2"} :
          input = [req |-> req, enabled |-> on, llamaCpp |-> S]
    BY DEF InputOK
  <2>2. input.req = req /\ input.llamaCpp = S /\ req \in Request(Texts)
    BY <2>1, RequestsAssumption
  <2>3. "true" \in Texts
    BY TextsAssumption
  <2> QED BY <2>2, <2>3, ReportsCorrect
<1> QED BY <1>1, InputCorrect, PTL

\* No script of a page that is rewritten runs before the bootstrap; those that
\* are parsed when it asks for them are put back in their order, as they were,
\* up to one that is awaited for ever.
\* (injectWebUISync, rewriteScriptTagsForSyncGate, runDeferredScripts)
THEOREM ScriptsRunInOrderCorrect == Spec => []ScriptsRunInOrder
<1>1. InputOK => ScriptsRunInOrder
  <2> SUFFICES ASSUME InputOK, part = "page", IsRewritten PROVE ScriptsRunInOrder
    BY DEF ScriptsRunInOrder
  <2>1. PICK page \in Pages : \E html, other, signals \in BOOLEAN :
          \E n \in EndOfHead(page)..Len(page) :
          input = [page |-> page, html |-> html, other |-> other, signals |-> signals,
                   parsed |-> n]
    BY DEF InputOK
  <2>2. PICK html, other, signals \in BOOLEAN : \E n \in EndOfHead(page)..Len(page) :
          input = [page |-> page, html |-> html, other |-> other, signals |-> signals,
                   parsed |-> n]
    BY <2>1
  <2>3. PICK k \in EndOfHead(page)..Len(page) :
          input = [page |-> page, html |-> html, other |-> other, signals |-> signals,
                   parsed |-> k]
    BY <2>2
  <2>4. /\ input.page = page /\ input.html = html /\ input.other = other
        /\ input.signals = signals /\ input.parsed = k /\ page \in Seq(Piece(Texts))
    BY <2>3, PagesAssumption
  <2> DEFINE out == Served(page, html, other)
             n == EndOfHead(page)
             here == SubSeq(page, 1, k)
             there == SubSeq(out, 1, k + 1)
             all == Scripts(here)
             run == RunDeferred(there, signals)
  <2>5. ServedPage = out /\ out # page /\ NoOther(page)
    BY <2>4 DEF IsRewritten, ServedPage, NoOther
  <2>6. Contains(page, HeadEnd) /\ out = Served(page, TRUE, FALSE)
    BY <2>5 DEF Served
  <2>7. Gated(page, out, n) /\ \E U : out \in Seq(U)
    BY <2>4, <2>5, <2>6, GatedCorrect
  <2>8. PICK U : out \in Seq(U)
    BY <2>7
  <2>9. PutBack = run
    BY <2>4, <2>5 DEF PutBack
  <2> HIDE DEF out, n
  <2>10. RunByParser(out) = <<Bootstrap>>
    BY <2>4, <2>7, <2>8, GatedScripts
  <2>11. here \in Seq(Piece(Texts)) /\ there \in Seq(U) /\ Gated(here, there, n)
    <3>1. k \in n..Len(page)
      BY DEF n
    <3> QED BY <2>4, <2>7, <2>8, <3>1, GatedPart
  <2> HIDE DEF here, there
  <2>12. /\ \A i \in 1..Len(run) : run[i] = AsItWas(all[i])
         /\ Len(run) = Len(all) \/ Silent(all[Len(run)], signals)
    BY <2>11, DeferredRunInOrderCorrect
  <2> HIDE DEF all, run
  <2>13. Scripts(SubSeq(input.page, 1, input.parsed)) = all
    BY <2>4 DEF all, here
  <2> QED BY <2>4, <2>5, <2>7, <2>9, <2>10, <2>12, <2>13 DEF ScriptsRunInOrder, n
<1> QED BY <1>1, InputCorrect, PTL

\* The requests of each page reach its row, and pages share a channel just if
\* they share a row.  (resolveUser, resolveScope, sessionChannelKey, apiBase)
THEOREM PagesKeepToTheirRowCorrect == Spec => []PagesKeepToTheirRow
<1>1. InputOK => PagesKeepToTheirRow
  <2> SUFFICES ASSUME InputOK, part = "visit", PlainUser(input.user)
               PROVE  /\ ReachesItsRow(input, <<"sync">>)
                      /\ \A v \in Visits : PlainUser(v.user) /\ v.isolate = input.isolate
                                             => SharesByRow(input, v)
    BY DEF PagesKeepToTheirRow
  <2>1. input \in Page(Texts) /\ \A v \in Visits : v \in Page(Texts)
    BY VisitsAssumption DEF InputOK
  <2>2. Characters(Texts)
    BY TextsAssumption DEF Characters
  <2>3. ReachesItsRow(input, <<"sync">>)
    <3>1. /\ <<"sync">> \in Seq(Texts) /\ <<"sync">> # <<>>
          /\ \A i \in 1..Len(<<"sync">>) : <<"sync">>[i] # Slash
      BY <2>2 DEF Characters, Slash
    <3> QED BY <2>1, <2>2, <3>1, ReachesItsRowCorrect
  <2>4. ASSUME NEW v \in Visits, PlainUser(v.user), v.isolate = input.isolate
        PROVE  SharesByRow(input, v)
    BY <2>1, <2>2, <2>4, SharesByRowCorrect
  <2> QED BY <2>3, <2>4
<1> QED BY <1>1, InputCorrect, PTL

\* In every order of Go's map the listing is the one of the readme's rules, but
\* for the vision that --mmproj gives in spite of the metadata.  (opencodeHandler)
THEOREM ListingIsUniqueCorrect == Spec => []ListingIsUnique
<1>1. InputOK => ListingIsUnique
  <2> SUFFICES ASSUME InputOK, part = "models", NamesDiffer(input.defs),
                      NEW L \in Listings(input.defs, input.include, input.exclude)
               PROVE  IsListing(L, input.defs, input.include, input.exclude)
    BY DEF ListingIsUnique
  <2>1. PICK defs \in Defs, include, exclude \in SUBSET {"llm", "sd"} :
          input = [defs |-> defs, include |-> include, exclude |-> exclude]
    BY DEF InputOK
  <2>2. input.defs = defs /\ input.include = include /\ input.exclude = exclude
    BY <2>1
  <2>3. IsFiniteSet(DOMAIN defs) /\ \A n \in DOMAIN defs : defs[n] \in Model(Texts)
    BY DefsAssumption
  <2> QED BY <2>2, <2>3, ListingCorrect
<1> QED BY <1>1, InputCorrect, PTL

\* In every order of Go's map, macros that nest less deep than there are rounds
\* are expanded to the end, and to the same end.  (expandMacros)
THEOREM ExpansionIsUniqueCorrect == Spec => []ExpansionIsUnique
<1>1. InputOK => ExpansionIsUnique
  <2> SUFFICES ASSUME InputOK, part = "macros", Acyclic(input.macros),
                      Literal(input.env, input.macros)
               PROVE  Expansions(input.cmd, input.macros, input.env)
                        = {Expanded(input.cmd, input.macros, input.env)}
    BY DEF ExpansionIsUnique
  <2>1. PICK f \in MacroSets : \E S \in SUBSET EnvName : \E m \in DOMAIN f :
          input = [cmd |-> <<m>>, macros |-> f, env |-> [e \in S |-> <<"set">>]]
    BY DEF InputOK
  <2>2. PICK S \in SUBSET EnvName : \E m \in DOMAIN f :
          input = [cmd |-> <<m>>, macros |-> f, env |-> [e \in S |-> <<"set">>]]
    BY <2>1
  <2>3. PICK m \in DOMAIN f :
          input = [cmd |-> <<m>>, macros |-> f, env |-> [e \in S |-> <<"set">>]]
    BY <2>2
  <2> DEFINE env == [e \in S |-> <<"set">>]
             cmd == <<m>>
  <2>4. input.cmd = cmd /\ input.macros = f /\ input.env = env
    BY <2>3
  <2>5. IsMacros(f, Texts) /\ EnvName \subseteq Texts /\ "set" \in Texts
    BY MacrosAssumption
  <2>6. cmd \in Seq(Texts)
    BY <2>5 DEF IsMacros
  <2>7. DOMAIN env \subseteq EnvName /\ Into(env, Texts)
    BY <2>5 DEF Into
  <2>8. PICK rank \in [DOMAIN f -> 1..(Rounds - 1)] : Ranks(rank, f)
    BY <2>4 DEF Acyclic
  <2> HIDE DEF env, cmd
  <2>9. Terms(f, rank, env, Texts)
    BY <2>4, <2>5, <2>7, <2>8 DEF Terms, Ranked, Into, IsMacros
  <2>10. Expansions(cmd, f, env) = {Expanded(cmd, f, env)}
    BY <2>6, <2>9, ExpansionIs
  <2> QED BY <2>4, <2>10
<1> QED BY <1>1, InputCorrect, PTL

\* A GGUF file that is whole gives its metadata, unless it has a longer text
\* than is read; one that is cut off, or states lengths beyond its end, an
\* error.  (readGGUFMeta)
THEOREM HeaderIsReadOrRefusedCorrect == Spec => []HeaderIsReadOrRefused
<1>1. InputOK => HeaderIsReadOrRefused
  <2> SUFFICES ASSUME InputOK, part = "file" PROVE HeaderIsReadOrRefused
    BY DEF HeaderIsReadOrRefused
  <2>1. PICK f \in Files : \E cut \in 0..FileSize(f) : input = [file |-> f, cut |-> cut]
    BY DEF InputOK
  <2>2. PICK cut \in 0..FileSize(f) : input = [file |-> f, cut |-> cut]
    BY <2>1
  <2>3. input.file = f /\ input.cut = cut
    BY <2>2
  <2>4. IsFile(f, Texts)
    BY FilesAssumption
  <2>5. LET read == ReadMeta(f, cut)
            whole == cut = FileSize(f)
        IN /\ WellFormed(f) /\ (~whole \/ ~TextsFit(f)) => read.is = Failed
           /\ WellFormed(f) /\ whole /\ TextsFit(f) /\ ContextsFit(f) => read = MetaOf(f)
           /\ Overstated(f) => read.is = Failed
    BY <2>4, HeaderIs
  <2> QED BY <2>3, <2>5 DEF HeaderIsReadOrRefused
<1> QED BY <1>1, InputCorrect, PTL
=============================================================================
