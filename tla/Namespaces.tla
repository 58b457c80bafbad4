----------------------------- MODULE Namespaces -----------------------------
(***************************************************************************)
(* Which row and which channel of the store a page ends up with: the names *)
(* that webui_inject.go gives it, the URLs its script makes of them        *)
(* (webui_bootstrap.js), and what sync_api.go makes of the URLs.  A name   *)
(* is a sequence of characters; percent-encoding is undone by net/url.     *)
(***************************************************************************)
EXTENDS SequencesExt

Slash == "/"
Bar == "|"
Global == <<"global">>
ModelPrefix == <<"model:">>
NotFound == [endpoint |-> <<>>]

\* A page as the server makes it, of characters from C.
Page(C) == [user : Seq(C), model : Seq(C), isolate : BOOLEAN]

\* What is before the first slash.
Segment(s) ==
  LET n == SelectInSeq(s, LAMBDA c : c = Slash) IN IF n = 0 THEN s ELSE SubSeq(s, 1, n - 1)

\* Mutant: the flag is read the wrong way round.
MutantScopeOf(model, isolate) ==
  IF ~isolate /\ Segment(model) # <<>> THEN ModelPrefix \o Segment(model) ELSE Global

\* injectWebUISync: the scope of a page under /upstream/<model>/.
ScopeOf(model, isolate) ==
  IF isolate /\ Segment(model) # <<>> THEN ModelPrefix \o Segment(model) ELSE Global

\* strings.Split(path, "/") of a path without slashes at its ends.
Trimmed(path) ==
  LET at == {n \in 1..Len(path) : path[n] # Slash} IN
  IF at = {} THEN <<>> ELSE SubSeq(path, Min(at), Max(at))

\* HandleSessions, for the path after /api/sessions/: user, scope and endpoint.
Resolve(path, scope, defaultUser) ==
  LET p == Trimmed(path)
      user == Segment(p)
      rest == SubSeq(p, Len(user) + 2, Len(p))
  IN IF ~Contains(p, Slash) THEN NotFound
     ELSE [user |-> IF user \in {<<>>, <<"default">>} THEN defaultUser ELSE user,
           scope |-> IF scope = <<>> THEN Global ELSE scope,
           endpoint |-> Segment(rest)]

\* The path of a request of the page (apiBase).
RequestPath(user, endpoint) == user \o <<Slash>> \o endpoint

\* Where a request of a page to an endpoint ends up.
Resolved(page, endpoint) ==
  Resolve(RequestPath(page.user, endpoint), ScopeOf(page.model, page.isolate), page.user)

\* sessionChannelKey
ChannelKey(user, scope) == user \o <<Bar>> \o scope

-----------------------------------------------------------------------------
\* A user without slash and bar.
PlainUser(user) == user # <<>> /\ ToSet(user) \intersect {Slash, Bar} = {}

\* The requests of a page to an endpoint reach it, and the row of the page's
\* user and scope.
ReachesItsRow(page, endpoint) ==
  Resolved(page, endpoint) =
    [user |-> page.user, scope |-> ScopeOf(page.model, page.isolate), endpoint |-> endpoint]

\* Two pages share a channel just if they share a row, which isolated pages of
\* a user do just if the first segments of their models are the same.
SharesByRow(p, q) ==
  LET here == Resolved(p, <<"sync">>)
      there == Resolved(q, <<"ws">>)
  IN /\ ChannelKey(here.user, here.scope) = ChannelKey(there.user, there.scope)
          <=> here.user = there.user /\ here.scope = there.scope
     /\ p.isolate /\ here.user = there.user =>
          (here.scope = there.scope <=> Segment(p.model) = Segment(q.model))
=============================================================================
