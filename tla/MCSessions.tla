----------------------------- MODULE MCSessions -----------------------------
(***************************************************************************)
(* Model checking of what waits at sessions: PageRecovery for pages,       *)
(* SessionWait for an actor's changes, ServerReads for the provider's      *)
(* server.  The three share no state here, so a behaviour is one of one of *)
(* them and part says of which.  Both sessions and every tab together are  *)
(* more than a run has time for: a behaviour of PageRecovery either has    *)
(* two tabs, or leaves the settled sessions alone.                         *)
(***************************************************************************)
EXTENDS PageRecovery, SessionWait, ServerReads, TLC

VARIABLE part
sessionsVars == <<vars, waitVars, readsVars, part>>

PageParts == {"two tabs", "own session"}

SessionsInit ==
  /\ part \in PageParts \cup {"actors", "server"}
  /\ Init /\ WaitInit /\ ReadsInit

InBounds ==
  \/ part = "two tabs" /\ nextTab' <= 3
  \/ part = "own session" /\ flow'[Tail].of \notin Settled

OfPages(A) == part \in PageParts /\ A /\ InBounds /\ UNCHANGED <<waitVars, readsVars, part>>
OfActors(A) == part = "actors" /\ A /\ UNCHANGED <<vars, readsVars, part>>
OfServer(A) == part = "server" /\ A /\ UNCHANGED <<vars, waitVars, part>>

SessionsNext == OfPages(Next) \/ OfActors(WaitNext) \/ OfServer(ReadsNext)

SessionsSpec == SessionsInit /\ [][SessionsNext]_sessionsVars

\* Sessions are interchangeable to those who wait at their actors.
Symmetric == Permutations(Identities)
=============================================================================
