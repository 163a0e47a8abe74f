------------------------------- MODULE MCCare -------------------------------
(***************************************************************************)
(* Model checking of LoadRecovery, of ConversationCleanup and of the keyed *)
(* mutex.  They share nothing but the queues each of the first two already *)
(* models, so a behaviour is one of one of the three: part says of which.  *)
(***************************************************************************)
EXTENDS LoadRecovery, ConversationCleanup, KeyedMutex, TLC

CONSTANT role
VARIABLE part
careVars == <<loadVars, cleanVars, vars, part>>

MCTarget == [r \in Deletes \cup Replacements |-> role]

CareInit ==
  /\ part \in {"load", "cleanup", "mutex"}
  /\ LoadInit /\ CleanInit /\ Init
  /\ part # "cleanup" => work = {}

OfLoad(A) == part = "load" /\ A /\ UNCHANGED <<cleanVars, vars, part>>
OfCleanup(A) == part = "cleanup" /\ A /\ UNCHANGED <<loadVars, vars, part>>
OfMutex(A) == part = "mutex" /\ A /\ UNCHANGED <<loadVars, cleanVars, part>>

CareNext == OfLoad(LoadNext) \/ OfCleanup(CleanNext) \/ OfMutex(Next)

CareSpec ==
  /\ CareInit /\ [][CareNext]_careVars
  /\ WF_careVars(OfLoad(Sweeping)) /\ WF_careVars(OfLoad(CoolingEnds))
  /\ \A s \in Sessions : WF_careVars(OfLoad(Settles(s))) /\ WF_careVars(OfLoad(LandsLate(s)))
  /\ \A r \in CleanRequests : SF_careVars(OfCleanup(Proceeds(r)))
=============================================================================
