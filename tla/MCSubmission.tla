---------------------------- MODULE MCSubmission ----------------------------
(***************************************************************************)
(* Model checking of Submission and of Handover on small instances.  They  *)
(* share no state here: Handover knows the submissions by what they do to  *)
(* the actors, pages and outbox rows it looks at.  part says which of the  *)
(* two a behaviour is of.                                                  *)
(***************************************************************************)
EXTENDS Submission, Handover, TLC

VARIABLE part
bothVars == <<vars, handoverVars, part>>

\* Updaters are numbered from 1: 0 is nobody.
MCUpdaters == 1..2

BothInit == part \in {"submission", "handover"} /\ Init /\ HandoverInit

OfSubmission(A) == part = "submission" /\ A /\ UNCHANGED <<handoverVars, part>>
OfHandover(A) == part = "handover" /\ A /\ UNCHANGED <<vars, part>>

BothNext == OfSubmission(Next) \/ OfHandover(HandoverNext)

\* The fairness of Submission and of Handover.
BothSpec ==
  /\ BothInit /\ [][BothNext]_bothVars
  /\ WF_bothVars(OfSubmission(SubmitStep)) /\ WF_bothVars(OfSubmission(PageStep))
  /\ WF_bothVars(OfSubmission(BootStep)) /\ WF_bothVars(OfSubmission(DrainSettles))
  /\ WF_bothVars(OfHandover(Lapse)) /\ WF_bothVars(OfHandover(Timer))
  /\ \A w \in Waits : WF_bothVars(OfHandover(w \in aborted /\ EndWait(w)))
  /\ \A u \in Updaters : WF_bothVars(OfHandover(DrainSucceeds(u) \/ DrainFails(u)))
  /\ \A o \in Work : WF_bothVars(OfHandover(o \in deferred /\ Enter(o)))
=============================================================================
