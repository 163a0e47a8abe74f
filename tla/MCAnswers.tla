----------------------------- MODULE MCAnswers -----------------------------
(* Model checking of AnswerObservation.                                     *)
EXTENDS AnswerObservation

\* A reading that is aborted again and again comes back in the end, so its
\* fairness is strong; loops go on once they can, and so does the core's event
\* loop with what it has to do: the queue, or observing a turn again.
SeeFairness ==
  /\ \A o \in Observers : WF_seeVars(Continues(o)) /\ SF_seeVars(ReadingReturns(o))
  /\ WF_seeVars(Writes \/ OperationEnds \/ Restarts)

FairSeeSpec == SeeSpec /\ SeeFairness
=============================================================================
