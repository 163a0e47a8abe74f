-------------------------- MODULE SubmissionProofs --------------------------
(***************************************************************************)
(* Proofs about the submission pipeline, for any set of requests and any   *)
(* number of crashes: type correctness, that Send is clicked at most once  *)
(* for a request, and that a request reported as unsubmitted is untouched. *)
(***************************************************************************)
EXTENDS Submission, TLAPS

\* What the rows, the routing and the actor's snapshot are typed by.
RowsOK == outbox \in [Requests -> Row]

SessionOK ==
    session \in [request : Maybe, state : SessionStates, role : {"current", "gone", "deleted"}]

StoreOK == RowsOK /\ SessionOK /\ reserved \in [Requests -> Maybe] /\ view \in View

\* What the running operation is: one of an accepted request, and of no request
\* at all while the boot recovery runs.
JobShape ==
    /\ boot # "up" => job = Idle
    /\ job.kind = "none" \/ job.pc = "idle" => job = Idle
    /\ job.kind # "none" => job.req \in Requests
    /\ job.kind = "resend" => job.next \in Requests

TypeInv == TypeOK /\ JobShape

-----------------------------------------------------------------------------
(* Typing of the transactions the operations share. *)

\* Publication leaves the actor with a typed snapshot (SessionActor.publish).
LEMMA PublishTyped ==
    ASSUME StoreOK, RowsOK', SessionOK', Publish
    PROVE  view' \in View
  <1>1. Snapshot \in View /\ Snapshot' \in View
    BY DEF StoreOK, RowsOK, SessionOK, Snapshot, View, Row, Maybe, SubmissionStates
  <1>2. Attached \in View
    BY <1>1 DEF Attached, StoreOK
  <1> QED BY <1>1, <1>2 DEF Publish

\* The same for the publication that resumes a preparation.
LEMMA PublishResumedTyped ==
    ASSUME StoreOK, RowsOK', SessionOK', PublishResumed
    PROVE  view' \in View
  <1>1. Snapshot' \in View
    BY DEF StoreOK, RowsOK, SessionOK, Snapshot, View, Row, Maybe, SubmissionStates
  <1> QED BY <1>1 DEF PublishResumed, StoreOK

\* A typed write of the current generation (updateCurrentGeneration).
LEMMA WriteTyped ==
    ASSUME StoreOK, NEW r \in Requests, NEW row \in Row, NEW state \in SessionStates,
           Write(r, row, state)
    PROVE  RowsOK' /\ SessionOK' /\ reserved' = reserved
  BY DEF StoreOK, RowsOK, SessionOK, Write

\* The transaction of a failure before submission (#failPreSubmit).
LEMMA FailPreSubmitTyped ==
    ASSUME StoreOK, NEW r \in Requests,
           NEW error \in {"browser-unavailable", "other"}, FailPreSubmit(r, error)
    PROVE  StoreOK'
  <1> DEFINE row == [outbox[r] EXCEPT !.state = "failed_pre_submit",
                                      !.error = error, !.inspect = FALSE]
  <1>0. outbox[r] \in Row
    BY DEF StoreOK, RowsOK
  <1>1. row \in Row
    BY <1>0 DEF Row, SubmissionStates
  <1>2. Write(r, row, "ready") /\ Publish
    BY DEF FailPreSubmit
  <1>3. RowsOK' /\ SessionOK' /\ reserved' = reserved
    BY <1>1, <1>2, WriteTyped DEF SessionStates
  <1> QED BY <1>2, <1>3, PublishTyped DEF StoreOK


\* The transaction of a decision the caller must take (#recordPreparationRequired).
LEMMA RecordPreparationRequiredTyped ==
    ASSUME StoreOK, NEW r \in Requests, RecordPreparationRequired(r)
    PROVE  StoreOK'
  <1> DEFINE row == [outbox[r] EXCEPT !.error = "preparation-required",
                                      !.inspect = FALSE]
  <1>0. outbox[r] \in Row
    BY DEF StoreOK, RowsOK
  <1>1. row \in Row
    BY <1>0 DEF Row, SubmissionStates, Maybe
  <1>2. session.state \in SessionStates
    BY DEF StoreOK, SessionOK, SessionStates
  <1>3. Write(r, row, session.state) /\ Publish
    BY DEF RecordPreparationRequired
  <1>4. RowsOK' /\ SessionOK' /\ reserved' = reserved
    BY <1>1, <1>2, <1>3, WriteTyped
  <1> QED BY <1>3, <1>4, PublishTyped DEF StoreOK

\* The transaction of an unresolved attempt (#recordSubmissionUnknown).
LEMMA RecordSubmissionUnknownTyped ==
    ASSUME StoreOK, NEW r \in Requests, RecordSubmissionUnknown(r)
    PROVE  StoreOK'
  <1> DEFINE row == [outbox[r] EXCEPT !.state = "submission_unknown", !.error = "other"]
  <1>0. outbox[r] \in Row
    BY DEF StoreOK, RowsOK
  <1>1. row \in Row
    BY <1>0 DEF Row, SubmissionStates, Maybe
  <1> DEFINE state == IF session.state \in TerminalStates THEN session.state ELSE "observing"
  <1>2. state \in SessionStates
    BY DEF StoreOK, SessionOK, SessionStates
  <1>3. Write(r, row, state) /\ Publish
    BY DEF RecordSubmissionUnknown
  <1>4. RowsOK' /\ SessionOK' /\ reserved' = reserved
    BY <1>1, <1>2, <1>3, WriteTyped
  <1> QED BY <1>3, <1>4, PublishTyped DEF StoreOK

\* The transaction that re-opens an unsubmitted request (refreshPage and others).
LEMMA ReopenTyped ==
    ASSUME StoreOK, NEW r \in Requests, NEW inspect \in BOOLEAN,
           Reopen(r, inspect)
    PROVE  StoreOK'
  <1> DEFINE row == [outbox[r] EXCEPT !.state = "prepared",
                                      !.error = "preparation-required",
                                      !.inspect = inspect]
  <1>0. outbox[r] \in Row
    BY DEF StoreOK, RowsOK
  <1>1. row \in Row
    BY <1>0 DEF Row, SubmissionStates, Maybe
  <1>2. "submitting" \in SessionStates
    BY DEF StoreOK, SessionOK, SessionStates
  <1>3. Write(r, row, "submitting") /\ PublishResumed
    BY DEF Reopen
  <1>4. RowsOK' /\ SessionOK' /\ reserved' = reserved
    BY <1>1, <1>2, <1>3, WriteTyped
  <1> QED BY <1>3, <1>4, PublishResumedTyped DEF StoreOK

\* The transaction of an acknowledged submission (#completeSubmitted).
LEMMA AcknowledgeTyped ==
    ASSUME StoreOK, NEW r \in Requests, NEW m \in Requests,
           Acknowledge(r, m)
    PROVE  StoreOK'
  <1> DEFINE row == [outbox[r] EXCEPT !.state = "submitted", !.error = "none",
                                      !.message = m]
  <1>0. outbox[r] \in Row
    BY DEF StoreOK, RowsOK
  <1>1. row \in Row
    BY <1>0 DEF Row, SubmissionStates, Maybe
  <1>2. "submitted" \in SessionStates
    BY DEF StoreOK, SessionOK, SessionStates
  <1>3. Write(r, row, "submitted") /\ Publish
    BY DEF Acknowledge
  <1>4. RowsOK' /\ SessionOK' /\ reserved' = reserved
    BY <1>1, <1>2, <1>3, WriteTyped
  <1> QED BY <1>3, <1>4, PublishTyped DEF StoreOK

\* The transaction of a filled composer (#transition).
LEMMA FillComposerTyped ==
    ASSUME StoreOK, job.req \in Requests, FillComposer
    PROVE  StoreOK'
  <1> DEFINE row == [outbox[job.req] EXCEPT !.state = "composer_filled",
                                      !.error = "none", !.inspect = FALSE]
  <1>0. outbox[job.req] \in Row
    BY DEF StoreOK, RowsOK
  <1>1. row \in Row
    BY <1>0 DEF Row, SubmissionStates
  <1>2. session.state \in SessionStates
    BY DEF StoreOK, SessionOK, SessionStates
  <1>3. Write(job.req, row, session.state) /\ Publish
    BY DEF FillComposer
  <1>4. RowsOK' /\ SessionOK' /\ reserved' = reserved
    BY <1>1, <1>2, <1>3, WriteTyped
  <1> QED BY <1>3, <1>4, PublishTyped DEF StoreOK

\* The insertion of a new generation (#prepareOutbox); reserved is the caller's.
LEMMA InsertOutboxTyped ==
    ASSUME StoreOK, NEW r \in Requests, NEW kind \in {"plain", "continuation", "resend"},
           NEW origin \in Maybe, NEW error \in {"none", "preparation-required"},
           InsertOutbox(r, kind, origin, error)
    PROVE  RowsOK' /\ SessionOK' /\ view' \in View
  <1> DEFINE row == [NoRow EXCEPT !.state = "prepared", !.kind = kind,
                         !.origin = origin, !.prior = session.request, !.error = error]
  <1>1. row \in Row
    BY DEF StoreOK, SessionOK, Row, NoRow, SubmissionStates, Maybe, Reconciled
  <1>2. RowsOK'
    BY <1>1 DEF StoreOK, RowsOK, InsertOutbox
  <1>3. SessionOK'
    BY DEF StoreOK, SessionOK, InsertOutbox, Maybe, SessionStates
  <1> QED BY <1>2, <1>3, PublishTyped DEF InsertOutbox

\* Attaching an operation to its actor keeps the types (ActorScheduler.actorFor).
LEMMA AttachedTyped == StoreOK => Attached \in View
  BY DEF StoreOK, RowsOK, SessionOK, Attached, Snapshot, View, Row, Maybe, SubmissionStates

-----------------------------------------------------------------------------
(* Type correctness: one step per action, the store and the rest apart. *)

\* The part of the type invariant no transaction touches.
RestOK ==
    /\ boot \in {"pre", "attempted", "up"}
    /\ job \in Job
    /\ draining \in BOOLEAN
    /\ late \subseteq Requests
    /\ clicks \in [Requests -> Nat]
    /\ delivered \subseteq Requests
    /\ crashes \in 0 .. MaxCrashes
    /\ JobShape

\* The two parts are the whole type invariant.
LEMMA TypeParts == TypeInv <=> StoreOK /\ RestOK
  BY DEF TypeInv, TypeOK, StoreOK, RowsOK, SessionOK, RestOK

\* The same for the state after a step.
LEMMA TypePartsNext == StoreOK' /\ RestOK' => TypeInv'
  BY DEF TypeInv, TypeOK, StoreOK, RowsOK, SessionOK, RestOK


\* The attempt recorded before the click.
LEMMA RecordAttemptTyped ==
    ASSUME StoreOK, job.req \in Requests, RecordAttempt
    PROVE  StoreOK'
  <1> DEFINE row == [outbox[job.req] EXCEPT !.state = "submit_attempted"]
  <1>0. outbox[job.req] \in Row
    BY DEF StoreOK, RowsOK
  <1>1. row \in Row
    BY <1>0 DEF Row, SubmissionStates
  <1>2. Write(job.req, row, "submitting") /\ Publish
    BY DEF RecordAttempt
  <1>3. RowsOK' /\ SessionOK' /\ reserved' = reserved
    BY <1>1, <1>2, WriteTyped DEF SessionStates
  <1> QED BY <1>2, <1>3, PublishTyped DEF StoreOK

\* Setting or clearing the flag that asks for an inspection.
LEMMA InspectTyped ==
    ASSUME RowsOK, NEW r \in Requests, NEW b \in BOOLEAN,
           outbox' = [outbox EXCEPT ![r].inspect = b]
    PROVE  RowsOK'
  <1>1. [outbox[r] EXCEPT !.inspect = b] \in Row
    BY DEF RowsOK, Row
  <1>2. outbox' = [outbox EXCEPT ![r] = [outbox[r] EXCEPT !.inspect = b]]
    OBVIOUS
  <1> QED BY <1>1, <1>2 DEF RowsOK

\* The chosen action of a pending preparation.
LEMMA FinishChooseTyped ==
    ASSUME StoreOK, job.req \in Requests, FinishChoose
    PROVE  StoreOK'
  <1>1. RowsOK'
    BY InspectTyped DEF StoreOK, FinishChoose
  <1>2. SessionOK' /\ reserved' = reserved /\ Publish
    BY DEF StoreOK, SessionOK, FinishChoose
  <1> QED BY <1>1, <1>2, PublishTyped DEF StoreOK

\* The reserved resend.
LEMMA FinishAuthorizedResendTyped ==
    ASSUME StoreOK, job.req \in Requests, job.next \in Requests, FinishAuthorizedResend
    PROVE  StoreOK'
  <1>1. InsertOutbox(job.next, "resend", job.req, "preparation-required")
    BY DEF FinishAuthorizedResend
  <1>2. RowsOK' /\ SessionOK' /\ view' \in View
    BY <1>1, InsertOutboxTyped DEF Maybe
  <1>3. reserved' \in [Requests -> Maybe]
    BY DEF FinishAuthorizedResend, StoreOK, Maybe
  <1> QED BY <1>2, <1>3 DEF StoreOK

\* The generation closed by a prepared continuation or a reconciliation.
LEMMA CloseTyped ==
    ASSUME StoreOK, NEW r \in Requests,
           NEW reason \in {"continuation-prepared"} \cup Reconciled,
           NEW state \in {"cancelled", "failed"},
           Write(r, [outbox[r] EXCEPT !.reason = reason], state), Publish
    PROVE  StoreOK'
  <1> DEFINE row == [outbox[r] EXCEPT !.reason = reason]
  <1>1. row \in Row
    BY DEF StoreOK, RowsOK, Row
  <1>2. RowsOK' /\ SessionOK' /\ reserved' = reserved
    BY <1>1, WriteTyped DEF SessionStates, TerminalStates
  <1> QED BY <1>2, PublishTyped DEF StoreOK

\* Leaving the role changes the routing and the session's state only.
LEMMA LeaveRoleTyped ==
    ASSUME StoreOK, NEW state \in {"cancelled", "superseded"}, LeaveRole(state)
    PROVE  RowsOK' /\ SessionOK' /\ reserved' = reserved
  BY DEF StoreOK, RowsOK, SessionOK, LeaveRole, SessionStates, TerminalStates

\* Moving on within an operation, and ending it.
LEMMA GotoTyped ==
    ASSUME job \in Job, JobShape, job.kind # "none", NEW pc \in Pcs \ {"idle"},
           Goto(pc), boot' = boot
    PROVE  job' \in Job /\ JobShape'
  <1>1. job' \in Job
    BY DEF Job, Goto, Pcs
  <1>2. job'.kind = job.kind /\ job'.req = job.req /\ job'.next = job.next /\ job'.pc = pc
    BY DEF Job, Goto
  <1>3. boot = "up"
    BY DEF JobShape, Idle
  <1> QED BY <1>1, <1>2, <1>3 DEF JobShape

\* Between operations the actor has a typed, idle job.
LEMMA IdleTyped == Idle \in Job
  BY DEF Idle, Job, Kinds, Pcs, Maybe

\* Ways a step treats that part.  The running operation stays where it is.
LEMMA RestStays ==
    ASSUME RestOK, UNCHANGED <<boot, job, crashes, browser>>
    PROVE  RestOK'
  BY DEF RestOK, JobShape, browser

\* The operation ends.
LEMMA RestIdle ==
    ASSUME RestOK, job' = Idle, UNCHANGED <<boot, crashes, browser>>
    PROVE  RestOK'
  BY IdleTyped DEF RestOK, JobShape, browser, Idle

\* The operation reaches its next await.
LEMMA RestGoto ==
    ASSUME RestOK, job.kind # "none", NEW pc \in Pcs \ {"idle"}, Goto(pc),
           UNCHANGED <<boot, crashes, browser>>
    PROVE  RestOK'
  BY GotoTyped DEF RestOK, browser

\* An operation begins.
LEMMA RestBegins ==
    ASSUME RestOK, boot = "up", NEW kind \in Kinds \ {"none", "resend"},
           NEW pc \in Pcs \ {"idle"}, NEW r \in Requests, job' = Running(kind, pc, r),
           UNCHANGED <<boot, crashes, browser>>
    PROVE  RestOK'
  <1>1. job' = [kind |-> kind, pc |-> pc, req |-> r, next |-> NoRequest, reopen |-> FALSE]
    BY DEF Running, Idle
  <1>2. job' \in Job
    BY <1>1 DEF Job, Maybe
  <1>3. JobShape'
    BY <1>1 DEF JobShape
  <1> QED BY <1>2, <1>3 DEF RestOK, browser

\* The steps of a running submission (#runPreparedSubmission).
LEMMA SubmitStepTyped == TypeInv /\ SubmitStep => TypeInv'
  <1> SUFFICES ASSUME TypeInv, SubmitStep PROVE TypeInv'
    OBVIOUS
  <1>0. StoreOK /\ RestOK
    BY TypeParts
  <1>1. CASE OpenOk
    <2>1. StoreOK'
      <3>1. RowsOK' /\ SessionOK' /\ reserved' = reserved /\ Publish
        BY <1>0, <1>1 DEF OpenOk, durable, StoreOK, RowsOK, SessionOK
      <3> QED BY <1>0, <3>1, PublishTyped DEF StoreOK
    <2>2. RestOK'
      <3>1. /\ At("open")
            /\ job' = Idle \/ Goto("lock")
            /\ UNCHANGED <<boot, crashes, browser>>
        BY <1>1 DEF OpenOk
      <3>2. CASE Goto("lock")
        BY <1>0, <3>1, <3>2, RestGoto DEF At, Pcs
      <3>3. CASE job' = Idle
        BY <1>0, <3>1, <3>3, RestIdle
      <3> QED BY <3>1, <3>2, <3>3
    <2> QED BY <2>1, <2>2, TypePartsNext
  <1>2. CASE OpenNeedsDecision
    <2>1. StoreOK'
      BY <1>0, <1>2, RecordPreparationRequiredTyped DEF OpenNeedsDecision, At, RestOK,
         JobShape
    <2>2. RestOK'
      BY <1>0, <1>2, RestIdle DEF OpenNeedsDecision
    <2> QED BY <2>1, <2>2, TypePartsNext
  <1>3. CASE EnterPrepare
    <2>1. StoreOK'
      BY <1>0, <1>3 DEF EnterPrepare, At, Goto, durable, StoreOK, RowsOK, SessionOK
    <2>2. RestOK'
      BY <1>0, <1>3, RestGoto DEF EnterPrepare, At, Pcs
    <2> QED BY <2>1, <2>2, TypePartsNext
  <1>4. CASE PrepareOk
    <2>1. StoreOK'
      BY <1>0, <1>4, FillComposerTyped DEF PrepareOk, At, RestOK, JobShape
    <2>2. RestOK'
      BY <1>0, <1>4, RestGoto DEF PrepareOk, FillComposer, At, Pcs
    <2> QED BY <2>1, <2>2, TypePartsNext
  <1>5. CASE PrepareThenVerify
    <2>1. StoreOK'
      BY <1>0, <1>5 DEF PrepareThenVerify, At, Goto, durable, StoreOK, RowsOK, SessionOK
    <2>2. RestOK'
      BY <1>0, <1>5, RestGoto DEF PrepareThenVerify, At, Pcs
    <2> QED BY <2>1, <2>2, TypePartsNext
  <1>6. CASE VerifyOk
    <2>1. StoreOK'
      BY <1>0, <1>6, FillComposerTyped DEF VerifyOk, At, RestOK, JobShape
    <2>2. RestOK'
      BY <1>0, <1>6, RestGoto DEF VerifyOk, FillComposer, At, Pcs
    <2> QED BY <2>1, <2>2, TypePartsNext
  <1>7. CASE PreparationNeedsDecision
    <2>1. StoreOK'
      BY <1>0, <1>7, RecordPreparationRequiredTyped DEF PreparationNeedsDecision, At,
         RestOK, JobShape
    <2>2. RestOK'
      BY <1>0, <1>7, RestIdle DEF PreparationNeedsDecision
    <2> QED BY <2>1, <2>2, TypePartsNext
  <1>8. CASE PrepareTimesOut
    <2>1. StoreOK'
      BY <1>0, <1>8, FailPreSubmitTyped DEF PrepareTimesOut, At, RestOK, JobShape
    <2>2. RestOK'
      BY <1>0, <1>8, IdleTyped DEF PrepareTimesOut, RestOK, JobShape, Idle
    <2> QED BY <2>1, <2>2, TypePartsNext
  <1>9. ASSUME NEW error \in {"browser-unavailable", "other"}, OpenFails(error)
        PROVE  TypeInv'
    <2>1. StoreOK'
      BY <1>0, <1>9, FailPreSubmitTyped DEF OpenFails, At, RestOK, JobShape
    <2>2. RestOK'
      BY <1>0, <1>9, RestIdle DEF OpenFails
    <2> QED BY <2>1, <2>2, TypePartsNext
  <1>10. ASSUME NEW error \in {"browser-unavailable", "other"}, PreparationFails(error)
         PROVE  TypeInv'
    <2>1. StoreOK'
      BY <1>0, <1>10, FailPreSubmitTyped DEF PreparationFails, At, RestOK, JobShape
    <2>2. RestOK'
      BY <1>0, <1>10, RestIdle DEF PreparationFails
    <2> QED BY <2>1, <2>2, TypePartsNext
  <1>11. CASE RecordAttempt
    <2>1. StoreOK'
      BY <1>0, <1>11, RecordAttemptTyped DEF RecordAttempt, At, RestOK, JobShape
    <2>2. RestOK'
      <3>1. /\ At("filled")
            /\ job' = Idle \/ Goto("click")
            /\ UNCHANGED <<boot, crashes, browser>>
        BY <1>11 DEF RecordAttempt
      <3>2. CASE Goto("click")
        BY <1>0, <3>1, <3>2, RestGoto DEF At, Pcs
      <3>3. CASE job' = Idle
        BY <1>0, <3>1, <3>3, RestIdle
      <3> QED BY <3>1, <3>2, <3>3
    <2> QED BY <2>1, <2>2, TypePartsNext
  <1>12. CASE Click
    <2>1. StoreOK'
      BY <1>0, <1>12 DEF Click, At, Goto, durable, StoreOK, RowsOK, SessionOK
    <2>2. RestOK'
      <3>1. job' \in Job /\ JobShape'
        BY <1>0, <1>12, GotoTyped DEF Click, At, Pcs, RestOK
      <3>2. job.req \in Requests
        BY <1>0, <1>12 DEF Click, At, RestOK, JobShape
      <3>3. clicks' \in [Requests -> Nat] /\ delivered' \subseteq Requests
        BY <1>0, <1>12, <3>2 DEF Click, ClickSend, RestOK
      <3> QED BY <1>0, <1>12, <3>1, <3>3 DEF Click, RestOK
    <2> QED BY <2>1, <2>2, TypePartsNext
  <1>13. CASE SubmitReturns
    <2>1. StoreOK'
      BY <1>0, <1>13 DEF SubmitReturns, At, Goto, durable, StoreOK, RowsOK, SessionOK
    <2>2. RestOK'
      BY <1>0, <1>13, RestGoto DEF SubmitReturns, At, Pcs
    <2> QED BY <2>1, <2>2, TypePartsNext
  <1>14. CASE SubmitTimesOut
    <2>1. StoreOK'
      BY <1>0, <1>14 DEF SubmitTimesOut, At, Goto, durable, StoreOK, RowsOK, SessionOK
    <2>2. RestOK'
      BY <1>0, <1>14, GotoTyped DEF SubmitTimesOut, At, Pcs, RestOK, JobShape
    <2> QED BY <2>1, <2>2, TypePartsNext
  <1>15. CASE AckCaptured
    <2>1. StoreOK'
      BY <1>0, <1>15, AcknowledgeTyped DEF AckCaptured, At, RestOK, JobShape
    <2>2. RestOK'
      BY <1>0, <1>15, RestIdle DEF AckCaptured
    <2> QED BY <2>1, <2>2, TypePartsNext
  <1>16. CASE AckMissing
    <2>1. StoreOK'
      BY <1>0, <1>16, RecordSubmissionUnknownTyped DEF AckMissing, At, RestOK, JobShape
    <2>2. RestOK'
      BY <1>0, <1>16, RestIdle DEF AckMissing
    <2> QED BY <2>1, <2>2, TypePartsNext
  <1> QED BY <1>1, <1>2, <1>3, <1>4, <1>5, <1>6, <1>7, <1>8, <1>9, <1>10, <1>11, <1>12,
             <1>13, <1>14, <1>15, <1>16 DEF SubmitStep

\* The steps of any other operation once it is queued.
LEMMA PageStepTyped == TypeInv /\ PageStep => TypeInv'
  <1> SUFFICES ASSUME TypeInv, PageStep PROVE TypeInv'
    OBVIOUS
  <1>0. StoreOK /\ RestOK
    BY TypeParts
  <1>1. CASE EnterPage
    <2>1. StoreOK'
      BY <1>0, <1>1 DEF EnterPage, Goto, durable, StoreOK, RowsOK, SessionOK
    <2>2. RestOK'
      BY <1>0, <1>1, RestGoto DEF EnterPage, At, Pcs
    <2> QED BY <2>1, <2>2, TypePartsNext
  <1>2. CASE EnterRefresh
    <2>1. StoreOK'
      <3> DEFINE b == \/ outbox[job.req].inspect
                     \/ /\ outbox[job.req].state = "prepared"
                        /\ outbox[job.req].error = "preparation-required"
      <3>1. b \in BOOLEAN /\ job.req \in Requests
        BY <1>0, <1>2 DEF EnterRefresh, RestOK, JobShape
      <3>2. outbox' = [outbox EXCEPT ![job.req].inspect = b]
        BY <1>0, <1>2 DEF EnterRefresh
      <3>3. RowsOK'
        BY <1>0, <3>1, <3>2, InspectTyped DEF StoreOK
      <3> QED BY <1>0, <1>2, <3>3 DEF EnterRefresh, StoreOK, SessionOK
    <2>2. RestOK'
      BY <1>0, <1>2, RestGoto DEF EnterRefresh, Pcs
    <2> QED BY <2>1, <2>2, TypePartsNext
  <1>3. CASE PageEnds
    <2>1. StoreOK'
      BY <1>0, <1>3 DEF PageEnds, durable, StoreOK, RowsOK, SessionOK
    <2>2. RestOK'
      BY <1>0, <1>3, RestIdle DEF PageEnds
    <2> QED BY <2>1, <2>2, TypePartsNext
  <1>4. CASE FinishInspect
    <2>1. StoreOK'
      <3>1. RowsOK'
        BY <1>0, <1>4, InspectTyped DEF FinishInspect, OnPage, StoreOK, RestOK, JobShape
      <3> QED BY <1>0, <1>4, <3>1 DEF FinishInspect, StoreOK, SessionOK
    <2>2. RestOK'
      BY <1>0, <1>4, RestIdle DEF FinishInspect, Finish
    <2> QED BY <2>1, <2>2, TypePartsNext
  <1>5. CASE FinishInspectReopening
    <2>1. StoreOK'
      BY <1>0, <1>5, ReopenTyped DEF FinishInspectReopening, OnPage, Finish, RestOK,
         JobShape
    <2>2. RestOK'
      BY <1>0, <1>5, RestIdle DEF FinishInspectReopening, Finish
    <2> QED BY <2>1, <2>2, TypePartsNext
  <1>6. CASE FinishChoose
    <2>1. StoreOK'
      BY <1>0, <1>6, FinishChooseTyped DEF FinishChoose, OnPage, Finish, RestOK, JobShape
    <2>2. RestOK'
      BY <1>0, <1>6, RestIdle DEF FinishChoose, Finish
    <2> QED BY <2>1, <2>2, TypePartsNext
  <1>7. CASE FinishCancel
    <2>1. StoreOK'
      BY <1>0, <1>7, FailPreSubmitTyped DEF FinishCancel, OnPage, Finish, RestOK, JobShape
    <2>2. RestOK'
      BY <1>0, <1>7, RestIdle DEF FinishCancel, Finish
    <2> QED BY <2>1, <2>2, TypePartsNext
  <1>8. CASE FinishRefreshReopening
    <2>1. StoreOK'
      BY <1>0, <1>8, ReopenTyped DEF FinishRefreshReopening, OnPage, Finish, RestOK,
         JobShape
    <2>2. RestOK'
      BY <1>0, <1>8, RestIdle DEF FinishRefreshReopening, Finish
    <2> QED BY <2>1, <2>2, TypePartsNext
  <1>9. CASE FinishAuthorizedResend
    <2>1. StoreOK'
      BY <1>0, <1>9, FinishAuthorizedResendTyped DEF FinishAuthorizedResend, OnPage, Finish,
         RestOK, JobShape
    <2>2. RestOK'
      BY <1>0, <1>9, RestIdle DEF FinishAuthorizedResend, Finish
    <2> QED BY <2>1, <2>2, TypePartsNext
  <1>10. CASE FinishReopenResend
    <2>1. StoreOK'
      BY <1>0, <1>10, ReopenTyped DEF FinishReopenResend, OnPage, Finish, RestOK, JobShape
    <2>2. RestOK'
      BY <1>0, <1>10, RestIdle DEF FinishReopenResend, Finish
    <2> QED BY <2>1, <2>2, TypePartsNext
  <1>11. CASE FinishContinuation
    <2>1. StoreOK'
      BY <1>0, <1>11, CloseTyped DEF FinishContinuation, OnPage, Finish, RestOK, JobShape
    <2>2. RestOK'
      BY <1>0, <1>11, RestIdle DEF FinishContinuation, Finish
    <2> QED BY <2>1, <2>2, TypePartsNext
  <1>12. ASSUME NEW reason \in Reconciled, FinishReconcile(reason) PROVE TypeInv'
    <2>1. StoreOK'
      BY <1>0, <1>12, CloseTyped DEF FinishReconcile, OnPage, Finish, RestOK, JobShape
    <2>2. RestOK'
      BY <1>0, <1>12, RestIdle DEF FinishReconcile, Finish
    <2> QED BY <2>1, <2>2, TypePartsNext
  <1>13. ASSUME NEW m \in Requests, FinishRecoverAcknowledgement(m) PROVE TypeInv'
    <2>1. StoreOK'
      BY <1>0, <1>13, AcknowledgeTyped DEF FinishRecoverAcknowledgement, OnPage, Finish,
         RestOK, JobShape
    <2>2. RestOK'
      BY <1>0, <1>13, RestIdle DEF FinishRecoverAcknowledgement, Finish
    <2> QED BY <2>1, <2>2, TypePartsNext
  <1> QED BY <1>1, <1>2, <1>3, <1>4, <1>5, <1>6, <1>7, <1>8, <1>9, <1>10, <1>11, <1>12,
             <1>13 DEF PageStep

\* The operations callers and other services start.
LEMMA BeginStepTyped == TypeInv /\ BeginStep => TypeInv'
  <1> SUFFICES ASSUME TypeInv, BeginStep PROVE TypeInv'
    OBVIOUS
  <1>0. StoreOK /\ RestOK
    BY TypeParts
  <1>1. ASSUME NEW r \in Requests, NEW origin \in Maybe, Send(r, origin) PROVE TypeInv'
    <2>1. StoreOK'
      <3> DEFINE kind == IF origin = NoRequest THEN "plain" ELSE "continuation"
      <3>1. InsertOutbox(r, kind, origin, "none") /\ reserved' = reserved
        BY <1>1 DEF Send
      <3>2. RowsOK' /\ SessionOK' /\ view' \in View
        BY <1>0, <1>1, <3>1, InsertOutboxTyped
      <3> QED BY <1>0, <3>1, <3>2 DEF StoreOK
    <2>2. RestOK'
      BY <1>0, <1>1, RestBegins DEF Send, Ready, Kinds, Pcs
    <2> QED BY <2>1, <2>2, TypePartsNext
  <1>2. ASSUME NEW r \in Requests, ReplayAttempted(r) PROVE TypeInv'
    <2>1. StoreOK'
      BY <1>0, <1>2, RecordSubmissionUnknownTyped DEF ReplayAttempted, RestOK, JobShape
    <2>2. RestOK'
      BY <1>0, <1>2, RestStays DEF ReplayAttempted
    <2> QED BY <2>1, <2>2, TypePartsNext
  <1>3. ASSUME NEW r \in Requests, ReplayUnattempted(r) PROVE TypeInv'
    <2>1. StoreOK'
      BY <1>0, <1>3, FailPreSubmitTyped DEF ReplayUnattempted, RestOK, JobShape
    <2>2. RestOK'
      BY <1>0, <1>3, RestStays DEF ReplayUnattempted
    <2> QED BY <2>1, <2>2, TypePartsNext
  <1>4. ASSUME NEW r \in Requests, ResumePreparation(r) PROVE TypeInv'
    <2>1. StoreOK'
      BY <1>0, <1>4, AttachedTyped DEF ResumePreparation, durable, StoreOK, RowsOK,
         SessionOK
    <2>2. RestOK'
      BY <1>0, <1>4, RestBegins DEF ResumePreparation, Ready, Kinds, Pcs
    <2> QED BY <2>1, <2>2, TypePartsNext
  <1>5. ASSUME NEW r \in Requests, BeginInspect(r) PROVE TypeInv'
    <2>1. StoreOK'
      BY <1>0, <1>5, AttachedTyped DEF BeginInspect, Begin, durable, StoreOK, RowsOK,
         SessionOK
    <2>2. RestOK'
      BY <1>0, <1>5, RestBegins DEF BeginInspect, Begin, Ready, Kinds, Pcs
    <2> QED BY <2>1, <2>2, TypePartsNext
  <1>6. ASSUME NEW r \in Requests, NEW kind \in {"choose", "cancel"}, BeginDecision(r, kind)
        PROVE  TypeInv'
    <2>1. StoreOK'
      BY <1>0, <1>6, AttachedTyped DEF BeginDecision, Begin, durable, StoreOK, RowsOK,
         SessionOK
    <2>2. RestOK'
      BY <1>0, <1>6, RestBegins DEF BeginDecision, Begin, Ready, Kinds, Pcs
    <2> QED BY <2>1, <2>2, TypePartsNext
  <1>7. ASSUME NEW r \in Requests, NEW reopen \in BOOLEAN, BeginRefresh(r, reopen)
        PROVE  TypeInv'
    <2>1. StoreOK'
      BY <1>0, <1>7, AttachedTyped DEF BeginRefresh, durable, StoreOK, RowsOK, SessionOK
    <2>2. RestOK'
      <3>1. /\ boot = "up" /\ UNCHANGED <<boot, crashes, browser>>
            /\ job' = [kind |-> "refresh", pc |-> "lock", req |-> r,
                       next |-> NoRequest, reopen |-> reopen]
        BY <1>7 DEF BeginRefresh, Ready, Running, Idle
      <3>2. job' \in Job
        BY <3>1 DEF Job, Kinds, Pcs, Maybe
      <3> QED BY <1>0, <3>1, <3>2 DEF RestOK, JobShape, browser
    <2> QED BY <2>1, <2>2, TypePartsNext
  <1>8. ASSUME NEW r \in Requests, BeginRecoverAcknowledgement(r) PROVE TypeInv'
    <2>1. StoreOK'
      BY <1>0, <1>8, AttachedTyped DEF BeginRecoverAcknowledgement, Begin, durable, StoreOK,
         RowsOK, SessionOK
    <2>2. RestOK'
      BY <1>0, <1>8, RestBegins DEF BeginRecoverAcknowledgement, Begin, Ready, Kinds, Pcs
    <2> QED BY <2>1, <2>2, TypePartsNext
  <1>9. ASSUME NEW r \in Requests, NEW o \in Requests, BeginAuthorizedResend(o, r)
        PROVE  TypeInv'
    <2>1. StoreOK'
      BY <1>0, <1>9, AttachedTyped DEF BeginAuthorizedResend, durable, StoreOK, RowsOK,
         SessionOK
    <2>2. RestOK'
      <3>1. /\ boot = "up" /\ UNCHANGED <<boot, crashes, browser>>
            /\ job' = [kind |-> "resend", pc |-> "lock", req |-> o,
                       next |-> r, reopen |-> FALSE]
        BY <1>9 DEF BeginAuthorizedResend, Ready, Running, Idle
      <3>2. job' \in Job
        BY <3>1 DEF Job, Kinds, Pcs, Maybe
      <3> QED BY <1>0, <3>1, <3>2 DEF RestOK, JobShape, browser
    <2> QED BY <2>1, <2>2, TypePartsNext
  <1>10. ASSUME NEW r \in Requests, BeginReopenResend(r) PROVE TypeInv'
    <2>1. StoreOK'
      BY <1>0, <1>10, AttachedTyped DEF BeginReopenResend, Begin, durable, StoreOK, RowsOK,
         SessionOK
    <2>2. RestOK'
      <3>1. reserved[r] \in Requests
        BY <1>0, <1>10 DEF BeginReopenResend, StoreOK, Maybe
      <3> QED BY <1>0, <1>10, <3>1, RestBegins DEF BeginReopenResend, Begin, Ready, Kinds,
                 Pcs
    <2> QED BY <2>1, <2>2, TypePartsNext
  <1>11. ASSUME NEW r \in Requests, BeginContinuation(r) PROVE TypeInv'
    <2>1. StoreOK'
      BY <1>0, <1>11, AttachedTyped DEF BeginContinuation, Begin, durable, StoreOK, RowsOK,
         SessionOK
    <2>2. RestOK'
      BY <1>0, <1>11, RestBegins DEF BeginContinuation, Begin, Ready, Kinds, Pcs
    <2> QED BY <2>1, <2>2, TypePartsNext
  <1>12. ASSUME NEW r \in Requests, BeginReconcile(r) PROVE TypeInv'
    <2>1. StoreOK'
      BY <1>0, <1>12, AttachedTyped DEF BeginReconcile, Begin, durable, StoreOK, RowsOK,
         SessionOK
    <2>2. RestOK'
      BY <1>0, <1>12, RestBegins DEF BeginReconcile, Begin, Ready, Kinds, Pcs
    <2> QED BY <2>1, <2>2, TypePartsNext
  <1>13. ASSUME NEW state \in {"observing", "complete"}, ObserveUpdate(state) PROVE TypeInv'
    <2>1. StoreOK'
      BY <1>0, <1>13, PublishTyped DEF ObserveUpdate, StoreOK, RowsOK, SessionOK,
         SessionStates, TerminalStates
    <2>2. RestOK'
      BY <1>0, <1>13, RestStays DEF ObserveUpdate
    <2> QED BY <2>1, <2>2, TypePartsNext
  <1>14. CASE Stop
    <2>1. StoreOK'
      BY <1>0, <1>14, PublishTyped DEF Stop, StoreOK, RowsOK, SessionOK, SessionStates,
         TerminalStates
    <2>2. RestOK'
      BY <1>0, <1>14, RestStays DEF Stop
    <2> QED BY <2>1, <2>2, TypePartsNext
  <1>15. CASE RetireRole
    <2>1. StoreOK'
      BY <1>0, <1>15, LeaveRoleTyped, PublishTyped DEF RetireRole, StoreOK
    <2>2. RestOK'
      BY <1>0, <1>15, RestStays DEF RetireRole, LeaveRole
    <2> QED BY <2>1, <2>2, TypePartsNext
  <1>16. CASE ReplaceSession
    <2>1. StoreOK'
      BY <1>0, <1>16, LeaveRoleTyped, PublishTyped DEF ReplaceSession, StoreOK
    <2>2. RestOK'
      BY <1>0, <1>16, RestStays DEF ReplaceSession, LeaveRole
    <2> QED BY <2>1, <2>2, TypePartsNext
  <1>17. CASE BeginTeamDeletion
    <2>1. StoreOK'
      BY <1>0, <1>17 DEF BeginTeamDeletion, StoreOK, RowsOK, SessionOK
    <2>2. RestOK'
      BY <1>0, <1>17, RestStays DEF BeginTeamDeletion
    <2> QED BY <2>1, <2>2, TypePartsNext
  <1>18. CASE RetireDeletedConversation
    <2>1. RowsOK' /\ SessionOK' /\ reserved' = reserved /\ Publish
      BY <1>0, <1>18 DEF RetireDeletedConversation, StoreOK, RowsOK, SessionOK, SessionStates,
         TerminalStates
    <2>2. StoreOK'
      BY <1>0, <2>1, PublishTyped DEF StoreOK
    <2>3. RestOK'
      BY <1>0, <1>18, RestStays DEF RetireDeletedConversation
    <2> QED BY <2>2, <2>3, TypePartsNext
  <1> QED BY <1>1, <1>2, <1>3, <1>4, <1>5, <1>6, <1>7, <1>8, <1>9, <1>10, <1>11, <1>12,
             <1>13, <1>14, <1>15, <1>16, <1>17, <1>18 DEF BeginStep

\* The recovery of startCore.
LEMMA BootStepTyped == TypeInv /\ BootStep => TypeInv'
  <1> SUFFICES ASSUME TypeInv, BootStep PROVE TypeInv'
    OBVIOUS
  <1>0. StoreOK /\ RestOK
    BY TypeParts
  <1>1. ASSUME NEW r \in Requests, KeepPreparation(r) PROVE TypeInv'
    <2>1. StoreOK'
      <3>1. RowsOK'
        BY <1>0, <1>1, InspectTyped DEF KeepPreparation, StoreOK
      <3> QED BY <1>0, <1>1, <3>1 DEF KeepPreparation, StoreOK, SessionOK
    <2>2. RestOK'
      BY <1>0, <1>1, RestStays DEF KeepPreparation
    <2> QED BY <2>1, <2>2, TypePartsNext
  <1>2. ASSUME NEW r \in Requests, FailInterrupted(r) PROVE TypeInv'
    <2>1. StoreOK'
      BY <1>0, <1>2, FailPreSubmitTyped DEF FailInterrupted, RestOK, JobShape
    <2>2. RestOK'
      BY <1>0, <1>2, RestStays DEF FailInterrupted
    <2> QED BY <2>1, <2>2, TypePartsNext
  <1>3. ASSUME NEW r \in Requests, RecoverAttempted(r) PROVE TypeInv'
    <2>1. StoreOK'
      BY <1>0, <1>3, RecordSubmissionUnknownTyped DEF RecoverAttempted, RestOK, JobShape
    <2>2. RestOK'
      BY <1>0, <1>3, RestStays DEF RecoverAttempted
    <2> QED BY <2>1, <2>2, TypePartsNext
  <1>4. CASE PreSubmissionsRecovered
    <2>1. StoreOK'
      BY <1>0, <1>4 DEF PreSubmissionsRecovered, durable, StoreOK, RowsOK, SessionOK
    <2>2. RestOK'
      BY <1>0, <1>4 DEF PreSubmissionsRecovered, RestOK, JobShape, browser
    <2> QED BY <2>1, <2>2, TypePartsNext
  <1>5. CASE SubmissionsRecovered
    <2>1. StoreOK'
      BY <1>0, <1>5 DEF SubmissionsRecovered, durable, StoreOK, RowsOK, SessionOK
    <2>2. RestOK'
      BY <1>0, <1>5 DEF SubmissionsRecovered, RestOK, JobShape, browser
    <2> QED BY <2>1, <2>2, TypePartsNext
  <1> QED BY <1>1, <1>2, <1>3, <1>4, <1>5 DEF BootStep

\* Abandoned browser commands.
LEMMA BrowserStepTyped == TypeInv /\ BrowserStep => TypeInv'
  <1> SUFFICES ASSUME TypeInv, BrowserStep PROVE TypeInv'
    OBVIOUS
  <1>0. StoreOK /\ RestOK
    BY TypeParts
  <1>1. CASE DrainSettles
    <2>1. StoreOK'
      BY <1>0, <1>1 DEF DrainSettles, durable, StoreOK, RowsOK, SessionOK
    <2>2. RestOK'
      BY <1>0, <1>1 DEF DrainSettles, RestOK, JobShape
    <2> QED BY <2>1, <2>2, TypePartsNext
  <1>2. ASSUME NEW r \in Requests, LateClick(r) PROVE TypeInv'
    <2>1. StoreOK'
      BY <1>0, <1>2 DEF LateClick, durable, StoreOK, RowsOK, SessionOK
    <2>2. RestOK'
      BY <1>0, <1>2 DEF LateClick, ClickSend, RestOK, JobShape
    <2> QED BY <2>1, <2>2, TypePartsNext
  <1>3. ASSUME NEW r \in Requests, LateCommandFails(r) PROVE TypeInv'
    <2>1. StoreOK'
      BY <1>0, <1>3 DEF LateCommandFails, durable, StoreOK, RowsOK, SessionOK
    <2>2. RestOK'
      BY <1>0, <1>3 DEF LateCommandFails, RestOK, JobShape
    <2> QED BY <2>1, <2>2, TypePartsNext
  <1> QED BY <1>1, <1>2, <1>3 DEF BrowserStep

\* Crashing and dropping an idle actor touch no row.
LEMMA CrashTyped == TypeInv /\ (RetireActor \/ Crash) => TypeInv'
  <1> SUFFICES ASSUME TypeInv, RetireActor \/ Crash PROVE TypeInv'
    OBVIOUS
  <1>0. StoreOK /\ RestOK
    BY TypeParts
  <1>1. StoreOK'
    <2>1. UNCHANGED durable /\ view' = NoActor
      BY DEF RetireActor, Crash
    <2>2. NoActor \in View
      BY DEF NoActor, View, Maybe, SubmissionStates
    <2> QED BY <1>0, <2>1, <2>2 DEF durable, StoreOK, RowsOK, SessionOK
  <1>2. CASE RetireActor
    BY <1>0, <1>1, <1>2, TypeParts
    DEF RestOK, JobShape, RetireActor, browser, TypeInv, TypeOK, StoreOK, RowsOK, SessionOK
  <1>3. CASE Crash
    <2>1. crashes' \in 0 .. MaxCrashes
      BY <1>0, <1>3, MaxCrashesIsNatural DEF RestOK, Crash
    <2>2. late' \subseteq Requests
      BY <1>0, <1>3 DEF RestOK, Crash, At, JobShape
    <2>3. job' \in Job /\ JobShape'
      BY <1>3, IdleTyped DEF Crash, JobShape, Idle
    <2> QED BY <1>0, <1>1, <1>3, <2>1, <2>2, <2>3
        DEF Crash, RestOK, TypeInv, TypeOK, StoreOK, RowsOK, SessionOK
  <1> QED BY <1>2, <1>3

\* The initial state is typed.
LEMMA InitTyped == Init => TypeInv
  <1> SUFFICES ASSUME Init PROVE TypeInv
    OBVIOUS
  <1>1. NoRow \in Row
    BY DEF NoRow, Row, SubmissionStates, Maybe
  <1>2. StoreOK
    BY <1>1 DEF Init, StoreOK, RowsOK, SessionOK, SessionStates, NoActor, View, Maybe,
                SubmissionStates
  <1>3. job \in Job /\ JobShape
    BY IdleTyped DEF Init, JobShape, Idle
  <1>4. crashes \in 0 .. MaxCrashes /\ clicks \in [Requests -> Nat]
    BY MaxCrashesIsNatural DEF Init
  <1>5. RestOK
    BY <1>3, <1>4 DEF Init, RestOK
  <1> QED BY <1>2, <1>5, TypeParts

\* Stuttering keeps the types.
LEMMA StutterTyped == TypeInv /\ UNCHANGED vars => TypeInv'
  BY DEF TypeInv, TypeOK, JobShape, vars

\* Every variable keeps its type, and the running operation its shape.
THEOREM TypeInvariant == Spec => []TypeInv
  <1>1. TypeInv /\ [Next]_vars => TypeInv'
    BY SubmitStepTyped, PageStepTyped, BeginStepTyped, BootStepTyped, BrowserStepTyped,
       CrashTyped, StutterTyped DEF Next
  <1> QED BY InitTyped, <1>1, PTL DEF Spec

\* Every variable of the submission pipeline keeps its type.
THEOREM TypeCorrect == Spec => []TypeOK
  <1>1. TypeInv => TypeOK
    BY DEF TypeInv
  <1> QED BY TypeInvariant, <1>1, PTL

-----------------------------------------------------------------------------
(* Clicks.  The properties are not inductive: a step from "click" knows    *)
(* that Send was not clicked only because the row said so before the       *)
(* attempt was recorded, and a late command may click after its operation  *)
(* is gone.  The strengthening says what each phase of a run and each      *)
(* command in flight imply about the row and the clicks of the request.    *)

SubmitShape ==
    job.kind = "submit" =>
        /\ job.pc \in {"open", "lock", "prepare", "verify"} =>
               outbox[job.req].state = "prepared"
        /\ job.pc = "filled" => outbox[job.req].state = "composer_filled"
        /\ job.pc \in {"click", "clicked", "ack"} =>
               outbox[job.req].state = "submit_attempted"
        /\ job.pc = "click" => clicks[job.req] = 0 /\ job.req \notin late
        /\ job.pc # "page"

ClickHistory ==
    \A r \in Requests :
        /\ clicks[r] <= 1
        /\ outbox[r].state \notin Attempted => clicks[r] = 0 /\ r \notin late
        /\ r \in late => clicks[r] = 0

ClickInv == TypeInv /\ SubmitShape /\ ClickHistory

\* A step that takes no attempt back.
AttemptsKept ==
    \A r \in Requests : outbox[r].state \in Attempted => outbox'[r].state \in Attempted

\* Such a step without clicks or new commands in flight keeps the history.
LEMMA HistoryKept ==
    ASSUME ClickInv, AttemptsKept, clicks' = clicks, late' \subseteq late
    PROVE  ClickHistory'
  BY DEF ClickInv, ClickHistory, AttemptsKept

\* A write takes no attempt back unless it turns an attempt into something else.
LEMMA WriteKeeps ==
    ASSUME RowsOK, NEW r \in Requests, NEW row \in Row, NEW state, Write(r, row, state),
           outbox[r].state \in Attempted => row.state \in Attempted
    PROVE  AttemptsKept /\ outbox'[r] = row
  BY DEF RowsOK, Write, AttemptsKept

\* A failure before submission, of a request that was not attempted.
LEMMA FailPreSubmitKeeps ==
    ASSUME RowsOK, NEW r \in Requests, 
           NEW error \in {"browser-unavailable", "other"}, outbox[r].state \notin Attempted, 
           FailPreSubmit(r, error)
    PROVE  AttemptsKept /\ outbox'[r].state = "failed_pre_submit"
  <1> DEFINE row == [outbox[r] EXCEPT !.state = "failed_pre_submit",
                                      !.error = error, !.inspect = FALSE]
  <1>1. outbox[r] \in Row
    BY DEF RowsOK
  <1>2. row \in Row /\ row.state = "failed_pre_submit"
    BY <1>1 DEF Row, SubmissionStates, Maybe
  <1>3. Write(r, row, "ready")
    BY DEF FailPreSubmit
  <1> QED BY <1>2, <1>3, WriteKeeps DEF Attempted

\* A decision the caller must take leaves the state alone.
LEMMA RecordPreparationRequiredKeeps ==
    ASSUME RowsOK, NEW r \in Requests, RecordPreparationRequired(r)
    PROVE  AttemptsKept /\ outbox'[r].state = outbox[r].state
  <1> DEFINE row == [outbox[r] EXCEPT !.error = "preparation-required",
                                      !.inspect = FALSE]
  <1>1. outbox[r] \in Row
    BY DEF RowsOK
  <1>2. row \in Row /\ row.state = outbox[r].state
    BY <1>1 DEF Row, SubmissionStates, Maybe
  <1>3. Write(r, row, session.state)
    BY DEF RecordPreparationRequired
  <1> QED BY <1>2, <1>3, WriteKeeps DEF Attempted

\* An unresolved attempt stays an attempt.
LEMMA RecordSubmissionUnknownKeeps ==
    ASSUME RowsOK, NEW r \in Requests, RecordSubmissionUnknown(r)
    PROVE  AttemptsKept /\ outbox'[r].state = "submission_unknown"
  <1> DEFINE row == [outbox[r] EXCEPT !.state = "submission_unknown", !.error = "other"]
  <1>1. outbox[r] \in Row
    BY DEF RowsOK
  <1>2. row \in Row /\ row.state = "submission_unknown"
    BY <1>1 DEF Row, SubmissionStates, Maybe
  <1> DEFINE state == IF session.state \in TerminalStates THEN session.state ELSE "observing"
  <1>3. Write(r, row, state)
    BY DEF RecordSubmissionUnknown
  <1> QED BY <1>2, <1>3, WriteKeeps DEF Attempted

\* An acknowledged attempt stays an attempt.
LEMMA AcknowledgeKeeps ==
    ASSUME RowsOK, NEW r \in Requests, NEW m \in Requests,
           Acknowledge(r, m)
    PROVE  AttemptsKept /\ outbox'[r].state = "submitted"
  <1> DEFINE row == [outbox[r] EXCEPT !.state = "submitted", !.error = "none",
                                      !.message = m]
  <1>1. outbox[r] \in Row
    BY DEF RowsOK
  <1>2. row \in Row /\ row.state = "submitted"
    BY <1>1 DEF Row, SubmissionStates, Maybe
  <1>3. Write(r, row, "submitted")
    BY DEF Acknowledge
  <1> QED BY <1>2, <1>3, WriteKeeps DEF Attempted

\* The composer is filled before the attempt.
LEMMA FillComposerKeeps ==
    ASSUME RowsOK, job.req \in Requests,
           outbox[job.req].state \notin Attempted, FillComposer
    PROVE  AttemptsKept /\ outbox'[job.req].state = "composer_filled"
  <1> DEFINE row == [outbox[job.req] EXCEPT !.state = "composer_filled",
                                      !.error = "none", !.inspect = FALSE]
  <1>1. outbox[job.req] \in Row
    BY DEF RowsOK
  <1>2. row \in Row /\ row.state = "composer_filled"
    BY <1>1 DEF Row, SubmissionStates, Maybe
  <1>3. Write(job.req, row, session.state)
    BY DEF FillComposer
  <1>4. outbox[job.req].state \in Attempted => row.state \in Attempted
    BY <1>2 DEF Attempted
  <1> HIDE DEF row
  <1>5. AttemptsKept /\ outbox'[job.req] = row
    BY <1>2, <1>3, <1>4, WriteKeeps
  <1> QED BY <1>2, <1>5

\* The attempt is recorded.
LEMMA RecordAttemptKeeps ==
    ASSUME RowsOK, job.req \in Requests, RecordAttempt
    PROVE  AttemptsKept /\ outbox'[job.req].state = "submit_attempted"
  <1> DEFINE row == [outbox[job.req] EXCEPT !.state = "submit_attempted"]
  <1>1. outbox[job.req] \in Row
    BY DEF RowsOK
  <1>2. row \in Row /\ row.state = "submit_attempted"
    BY <1>1 DEF Row, SubmissionStates, Maybe
  <1>3. Write(job.req, row, "submitting")
    BY DEF RecordAttempt
  <1>4. outbox[job.req].state \in Attempted => row.state \in Attempted
    BY <1>2 DEF Attempted
  <1> HIDE DEF row
  <1>5. AttemptsKept /\ outbox'[job.req] = row
    BY <1>2, <1>3, <1>4, WriteKeeps
  <1> QED BY <1>2, <1>5

\* Only an unsubmitted request is re-opened.
LEMMA ReopenKeeps ==
    ASSUME RowsOK, NEW r \in Requests, NEW inspect \in BOOLEAN,
           Reopen(r, inspect)
    PROVE  AttemptsKept /\ outbox'[r].state = "prepared"
  <1> DEFINE row == [outbox[r] EXCEPT !.state = "prepared",
                                      !.error = "preparation-required",
                                      !.inspect = inspect]
  <1>1. outbox[r] \in Row
    BY DEF RowsOK
  <1>2. row \in Row /\ row.state = "prepared"
    BY <1>1 DEF Row, SubmissionStates, Maybe
  <1>3. Write(r, row, "submitting")
    BY DEF Reopen
  <1>4. outbox[r].state \notin Attempted
    BY DEF Reopen, Attempted
  <1> QED BY <1>2, <1>3, <1>4, WriteKeeps

\* A closed generation keeps its attempt.
LEMMA CloseKeeps ==
    ASSUME RowsOK, NEW r \in Requests,
           NEW reason \in {"continuation-prepared"} \cup Reconciled,
           NEW state, Write(r, [outbox[r] EXCEPT !.reason = reason], state)
    PROVE  AttemptsKept
  <1> DEFINE row == [outbox[r] EXCEPT !.reason = reason]
  <1>1. outbox[r] \in Row
    BY DEF RowsOK
  <1>2. row \in Row /\ row.state = outbox[r].state
    BY <1>1 DEF Row
  <1> QED BY <1>2, WriteKeeps

\* The inspection flag is no part of the history.
LEMMA InspectKeeps ==
    ASSUME RowsOK, NEW r \in Requests, NEW b, outbox' = [outbox EXCEPT ![r].inspect = b]
    PROVE  AttemptsKept
  <1>1. \A q \in Requests : outbox'[q].state = outbox[q].state
    BY DEF RowsOK, Row
  <1> QED BY <1>1 DEF AttemptsKept

\* A new generation replaces no row of an earlier one.
LEMMA InsertOutboxKeeps ==
    ASSUME RowsOK, NEW r \in Requests, NEW kind, NEW origin, NEW error,
           InsertOutbox(r, kind, origin, error)
    PROVE  AttemptsKept /\ outbox'[r].state = "prepared"
  <1>1. outbox[r].state = "none"
    BY DEF InsertOutbox
  <1>2. outbox'[r].state = "prepared"
    BY DEF InsertOutbox, NoRow, RowsOK
  <1>3. \A q \in Requests \ {r} : outbox'[q] = outbox[q]
    BY DEF InsertOutbox, RowsOK
  <1> QED BY <1>1, <1>2, <1>3 DEF AttemptsKept, Attempted

\* A running submission clicks once, and only after its attempt is recorded.
LEMMA SubmitStepClicks == ClickInv /\ SubmitStep => SubmitShape' /\ ClickHistory'
  <1> SUFFICES ASSUME ClickInv, SubmitStep PROVE SubmitShape' /\ ClickHistory'
    OBVIOUS
  <1>0. RowsOK /\ RestOK /\ SubmitShape /\ ClickHistory
    BY TypeParts DEF ClickInv, StoreOK
  <1>1. CASE OpenOk
    <2>1. AttemptsKept /\ clicks' = clicks /\ late' \subseteq late
      BY <1>1 DEF OpenOk, durable, browser, AttemptsKept
    <2>2. At("open") /\ outbox' = outbox /\ (job' = Idle \/ Goto("lock"))
      BY <1>1 DEF OpenOk, durable
    <2>3. SubmitShape'
      BY <1>0, <2>2 DEF At, Goto, SubmitShape, RestOK, Job, Idle
    <2> QED BY <2>1, <2>3, HistoryKept
  <1>2. CASE OpenNeedsDecision
    <2>1. AttemptsKept
      BY <1>0, <1>2, RecordPreparationRequiredKeeps DEF OpenNeedsDecision, At, RestOK,
         JobShape, SubmitShape, Attempted
    <2>2. clicks' = clicks /\ late' \subseteq late
      BY <1>2 DEF OpenNeedsDecision, At, browser
    <2>3. SubmitShape'
      BY <1>2 DEF OpenNeedsDecision, At, SubmitShape, Idle
    <2> QED BY <2>1, <2>2, <2>3, HistoryKept
  <1>3. CASE EnterPrepare
    <2>1. AttemptsKept
      BY <1>0, <1>3 DEF EnterPrepare, At, Goto, durable, AttemptsKept
    <2>2. clicks' = clicks /\ late' \subseteq late
      BY <1>3 DEF EnterPrepare, At, Goto, browser
    <2>3. SubmitShape'
      BY <1>0, <1>3 DEF EnterPrepare, At, Goto, SubmitShape, RestOK, Job, durable, browser
    <2> QED BY <2>1, <2>2, <2>3, HistoryKept
  <1>4. CASE PrepareOk
    <2>1. AttemptsKept /\ outbox'[job.req].state = "composer_filled"
      BY <1>0, <1>4, FillComposerKeeps DEF PrepareOk, At, SubmitShape, Attempted, RestOK,
         JobShape
    <2>2. clicks' = clicks /\ late' \subseteq late
      BY <1>4 DEF PrepareOk, browser
    <2>3. job'.req = job.req /\ job'.pc = "filled"
      BY <1>0, <1>4 DEF PrepareOk, FillComposer, Goto, RestOK, Job
    <2>4. SubmitShape'
      BY <2>1, <2>3 DEF SubmitShape
    <2> QED BY <2>1, <2>2, <2>4, HistoryKept
  <1>5. CASE PrepareThenVerify
    <2>1. AttemptsKept
      BY <1>0, <1>5 DEF PrepareThenVerify, At, Goto, durable, AttemptsKept
    <2>2. clicks' = clicks /\ late' \subseteq late
      BY <1>5 DEF PrepareThenVerify, At, Goto, browser
    <2>3. SubmitShape'
      BY <1>0, <1>5 DEF PrepareThenVerify, At, Goto, SubmitShape, RestOK, Job, durable,
         browser
    <2> QED BY <2>1, <2>2, <2>3, HistoryKept
  <1>6. CASE VerifyOk
    <2>1. AttemptsKept /\ outbox'[job.req].state = "composer_filled"
      BY <1>0, <1>6, FillComposerKeeps DEF VerifyOk, At, SubmitShape, Attempted, RestOK,
         JobShape
    <2>2. clicks' = clicks /\ late' \subseteq late
      BY <1>6 DEF VerifyOk, browser
    <2>3. job'.req = job.req /\ job'.pc = "filled"
      BY <1>0, <1>6 DEF VerifyOk, FillComposer, Goto, RestOK, Job
    <2>4. SubmitShape'
      BY <2>1, <2>3 DEF SubmitShape
    <2> QED BY <2>1, <2>2, <2>4, HistoryKept
  <1>7. CASE PreparationNeedsDecision
    <2>1. AttemptsKept
      BY <1>0, <1>7, RecordPreparationRequiredKeeps DEF PreparationNeedsDecision, At,
         RestOK, JobShape, SubmitShape, Attempted
    <2>2. clicks' = clicks /\ late' \subseteq late
      BY <1>7 DEF PreparationNeedsDecision, At, browser
    <2>3. SubmitShape'
      BY <1>7 DEF PreparationNeedsDecision, At, SubmitShape, Idle
    <2> QED BY <2>1, <2>2, <2>3, HistoryKept
  <1>8. CASE PrepareTimesOut
    <2>1. AttemptsKept
      BY <1>0, <1>8, FailPreSubmitKeeps DEF PrepareTimesOut, At, RestOK, JobShape,
         SubmitShape, Attempted
    <2>2. clicks' = clicks /\ late' \subseteq late
      BY <1>8 DEF PrepareTimesOut, At, browser
    <2>3. SubmitShape'
      BY <1>8 DEF PrepareTimesOut, At, SubmitShape, Idle
    <2> QED BY <2>1, <2>2, <2>3, HistoryKept
  <1>9. ASSUME NEW error \in {"browser-unavailable", "other"}, OpenFails(error)
        PROVE  SubmitShape' /\ ClickHistory'
    <2>1. AttemptsKept
      BY <1>0, <1>9, FailPreSubmitKeeps DEF OpenFails, At, RestOK, JobShape, SubmitShape,
         Attempted
    <2>2. clicks' = clicks /\ late' \subseteq late
      BY <1>9 DEF OpenFails, At, browser
    <2>3. SubmitShape'
      BY <1>9 DEF OpenFails, At, SubmitShape, Idle
    <2> QED BY <2>1, <2>2, <2>3, HistoryKept
  <1>10. ASSUME NEW error \in {"browser-unavailable", "other"}, PreparationFails(error)
        PROVE  SubmitShape' /\ ClickHistory'
    <2>1. AttemptsKept
      BY <1>0, <1>10, FailPreSubmitKeeps DEF PreparationFails, At, RestOK, JobShape,
         SubmitShape, Attempted
    <2>2. clicks' = clicks /\ late' \subseteq late
      BY <1>10 DEF PreparationFails, At, browser
    <2>3. SubmitShape'
      BY <1>10 DEF PreparationFails, At, SubmitShape, Idle
    <2> QED BY <2>1, <2>2, <2>3, HistoryKept
  <1>11. CASE RecordAttempt
    <2>1. AttemptsKept /\ outbox'[job.req].state = "submit_attempted"
      BY <1>0, <1>11, RecordAttemptKeeps DEF RecordAttempt, At, RestOK, JobShape
    <2>2. clicks' = clicks /\ late' = late /\ (job' = Idle \/ Goto("click"))
      BY <1>11 DEF RecordAttempt, browser
    <2>3. clicks[job.req] = 0 /\ job.req \notin late
      BY <1>0, <1>11 DEF RecordAttempt, At, SubmitShape, ClickHistory, Attempted, RestOK,
         JobShape
    <2>4. SubmitShape'
      <3>1. CASE job' = Idle
        BY <3>1 DEF SubmitShape, Idle
      <3>2. CASE Goto("click")
        <4>1. job'.req = job.req /\ job'.pc = "click"
          BY <1>0, <3>2 DEF Goto, RestOK, Job
        <4> QED BY <2>1, <2>2, <2>3, <4>1 DEF SubmitShape
      <3> QED BY <2>2, <3>1, <3>2
    <2> QED BY <2>1, <2>2, <2>4, HistoryKept
  <1>12. CASE Click
    <2>1. /\ outbox' = outbox /\ late' = late
          /\ clicks' = [clicks EXCEPT ![job.req] = @ + 1]
          /\ job'.pc = "clicked" /\ job'.req = job.req
      BY <1>0, <1>12 DEF Click, ClickSend, Goto, durable, RestOK, Job
    <2>2. /\ job.req \in Requests /\ outbox[job.req].state = "submit_attempted"
          /\ clicks[job.req] = 0 /\ job.req \notin late
      BY <1>0, <1>12 DEF Click, At, SubmitShape, RestOK, JobShape
    <2>3. ClickHistory'
      BY <1>0, <2>1, <2>2 DEF ClickHistory, RestOK, Attempted
    <2> QED BY <2>1, <2>2, <2>3 DEF SubmitShape
  <1>13. CASE SubmitReturns
    <2>1. AttemptsKept
      BY <1>0, <1>13 DEF SubmitReturns, At, Goto, durable, AttemptsKept
    <2>2. clicks' = clicks /\ late' \subseteq late
      BY <1>13 DEF SubmitReturns, At, Goto, browser
    <2>3. SubmitShape'
      BY <1>0, <1>13 DEF SubmitReturns, At, Goto, SubmitShape, RestOK, Job, durable, browser
    <2> QED BY <2>1, <2>2, <2>3, HistoryKept
  <1>14. CASE SubmitTimesOut
    <2>1. /\ outbox' = outbox /\ clicks' = clicks /\ late' = late \cup {job.req}
          /\ job'.pc = "ack" /\ job'.req = job.req
      BY <1>0, <1>14 DEF SubmitTimesOut, Goto, durable, RestOK, Job
    <2>2. outbox[job.req].state = "submit_attempted" /\ clicks[job.req] = 0
      BY <1>0, <1>14 DEF SubmitTimesOut, At, SubmitShape
    <2>3. ClickHistory'
      BY <1>0, <2>1, <2>2 DEF ClickHistory, Attempted
    <2> QED BY <2>1, <2>2, <2>3 DEF SubmitShape
  <1>15. CASE AckCaptured
    <2>1. AttemptsKept
      BY <1>0, <1>15, AcknowledgeKeeps DEF AckCaptured, At, RestOK, JobShape, SubmitShape,
         Attempted
    <2>2. clicks' = clicks /\ late' \subseteq late
      BY <1>15 DEF AckCaptured, At, browser
    <2>3. SubmitShape'
      BY <1>15 DEF AckCaptured, At, SubmitShape, Idle
    <2> QED BY <2>1, <2>2, <2>3, HistoryKept
  <1>16. CASE AckMissing
    <2>1. AttemptsKept
      BY <1>0, <1>16, RecordSubmissionUnknownKeeps DEF AckMissing, At, RestOK, JobShape,
         SubmitShape, Attempted
    <2>2. clicks' = clicks /\ late' \subseteq late
      BY <1>16 DEF AckMissing, At, browser
    <2>3. SubmitShape'
      BY <1>16 DEF AckMissing, At, SubmitShape, Idle
    <2> QED BY <2>1, <2>2, <2>3, HistoryKept
  <1> QED BY <1>1, <1>2, <1>3, <1>4, <1>5, <1>6, <1>7, <1>8, <1>9, <1>10, <1>11, <1>12,
             <1>13, <1>14, <1>15, <1>16 DEF SubmitStep

\* No other operation clicks, and none takes an attempt back.
LEMMA PageStepClicks == ClickInv /\ PageStep => SubmitShape' /\ ClickHistory'
  <1> SUFFICES ASSUME ClickInv, PageStep PROVE SubmitShape' /\ ClickHistory'
    OBVIOUS
  <1>0. RowsOK /\ RestOK /\ SubmitShape /\ ClickHistory
    BY TypeParts DEF ClickInv, StoreOK
  <1>1. CASE EnterPage
    <2>1. AttemptsKept
      BY <1>0, <1>1 DEF EnterPage, Goto, durable, AttemptsKept
    <2>2. clicks' = clicks /\ late' \subseteq late
      BY <1>1 DEF EnterPage, Goto, browser
    <2>3. SubmitShape'
      BY <1>0, <1>1 DEF EnterPage, Goto, SubmitShape, RestOK, Job, durable, browser
    <2> QED BY <2>1, <2>2, <2>3, HistoryKept
  <1>2. CASE EnterRefresh
    <2>1. AttemptsKept
      BY <1>0, <1>2, InspectKeeps DEF EnterRefresh, RestOK, JobShape
    <2>2. clicks' = clicks /\ late' \subseteq late
      BY <1>2 DEF EnterRefresh, browser
    <2>3. job'.kind = "refresh"
      BY <1>0, <1>2 DEF EnterRefresh, Goto, RestOK, Job
    <2>4. SubmitShape'
      BY <2>3 DEF SubmitShape
    <2> QED BY <2>1, <2>2, <2>4, HistoryKept
  <1>3. CASE PageEnds
    <2>1. AttemptsKept
      BY <1>0, <1>3 DEF PageEnds, durable, AttemptsKept
    <2>2. clicks' = clicks /\ late' \subseteq late
      BY <1>3 DEF PageEnds, browser
    <2>3. SubmitShape'
      BY <1>3 DEF PageEnds, SubmitShape, Idle
    <2> QED BY <2>1, <2>2, <2>3, HistoryKept
  <1>4. CASE FinishInspect
    <2>1. AttemptsKept
      BY <1>0, <1>4, InspectKeeps DEF FinishInspect, OnPage, Finish, RestOK, JobShape
    <2>2. clicks' = clicks /\ late' \subseteq late
      BY <1>4 DEF FinishInspect, OnPage, Finish, browser
    <2>3. SubmitShape'
      BY <1>4 DEF FinishInspect, OnPage, Finish, SubmitShape, Idle
    <2> QED BY <2>1, <2>2, <2>3, HistoryKept
  <1>5. CASE FinishInspectReopening
    <2>1. AttemptsKept
      BY <1>0, <1>5, ReopenKeeps DEF FinishInspectReopening, OnPage, Finish, RestOK,
         JobShape
    <2>2. clicks' = clicks /\ late' \subseteq late
      BY <1>5 DEF FinishInspectReopening, OnPage, Finish, browser
    <2>3. SubmitShape'
      BY <1>5 DEF FinishInspectReopening, OnPage, Finish, SubmitShape, Idle
    <2> QED BY <2>1, <2>2, <2>3, HistoryKept
  <1>6. CASE FinishChoose
    <2>1. AttemptsKept
      BY <1>0, <1>6, InspectKeeps DEF FinishChoose, OnPage, Finish, RestOK, JobShape
    <2>2. clicks' = clicks /\ late' \subseteq late
      BY <1>6 DEF FinishChoose, OnPage, Finish, browser
    <2>3. SubmitShape'
      BY <1>6 DEF FinishChoose, OnPage, Finish, SubmitShape, Idle
    <2> QED BY <2>1, <2>2, <2>3, HistoryKept
  <1>7. CASE FinishCancel
    <2>1. AttemptsKept
      BY <1>0, <1>7, FailPreSubmitKeeps DEF FinishCancel, PreparationOwner, OnPage, Finish,
         RestOK, JobShape, SubmitShape, Attempted
    <2>2. clicks' = clicks /\ late' \subseteq late
      BY <1>7 DEF FinishCancel, PreparationOwner, OnPage, Finish, browser
    <2>3. SubmitShape'
      BY <1>7 DEF FinishCancel, PreparationOwner, OnPage, Finish, SubmitShape, Idle
    <2> QED BY <2>1, <2>2, <2>3, HistoryKept
  <1>8. CASE FinishRefreshReopening
    <2>1. AttemptsKept
      BY <1>0, <1>8, ReopenKeeps DEF FinishRefreshReopening, OnPage, Finish, RestOK,
         JobShape
    <2>2. clicks' = clicks /\ late' \subseteq late
      BY <1>8 DEF FinishRefreshReopening, OnPage, Finish, browser
    <2>3. SubmitShape'
      BY <1>8 DEF FinishRefreshReopening, OnPage, Finish, SubmitShape, Idle
    <2> QED BY <2>1, <2>2, <2>3, HistoryKept
  <1>9. CASE FinishAuthorizedResend
    <2>1. AttemptsKept
      BY <1>0, <1>9, InsertOutboxKeeps DEF FinishAuthorizedResend, OnPage, Finish, RestOK,
         JobShape
    <2>2. clicks' = clicks /\ late' \subseteq late
      BY <1>9 DEF FinishAuthorizedResend, OnPage, Finish, browser
    <2>3. SubmitShape'
      BY <1>9 DEF FinishAuthorizedResend, OnPage, Finish, SubmitShape, Idle
    <2> QED BY <2>1, <2>2, <2>3, HistoryKept
  <1>10. CASE FinishReopenResend
    <2>1. AttemptsKept
      BY <1>0, <1>10, ReopenKeeps DEF FinishReopenResend, OnPage, Finish, RestOK, JobShape
    <2>2. clicks' = clicks /\ late' \subseteq late
      BY <1>10 DEF FinishReopenResend, OnPage, Finish, browser
    <2>3. SubmitShape'
      BY <1>10 DEF FinishReopenResend, OnPage, Finish, SubmitShape, Idle
    <2> QED BY <2>1, <2>2, <2>3, HistoryKept
  <1>11. CASE FinishContinuation
    <2>1. AttemptsKept
      BY <1>0, <1>11, CloseKeeps DEF FinishContinuation, OnPage, Finish, RestOK, JobShape
    <2>2. clicks' = clicks /\ late' \subseteq late
      BY <1>11 DEF FinishContinuation, OnPage, Finish, browser
    <2>3. SubmitShape'
      BY <1>11 DEF FinishContinuation, OnPage, Finish, SubmitShape, Idle
    <2> QED BY <2>1, <2>2, <2>3, HistoryKept
  <1>12. ASSUME NEW reason \in Reconciled, FinishReconcile(reason)
        PROVE  SubmitShape' /\ ClickHistory'
    <2>1. AttemptsKept
      BY <1>0, <1>12, CloseKeeps DEF FinishReconcile, OnPage, Finish, RestOK, JobShape
    <2>2. clicks' = clicks /\ late' \subseteq late
      BY <1>12 DEF FinishReconcile, OnPage, Finish, browser
    <2>3. SubmitShape'
      BY <1>12 DEF FinishReconcile, OnPage, Finish, SubmitShape, Idle
    <2> QED BY <2>1, <2>2, <2>3, HistoryKept
  <1>13. ASSUME NEW m \in Requests, FinishRecoverAcknowledgement(m)
        PROVE  SubmitShape' /\ ClickHistory'
    <2>1. AttemptsKept
      BY <1>0, <1>13, AcknowledgeKeeps DEF FinishRecoverAcknowledgement, OnPage, Finish,
         RestOK, JobShape
    <2>2. clicks' = clicks /\ late' \subseteq late
      BY <1>13 DEF FinishRecoverAcknowledgement, OnPage, Finish, browser
    <2>3. SubmitShape'
      BY <1>13 DEF FinishRecoverAcknowledgement, OnPage, Finish, SubmitShape, Idle
    <2> QED BY <2>1, <2>2, <2>3, HistoryKept
  <1> QED BY <1>1, <1>2, <1>3, <1>4, <1>5, <1>6, <1>7, <1>8, <1>9, <1>10, <1>11, <1>12,
             <1>13 DEF PageStep

\* Starting an operation clicks nothing and takes no attempt back.
LEMMA BeginStepClicks == ClickInv /\ BeginStep => SubmitShape' /\ ClickHistory'
  <1> SUFFICES ASSUME ClickInv, BeginStep PROVE SubmitShape' /\ ClickHistory'
    OBVIOUS
  <1>0. RowsOK /\ RestOK /\ SubmitShape /\ ClickHistory
    BY TypeParts DEF ClickInv, StoreOK
  <1>1. ASSUME NEW r \in Requests, NEW origin \in Maybe, Send(r, origin)
        PROVE  SubmitShape' /\ ClickHistory'
    <2>1. AttemptsKept /\ outbox'[r].state = "prepared"
      BY <1>0, <1>1, InsertOutboxKeeps DEF Send
    <2>2. clicks' = clicks /\ late' \subseteq late /\ job' = Running("submit", "open", r)
      BY <1>1 DEF Send, browser
    <2>3. SubmitShape'
      BY <2>1, <2>2 DEF SubmitShape, Running, Idle
    <2> QED BY <2>1, <2>2, <2>3, HistoryKept
  <1>2. ASSUME NEW r \in Requests, ReplayAttempted(r)
        PROVE  SubmitShape' /\ ClickHistory'
    <2>1. AttemptsKept
      BY <1>0, <1>2, RecordSubmissionUnknownKeeps DEF ReplayAttempted, Ready, RestOK,
         JobShape, SubmitShape, Attempted
    <2>2. clicks' = clicks /\ late' \subseteq late
      BY <1>2 DEF ReplayAttempted, Ready, browser
    <2>3. SubmitShape'
      BY <1>0, <1>2 DEF ReplayAttempted, Ready, SubmitShape, RestOK, JobShape, Idle
    <2> QED BY <2>1, <2>2, <2>3, HistoryKept
  <1>3. ASSUME NEW r \in Requests, ReplayUnattempted(r)
        PROVE  SubmitShape' /\ ClickHistory'
    <2>1. AttemptsKept
      BY <1>0, <1>3, FailPreSubmitKeeps DEF ReplayUnattempted, Ready, RestOK, JobShape,
         SubmitShape, Attempted
    <2>2. clicks' = clicks /\ late' \subseteq late
      BY <1>3 DEF ReplayUnattempted, Ready, browser
    <2>3. SubmitShape'
      BY <1>0, <1>3 DEF ReplayUnattempted, Ready, SubmitShape, RestOK, JobShape, Idle
    <2> QED BY <2>1, <2>2, <2>3, HistoryKept
  <1>4. ASSUME NEW r \in Requests, ResumePreparation(r)
        PROVE  SubmitShape' /\ ClickHistory'
    <2>1. AttemptsKept
      BY <1>0, <1>4 DEF ResumePreparation, PreparationOwner, durable, durable, AttemptsKept
    <2>2. clicks' = clicks /\ late' \subseteq late
      BY <1>4 DEF ResumePreparation, PreparationOwner, durable, browser
    <2>3. SubmitShape'
      BY <1>4 DEF ResumePreparation, PreparationOwner, durable, Running, Idle, SubmitShape
    <2> QED BY <2>1, <2>2, <2>3, HistoryKept
  <1>5. ASSUME NEW r \in Requests, BeginInspect(r)
        PROVE  SubmitShape' /\ ClickHistory'
    <2>1. AttemptsKept
      BY <1>0, <1>5 DEF BeginInspect, Begin, durable, AttemptsKept
    <2>2. clicks' = clicks /\ late' \subseteq late
      BY <1>5 DEF BeginInspect, Begin, browser
    <2>3. SubmitShape'
      BY <1>5 DEF BeginInspect, Begin, Running, Idle, SubmitShape
    <2> QED BY <2>1, <2>2, <2>3, HistoryKept
  <1>6. ASSUME NEW r \in Requests, NEW kind \in {"choose", "cancel"}, BeginDecision(r, kind)
        PROVE  SubmitShape' /\ ClickHistory'
    <2>1. AttemptsKept
      BY <1>0, <1>6 DEF BeginDecision, Begin, durable, AttemptsKept
    <2>2. clicks' = clicks /\ late' \subseteq late
      BY <1>6 DEF BeginDecision, Begin, browser
    <2>3. SubmitShape'
      BY <1>6 DEF BeginDecision, Begin, Running, Idle, SubmitShape
    <2> QED BY <2>1, <2>2, <2>3, HistoryKept
  <1>7. ASSUME NEW r \in Requests, NEW reopen \in BOOLEAN, BeginRefresh(r, reopen)
        PROVE  SubmitShape' /\ ClickHistory'
    <2>1. AttemptsKept
      BY <1>0, <1>7 DEF BeginRefresh, durable, AttemptsKept
    <2>2. clicks' = clicks /\ late' \subseteq late
      BY <1>7 DEF BeginRefresh, browser
    <2>3. SubmitShape'
      BY <1>7 DEF BeginRefresh, Running, Idle, SubmitShape
    <2> QED BY <2>1, <2>2, <2>3, HistoryKept
  <1>8. ASSUME NEW r \in Requests, BeginRecoverAcknowledgement(r)
        PROVE  SubmitShape' /\ ClickHistory'
    <2>1. AttemptsKept
      BY <1>0, <1>8 DEF BeginRecoverAcknowledgement, Begin, durable, AttemptsKept
    <2>2. clicks' = clicks /\ late' \subseteq late
      BY <1>8 DEF BeginRecoverAcknowledgement, Begin, browser
    <2>3. SubmitShape'
      BY <1>8 DEF BeginRecoverAcknowledgement, Begin, Running, Idle, SubmitShape
    <2> QED BY <2>1, <2>2, <2>3, HistoryKept
  <1>9. ASSUME NEW r \in Requests, NEW o \in Requests, BeginAuthorizedResend(o, r)
        PROVE  SubmitShape' /\ ClickHistory'
    <2>1. AttemptsKept
      BY <1>0, <1>9 DEF BeginAuthorizedResend, durable, AttemptsKept
    <2>2. clicks' = clicks /\ late' \subseteq late
      BY <1>9 DEF BeginAuthorizedResend, browser
    <2>3. SubmitShape'
      BY <1>9 DEF BeginAuthorizedResend, Running, Idle, SubmitShape
    <2> QED BY <2>1, <2>2, <2>3, HistoryKept
  <1>10. ASSUME NEW r \in Requests, BeginReopenResend(r)
        PROVE  SubmitShape' /\ ClickHistory'
    <2>1. AttemptsKept
      BY <1>0, <1>10 DEF BeginReopenResend, Begin, durable, AttemptsKept
    <2>2. clicks' = clicks /\ late' \subseteq late
      BY <1>10 DEF BeginReopenResend, Begin, browser
    <2>3. SubmitShape'
      BY <1>10 DEF BeginReopenResend, Begin, Running, Idle, SubmitShape
    <2> QED BY <2>1, <2>2, <2>3, HistoryKept
  <1>11. ASSUME NEW r \in Requests, BeginContinuation(r)
        PROVE  SubmitShape' /\ ClickHistory'
    <2>1. AttemptsKept
      BY <1>0, <1>11 DEF BeginContinuation, Begin, durable, AttemptsKept
    <2>2. clicks' = clicks /\ late' \subseteq late
      BY <1>11 DEF BeginContinuation, Begin, browser
    <2>3. SubmitShape'
      BY <1>11 DEF BeginContinuation, Begin, Running, Idle, SubmitShape
    <2> QED BY <2>1, <2>2, <2>3, HistoryKept
  <1>12. ASSUME NEW r \in Requests, BeginReconcile(r)
        PROVE  SubmitShape' /\ ClickHistory'
    <2>1. AttemptsKept
      BY <1>0, <1>12 DEF BeginReconcile, Begin, durable, AttemptsKept
    <2>2. clicks' = clicks /\ late' \subseteq late
      BY <1>12 DEF BeginReconcile, Begin, browser
    <2>3. SubmitShape'
      BY <1>12 DEF BeginReconcile, Begin, Running, Idle, SubmitShape
    <2> QED BY <2>1, <2>2, <2>3, HistoryKept
  <1>13. ASSUME NEW state \in {"observing", "complete"}, ObserveUpdate(state)
        PROVE  SubmitShape' /\ ClickHistory'
    <2>1. AttemptsKept
      BY <1>0, <1>13 DEF ObserveUpdate, durable, AttemptsKept
    <2>2. clicks' = clicks /\ late' \subseteq late
      BY <1>13 DEF ObserveUpdate, browser
    <2>3. SubmitShape'
      BY <1>0, <1>13 DEF ObserveUpdate, SubmitShape, durable, browser
    <2> QED BY <2>1, <2>2, <2>3, HistoryKept
  <1>14. CASE Stop
    <2>1. AttemptsKept
      BY <1>0, <1>14 DEF Stop, durable, AttemptsKept
    <2>2. clicks' = clicks /\ late' \subseteq late
      BY <1>14 DEF Stop, browser
    <2>3. SubmitShape'
      BY <1>0, <1>14 DEF Stop, SubmitShape, durable, browser
    <2> QED BY <2>1, <2>2, <2>3, HistoryKept
  <1>15. CASE RetireRole
    <2>1. AttemptsKept
      BY <1>0, <1>15 DEF RetireRole, LeaveRole, durable, AttemptsKept
    <2>2. clicks' = clicks /\ late' \subseteq late
      BY <1>15 DEF RetireRole, LeaveRole, browser
    <2>3. SubmitShape'
      BY <1>0, <1>15 DEF RetireRole, LeaveRole, SubmitShape, durable, browser
    <2> QED BY <2>1, <2>2, <2>3, HistoryKept
  <1>16. CASE ReplaceSession
    <2>1. AttemptsKept
      BY <1>0, <1>16 DEF ReplaceSession, LeaveRole, durable, AttemptsKept
    <2>2. clicks' = clicks /\ late' \subseteq late
      BY <1>16 DEF ReplaceSession, LeaveRole, browser
    <2>3. SubmitShape'
      BY <1>0, <1>16 DEF ReplaceSession, LeaveRole, SubmitShape, durable, browser
    <2> QED BY <2>1, <2>2, <2>3, HistoryKept
  <1>17. CASE BeginTeamDeletion \/ RetireDeletedConversation
    <2>1. AttemptsKept
      BY <1>0, <1>17 DEF BeginTeamDeletion, RetireDeletedConversation, AttemptsKept
    <2>2. clicks' = clicks /\ late' \subseteq late
      BY <1>17 DEF BeginTeamDeletion, RetireDeletedConversation, browser
    <2>3. SubmitShape'
      BY <1>0, <1>17 DEF BeginTeamDeletion, RetireDeletedConversation, SubmitShape, browser
    <2> QED BY <2>1, <2>2, <2>3, HistoryKept
  <1> QED BY <1>1, <1>2, <1>3, <1>4, <1>5, <1>6, <1>7, <1>8, <1>9, <1>10, <1>11, <1>12,
             <1>13, <1>14, <1>15, <1>16, <1>17 DEF BeginStep

\* The recovery of startCore makes attempts doubtful, never unattempted.
LEMMA BootStepClicks == ClickInv /\ BootStep => SubmitShape' /\ ClickHistory'
  <1> SUFFICES ASSUME ClickInv, BootStep PROVE SubmitShape' /\ ClickHistory'
    OBVIOUS
  <1>0. RowsOK /\ RestOK /\ SubmitShape /\ ClickHistory
    BY TypeParts DEF ClickInv, StoreOK
  <1>1. ASSUME NEW r \in Requests, KeepPreparation(r)
        PROVE  SubmitShape' /\ ClickHistory'
    <2>1. AttemptsKept
      BY <1>0, <1>1, InspectKeeps DEF KeepPreparation, RestOK, JobShape
    <2>2. clicks' = clicks /\ late' \subseteq late
      BY <1>1 DEF KeepPreparation, browser
    <2>3. SubmitShape'
      BY <1>0, <1>1 DEF KeepPreparation, SubmitShape, RestOK, JobShape, Idle
    <2> QED BY <2>1, <2>2, <2>3, HistoryKept
  <1>2. ASSUME NEW r \in Requests, FailInterrupted(r)
        PROVE  SubmitShape' /\ ClickHistory'
    <2>1. AttemptsKept
      BY <1>0, <1>2, FailPreSubmitKeeps DEF FailInterrupted, Interrupted, RestOK, JobShape,
         SubmitShape, Attempted
    <2>2. clicks' = clicks /\ late' \subseteq late
      BY <1>2 DEF FailInterrupted, Interrupted, browser
    <2>3. SubmitShape'
      BY <1>0, <1>2 DEF FailInterrupted, Interrupted, SubmitShape, RestOK, JobShape, Idle
    <2> QED BY <2>1, <2>2, <2>3, HistoryKept
  <1>3. ASSUME NEW r \in Requests, RecoverAttempted(r)
        PROVE  SubmitShape' /\ ClickHistory'
    <2>1. AttemptsKept
      BY <1>0, <1>3, RecordSubmissionUnknownKeeps DEF RecoverAttempted, RestOK, JobShape,
         SubmitShape, Attempted
    <2>2. clicks' = clicks /\ late' \subseteq late
      BY <1>3 DEF RecoverAttempted, browser
    <2>3. SubmitShape'
      BY <1>0, <1>3 DEF RecoverAttempted, SubmitShape, RestOK, JobShape, Idle
    <2> QED BY <2>1, <2>2, <2>3, HistoryKept
  <1>4. CASE PreSubmissionsRecovered
    <2>1. AttemptsKept
      BY <1>0, <1>4 DEF PreSubmissionsRecovered, durable, AttemptsKept
    <2>2. clicks' = clicks /\ late' \subseteq late
      BY <1>4 DEF PreSubmissionsRecovered, browser
    <2>3. SubmitShape'
      BY <1>0, <1>4 DEF PreSubmissionsRecovered, SubmitShape, durable, browser
    <2> QED BY <2>1, <2>2, <2>3, HistoryKept
  <1>5. CASE SubmissionsRecovered
    <2>1. AttemptsKept
      BY <1>0, <1>5 DEF SubmissionsRecovered, durable, AttemptsKept
    <2>2. clicks' = clicks /\ late' \subseteq late
      BY <1>5 DEF SubmissionsRecovered, browser
    <2>3. SubmitShape'
      BY <1>0, <1>5 DEF SubmissionsRecovered, SubmitShape, durable, browser
    <2> QED BY <2>1, <2>2, <2>3, HistoryKept
  <1> QED BY <1>1, <1>2, <1>3, <1>4, <1>5 DEF BootStep

\* A late command clicks for a request that was attempted and not clicked.
LEMMA BrowserStepClicks == ClickInv /\ BrowserStep => SubmitShape' /\ ClickHistory'
  <1> SUFFICES ASSUME ClickInv, BrowserStep PROVE SubmitShape' /\ ClickHistory'
    OBVIOUS
  <1>0. RowsOK /\ RestOK /\ SubmitShape /\ ClickHistory
    BY TypeParts DEF ClickInv, StoreOK
  <1>1. CASE DrainSettles
    <2>1. AttemptsKept
      BY <1>0, <1>1 DEF DrainSettles, durable, AttemptsKept
    <2>2. clicks' = clicks /\ late' \subseteq late
      BY <1>1 DEF DrainSettles, browser
    <2>3. SubmitShape'
      BY <1>0, <1>1 DEF DrainSettles, SubmitShape, durable, browser
    <2> QED BY <2>1, <2>2, <2>3, HistoryKept
  <1>2. ASSUME NEW r \in Requests, LateClick(r)
        PROVE  SubmitShape' /\ ClickHistory'
    <2>1. /\ outbox' = outbox /\ job' = job /\ late' = late \ {r} /\ r \in late
          /\ clicks' = [clicks EXCEPT ![r] = @ + 1]
      BY <1>2 DEF LateClick, ClickSend, durable
    <2>2. ClickHistory'
      BY <1>0, <2>1 DEF ClickHistory, RestOK
    <2>3. SubmitShape'
      BY <1>0, <2>1 DEF SubmitShape, RestOK
    <2> QED BY <2>2, <2>3
  <1>3. ASSUME NEW r \in Requests, LateCommandFails(r)
        PROVE  SubmitShape' /\ ClickHistory'
    <2>1. AttemptsKept
      BY <1>0, <1>3 DEF LateCommandFails, durable, AttemptsKept
    <2>2. clicks' = clicks /\ late' \subseteq late
      BY <1>3 DEF LateCommandFails, browser
    <2>3. SubmitShape'
      BY <1>0, <1>3 DEF LateCommandFails, SubmitShape, durable, browser
    <2> QED BY <2>1, <2>2, <2>3, HistoryKept
  <1> QED BY <1>1, <1>2, <1>3 DEF BrowserStep

\* A crash leaves at most the click that was already handed to the browser.
LEMMA CrashClicks == ClickInv /\ (RetireActor \/ Crash) => SubmitShape' /\ ClickHistory'
  <1> SUFFICES ASSUME ClickInv, RetireActor \/ Crash PROVE SubmitShape' /\ ClickHistory'
    OBVIOUS
  <1>0. RestOK /\ SubmitShape /\ ClickHistory
    BY TypeParts DEF ClickInv
  <1>1. CASE RetireActor
    BY <1>0, <1>1 DEF RetireActor, SubmitShape, ClickHistory, durable, browser
  <1>2. CASE Crash
    <2>1. job' = Idle /\ outbox' = outbox /\ clicks' = clicks
      BY <1>2 DEF Crash, durable
    <2>2. \A r \in late' : r \in late \/ (At("click") /\ r = job.req)
      BY <1>2 DEF Crash
    <2>3. \A r \in late' : r \in Requests =>
              clicks[r] = 0 /\ outbox[r].state \in Attempted
      BY <1>0, <2>2 DEF ClickHistory, SubmitShape, At, Attempted
    <2> QED BY <1>0, <2>1, <2>3 DEF SubmitShape, ClickHistory, Idle
  <1> QED BY <1>1, <1>2

\* The invariant behind the properties of clicks.
THEOREM ClickInvariant == Spec => []ClickInv
  <1>1. Init => ClickInv
    BY InitTyped DEF Init, ClickInv, SubmitShape, ClickHistory, Idle
  <1>2. ClickInv /\ UNCHANGED vars => SubmitShape' /\ ClickHistory'
    BY DEF ClickInv, SubmitShape, ClickHistory, vars
  <1>3. ClickInv /\ [Next]_vars => SubmitShape' /\ ClickHistory'
    BY <1>2, SubmitStepClicks, PageStepClicks, BeginStepClicks, BootStepClicks,
       BrowserStepClicks, CrashClicks DEF Next
  <1>4. TypeInv /\ TypeInv' /\ ClickInv /\ [Next]_vars => ClickInv'
    BY <1>3 DEF ClickInv
  <1> QED BY <1>1, <1>4, TypeInvariant, PTL DEF Spec

\* Send is clicked at most once for a request, whatever timeouts, replays,
\* re-openings, late commands and restarts happen to it (send, #replay).
THEOREM ClickedOnce == Spec => []AtMostOneClick
  <1>1. ClickInv => AtMostOneClick
    BY DEF ClickInv, ClickHistory, AtMostOneClick
  <1> QED BY ClickInvariant, <1>1, PTL

\* A request reported as unsubmitted was not clicked and cannot be any more:
\* what failPreSubmit, the re-openings and the boot recovery rely on.
THEOREM UnattemptedUntouched == Spec => []UnattemptedIsUntouched
  <1>1. ClickInv => UnattemptedIsUntouched
    BY DEF ClickInv, ClickHistory, SubmitShape, UnattemptedIsUntouched, At, Attempted
  <1> QED BY ClickInvariant, <1>1, PTL
=============================================================================
