--------------------------- MODULE PipelineProofs ---------------------------
(***************************************************************************)
(* More proofs about the submission pipeline: only the current generation  *)
(* is unfinished, a delivered message belongs to one generation, a session *)
(* taken from its role never starts to click, a restart keeps a            *)
(* pending preparation, the pipeline implements AtMostOnceSend, and no     *)
(* attempt is left without an owner.                                       *)
(***************************************************************************)
EXTENDS SubmissionProofs

Settled == {"none", "submitted", "submission_unknown", "failed_pre_submit"}

\* What the session's state says of its current row, and a reason or a
\* message of any row.
GenerationShape ==
    /\ session.state = "created" => session.request = NoRequest
    /\ session.state = "ready" =>
           session.request # NoRequest /\ outbox[session.request].state = "failed_pre_submit"
    /\ session.state = "complete" =>
           session.request # NoRequest /\ outbox[session.request].state = "submitted"
    /\ \A r \in Requests :
           outbox[r].reason # "none" \/ outbox[r].message # NoRequest =>
               outbox[r].state = "submitted"

Data == GenerationShape /\ OlderGenerationsSettled /\ MessageOwnedOnce

\* What an operation found when it began still holds while it runs.
RunNeeds ==
    /\ job.kind = "resend" => outbox[job.req].state \in {"submission_unknown", "submitted"}
    /\ job.kind \in {"continue", "reconcile"} => outbox[job.req].state = "submitted"
    /\ job.kind = "recover" => outbox[job.req].state = "submission_unknown"
    /\ job.kind = "submit" => job.req = session.request

\* A session taken from its role during the last verification is terminal, and
\* its actor, if there is one, has been told.
RetiredRun ==
    job.kind = "submit" /\ job.pc \in {"verify", "filled"} /\ session.role = "gone" =>
        /\ session.state \in TerminalStates
        /\ view = NoActor \/ (view.request = session.request /\ Terminal(view))

GenerationInv == Data /\ RunNeeds /\ RetiredRun

-----------------------------------------------------------------------------
(* What the transactions do to the columns these properties read.          *)

Same(r) == /\ outbox'[r].state = outbox[r].state /\ outbox'[r].reason = outbox[r].reason
           /\ outbox'[r].message = outbox[r].message

Quiet == /\ \A r \in Requests : Same(r)
         /\ session'.request = session.request /\ session'.state = session.state

Writes(r, state, sessionState) ==
    /\ r = session.request
    /\ \A s \in Requests \ {r} : outbox'[s] = outbox[s]
    /\ outbox'[r].state = state
    /\ outbox'[r].reason = outbox[r].reason
    /\ outbox'[r].message = outbox[r].message
    /\ session'.request = session.request /\ session'.state = sessionState

\* A row keeps what a transaction does not name.
LEMMA WriteEffect ==
    ASSUME RowsOK, SessionOK, NEW r \in Requests, NEW row \in Row, NEW state \in SessionStates,
           row.reason = outbox[r].reason, row.message = outbox[r].message, Write(r, row, state)
    PROVE  Writes(r, row.state, state)
  BY DEF RowsOK, SessionOK, Write, Writes

LEMMA FailPreSubmitEffect ==
    ASSUME RowsOK, SessionOK, NEW r \in Requests,
           NEW error \in {"browser-unavailable", "other"}, FailPreSubmit(r, error)
    PROVE  Writes(r, "failed_pre_submit", "ready")
  <1> DEFINE row == [outbox[r] EXCEPT !.state = "failed_pre_submit",
                                      !.error = error, !.inspect = FALSE]
  <1>1. outbox[r] \in Row
    BY DEF RowsOK
  <1>2. /\ row \in Row /\ row.state = "failed_pre_submit"
        /\ row.reason = outbox[r].reason /\ row.message = outbox[r].message
    BY <1>1 DEF Row, SubmissionStates, Maybe
  <1>3. Write(r, row, "ready")
    BY DEF FailPreSubmit
  <1> HIDE DEF row
  <1>4. "ready" \in SessionStates
    BY DEF SessionStates
  <1> QED BY <1>2, <1>3, <1>4, WriteEffect

LEMMA RecordPreparationRequiredEffect ==
    ASSUME RowsOK, SessionOK, NEW r \in Requests, RecordPreparationRequired(r)
    PROVE  Writes(r, outbox[r].state, session.state)
  <1> DEFINE row == [outbox[r] EXCEPT !.error = "preparation-required", !.inspect = FALSE]
  <1>1. outbox[r] \in Row
    BY DEF RowsOK
  <1>2. /\ row \in Row /\ row.state = outbox[r].state
        /\ row.reason = outbox[r].reason /\ row.message = outbox[r].message
    BY <1>1 DEF Row, SubmissionStates, Maybe
  <1>3. Write(r, row, session.state)
    BY DEF RecordPreparationRequired
  <1> HIDE DEF row
  <1>4. session.state \in SessionStates
    BY DEF SessionOK
  <1> QED BY <1>2, <1>3, <1>4, WriteEffect

LEMMA RecordSubmissionUnknownEffect ==
    ASSUME RowsOK, SessionOK, NEW r \in Requests, RecordSubmissionUnknown(r)
    PROVE  Writes(r, "submission_unknown",
                  IF session.state \in TerminalStates THEN session.state ELSE "observing")
  <1> DEFINE row == [outbox[r] EXCEPT !.state = "submission_unknown", !.error = "other"]
  <1> DEFINE state == IF session.state \in TerminalStates THEN session.state ELSE "observing"
  <1>1. outbox[r] \in Row
    BY DEF RowsOK
  <1>2. /\ row \in Row /\ row.state = "submission_unknown"
        /\ row.reason = outbox[r].reason /\ row.message = outbox[r].message
    BY <1>1 DEF Row, SubmissionStates, Maybe
  <1>3. Write(r, row, state)
    BY DEF RecordSubmissionUnknown
  <1>4. state \in SessionStates
    BY DEF SessionOK, SessionStates
  <1> HIDE DEF row, state
  <1>5. Writes(r, row.state, state)
    BY <1>2, <1>3, <1>4, WriteEffect
  <1> QED BY <1>2, <1>5 DEF state

LEMMA FillComposerEffect ==
    ASSUME RowsOK, SessionOK, job.req \in Requests, FillComposer
    PROVE  Writes(job.req, "composer_filled", session.state)
  <1> DEFINE row == [outbox[job.req] EXCEPT !.state = "composer_filled",
                                            !.error = "none", !.inspect = FALSE]
  <1>1. outbox[job.req] \in Row
    BY DEF RowsOK
  <1>2. /\ row \in Row /\ row.state = "composer_filled"
        /\ row.reason = outbox[job.req].reason /\ row.message = outbox[job.req].message
    BY <1>1 DEF Row, SubmissionStates, Maybe
  <1>3. Write(job.req, row, session.state)
    BY DEF FillComposer
  <1>4. session.state \in SessionStates
    BY DEF SessionOK
  <1> HIDE DEF row
  <1> QED BY <1>2, <1>3, <1>4, WriteEffect

LEMMA RecordAttemptEffect ==
    ASSUME RowsOK, SessionOK, job.req \in Requests, RecordAttempt
    PROVE  Writes(job.req, "submit_attempted", "submitting")
  <1> DEFINE row == [outbox[job.req] EXCEPT !.state = "submit_attempted"]
  <1>1. outbox[job.req] \in Row
    BY DEF RowsOK
  <1>2. /\ row \in Row /\ row.state = "submit_attempted"
        /\ row.reason = outbox[job.req].reason /\ row.message = outbox[job.req].message
    BY <1>1 DEF Row, SubmissionStates, Maybe
  <1>3. Write(job.req, row, "submitting") /\ "submitting" \in SessionStates
    BY DEF RecordAttempt, SessionStates
  <1> HIDE DEF row
  <1> QED BY <1>2, <1>3, WriteEffect

LEMMA ReopenEffect ==
    ASSUME RowsOK, SessionOK, NEW r \in Requests, NEW inspect \in BOOLEAN, Reopen(r, inspect)
    PROVE  Writes(r, "prepared", "submitting") /\ outbox[r].state = "failed_pre_submit"
  <1> DEFINE row == [outbox[r] EXCEPT !.state = "prepared",
                                      !.error = "preparation-required", !.inspect = inspect]
  <1>1. outbox[r] \in Row
    BY DEF RowsOK
  <1>2. /\ row \in Row /\ row.state = "prepared"
        /\ row.reason = outbox[r].reason /\ row.message = outbox[r].message
    BY <1>1 DEF Row, SubmissionStates, Maybe
  <1>3. Write(r, row, "submitting") /\ "submitting" \in SessionStates
    BY DEF Reopen, SessionStates
  <1> HIDE DEF row
  <1>4. Writes(r, "prepared", "submitting")
    BY <1>2, <1>3, WriteEffect
  <1> QED BY <1>4 DEF Reopen

\* The inspection flag is read by none of the properties.
LEMMA InspectQuiet ==
    ASSUME RowsOK, NEW r \in Requests, NEW b, outbox' = [outbox EXCEPT ![r].inspect = b],
           session' = session
    PROVE  Quiet
  BY DEF RowsOK, Row, Quiet, Same

\* The acknowledgement binds its message to the row (#completeSubmitted).
LEMMA AcknowledgeEffect ==
    ASSUME RowsOK, SessionOK, NEW r \in Requests, NEW m \in Requests, Acknowledge(r, m)
    PROVE  /\ r = session.request
           /\ \A s \in Requests \ {r} : outbox'[s] = outbox[s]
           /\ outbox'[r].state = "submitted" /\ outbox'[r].message = m
           /\ session'.request = session.request /\ session'.state = "submitted"
  <1> DEFINE row == [outbox[r] EXCEPT !.state = "submitted", !.error = "none", !.message = m]
  <1>1. outbox[r] \in Row
    BY DEF RowsOK
  <1>2. row.state = "submitted" /\ row.message = m
    BY <1>1 DEF Row
  <1>3. Write(r, row, "submitted")
    BY DEF Acknowledge
  <1> HIDE DEF row
  <1> QED BY <1>2, <1>3 DEF Write, RowsOK, SessionOK

\* Closing a generation sets its reason and the session's state.
LEMMA CloseEffect ==
    ASSUME RowsOK, SessionOK, NEW r \in Requests, NEW reason, NEW state,
           Write(r, [outbox[r] EXCEPT !.reason = reason], state)
    PROVE  /\ r = session.request
           /\ \A s \in Requests \ {r} : outbox'[s] = outbox[s]
           /\ outbox'[r].state = outbox[r].state /\ outbox'[r].message = outbox[r].message
           /\ session'.request = session.request /\ session'.state = state
  <1> DEFINE row == [outbox[r] EXCEPT !.reason = reason]
  <1>1. outbox[r] \in Row
    BY DEF RowsOK
  <1>2. row.state = outbox[r].state /\ row.message = outbox[r].message
    BY <1>1 DEF Row
  <1> HIDE DEF row
  <1> QED BY <1>2 DEF Write, RowsOK, SessionOK

\* A new generation starts prepared, without a reason or a message.
LEMMA InsertEffect ==
    ASSUME RowsOK, SessionOK, NEW r \in Requests, NEW kind, NEW origin, NEW error,
           InsertOutbox(r, kind, origin, error)
    PROVE  /\ outbox[r].state = "none" /\ RoleIsCurrent
           /\ \A s \in Requests \ {r} : outbox'[s] = outbox[s]
           /\ outbox'[r].state = "prepared" /\ outbox'[r].reason = "none"
           /\ outbox'[r].message = NoRequest
           /\ session'.request = r /\ session'.state = "submitting"
           /\ session'.role = session.role
  <1> DEFINE row == [NoRow EXCEPT !.state = "prepared", !.kind = kind, !.origin = origin,
                                  !.prior = session.request, !.error = error]
  <1>1. row.state = "prepared" /\ row.reason = "none" /\ row.message = NoRequest
    BY DEF NoRow
  <1>2. /\ outbox' = [outbox EXCEPT ![r] = row]
        /\ outbox[r].state = "none" /\ RoleIsCurrent
        /\ session' = [session EXCEPT !.request = r, !.state = "submitting"]
    BY DEF InsertOutbox
  <1> HIDE DEF row
  <1> QED BY <1>1, <1>2 DEF RowsOK, SessionOK

-----------------------------------------------------------------------------
(* Which of these effects preserve the properties of the data.             *)

\* A step that touches none of these columns.
LEMMA QuietKeeps == Data /\ RowsOK /\ SessionOK /\ Quiet => Data'
  <1> SUFFICES ASSUME Data, RowsOK, SessionOK, Quiet PROVE Data'
    OBVIOUS
  <1>1. session.request \in Requests \/ session.request = NoRequest
    BY DEF SessionOK, Maybe
  <1>2. GenerationShape'
    BY <1>1 DEF Data, Quiet, Same, GenerationShape
  <1>3. OlderGenerationsSettled'
    BY DEF Data, Quiet, Same, OlderGenerationsSettled
  <1>4. MessageOwnedOnce'
    BY DEF Data, Quiet, Same, MessageOwnedOnce
  <1> QED BY <1>2, <1>3, <1>4 DEF Data

\* A write of the current generation, in states that agree with each other.
LEMMA WritesKeeps ==
    ASSUME Data, NEW r \in Requests, NEW state, NEW sessionState,
           Writes(r, state, sessionState), sessionState # "created",
           sessionState = "ready" => state = "failed_pre_submit",
           sessionState = "complete" => state = "submitted",
           outbox[r].reason # "none" \/ outbox[r].message # NoRequest => state = "submitted"
    PROVE  Data'
  <1>1. r # NoRequest
    BY NoRequestIsNoRequest
  <1>2. GenerationShape'
    BY <1>1 DEF Data, Writes, GenerationShape
  <1>3. OlderGenerationsSettled'
    BY DEF Data, Writes, OlderGenerationsSettled
  <1>4. \A s \in Requests : outbox'[s].message = outbox[s].message
    BY DEF Writes
  <1>5. MessageOwnedOnce'
    BY <1>4 DEF Data, MessageOwnedOnce
  <1> QED BY <1>2, <1>3, <1>5 DEF Data

\* An unfinished row of the current generation has no reason to be reopened or
\* closed, and its session is not created, ready or complete.
LEMMA UnfinishedFacts ==
    ASSUME Data, session.request \in Requests,
           outbox[session.request].state \notin {"submitted", "failed_pre_submit"}
    PROVE  /\ session.state \notin {"created", "ready", "complete"}
           /\ outbox[session.request].reason = "none"
           /\ outbox[session.request].message = NoRequest
  BY NoRequestIsNoRequest DEF Data, GenerationShape

\* The transactions of an unfinished row.
LEMMA UnfinishedKeeps ==
    ASSUME Data, RowsOK, SessionOK, NEW r \in Requests,
           outbox[r].state \notin {"submitted", "failed_pre_submit"},
           \/ \E error \in {"browser-unavailable", "other"} : FailPreSubmit(r, error)
           \/ RecordPreparationRequired(r)
           \/ RecordSubmissionUnknown(r)
    PROVE  Data'
  <1>1. r = session.request
    BY DEF FailPreSubmit, RecordPreparationRequired, RecordSubmissionUnknown, Write
  <1>2. /\ session.state \notin {"created", "ready", "complete"}
        /\ outbox[r].reason = "none" /\ outbox[r].message = NoRequest
    BY <1>1, UnfinishedFacts
  <1>3. ASSUME NEW error \in {"browser-unavailable", "other"}, FailPreSubmit(r, error)
        PROVE  Data'
    <2>1. Writes(r, "failed_pre_submit", "ready")
      BY <1>3, FailPreSubmitEffect
    <2> QED BY <1>2, <2>1, WritesKeeps
  <1>4. CASE RecordPreparationRequired(r)
    <2>1. Writes(r, outbox[r].state, session.state)
      BY <1>4, RecordPreparationRequiredEffect
    <2> QED BY <1>2, <2>1, WritesKeeps
  <1>5. CASE RecordSubmissionUnknown(r)
    <2> DEFINE state == IF session.state \in TerminalStates THEN session.state ELSE "observing"
    <2>1. Writes(r, "submission_unknown", state)
      BY <1>5, RecordSubmissionUnknownEffect
    <2>2. state \notin {"created", "ready", "complete"}
      BY <1>2
    <2> HIDE DEF state
    <2> QED BY <1>2, <2>1, <2>2, WritesKeeps
  <1> QED BY <1>3, <1>4, <1>5

\* Re-opening what failed before submission.
LEMMA ReopenKeepsData ==
    ASSUME Data, RowsOK, SessionOK, NEW r \in Requests, NEW inspect \in BOOLEAN,
           Reopen(r, inspect)
    PROVE  Data'
  <1>1. Writes(r, "prepared", "submitting") /\ outbox[r].state = "failed_pre_submit"
    BY ReopenEffect
  <1>2. outbox[r].reason = "none" /\ outbox[r].message = NoRequest
    BY <1>1 DEF Data, GenerationShape
  <1> QED BY <1>1, <1>2, WritesKeeps

\* An acknowledgement with a message nobody owns.
LEMMA AcknowledgeKeepsData ==
    ASSUME Data, RowsOK, SessionOK, NEW r \in Requests, NEW m \in Requests,
           Acknowledge(r, m), ~Owned(m)
    PROVE  Data'
  <1>1. /\ r = session.request
        /\ \A s \in Requests \ {r} : outbox'[s] = outbox[s]
        /\ outbox'[r].state = "submitted" /\ outbox'[r].message = m
        /\ session'.request = session.request /\ session'.state = "submitted"
    BY AcknowledgeEffect
  <1>2. GenerationShape'
    BY <1>1 DEF Data, GenerationShape
  <1>3. OlderGenerationsSettled'
    BY <1>1 DEF Data, OlderGenerationsSettled
  <1>4. MessageOwnedOnce'
    BY <1>1 DEF Data, MessageOwnedOnce, Owned
  <1> QED BY <1>2, <1>3, <1>4 DEF Data

\* Closing a submitted generation.
LEMMA CloseKeepsData ==
    ASSUME Data, RowsOK, SessionOK, NEW r \in Requests, NEW reason,
           NEW state \in {"cancelled", "failed"}, outbox[r].state = "submitted",
           Write(r, [outbox[r] EXCEPT !.reason = reason], state)
    PROVE  Data'
  <1>1. /\ r = session.request
        /\ \A s \in Requests \ {r} : outbox'[s] = outbox[s]
        /\ outbox'[r].state = outbox[r].state /\ outbox'[r].message = outbox[r].message
        /\ session'.request = session.request /\ session'.state = state
    BY CloseEffect
  <1>2. GenerationShape'
    BY <1>1 DEF Data, GenerationShape
  <1>3. OlderGenerationsSettled'
    BY <1>1 DEF Data, OlderGenerationsSettled
  <1>4. \A s \in Requests : outbox'[s].message = outbox[s].message
    BY <1>1
  <1>5. MessageOwnedOnce'
    BY <1>4 DEF Data, MessageOwnedOnce
  <1> QED BY <1>2, <1>3, <1>5 DEF Data

\* A new generation may start once the current one is settled.
LEMMA InsertKeeps ==
    ASSUME Data, RowsOK, SessionOK, NEW r \in Requests, NEW kind, NEW origin, NEW error,
           InsertOutbox(r, kind, origin, error),
           session.request \in Requests => outbox[session.request].state \in Settled
    PROVE  Data'
  <1>1. /\ \A s \in Requests \ {r} : outbox'[s] = outbox[s]
        /\ outbox'[r].state = "prepared" /\ outbox'[r].reason = "none"
        /\ outbox'[r].message = NoRequest
        /\ session'.request = r /\ session'.state = "submitting"
    BY InsertEffect
  <1>2. GenerationShape'
    BY <1>1 DEF Data, GenerationShape
  <1>3. OlderGenerationsSettled'
    BY <1>1 DEF Data, OlderGenerationsSettled, Settled
  <1>4. MessageOwnedOnce'
    BY <1>1 DEF Data, MessageOwnedOnce
  <1> QED BY <1>2, <1>3, <1>4 DEF Data

\* What #prepareOutbox accepts on top of is settled.
LEMMA AcceptsSettled ==
    ASSUME Data, NEW origin, Accepts(origin), session.request \in Requests
    PROVE  outbox[session.request].state \in Settled
  <1>1. session.request # NoRequest
    BY NoRequestIsNoRequest
  <1>2. CASE session.state \in {"created", "ready", "complete"}
    BY <1>1, <1>2 DEF Data, GenerationShape, Settled
  <1>3. CASE session.state \notin {"created", "ready", "complete"}
    <2>1. outbox[session.request].reason # "none"
      BY <1>1, <1>3 DEF Accepts
    <2> QED BY <2>1 DEF Data, GenerationShape, Settled
  <1> QED BY <1>2, <1>3

-----------------------------------------------------------------------------
(* The running operation.                                                  *)

\* Nothing is asked of an actor between operations.
LEMMA NothingRuns == job' = Idle => RunNeeds' /\ RetiredRun'
  BY DEF Idle, RunNeeds, RetiredRun

\* Steps that leave the operation, the rows and the session alone.
LEMMA RunStays ==
    ASSUME RestOK, RunNeeds, job' = job, Quiet
    PROVE  RunNeeds'
  BY DEF RestOK, JobShape, RunNeeds, Quiet, Same

\* A submission moves on within the generation it was started for.
LEMMA SubmissionMoves ==
    ASSUME RestOK, RunNeeds, job.kind = "submit", NEW pc \in Pcs, Goto(pc),
           session'.request = session.request
    PROVE  /\ RunNeeds' /\ job'.kind = "submit" /\ job'.pc = pc
           /\ pc \notin {"verify", "filled"} => RetiredRun'
  <1>1. job'.kind = job.kind /\ job'.req = job.req /\ job'.pc = pc
    BY DEF RestOK, Job, Goto
  <1>2. RunNeeds'
    BY <1>1 DEF RunNeeds
  <1>3. pc \notin {"verify", "filled"} => RetiredRun'
    BY <1>1 DEF RetiredRun
  <1> QED BY <1>1, <1>2, <1>3

\* A publication of a terminal snapshot is never refused.
LEMMA TerminalPublishes ==
    ASSUME Publish, session'.state \in TerminalStates
    PROVE  view'.request = session'.request /\ Terminal(view)'
  <1>1. Snapshot'.state = session'.state /\ Snapshot'.request = session'.request
    BY DEF Snapshot
  <1>2. Terminal(Snapshot')
    BY <1>1 DEF Terminal
  <1>3. view' = Snapshot'
    BY <1>2 DEF Publish, Downgraded
  <1> QED BY <1>1, <1>2, <1>3 DEF Terminal

\* The rows of a submission that has not been acknowledged yet.
LEMMA SubmissionUnfinished ==
    ASSUME RestOK, SubmitShape, RunNeeds, job.kind = "submit", job # Idle
    PROVE  /\ job.req \in Requests /\ job.req = session.request
           /\ outbox[job.req].state \notin {"submitted", "failed_pre_submit"}
  <1>1. job.req \in Requests /\ job.req = session.request /\ job.pc # "idle"
    BY DEF RestOK, JobShape, RunNeeds
  <1>2. job.pc \in {"open", "lock", "prepare", "verify", "filled", "click", "clicked", "ack"}
    BY <1>1 DEF RestOK, Job, Pcs, SubmitShape
  <1> QED BY <1>1, <1>2 DEF SubmitShape

\* A filled composer keeps what is known of a retired role.
LEMMA FillComposerGeneration ==
    ASSUME ClickInv, GenerationInv, job.kind = "submit", job.pc \in {"prepare", "verify"},
           job.pc = "prepare" => RoleIsCurrent, FillComposer
    PROVE  GenerationInv'
  <1>0. RowsOK /\ SessionOK /\ RestOK /\ SubmitShape /\ Data /\ RunNeeds /\ RetiredRun
    BY TypeParts DEF ClickInv, StoreOK, GenerationInv
  <1>1. /\ job.req \in Requests /\ job.req = session.request
        /\ outbox[job.req].state = "prepared"
    BY <1>0, SubmissionUnfinished DEF Idle, SubmitShape
  <1>2. Writes(job.req, "composer_filled", session.state)
    BY <1>0, <1>1, FillComposerEffect
  <1>3. /\ session.state \notin {"created", "ready", "complete"}
        /\ outbox[job.req].reason = "none" /\ outbox[job.req].message = NoRequest
    BY <1>0, <1>1, UnfinishedFacts
  <1>4. Data'
    BY <1>0, <1>1, <1>2, <1>3, WritesKeeps
  <1>5. session'.request = session.request /\ session'.state = session.state
    BY <1>2 DEF Writes
  <1>6. session'.role = session.role
    BY <1>0 DEF FillComposer, Write, SessionOK
  <1>7. RunNeeds'
    BY <1>0, <1>5, SubmissionMoves DEF FillComposer, Pcs
  <1>8. session'.role = "gone" => RetiredRun'
    <2> SUFFICES ASSUME session'.role = "gone" PROVE RetiredRun'
      OBVIOUS
    <2>1. job.pc = "verify" /\ session.role = "gone"
      BY <1>6 DEF RoleIsCurrent
    <2>2. session'.state \in TerminalStates
      BY <1>0, <1>5, <2>1 DEF RetiredRun
    <2>3. view'.request = session'.request /\ Terminal(view)'
      BY <2>2, TerminalPublishes DEF FillComposer
    <2> QED BY <2>2, <2>3 DEF RetiredRun
  <1>9. session'.role # "gone" => RetiredRun'
    BY DEF RetiredRun
  <1> QED BY <1>4, <1>7, <1>8, <1>9 DEF GenerationInv

\* The recorded attempt, published or refused.
LEMMA RecordAttemptGeneration ==
    ASSUME ClickInv, GenerationInv, RecordAttempt
    PROVE  GenerationInv' /\ (At("click")' => session.role # "gone")
  <1>0. RowsOK /\ SessionOK /\ RestOK /\ SubmitShape /\ Data /\ RunNeeds /\ RetiredRun
    BY TypeParts DEF ClickInv, StoreOK, GenerationInv
  <1>1. /\ job.kind = "submit" /\ job.pc = "filled"
        /\ job.req \in Requests /\ job.req = session.request
        /\ outbox[job.req].state = "composer_filled"
    BY <1>0, SubmissionUnfinished DEF RecordAttempt, At, Idle, SubmitShape
  <1>2. Writes(job.req, "submit_attempted", "submitting")
    BY <1>0, <1>1, RecordAttemptEffect
  <1>3. outbox[job.req].reason = "none" /\ outbox[job.req].message = NoRequest
    BY <1>0, <1>1, UnfinishedFacts
  <1>4. Data'
    BY <1>0, <1>1, <1>2, <1>3, WritesKeeps
  <1>5. session'.request = session.request /\ session'.state = "submitting"
    BY <1>2 DEF Writes
  <1>6. RunNeeds' /\ RetiredRun'
    <2>1. CASE job' = Idle
      BY <2>1, NothingRuns
    <2>2. CASE Goto("click")
      BY <1>0, <1>1, <1>5, <2>2, SubmissionMoves DEF Pcs
    <2> QED BY <2>1, <2>2 DEF RecordAttempt
  <1>7. session.role = "gone" => Downgraded
    <2> SUFFICES ASSUME session.role = "gone" PROVE Downgraded
      OBVIOUS
    <2>1. /\ session.state \in TerminalStates
          /\ view = NoActor \/ (view.request = session.request /\ Terminal(view))
      BY <1>0, <1>1 DEF RetiredRun
    <2>2. Attached.request = session.request /\ Terminal(Attached)
      BY <2>1 DEF Attached, Snapshot, Terminal
    <2>3. outbox'[session'.request].state = "submit_attempted" /\ session'.request # NoRequest
      BY <1>1, <1>2, <1>5, NoRequestIsNoRequest DEF Writes
    <2>4. /\ Snapshot'.request = session.request /\ Snapshot'.state = "submitting"
          /\ Snapshot'.submission = "submit_attempted"
      BY <1>5, <2>3 DEF Snapshot
    <2>5. ~Terminal(Snapshot')
      BY <2>4 DEF Terminal, TerminalStates
    <2> QED BY <2>2, <2>4, <2>5 DEF Downgraded
  <1>8. Downgraded => ~At("click")'
    BY DEF RecordAttempt, At, Idle
  <1> QED BY <1>4, <1>6, <1>7, <1>8 DEF GenerationInv

-----------------------------------------------------------------------------
(* The invariant is preserved: one step per action.                        *)

\* A step of the submission that leaves the rows and the session alone.
LEMMA QuietSubmission ==
    ASSUME ClickInv, GenerationInv, job.kind = "submit", Quiet,
           NEW pc \in Pcs, job' = Idle \/ Goto(pc),
           pc \in {"verify", "filled"} => session'.role # "gone"
    PROVE  GenerationInv'
  <1>0. RowsOK /\ SessionOK /\ RestOK /\ Data /\ RunNeeds
    BY TypeParts DEF ClickInv, StoreOK, GenerationInv
  <1>1. Data'
    BY <1>0, QuietKeeps
  <1>2. CASE job' = Idle
    BY <1>1, <1>2, NothingRuns DEF GenerationInv
  <1>3. CASE Goto(pc)
    <2>1. session'.request = session.request
      BY DEF Quiet
    <2>2. RunNeeds' /\ (pc \notin {"verify", "filled"} => RetiredRun')
      BY <1>0, <1>3, <2>1, SubmissionMoves
    <2>3. session'.role # "gone" => RetiredRun'
      BY DEF RetiredRun
    <2> QED BY <1>1, <2>2, <2>3 DEF GenerationInv
  <1> QED BY <1>2, <1>3

\* A submission that ends by a failure, a decision to take or a doubt.
LEMMA SubmissionEnds ==
    ASSUME ClickInv, GenerationInv, job.kind = "submit", job.pc # "idle", job' = Idle,
           \/ \E error \in {"browser-unavailable", "other"} : FailPreSubmit(job.req, error)
           \/ RecordPreparationRequired(job.req)
           \/ RecordSubmissionUnknown(job.req)
    PROVE  GenerationInv'
  <1>0. RowsOK /\ SessionOK /\ RestOK /\ SubmitShape /\ Data /\ RunNeeds
    BY TypeParts DEF ClickInv, StoreOK, GenerationInv
  <1>1. /\ job.req \in Requests
        /\ outbox[job.req].state \notin {"submitted", "failed_pre_submit"}
    BY <1>0, SubmissionUnfinished DEF Idle
  <1>2. Data'
    BY <1>0, <1>1, UnfinishedKeeps
  <1> QED BY <1>2, NothingRuns DEF GenerationInv

\* The steps of a running submission (#runPreparedSubmission).
LEMMA SubmitStepGeneration == ClickInv /\ GenerationInv /\ SubmitStep => GenerationInv'
  <1> SUFFICES ASSUME ClickInv, GenerationInv, SubmitStep PROVE GenerationInv'
    OBVIOUS
  <1>0. RowsOK /\ SessionOK /\ RestOK /\ SubmitShape /\ Data /\ RunNeeds
    BY TypeParts DEF ClickInv, StoreOK, GenerationInv
  <1>q. UNCHANGED durable => Quiet
    BY DEF durable, Quiet, Same
  <1>1. CASE OpenOk
    BY <1>1, <1>q, QuietSubmission DEF OpenOk, At, Pcs
  <1>2. CASE OpenNeedsDecision
    BY <1>2, SubmissionEnds DEF OpenNeedsDecision, At
  <1>3. CASE EnterPrepare
    BY <1>3, <1>q, QuietSubmission DEF EnterPrepare, At, Pcs
  <1>4. CASE PrepareOk
    BY <1>4, FillComposerGeneration DEF PrepareOk, At
  <1>5. CASE PrepareThenVerify
    <2>1. session'.role # "gone"
      BY <1>5 DEF PrepareThenVerify, RoleIsCurrent, durable
    <2> QED BY <1>5, <1>q, <2>1, QuietSubmission DEF PrepareThenVerify, At, Pcs
  <1>6. CASE VerifyOk
    BY <1>6, FillComposerGeneration DEF VerifyOk, At
  <1>7. CASE PreparationNeedsDecision
    BY <1>7, SubmissionEnds DEF PreparationNeedsDecision, At
  <1>8. CASE PrepareTimesOut
    BY <1>8, SubmissionEnds DEF PrepareTimesOut, At
  <1>9. ASSUME NEW error \in {"browser-unavailable", "other"}, OpenFails(error)
        PROVE  GenerationInv'
    BY <1>9, SubmissionEnds DEF OpenFails, At
  <1>10. ASSUME NEW error \in {"browser-unavailable", "other"}, PreparationFails(error)
         PROVE  GenerationInv'
    BY <1>10, SubmissionEnds DEF PreparationFails, At
  <1>11. CASE RecordAttempt
    BY <1>11, RecordAttemptGeneration
  <1>12. CASE Click
    BY <1>12, <1>q, QuietSubmission DEF Click, At, Pcs
  <1>13. CASE SubmitReturns
    BY <1>13, <1>q, QuietSubmission DEF SubmitReturns, At, Pcs
  <1>14. CASE SubmitTimesOut
    BY <1>14, <1>q, QuietSubmission DEF SubmitTimesOut, At, Pcs
  <1>15. CASE AckCaptured
    <2>1. job.req \in Requests
      BY <1>0, <1>15, SubmissionUnfinished DEF AckCaptured, At, Idle
    <2>2. Data'
      BY <1>0, <1>15, <2>1, AcknowledgeKeepsData DEF AckCaptured
    <2> QED BY <1>15, <2>2, NothingRuns DEF AckCaptured, GenerationInv
  <1>16. CASE AckMissing
    BY <1>16, SubmissionEnds DEF AckMissing, At
  <1> QED BY <1>1, <1>2, <1>3, <1>4, <1>5, <1>6, <1>7, <1>8, <1>9, <1>10, <1>11, <1>12,
             <1>13, <1>14, <1>15, <1>16 DEF SubmitStep

\* The steps of any other running operation.
LEMMA PageStepGeneration == ClickInv /\ GenerationInv /\ PageStep => GenerationInv'
  <1> SUFFICES ASSUME ClickInv, GenerationInv, PageStep PROVE GenerationInv'
    OBVIOUS
  <1>0. RowsOK /\ SessionOK /\ RestOK /\ SubmitShape /\ Data /\ RunNeeds
    BY TypeParts DEF ClickInv, StoreOK, GenerationInv
  <1>q. UNCHANGED durable => Quiet
    BY DEF durable, Quiet, Same
  <1>d. ASSUME Data', job' = Idle PROVE GenerationInv'
    BY <1>d, NothingRuns DEF GenerationInv
  <1>g. ASSUME Quiet, Goto("page"), job.kind \notin {"none", "submit"}
        PROVE  GenerationInv'
    <2>1. job'.kind = job.kind /\ job'.req = job.req /\ job.req \in Requests
      BY <1>0, <1>g DEF RestOK, Job, JobShape, Goto
    <2>2. RunNeeds' /\ RetiredRun'
      BY <1>0, <1>g, <2>1 DEF RunNeeds, RetiredRun, Quiet, Same
    <2> QED BY <1>0, <1>g, <2>2, QuietKeeps DEF GenerationInv
  <1>r. job.pc = "page" => job.req \in Requests
    BY <1>0 DEF RestOK, JobShape, Idle
  <1>1. CASE EnterPage
    BY <1>1, <1>q, <1>g DEF EnterPage, durable
  <1>2. CASE EnterRefresh
    <2>1. job.req \in Requests
      BY <1>0, <1>2 DEF EnterRefresh, RestOK, JobShape
    <2>2. Quiet
      BY <1>0, <1>2, <2>1, InspectQuiet DEF EnterRefresh
    <2> QED BY <1>2, <2>2, <1>g DEF EnterRefresh
  <1>3. CASE PageEnds
    BY <1>0, <1>3, <1>q, <1>d, QuietKeeps DEF PageEnds
  <1>4. CASE FinishInspect
    <2>1. Quiet
      BY <1>0, <1>4, <1>r, InspectQuiet DEF FinishInspect, OnPage
    <2> QED BY <1>0, <1>4, <2>1, <1>d, QuietKeeps DEF FinishInspect, Finish
  <1>5. CASE FinishInspectReopening
    <2>1. Data'
      BY <1>0, <1>5, <1>r, ReopenKeepsData DEF FinishInspectReopening, OnPage
    <2> QED BY <1>5, <2>1, <1>d DEF FinishInspectReopening, Finish
  <1>6. CASE FinishChoose
    <2>1. Quiet
      BY <1>0, <1>6, <1>r, InspectQuiet DEF FinishChoose, OnPage
    <2> QED BY <1>0, <1>6, <2>1, <1>d, QuietKeeps DEF FinishChoose, Finish
  <1>7. CASE FinishCancel
    <2>1. job.req \in Requests /\ outbox[job.req].state = "prepared"
      BY <1>7, <1>r DEF FinishCancel, OnPage, PreparationOwner
    <2>2. Data'
      BY <1>0, <1>7, <2>1, UnfinishedKeeps DEF FinishCancel
    <2> QED BY <1>7, <2>2, <1>d DEF FinishCancel, Finish
  <1>8. CASE FinishRefreshReopening
    <2>1. Data'
      BY <1>0, <1>8, <1>r, ReopenKeepsData DEF FinishRefreshReopening, OnPage
    <2> QED BY <1>8, <2>1, <1>d DEF FinishRefreshReopening, Finish
  <1>9. CASE FinishAuthorizedResend
    <2>1. /\ job.kind = "resend" /\ job.req = session.request /\ job.next \in Requests
          /\ InsertOutbox(job.next, "resend", job.req, "preparation-required")
      BY <1>0, <1>9 DEF FinishAuthorizedResend, OnPage, RestOK, JobShape
    <2>2. outbox[session.request].state \in Settled
      BY <1>0, <2>1 DEF RunNeeds, Settled
    <2>3. Data'
      BY <1>0, <2>1, <2>2, InsertKeeps
    <2> QED BY <1>9, <2>3, <1>d DEF FinishAuthorizedResend, Finish
  <1>10. CASE FinishReopenResend
    <2>1. Data'
      BY <1>0, <1>10, <1>r, ReopenKeepsData DEF FinishReopenResend, OnPage
    <2> QED BY <1>10, <2>1, <1>d DEF FinishReopenResend, Finish
  <1>11. CASE FinishContinuation
    <2>1. job.req \in Requests /\ outbox[job.req].state = "submitted"
      BY <1>0, <1>11, <1>r DEF FinishContinuation, OnPage, RunNeeds
    <2>2. Data'
      BY <1>0, <1>11, <2>1, CloseKeepsData DEF FinishContinuation
    <2> QED BY <1>11, <2>2, <1>d DEF FinishContinuation, Finish
  <1>12. ASSUME NEW reason \in Reconciled, FinishReconcile(reason)
         PROVE  GenerationInv'
    <2> DEFINE state == IF reason = "manual-followup" THEN "cancelled" ELSE "failed"
    <2>1. job.req \in Requests /\ outbox[job.req].state = "submitted"
      BY <1>0, <1>12, <1>r DEF FinishReconcile, OnPage, RunNeeds
    <2>2. state \in {"cancelled", "failed"}
          /\ Write(job.req, [outbox[job.req] EXCEPT !.reason = reason], state)
      BY <1>12 DEF FinishReconcile
    <2> HIDE DEF state
    <2>3. Data'
      BY <1>0, <2>1, <2>2, CloseKeepsData
    <2> QED BY <1>12, <2>3, <1>d DEF FinishReconcile, Finish
  <1>13. ASSUME NEW m \in Requests, FinishRecoverAcknowledgement(m)
         PROVE  GenerationInv'
    <2>1. Data'
      BY <1>0, <1>13, <1>r, AcknowledgeKeepsData DEF FinishRecoverAcknowledgement, OnPage
    <2> QED BY <1>13, <2>1, <1>d DEF FinishRecoverAcknowledgement, Finish
  <1> QED BY <1>1, <1>2, <1>3, <1>4, <1>5, <1>6, <1>7, <1>8, <1>9, <1>10, <1>11, <1>12,
             <1>13 DEF PageStep

\* An update of the session's state that keeps its rows.
SessionOnly ==
    /\ outbox' = outbox /\ session'.request = session.request
    /\ \/ session'.state = session.state
       \/ session'.state \notin {"created", "ready", "complete"}
       \/ /\ session'.state = "complete"
          /\ session.request # NoRequest /\ outbox[session.request].state = "submitted"

\* Such an update may not call a generation ready or complete that is not.
LEMMA SessionUpdate == Data /\ SessionOnly => Data'
  <1> SUFFICES ASSUME Data, SessionOnly PROVE Data'
    OBVIOUS
  <1>1. GenerationShape'
    BY DEF Data, GenerationShape, SessionOnly
  <1>2. OlderGenerationsSettled' /\ MessageOwnedOnce'
    BY DEF Data, OlderGenerationsSettled, MessageOwnedOnce, SessionOnly
  <1> QED BY <1>1, <1>2 DEF Data

\* What the routing change does (retireUnsubmittedSession).
LEMMA LeaveRoleEffect ==
    ASSUME SessionOK, NEW state \in {"cancelled", "superseded"}, LeaveRole(state)
    PROVE  /\ outbox' = outbox /\ session'.request = session.request
           /\ session'.state \in {session.state, state}
           /\ Snapshot.submission \notin Attempted => session'.state \in TerminalStates
  BY DEF SessionOK, LeaveRole, TerminalStates

\* An operation that is not a submission begins without a write.
LEMMA BeginsQuietly ==
    ASSUME ClickInv, GenerationInv, NEW kind \in Kinds \ {"none"}, NEW r \in Requests,
           UNCHANGED durable, job'.kind = kind, job'.req = r, job'.pc \in {"open", "lock"},
           kind = "submit" => r = session.request,
           kind = "recover" => outbox[r].state = "submission_unknown",
           kind = "resend" => outbox[r].state \in {"submission_unknown", "submitted"},
           kind \in {"continue", "reconcile"} => outbox[r].state = "submitted"
    PROVE  GenerationInv'
  <1>1. RowsOK /\ SessionOK /\ Data /\ outbox' = outbox /\ session' = session
    BY TypeParts DEF ClickInv, StoreOK, GenerationInv, durable
  <1>2. Data'
    BY <1>1, SessionUpdate DEF SessionOnly
  <1>3. RunNeeds' /\ RetiredRun'
    BY <1>1 DEF RunNeeds, RetiredRun
  <1> QED BY <1>2, <1>3 DEF GenerationInv

\* Role retirement may come between any two steps but the dispatch.
LEMMA RetireRoleGeneration == ClickInv /\ GenerationInv /\ RetireRole => GenerationInv'
  <1> SUFFICES ASSUME ClickInv, GenerationInv, RetireRole PROVE GenerationInv'
    OBVIOUS
  <1>0. RowsOK /\ SessionOK /\ RestOK /\ SubmitShape /\ Data /\ RunNeeds
    BY TypeParts DEF ClickInv, StoreOK, GenerationInv
  <1>1. /\ outbox' = outbox /\ session'.request = session.request
        /\ session'.state \in {session.state, "cancelled"}
        /\ Snapshot.submission \notin Attempted => session'.state \in TerminalStates
    BY <1>0, LeaveRoleEffect DEF RetireRole
  <1>2. job' = job /\ ~At("filled")
    BY <1>0 DEF RetireRole
  <1>3. Data'
    BY <1>0, <1>1, SessionUpdate DEF SessionOnly
  <1>4. RunNeeds'
    BY <1>0, <1>1, <1>2 DEF RunNeeds
  <1>5. ASSUME job.kind = "submit", job.pc = "verify"
        PROVE  RetiredRun'
    <2>1. /\ job.req \in Requests /\ job.req = session.request
          /\ outbox[job.req].state = "prepared"
      BY <1>0, <1>5, SubmissionUnfinished DEF Idle, SubmitShape
    <2>2. Snapshot.submission = "prepared"
      BY <2>1, NoRequestIsNoRequest DEF Snapshot
    <2>3. session'.state \in TerminalStates
      BY <1>1, <2>2 DEF Attempted
    <2>4. CASE view = NoActor
      <3>1. view' = NoActor
        BY <2>4 DEF RetireRole
      <3> QED BY <2>3, <3>1 DEF RetiredRun, NoActor
    <2>5. CASE view # NoActor
      <3>1. view'.request = session'.request /\ Terminal(view)'
        BY <2>3, <2>5, TerminalPublishes DEF RetireRole
      <3> QED BY <2>3, <3>1 DEF RetiredRun
    <2> QED BY <2>4, <2>5
  <1>6. RetiredRun'
    BY <1>2, <1>5 DEF RetiredRun, At
  <1> QED BY <1>3, <1>4, <1>6 DEF GenerationInv

\* Starting an operation.
LEMMA BeginStepGeneration == ClickInv /\ GenerationInv /\ BeginStep => GenerationInv'
  <1> SUFFICES ASSUME ClickInv, GenerationInv, BeginStep PROVE GenerationInv'
    OBVIOUS
  <1>0. RowsOK /\ SessionOK /\ RestOK /\ SubmitShape /\ Data /\ RunNeeds
    BY TypeParts DEF ClickInv, StoreOK, GenerationInv
  <1>d. ASSUME Data', job' = Idle PROVE GenerationInv'
    BY <1>d, NothingRuns DEF GenerationInv
  <1>b. ASSUME NEW kind \in Kinds \ {"none", "resend"}, NEW r \in Requests, Begin(kind, r),
               kind # "submit", kind \in {"continue", "reconcile"} => outbox[r].state = "submitted",
               kind = "recover" => outbox[r].state = "submission_unknown"
        PROVE  GenerationInv'
    <2>1. job'.kind = kind /\ job'.req = r /\ job'.pc = "lock" /\ UNCHANGED durable
      BY <1>b DEF Begin, Running, Idle
    <2> QED BY <1>b, <2>1, BeginsQuietly
  <1>1. ASSUME NEW r \in Requests, NEW origin \in Maybe, Send(r, origin)
        PROVE  GenerationInv'
    <2>1. Accepts(origin) /\ InsertOutbox(r, IF origin = NoRequest THEN "plain"
                                             ELSE "continuation", origin, "none")
      BY <1>1 DEF Send
    <2>2. session.request \in Requests => outbox[session.request].state \in Settled
      BY <1>0, <2>1, AcceptsSettled
    <2>3. Data'
      BY <1>0, <2>1, <2>2, InsertKeeps
    <2>4. session'.request = r
      BY <1>0, <2>1, InsertEffect
    <2>5. job'.kind = "submit" /\ job'.req = r /\ job'.pc = "open"
      BY <1>1 DEF Send, Running, Idle
    <2>6. RunNeeds' /\ RetiredRun'
      BY <2>4, <2>5 DEF RunNeeds, RetiredRun
    <2> QED BY <2>3, <2>6 DEF GenerationInv
  <1>2. ASSUME NEW r \in Requests, ReplayAttempted(r)
        PROVE  GenerationInv'
    <2>1. Data'
      BY <1>0, <1>2, UnfinishedKeeps DEF ReplayAttempted
    <2> QED BY <1>2, <2>1, <1>d DEF ReplayAttempted, Ready
  <1>3. ASSUME NEW r \in Requests, ReplayUnattempted(r)
        PROVE  GenerationInv'
    <2>1. Data'
      BY <1>0, <1>3, UnfinishedKeeps DEF ReplayUnattempted
    <2> QED BY <1>3, <2>1, <1>d DEF ReplayUnattempted, Ready
  <1>4. ASSUME NEW r \in Requests, ResumePreparation(r)
        PROVE  GenerationInv'
    <2>1. /\ job'.kind = "submit" /\ job'.req = r /\ job'.pc = "open" /\ UNCHANGED durable
          /\ r = session.request
      BY <1>4 DEF ResumePreparation, PreparationOwner, Running, Idle
    <2> QED BY <2>1, BeginsQuietly DEF Kinds
  <1>5. ASSUME NEW r \in Requests, BeginInspect(r)
        PROVE  GenerationInv'
    BY <1>5, <1>b DEF BeginInspect, Kinds
  <1>6. ASSUME NEW r \in Requests, NEW kind \in {"choose", "cancel"}, BeginDecision(r, kind)
        PROVE  GenerationInv'
    BY <1>6, <1>b DEF BeginDecision, Kinds
  <1>7. ASSUME NEW r \in Requests, NEW reopen \in BOOLEAN, BeginRefresh(r, reopen)
        PROVE  GenerationInv'
    <2>1. job'.kind = "refresh" /\ job'.req = r /\ job'.pc = "lock" /\ UNCHANGED durable
      BY <1>7 DEF BeginRefresh, Running, Idle
    <2> QED BY <2>1, BeginsQuietly DEF Kinds
  <1>8. ASSUME NEW r \in Requests, BeginRecoverAcknowledgement(r)
        PROVE  GenerationInv'
    BY <1>8, <1>b DEF BeginRecoverAcknowledgement, Kinds
  <1>9. ASSUME NEW r \in Requests, NEW o \in Requests, BeginAuthorizedResend(o, r)
        PROVE  GenerationInv'
    <2>1. /\ job'.kind = "resend" /\ job'.req = o /\ job'.pc = "lock" /\ UNCHANGED durable
          /\ outbox[o].state \in {"submission_unknown", "submitted"}
      BY <1>9 DEF BeginAuthorizedResend, Resendable, Running, Idle
    <2> QED BY <2>1, BeginsQuietly DEF Kinds
  <1>10. ASSUME NEW r \in Requests, BeginReopenResend(r)
         PROVE  GenerationInv'
    <2>1. Begin("reopen", reserved[r]) /\ reserved[r] \in Requests
      BY <1>10, TypeParts DEF BeginReopenResend, ClickInv, StoreOK, Maybe
    <2> QED BY <2>1, <1>b DEF Kinds
  <1>11. ASSUME NEW r \in Requests, BeginContinuation(r)
         PROVE  GenerationInv'
    BY <1>11, <1>b DEF BeginContinuation, Kinds
  <1>12. ASSUME NEW r \in Requests, BeginReconcile(r)
         PROVE  GenerationInv'
    BY <1>12, <1>b DEF BeginReconcile, Kinds
  <1>13. ASSUME NEW state \in {"observing", "complete"}, ObserveUpdate(state)
         PROVE  GenerationInv'
    <2>1. /\ outbox' = outbox /\ session'.request = session.request /\ session'.state = state
          /\ session.request # NoRequest /\ outbox[session.request].state = "submitted"
      BY <1>0, <1>13 DEF ObserveUpdate, SessionOK
    <2>2. Data'
      BY <1>0, <2>1, SessionUpdate DEF SessionOnly
    <2> QED BY <1>13, <2>2, <1>d DEF ObserveUpdate, Ready
  <1>14. CASE Stop
    <2>1. outbox' = outbox /\ session'.request = session.request /\ session'.state = "cancelled"
      BY <1>0, <1>14 DEF Stop, SessionOK
    <2>2. Data'
      BY <1>0, <2>1, SessionUpdate DEF SessionOnly
    <2> QED BY <1>14, <2>2, <1>d DEF Stop, Ready
  <1>15. CASE RetireRole
    BY <1>15, RetireRoleGeneration
  <1>16. CASE ReplaceSession
    <2>1. /\ outbox' = outbox /\ session'.request = session.request
          /\ session'.state \in {session.state, "superseded"}
      BY <1>0, <1>16, LeaveRoleEffect DEF ReplaceSession
    <2>2. Data'
      BY <1>0, <2>1, SessionUpdate DEF SessionOnly
    <2> QED BY <1>16, <2>2, <1>d DEF ReplaceSession, Ready
  <1>17. CASE BeginTeamDeletion
    <2>1. /\ outbox' = outbox /\ job' = job
          /\ session'.request = session.request /\ session'.state = session.state
          /\ session'.role # "gone"
      BY <1>0, <1>17 DEF BeginTeamDeletion, SessionOK
    <2>2. Data'
      BY <1>0, <2>1, SessionUpdate DEF SessionOnly
    <2>3. RunNeeds' /\ RetiredRun'
      BY <1>0, <2>1 DEF RunNeeds, RetiredRun
    <2> QED BY <2>2, <2>3 DEF GenerationInv
  <1>18. CASE RetireDeletedConversation
    <2>1. outbox' = outbox /\ session'.request = session.request /\ session'.state = "superseded"
      BY <1>0, <1>18 DEF RetireDeletedConversation, SessionOK
    <2>2. Data'
      BY <1>0, <2>1, SessionUpdate DEF SessionOnly
    <2> QED BY <1>18, <2>2, <1>d DEF RetireDeletedConversation, Ready
  <1> QED BY <1>1, <1>2, <1>3, <1>4, <1>5, <1>6, <1>7, <1>8, <1>9, <1>10, <1>11, <1>12,
             <1>13, <1>14, <1>15, <1>16, <1>17, <1>18 DEF BeginStep

\* The recovery of startCore.
LEMMA BootStepGeneration == ClickInv /\ GenerationInv /\ BootStep => GenerationInv'
  <1> SUFFICES ASSUME ClickInv, GenerationInv, BootStep PROVE GenerationInv'
    OBVIOUS
  <1>0. RowsOK /\ SessionOK /\ RestOK /\ Data
    BY TypeParts DEF ClickInv, StoreOK, GenerationInv
  <1>d. ASSUME Data', boot # "up", job' = job PROVE GenerationInv'
    <2>1. job' = Idle
      BY <1>0, <1>d DEF RestOK, JobShape
    <2> QED BY <1>d, <2>1, NothingRuns DEF GenerationInv
  <1>1. ASSUME NEW r \in Requests, KeepPreparation(r)
        PROVE  GenerationInv'
    <2>1. Quiet
      BY <1>0, <1>1, InspectQuiet DEF KeepPreparation
    <2> QED BY <1>0, <1>1, <2>1, <1>d, QuietKeeps DEF KeepPreparation
  <1>2. ASSUME NEW r \in Requests, FailInterrupted(r)
        PROVE  GenerationInv'
    <2>1. Data'
      BY <1>0, <1>2, UnfinishedKeeps DEF FailInterrupted, Interrupted
    <2> QED BY <1>2, <2>1, <1>d DEF FailInterrupted
  <1>3. ASSUME NEW r \in Requests, RecoverAttempted(r)
        PROVE  GenerationInv'
    <2>1. Data'
      BY <1>0, <1>3, UnfinishedKeeps DEF RecoverAttempted
    <2> QED BY <1>3, <2>1, <1>d DEF RecoverAttempted
  <1>q. UNCHANGED durable => Data'
    BY <1>0, SessionUpdate DEF durable, SessionOnly
  <1>4. CASE PreSubmissionsRecovered
    BY <1>4, <1>q, <1>d DEF PreSubmissionsRecovered
  <1>5. CASE SubmissionsRecovered
    BY <1>5, <1>q, <1>d DEF SubmissionsRecovered
  <1> QED BY <1>1, <1>2, <1>3, <1>4, <1>5 DEF BootStep

\* Steps that leave the rows, the session, the operation and its actor alone,
\* and those that leave no operation running.
LEMMA OutsideStepGeneration ==
    ClickInv /\ GenerationInv /\ (BrowserStep \/ RetireActor \/ Crash) => GenerationInv'
  <1> SUFFICES ASSUME ClickInv, GenerationInv, BrowserStep \/ RetireActor \/ Crash
               PROVE  GenerationInv'
    OBVIOUS
  <1>1. UNCHANGED durable
    BY DEF BrowserStep, DrainSettles, LateClick, LateCommandFails, RetireActor, Crash
  <1>2. Data'
    BY <1>1, SessionUpdate DEF GenerationInv, durable, SessionOnly
  <1>3. (job' = job /\ view' = view) \/ job' = Idle
    BY DEF BrowserStep, DrainSettles, LateClick, LateCommandFails, RetireActor, Crash, Ready
  <1>4. CASE job' = job /\ view' = view
    <2>1. RunNeeds'
      BY <1>1, <1>4 DEF GenerationInv, RunNeeds, durable
    <2>2. RetiredRun'
      BY <1>1, <1>4 DEF GenerationInv, RetiredRun, RoleIsCurrent, Terminal, durable
    <2> QED BY <1>2, <2>1, <2>2 DEF GenerationInv
  <1>5. CASE job' = Idle
    BY <1>2, <1>5, NothingRuns DEF GenerationInv
  <1> QED BY <1>3, <1>4, <1>5

\* The invariant behind the properties of generations and of retired roles.
THEOREM GenerationInvariant == Spec => []GenerationInv
  <1>1. Init => GenerationInv
    BY DEF Init, NoRow, Idle, GenerationInv, Data, GenerationShape, OlderGenerationsSettled,
       MessageOwnedOnce, RunNeeds, RetiredRun
  <1>2. ClickInv /\ GenerationInv /\ UNCHANGED vars => GenerationInv'
    <2> SUFFICES ASSUME GenerationInv, UNCHANGED vars PROVE GenerationInv'
      OBVIOUS
    <2>1. outbox' = outbox /\ session' = session /\ job' = job /\ view' = view
      BY DEF vars
    <2>2. Data'
      BY <2>1, SessionUpdate DEF GenerationInv, SessionOnly
    <2>3. RunNeeds' /\ RetiredRun'
      BY <2>1 DEF GenerationInv, RunNeeds, RetiredRun, RoleIsCurrent, Terminal
    <2> QED BY <2>2, <2>3 DEF GenerationInv
  <1>3. ClickInv /\ GenerationInv /\ [Next]_vars => GenerationInv'
    BY <1>2, SubmitStepGeneration, PageStepGeneration, BeginStepGeneration,
       BootStepGeneration, OutsideStepGeneration DEF Next
  <1> QED BY <1>1, <1>3, ClickInvariant, PTL DEF Spec

\* Only the current generation may be unfinished, so updateCurrentGeneration
\* never refuses a row that still has to settle.
THEOREM OlderSettled == Spec => []OlderGenerationsSettled
  <1>1. GenerationInv => OlderGenerationsSettled
    BY DEF GenerationInv, Data
  <1> QED BY GenerationInvariant, <1>1, PTL

\* A delivered message proves one submission at most (submittedMessageIds).
THEOREM OneOwner == Spec => []MessageOwnedOnce
  <1>1. GenerationInv => MessageOwnedOnce
    BY DEF GenerationInv, Data
  <1> QED BY GenerationInvariant, <1>1, PTL

\* Nothing but a published attempt leads to the click.
LEMMA OnlyAttemptsClick ==
    ASSUME ClickInv, Next, ~At("click"), At("click")'
    PROVE  RecordAttempt
  <1>0. RestOK
    BY TypeParts DEF ClickInv
  <1>1. job'.kind = "submit" /\ job'.pc = "click" /\ job' # Idle /\ job' # job
    BY DEF At, Idle
  <1>2. ASSUME NEW pc \in Pcs \ {"click"}, Goto(pc) PROVE FALSE
    BY <1>0, <1>1, <1>2 DEF RestOK, Job, Goto
  <1>3. SubmitStep => RecordAttempt
    BY <1>1, <1>2 DEF SubmitStep, OpenOk, OpenNeedsDecision, EnterPrepare, PrepareOk,
       PrepareThenVerify, VerifyOk, FillComposer, PreparationNeedsDecision, PrepareTimesOut,
       OpenFails, PreparationFails, Click, SubmitReturns, SubmitTimesOut, AckCaptured,
       AckMissing, Pcs
  <1>4. ~PageStep
    BY <1>1, <1>2 DEF PageStep, EnterPage, EnterRefresh, PageEnds, FinishInspect,
       FinishInspectReopening, FinishChoose, FinishCancel, FinishRefreshReopening,
       FinishAuthorizedResend, FinishReopenResend, FinishContinuation, FinishReconcile,
       FinishRecoverAcknowledgement, Finish, Pcs
  <1>5. \A kind, r : job' # Running(kind, "open", r) /\ job' # Running(kind, "lock", r)
    BY <1>1 DEF Running, Idle
  <1>6. \A o, r, reopen : job' # [Running("refresh", "lock", r) EXCEPT !.reopen = reopen]
                          /\ job' # [Running("resend", "lock", o) EXCEPT !.next = r]
    BY <1>1 DEF Running, Idle
  <1>7. ~BeginStep
    BY <1>1, <1>5, <1>6 DEF BeginStep, Send, ReplayAttempted, ReplayUnattempted,
       ResumePreparation, BeginInspect, BeginDecision, BeginRefresh,
       BeginRecoverAcknowledgement, BeginAuthorizedResend, BeginReopenResend,
       BeginContinuation, BeginReconcile, Begin, ObserveUpdate, Stop, RetireRole,
       ReplaceSession, BeginTeamDeletion, RetireDeletedConversation
  <1>8. ~BootStep /\ ~BrowserStep /\ ~RetireActor /\ ~Crash
    BY <1>1 DEF BootStep, KeepPreparation, FailInterrupted, RecoverAttempted,
       PreSubmissionsRecovered, SubmissionsRecovered, BrowserStep, DrainSettles, LateClick,
       LateCommandFails, RetireActor, Crash
  <1> QED BY <1>3, <1>4, <1>7, <1>8 DEF Next

\* A session that retirement or replacement took from its role never starts to
\* click Send, even when it goes across the last verification's await; what
\* team.delete retires may, see NewClicksNeedTheRole.
THEOREM RetiredNeverClicks == Spec => RetiredRoleNeverClicks
  <1>1. ClickInv /\ GenerationInv /\ [Next]_vars => (At("click")' /\ ~At("click") => session.role # "gone")
    <2> SUFFICES ASSUME ClickInv, GenerationInv, [Next]_vars, At("click")', ~At("click")
                 PROVE  session.role # "gone"
      OBVIOUS
    <2>1. CASE Next
      BY <2>1, OnlyAttemptsClick, RecordAttemptGeneration
    <2>2. CASE UNCHANGED vars
      BY <2>2 DEF vars, At
    <2> QED BY <2>1, <2>2
  <1> QED BY <1>1, ClickInvariant, GenerationInvariant, PTL DEF Spec, RetiredRoleNeverClicks

-----------------------------------------------------------------------------
(* Restarts keep pending preparations.                                     *)

\* Once the boot recovery is past the preparations, all of them ask for an
\* inspection.
BootInv ==
    boot = "attempted" => \A r \in Requests : PreparationOwner(r) => outbox[r].inspect

\* While the core recovers it serves no request and runs no operation.
LEMMA OnlyBootSteps ==
    ASSUME ClickInv, Next, boot # "up"
    PROVE  BootStep \/ BrowserStep \/ Crash
  <1>1. job = Idle
    BY DEF ClickInv, TypeInv, JobShape
  <1>2. ~SubmitStep
    BY <1>1 DEF SubmitStep, OpenOk, OpenNeedsDecision, EnterPrepare, PrepareOk,
       PrepareThenVerify, VerifyOk, PreparationNeedsDecision, PrepareTimesOut, OpenFails,
       PreparationFails, RecordAttempt, Click, SubmitReturns, SubmitTimesOut, AckCaptured,
       AckMissing, At, Idle
  <1>3. ~PageStep
    BY <1>1 DEF PageStep, EnterPage, EnterRefresh, PageEnds, FinishInspect,
       FinishInspectReopening, FinishChoose, FinishCancel, FinishRefreshReopening,
       FinishAuthorizedResend, FinishReopenResend, FinishContinuation, FinishReconcile,
       FinishRecoverAcknowledgement, OnPage, Idle
  <1>4. ~BeginStep /\ ~RetireActor
    BY DEF BeginStep, Send, ReplayAttempted, ReplayUnattempted, ResumePreparation,
       BeginInspect, BeginDecision, BeginRefresh, BeginRecoverAcknowledgement,
       BeginAuthorizedResend, BeginReopenResend, BeginContinuation, BeginReconcile, Begin,
       ObserveUpdate, Stop, RetireRole, ReplaceSession, LeaveRole, BeginTeamDeletion,
       RetireDeletedConversation, RetireActor, Ready
  <1> QED BY <1>2, <1>3, <1>4 DEF Next

\* A core that is up stays up until it crashes.
LEMMA UpUntilCrash ==
    ASSUME Next, boot = "up"
    PROVE  boot' \in {"up", "pre"}
  <1>1. SubmitStep => boot' = boot
    BY DEF SubmitStep, OpenOk, OpenNeedsDecision, EnterPrepare, PrepareOk,
       PrepareThenVerify, VerifyOk, PreparationNeedsDecision, PrepareTimesOut, OpenFails,
       PreparationFails, RecordAttempt, Click, SubmitReturns, SubmitTimesOut, AckCaptured,
       AckMissing
  <1>2. PageStep => boot' = boot
    BY DEF PageStep, EnterPage, EnterRefresh, PageEnds, FinishInspect,
       FinishInspectReopening, FinishChoose, FinishCancel, FinishRefreshReopening,
       FinishAuthorizedResend, FinishReopenResend, FinishContinuation, FinishReconcile,
       FinishRecoverAcknowledgement, Finish
  <1>3. BeginStep \/ RetireActor => boot' = boot
    BY DEF BeginStep, Send, ReplayAttempted, ReplayUnattempted, ResumePreparation,
       BeginInspect, BeginDecision, BeginRefresh, BeginRecoverAcknowledgement,
       BeginAuthorizedResend, BeginReopenResend, BeginContinuation, BeginReconcile, Begin,
       ObserveUpdate, Stop, RetireRole, ReplaceSession, BeginTeamDeletion,
       RetireDeletedConversation, RetireActor
  <1>4. BrowserStep \/ Crash => boot' \in {boot, "pre"}
    BY DEF BrowserStep, DrainSettles, LateClick, LateCommandFails, Crash
  <1>5. BootStep => boot' \in {boot, "pre"}
    BY DEF BootStep, KeepPreparation, FailInterrupted, RecoverAttempted,
       PreSubmissionsRecovered, SubmissionsRecovered
  <1> QED BY <1>1, <1>2, <1>3, <1>4, <1>5 DEF Next

\* A pending preparation is the current generation, prepared and nonterminal.
LEMMA PreparationIsInterrupted ==
    ASSUME NEW r \in Requests, PreparationOwner(r)
    PROVE  Interrupted(r)
  <1>1. Snapshot.state = "submitting" /\ Snapshot.submission = "prepared"
    BY NoRequestIsNoRequest DEF PreparationOwner, Snapshot
  <1> QED BY <1>1 DEF PreparationOwner, Interrupted, Terminal, TerminalStates

\* What a step of the recovery does to a pending preparation.
LEMMA RecoveryKeeps ==
    ASSUME ClickInv, BootInv, boot # "up", Next, NEW r \in Requests, PreparationOwner(r)
    PROVE  /\ PreparationOwner(r)'
           /\ boot' \in {"up", "attempted"} => outbox'[r].inspect
  <1>1. RowsOK /\ outbox[r] \in Row
    BY TypeParts DEF ClickInv, StoreOK, RowsOK
  <1>2. ASSUME UNCHANGED durable PROVE PreparationOwner(r)' /\ outbox'[r].inspect = outbox[r].inspect
    BY <1>2 DEF PreparationOwner, durable
  <1>3. r = session.request /\ outbox[r].state = "prepared"
    BY DEF PreparationOwner
  <1>4. ASSUME NEW s \in Requests, KeepPreparation(s)
        PROVE  PreparationOwner(r)' /\ boot' = "pre"
    <2>1. boot' = "pre" /\ session' = session /\ outbox' = [outbox EXCEPT ![s].inspect = TRUE]
      BY <1>4 DEF KeepPreparation
    <2>2. outbox'[r].state = outbox[r].state /\ outbox'[r].error = outbox[r].error
      BY <1>1, <2>1 DEF RowsOK, Row
    <2> QED BY <2>1, <2>2 DEF PreparationOwner
  <1>5. ASSUME NEW s \in Requests PROVE ~FailInterrupted(s) /\ ~RecoverAttempted(s)
    BY <1>3 DEF FailInterrupted, Interrupted, RecoverAttempted, RecordSubmissionUnknown, Write
  <1>6. ASSUME PreSubmissionsRecovered
        PROVE  PreparationOwner(r)' /\ outbox'[r].inspect
    BY <1>2, <1>6, PreparationIsInterrupted DEF PreSubmissionsRecovered
  <1>7. ASSUME SubmissionsRecovered
        PROVE  PreparationOwner(r)' /\ outbox'[r].inspect
    BY <1>2, <1>7 DEF SubmissionsRecovered, BootInv
  <1>8. ASSUME BrowserStep \/ Crash
        PROVE  PreparationOwner(r)' /\ (boot' = "pre" \/ (boot' = boot /\ outbox'[r].inspect = outbox[r].inspect))
    BY <1>2, <1>8 DEF BrowserStep, DrainSettles, LateClick, LateCommandFails, Crash
  <1>9. boot = "attempted" => outbox[r].inspect
    BY DEF BootInv
  <1>10. CASE BrowserStep \/ Crash
    BY <1>8, <1>9, <1>10
  <1>11. CASE BootStep
    BY <1>4, <1>5, <1>6, <1>7, <1>11 DEF BootStep
  <1> QED BY <1>10, <1>11, OnlyBootSteps

\* No step of the recovery makes a pending preparation.
LEMMA NoNewPreparation ==
    ASSUME ClickInv, boot = "attempted", Next, boot' = "attempted",
           NEW r \in Requests, PreparationOwner(r)'
    PROVE  PreparationOwner(r)
  <1>1. RowsOK /\ SessionOK
    BY TypeParts DEF ClickInv, StoreOK
  <1>2. CASE UNCHANGED durable
    BY <1>2 DEF PreparationOwner, durable
  <1>3. ASSUME NEW s \in Requests, RecoverAttempted(s) PROVE PreparationOwner(r)
    <2>1. Writes(s, "submission_unknown",
                 IF session.state \in TerminalStates THEN session.state ELSE "observing")
      BY <1>1, <1>3, RecordSubmissionUnknownEffect DEF RecoverAttempted
    <2>2. session'.request = s /\ outbox'[s].state = "submission_unknown"
      BY <2>1 DEF Writes
    <2> QED BY <2>2 DEF PreparationOwner
  <1>4. BrowserStep \/ Crash => UNCHANGED durable
    BY DEF BrowserStep, DrainSettles, LateClick, LateCommandFails, Crash
  <1>5. BootStep => UNCHANGED durable \/ \E s \in Requests : RecoverAttempted(s)
    BY DEF BootStep, KeepPreparation, FailInterrupted, PreSubmissionsRecovered,
       SubmissionsRecovered
  <1> QED BY <1>2, <1>3, <1>4, <1>5, OnlyBootSteps

\* The invariant behind the next theorem.
THEOREM BootInvariant == Spec => []BootInv
  <1>1. Init => BootInv
    BY DEF Init, BootInv
  <1>2. ClickInv /\ BootInv /\ Next => BootInv'
    <2> SUFFICES ASSUME ClickInv, BootInv, Next, boot' = "attempted",
                        NEW r \in Requests, PreparationOwner(r)'
                 PROVE  outbox'[r].inspect
      BY DEF BootInv
    <2>1. boot # "up"
      BY UpUntilCrash
    <2>2. CASE boot = "attempted"
      <3>1. PreparationOwner(r)
        BY <2>2, NoNewPreparation
      <3> QED BY <2>1, <3>1, RecoveryKeeps
    <2>3. CASE boot # "attempted"
      <3>1. PreSubmissionsRecovered
        <4>1. BootStep \/ BrowserStep \/ Crash
          BY <2>1, OnlyBootSteps
        <4> QED BY <2>3, <4>1 DEF BootStep, KeepPreparation, FailInterrupted, RecoverAttempted,
               SubmissionsRecovered, BrowserStep, DrainSettles, LateClick, LateCommandFails,
               Crash
      <3>2. PreparationOwner(r) /\ outbox' = outbox
        BY <3>1 DEF PreSubmissionsRecovered, PreparationOwner, durable
      <3> QED BY <3>1, <3>2, PreparationIsInterrupted DEF PreSubmissionsRecovered
    <2> QED BY <2>2, <2>3
  <1>3. BootInv /\ UNCHANGED vars => BootInv'
    BY DEF BootInv, PreparationOwner, vars
  <1> QED BY <1>1, <1>2, <1>3, ClickInvariant, PTL DEF Spec

\* A pending preparation survives a restart, and the caller must inspect the
\* page again before it can be resumed (recoverInterruptedPreSubmissions).
THEOREM PreparationsSurvive == Spec => RestartKeepsPreparations
  <1> DEFINE Kept(r) == boot # "up" /\ PreparationOwner(r) =>
                            /\ PreparationOwner(r)'
                            /\ boot' = "up" => outbox'[r].inspect
  <1>1. ClickInv /\ BootInv /\ Next => \A r \in Requests : Kept(r)
    BY RecoveryKeeps
  <1>2. UNCHANGED vars => \A r \in Requests : Kept(r)
    BY DEF PreparationOwner, vars
  <1>3. ClickInv /\ BootInv /\ [Next]_vars => [\A r \in Requests : Kept(r)]_vars
    BY <1>1, <1>2
  <1> QED BY <1>3, ClickInvariant, BootInvariant, PTL DEF Spec, RestartKeepsPreparations

-----------------------------------------------------------------------------
(* The pipeline implements AtMostOnceSend: every step of it is one of the  *)
(* steps of the promise, or changes nothing a caller may be told.          *)

\* What reached the provider was clicked.
DeliveredInv == \A r \in delivered : clicks[r] = 1

\* A click comes from a submission or a late command, for an attempted request
\* that was not clicked yet.
Clicked(r) ==
    /\ ClickSend(r)
    /\ clicks[r] = 0
    /\ outbox' = outbox
    /\ outbox[r].state \in Attempted

\* Nothing else changes what the provider saw.
LEMMA OnlyClicksClick ==
    ASSUME ClickInv, Next
    PROVE  UNCHANGED <<clicks, delivered>> \/ \E r \in Requests : Clicked(r)
  <1>0. RestOK /\ SubmitShape /\ ClickHistory
    BY TypeParts DEF ClickInv
  <1>1. CASE SubmitStep
    <2>1. CASE Click
      <3>1. job.req \in Requests /\ clicks[job.req] = 0
            /\ outbox[job.req].state = "submit_attempted"
        BY <1>0, <2>1 DEF Click, At, SubmitShape, RestOK, JobShape
      <3>2. ClickSend(job.req) /\ outbox' = outbox
        BY <2>1 DEF Click, durable
      <3> QED BY <3>1, <3>2 DEF Clicked, Attempted
    <2>2. CASE ~Click
      BY <1>1, <2>2 DEF SubmitStep, OpenOk, OpenNeedsDecision, EnterPrepare, PrepareOk,
         PrepareThenVerify, VerifyOk, PreparationNeedsDecision, PrepareTimesOut, OpenFails,
         PreparationFails, RecordAttempt, SubmitReturns, SubmitTimesOut, AckCaptured,
         AckMissing, browser
    <2> QED BY <2>1, <2>2
  <1>2. CASE PageStep
    BY <1>2 DEF PageStep, EnterPage, EnterRefresh, PageEnds, FinishInspect,
       FinishInspectReopening, FinishChoose, FinishCancel, FinishRefreshReopening,
       FinishAuthorizedResend, FinishReopenResend, FinishContinuation, FinishReconcile,
       FinishRecoverAcknowledgement, Finish, browser
  <1>3. CASE BeginStep \/ RetireActor
    BY <1>3 DEF BeginStep, Send, ReplayAttempted, ReplayUnattempted, ResumePreparation,
       BeginInspect, BeginDecision, BeginRefresh, BeginRecoverAcknowledgement,
       BeginAuthorizedResend, BeginReopenResend, BeginContinuation, BeginReconcile, Begin,
       ObserveUpdate, Stop, RetireRole, ReplaceSession, BeginTeamDeletion,
       RetireDeletedConversation, RetireActor, browser
  <1>4. CASE BootStep
    BY <1>4 DEF BootStep, KeepPreparation, FailInterrupted, RecoverAttempted,
       PreSubmissionsRecovered, SubmissionsRecovered, browser
  <1>5. ASSUME NEW r \in Requests, LateClick(r) PROVE Clicked(r)
    <2>1. r \in late /\ ClickSend(r) /\ outbox' = outbox
      BY <1>5 DEF LateClick, durable
    <2>2. clicks[r] = 0 /\ outbox[r].state \in Attempted
      BY <1>0, <2>1 DEF ClickHistory
    <2> QED BY <2>1, <2>2 DEF Clicked
  <1>6. CASE BrowserStep
    BY <1>5, <1>6 DEF BrowserStep, DrainSettles, LateCommandFails
  <1>7. CASE Crash
    BY <1>7 DEF Crash
  <1> QED BY <1>1, <1>2, <1>3, <1>4, <1>6, <1>7 DEF Next

\* The invariant that lets a recovered message confirm a request.
THEOREM DeliveredInvariant == Spec => []DeliveredInv
  <1>1. Init => DeliveredInv
    BY DEF Init, DeliveredInv
  <1>2. ClickInv /\ DeliveredInv /\ Next => DeliveredInv'
    <2> SUFFICES ASSUME ClickInv, DeliveredInv, Next PROVE DeliveredInv'
      OBVIOUS
    <2>1. clicks \in [Requests -> Nat] /\ delivered \subseteq Requests
      BY DEF ClickInv, TypeInv, TypeOK
    <2>2. CASE UNCHANGED <<clicks, delivered>>
      BY <2>2 DEF DeliveredInv
    <2>3. ASSUME NEW r \in Requests, Clicked(r) PROVE DeliveredInv'
      <3>1. clicks' = [clicks EXCEPT ![r] = 1] /\ delivered' \subseteq delivered \cup {r}
        BY <2>1, <2>3 DEF Clicked, ClickSend
      <3> QED BY <2>1, <3>1 DEF DeliveredInv
    <2> QED BY <2>2, <2>3, OnlyClicksClick
  <1>3. DeliveredInv /\ UNCHANGED vars => DeliveredInv'
    BY DEF DeliveredInv, vars
  <1> QED BY <1>1, <1>2, <1>3, ClickInvariant, PTL DEF Spec

\* A step of the promise, or a stutter.
PromiseStep == [Promise!Next]_Promise!vars

\* How a request may move without a click and without a message.
Moves == {<<"idle", "open">>, <<"open", "refused">>, <<"refused", "open">>,
          <<"open", "attempted">>, <<"attempted", "doubtful">>}

\* One row moves: the caller sees a move of that request.
LEMMA PromiseMove ==
    ASSUME NEW r \in Requests,
           \A s \in Requests \ {r} : outbox'[s].state = outbox[s].state,
           \A s \in Requests : outbox'[s].message = outbox[s].message,
           clicks' = clicks,
           \/ PhaseOf(outbox'[r].state) = PhaseOf(outbox[r].state)
           \/ <<PhaseOf(outbox[r].state), PhaseOf(outbox'[r].state)>> \in Moves
    PROVE  PromiseStep
  <1> DEFINE phase == [s \in Requests |-> PhaseOf(outbox[s].state)]
             proof == [s \in Requests |-> outbox[s].message]
             from == PhaseOf(outbox[r].state)
             to == PhaseOf(outbox'[r].state)
  <1>1. proof' = proof
    OBVIOUS
  <1>2. \A s \in Requests \ {r} : PhaseOf(outbox'[s].state) = PhaseOf(outbox[s].state)
    OBVIOUS
  <1>3. phase' = [phase EXCEPT ![r] = to] /\ phase[r] = from
    BY <1>2
  <1>4. CASE to = from
    <2>1. phase' = phase
      BY <1>2, <1>4
    <2> QED BY <1>1, <2>1 DEF PromiseStep, Promise!vars
  <1>5. CASE <<from, to>> \in Moves
    <2> HIDE DEF phase, proof, from, to
    <2>1. \/ Promise!Become(r, {"idle"}, "open")
          \/ Promise!Become(r, {"open"}, "refused")
          \/ Promise!Become(r, {"refused"}, "open")
          \/ Promise!Become(r, {"open"}, "attempted")
          \/ Promise!Become(r, {"attempted"}, "doubtful")
      BY <1>3, <1>5 DEF Moves, Promise!Become, phase
    <2> QED BY <1>1, <2>1 DEF PromiseStep, Promise!Next, Promise!Accept, Promise!Refuse,
            Promise!Reopen, Promise!Attempt, Promise!Doubt, proof
  <1> QED BY <1>4, <1>5

\* Nothing a caller may be told changes.
LEMMA PromiseQuiet ==
    ASSUME \A s \in Requests : /\ outbox'[s].state = outbox[s].state
                               /\ outbox'[s].message = outbox[s].message,
           clicks' = clicks
    PROVE  PromiseStep
  <1>1. \A s \in Requests : PhaseOf(outbox'[s].state) = PhaseOf(outbox[s].state)
    OBVIOUS
  <1>2. /\ [s \in Requests |-> PhaseOf(outbox[s].state)]' =
               [s \in Requests |-> PhaseOf(outbox[s].state)]
        /\ [s \in Requests |-> outbox[s].message]' = [s \in Requests |-> outbox[s].message]
    BY <1>1
  <1> QED BY <1>2 DEF PromiseStep, Promise!vars

\* A write of the current generation moves its request only.
LEMMA PromiseWrite ==
    ASSUME NEW r \in Requests, NEW state, NEW sessionState, Writes(r, state, sessionState),
           clicks' = clicks,
           \/ PhaseOf(state) = PhaseOf(outbox[r].state)
           \/ <<PhaseOf(outbox[r].state), PhaseOf(state)>> \in Moves
    PROVE  PromiseStep
  <1>1. /\ \A s \in Requests \ {r} : outbox'[s].state = outbox[s].state
        /\ \A s \in Requests : outbox'[s].message = outbox[s].message
        /\ outbox'[r].state = state
    BY DEF Writes
  <1> QED BY <1>1, PromiseMove

\* A failure before submission refuses an open request.
LEMMA PromiseFail ==
    ASSUME RowsOK, SessionOK, NEW r \in Requests,
           NEW error \in {"browser-unavailable", "other"}, FailPreSubmit(r, error),
           outbox[r].state \in {"prepared", "composer_filled"}, clicks' = clicks
    PROVE  PromiseStep
  <1>1. Writes(r, "failed_pre_submit", "ready")
    BY FailPreSubmitEffect
  <1>2. <<PhaseOf(outbox[r].state), PhaseOf("failed_pre_submit")>> \in Moves
    BY DEF PhaseOf, Moves
  <1> QED BY <1>1, <1>2, PromiseWrite

\* A decision to take leaves the request open.
LEMMA PromiseDecide ==
    ASSUME RowsOK, SessionOK, NEW r \in Requests, RecordPreparationRequired(r),
           clicks' = clicks
    PROVE  PromiseStep
  <1>1. Writes(r, outbox[r].state, session.state)
    BY RecordPreparationRequiredEffect
  <1> QED BY <1>1, PromiseWrite

\* An attempt without an acknowledgement becomes doubtful.
LEMMA PromiseDoubt ==
    ASSUME RowsOK, SessionOK, NEW r \in Requests, RecordSubmissionUnknown(r),
           outbox[r].state = "submit_attempted", clicks' = clicks
    PROVE  PromiseStep
  <1> DEFINE state == IF session.state \in TerminalStates THEN session.state ELSE "observing"
  <1>1. Writes(r, "submission_unknown", state)
    BY RecordSubmissionUnknownEffect
  <1>2. <<PhaseOf(outbox[r].state), PhaseOf("submission_unknown")>> \in Moves
    BY DEF PhaseOf, Moves
  <1> HIDE DEF state
  <1> QED BY <1>1, <1>2, PromiseWrite

\* A re-opened request was refused.
LEMMA PromiseReopen ==
    ASSUME RowsOK, SessionOK, NEW r \in Requests, NEW inspect \in BOOLEAN,
           Reopen(r, inspect), clicks' = clicks
    PROVE  PromiseStep
  <1>1. Writes(r, "prepared", "submitting") /\ outbox[r].state = "failed_pre_submit"
    BY ReopenEffect
  <1>2. <<PhaseOf(outbox[r].state), PhaseOf("prepared")>> \in Moves
    BY <1>1 DEF PhaseOf, Moves
  <1> QED BY <1>1, <1>2, PromiseWrite

\* A new generation is an accepted request.
LEMMA PromiseInsert ==
    ASSUME RowsOK, SessionOK, NEW r \in Requests, NEW kind, NEW origin, NEW error,
           InsertOutbox(r, kind, origin, error), outbox[r].message = NoRequest,
           clicks' = clicks
    PROVE  PromiseStep
  <1>1. /\ outbox[r].state = "none" /\ outbox'[r].state = "prepared"
        /\ \A s \in Requests \ {r} : outbox'[s] = outbox[s]
        /\ outbox'[r].message = NoRequest
    BY InsertEffect
  <1>2. <<PhaseOf(outbox[r].state), PhaseOf(outbox'[r].state)>> \in Moves
    BY <1>1 DEF PhaseOf, Moves
  <1>3. /\ \A s \in Requests \ {r} : outbox'[s].state = outbox[s].state
        /\ \A s \in Requests : outbox'[s].message = outbox[s].message
    BY <1>1
  <1> QED BY <1>2, <1>3, PromiseMove

\* A closed generation stays confirmed.
LEMMA PromiseClose ==
    ASSUME RowsOK, SessionOK, NEW r \in Requests, NEW reason, NEW state,
           Write(r, [outbox[r] EXCEPT !.reason = reason], state), clicks' = clicks
    PROVE  PromiseStep
  <1>1. \A s \in Requests : /\ outbox'[s].state = outbox[s].state
                            /\ outbox'[s].message = outbox[s].message
    BY CloseEffect
  <1> QED BY <1>1, PromiseQuiet

\* A delivered message nobody owns confirms the request.
LEMMA PromiseConfirm ==
    ASSUME RowsOK, SessionOK, DeliveredInv, NEW r \in Requests, NEW m \in Requests,
           Acknowledge(r, m), m \in delivered, ~Owned(m),
           outbox[r].state \in {"submit_attempted", "submission_unknown"}, clicks' = clicks
    PROVE  PromiseStep
  <1> DEFINE phase == [s \in Requests |-> PhaseOf(outbox[s].state)]
             proof == [s \in Requests |-> outbox[s].message]
  <1>1. /\ \A s \in Requests \ {r} : outbox'[s] = outbox[s]
        /\ outbox'[r].state = "submitted" /\ outbox'[r].message = m
    BY AcknowledgeEffect
  <1>2. PhaseOf(outbox'[r].state) = "confirmed"
    BY <1>1 DEF PhaseOf
  <1>3. phase' = [phase EXCEPT ![r] = "confirmed"]
    BY <1>1, <1>2
  <1>4. proof' = [proof EXCEPT ![r] = m]
    BY <1>1
  <1>5. phase[r] \in {"attempted", "doubtful"}
    BY DEF PhaseOf
  <1>6. clicks[m] = 1 /\ \A s \in Requests : proof[s] # m
    BY DEF DeliveredInv, Owned
  <1>7. Promise!Confirm(r, m)
    BY <1>3, <1>4, <1>5, <1>6 DEF Promise!Confirm, Promise!Become
  <1> QED BY <1>7 DEF PromiseStep, Promise!Next

\* The click of an attempted request that was not clicked.
LEMMA PromiseClick ==
    ASSUME ClickInv, NEW r \in Requests, Clicked(r)
    PROVE  PromiseStep
  <1>1. clicks \in [Requests -> Nat]
    BY DEF ClickInv, TypeInv, TypeOK
  <1>2. clicks' = [clicks EXCEPT ![r] = 1] /\ clicks[r] = 0 /\ outbox' = outbox
    BY <1>1 DEF Clicked, ClickSend
  <1>3. PhaseOf(outbox[r].state) \in {"attempted", "doubtful", "confirmed"}
    BY DEF Clicked, Attempted, PhaseOf
  <1>4. Promise!Click(r)
    BY <1>2, <1>3 DEF Promise!Click
  <1> QED BY <1>4 DEF PromiseStep, Promise!Next

PromiseInv == ClickInv /\ GenerationInv /\ DeliveredInv

\* The steps of a running submission.
LEMMA SubmitStepPromise == PromiseInv /\ SubmitStep => PromiseStep
  <1> SUFFICES ASSUME PromiseInv, SubmitStep PROVE PromiseStep
    OBVIOUS
  <1>0. /\ ClickInv /\ DeliveredInv /\ RowsOK /\ SessionOK /\ RestOK /\ SubmitShape
        /\ RunNeeds /\ Data
    BY TypeParts DEF PromiseInv, ClickInv, StoreOK, GenerationInv
  <1>q. ASSUME UNCHANGED durable, clicks' = clicks PROVE PromiseStep
    BY <1>q, PromiseQuiet DEF durable
  <1>j. job.kind = "submit" /\ job # Idle => job.req \in Requests /\ job.req = session.request
    BY <1>0, SubmissionUnfinished
  <1>p. ASSUME NEW pc \in {"open", "prepare", "verify"}, At(pc)
        PROVE  job.req \in Requests /\ outbox[job.req].state = "prepared"
    BY <1>0, <1>j, <1>p DEF At, Idle, SubmitShape
  <1>1. CASE OpenOk \/ EnterPrepare \/ PrepareThenVerify \/ SubmitReturns \/ SubmitTimesOut
    BY <1>1, <1>q DEF OpenOk, EnterPrepare, PrepareThenVerify, SubmitReturns, SubmitTimesOut,
       browser
  <1>2. CASE OpenNeedsDecision
    BY <1>0, <1>2, <1>p, PromiseDecide DEF OpenNeedsDecision, browser
  <1>3. CASE PrepareOk \/ VerifyOk
    <2>1. FillComposer /\ clicks' = clicks /\ job.req \in Requests
          /\ outbox[job.req].state = "prepared"
      BY <1>3, <1>p DEF PrepareOk, VerifyOk, browser
    <2>2. Writes(job.req, "composer_filled", session.state)
      BY <1>0, <2>1, FillComposerEffect
    <2>3. PhaseOf(outbox[job.req].state) = PhaseOf("composer_filled")
      BY <2>1 DEF PhaseOf
    <2> QED BY <2>1, <2>2, <2>3, PromiseWrite
  <1>4. CASE PreparationNeedsDecision
    BY <1>0, <1>4, <1>p, PromiseDecide DEF PreparationNeedsDecision, browser
  <1>5. CASE PrepareTimesOut
    BY <1>0, <1>5, <1>p, PromiseFail DEF PrepareTimesOut
  <1>6. ASSUME NEW error \in {"browser-unavailable", "other"}, OpenFails(error)
        PROVE  PromiseStep
    BY <1>0, <1>6, <1>p, PromiseFail DEF OpenFails, browser
  <1>7. ASSUME NEW error \in {"browser-unavailable", "other"}, PreparationFails(error)
        PROVE  PromiseStep
    BY <1>0, <1>7, <1>p, PromiseFail DEF PreparationFails, browser
  <1>8. CASE RecordAttempt
    <2>1. job.req \in Requests /\ outbox[job.req].state = "composer_filled"
      BY <1>0, <1>j, <1>8 DEF RecordAttempt, At, Idle, SubmitShape
    <2>2. Writes(job.req, "submit_attempted", "submitting")
      BY <1>0, <1>8, <2>1, RecordAttemptEffect
    <2>3. <<PhaseOf(outbox[job.req].state), PhaseOf("submit_attempted")>> \in Moves
      BY <2>1 DEF PhaseOf, Moves
    <2>4. clicks' = clicks
      BY <1>8 DEF RecordAttempt, browser
    <2> QED BY <2>1, <2>2, <2>3, <2>4, PromiseWrite
  <1>a. At("ack") => job.req \in Requests /\ outbox[job.req].state = "submit_attempted"
    BY <1>0, <1>j DEF At, Idle, SubmitShape
  <1>9. CASE AckCaptured
    BY <1>0, <1>9, <1>a, PromiseConfirm DEF AckCaptured, browser
  <1>10. CASE AckMissing
    BY <1>0, <1>10, <1>a, PromiseDoubt DEF AckMissing, browser
  <1>11. CASE Click
    <2>1. clicks' # clicks
      <3>1. clicks \in [Requests -> Nat] /\ job.req \in Requests
        BY <1>0, <1>11, <1>j DEF RestOK, Click, At, Idle
      <3> QED BY <1>11, <3>1 DEF Click, ClickSend
    <2>2. PICK r \in Requests : Clicked(r)
      BY <1>0, <1>11, <2>1, OnlyClicksClick DEF SubmitStep, Next
    <2> QED BY <1>0, <2>2, PromiseClick
  <1> QED BY <1>1, <1>2, <1>3, <1>4, <1>5, <1>6, <1>7, <1>8, <1>9, <1>10, <1>11
          DEF SubmitStep

\* The steps of any other running operation.
LEMMA PageStepPromise == PromiseInv /\ PageStep => PromiseStep
  <1> SUFFICES ASSUME PromiseInv, PageStep PROVE PromiseStep
    OBVIOUS
  <1>0. /\ ClickInv /\ DeliveredInv /\ RowsOK /\ SessionOK /\ RestOK
        /\ RunNeeds /\ Data
    BY TypeParts DEF PromiseInv, ClickInv, StoreOK, GenerationInv
  <1>q. ASSUME Quiet, clicks' = clicks PROVE PromiseStep
    BY <1>q, PromiseQuiet DEF Quiet, Same
  <1>r. job.pc = "page" \/ job.kind # "none" => job.req \in Requests
    BY <1>0 DEF RestOK, JobShape, Idle
  <1>1. CASE EnterPage \/ PageEnds
    BY <1>1, PromiseQuiet DEF EnterPage, PageEnds, durable, browser
  <1>2. CASE EnterRefresh
    BY <1>0, <1>2, <1>r, <1>q, InspectQuiet DEF EnterRefresh, browser
  <1>3. CASE FinishInspect
    BY <1>0, <1>3, <1>r, <1>q, InspectQuiet DEF FinishInspect, OnPage, Finish, browser
  <1>4. CASE FinishChoose
    BY <1>0, <1>4, <1>r, <1>q, InspectQuiet DEF FinishChoose, OnPage, Finish, browser
  <1>5. CASE FinishInspectReopening
    BY <1>0, <1>5, <1>r, PromiseReopen DEF FinishInspectReopening, OnPage, Finish, browser
  <1>6. CASE FinishRefreshReopening
    BY <1>0, <1>6, <1>r, PromiseReopen DEF FinishRefreshReopening, OnPage, Finish, browser
  <1>7. CASE FinishReopenResend
    BY <1>0, <1>7, <1>r, PromiseReopen DEF FinishReopenResend, OnPage, Finish, browser
  <1>8. CASE FinishCancel
    BY <1>0, <1>8, <1>r, PromiseFail DEF FinishCancel, OnPage, PreparationOwner, Finish,
       browser
  <1>9. CASE FinishAuthorizedResend
    <2>1. /\ job.next \in Requests /\ clicks' = clicks /\ outbox[job.next].state = "none"
          /\ InsertOutbox(job.next, "resend", job.req, "preparation-required")
      BY <1>0, <1>9 DEF FinishAuthorizedResend, OnPage, Finish, browser, RestOK, JobShape,
         InsertOutbox
    <2>2. outbox[job.next].message = NoRequest
      BY <1>0, <2>1 DEF Data, GenerationShape
    <2> QED BY <1>0, <2>1, <2>2, PromiseInsert
  <1>10. CASE FinishContinuation
    BY <1>0, <1>10, <1>r, PromiseClose DEF FinishContinuation, OnPage, Finish, browser
  <1>11. ASSUME NEW reason \in Reconciled, FinishReconcile(reason)
         PROVE  PromiseStep
    <2> DEFINE state == IF reason = "manual-followup" THEN "cancelled" ELSE "failed"
    <2>1. Write(job.req, [outbox[job.req] EXCEPT !.reason = reason], state)
          /\ clicks' = clicks /\ job.req \in Requests
      BY <1>11, <1>r DEF FinishReconcile, OnPage, Finish, browser
    <2> HIDE DEF state
    <2> QED BY <1>0, <2>1, PromiseClose
  <1>12. ASSUME NEW m \in Requests, FinishRecoverAcknowledgement(m)
         PROVE  PromiseStep
    <2>1. /\ Acknowledge(job.req, m) /\ m \in delivered /\ ~Owned(m) /\ clicks' = clicks
          /\ job.req \in Requests /\ outbox[job.req].state = "submission_unknown"
      BY <1>0, <1>12, <1>r DEF FinishRecoverAcknowledgement, OnPage, Finish, browser, RunNeeds
    <2> QED BY <1>0, <2>1, PromiseConfirm
  <1> QED BY <1>1, <1>2, <1>3, <1>4, <1>5, <1>6, <1>7, <1>8, <1>9, <1>10, <1>11, <1>12
          DEF PageStep

\* Starting an operation: an acceptance, a replay, or nothing a caller sees.
LEMMA BeginStepPromise == PromiseInv /\ BeginStep => PromiseStep
  <1> SUFFICES ASSUME PromiseInv, BeginStep PROVE PromiseStep
    OBVIOUS
  <1>0. RowsOK /\ SessionOK /\ Data
    BY TypeParts DEF PromiseInv, ClickInv, StoreOK, GenerationInv
  <1>q. ASSUME outbox' = outbox, clicks' = clicks PROVE PromiseStep
    BY <1>q, PromiseQuiet
  <1>1. ASSUME NEW r \in Requests, NEW origin \in Maybe, Send(r, origin)
        PROVE  PromiseStep
    <2>1. clicks' = clicks /\ outbox[r].state = "none"
          /\ InsertOutbox(r, IF origin = NoRequest THEN "plain" ELSE "continuation",
                          origin, "none")
      BY <1>1 DEF Send, browser, InsertOutbox
    <2>2. outbox[r].message = NoRequest
      BY <1>0, <2>1 DEF Data, GenerationShape
    <2> QED BY <1>0, <2>1, <2>2, PromiseInsert
  <1>2. ASSUME NEW r \in Requests, ReplayAttempted(r)
        PROVE  PromiseStep
    BY <1>0, <1>2, PromiseDoubt DEF ReplayAttempted, browser
  <1>3. ASSUME NEW r \in Requests, ReplayUnattempted(r)
        PROVE  PromiseStep
    BY <1>0, <1>3, PromiseFail DEF ReplayUnattempted, browser
  <1>4. ASSUME NEW r \in Requests,
               \/ ResumePreparation(r) \/ BeginInspect(r)
               \/ \E kind \in {"choose", "cancel"} : BeginDecision(r, kind)
               \/ \E reopen \in BOOLEAN : BeginRefresh(r, reopen)
               \/ BeginRecoverAcknowledgement(r)
               \/ \E o \in Requests : BeginAuthorizedResend(o, r)
               \/ BeginReopenResend(r) \/ BeginContinuation(r) \/ BeginReconcile(r)
        PROVE  PromiseStep
    BY <1>4, <1>q DEF ResumePreparation, BeginInspect, BeginDecision, BeginRefresh,
       BeginRecoverAcknowledgement, BeginAuthorizedResend, BeginReopenResend,
       BeginContinuation, BeginReconcile, Begin, durable, browser
  <1>5. ASSUME NEW state \in {"observing", "complete"}, ObserveUpdate(state)
        PROVE  PromiseStep
    BY <1>5, <1>q DEF ObserveUpdate, browser
  <1>6. CASE Stop \/ RetireRole \/ ReplaceSession \/ BeginTeamDeletion \/ RetireDeletedConversation
    BY <1>6, <1>q DEF Stop, RetireRole, ReplaceSession, LeaveRole, BeginTeamDeletion,
       RetireDeletedConversation, browser
  <1> QED BY <1>1, <1>2, <1>3, <1>4, <1>5, <1>6 DEF BeginStep

\* The recovery of startCore refuses what was not attempted and doubts the rest.
LEMMA BootStepPromise == PromiseInv /\ BootStep => PromiseStep
  <1> SUFFICES ASSUME PromiseInv, BootStep PROVE PromiseStep
    OBVIOUS
  <1>0. RowsOK /\ SessionOK
    BY TypeParts DEF PromiseInv, ClickInv, StoreOK
  <1>1. ASSUME NEW r \in Requests, KeepPreparation(r)
        PROVE  PromiseStep
    BY <1>0, <1>1, InspectQuiet, PromiseQuiet DEF KeepPreparation, Quiet, Same, browser
  <1>2. ASSUME NEW r \in Requests, FailInterrupted(r)
        PROVE  PromiseStep
    BY <1>0, <1>2, PromiseFail DEF FailInterrupted, Interrupted, browser
  <1>3. ASSUME NEW r \in Requests, RecoverAttempted(r)
        PROVE  PromiseStep
    BY <1>0, <1>3, PromiseDoubt DEF RecoverAttempted, browser
  <1>4. CASE PreSubmissionsRecovered \/ SubmissionsRecovered
    BY <1>4, PromiseQuiet DEF PreSubmissionsRecovered, SubmissionsRecovered, durable, browser
  <1> QED BY <1>1, <1>2, <1>3, <1>4 DEF BootStep

\* Late clicks are the promise's; everything else is invisible to a caller.
LEMMA OutsideStepPromise ==
    PromiseInv /\ (BrowserStep \/ RetireActor \/ Crash) => PromiseStep
  <1> SUFFICES ASSUME PromiseInv, BrowserStep \/ RetireActor \/ Crash PROVE PromiseStep
    OBVIOUS
  <1>1. ClickInv /\ outbox' = outbox
    BY DEF PromiseInv, BrowserStep, DrainSettles, LateClick, LateCommandFails, RetireActor,
       Crash, durable
  <1>2. UNCHANGED <<clicks, delivered>> \/ \E r \in Requests : Clicked(r)
    BY <1>1, OnlyClicksClick DEF Next
  <1>3. CASE UNCHANGED <<clicks, delivered>>
    BY <1>1, <1>3, PromiseQuiet
  <1>4. CASE \E r \in Requests : Clicked(r)
    BY <1>1, <1>4, PromiseClick
  <1> QED BY <1>2, <1>3, <1>4

\* A caller of session.send may rely on AtMostOnceSend, for any requests and
\* any number of crashes.
THEOREM PromiseKept == Spec => ImplementsPromise
  <1>1. Init => Promise!Init
    <2> SUFFICES ASSUME Init PROVE Promise!Init
      OBVIOUS
    <2>1. \A r \in Requests : PhaseOf(outbox[r].state) = "idle" /\ outbox[r].message = NoRequest
      BY DEF Init, NoRow, PhaseOf
    <2> QED BY <2>1 DEF Init, Promise!Init
  <1>2. PromiseInv /\ [Next]_vars => [Promise!Next]_Promise!vars
    <2>1. PromiseInv /\ Next => PromiseStep
      BY SubmitStepPromise, PageStepPromise, BeginStepPromise, BootStepPromise,
         OutsideStepPromise DEF Next
    <2>2. UNCHANGED vars => PromiseStep
      BY PromiseQuiet DEF vars
    <2> QED BY <2>1, <2>2 DEF PromiseStep
  <1>3. Spec => []PromiseInv
    BY ClickInvariant, GenerationInvariant, DeliveredInvariant, PTL DEF PromiseInv
  <1> QED BY <1>1, <1>2, <1>3, PTL DEF Spec, ImplementsPromise, Promise!Spec

-----------------------------------------------------------------------------
(* Attempts have an owner.  AttemptIsResolved needs fairness and stays with *)
(* TLC; what makes it true is proved here: while the session's role is      *)
(* current, an attempt is being driven by the operation that recorded it or *)
(* waits for the recovery of startCore.  It rests on the actor's snapshot   *)
(* being the rows', or its refused publication would leave an attempt       *)
(* behind, and on no operation finding its session ended under it.          *)

\* The run that recorded the attempt has not settled it yet.
Owns(r) ==
    /\ job.kind = "submit" /\ job.pc \in {"click", "clicked", "ack"}
    /\ job.req = r

\* An attempt of a current role is driven by a running operation, or the core
\* is still starting: it never just stays behind (runPreparedSubmission).
AttemptIsOwned ==
    \A r \in Requests :
        outbox[r].state = "submit_attempted" => Owns(r) \/ boot # "up" \/ ~RoleIsCurrent

\* What the actor shows its clients is what the rows say (SessionActor.publish).
ActorShowsTheRows == RoleIsCurrent /\ view # NoActor => view = Snapshot

\* Both, with the session's state under a running operation and after a refusal.
Attended ==
    /\ view = NoActor \/ view = Snapshot
    /\ job.kind \in {"submit", "recover"} => session.state \notin TerminalStates
    /\ session.request # NoRequest /\ outbox[session.request].state = "failed_pre_submit" =>
           session.state = "ready"
    /\ \A r \in Requests : outbox[r].state = "submit_attempted" => Owns(r) \/ boot # "up"

OwnershipInv == RoleIsCurrent => Attended

\* A write of the current generation, seen from these properties.
Sets(r, state, sessionState) ==
    /\ r \in Requests /\ r = session.request
    /\ \A s \in Requests \ {r} : outbox'[s] = outbox[s]
    /\ outbox'[r].state = state
    /\ session'.request = r /\ session'.state = sessionState
    /\ session'.role = session.role

\* updateCurrentGeneration sets one row and the session's state.
LEMMA WriteSets ==
    ASSUME RowsOK, SessionOK, NEW r \in Requests, NEW row, NEW state, Write(r, row, state)
    PROVE  Sets(r, row.state, state)
  BY DEF RowsOK, SessionOK, Write, Sets

\* What the shared transactions write.
LEMMA TransactionSets ==
    ASSUME RowsOK, SessionOK, NEW r \in Requests
    PROVE  /\ \A error : FailPreSubmit(r, error) => Sets(r, "failed_pre_submit", "ready")
           /\ RecordPreparationRequired(r) => Sets(r, outbox[r].state, session.state)
           /\ RecordSubmissionUnknown(r) =>
                  Sets(r, "submission_unknown",
                        IF session.state \in TerminalStates THEN session.state ELSE "observing")
           /\ \A m : Acknowledge(r, m) => Sets(r, "submitted", "submitted")
           /\ \A inspect : Reopen(r, inspect) => Sets(r, "prepared", "submitting")
           /\ \A reason, state : Write(r, [outbox[r] EXCEPT !.reason = reason], state) =>
                  Sets(r, outbox[r].state, state)
  <1>1. outbox[r] \in Row
    BY DEF RowsOK
  <1>2. ASSUME NEW error, FailPreSubmit(r, error) PROVE Sets(r, "failed_pre_submit", "ready")
    <2> DEFINE row == [outbox[r] EXCEPT !.state = "failed_pre_submit", !.error = error,
                                        !.inspect = FALSE]
    <2>1. row.state = "failed_pre_submit" /\ Write(r, row, "ready")
      BY <1>1, <1>2 DEF Row, FailPreSubmit
    <2> HIDE DEF row
    <2>2. Sets(r, row.state, "ready")
      BY <2>1, WriteSets
    <2> QED BY <2>1, <2>2
  <1>3. ASSUME RecordPreparationRequired(r) PROVE Sets(r, outbox[r].state, session.state)
    <2> DEFINE row == [outbox[r] EXCEPT !.error = "preparation-required", !.inspect = FALSE]
    <2>1. row.state = outbox[r].state /\ Write(r, row, session.state)
      BY <1>1, <1>3 DEF Row, RecordPreparationRequired
    <2> HIDE DEF row
    <2>2. Sets(r, row.state, session.state)
      BY <2>1, WriteSets
    <2> QED BY <2>1, <2>2
  <1>4. ASSUME RecordSubmissionUnknown(r)
        PROVE  Sets(r, "submission_unknown",
                     IF session.state \in TerminalStates THEN session.state ELSE "observing")
    <2> DEFINE row == [outbox[r] EXCEPT !.state = "submission_unknown", !.error = "other"]
               state == IF session.state \in TerminalStates THEN session.state ELSE "observing"
    <2>1. row.state = "submission_unknown" /\ Write(r, row, state)
      BY <1>1, <1>4 DEF Row, RecordSubmissionUnknown
    <2> HIDE DEF row, state
    <2>2. Sets(r, row.state, state)
      BY <2>1, WriteSets
    <2> QED BY <2>1, <2>2 DEF state
  <1>5. ASSUME NEW m, Acknowledge(r, m) PROVE Sets(r, "submitted", "submitted")
    <2> DEFINE row == [outbox[r] EXCEPT !.state = "submitted", !.error = "none", !.message = m]
    <2>1. row.state = "submitted" /\ Write(r, row, "submitted")
      BY <1>1, <1>5 DEF Row, Acknowledge
    <2> HIDE DEF row
    <2>2. Sets(r, row.state, "submitted")
      BY <2>1, WriteSets
    <2> QED BY <2>1, <2>2
  <1>6. ASSUME NEW inspect, Reopen(r, inspect) PROVE Sets(r, "prepared", "submitting")
    <2> DEFINE row == [outbox[r] EXCEPT !.state = "prepared", !.error = "preparation-required",
                                        !.inspect = inspect]
    <2>1. row.state = "prepared" /\ Write(r, row, "submitting")
      BY <1>1, <1>6 DEF Row, Reopen
    <2> HIDE DEF row
    <2>2. Sets(r, row.state, "submitting")
      BY <2>1, WriteSets
    <2> QED BY <2>1, <2>2
  <1>7. ASSUME NEW reason, NEW state, Write(r, [outbox[r] EXCEPT !.reason = reason], state)
        PROVE  Sets(r, outbox[r].state, state)
    <2> DEFINE row == [outbox[r] EXCEPT !.reason = reason]
    <2>1. row.state = outbox[r].state /\ Write(r, row, state)
      BY <1>1, <1>7 DEF Row
    <2> HIDE DEF row
    <2>2. Sets(r, row.state, state)
      BY <2>1, WriteSets
    <2> QED BY <2>1, <2>2
  <1> QED BY <1>2, <1>3, <1>4, <1>5, <1>6, <1>7

\* An actor that showed the rows shows what is published, unless a terminal
\* snapshot of the same generation would be taken back.
LEMMA PublishShows ==
    ASSUME Attended, Publish,
           ~(Terminal(Snapshot) /\ Snapshot.request = Snapshot'.request /\ ~Terminal(Snapshot'))
    PROVE  view' = Snapshot' /\ ~Downgraded
  <1>1. Attached = Snapshot
    BY DEF Attended, Attached
  <1>2. ~Downgraded
    BY <1>1 DEF Downgraded
  <1> QED BY <1>2 DEF Publish

\* The snapshot of a written generation.
LEMMA SetSnapshot ==
    ASSUME NEW r, NEW state, NEW sessionState, Sets(r, state, sessionState)
    PROVE  /\ Snapshot.request = r /\ Snapshot.state = session.state
           /\ Snapshot.submission = outbox[r].state
           /\ Snapshot'.request = r /\ Snapshot'.state = sessionState
           /\ Snapshot'.submission = state
  BY NoRequestIsNoRequest DEF Sets, Snapshot

\* No write of these takes an end back.
MayFollow(r, state, sessionState) ==
    session.state \in TerminalStates \/ outbox[r].state = "failed_pre_submit" =>
        sessionState \in TerminalStates \/ state = "failed_pre_submit"

\* Publication of a write that takes no end back is not refused.
LEMMA SetShows ==
    ASSUME Attended, Publish, NEW r, NEW state, NEW sessionState,
           Sets(r, state, sessionState), MayFollow(r, state, sessionState)
    PROVE  view' = Snapshot' /\ ~Downgraded
  <1>1. Terminal(Snapshot) => Terminal(Snapshot')
    BY SetSnapshot DEF Terminal, MayFollow
  <1> QED BY <1>1, PublishShows

\* A write, published, with which an operation or a step of the recovery ends.
LEMMA SetEnds ==
    ASSUME OwnershipInv, NEW r, NEW state, NEW sessionState, Sets(r, state, sessionState),
           Publish, RoleIsCurrent => MayFollow(r, state, sessionState),
           state # "submit_attempted", state = "failed_pre_submit" => sessionState = "ready",
           job' = Idle, boot' = boot, job.kind = "submit" => job.req = r
    PROVE  OwnershipInv'
  <1> SUFFICES ASSUME RoleIsCurrent' PROVE Attended'
    BY DEF OwnershipInv
  <1>1. RoleIsCurrent /\ Attended
    BY DEF Sets, RoleIsCurrent, OwnershipInv
  <1>2. view' = Snapshot'
    BY <1>1, SetShows
  <1>3. job'.kind \notin {"submit", "recover"}
    BY DEF Idle
  <1>4. session'.request # NoRequest /\ outbox'[session'.request].state = "failed_pre_submit" =>
            session'.state = "ready"
    BY DEF Sets
  <1>5. ASSUME NEW s \in Requests, outbox'[s].state = "submit_attempted" PROVE boot' # "up"
    <2>1. s # r /\ outbox[s].state = "submit_attempted"
      BY <1>5 DEF Sets
    <2>2. ~Owns(s)
      BY <2>1 DEF Owns
    <2> QED BY <1>1, <2>1, <2>2 DEF Attended
  <1> QED BY <1>2, <1>3, <1>4, <1>5 DEF Attended

\* A step that writes none of this and takes no attempt from its owner.
LEMMA QuietOwns ==
    ASSUME OwnershipInv, SessionOK, Quiet, session'.role = session.role,
           boot' = boot \/ boot' # "up",
           view' \in {view, Attached, NoActor} \/ Publish,
           job'.kind \in {"submit", "recover"} =>
               job'.kind = job.kind \/ session.state \notin TerminalStates,
           boot' = "up" => \A r \in Requests : Owns(r) => Owns(r)'
    PROVE  OwnershipInv'
  <1> SUFFICES ASSUME RoleIsCurrent' PROVE Attended'
    BY DEF OwnershipInv
  <1>1. RoleIsCurrent /\ Attended
    BY DEF RoleIsCurrent, OwnershipInv
  <1>2. session.request \in Requests \/ session.request = NoRequest
    BY DEF SessionOK, Maybe
  <1>3. Snapshot' = Snapshot
    BY <1>2 DEF Snapshot, Quiet, Same
  <1>4. Attached = Snapshot
    BY <1>1 DEF Attended, Attached
  <1>5. Publish => view' = Snapshot'
    BY <1>1, <1>3, PublishShows
  <1>6. view' = NoActor \/ view' = Snapshot'
    BY <1>1, <1>3, <1>4, <1>5 DEF Attended
  <1>7. job'.kind \in {"submit", "recover"} => session'.state \notin TerminalStates
    BY <1>1 DEF Attended, Quiet
  <1>8. session'.request # NoRequest /\ outbox'[session'.request].state = "failed_pre_submit" =>
            session'.state = "ready"
    BY <1>1, <1>2 DEF Attended, Quiet, Same
  <1>9. \A s \in Requests : outbox'[s].state = "submit_attempted" => Owns(s)' \/ boot' # "up"
    BY <1>1 DEF Attended, Quiet, Same
  <1> QED BY <1>6, <1>7, <1>8, <1>9 DEF Attended

\* The recorded attempt belongs to the run that goes on to click: its
\* publication is refused to a session whose role is gone only.
LEMMA RecordAttemptOwns ==
    ASSUME ClickInv, GenerationInv, OwnershipInv, RecordAttempt
    PROVE  OwnershipInv'
  <1> SUFFICES ASSUME RoleIsCurrent' PROVE Attended'
    BY DEF OwnershipInv
  <1>0. RowsOK /\ SessionOK /\ RestOK /\ SubmitShape /\ RunNeeds
    BY TypeParts DEF ClickInv, StoreOK, GenerationInv
  <1>1. /\ job.kind = "submit" /\ job.pc = "filled"
        /\ job.req \in Requests /\ job.req = session.request
        /\ outbox[job.req].state = "composer_filled"
    BY <1>0, SubmissionUnfinished DEF RecordAttempt, At, Idle, SubmitShape
  <1>2. Sets(job.req, "submit_attempted", "submitting")
    <2> DEFINE row == [outbox[job.req] EXCEPT !.state = "submit_attempted"]
    <2>1. row.state = "submit_attempted" /\ Write(job.req, row, "submitting")
      BY <1>0, <1>1 DEF RowsOK, Row, RecordAttempt
    <2> HIDE DEF row
    <2>2. Sets(job.req, row.state, "submitting")
      BY <1>0, <1>1, <2>1, WriteSets
    <2> QED BY <2>1, <2>2
  <1>3. RoleIsCurrent /\ Attended
    BY <1>2 DEF Sets, RoleIsCurrent, OwnershipInv
  <1>4. MayFollow(job.req, "submit_attempted", "submitting")
    BY <1>1, <1>3 DEF Attended, MayFollow
  <1>5. view' = Snapshot' /\ ~Downgraded
    BY <1>2, <1>3, <1>4, SetShows DEF RecordAttempt
  <1>6. job'.kind = "submit" /\ job'.pc = "click" /\ job'.req = job.req
    BY <1>0, <1>1, <1>5 DEF RecordAttempt, RestOK, Job, Goto
  <1>7. session'.state = "submitting" /\ session'.request = job.req
        /\ outbox'[job.req].state = "submit_attempted" /\ boot' = boot
    BY <1>2 DEF Sets, RecordAttempt
  <1>8. ASSUME NEW s \in Requests, outbox'[s].state = "submit_attempted"
        PROVE  Owns(s)' \/ boot' # "up"
    <2>1. CASE s = job.req
      BY <1>6, <2>1 DEF Owns
    <2>2. CASE s # job.req
      <3>1. outbox[s].state = "submit_attempted"
        BY <1>2, <1>8, <2>2 DEF Sets
      <3> QED BY <1>3, <1>7, <2>2, <3>1 DEF Attended, Owns
    <2> QED BY <2>1, <2>2
  <1>9. session'.state \notin TerminalStates
    BY <1>7 DEF TerminalStates
  <1> QED BY <1>5, <1>7, <1>8, <1>9 DEF Attended

\* A filled composer is not an attempt yet, and its session has not ended.
LEMMA FillComposerOwns ==
    ASSUME ClickInv, GenerationInv, OwnershipInv, job.kind = "submit",
           job.pc \in {"prepare", "verify"}, FillComposer, boot' = boot
    PROVE  OwnershipInv'
  <1> SUFFICES ASSUME RoleIsCurrent' PROVE Attended'
    BY DEF OwnershipInv
  <1>0. RowsOK /\ SessionOK /\ RestOK /\ SubmitShape /\ RunNeeds
    BY TypeParts DEF ClickInv, StoreOK, GenerationInv
  <1>1. /\ job.req \in Requests /\ job.req = session.request
        /\ outbox[job.req].state = "prepared"
    BY <1>0, SubmissionUnfinished DEF Idle, SubmitShape
  <1>2. Sets(job.req, "composer_filled", session.state)
    <2> DEFINE row == [outbox[job.req] EXCEPT !.state = "composer_filled", !.error = "none",
                                              !.inspect = FALSE]
    <2>1. row.state = "composer_filled" /\ Write(job.req, row, session.state)
      BY <1>0, <1>1 DEF RowsOK, Row, FillComposer
    <2> HIDE DEF row
    <2>2. Sets(job.req, row.state, session.state)
      BY <1>0, <1>1, <2>1, WriteSets
    <2> QED BY <2>1, <2>2
  <1>3. RoleIsCurrent /\ Attended
    BY <1>2 DEF Sets, RoleIsCurrent, OwnershipInv
  <1>4. MayFollow(job.req, "composer_filled", session.state)
    BY <1>1 DEF MayFollow
  <1>5. view' = Snapshot'
    BY <1>2, <1>3, <1>4, SetShows DEF FillComposer
  <1>6. session'.state \notin TerminalStates
    BY <1>2, <1>3 DEF Sets, Attended
  <1>7. session'.request = job.req /\ outbox'[job.req].state = "composer_filled"
    BY <1>2 DEF Sets
  <1>8. ASSUME NEW s \in Requests, outbox'[s].state = "submit_attempted" PROVE boot' # "up"
    <2>1. outbox[s].state = "submit_attempted"
      BY <1>2, <1>8 DEF Sets
    <2> QED BY <1>3, <2>1 DEF Attended, Owns
  <1> QED BY <1>5, <1>6, <1>7, <1>8 DEF Attended

\* The steps of a running submission (#runPreparedSubmission).
LEMMA SubmitStepOwns == ClickInv /\ GenerationInv /\ OwnershipInv /\ SubmitStep => OwnershipInv'
  <1> SUFFICES ASSUME ClickInv, GenerationInv, OwnershipInv, SubmitStep PROVE OwnershipInv'
    OBVIOUS
  <1>0. RowsOK /\ SessionOK /\ RestOK /\ SubmitShape /\ RunNeeds
    BY TypeParts DEF ClickInv, StoreOK, GenerationInv
  <1>1. /\ job.kind = "submit" /\ job.req \in Requests /\ job.req = session.request
        /\ outbox[job.req].state \notin {"submitted", "failed_pre_submit"}
    <2>1. job.kind = "submit"
      BY DEF SubmitStep, OpenOk, OpenNeedsDecision, EnterPrepare, PrepareOk,
         PrepareThenVerify, VerifyOk, PreparationNeedsDecision, PrepareTimesOut, OpenFails,
         PreparationFails, RecordAttempt, Click, SubmitReturns, SubmitTimesOut, AckCaptured,
         AckMissing, At
    <2> QED BY <1>0, <2>1, SubmissionUnfinished DEF Idle
  <1>f. ASSUME NEW error, FailPreSubmit(job.req, error), job' = Idle, boot' = boot
        PROVE  OwnershipInv'
    <2>1. Sets(job.req, "failed_pre_submit", "ready") /\ Publish
      BY <1>0, <1>1, <1>f, TransactionSets DEF FailPreSubmit
    <2>2. MayFollow(job.req, "failed_pre_submit", "ready")
      BY DEF MayFollow
    <2> QED BY <1>f, <2>1, <2>2, SetEnds
  <1>p. ASSUME RecordPreparationRequired(job.req), job' = Idle, boot' = boot,
               outbox[job.req].state = "prepared"
        PROVE  OwnershipInv'
    <2>1. Sets(job.req, "prepared", session.state) /\ Publish
      BY <1>0, <1>1, <1>p, TransactionSets DEF RecordPreparationRequired
    <2>2. MayFollow(job.req, "prepared", session.state)
      BY <1>1 DEF MayFollow
    <2> QED BY <1>p, <2>1, <2>2, SetEnds
  <1>q. ASSUME UNCHANGED durable, view' = view \/ Publish, boot' = boot,
               \/ job.pc \in {"open", "lock", "prepare"} /\
                  (job' = Idle \/ \E pc \in Pcs : Goto(pc))
               \/ \E pc \in {"clicked", "ack"} : Goto(pc)
        PROVE  OwnershipInv'
    <2>1. Quiet /\ session'.role = session.role
      BY <1>q DEF durable, Quiet, Same
    <2>2. job'.kind \in {"submit", "none"}
      BY <1>0, <1>1, <1>q DEF RestOK, Job, Goto, Idle
    <2>3. ASSUME NEW r \in Requests, Owns(r) PROVE Owns(r)'
      BY <1>0, <1>q, <2>3 DEF Owns, RestOK, Job, Goto
    <2> QED BY <1>0, <1>1, <1>q, <2>1, <2>2, <2>3, QuietOwns
  <1>2. CASE OpenOk
    BY <1>2, <1>q DEF OpenOk, At, Pcs
  <1>3. CASE OpenNeedsDecision
    BY <1>0, <1>3, <1>p DEF OpenNeedsDecision, At, SubmitShape
  <1>4. CASE EnterPrepare
    BY <1>4, <1>q DEF EnterPrepare, At, Pcs
  <1>5. CASE PrepareOk
    BY <1>5, FillComposerOwns DEF PrepareOk, At
  <1>6. CASE PrepareThenVerify
    BY <1>6, <1>q DEF PrepareThenVerify, At, Pcs
  <1>7. CASE VerifyOk
    BY <1>7, FillComposerOwns DEF VerifyOk, At
  <1>8. CASE PreparationNeedsDecision
    BY <1>0, <1>8, <1>p DEF PreparationNeedsDecision, At, SubmitShape
  <1>9. CASE PrepareTimesOut
    BY <1>9, <1>f DEF PrepareTimesOut
  <1>10. ASSUME NEW error \in {"browser-unavailable", "other"}, OpenFails(error)
         PROVE  OwnershipInv'
    BY <1>10, <1>f DEF OpenFails
  <1>11. ASSUME NEW error \in {"browser-unavailable", "other"}, PreparationFails(error)
         PROVE  OwnershipInv'
    BY <1>11, <1>f DEF PreparationFails
  <1>12. CASE RecordAttempt
    BY <1>12, RecordAttemptOwns
  <1>13. CASE Click
    BY <1>13, <1>q DEF Click
  <1>14. CASE SubmitReturns
    BY <1>14, <1>q DEF SubmitReturns
  <1>15. CASE SubmitTimesOut
    BY <1>15, <1>q DEF SubmitTimesOut
  <1>16. CASE AckCaptured
    <2>1. Sets(job.req, "submitted", "submitted") /\ Publish
      BY <1>0, <1>1, <1>16, TransactionSets DEF AckCaptured, Acknowledge
    <2>2. RoleIsCurrent => MayFollow(job.req, "submitted", "submitted")
      BY <1>1 DEF OwnershipInv, Attended, MayFollow
    <2> QED BY <1>16, <2>1, <2>2, SetEnds DEF AckCaptured
  <1>17. CASE AckMissing
    <2> DEFINE state == IF session.state \in TerminalStates THEN session.state ELSE "observing"
    <2>1. Sets(job.req, "submission_unknown", state) /\ Publish
      BY <1>0, <1>1, <1>17, TransactionSets DEF AckMissing, RecordSubmissionUnknown
    <2>2. MayFollow(job.req, "submission_unknown", state)
      BY <1>1 DEF MayFollow
    <2> HIDE DEF state
    <2> QED BY <1>17, <2>1, <2>2, SetEnds DEF AckMissing
  <1> QED BY <1>2, <1>3, <1>4, <1>5, <1>6, <1>7, <1>8, <1>9, <1>10, <1>11, <1>12, <1>13,
             <1>14, <1>15, <1>16, <1>17 DEF SubmitStep

\* Re-opening: the actor shows exactly the refusal publishResumedPreparation
\* asks for, so it takes the re-opened preparation.
LEMMA ReopenOwns ==
    ASSUME OwnershipInv, RowsOK, SessionOK, NEW r \in Requests, NEW inspect,
           Reopen(r, inspect), job.kind # "submit", job' = Idle, boot' = boot
    PROVE  OwnershipInv'
  <1> SUFFICES ASSUME RoleIsCurrent' PROVE Attended'
    BY DEF OwnershipInv
  <1>1. Sets(r, "prepared", "submitting") /\ outbox[r].state = "failed_pre_submit" /\ PublishResumed
    BY TransactionSets DEF Reopen
  <1>2. RoleIsCurrent /\ Attended
    BY <1>1 DEF Sets, RoleIsCurrent, OwnershipInv
  <1>3. r = session.request /\ r # NoRequest /\ session.state = "ready"
    BY <1>1, <1>2, NoRequestIsNoRequest DEF Sets, Attended
  <1>4. /\ Snapshot.request = r /\ Snapshot.state = "ready"
        /\ Snapshot.submission = "failed_pre_submit" /\ Snapshot'.request = r
    BY <1>1, <1>3, SetSnapshot
  <1>5. view' = NoActor \/ view' = Snapshot'
    BY <1>2, <1>1, <1>3, <1>4 DEF Attended, PublishResumed, NoActor
  <1>6. session'.request = r /\ outbox'[r].state = "prepared" /\ job'.kind = "none"
    BY <1>1 DEF Sets, Idle
  <1>7. ASSUME NEW s \in Requests, outbox'[s].state = "submit_attempted" PROVE boot' # "up"
    <2>1. outbox[s].state = "submit_attempted" /\ ~Owns(s)
      BY <1>1, <1>7 DEF Sets, Owns
    <2> QED BY <1>2, <2>1 DEF Attended
  <1> QED BY <1>5, <1>6, <1>7 DEF Attended

\* A new generation takes the actor over: no publication of it is refused.
LEMMA InsertOwns ==
    ASSUME OwnershipInv, RowsOK, SessionOK, NEW r \in Requests, NEW kind, NEW origin, NEW error,
           InsertOutbox(r, kind, origin, error), r # session.request, job.kind # "submit",
           boot' = boot
    PROVE  OwnershipInv'
  <1> SUFFICES ASSUME RoleIsCurrent' PROVE Attended'
    BY DEF OwnershipInv
  <1>1. /\ RoleIsCurrent
        /\ \A s \in Requests \ {r} : outbox'[s] = outbox[s]
        /\ outbox'[r].state = "prepared"
        /\ session'.request = r /\ session'.state = "submitting"
    BY InsertEffect
  <1>2. Attended
    BY <1>1 DEF OwnershipInv
  <1>3. Snapshot.request # Snapshot'.request
    BY <1>1 DEF Snapshot
  <1>4. view' = Snapshot'
    BY <1>2, <1>3, PublishShows DEF InsertOutbox
  <1>5. ASSUME NEW s \in Requests, outbox'[s].state = "submit_attempted" PROVE boot' # "up"
    <2>1. outbox[s].state = "submit_attempted" /\ ~Owns(s)
      BY <1>1, <1>5 DEF Owns
    <2> QED BY <1>2, <2>1 DEF Attended
  <1>6. session'.state \notin TerminalStates /\ outbox'[session'.request].state # "failed_pre_submit"
    BY <1>1 DEF TerminalStates
  <1> QED BY <1>4, <1>5, <1>6 DEF Attended

\* The steps of any other running operation.
LEMMA PageStepOwns == ClickInv /\ GenerationInv /\ OwnershipInv /\ PageStep => OwnershipInv'
  <1> SUFFICES ASSUME ClickInv, GenerationInv, OwnershipInv, PageStep PROVE OwnershipInv'
    OBVIOUS
  <1>0. RowsOK /\ SessionOK /\ RestOK /\ SubmitShape /\ RunNeeds
    BY TypeParts DEF ClickInv, StoreOK, GenerationInv
  <1>1. job.kind # "submit" /\ boot' = boot
    BY <1>0 DEF PageStep, EnterPage, EnterRefresh, PageEnds, FinishInspect,
       FinishInspectReopening, FinishChoose, FinishCancel, FinishRefreshReopening,
       FinishAuthorizedResend, FinishReopenResend, FinishContinuation, FinishReconcile,
       FinishRecoverAcknowledgement, OnPage, Finish, SubmitShape
  <1>r. job.pc = "page" \/ job.kind = "refresh" => job.req \in Requests
    BY <1>0 DEF RestOK, JobShape, Idle
  <1>q. ASSUME Quiet, session'.role = session.role, view' = view \/ Publish,
               job' = Idle \/ Goto("page")
        PROVE  OwnershipInv'
    <2>1. job'.kind \in {"none", job.kind}
      BY <1>0, <1>q DEF RestOK, Job, Goto, Idle
    <2>2. \A r \in Requests : ~Owns(r)
      BY <1>1 DEF Owns
    <2> QED BY <1>0, <1>1, <1>q, <2>1, <2>2, QuietOwns
  <1>d. UNCHANGED durable => Quiet /\ session'.role = session.role
    BY DEF durable, Quiet, Same
  <1>2. CASE EnterPage
    BY <1>2, <1>d, <1>q DEF EnterPage
  <1>3. CASE EnterRefresh
    <2>1. Quiet
      BY <1>0, <1>3, <1>r, InspectQuiet DEF EnterRefresh
    <2> QED BY <1>3, <1>q, <2>1 DEF EnterRefresh
  <1>4. CASE PageEnds
    BY <1>4, <1>d, <1>q DEF PageEnds
  <1>5. CASE FinishInspect
    <2>1. Quiet
      BY <1>0, <1>5, <1>r, InspectQuiet DEF FinishInspect, OnPage
    <2> QED BY <1>5, <1>q, <2>1 DEF FinishInspect, Finish
  <1>6. CASE FinishInspectReopening
    BY <1>0, <1>1, <1>6, <1>r, ReopenOwns DEF FinishInspectReopening, OnPage, Finish
  <1>7. CASE FinishChoose
    <2>1. Quiet
      BY <1>0, <1>7, <1>r, InspectQuiet DEF FinishChoose, OnPage
    <2> QED BY <1>7, <1>q, <2>1 DEF FinishChoose, Finish
  <1>8. CASE FinishCancel
    <2>1. Sets(job.req, "failed_pre_submit", "ready") /\ Publish
      BY <1>0, <1>8, <1>r, TransactionSets DEF FinishCancel, OnPage, FailPreSubmit
    <2>2. MayFollow(job.req, "failed_pre_submit", "ready")
      BY DEF MayFollow
    <2> QED BY <1>1, <1>8, <2>1, <2>2, SetEnds DEF FinishCancel, Finish
  <1>9. CASE FinishRefreshReopening
    BY <1>0, <1>1, <1>9, <1>r, ReopenOwns DEF FinishRefreshReopening, OnPage, Finish
  <1>10. CASE FinishAuthorizedResend
    <2>1. /\ job.kind = "resend" /\ job.req = session.request /\ job.next \in Requests
          /\ InsertOutbox(job.next, "resend", job.req, "preparation-required")
      BY <1>0, <1>10 DEF FinishAuthorizedResend, OnPage, RestOK, JobShape
    <2>2. outbox[job.next].state = "none" /\ outbox[job.req].state # "none"
      BY <1>0, <2>1 DEF InsertOutbox, RunNeeds
    <2> QED BY <1>0, <1>1, <2>1, <2>2, InsertOwns
  <1>11. CASE FinishReopenResend
    BY <1>0, <1>1, <1>11, <1>r, ReopenOwns DEF FinishReopenResend, OnPage, Finish
  <1>c. ASSUME NEW reason, NEW state \in {"cancelled", "failed"}, job.req \in Requests,
               Write(job.req, [outbox[job.req] EXCEPT !.reason = reason], state),
               outbox[job.req].state = "submitted", Publish, job' = Idle
        PROVE  OwnershipInv'
    <2>1. Sets(job.req, "submitted", state)
      BY <1>0, <1>c, TransactionSets
    <2>2. MayFollow(job.req, "submitted", state)
      BY <1>c DEF MayFollow, TerminalStates
    <2> QED BY <1>1, <1>c, <2>1, <2>2, SetEnds
  <1>12. CASE FinishContinuation
    <2>1. job.req \in Requests /\ outbox[job.req].state = "submitted"
      BY <1>0, <1>12, <1>r DEF FinishContinuation, OnPage, RunNeeds
    <2> QED BY <1>12, <1>c, <2>1 DEF FinishContinuation, Finish
  <1>13. ASSUME NEW reason \in Reconciled, FinishReconcile(reason)
         PROVE  OwnershipInv'
    <2> DEFINE state == IF reason = "manual-followup" THEN "cancelled" ELSE "failed"
    <2>1. job.req \in Requests /\ outbox[job.req].state = "submitted"
      BY <1>0, <1>13, <1>r DEF FinishReconcile, OnPage, RunNeeds
    <2>2. state \in {"cancelled", "failed"}
          /\ Write(job.req, [outbox[job.req] EXCEPT !.reason = reason], state)
      BY <1>13 DEF FinishReconcile
    <2> HIDE DEF state
    <2> QED BY <1>13, <1>c, <2>1, <2>2 DEF FinishReconcile, Finish
  <1>14. ASSUME NEW m \in Requests, FinishRecoverAcknowledgement(m)
         PROVE  OwnershipInv'
    <2>1. /\ job.req \in Requests /\ job.kind = "recover"
          /\ outbox[job.req].state = "submission_unknown"
      BY <1>0, <1>14, <1>r DEF FinishRecoverAcknowledgement, OnPage, RunNeeds
    <2>2. Sets(job.req, "submitted", "submitted") /\ Publish
      BY <1>0, <1>14, <2>1, TransactionSets DEF FinishRecoverAcknowledgement, Acknowledge
    <2>3. RoleIsCurrent => MayFollow(job.req, "submitted", "submitted")
      BY <2>1 DEF OwnershipInv, Attended, MayFollow
    <2> QED BY <1>1, <1>14, <2>2, <2>3, SetEnds DEF FinishRecoverAcknowledgement, Finish
  <1> QED BY <1>2, <1>3, <1>4, <1>5, <1>6, <1>7, <1>8, <1>9, <1>10, <1>11, <1>12, <1>13,
             <1>14 DEF PageStep

\* A request is accepted on top of nothing or of a generation that began.
LEMMA AcceptsBegun ==
    ASSUME Data, NEW origin, Accepts(origin), session.request \in Requests
    PROVE  outbox[session.request].state # "none"
  <1>1. session.request # NoRequest
    BY NoRequestIsNoRequest
  <1>2. CASE session.state \in {"created", "ready", "complete"}
    BY <1>1, <1>2 DEF Data, GenerationShape
  <1>3. CASE session.state \notin {"created", "ready", "complete"}
    <2>1. outbox[session.request].reason # "none"
      BY <1>1, <1>3 DEF Accepts
    <2> QED BY <2>1 DEF Data, GenerationShape
  <1> QED BY <1>2, <1>3

\* Nobody has an attempt without an owner, and the state it found, on whose
\* actor an operation may begin.
LEMMA ReadyOwns ==
    ASSUME Attended, Ready, NEW r \in Requests
    PROVE  outbox[r].state # "submit_attempted"
  BY DEF Attended, Ready, Owns, Idle

\* Starting an operation, and what other services do to the session.
LEMMA BeginStepOwns == ClickInv /\ GenerationInv /\ OwnershipInv /\ BeginStep => OwnershipInv'
  <1> SUFFICES ASSUME ClickInv, GenerationInv, OwnershipInv, BeginStep, RoleIsCurrent'
               PROVE  OwnershipInv'
    BY DEF OwnershipInv
  <1>0. RowsOK /\ SessionOK /\ Data
    BY TypeParts DEF ClickInv, StoreOK, GenerationInv
  <1>i. Ready => job.kind = "none" /\ boot = "up"
    BY DEF Ready, Idle
  <1>d. UNCHANGED durable => Quiet /\ session'.role = session.role
    BY DEF durable, Quiet, Same
  <1>q. ASSUME Ready, UNCHANGED durable, view' = Attached, boot' = boot,
               job'.kind \in {"submit", "recover"} => session.state \notin TerminalStates
        PROVE  OwnershipInv'
    BY <1>0, <1>i, <1>d, <1>q, QuietOwns DEF Owns
  <1>b. ASSUME NEW kind, NEW r, Begin(kind, r), kind # "submit",
               kind = "recover" => session.state \notin TerminalStates
        PROVE  OwnershipInv'
    <2>1. job'.kind = kind
      BY <1>b DEF Begin, Running, Idle
    <2> QED BY <1>b, <1>q, <2>1 DEF Begin
  <1>o. ASSUME Ready, ~Terminal(Snapshot), session.request # NoRequest, NEW state,
               session' = [session EXCEPT !.state = state], outbox' = outbox, Publish,
               job' = job, boot' = boot
        PROVE  OwnershipInv'
    <2> DEFINE r == session.request
    <2>1. r \in Requests /\ Sets(r, outbox[r].state, state) /\ RoleIsCurrent
      BY <1>0, <1>o DEF SessionOK, Maybe, Sets, RoleIsCurrent
    <2>2. outbox[r].state # "submit_attempted"
      BY <1>o, <2>1, ReadyOwns DEF OwnershipInv
    <2>3. session.state \notin TerminalStates /\ outbox[r].state # "failed_pre_submit"
      BY <1>o DEF Terminal, Snapshot
    <2>4. MayFollow(r, outbox[r].state, state)
      BY <2>3 DEF MayFollow
    <2>5. job' = Idle /\ job.kind # "submit"
      BY <1>o, <1>i DEF Ready
    <2> HIDE DEF r
    <2> QED BY <1>o, <2>1, <2>2, <2>3, <2>4, <2>5, SetEnds
  <1>1. ASSUME NEW r \in Requests, NEW origin \in Maybe, Send(r, origin)
        PROVE  OwnershipInv'
    <2>1. InsertOutbox(r, IF origin = NoRequest THEN "plain" ELSE "continuation", origin, "none")
      BY <1>1 DEF Send
    <2>2. r # session.request
      BY <1>0, <1>1, <2>1, AcceptsBegun DEF Send, InsertOutbox
    <2>3. boot' = boot /\ job.kind # "submit"
      BY <1>1, <1>i DEF Send
    <2> QED BY <1>0, <2>1, <2>2, <2>3, InsertOwns
  <1>2. ASSUME NEW r \in Requests, ReplayAttempted(r)
        PROVE  OwnershipInv'
    <2> DEFINE state == IF session.state \in TerminalStates THEN session.state ELSE "observing"
    <2>1. Sets(r, "submission_unknown", state) /\ Publish
      BY <1>0, <1>2, TransactionSets DEF ReplayAttempted, RecordSubmissionUnknown
    <2>2. MayFollow(r, "submission_unknown", state)
      BY <1>2 DEF ReplayAttempted, MayFollow
    <2>3. job' = Idle /\ boot' = boot /\ job.kind # "submit"
      BY <1>2, <1>i DEF ReplayAttempted, Ready
    <2> HIDE DEF state
    <2> QED BY <2>1, <2>2, <2>3, SetEnds
  <1>3. ASSUME NEW r \in Requests, ReplayUnattempted(r)
        PROVE  OwnershipInv'
    <2>1. Sets(r, "failed_pre_submit", "ready") /\ Publish
      BY <1>0, <1>3, TransactionSets DEF ReplayUnattempted, FailPreSubmit
    <2>2. MayFollow(r, "failed_pre_submit", "ready")
      BY DEF MayFollow
    <2>3. job' = Idle /\ boot' = boot /\ job.kind # "submit"
      BY <1>3, <1>i DEF ReplayUnattempted, Ready
    <2> QED BY <2>1, <2>2, <2>3, SetEnds
  <1>4. ASSUME NEW r \in Requests, ResumePreparation(r)
        PROVE  OwnershipInv'
    BY <1>4, <1>q DEF ResumePreparation, PreparationOwner, TerminalStates
  <1>5. ASSUME NEW r \in Requests,
               \/ BeginInspect(r)
               \/ \E kind \in {"choose", "cancel"} : BeginDecision(r, kind)
               \/ BeginReopenResend(r) \/ BeginContinuation(r) \/ BeginReconcile(r)
        PROVE  OwnershipInv'
    BY <1>5, <1>b DEF BeginInspect, BeginDecision, BeginReopenResend, BeginContinuation,
       BeginReconcile
  <1>6. ASSUME NEW r \in Requests, NEW reopen \in BOOLEAN, BeginRefresh(r, reopen)
        PROVE  OwnershipInv'
    <2>1. job'.kind = "refresh"
      BY <1>6 DEF BeginRefresh, Running, Idle
    <2> QED BY <1>6, <1>q, <2>1 DEF BeginRefresh
  <1>7. ASSUME NEW r \in Requests, BeginRecoverAcknowledgement(r)
        PROVE  OwnershipInv'
    <2>1. session.state \notin TerminalStates
      BY <1>7 DEF BeginRecoverAcknowledgement, Terminal, Snapshot
    <2> QED BY <1>7, <1>b, <2>1 DEF BeginRecoverAcknowledgement
  <1>8. ASSUME NEW r \in Requests, NEW o \in Requests, BeginAuthorizedResend(o, r)
        PROVE  OwnershipInv'
    <2>1. job'.kind = "resend"
      BY <1>8 DEF BeginAuthorizedResend, Running, Idle
    <2> QED BY <1>8, <1>q, <2>1 DEF BeginAuthorizedResend
  <1>9. ASSUME NEW state \in {"observing", "complete"}, ObserveUpdate(state)
        PROVE  OwnershipInv'
    BY <1>9, <1>o DEF ObserveUpdate
  <1>10. CASE Stop
    BY <1>10, <1>o DEF Stop
  <1>11. CASE RetireRole \/ ReplaceSession \/ BeginTeamDeletion \/ RetireDeletedConversation
    <2>1. session'.role \in {"gone", "deleted"}
      BY <1>0, <1>11 DEF RetireRole, ReplaceSession, LeaveRole, BeginTeamDeletion,
         RetireDeletedConversation, SessionOK
    <2> QED BY <2>1 DEF RoleIsCurrent
  <1> QED BY <1>1, <1>2, <1>3, <1>4, <1>5, <1>6, <1>7, <1>8, <1>9, <1>10, <1>11 DEF BeginStep

\* The recovery of startCore lets no attempt through to a core that serves.
LEMMA BootStepOwns == ClickInv /\ GenerationInv /\ OwnershipInv /\ BootStep => OwnershipInv'
  <1> SUFFICES ASSUME ClickInv, GenerationInv, OwnershipInv, BootStep PROVE OwnershipInv'
    OBVIOUS
  <1>0. RowsOK /\ SessionOK /\ boot # "up" /\ job = Idle
    <2>1. boot # "up"
      BY DEF BootStep, KeepPreparation, FailInterrupted, RecoverAttempted,
         PreSubmissionsRecovered, SubmissionsRecovered
    <2> QED BY <2>1, TypeParts DEF ClickInv, StoreOK, RestOK, JobShape
  <1>i. job.kind = "none"
    BY <1>0 DEF Idle
  <1>d. UNCHANGED durable => Quiet /\ session'.role = session.role
    BY DEF durable, Quiet, Same
  <1>1. ASSUME NEW r \in Requests, KeepPreparation(r)
        PROVE  OwnershipInv'
    <2>1. Quiet
      BY <1>0, <1>1, InspectQuiet DEF KeepPreparation
    <2> QED BY <1>0, <1>i, <1>1, <2>1, QuietOwns DEF KeepPreparation
  <1>2. ASSUME NEW r \in Requests, FailInterrupted(r)
        PROVE  OwnershipInv'
    <2>1. Sets(r, "failed_pre_submit", "ready") /\ Publish
      BY <1>0, <1>2, TransactionSets DEF FailInterrupted, FailPreSubmit
    <2>2. MayFollow(r, "failed_pre_submit", "ready")
      BY DEF MayFollow
    <2> QED BY <1>0, <1>i, <1>2, <2>1, <2>2, SetEnds DEF FailInterrupted
  <1>3. ASSUME NEW r \in Requests, RecoverAttempted(r)
        PROVE  OwnershipInv'
    <2> DEFINE state == IF session.state \in TerminalStates THEN session.state ELSE "observing"
    <2>1. Sets(r, "submission_unknown", state) /\ Publish
      BY <1>0, <1>3, TransactionSets DEF RecoverAttempted, RecordSubmissionUnknown
    <2>2. MayFollow(r, "submission_unknown", state)
      BY <1>3 DEF RecoverAttempted, MayFollow
    <2>3. job' = Idle /\ boot' = boot
      BY <1>0, <1>3 DEF RecoverAttempted
    <2> HIDE DEF state
    <2> QED BY <1>i, <2>1, <2>2, <2>3, SetEnds
  <1>4. CASE PreSubmissionsRecovered
    BY <1>0, <1>i, <1>d, <1>4, QuietOwns DEF PreSubmissionsRecovered
  <1>5. CASE SubmissionsRecovered
    <2>1. Quiet /\ session'.role = session.role /\ job' = job /\ view' = view
      BY <1>d, <1>5 DEF SubmissionsRecovered
    <2>2. RoleIsCurrent' = RoleIsCurrent /\ Snapshot' = Snapshot
      BY <1>5 DEF SubmissionsRecovered, durable, RoleIsCurrent, Snapshot
    <2> QED BY <1>5, <1>i, <2>1, <2>2
          DEF SubmissionsRecovered, OwnershipInv, Attended, Quiet, Same, durable
  <1> QED BY <1>1, <1>2, <1>3, <1>4, <1>5 DEF BootStep

\* Late commands, a drained page, an actor let go, a crash.
LEMMA OutsideStepOwns ==
    ClickInv /\ OwnershipInv /\ (BrowserStep \/ RetireActor \/ Crash) => OwnershipInv'
  <1> SUFFICES ASSUME ClickInv, OwnershipInv, BrowserStep \/ RetireActor \/ Crash
               PROVE  OwnershipInv'
    OBVIOUS
  <1>0. SessionOK
    BY TypeParts DEF ClickInv, StoreOK
  <1>1. UNCHANGED durable
    BY DEF BrowserStep, DrainSettles, LateClick, LateCommandFails, RetireActor, Crash
  <1>2. Quiet /\ session'.role = session.role
    BY <1>1 DEF durable, Quiet, Same
  <1>3. CASE BrowserStep \/ RetireActor
    <2>1. job' = job /\ boot' = boot /\ view' \in {view, NoActor}
      BY <1>3 DEF BrowserStep, DrainSettles, LateClick, LateCommandFails, RetireActor
    <2> QED BY <1>0, <1>2, <2>1, QuietOwns DEF Owns
  <1>4. CASE Crash
    <2>1. job'.kind = "none" /\ boot' # "up" /\ view' = NoActor
      BY <1>4 DEF Crash, Idle
    <2> QED BY <1>0, <1>2, <2>1, QuietOwns
  <1> QED BY <1>3, <1>4

\* The invariant behind the next two theorems.
THEOREM OwnershipInvariant == Spec => []OwnershipInv
  <1>1. Init => OwnershipInv
    BY DEF Init, NoRow, Idle, OwnershipInv, Attended
  <1>2. ClickInv /\ OwnershipInv /\ UNCHANGED vars => OwnershipInv'
    <2> SUFFICES ASSUME ClickInv, OwnershipInv, UNCHANGED vars PROVE OwnershipInv'
      OBVIOUS
    <2>1. outbox' = outbox /\ session' = session /\ job' = job /\ view' = view /\ boot' = boot
      BY DEF vars
    <2>2. Quiet /\ SessionOK
      BY <2>1, TypeParts DEF Quiet, Same, ClickInv, StoreOK
    <2> QED BY <2>1, <2>2, QuietOwns DEF Owns
  <1>3. ClickInv /\ GenerationInv /\ OwnershipInv /\ [Next]_vars => OwnershipInv'
    BY <1>2, SubmitStepOwns, PageStepOwns, BeginStepOwns, BootStepOwns, OutsideStepOwns DEF Next
  <1> QED BY <1>1, <1>3, ClickInvariant, GenerationInvariant, PTL DEF Spec

\* No attempt is left without an owner (runPreparedSubmission, startCore).
THEOREM AttemptsAreOwned == Spec => []AttemptIsOwned
  <1>1. OwnershipInv => AttemptIsOwned
    BY DEF OwnershipInv, Attended, AttemptIsOwned
  <1> QED BY OwnershipInvariant, <1>1, PTL

\* The snapshot clients are shown is never stale while the role is current:
\* SessionActor.publish refuses nothing and every transaction publishes.
THEOREM ActorNeverStale == Spec => []ActorShowsTheRows
  <1>1. OwnershipInv => ActorShowsTheRows
    BY DEF OwnershipInv, Attended, ActorShowsTheRows
  <1> QED BY OwnershipInvariant, <1>1, PTL

=============================================================================
