----------------------------- MODULE Submission -----------------------------
(***************************************************************************)
(* The submission pipeline of one session (core/submission-service.ts):    *)
(* accepting a request into the outbox, preparing the provider page,       *)
(* recording the attempt, clicking Send, capturing the acknowledgement,    *)
(* and every later operation on the same request: replay, resume, inspect, *)
(* decide, refresh, recover an acknowledgement, resend, continue,          *)
(* reconcile; with role retirement, team deletion, core crashes and the    *)
(* boot recovery.                                                          *)
(*                                                                         *)
(* The session's actor runs one operation at a time (`job'), and browser   *)
(* operations also hold the page lock.  An operation that awaits is split  *)
(* at its awaits; what may interleave there is what the code does outside  *)
(* the actor queue: roles that are retired, late browser commands and      *)
(* crashes.                                                                *)
(* The outbox row and the generation row of a request are written in the   *)
(* same transactions and are one record here.                              *)
(***************************************************************************)
EXTENDS Naturals, FiniteSets

CONSTANTS
    Requests,       \* caller-owned requests, one (clientId, requestId) each
    NoRequest,      \* the absence of a request
    MaxCrashes      \* bound on the number of core crashes

ASSUME NoRequestIsNoRequest == NoRequest \notin Requests
ASSUME MaxCrashesIsNatural == MaxCrashes \in Nat

VARIABLES
    outbox,         \* request -> its outbox and generation row       (durable)
    session,        \* the session row and its role's routing         (durable)
    reserved,       \* original -> the one resend reserved for it     (durable)
    boot,           \* progress of the start-up recovery
    job,            \* the operation the session actor is running
    view,           \* the snapshot held by the in-memory actor
    draining,       \* an abandoned prepare still retains the page lock
    late,           \* requests whose timed-out submitOnce is still in flight
    clicks,         \* request -> clicks of Send                     (external)
    delivered,      \* requests whose user message reached the provider
    crashes         \* crashes so far

durable == <<outbox, session, reserved>>
browser == <<draining, late, clicks, delivered>>
vars == <<outbox, session, reserved, boot, job, view, draining, late, clicks,
          delivered, crashes>>

-----------------------------------------------------------------------------
(* Rows, snapshots and the actor's publication rule. *)

Maybe == Requests \cup {NoRequest}

SubmissionStates == {"none", "prepared", "composer_filled", "submit_attempted",
                     "submitted", "submission_unknown", "failed_pre_submit"}

Attempted == {"submit_attempted", "submitted", "submission_unknown"}

Reconciled == {"thinking-failed", "message-timeout", "manual-followup"}

TerminalStates == {"complete", "cancelled", "superseded", "failed"}

SessionStates == TerminalStates \cup
    {"created", "ready", "submitting", "submitted", "observing"}

Row == [state : SubmissionStates,
        kind : {"plain", "continuation", "resend"},
        origin : Maybe,             \* continuationOf, authorizedResend.requestRef
        prior : Maybe,              \* the previous generation's request
        error : {"none", "preparation-required", "browser-unavailable", "other"},
        inspect : BOOLEAN,          \* requiresInspection of a pending preparation
        reason : {"none", "continuation-prepared"} \cup Reconciled,
        message : Maybe]            \* whose message is bound to the generation

NoRow == [state |-> "none", kind |-> "plain", origin |-> NoRequest,
          prior |-> NoRequest, error |-> "none", inspect |-> FALSE,
          reason |-> "none", message |-> NoRequest]

View == [request : Maybe, state : SessionStates \cup {"none"},
         submission : SubmissionStates]

NoActor == [request |-> NoRequest, state |-> "none", submission |-> "none"]

Snapshot == [request |-> session.request, state |-> session.state,
             submission |-> IF session.request = NoRequest THEN "none"
                            ELSE outbox[session.request].state]

Terminal(v) == v.state \in TerminalStates \/ v.submission = "failed_pre_submit"

\* The actor an operation works with is created from the rows when there is none.
Attached == IF view = NoActor THEN Snapshot ELSE view

\* Mutant: the actor accepts every snapshot.
NeverDowngraded == FALSE

\* Publishing a nonterminal snapshot over a terminal one of its generation throws.
Downgraded ==
    /\ Attached.request = Snapshot'.request
    /\ Terminal(Attached)
    /\ ~Terminal(Snapshot')

Publish == view' = IF Downgraded THEN Attached ELSE Snapshot'

PublishResumed ==
    view' = IF /\ view.request = Snapshot'.request
               /\ view.submission = "failed_pre_submit"
               /\ view.state = "ready"
            THEN Snapshot' ELSE view

\* updateCurrentGeneration writes the current generation only.
Write(r, row, state) ==
    /\ r = session.request
    /\ outbox' = [outbox EXCEPT ![r] = row]
    /\ session' = [session EXCEPT !.state = state]
    /\ UNCHANGED reserved

-----------------------------------------------------------------------------
(* The actor's operation. *)

Kinds == {"none", "submit", "inspect", "choose", "cancel", "refresh", "recover",
          "resend", "reopen", "continue", "reconcile"}

Pcs == {"idle", "open", "lock", "prepare", "verify", "filled", "click",
        "clicked", "ack", "page"}

Job == [kind : Kinds, pc : Pcs, req : Maybe, next : Maybe, reopen : BOOLEAN]

Idle == [kind |-> "none", pc |-> "idle", req |-> NoRequest,
         next |-> NoRequest, reopen |-> FALSE]

Running(kind, pc, r) == [Idle EXCEPT !.kind = kind, !.pc = pc, !.req = r]

Ready == boot = "up" /\ job = Idle

At(pc) == job.kind = "submit" /\ job.pc = pc

OnPage(kind) == job.kind = kind /\ job.pc = "page"

Goto(pc) == job' = [job EXCEPT !.pc = pc]

-----------------------------------------------------------------------------
(* Conditions the operations test. *)

RoleIsCurrent == session.role = "current"

\* A pending preparation of the current generation.
PreparationOwner(r) ==
    /\ r = session.request
    /\ outbox[r].state = "prepared"
    /\ outbox[r].error = "preparation-required"
    /\ session.state = "submitting"

\* A failure before submission that proven recovery may re-open.
Reopenable(r) ==
    /\ r = session.request
    /\ outbox[r].state = "failed_pre_submit"
    /\ session.state = "ready"

RecoverableOwner(r) == Reopenable(r) /\ outbox[r].error = "browser-unavailable"

\* Mutant: a session that is still submitting accepts another request.
AcceptsWhileBusy(origin) ==
    session.state \in {"created", "ready", "complete", "submitting"}

\* The states in which #prepareOutbox accepts a request continuing origin.
Accepts(origin) ==
    LET reason == IF session.request = NoRequest THEN "none"
                  ELSE outbox[session.request].reason
    IN  \/ session.state \in {"created", "ready", "complete"}
        \/ session.state = "cancelled" /\ reason = "manual-followup"
        \/ /\ session.state = "cancelled"
           /\ reason = "continuation-prepared"
           /\ origin = session.request
        \/ session.state = "failed" /\ reason \in {"thinking-failed", "message-timeout"}

\* verifyContinuation: the continued request is the previous generation.
ContinuationHolds(r) ==
    outbox[r].kind = "continuation" =>
        /\ outbox[r].origin = outbox[r].prior
        /\ outbox[outbox[r].origin].reason \in {"continuation-prepared", "message-timeout"}

\* The original of a resend is unresolved.
Resendable(o) ==
    /\ o = session.request
    /\ outbox[o].state \in {"submission_unknown", "submitted"}
    /\ ~Terminal(Snapshot)
    /\ RoleIsCurrent

Owned(m) == \E r \in Requests : outbox[r].message = m

-----------------------------------------------------------------------------
(* Transactions shared by several operations. *)

FailPreSubmit(r, error) ==
    /\ Write(r, [outbox[r] EXCEPT !.state = "failed_pre_submit",
                                  !.error = error, !.inspect = FALSE], "ready")
    /\ Publish

RecordPreparationRequired(r) ==
    /\ Write(r, [outbox[r] EXCEPT !.error = "preparation-required",
                                  !.inspect = FALSE], session.state)
    /\ Publish

RecordSubmissionUnknown(r) ==
    /\ Write(r, [outbox[r] EXCEPT !.state = "submission_unknown", !.error = "other"],
             IF session.state \in TerminalStates THEN session.state ELSE "observing")
    /\ Publish

Reopen(r, inspect) ==
    /\ outbox[r].state = "failed_pre_submit"
    /\ Write(r, [outbox[r] EXCEPT !.state = "prepared",
                                  !.error = "preparation-required",
                                  !.inspect = inspect], "submitting")
    /\ PublishResumed

Acknowledge(r, m) ==
    /\ Write(r, [outbox[r] EXCEPT !.state = "submitted", !.error = "none",
                                  !.message = m], "submitted")
    /\ Publish

\* A new generation for request r, as #prepareOutbox inserts it.
InsertOutbox(r, kind, origin, error) ==
    /\ outbox[r].state = "none"
    /\ RoleIsCurrent
    /\ outbox' = [outbox EXCEPT ![r] =
           [NoRow EXCEPT !.state = "prepared", !.kind = kind, !.origin = origin,
                         !.prior = session.request, !.error = error]]
    /\ session' = [session EXCEPT !.request = r, !.state = "submitting"]
    /\ Publish

-----------------------------------------------------------------------------
(* session.send: the run of a prepared submission. *)

Send(r, origin) ==
    /\ Ready
    /\ Accepts(origin)
    /\ origin # NoRequest => outbox[origin].state # "none"
    /\ InsertOutbox(r, IF origin = NoRequest THEN "plain" ELSE "continuation",
                    origin, "none")
    /\ job' = Running("submit", "open", r)
    /\ UNCHANGED <<reserved, boot, crashes, browser>>

\* openSubmission returned; the page key is persisted before the page lock.
OpenOk ==
    /\ At("open")
    /\ UNCHANGED durable
    /\ Publish
    /\ IF Downgraded THEN job' = Idle ELSE Goto("lock")
    /\ UNCHANGED <<boot, crashes, browser>>

OpenNeedsDecision ==
    /\ At("open")
    /\ RecordPreparationRequired(job.req)
    /\ job' = Idle
    /\ UNCHANGED <<boot, crashes, browser>>

OpenFails(error) ==
    /\ At("open")
    /\ FailPreSubmit(job.req, error)
    /\ job' = Idle
    /\ UNCHANGED <<boot, crashes, browser>>

\* The page lock is granted to a submission; it prepares the page.
EnterPrepare ==
    /\ At("lock")
    /\ ~draining
    /\ Goto("prepare")
    /\ UNCHANGED <<durable, boot, view, crashes, browser>>

FillComposer ==
    /\ Write(job.req, [outbox[job.req] EXCEPT !.state = "composer_filled",
                           !.error = "none", !.inspect = FALSE], session.state)
    /\ Publish
    /\ Goto("filled")

\* The last checks of a plain request await resolved promises only: no other
\* call comes between its role check and its dispatch.
PrepareOk ==
    /\ At("prepare")
    /\ RoleIsCurrent
    /\ outbox[job.req].kind = "plain"
    /\ FillComposer
    /\ UNCHANGED <<boot, crashes, browser>>

\* A continuation or a resend is verified once more, across an await.
PrepareThenVerify ==
    /\ At("prepare")
    /\ RoleIsCurrent
    /\ outbox[job.req].kind # "plain"
    /\ ContinuationHolds(job.req)
    /\ Goto("verify")
    /\ UNCHANGED <<durable, boot, view, crashes, browser>>

VerifyOk ==
    /\ At("verify")
    /\ ContinuationHolds(job.req)
    /\ FillComposer
    /\ UNCHANGED <<boot, crashes, browser>>

\* The catch around prepare: a role that is gone always fails the request.
PreparationNeedsDecision ==
    /\ At("prepare") \/ At("verify")
    /\ RoleIsCurrent
    /\ RecordPreparationRequired(job.req)
    /\ job' = Idle
    /\ UNCHANGED <<boot, crashes, browser>>

PreparationFails(error) ==
    /\ At("prepare") \/ At("verify")
    /\ ~RoleIsCurrent => error = "other"
    /\ FailPreSubmit(job.req, error)
    /\ job' = Idle
    /\ UNCHANGED <<boot, crashes, browser>>

\* A prepare that outlives its stage keeps the page lock until it settles.
PrepareTimesOut ==
    /\ At("prepare")
    /\ FailPreSubmit(job.req, IF RoleIsCurrent THEN "browser-unavailable" ELSE "other")
    /\ draining' = TRUE
    /\ job' = Idle
    /\ UNCHANGED <<boot, crashes, late, clicks, delivered>>

DrainSettles ==
    /\ draining
    /\ draining' = FALSE
    /\ UNCHANGED <<durable, boot, job, view, crashes, late, clicks, delivered>>

\* promptSubmitted is durable before the click; a refused publication ends the
\* operation with the attempt recorded and no click.
RecordAttempt ==
    /\ At("filled")
    /\ Write(job.req, [outbox[job.req] EXCEPT !.state = "submit_attempted"], "submitting")
    /\ Publish
    /\ IF Downgraded THEN job' = Idle ELSE Goto("click")
    /\ UNCHANGED <<boot, crashes, browser>>

ClickSend(r) ==
    /\ clicks' = [clicks EXCEPT ![r] = @ + 1]
    /\ delivered' \in {delivered, delivered \cup {r}}

Click ==
    /\ At("click")
    /\ ClickSend(job.req)
    /\ Goto("clicked")
    /\ UNCHANGED <<durable, boot, view, crashes, draining, late>>

\* submitOnce settles: after the click, or by an error before it.
SubmitReturns ==
    /\ At("click") \/ At("clicked")
    /\ Goto("ack")
    /\ UNCHANGED <<durable, boot, view, crashes, browser>>

\* The stage timeout of submitOnce: the command stays in flight, unretained.
SubmitTimesOut ==
    /\ At("click")
    /\ late' = late \cup {job.req}
    /\ Goto("ack")
    /\ UNCHANGED <<durable, boot, view, crashes, draining, clicks, delivered>>

LateClick(r) ==
    /\ r \in late
    /\ ~At("filled")
    /\ ClickSend(r)
    /\ late' = late \ {r}
    /\ UNCHANGED <<durable, boot, job, view, crashes, draining>>

LateCommandFails(r) ==
    /\ r \in late
    /\ late' = late \ {r}
    /\ UNCHANGED <<durable, boot, job, view, crashes, draining, clicks, delivered>>

\* The captured acknowledgement is the message this submission sent.
AckCaptured ==
    /\ At("ack")
    /\ job.req \in delivered
    /\ ~Owned(job.req)
    /\ Acknowledge(job.req, job.req)
    /\ job' = Idle
    /\ UNCHANGED <<boot, crashes, browser>>

\* Mutant: a missing acknowledgement is reported as a failure.
AckMissingFails ==
    /\ At("ack")
    /\ FailPreSubmit(job.req, "other")
    /\ job' = Idle
    /\ UNCHANGED <<boot, crashes, browser>>

AckMissing ==
    /\ At("ack")
    /\ RecordSubmissionUnknown(job.req)
    /\ job' = Idle
    /\ UNCHANGED <<boot, crashes, browser>>

\* The same request again: settled rows only answer, an attempt becomes
\* doubtful, and what stopped before the attempt fails.
ReplayAttempted(r) ==
    /\ Ready
    /\ outbox[r].state = "submit_attempted"
    /\ RecordSubmissionUnknown(r)
    /\ UNCHANGED <<boot, job, crashes, browser>>

ReplayUnattempted(r) ==
    /\ Ready
    /\ outbox[r].state \in {"prepared", "composer_filled"}
    /\ outbox[r].kind # "resend"
    /\ ~PreparationOwner(r)
    /\ FailPreSubmit(r, "other")
    /\ UNCHANGED <<boot, job, crashes, browser>>

ResumePreparation(r) ==
    /\ Ready
    /\ PreparationOwner(r)
    /\ ~outbox[r].inspect
    /\ job' = Running("submit", "open", r)
    /\ view' = Attached
    /\ UNCHANGED <<durable, boot, crashes, browser>>

-----------------------------------------------------------------------------
(* Operations on an accepted request.  Each starts from a check, waits for *)
(* the page lock, awaits the provider and finishes with its transaction.   *)

Begin(kind, r) ==
    /\ Ready
    /\ job' = Running(kind, "lock", r)
    /\ view' = Attached
    /\ UNCHANGED <<durable, boot, crashes, browser>>

\* Mutant: the page also waits for commands that need never settle.
EnterPageAfterLate ==
    /\ job.kind \notin {"none", "submit", "refresh"}
    /\ job.pc = "lock"
    /\ ~draining
    /\ late = {}
    /\ Goto("page")
    /\ UNCHANGED <<durable, boot, view, crashes, browser>>

EnterPage ==
    /\ job.kind \notin {"none", "submit", "refresh"}
    /\ job.pc = "lock"
    /\ ~draining
    /\ Goto("page")
    /\ UNCHANGED <<durable, boot, view, crashes, browser>>

\* Any page operation may end, by an error or without a result, unwritten.
PageEnds ==
    /\ job.pc = "page"
    /\ job' = Idle
    /\ UNCHANGED <<durable, boot, view, crashes, browser>>

Finish == job' = Idle /\ UNCHANGED <<boot, crashes, browser>>

BeginInspect(r) ==
    /\ PreparationOwner(r) \/ RecoverableOwner(r)
    /\ Begin("inspect", r)

\* Inspection clears the flag a restart or a refresh left behind ...
FinishInspect ==
    /\ OnPage("inspect")
    /\ outbox[job.req].state = "prepared"
    /\ outbox' = [outbox EXCEPT ![job.req].inspect = FALSE]
    /\ UNCHANGED <<session, reserved, view>>
    /\ Finish

\* ... or re-opens a browser failure, after checking its owner again.
FinishInspectReopening ==
    /\ OnPage("inspect")
    /\ RecoverableOwner(job.req)
    /\ Reopen(job.req, FALSE)
    /\ Finish

BeginDecision(r, kind) ==
    /\ kind \in {"choose", "cancel"}
    /\ PreparationOwner(r)
    /\ Begin(kind, r)

FinishChoose ==
    /\ OnPage("choose")
    /\ PreparationOwner(job.req)
    /\ outbox' = [outbox EXCEPT ![job.req].inspect = FALSE]
    /\ UNCHANGED <<session, reserved>>
    /\ Publish
    /\ Finish

FinishCancel ==
    /\ OnPage("cancel")
    /\ PreparationOwner(job.req)
    /\ FailPreSubmit(job.req, "other")
    /\ Finish

\* The crash evidence and the rows are read before the reload is awaited.
BeginRefresh(r, reopen) ==
    /\ Ready
    /\ r = session.request
    /\ reopen => RecoverableOwner(r)
    /\ job' = [Running("refresh", "lock", r) EXCEPT !.reopen = reopen]
    /\ view' = Attached
    /\ UNCHANGED <<durable, boot, crashes, browser>>

\* A pending preparation must be inspected again once a reload is attempted.
EnterRefresh ==
    /\ job.kind = "refresh" /\ job.pc = "lock"
    /\ ~draining
    /\ outbox' = [outbox EXCEPT ![job.req].inspect =
           @ \/ /\ outbox[job.req].state = "prepared"
                /\ outbox[job.req].error = "preparation-required"]
    /\ Goto("page")
    /\ UNCHANGED <<session, reserved, boot, view, crashes, browser>>

FinishRefreshReopening ==
    /\ OnPage("refresh")
    /\ job.reopen
    /\ Reopen(job.req, TRUE)
    /\ Finish

BeginRecoverAcknowledgement(r) ==
    /\ r = session.request
    /\ outbox[r].state = "submission_unknown"
    /\ ~Terminal(Snapshot)
    /\ Begin("recover", r)

\* Evidence of a delivered message no generation of the session owns yet.
FinishRecoverAcknowledgement(m) ==
    /\ OnPage("recover")
    /\ m \in delivered
    /\ ~Owned(m)
    /\ Acknowledge(job.req, m)
    /\ Finish

BeginAuthorizedResend(o, r) ==
    /\ Ready
    /\ Resendable(o)
    /\ reserved[o] = NoRequest
    /\ outbox[r].state = "none"
    /\ job' = [Running("resend", "lock", o) EXCEPT !.next = r]
    /\ view' = Attached
    /\ UNCHANGED <<durable, boot, crashes, browser>>

FinishAuthorizedResend ==
    /\ OnPage("resend")
    /\ job.req = session.request
    /\ InsertOutbox(job.next, "resend", job.req, "preparation-required")
    /\ reserved' = [reserved EXCEPT ![job.req] = job.next]
    /\ Finish

\* The same approval re-opens its successor when that failed before submission.
BeginReopenResend(o) ==
    /\ reserved[o] # NoRequest
    /\ Reopenable(reserved[o])
    /\ outbox[o].state \in {"submission_unknown", "submitted"}
    /\ RoleIsCurrent
    /\ Begin("reopen", reserved[o])

FinishReopenResend ==
    /\ OnPage("reopen")
    /\ Reopen(job.req, TRUE)
    /\ Finish

BeginContinuation(o) ==
    /\ o = session.request
    /\ outbox[o].state = "submitted"
    /\ ~Terminal(Snapshot)
    /\ RoleIsCurrent
    /\ Begin("continue", o)

FinishContinuation ==
    /\ OnPage("continue")
    /\ Write(job.req, [outbox[job.req] EXCEPT !.reason = "continuation-prepared"], "cancelled")
    /\ Publish
    /\ Finish

BeginReconcile(o) ==
    /\ o = session.request
    /\ outbox[o].state = "submitted"
    /\ ~Terminal(Snapshot)
    /\ RoleIsCurrent
    /\ Begin("reconcile", o)

FinishReconcile(reason) ==
    /\ OnPage("reconcile")
    /\ Write(job.req, [outbox[job.req] EXCEPT !.reason = reason],
             IF reason = "manual-followup" THEN "cancelled" ELSE "failed")
    /\ Publish
    /\ Finish

-----------------------------------------------------------------------------
(* What other services do to the session. *)

\* Observation of an acknowledged generation, through updateGeneration.
ObserveUpdate(state) ==
    /\ Ready
    /\ ~Terminal(Snapshot)
    /\ session.request # NoRequest
    /\ outbox[session.request].state = "submitted"
    /\ session' = [session EXCEPT !.state = state]
    /\ UNCHANGED <<outbox, reserved>>
    /\ Publish
    /\ UNCHANGED <<boot, job, crashes, browser>>

\* StopService holds the actor and the page lock for its whole operation.
Stop ==
    /\ Ready
    /\ ~draining
    /\ ~Terminal(Snapshot)
    /\ session.request # NoRequest
    /\ session' = [session EXCEPT !.state = "cancelled"]
    /\ UNCHANGED <<outbox, reserved>>
    /\ Publish
    /\ UNCHANGED <<boot, job, crashes, browser>>

\* retireUnsubmittedSession and the routing change of its transaction.
LeaveRole(state) ==
    /\ boot = "up"
    /\ RoleIsCurrent
    /\ session' = [session EXCEPT !.role = "gone", !.state =
           IF \/ session.state \in TerminalStates
              \/ Snapshot.submission \in Attempted
           THEN @ ELSE state]
    /\ UNCHANGED <<outbox, reserved>>

\* Retirement is synchronous and does not go through the actor queue.
RetireRole ==
    /\ ~At("filled")
    /\ LeaveRole("cancelled")
    /\ IF view = NoActor THEN UNCHANGED view ELSE Publish
    /\ UNCHANGED <<boot, job, crashes, browser>>

\* Replacement runs as an operation of the predecessor's actor.
ReplaceSession ==
    /\ Ready
    /\ LeaveRole("superseded")
    /\ Publish
    /\ UNCHANGED <<boot, job, crashes, browser>>

\* team.delete retires every role of the team in one transaction, outside the
\* actor queue; no session is cancelled and no actor told.
BeginTeamDeletion ==
    /\ boot = "up"
    /\ ~At("filled")
    /\ RoleIsCurrent
    /\ session' = [session EXCEPT !.role = "deleted"]
    /\ UNCHANGED <<outbox, reserved, boot, job, view, crashes, browser>>

\* It then comes to each session in the queue of its actor.
RetireDeletedConversation ==
    /\ Ready
    /\ session.role = "deleted"
    /\ session' = [session EXCEPT !.state = "superseded"]
    /\ UNCHANGED <<outbox, reserved>>
    /\ Publish
    /\ UNCHANGED <<boot, job, crashes, browser>>

\* The scheduler drops an idle terminal actor nobody waits on.
RetireActor ==
    /\ Ready
    /\ view # NoActor
    /\ Terminal(view)
    /\ view' = NoActor
    /\ UNCHANGED <<durable, boot, job, crashes, browser>>

-----------------------------------------------------------------------------
(* Crash and the recovery of startCore, which serves no request meanwhile. *)

\* A click already handed to the browser may still land.
Crash ==
    /\ crashes < MaxCrashes
    /\ crashes' = crashes + 1
    /\ boot' = "pre"
    /\ job' = Idle
    /\ view' = NoActor
    /\ draining' = FALSE
    /\ late' \in SUBSET (late \cup (IF At("click") THEN {job.req} ELSE {}))
    /\ UNCHANGED <<durable, clicks, delivered>>

Interrupted(r) ==
    /\ r = session.request
    /\ outbox[r].state \in {"prepared", "composer_filled"}
    /\ ~Terminal(Snapshot)

\* A pending preparation survives, to be inspected before it is resumed.
KeepPreparation(r) ==
    /\ boot = "pre"
    /\ Interrupted(r)
    /\ PreparationOwner(r)
    /\ ~outbox[r].inspect
    /\ outbox' = [outbox EXCEPT ![r].inspect = TRUE]
    /\ UNCHANGED <<session, reserved, boot, job, view, crashes, browser>>

FailInterrupted(r) ==
    /\ boot = "pre"
    /\ Interrupted(r)
    /\ ~PreparationOwner(r)
    /\ FailPreSubmit(r, "browser-unavailable")
    /\ UNCHANGED <<boot, job, crashes, browser>>

PreSubmissionsRecovered ==
    /\ boot = "pre"
    /\ \A r \in Requests :
           Interrupted(r) => PreparationOwner(r) /\ outbox[r].inspect
    /\ boot' = "attempted"
    /\ UNCHANGED <<durable, job, view, crashes, browser>>

\* Mutant: an attempt interrupted by a crash counts as a browser failure.
RecoverAttemptedAsFailure(r) ==
    /\ boot = "attempted"
    /\ outbox[r].state = "submit_attempted"
    /\ FailPreSubmit(r, "browser-unavailable")
    /\ UNCHANGED <<boot, job, crashes, browser>>

RecoverAttempted(r) ==
    /\ boot = "attempted"
    /\ outbox[r].state = "submit_attempted"
    /\ RecordSubmissionUnknown(r)
    /\ UNCHANGED <<boot, job, crashes, browser>>

\* Mutant: start-up does not wait for the interrupted attempts.
SubmissionsSkipped ==
    /\ boot = "attempted"
    /\ boot' = "up"
    /\ UNCHANGED <<durable, job, view, crashes, browser>>

SubmissionsRecovered ==
    /\ boot = "attempted"
    /\ \A r \in Requests : outbox[r].state # "submit_attempted"
    /\ boot' = "up"
    /\ UNCHANGED <<durable, job, view, crashes, browser>>

-----------------------------------------------------------------------------
(* The specification. *)

Init ==
    /\ outbox = [r \in Requests |-> NoRow]
    /\ session = [request |-> NoRequest, state |-> "created", role |-> "current"]
    /\ reserved = [r \in Requests |-> NoRequest]
    /\ boot = "up"
    /\ job = Idle
    /\ view = NoActor
    /\ draining = FALSE
    /\ late = {}
    /\ clicks = [r \in Requests |-> 0]
    /\ delivered = {}
    /\ crashes = 0

\* Steps of a running submission.
SubmitStep ==
    \/ OpenOk \/ OpenNeedsDecision
    \/ EnterPrepare \/ PrepareOk \/ PrepareThenVerify \/ VerifyOk
    \/ PreparationNeedsDecision \/ PrepareTimesOut
    \/ \E error \in {"browser-unavailable", "other"} :
           OpenFails(error) \/ PreparationFails(error)
    \/ RecordAttempt \/ Click \/ SubmitReturns \/ SubmitTimesOut
    \/ AckCaptured \/ AckMissing

\* Steps of any other running operation.
PageStep ==
    \/ EnterPage \/ EnterRefresh \/ PageEnds
    \/ FinishInspect \/ FinishInspectReopening \/ FinishChoose \/ FinishCancel
    \/ FinishRefreshReopening \/ FinishAuthorizedResend \/ FinishReopenResend
    \/ FinishContinuation
    \/ \E reason \in Reconciled : FinishReconcile(reason)
    \/ \E m \in Requests : FinishRecoverAcknowledgement(m)

\* Operations a caller or another service starts.
BeginStep ==
    \/ \E r \in Requests :
           \/ \E origin \in Maybe : Send(r, origin)
           \/ ReplayAttempted(r) \/ ReplayUnattempted(r) \/ ResumePreparation(r)
           \/ BeginInspect(r)
           \/ \E kind \in {"choose", "cancel"} : BeginDecision(r, kind)
           \/ \E reopen \in BOOLEAN : BeginRefresh(r, reopen)
           \/ BeginRecoverAcknowledgement(r)
           \/ \E o \in Requests : BeginAuthorizedResend(o, r)
           \/ BeginReopenResend(r) \/ BeginContinuation(r) \/ BeginReconcile(r)
    \/ \E state \in {"observing", "complete"} : ObserveUpdate(state)
    \/ Stop \/ RetireRole \/ ReplaceSession
    \/ BeginTeamDeletion \/ RetireDeletedConversation

BootStep ==
    \/ \E r \in Requests :
           KeepPreparation(r) \/ FailInterrupted(r) \/ RecoverAttempted(r)
    \/ PreSubmissionsRecovered \/ SubmissionsRecovered

BrowserStep ==
    \/ DrainSettles
    \/ \E r \in Requests : LateClick(r) \/ LateCommandFails(r)

Next ==
    SubmitStep \/ PageStep \/ BeginStep \/ BootStep \/ BrowserStep
        \/ RetireActor \/ Crash

Spec == Init /\ [][Next]_vars

\* Awaits settle (provider stages time out), an abandoned prepare drains, and
\* start-up runs to its end; nothing is assumed of callers or late commands.
Fairness ==
    /\ WF_vars(SubmitStep)
    /\ WF_vars(PageStep)
    /\ WF_vars(BootStep)
    /\ WF_vars(DrainSettles)

FairSpec == Spec /\ Fairness

-----------------------------------------------------------------------------
(* Properties. *)

\* Every variable keeps its type.
TypeOK ==
    /\ outbox \in [Requests -> Row]
    /\ session \in [request : Maybe, state : SessionStates, role : {"current", "gone", "deleted"}]
    /\ reserved \in [Requests -> Maybe]
    /\ boot \in {"pre", "attempted", "up"}
    /\ job \in Job
    /\ view \in View
    /\ draining \in BOOLEAN
    /\ late \subseteq Requests
    /\ clicks \in [Requests -> Nat]
    /\ delivered \subseteq Requests
    /\ crashes \in 0 .. MaxCrashes

\* Send is clicked at most once for a request, whatever timeouts, replays,
\* re-openings, late commands and restarts happen to it (send, #replay).
AtMostOneClick == \A r \in Requests : clicks[r] <= 1

\* A request whose row says nothing was attempted was not clicked, and no
\* command that could still click it is in flight: only then may a caller be
\* told it failed before submission, and only then may it be re-opened.
UnattemptedIsUntouched ==
    \A r \in Requests :
        outbox[r].state \notin Attempted =>
            /\ clicks[r] = 0
            /\ r \notin late
            /\ ~(At("click") /\ job.req = r)

\* A delivered message proves the submission of one generation at most,
\* captured at once or recovered later (submittedMessageIds).
MessageOwnedOnce ==
    \A r, s \in Requests :
        outbox[r].message # NoRequest /\ outbox[r].message = outbox[s].message => r = s

\* Only the current generation may be unfinished: updateCurrentGeneration
\* refuses any other, so a row left behind could never settle and the boot
\* recovery would throw on it.
OlderGenerationsSettled ==
    \A r \in Requests :
        r # session.request =>
            outbox[r].state \in {"none", "submitted", "submission_unknown", "failed_pre_submit"}

\* A session that team.role.retire or session.create took from its role never
\* starts to click Send, even across the last verification's await: the actor,
\* told of it, refuses the publication before submitOnce is reached.
RetiredRoleNeverClicks ==
    [][At("click")' /\ ~At("click") => session.role # "gone"]_vars

\* "New submissions require the current session of an active role, checked
\* again after provider preparation", and the retired roles of a deleted team
\* "block new sends": a click starts for the current session of its role only.
NewClicksNeedTheRole ==
    [][At("click")' /\ ~At("click") => RoleIsCurrent]_vars

\* A pending preparation survives a restart, and the caller must inspect the
\* page again before it can be resumed (recoverInterruptedPreSubmissions).
RestartKeepsPreparations ==
    [][\A r \in Requests :
          boot # "up" /\ PreparationOwner(r) =>
              /\ PreparationOwner(r)'
              /\ boot' = "up" => outbox'[r].inspect]_vars

\* A terminal generation becomes nonterminal only by re-opening a proven
\* unsubmitted preparation, as SessionActor.publishResumedPreparation demands.
TerminalStaysTerminal ==
    [][ (/\ Terminal(Snapshot)
         /\ session.request = session'.request
         /\ ~Terminal(Snapshot'))
        => session.state = "ready" /\ Snapshot.submission = "failed_pre_submit" ]_vars

\* No operation holds the page while another one's abandoned submitOnce may
\* still act on it, as KeyedMutex.retainUntil exists to ensure.
AbandonedCommandKeepsThePage ==
    late # {} => \/ job.pc \notin {"prepare", "verify", "filled", "click", "clicked", "page"}
                 \/ job.req \in late /\ job.kind = "submit"

\* The actor's operation ends: no await leaves the session's queue blocked.
ActorIsFreed == job # Idle ~> job = Idle

\* An attempt does not stay an attempt: it is acknowledged or recorded as
\* unknown, by its own run or by a restart, unless its session was taken from
\* its role, whose actor may refuse the attempt when it is on record.
AttemptIsResolved ==
    \A r \in Requests :
        outbox[r].state = "submit_attempted" ~>
            outbox[r].state \in {"submitted", "submission_unknown"} \/ session.role = "gone"

\* The pipeline implements the promise of AtMostOnceSend.
PhaseOf(state) ==
    CASE state = "none" -> "idle"
      [] state \in {"prepared", "composer_filled"} -> "open"
      [] state = "failed_pre_submit" -> "refused"
      [] state = "submit_attempted" -> "attempted"
      [] state = "submission_unknown" -> "doubtful"
      [] state = "submitted" -> "confirmed"

Promise == INSTANCE AtMostOnceSend WITH
    phase <- [r \in Requests |-> PhaseOf(outbox[r].state)],
    sent <- clicks,
    proof <- [r \in Requests |-> outbox[r].message]

\* See AtMostOnceSend: what a caller of session.send may rely on.
ImplementsPromise == Promise!Spec
=============================================================================
