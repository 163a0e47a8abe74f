----------------------------- MODULE StopRequest -----------------------------
(***************************************************************************)
(* src/core/stop-service.ts: session.stop presses the provider's Stop once *)
(* for a generation.  The attempt is made durable before it is made, so    *)
(* that neither a retry, nor another request, nor a restart repeats it.    *)
(* One session; its actor runs one operation at a time.                    *)
(***************************************************************************)
EXTENDS Naturals

CONSTANTS
  Requests,   \* (clientId, requestId) pairs
  MaxGen,     \* bound: generations of the session
  PageRefresh, \* a page refresh, which the actor runs too
  None

ASSUME MaxGenAssumption == MaxGen \in Nat \ {0}
ASSUME NoneIsNoRequest == None \notin Requests /\ PageRefresh \notin Requests /\ PageRefresh # None

VARIABLES
  row,       \* durable: the session's current generation
  receipt,   \* durable: what is stored under a request
  call,      \* where a caller's request stands
  holder,    \* whose operation the actor runs
  attempts,  \* history: stopOnce calls made for a generation
  asked      \* history: the generation a request wants stopped, 0 for the current one

vars == <<row, receipt, call, holder, attempts, asked>>

Generations == 1..MaxGen
EndStates == {"complete", "cancelled"}
Closed == EndStates \cup {"refused"}   \* refused: failed_pre_submit
Row == [gen : 0..MaxGen, state : {"ready", "working"} \cup Closed, submitted : BOOLEAN]
NoReceipt == [status |-> "none", gen |-> 0, state |-> "none", expect |-> 0]
Receipt == [status : {"attempted", "complete"}, gen : 0..MaxGen, state : {"working"} \cup Closed, expect : 0..MaxGen]
Idle == [at |-> "idle", gen |-> 0, expect |-> 0]
Call == [at : {"idle", "queued", "opening", "preparing", "stopping"}, gen : 0..MaxGen, expect : 0..MaxGen]

Init ==
  /\ row = [gen |-> 0, state |-> "ready", submitted |-> FALSE]
  /\ receipt = [r \in Requests |-> NoReceipt]
  /\ call = [r \in Requests |-> Idle]
  /\ holder = None
  /\ attempts = [g \in Generations |-> 0] /\ asked = [r \in Requests |-> 0]

Terminal == row.state \in Closed

-----------------------------------------------------------------------------
(* The call.                                                               *)

\* stop: a request queues at the session's actor.  One that has a receipt must
\* ask for the same thing again.
Ask(r, expect) ==
  /\ call[r] = Idle
  /\ receipt[r] = NoReceipt \/ receipt[r].expect = expect
  /\ call' = [call EXCEPT ![r] = [at |-> "queued", gen |-> 0, expect |-> expect]]
  /\ UNCHANGED <<row, receipt, holder, attempts, asked>>

\* The call returns or throws; the actor goes on.
Leave(r) == holder' = None /\ call' = [call EXCEPT ![r] = Idle]

Store(r, status) ==
  receipt' = [receipt EXCEPT ![r] = [status |-> status, gen |-> row.gen, state |-> row.state, expect |-> call[r].expect]]

\* hasUnconfirmedStop
Unconfirmed(g) == \E r \in Requests : receipt[r].status = "attempted" /\ receipt[r].gen = g

\* Answered at once: replayed, refused as an older generation, already
\* terminal, without a generation, or after an uncertain stop.
AnswerAtOnce(r) ==
  /\ holder = None /\ call[r].at = "queued"
  /\ \/ receipt[r] # NoReceipt /\ UNCHANGED receipt
     \/ /\ receipt[r] = NoReceipt
        /\ \/ call[r].expect \notin {0, row.gen} /\ UNCHANGED receipt
           \/ call[r].expect \in {0, row.gen} /\ Terminal /\ Store(r, "complete")
           \/ /\ call[r].expect \in {0, row.gen} /\ ~Terminal
              /\ row.gen = 0 \/ Unconfirmed(row.gen)
              /\ UNCHANGED receipt
  /\ Leave(r)
  /\ UNCHANGED <<row, attempts, asked>>

\* #stopLocked up to openStop
Open(r) ==
  /\ holder = None /\ call[r].at = "queued" /\ receipt[r] = NoReceipt
  /\ call[r].expect \in {0, row.gen}
  /\ ~Terminal /\ row.gen > 0 /\ ~Unconfirmed(row.gen)
  /\ holder' = r
  /\ call' = [call EXCEPT ![r].at = "opening", ![r].gen = row.gen]
  /\ asked' = [asked EXCEPT ![r] = call[r].expect]
  /\ UNCHANGED <<row, receipt, attempts>>

\* The page is open and locked, or cannot be.
Opened(r) ==
  /\ call[r].at = "opening"
  /\ \/ call' = [call EXCEPT ![r].at = "preparing"] /\ UNCHANGED holder
     \/ Leave(r)
  /\ UNCHANGED <<row, receipt, attempts, asked>>

\* prepare finds no exact control, or throws.
Unavailable(r) ==
  /\ call[r].at = "preparing"
  /\ IF Terminal THEN Store(r, "complete") ELSE UNCHANGED receipt
  /\ Leave(r)
  /\ UNCHANGED <<row, attempts, asked>>

\* Mutant: the receipt is written when the outcome is known.
AttemptUnrecorded(r) ==
  /\ call[r].at = "preparing"
  /\ call' = [call EXCEPT ![r].at = "stopping"]
  /\ attempts' = [attempts EXCEPT ![call[r].gen] = @ + 1]
  /\ UNCHANGED <<row, receipt, holder, asked>>

\* It finds one: the attempted receipt, then stopOnce, with nothing awaited between.
Attempt(r) ==
  /\ call[r].at = "preparing"
  /\ receipt' = [receipt EXCEPT ![r] = [status |-> "attempted", gen |-> call[r].gen, state |-> "working", expect |-> call[r].expect]]
  /\ call' = [call EXCEPT ![r].at = "stopping"]
  /\ attempts' = [attempts EXCEPT ![call[r].gen] = @ + 1]
  /\ UNCHANGED <<row, holder, asked>>

\* The receipt of a confirmed stop.
Cancelled(r) == [status |-> "complete", gen |-> call[r].gen, state |-> "cancelled", expect |-> call[r].expect]

\* Mutant: the receipt is completed, the session is not.
StoppedOnPaper(r) ==
  /\ call[r].at = "stopping"
  /\ receipt' = [receipt EXCEPT ![r] = Cancelled(r)]
  /\ Leave(r)
  /\ UNCHANGED <<row, attempts, asked>>

\* stopOnce confirms: #completeStop, one transaction.
Stopped(r) ==
  /\ call[r].at = "stopping"
  /\ IF row.gen = call[r].gen
     THEN /\ row' = [row EXCEPT !.state = "cancelled"]
          /\ receipt' = [receipt EXCEPT ![r] = Cancelled(r)]
     ELSE UNCHANGED <<row, receipt>>
  /\ Leave(r)
  /\ UNCHANGED <<attempts, asked>>

\* It does not, or throws: the outcome is unknown.
Unknown(r) ==
  /\ call[r].at = "stopping"
  /\ Leave(r)
  /\ UNCHANGED <<row, receipt, attempts, asked>>

-----------------------------------------------------------------------------
(* The session around it.                                                  *)

\* A new generation is prepared, then submitted, in the actor.
NextGeneration ==
  /\ holder = None /\ row.state \in {"ready", "complete", "refused"} /\ row.gen < MaxGen
  /\ row' = [gen |-> row.gen + 1, state |-> "working", submitted |-> FALSE]
  /\ UNCHANGED <<receipt, call, holder, attempts, asked>>

\* A preparation fails before submission.
Refused ==
  /\ holder = None /\ row.state = "working" /\ ~row.submitted
  /\ row' = [row EXCEPT !.state = "refused"]
  /\ UNCHANGED <<receipt, call, holder, attempts, asked>>

\* An inspection finds it in order: its owner is checked again, and the
\* preparation reopened, with nothing awaited between.
Resumes ==
  /\ holder = None /\ row.state = "refused" /\ ~row.submitted
  /\ row' = [row EXCEPT !.state = "working"]
  /\ UNCHANGED <<receipt, call, holder, attempts, asked>>

\* refreshPage of one that a lost page refused: its row is read, then the page
\* inspected and reloaded.
RefreshBegins ==
  /\ holder = None /\ row.state = "refused" /\ ~row.submitted
  /\ holder' = PageRefresh
  /\ UNCHANGED <<row, receipt, call, attempts, asked>>

\* It reopens the preparation by what was read before the reload, whatever the
\* row says now; or the reload fails.
RefreshEnds ==
  /\ holder = PageRefresh
  /\ holder' = None
  /\ row' = row \/ row' = [row EXCEPT !.state = "working"]
  /\ UNCHANGED <<receipt, call, attempts, asked>>

Submitted ==
  /\ holder = None /\ row.state = "working" /\ ~row.submitted
  /\ row' = [row EXCEPT !.submitted = TRUE]
  /\ UNCHANGED <<receipt, call, holder, attempts, asked>>

\* The observer records the final, or its owner retires the observation, in
\* the actor's queue.
Observe ==
  /\ holder = None /\ row.state = "working" /\ row.submitted
  /\ \E end \in EndStates : row' = [row EXCEPT !.state = end]
  /\ UNCHANGED <<receipt, call, holder, attempts, asked>>

\* A retired role's unsubmitted session is cancelled, outside the actor.
Retire ==
  /\ row.state \in {"ready", "working", "refused"} /\ ~row.submitted
  /\ row' = [row EXCEPT !.state = "cancelled"]
  /\ UNCHANGED <<receipt, call, holder, attempts, asked>>

\* The core stops and starts: the calls are lost, the rows are not.
Restart ==
  /\ holder # None \/ \E r \in Requests : call[r] # Idle
  /\ call' = [r \in Requests |-> Idle] /\ holder' = None
  /\ UNCHANGED <<row, receipt, attempts, asked>>

OfRequest(r) == \/ \E g \in 0..MaxGen : Ask(r, g)
                \/ AnswerAtOnce(r) \/ Open(r) \/ Opened(r) \/ Unavailable(r)
                \/ Attempt(r) \/ Stopped(r) \/ Unknown(r)

Next ==
  \/ \E r \in Requests : OfRequest(r)
  \/ NextGeneration \/ Submitted \/ Observe \/ Retire \/ Restart
  \/ Refused \/ Resumes \/ RefreshBegins \/ RefreshEnds

Spec == Init /\ [][Next]_vars

-----------------------------------------------------------------------------
(* Properties.                                                             *)

\* Every variable keeps its type, and the actor runs one operation at most.
TypeOK ==
  /\ row \in Row
  /\ receipt \in [Requests -> Receipt \cup {NoReceipt}]
  /\ call \in [Requests -> Call] /\ holder \in Requests \cup {None, PageRefresh}
  /\ \A r \in Requests : call[r].at \in {"opening", "preparing", "stopping"} <=> holder = r
  /\ attempts \in [Generations -> Nat] /\ asked \in [Requests -> 0..MaxGen]

(* "The attempted receipt survives restart and blocks repeat stop under    *)
(* another request ID": Stop is pressed at most once for a generation.     *)
StopPressedOnce == \A g \in Generations : attempts[g] <= 1

(* "It cannot stop a newer generation": every attempt is at the generation *)
(* the caller named.                                                       *)
StopsWhatWasNamed ==
  \A r \in Requests : receipt[r].status = "attempted" => asked[r] \in {0, receipt[r].gen}

(* An outcome recorded for a generation is not rewritten: a confirmed stop *)
(* is not overtaken by a late final, nor a final by a late stop.  One step *)
(* of the code breaks it, and no other: a page refresh reopens a           *)
(* preparation that its role's retirement cancelled during the reload.     *)
Reopened == holder = PageRefresh /\ ~row.submitted /\ row.state = "cancelled" /\ row'.state = "working"

OutcomeIsFinal ==
  [][row.state \in EndStates /\ row'.gen = row.gen => row'.state = row.state \/ Reopened]_row

(* A caller told that its generation is over was told the truth.           *)
ConfirmedStopIsTrue ==
  \A r \in Requests : receipt[r].status = "complete" /\ receipt[r].state \in EndStates /\ receipt[r].gen = row.gen
                      => row.state = receipt[r].state
=============================================================================
