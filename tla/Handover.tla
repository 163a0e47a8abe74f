------------------------------ MODULE Handover ------------------------------
(***************************************************************************)
(* src/core/maintenance.ts and its use: an updater takes a bounded lease,  *)
(* the core stops admitting calls and cycles, those it admitted drain, and *)
(* the updater may then make the core exit without closing the browser.    *)
(* The lease ends by itself when the updater is lost.                      *)
(***************************************************************************)
EXTENDS Naturals, FiniteSets

CONSTANTS
  Work,         \* mutating calls and background cycles
  Waits,        \* session.wait, team.wait and workflow.wait calls
  Updaters,
  MaxLeases,    \* bound: leases taken
  MaxRenewals   \* bound: renewals of a lease by a live updater

ASSUME WorkIsNotWaiting == Work \cap Waits = {}
ASSUME NobodyIsNoUpdater == 0 \notin Updaters
ASSUME LeaseBounds == MaxLeases \in Nat /\ MaxRenewals \in Nat

VARIABLES
  phase,       \* "running", "draining" or "ready"
  token,       \* the current lease, 0 for none
  overdue,     \* its time is over, its timer has not run yet
  inside,      \* calls, cycles and waits that entered and have not released
  deferred,    \* work that was refused and will come back
  aborted,     \* waits whose readWaitSignal was aborted
  dispatching, \* work whose outbox row is composer_filled or submit_attempted
  retained,    \* work whose abandoned browser command still holds its page lock
  attended,    \* the browser owner's state is ready
  lease,       \* lease[u]: the token updater u was given, 0 for none
  polling,     \* updaters whose system.maintenance.prepare still polls
  renewals,    \* renewals of the current lease
  leases,      \* leases taken so far
  exited,      \* the updater whose commit ended the process, or 0
  written,     \* history: evidence written since the lease last became ready
  newest       \* history: the updater that took the newest lease

lock == <<phase, token, overdue>>
holders == <<lease, polling, renewals, leases>>
load == <<inside, deferred, aborted, dispatching, retained, attended>>
handoverVars == <<lock, holders, load, exited, written, newest>>

Phases == {"running", "draining", "ready"}
Nobody == 0
CoreRuns == exited = Nobody
Paused == phase # "running"

\* handoverIdle, and no admitted operation (active = 0).
Quiet == attended /\ retained = {} /\ dispatching = {}
Drained == inside = {} /\ Quiet

HandoverInit ==
  /\ phase = "running" /\ token = 0 /\ overdue = FALSE
  /\ inside = {} /\ deferred = {} /\ aborted = {} /\ dispatching = {} /\ retained = {}
  /\ attended = TRUE
  /\ lease = [u \in Updaters |-> 0] /\ polling = {} /\ renewals = 0 /\ leases = 0
  /\ exited = Nobody /\ written = FALSE /\ newest = Nobody

-----------------------------------------------------------------------------
(* The lease.                                                              *)

\* resume: end the lease, whoever holds it.
Resume == /\ phase' = "running" /\ token' = 0 /\ overdue' = FALSE
          /\ UNCHANGED <<holders, load, exited, written, newest>>

Take(u) == /\ CoreRuns /\ ~Paused /\ leases < MaxLeases /\ u \notin polling
           /\ leases' = leases + 1
           /\ token' = leases + 1
           /\ lease' = [lease EXCEPT ![u] = leases + 1]
           /\ newest' = u
           /\ renewals' = 0 /\ overdue' = FALSE
           /\ aborted' = inside \cap Waits
           /\ UNCHANGED <<inside, deferred, dispatching, retained, attended, exited>>

\* The phase is computed from what is going on now.
Judge == /\ phase' = IF Drained THEN "ready" ELSE "draining"
         /\ written' = IF Drained THEN FALSE ELSE written

\* system.maintenance.quiesce without a token
Quiesce(u) == Take(u) /\ Judge /\ UNCHANGED polling

\* ... and with one: renew the lease and look again.
Renew(u) == /\ CoreRuns /\ Paused /\ lease[u] = token /\ u \notin polling
            /\ renewals < MaxRenewals
            /\ renewals' = renewals + 1 /\ overdue' = FALSE
            /\ Judge
            /\ UNCHANGED <<token, lease, polling, leases, load, exited, newest>>

\* system.maintenance.prepare: take a lease, then poll until the core is drained.
Prepare(u) == /\ Take(u)
              /\ phase' = "draining"
              /\ polling' = polling \cup {u}
              /\ UNCHANGED written

DrainSucceeds(u) ==
  /\ CoreRuns /\ u \in polling /\ token = lease[u] /\ ~overdue /\ Drained
  /\ phase' = "ready" /\ written' = FALSE
  /\ polling' = polling \ {u}
  /\ UNCHANGED <<token, overdue, lease, renewals, leases, load, exited, newest>>

\* The drain's deadline passes, or its lease is gone; its own lease it gives back.
DrainFails(u) ==
  /\ CoreRuns /\ u \in polling
  /\ polling' = polling \ {u}
  /\ IF token = lease[u] THEN phase' = "running" /\ token' = 0 /\ overdue' = FALSE
     ELSE UNCHANGED lock
  /\ lease' = [lease EXCEPT ![u] = 0]
  /\ UNCHANGED <<renewals, leases, load, exited, written, newest>>

\* system.maintenance.resume; a stale token changes nothing.
Release(u) == CoreRuns /\ Paused /\ u \notin polling /\ lease[u] = token /\ Resume

\* Thirty seconds, or leaseMs, go by.
Lapse == /\ CoreRuns /\ Paused /\ ~overdue
         /\ overdue' = TRUE
         /\ UNCHANGED <<phase, token, holders, load, exited, written, newest>>

\* Mutant: the timer resumes a ready core only.
TimerWhenReady == CoreRuns /\ phase = "ready" /\ overdue /\ Resume

\* The lease's timer.
Timer == CoreRuns /\ Paused /\ overdue /\ Resume

\* system.maintenance.commit: everything is checked again and nothing awaited
\* before the exit.  A stale token changes nothing.
Commit(u) ==
  /\ CoreRuns /\ lease[u] > 0 /\ u \notin polling
  /\ token = lease[u]
  /\ IF phase = "ready" /\ ~overdue /\ Drained
     THEN exited' = u /\ UNCHANGED <<lock, holders, load, written, newest>>
     ELSE Resume

-----------------------------------------------------------------------------
(* What the core admits.                                                   *)

\* Mutant: a core that has drained is taken for one that runs again.
EnterUnlessDraining(o) ==
  /\ CoreRuns /\ o \notin inside
  /\ IF phase = "draining"
     THEN o \notin deferred /\ deferred' = deferred \cup {o} /\ UNCHANGED inside
     ELSE inside' = inside \cup {o} /\ deferred' = deferred \ {o}
  /\ UNCHANGED <<lock, holders, aborted, dispatching, retained, attended, exited, written, newest>>

\* enter: a refused caller keeps its request and comes back.
Enter(o) ==
  /\ CoreRuns /\ o \notin inside
  /\ IF Paused
     THEN o \notin deferred /\ deferred' = deferred \cup {o} /\ UNCHANGED inside
     ELSE inside' = inside \cup {o} /\ deferred' = deferred \ {o}
  /\ UNCHANGED <<lock, holders, aborted, dispatching, retained, attended, exited, written, newest>>

\* A submission fills the composer and attempts to send.
Dispatch(o) ==
  /\ CoreRuns /\ o \in inside /\ o \notin dispatching
  /\ dispatching' = dispatching \cup {o}
  /\ UNCHANGED <<lock, holders, inside, deferred, aborted, retained, attended, exited, written, newest>>

\* Its outcome is recorded.
Record(o) ==
  /\ CoreRuns /\ o \in inside /\ o \in dispatching
  /\ dispatching' = dispatching \ {o}
  /\ UNCHANGED <<lock, holders, inside, deferred, aborted, retained, attended, exited, written, newest>>

\* The work returns and releases its admission; it may have given up on a
\* browser command, which keeps the page lock until it settles.
Return(o) ==
  /\ CoreRuns /\ o \in inside /\ o \notin retained
  /\ inside' = inside \ {o}
  /\ retained' \in {retained, retained \cup {o}}
  /\ UNCHANGED <<lock, holders, deferred, aborted, dispatching, attended, exited, written, newest>>

CommandSettles(o) ==
  /\ CoreRuns /\ o \in retained
  /\ retained' = retained \ {o}
  /\ UNCHANGED <<lock, holders, inside, deferred, aborted, dispatching, attended, exited, written, newest>>

\* A wait is admitted with the signal of the day, and ends when its session
\* changes, its time is over or its signal is aborted.
EnterWait(w) ==
  /\ CoreRuns /\ ~Paused /\ w \notin inside
  /\ inside' = inside \cup {w}
  /\ UNCHANGED <<lock, holders, deferred, aborted, dispatching, retained, attended, exited, written, newest>>

EndWait(w) ==
  /\ CoreRuns /\ w \in inside
  /\ inside' = inside \ {w} /\ aborted' = aborted \ {w}
  /\ UNCHANGED <<lock, holders, deferred, dispatching, retained, attended, exited, written, newest>>

\* Mutant: evidence is written and the lease stays ready.
EvidenceKeepsLease ==
  /\ CoreRuns
  /\ written' = TRUE
  /\ UNCHANGED <<lock, holders, load, exited, newest>>

\* callback: page bindings and rate-limit evidence are written whatever the
\* phase; a ready lease is revoked first.
Evidence ==
  /\ CoreRuns
  /\ IF phase = "ready" THEN phase' = "running" /\ token' = 0 /\ overdue' = FALSE
     ELSE UNCHANGED lock
  /\ written' = TRUE
  /\ UNCHANGED <<holders, load, exited, newest>>

\* Chrome disconnects; the recovery timer enters like any other cycle.
Disconnect ==
  /\ CoreRuns /\ attended
  /\ attended' = FALSE
  /\ UNCHANGED <<lock, holders, inside, deferred, aborted, dispatching, retained, exited, written, newest>>

RecoverBrowser ==
  /\ CoreRuns /\ ~attended /\ ~Paused
  /\ attended' = TRUE
  /\ UNCHANGED <<lock, holders, inside, deferred, aborted, dispatching, retained, exited, written, newest>>

-----------------------------------------------------------------------------
OfUpdater(u) == \/ Quiesce(u) \/ Renew(u) \/ Prepare(u) \/ DrainSucceeds(u) \/ DrainFails(u)
                \/ Release(u) \/ Commit(u)
OfWork(o) == Enter(o) \/ Dispatch(o) \/ Record(o) \/ Return(o) \/ CommandSettles(o)
OfWait(w) == EnterWait(w) \/ EndWait(w)

HandoverNext == \/ \E u \in Updaters : OfUpdater(u)
                \/ \E o \in Work : OfWork(o)
                \/ \E w \in Waits : OfWait(w)
                \/ Lapse \/ Timer \/ Evidence \/ Disconnect \/ RecoverBrowser

HandoverSpec == HandoverInit /\ [][HandoverNext]_handoverVars

\* Time passes and timers run; an aborted wait ends; the drain loop goes on;
\* work that was refused asks again.  No updater and no work need do anything.
HandoverFairness == /\ WF_handoverVars(Lapse) /\ WF_handoverVars(Timer)
                    /\ \A w \in Waits : WF_handoverVars(w \in aborted /\ EndWait(w))
                    /\ \A u \in Updaters : WF_handoverVars(DrainSucceeds(u) \/ DrainFails(u))
                    /\ \A o \in Work : WF_handoverVars(o \in deferred /\ Enter(o))

FairHandoverSpec == HandoverSpec /\ HandoverFairness

-----------------------------------------------------------------------------
(* Properties.                                                             *)

\* Every variable keeps its type, and the core is paused while a lease is held.
HandoverTypeOK ==
  /\ phase \in Phases /\ token \in 0..leases /\ overdue \in BOOLEAN
  /\ inside \subseteq Work \cup Waits /\ deferred \subseteq Work /\ aborted \subseteq inside \cap Waits
  /\ dispatching \subseteq Work /\ retained \subseteq Work /\ attended \in BOOLEAN
  /\ lease \in [Updaters -> 0..MaxLeases] /\ polling \subseteq Updaters
  /\ renewals \in 0..MaxRenewals /\ leases \in 0..MaxLeases
  /\ exited \in Updaters \cup {Nobody} /\ written \in BOOLEAN /\ newest \in Updaters \cup {Nobody}
  /\ Paused <=> token > 0

(* Readiness lasts.  From the moment the core calls itself ready until the *)
(* lease ends or the core exits, over renewals, drain loops of leases that *)
(* are over and calls that come back, nothing gets under way in it: no     *)
(* call, cycle or wait is admitted, no row lies between composer and       *)
(* acknowledgement and no abandoned command holds a page.  Only the        *)
(* browser and evidence can change, and commit looks at those again.       *)
ReadinessLasts ==
  phase = "ready" \/ exited # Nobody => inside = {} /\ dispatching = {} /\ retained = {}

(* "A late callback revokes a ready lease before its write ... This makes  *)
(* a stale commit fail instead of dropping evidence."                      *)
ReadinessCoversEvidence == exited # Nobody => ~written

(* Only the updater that took the newest lease ends the process; one whose *)
(* lease expired, was released or was revoked cannot.                      *)
OnlyTheHolderExits == exited # Nobody => newest = exited /\ lease[exited] = token

(* Work that was refused during a handover runs afterwards.                *)
DeferredWorkRuns == \A o \in Work : (o \in deferred) ~> (o \notin deferred \/ ~CoreRuns)
=============================================================================
