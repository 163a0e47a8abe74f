---------------------------- MODULE ControlProofs ----------------------------
(***************************************************************************)
(* Proofs about Handover, what is true of a core that is ready to exit or  *)
(* has done so, and about StopRequest.  That Stop is pressed at most once  *)
(* is not inductive: one has to know that a generation whose stop was      *)
(* attempted and is still current is either held by an attempted receipt   *)
(* or already cancelled, so that no later call gets as far as the attempt. *)
(***************************************************************************)
EXTENDS Handover, StopRequest, TLAPS

-----------------------------------------------------------------------------
(* The handover of the core.                                               *)

\* A lease that is held is the newest one, which its owner alone holds.
NewestIsHeld ==
  /\ token > 0 => token = leases
  /\ \A u \in Updaters : lease[u] > 0 /\ lease[u] = leases => newest = u
  /\ \A u \in Updaters : lease[u] <= leases

\* Evidence revokes readiness.
ReadyIsFresh == phase = "ready" => ~written

\* Nothing gets under way in a ready core.
ReadyIsIdle == phase = "ready" => inside = {} /\ dispatching = {} /\ retained = {}

\* Nothing happens after the exit of a ready core.
ExitIsHeld ==
  exited # Nobody => exited \in Updaters /\ phase = "ready" /\ token > 0 /\ lease[exited] = token

\* A drain that still polls was given a lease.
DrainersHold == \A u \in polling : lease[u] > 0

HandoverInv == HandoverTypeOK /\ DrainersHold /\ NewestIsHeld /\ ReadyIsFresh /\ ReadyIsIdle /\ ExitIsHeld

LEMMA HandoverStarts == HandoverInit => HandoverInv
<1> SUFFICES ASSUME HandoverInit PROVE HandoverInv
  OBVIOUS
<1> USE LeaseBounds DEF HandoverInit
<1>1. HandoverTypeOK
  <2>1. leases \in 0..MaxLeases /\ token \in 0..leases /\ renewals \in 0..MaxRenewals
    OBVIOUS
  <2>2. lease \in [Updaters -> 0..MaxLeases]
    OBVIOUS
  <2>3. overdue \in BOOLEAN /\ attended \in BOOLEAN /\ written \in BOOLEAN
    BY Zenon
  <2>4. phase \in Phases /\ ~Paused /\ ~(token > 0)
    BY DEF Phases, Paused
  <2>5. /\ inside \subseteq Work \cup Waits /\ deferred \subseteq Work /\ aborted \subseteq inside \cap Waits
        /\ dispatching \subseteq Work /\ retained \subseteq Work /\ polling \subseteq Updaters
    OBVIOUS
  <2>6. exited \in Updaters \cup {Nobody} /\ newest \in Updaters \cup {Nobody}
    OBVIOUS
  <2> QED BY <2>1, <2>2, <2>3, <2>4, <2>5, <2>6 DEF HandoverTypeOK
<1>2. NewestIsHeld
  BY DEF NewestIsHeld
<1>3. ReadyIsFresh /\ ReadyIsIdle /\ ExitIsHeld /\ DrainersHold
  BY DEF ReadyIsFresh, ReadyIsIdle, ExitIsHeld, DrainersHold
<1> QED BY <1>1, <1>2, <1>3 DEF HandoverInv

(* While the core runs, a step that does not exit leaves it running: the   *)
(* claim about the exit is not at stake.                                   *)
LEMMA StillRunning == ASSUME CoreRuns, UNCHANGED exited PROVE ExitIsHeld'
  BY DEF CoreRuns, ExitIsHeld

(* A lease is taken: its number is new, so nobody else holds it.           *)
LEMMA TakeKeeps == ASSUME HandoverInv, NEW u \in Updaters, Take(u) PROVE NewestIsHeld' /\ \A v \in polling \cup {u} : lease'[v] > 0
<1>1. /\ leases \in Nat /\ leases' = leases + 1 /\ token' = leases + 1 /\ newest' = u
      /\ \A v \in Updaters : lease[v] \in Nat /\ lease[v] <= leases
      /\ \A v \in Updaters : lease'[v] = IF v = u THEN leases + 1 ELSE lease[v]
  BY LeaseBounds DEF HandoverInv, HandoverTypeOK, NewestIsHeld, Take
<1>2. \A v \in polling : v \in Updaters /\ lease[v] > 0
  BY DEF HandoverInv, HandoverTypeOK, DrainersHold
<1> QED BY <1>1, <1>2 DEF NewestIsHeld

LEMMA TakeTyped ==
  ASSUME HandoverInv, NEW u \in Updaters, Take(u), phase' \in {"draining", "ready"},
         written' \in BOOLEAN, polling' \subseteq Updaters
  PROVE  HandoverTypeOK'
<1>1. leases \in Nat /\ leases' \in 0..MaxLeases /\ leases' > 0 /\ token' \in 0..leases' /\ token' > 0
  BY LeaseBounds DEF HandoverInv, HandoverTypeOK, Take, Phases, Paused
<1>2. lease' \in [Updaters -> 0..MaxLeases]
  BY <1>1 DEF HandoverInv, HandoverTypeOK, Take, Phases, Paused
<1>3. /\ phase' \in Phases /\ Paused'
  BY DEF Phases, Paused
<1>4. renewals' \in 0..MaxRenewals /\ newest' \in Updaters /\ aborted' = inside' \cap Waits
  BY LeaseBounds DEF Take
<1>5. overdue' \in BOOLEAN
  BY Zenon DEF Take
<1>6. /\ inside' \subseteq Work \cup Waits /\ deferred' \subseteq Work
      /\ dispatching' \subseteq Work /\ retained' \subseteq Work /\ attended' \in BOOLEAN
      /\ exited' \in Updaters \cup {Nobody}
  BY DEF HandoverInv, HandoverTypeOK, Take
<1> QED BY <1>1, <1>2, <1>3, <1>4, <1>5, <1>6 DEF HandoverTypeOK

(* The lease ends.                                                         *)
LEMMA ResumeKeeps == ASSUME HandoverInv, CoreRuns, Resume PROVE HandoverInv'
<1> USE DEF HandoverInv, Resume, holders, load
<1>1. HandoverTypeOK'
  <2>1. leases \in Nat /\ token' \in 0..leases'
    BY LeaseBounds DEF HandoverTypeOK
  <2>2. overdue' \in BOOLEAN
    BY Zenon
  <2>3. phase' \in Phases /\ ~Paused' /\ ~(token' > 0)
    BY DEF Phases, Paused
  <2> QED BY <2>1, <2>2, <2>3 DEF HandoverTypeOK
<1>2. NewestIsHeld'
  BY DEF NewestIsHeld
<1>3. ReadyIsFresh' /\ ReadyIsIdle' /\ DrainersHold'
  BY DEF ReadyIsFresh, ReadyIsIdle, DrainersHold
<1> QED BY <1>1, <1>2, <1>3, StillRunning

(* An updater's step.                                                      *)
LEMMA UpdaterStep == ASSUME HandoverInv, NEW u \in Updaters, OfUpdater(u) PROVE HandoverInv'
<1>1. ASSUME Quiesce(u) PROVE HandoverInv'
  <2>1. CoreRuns /\ Take(u) /\ UNCHANGED exited /\ phase' \in {"draining", "ready"}
        /\ written' \in BOOLEAN /\ polling' \subseteq Updaters
    BY <1>1 DEF Quiesce, Take, Judge, HandoverInv, HandoverTypeOK
  <2>2. ReadyIsFresh' /\ ReadyIsIdle'
    BY <1>1 DEF Quiesce, Take, Judge, ReadyIsFresh, ReadyIsIdle, Drained, Quiet
  <2>3. DrainersHold'
    BY <1>1, <2>1, TakeKeeps DEF Quiesce, DrainersHold
  <2> QED BY <2>1, <2>2, <2>3, TakeKeeps, TakeTyped, StillRunning DEF HandoverInv
<1>2. ASSUME Renew(u) PROVE HandoverInv'
  <2>1. HandoverTypeOK'
    <3>1. renewals' \in 0..MaxRenewals
      BY <1>2, LeaseBounds DEF Renew, HandoverInv, HandoverTypeOK
    <3>2. phase' \in Phases /\ Paused' /\ written' \in BOOLEAN /\ overdue' \in BOOLEAN
      BY <1>2 DEF Renew, Judge, HandoverInv, HandoverTypeOK, Phases, Paused
    <3>3. token > 0 /\ token' = token
      BY <1>2 DEF Renew, HandoverInv, HandoverTypeOK
    <3> QED BY <1>2, <3>1, <3>2, <3>3 DEF Renew, load, HandoverInv, HandoverTypeOK
  <2>2. NewestIsHeld'
    BY <1>2 DEF Renew, HandoverInv, NewestIsHeld
  <2>3. ReadyIsFresh' /\ ReadyIsIdle' /\ DrainersHold'
    BY <1>2 DEF Renew, Judge, ReadyIsFresh, ReadyIsIdle, Drained, Quiet, load, HandoverInv, DrainersHold
  <2> QED BY <1>2, <2>1, <2>2, <2>3, StillRunning DEF HandoverInv, Renew
<1>3. ASSUME Prepare(u) PROVE HandoverInv'
  <2>1. CoreRuns /\ Take(u) /\ UNCHANGED exited /\ phase' \in {"draining", "ready"}
        /\ written' \in BOOLEAN /\ polling' \subseteq Updaters
    BY <1>3 DEF Prepare, Take, HandoverInv, HandoverTypeOK
  <2>2. ReadyIsFresh' /\ ReadyIsIdle'
    BY <1>3 DEF Prepare, ReadyIsFresh, ReadyIsIdle
  <2>3. DrainersHold'
    BY <1>3, <2>1, TakeKeeps DEF Prepare, DrainersHold
  <2> QED BY <2>1, <2>2, <2>3, TakeKeeps, TakeTyped, StillRunning DEF HandoverInv
<1>4. ASSUME DrainSucceeds(u) PROVE HandoverInv'
  <2>1. u \in polling /\ phase' = "ready" /\ written' = FALSE /\ CoreRuns /\ Drained
        /\ UNCHANGED <<token, overdue, lease, renewals, leases, load, exited, newest>>
        /\ polling' = polling \ {u} /\ token = lease[u]
    BY <1>4 DEF DrainSucceeds
  <2>2. token > 0 /\ DrainersHold'
    BY <2>1 DEF HandoverInv, DrainersHold
  <2>3. HandoverTypeOK'
    BY <2>1, <2>2, LeaseBounds DEF load, HandoverInv, HandoverTypeOK, Phases, Paused
  <2>4. NewestIsHeld' /\ ReadyIsFresh' /\ ReadyIsIdle'
    <3>1. inside' = {} /\ dispatching' = {} /\ retained' = {}
      BY <2>1 DEF Drained, Quiet, load
    <3> QED BY <2>1, <3>1 DEF HandoverInv, NewestIsHeld, ReadyIsFresh, ReadyIsIdle
  <2> QED BY <2>1, <2>2, <2>3, <2>4, StillRunning DEF HandoverInv
<1>5. ASSUME DrainFails(u) PROVE HandoverInv'
  <2>1. /\ CoreRuns /\ u \in polling /\ polling' = polling \ {u}
        /\ lease' = [lease EXCEPT ![u] = 0] /\ lease' \in [Updaters -> 0..MaxLeases]
        /\ UNCHANGED <<renewals, leases, inside, deferred, aborted, dispatching, retained, attended>>
        /\ UNCHANGED <<exited, written, newest>>
        /\ \/ phase' = "running" /\ token' = 0 /\ overdue' = FALSE
           \/ UNCHANGED <<phase, token, overdue>>
    BY <1>5, LeaseBounds DEF DrainFails, lock, load, HandoverInv, HandoverTypeOK
  <2>2. HandoverTypeOK'
    <3>1. leases \in Nat /\ token' \in 0..leases'
      BY <2>1, LeaseBounds DEF HandoverInv, HandoverTypeOK
    <3>2. phase' \in Phases /\ overdue' \in BOOLEAN
      BY <2>1 DEF HandoverInv, HandoverTypeOK, Phases
    <3> QED BY <2>1, <3>1, <3>2 DEF HandoverInv, HandoverTypeOK, Phases, Paused
  <2>3. NewestIsHeld' /\ DrainersHold'
    BY <2>1 DEF HandoverInv, HandoverTypeOK, NewestIsHeld, DrainersHold
  <2>4. ReadyIsFresh' /\ ReadyIsIdle'
    BY <2>1 DEF HandoverInv, ReadyIsFresh, ReadyIsIdle
  <2> QED BY <2>1, <2>2, <2>3, <2>4, StillRunning DEF HandoverInv
<1>6. ASSUME Release(u) PROVE HandoverInv'
  BY <1>6, ResumeKeeps DEF Release
<1>7. ASSUME Commit(u) PROVE HandoverInv'
  <2>1. CoreRuns /\ lease[u] > 0 /\ token = lease[u]
    BY <1>7 DEF Commit
  <2>2. CASE phase = "ready" /\ ~overdue /\ Drained
    <3>1. exited' = u /\ UNCHANGED <<lock, holders, load, written, newest>>
      BY <1>7, <2>2 DEF Commit
    <3>2. HandoverTypeOK'
      BY <3>1 DEF HandoverInv, HandoverTypeOK, lock, holders, load, Phases, Paused
    <3>3. NewestIsHeld' /\ ReadyIsFresh' /\ ReadyIsIdle' /\ DrainersHold'
      BY <3>1 DEF HandoverInv, NewestIsHeld, ReadyIsFresh, ReadyIsIdle, DrainersHold, lock, holders, load
    <3>4. ExitIsHeld'
      BY <2>1, <2>2, <3>1 DEF ExitIsHeld, HandoverInv, HandoverTypeOK, Paused, lock, holders
    <3> QED BY <3>2, <3>3, <3>4 DEF HandoverInv
  <2>3. CASE ~(phase = "ready" /\ ~overdue /\ Drained)
    BY <1>7, <2>1, <2>3, ResumeKeeps DEF Commit
  <2> QED BY <2>2, <2>3
<1> QED BY <1>1, <1>2, <1>3, <1>4, <1>5, <1>6, <1>7 DEF OfUpdater

(* A step that touches neither the lease nor the evidence keeps all but    *)
(* the types, which it has to keep itself.                                 *)
LEMMA LoadStep ==
  ASSUME HandoverInv, CoreRuns, UNCHANGED <<phase, token, holders, exited, written, newest>>,
         overdue' \in BOOLEAN, inside' \subseteq Work \cup Waits, deferred' \subseteq Work,
         aborted' \subseteq inside' \cap Waits, dispatching' \subseteq Work, retained' \subseteq Work,
         attended' \in BOOLEAN, phase = "ready" => inside' = {} /\ dispatching' = {} /\ retained' = {}
  PROVE  HandoverInv'
<1> USE DEF HandoverInv, holders
<1>1. HandoverTypeOK'
  BY DEF HandoverTypeOK, Phases, Paused
<1>2. NewestIsHeld' /\ ReadyIsFresh' /\ ReadyIsIdle' /\ DrainersHold'
  BY DEF NewestIsHeld, ReadyIsFresh, ReadyIsIdle, DrainersHold
<1> QED BY <1>1, <1>2, StillRunning

LEMMA WorkStep == ASSUME HandoverInv, NEW o \in Work, OfWork(o) PROVE HandoverInv'
<1>0. /\ CoreRuns /\ UNCHANGED <<phase, token, holders, exited, written, newest>>
      /\ UNCHANGED <<overdue, aborted, attended>>
  BY DEF OfWork, Enter, Dispatch, Record, Return, CommandSettles, lock
<1>1. /\ inside \subseteq Work \cup Waits /\ deferred \subseteq Work /\ dispatching \subseteq Work
      /\ retained \subseteq Work /\ aborted \subseteq inside \cap Waits /\ overdue \in BOOLEAN
      /\ attended \in BOOLEAN
  BY DEF HandoverInv, HandoverTypeOK
<1>2. /\ inside' \subseteq Work \cup Waits /\ deferred' \subseteq Work
      /\ dispatching' \subseteq Work /\ retained' \subseteq Work
  BY <1>1 DEF OfWork, Enter, Dispatch, Record, Return, CommandSettles
<1>3. inside \cap Waits \subseteq inside'
  BY WorkIsNotWaiting DEF OfWork, Enter, Dispatch, Record, Return, CommandSettles
<1>4. phase = "ready" => inside' = {} /\ dispatching' = {} /\ retained' = {}
  BY DEF HandoverInv, ReadyIsIdle, OfWork, Enter, Paused, Dispatch, Record, Return, CommandSettles
<1> QED BY <1>0, <1>1, <1>2, <1>3, <1>4, LoadStep

LEMMA WaitStep == ASSUME HandoverInv, NEW w \in Waits, OfWait(w) PROVE HandoverInv'
<1>1. /\ inside \subseteq Work \cup Waits /\ deferred \subseteq Work /\ dispatching \subseteq Work
      /\ retained \subseteq Work /\ aborted \subseteq inside \cap Waits /\ overdue \in BOOLEAN
      /\ attended \in BOOLEAN
  BY DEF HandoverInv, HandoverTypeOK
<1>2. /\ CoreRuns /\ UNCHANGED <<phase, token, holders, exited, written, newest>>
      /\ UNCHANGED <<overdue, deferred, dispatching, retained, attended>>
      /\ \/ inside' = inside \cup {w} /\ aborted' = aborted
         \/ inside' = inside \ {w} /\ aborted' = aborted \ {w}
  BY DEF OfWait, EnterWait, EndWait, lock
<1>3. inside' \subseteq Work \cup Waits /\ aborted' \subseteq inside' \cap Waits
  BY <1>1, <1>2
<1>4. phase = "ready" => inside' = {} /\ dispatching' = {} /\ retained' = {}
  BY <1>2 DEF HandoverInv, ReadyIsIdle, OfWait, EnterWait, EndWait, Paused
<1> QED BY <1>1, <1>2, <1>3, <1>4, LoadStep

(* Time, evidence and the browser.                                         *)
LEMMA OtherStep ==
  ASSUME HandoverInv, Lapse \/ Timer \/ Evidence \/ Disconnect \/ RecoverBrowser PROVE HandoverInv'
<1>1. CASE Timer
  BY <1>1, ResumeKeeps DEF Timer
<1>2. CASE Evidence
  <2>1. /\ CoreRuns /\ written' = TRUE /\ UNCHANGED <<holders, load, exited, newest>>
        /\ \/ phase' = "running" /\ token' = 0 /\ overdue' = FALSE
           \/ phase # "ready" /\ UNCHANGED <<phase, token, overdue>>
    BY <1>2 DEF Evidence, lock
  <2>2. HandoverTypeOK'
    <3>1. leases \in Nat /\ token' \in 0..leases'
      BY <2>1, LeaseBounds DEF HandoverInv, HandoverTypeOK, holders
    <3>2. phase' \in Phases /\ overdue' \in BOOLEAN
      BY <2>1 DEF HandoverInv, HandoverTypeOK, Phases
    <3> QED BY <2>1, <3>1, <3>2 DEF HandoverInv, HandoverTypeOK, Phases, Paused, holders, load
  <2>3. NewestIsHeld' /\ ReadyIsFresh' /\ ReadyIsIdle' /\ DrainersHold'
    BY <2>1 DEF HandoverInv, NewestIsHeld, ReadyIsFresh, ReadyIsIdle, DrainersHold, holders, load
  <2> QED BY <2>1, <2>2, <2>3, StillRunning DEF HandoverInv
<1>3. CASE Lapse \/ Disconnect \/ RecoverBrowser
  <2>1. /\ CoreRuns /\ UNCHANGED <<phase, token, holders, exited, written, newest>>
        /\ UNCHANGED <<inside, deferred, aborted, dispatching, retained>>
        /\ overdue' \in BOOLEAN /\ attended' \in BOOLEAN
    BY <1>3 DEF Lapse, Disconnect, RecoverBrowser, lock, load, HandoverInv, HandoverTypeOK
  <2> QED BY <2>1, LoadStep DEF HandoverInv, HandoverTypeOK, ReadyIsIdle
<1> QED BY <1>1, <1>2, <1>3

LEMMA StutterStep == ASSUME HandoverInv, UNCHANGED handoverVars PROVE HandoverInv'
<1> USE DEF HandoverInv, handoverVars, lock, holders, load
<1>1. HandoverTypeOK'
  BY DEF HandoverTypeOK, Phases, Paused
<1>2. NewestIsHeld' /\ ReadyIsFresh' /\ ReadyIsIdle' /\ DrainersHold' /\ ExitIsHeld'
  BY DEF NewestIsHeld, ReadyIsFresh, ReadyIsIdle, DrainersHold, ExitIsHeld
<1> QED BY <1>1, <1>2

(* Every action keeps the invariant.                                       *)
LEMMA HandoverStep == ASSUME HandoverInv, [HandoverNext]_handoverVars PROVE HandoverInv'
  BY UpdaterStep, WorkStep, WaitStep, OtherStep, StutterStep DEF HandoverNext

(* The invariant holds in every behaviour.                                 *)
THEOREM HandoverInvariant == HandoverSpec => []HandoverInv
<1> QED BY HandoverStarts, HandoverStep, PTL DEF HandoverSpec

(* The model is well typed, and the core is paused exactly while a lease   *)
(* is held.                                                                *)
THEOREM HandoverTyped == HandoverSpec => []HandoverTypeOK
<1>1. HandoverInv => HandoverTypeOK
  BY DEF HandoverInv
<1> QED BY <1>1, HandoverInvariant, PTL

(* From the moment the core is ready until its lease ends or it exits,     *)
(* nothing gets under way in it, for any number of updaters, leases and    *)
(* calls.                                                                  *)
THEOREM ReadyStaysIdle == HandoverSpec => []ReadinessLasts
<1>1. HandoverInv => ReadinessLasts
  BY DEF HandoverInv, ReadyIsIdle, ExitIsHeld, ReadinessLasts
<1> QED BY <1>1, HandoverInvariant, PTL

(* It never exits over evidence written after its readiness was judged.    *)
THEOREM NoEvidenceDropped == HandoverSpec => []ReadinessCoversEvidence
<1>1. HandoverInv => ReadinessCoversEvidence
  BY DEF HandoverInv, ExitIsHeld, ReadyIsFresh, ReadinessCoversEvidence
<1> QED BY <1>1, HandoverInvariant, PTL

(* Only the updater that took the newest lease can make it exit.           *)
THEOREM HolderExits == HandoverSpec => []OnlyTheHolderExits
<1>1. HandoverInv => OnlyTheHolderExits
  BY DEF HandoverInv, ExitIsHeld, NewestIsHeld, OnlyTheHolderExits
<1> QED BY <1>1, HandoverInvariant, PTL

-----------------------------------------------------------------------------
(* Stop requests.                                                          *)

\* A call on its way to the attempt is about the current generation, which
\* nobody has tried to stop, and has left no receipt yet.
OnItsWay ==
  \A r \in Requests : call[r].at \in {"opening", "preparing"} =>
    call[r].gen = row.gen /\ row.gen > 0 /\ attempts[row.gen] = 0 /\ receipt[r] = NoReceipt

\* While stopOnce runs its attempt is on record.
OnRecord ==
  \A r \in Requests : call[r].at = "stopping" =>
    call[r].gen = row.gen /\ receipt[r].status = "attempted" /\ receipt[r].gen = row.gen

\* An attempt at the current generation is remembered.
Remembered ==
  \A g \in Generations : attempts[g] > 0 =>
    g < row.gen \/ (g = row.gen /\ (Unconfirmed(g) \/ row.state = "cancelled"))

\* A page refresh reopens a preparation that was refused, and never submitted,
\* when the refresh began.  Its role may have retired since, but nobody has
\* stopped it: an attempt is still unconfirmed.
Refreshing ==
  holder = PageRefresh => /\ row.state \in {"refused", "cancelled"} /\ ~row.submitted
                          /\ \A g \in Generations : attempts[g] > 0 => g < row.gen \/ Unconfirmed(g)

StopInv == TypeOK /\ OnItsWay /\ OnRecord /\ Remembered /\ StopPressedOnce /\ Refreshing

\* The calls that hold the actor.
Held == {"opening", "preparing", "stopping"}
OneHolder == \A r \in Requests : call[r].at \in Held <=> holder = r

(* A call that moves on, returns or is answered keeps the calls well typed *)
(* and the actor with the one call that holds it.                          *)
LEMMA CallMoves ==
  ASSUME call \in [Requests -> Call], NEW r \in Requests, NEW a \in {"queued", "opening", "preparing", "stopping"}
  PROVE  /\ [call EXCEPT ![r].at = a] \in [Requests -> Call]
         /\ [call EXCEPT ![r].at = a][r] = [call[r] EXCEPT !.at = a]
         /\ [call EXCEPT ![r].at = a][r].at = a
         /\ \A o \in Requests \ {r} : [call EXCEPT ![r].at = a][o] = call[o]
<1>1. call[r] \in Call
  OBVIOUS
<1>2. [call[r] EXCEPT !.at = a] \in Call /\ [call[r] EXCEPT !.at = a].at = a
  BY <1>1 DEF Call
<1> QED BY <1>1, <1>2

LEMMA CallOpens ==
  ASSUME call \in [Requests -> Call], NEW r \in Requests, NEW g \in 0..MaxGen
  PROVE  /\ [call EXCEPT ![r].at = "opening", ![r].gen = g] \in [Requests -> Call]
         /\ [call EXCEPT ![r].at = "opening", ![r].gen = g][r].at = "opening"
         /\ [call EXCEPT ![r].at = "opening", ![r].gen = g][r].gen = g
         /\ \A o \in Requests \ {r} : [call EXCEPT ![r].at = "opening", ![r].gen = g][o] = call[o]
<1>1. call[r] \in Call
  OBVIOUS
<1>2. [[call[r] EXCEPT !.at = "opening"] EXCEPT !.gen = g] \in Call
  BY <1>1 DEF Call
<1>3. /\ [[call[r] EXCEPT !.at = "opening"] EXCEPT !.gen = g].at = "opening"
      /\ [[call[r] EXCEPT !.at = "opening"] EXCEPT !.gen = g].gen = g
  BY <1>1 DEF Call
<1> QED BY <1>1, <1>2, <1>3

LEMMA CallEnds ==
  ASSUME call \in [Requests -> Call], NEW r \in Requests, Leave(r)
  PROVE  /\ call' \in [Requests -> Call] /\ holder' = None
         /\ call'[r] = Idle /\ \A o \in Requests \ {r} : call'[o] = call[o]
<1>1. Idle \in Call
  BY MaxGenAssumption DEF Idle, Call
<1> QED BY <1>1 DEF Leave

(* Storing a receipt keeps the receipts well typed.                        *)
LEMMA ReceiptStored ==
  ASSUME TypeOK, NEW r \in Requests, Terminal, Store(r, "complete")
  PROVE  receipt' \in [Requests -> Receipt \cup {NoReceipt}]
<1>1. call[r] \in Call /\ row \in Row
  BY DEF TypeOK
<1>2. [status |-> "complete", gen |-> row.gen, state |-> row.state, expect |-> call[r].expect] \in Receipt
  BY <1>1 DEF Row, Call, Receipt, Terminal
<1> QED BY <1>2 DEF TypeOK, Store

(* Every action keeps the types and the actor's single holder.             *)
LEMMA TypeStep == ASSUME TypeOK, [Next]_vars PROVE TypeOK'
<1> USE MaxGenAssumption, NoneIsNoRequest
<1>0. /\ row \in Row /\ receipt \in [Requests -> Receipt \cup {NoReceipt}] /\ call \in [Requests -> Call]
      /\ holder \in Requests \cup {None, PageRefresh} /\ OneHolder
      /\ attempts \in [Generations -> Nat] /\ asked \in [Requests -> 0..MaxGen]
  BY DEF TypeOK, OneHolder, Held
<1>1. ASSUME NEW r \in Requests, NEW g \in 0..MaxGen, Ask(r, g) PROVE TypeOK'
  <2>1. [at |-> "queued", gen |-> 0, expect |-> g] \in Call
    BY DEF Call
  <2>2. call[r].at \notin Held
    BY <1>1 DEF Ask, Idle, Held
  <2> QED BY <1>0, <1>1, <2>1, <2>2 DEF Ask, TypeOK, OneHolder, Held
<1>2. ASSUME NEW r \in Requests, AnswerAtOnce(r) PROVE TypeOK'
  <2>1. Leave(r) /\ holder = None /\ UNCHANGED <<row, attempts, asked>>
    BY <1>2 DEF AnswerAtOnce
  <2>2. receipt' \in [Requests -> Receipt \cup {NoReceipt}]
    BY <1>0, <1>2, ReceiptStored DEF AnswerAtOnce
  <2>3. OneHolder'
    BY <1>0, <2>1, CallEnds DEF OneHolder, Held, Idle
  <2> QED BY <1>0, <2>1, <2>2, <2>3, CallEnds DEF TypeOK, OneHolder, Held
<1>3. ASSUME NEW r \in Requests, Open(r) PROVE TypeOK'
  <2>1. row.gen \in 0..MaxGen /\ call[r].expect \in 0..MaxGen
    BY <1>0 DEF Row, Call
  <2>2. /\ call' \in [Requests -> Call] /\ call'[r].at = "opening"
        /\ \A o \in Requests \ {r} : call'[o] = call[o]
    <3>1. call' = [call EXCEPT ![r].at = "opening", ![r].gen = row.gen]
      BY <1>3 DEF Open
    <3>2. call \in [Requests -> Call]
      BY <1>0
    <3>3. row.gen \in 0..MaxGen
      BY <2>1
    <3> HIDE MaxGenAssumption, NoneIsNoRequest
    <3> QED BY <3>1, <3>2, <3>3, CallOpens
  <2>3. OneHolder'
    <3>1. \A o \in Requests : call[o].at \notin Held
      BY <1>0, <1>3 DEF Open, OneHolder
    <3>2. holder' = r
      BY <1>3 DEF Open
    <3> QED BY <2>2, <3>1, <3>2 DEF OneHolder, Held
  <2> QED BY <1>0, <1>3, <2>1, <2>2, <2>3 DEF Open, TypeOK, OneHolder, Held
<1>4. ASSUME NEW r \in Requests, Opened(r) PROVE TypeOK'
  <2>1. holder = r /\ UNCHANGED <<row, receipt, attempts, asked>>
    BY <1>0, <1>4 DEF Opened, OneHolder, Held
  <2>2. CASE Leave(r)
    <3>1. OneHolder'
      BY <1>0, <2>1, <2>2, CallEnds DEF OneHolder, Held, Idle
    <3> QED BY <1>0, <2>1, <2>2, <3>1, CallEnds DEF TypeOK, OneHolder, Held
  <2>3. CASE call' = [call EXCEPT ![r].at = "preparing"] /\ UNCHANGED holder
    <3>1. /\ call' \in [Requests -> Call] /\ call'[r].at = "preparing"
          /\ \A o \in Requests \ {r} : call'[o] = call[o]
      BY <1>0, <2>3, CallMoves
    <3>2. OneHolder'
      BY <1>0, <2>1, <2>3, <3>1 DEF OneHolder, Held
    <3> QED BY <1>0, <2>1, <2>3, <3>1, <3>2 DEF TypeOK, OneHolder, Held
  <2> QED BY <1>4, <2>2, <2>3 DEF Opened
<1>5. ASSUME NEW r \in Requests, Unavailable(r) PROVE TypeOK'
  <2>1. holder = r /\ Leave(r) /\ UNCHANGED <<row, attempts, asked>>
    BY <1>0, <1>5 DEF Unavailable, OneHolder, Held
  <2>2. receipt' \in [Requests -> Receipt \cup {NoReceipt}]
    BY <1>0, <1>5, ReceiptStored DEF Unavailable
  <2>3. OneHolder'
    BY <1>0, <2>1, CallEnds DEF OneHolder, Held, Idle
  <2> QED BY <1>0, <2>1, <2>2, <2>3, CallEnds DEF TypeOK, OneHolder, Held
<1>6. ASSUME NEW r \in Requests, Attempt(r) PROVE TypeOK'
  <2>1. call[r] \in Call /\ holder = r
    BY <1>0, <1>6 DEF Attempt, OneHolder, Held
  <2>2. [status |-> "attempted", gen |-> call[r].gen, state |-> "working", expect |-> call[r].expect] \in Receipt
    BY <2>1 DEF Call, Receipt
  <2>3. /\ call' \in [Requests -> Call] /\ call'[r].at = "stopping"
        /\ \A o \in Requests \ {r} : call'[o] = call[o]
    <3>1. call' = [call EXCEPT ![r].at = "stopping"]
      BY <1>6 DEF Attempt
    <3> QED BY <1>0, <3>1, CallMoves
  <2>4. OneHolder'
    BY <1>0, <1>6, <2>1, <2>3 DEF Attempt, OneHolder, Held
  <2>5. attempts' \in [Generations -> Nat]
    <3>1. CASE call[r].gen \in Generations
      BY <1>0, <1>6, <3>1 DEF Attempt
    <3>2. CASE call[r].gen \notin Generations
      BY <1>0, <1>6, <3>2 DEF Attempt
    <3> QED BY <3>1, <3>2
  <2> QED BY <1>0, <1>6, <2>2, <2>3, <2>4, <2>5 DEF Attempt, TypeOK, OneHolder, Held
<1>7. ASSUME NEW r \in Requests, Stopped(r) PROVE TypeOK'
  <2>1. holder = r /\ Leave(r) /\ UNCHANGED <<attempts, asked>>
    BY <1>0, <1>7 DEF Stopped, OneHolder, Held
  <2>2. row' \in Row
    BY <1>0, <1>7 DEF Stopped, Row, Closed, EndStates
  <2>3. receipt' \in [Requests -> Receipt \cup {NoReceipt}]
    <3>1. Cancelled(r) \in Receipt
      BY <1>0 DEF Cancelled, Call, Receipt, Closed, EndStates
    <3> QED BY <1>0, <1>7, <3>1 DEF Stopped
  <2>4. OneHolder'
    BY <1>0, <2>1, CallEnds DEF OneHolder, Held, Idle
  <2> QED BY <1>0, <2>1, <2>2, <2>3, <2>4, CallEnds DEF TypeOK, OneHolder, Held
<1>8. ASSUME NEW r \in Requests, Unknown(r) PROVE TypeOK'
  <2>1. holder = r /\ Leave(r) /\ UNCHANGED <<row, receipt, attempts, asked>>
    BY <1>0, <1>8 DEF Unknown, OneHolder, Held
  <2>2. OneHolder'
    BY <1>0, <2>1, CallEnds DEF OneHolder, Held, Idle
  <2> QED BY <1>0, <2>1, <2>2, CallEnds DEF TypeOK, OneHolder, Held
<1>9. CASE NextGeneration
  BY <1>0, <1>9 DEF NextGeneration, TypeOK, Row, Closed, EndStates
<1>10. CASE Refused \/ Resumes
  BY <1>0, <1>10 DEF Refused, Resumes, TypeOK, Row, Closed, EndStates
<1>16. CASE RefreshBegins \/ RefreshEnds
  <2>1. /\ UNCHANGED <<receipt, call, attempts, asked>> /\ holder' \in {None, PageRefresh}
        /\ holder \in {None, PageRefresh}
    BY <1>16 DEF RefreshBegins, RefreshEnds
  <2>2. row' \in Row
    BY <1>0, <1>16 DEF RefreshBegins, RefreshEnds, Row
  <2>3. OneHolder'
    BY <1>0, <2>1 DEF OneHolder
  <2> QED BY <1>0, <2>1, <2>2, <2>3 DEF TypeOK, OneHolder, Held
<1>11. CASE Submitted
  BY <1>0, <1>11 DEF Submitted, TypeOK, Row
<1>12. CASE Observe
  BY <1>0, <1>12 DEF Observe, TypeOK, Row, Closed, EndStates
<1>13. CASE Retire
  BY <1>0, <1>13 DEF Retire, TypeOK, Row, Closed, EndStates
<1>14. CASE Restart
  <2>1. Idle \in Call
    BY DEF Idle, Call
  <2>2. call' \in [Requests -> Call] /\ OneHolder'
    BY <1>14, <2>1 DEF Restart, OneHolder, Held, Idle
  <2> QED BY <1>0, <1>14, <2>2 DEF Restart, TypeOK, OneHolder, Held
<1>15. CASE UNCHANGED vars
  BY <1>15 DEF vars, TypeOK
<1> QED BY <1>1, <1>2, <1>3, <1>4, <1>5, <1>6, <1>7, <1>8, <1>9, <1>10, <1>11, <1>12, <1>13, <1>14, <1>15, <1>16
        DEF Next, OfRequest
-----------------------------------------------------------------------------
(* The invariant holds at first, and is kept by every action.              *)
LEMMA StopInit == Init => StopInv
<1> SUFFICES ASSUME Init PROVE StopInv
  OBVIOUS
<1> USE MaxGenAssumption, NoneIsNoRequest
<1>1. TypeOK
  BY DEF Init, TypeOK, Row, Receipt, NoReceipt, Call, Idle, Closed, EndStates, Generations
<1>2. OnItsWay /\ OnRecord
  BY DEF Init, OnItsWay, OnRecord, Idle
<1>3. Remembered /\ StopPressedOnce /\ Refreshing
  BY DEF Init, Remembered, StopPressedOnce, Refreshing, Generations
<1> QED BY <1>1, <1>2, <1>3 DEF StopInv

(* Every action keeps the rest of the invariant.                           *)
LEMMA StopStep == ASSUME StopInv, [Next]_vars PROVE StopInv'
<1> USE MaxGenAssumption, NoneIsNoRequest
<1>0. /\ row \in Row /\ receipt \in [Requests -> Receipt \cup {NoReceipt}] /\ call \in [Requests -> Call]
      /\ holder \in Requests \cup {None, PageRefresh} /\ OneHolder
      /\ attempts \in [Generations -> Nat] /\ asked \in [Requests -> 0..MaxGen]
  BY DEF StopInv, TypeOK, OneHolder, Held
<1>t. TypeOK'
  BY TypeStep DEF StopInv
<1> DEFINE Rest == OnItsWay /\ OnRecord /\ Remembered /\ StopPressedOnce
<1>r. Rest
  BY DEF StopInv
<1>g. row.gen \in 0..MaxGen
  BY <1>0 DEF Row
<1>1. ASSUME NEW r \in Requests, NEW g \in 0..MaxGen, Ask(r, g) PROVE Rest'
  BY <1>0, <1>r, <1>1 DEF Ask, OnItsWay, OnRecord, Remembered, StopPressedOnce, Unconfirmed
\* A call that ends without an attempt: at most a complete receipt is new.
<1>2. ASSUME NEW r \in Requests, Leave(r), UNCHANGED <<row, attempts>>,
             receipt' = receipt \/ (Store(r, "complete") /\ receipt[r].status # "attempted")
      PROVE  Rest'
  <2>1. /\ call'[r].at = "idle" /\ \A o \in Requests \ {r} : call'[o] = call[o]
    BY <1>0, <1>2, CallEnds DEF Idle
  <2>2. /\ \A o \in Requests : receipt[o].status = "attempted" => receipt'[o] = receipt[o]
        /\ \A o \in Requests \ {r} : receipt'[o] = receipt[o]
    BY <1>0, <1>2 DEF Store
  <2>3. OnItsWay'
    BY <1>r, <1>2, <2>1, <2>2 DEF OnItsWay
  <2>4. OnRecord'
    BY <1>r, <1>2, <2>1, <2>2 DEF OnRecord
  <2>5. Remembered' /\ StopPressedOnce'
    BY <1>r, <1>2, <2>2 DEF Remembered, StopPressedOnce, Unconfirmed
  <2> QED BY <2>3, <2>4, <2>5
<1>3. ASSUME NEW r \in Requests, AnswerAtOnce(r) PROVE Rest'
  BY <1>2, <1>3 DEF AnswerAtOnce, NoReceipt
<1>4. ASSUME NEW r \in Requests, Open(r) PROVE Rest'
  <2>1. /\ call'[r].at = "opening" /\ call'[r].gen = row.gen
        /\ \A o \in Requests \ {r} : call'[o] = call[o]
    <3>1. call' = [call EXCEPT ![r].at = "opening", ![r].gen = row.gen]
      BY <1>4 DEF Open
    <3> QED BY <1>0, <1>g, <3>1, CallOpens
  <2>2. attempts[row.gen] = 0 /\ row.gen > 0
    BY <1>0, <1>g, <1>r, <1>4 DEF Open, Remembered, Terminal, Closed, EndStates, Generations
  <2>3. OnItsWay'
    BY <1>r, <1>4, <2>1, <2>2 DEF Open, OnItsWay
  <2>4. OnRecord'
    BY <1>r, <1>4, <2>1 DEF Open, OnRecord
  <2>5. Remembered' /\ StopPressedOnce'
    BY <1>r, <1>4 DEF Open, Remembered, StopPressedOnce, Unconfirmed
  <2> QED BY <2>3, <2>4, <2>5
<1>5. ASSUME NEW r \in Requests, Opened(r) PROVE Rest'
  <2>1. CASE Leave(r)
    BY <1>2, <1>5, <2>1 DEF Opened
  <2>2. CASE call' = [call EXCEPT ![r].at = "preparing"]
    <3>1. /\ call'[r].at = "preparing" /\ call'[r].gen = call[r].gen
          /\ \A o \in Requests \ {r} : call'[o] = call[o]
      BY <1>0, <2>2, CallMoves DEF Call
    <3>2. OnItsWay'
      BY <1>r, <1>5, <3>1 DEF Opened, OnItsWay
    <3>3. OnRecord'
      BY <1>r, <1>5, <3>1 DEF Opened, OnRecord
    <3>4. Remembered' /\ StopPressedOnce'
      BY <1>r, <1>5 DEF Opened, Remembered, StopPressedOnce, Unconfirmed
    <3> QED BY <3>2, <3>3, <3>4
  <2> QED BY <1>5, <2>1, <2>2 DEF Opened
<1>6. ASSUME NEW r \in Requests, Unavailable(r) PROVE Rest'
  BY <1>r, <1>2, <1>6 DEF Unavailable, OnItsWay, NoReceipt
<1>7. ASSUME NEW r \in Requests, Attempt(r) PROVE Rest'
  <2>1. /\ call'[r].at = "stopping" /\ call'[r].gen = call[r].gen
        /\ \A o \in Requests \ {r} : call'[o] = call[o]
    <3>1. call' = [call EXCEPT ![r].at = "stopping"]
      BY <1>7 DEF Attempt
    <3> QED BY <1>0, <3>1, CallMoves DEF Call
  <2>2. call[r].gen = row.gen /\ row.gen \in Generations /\ attempts[row.gen] = 0 /\ receipt[r] = NoReceipt
    BY <1>r, <1>g, <1>7 DEF Attempt, OnItsWay, Generations
  <2>3. /\ receipt'[r].status = "attempted" /\ receipt'[r].gen = row.gen
        /\ \A o \in Requests \ {r} : receipt'[o] = receipt[o]
    BY <1>0, <1>7, <2>2 DEF Attempt
  <2>4. /\ attempts'[row.gen] = 1
        /\ \A g \in Generations \ {row.gen} : attempts'[g] = attempts[g]
    BY <1>0, <1>7, <2>2 DEF Attempt
  <2>5. \A o \in Requests \ {r} : call[o].at \notin Held
    BY <1>0, <1>7 DEF Attempt, OneHolder, Held
  <2>6. row' = row
    BY <1>7 DEF Attempt
  <2>7. OnItsWay'
    BY <2>1, <2>5 DEF OnItsWay, Held
  <2>8. OnRecord'
    BY <2>1, <2>2, <2>3, <2>5, <2>6 DEF OnRecord, Held
  <2>9. Remembered'
    <3> SUFFICES ASSUME NEW g \in Generations, attempts'[g] > 0
                 PROVE  g < row.gen \/ (g = row.gen /\ Unconfirmed(g)')
      BY <2>6 DEF Remembered
    <3>1. CASE g = row.gen
      BY <2>3, <3>1 DEF Unconfirmed
    <3>2. CASE g # row.gen
      BY <1>r, <2>4, <3>2 DEF Remembered
    <3> QED BY <3>1, <3>2
  <2>10. StopPressedOnce'
    BY <1>r, <2>4 DEF StopPressedOnce
  <2> QED BY <2>7, <2>8, <2>9, <2>10
<1>8. ASSUME NEW r \in Requests, Stopped(r) PROVE Rest'
  <2>1. /\ call'[r].at = "idle" /\ \A o \in Requests \ {r} : call'[o] = call[o]
    BY <1>0, <1>8, CallEnds DEF Stopped, Idle
  <2>2. \A o \in Requests \ {r} : call[o].at \notin Held
    BY <1>0, <1>8 DEF Stopped, OneHolder, Held
  <2>3. row'.gen = row.gen /\ row'.state = "cancelled"
    BY <1>0, <1>r, <1>8 DEF Stopped, OnRecord, Row
  <2>4. OnItsWay' /\ OnRecord'
    BY <2>1, <2>2 DEF OnItsWay, OnRecord, Held
  <2>5. Remembered' /\ StopPressedOnce'
    BY <1>r, <1>8, <2>3 DEF Stopped, Remembered, StopPressedOnce
  <2> QED BY <2>4, <2>5
<1>9. ASSUME NEW r \in Requests, Unknown(r) PROVE Rest'
  BY <1>2, <1>9 DEF Unknown
<1>10. ASSUME NextGeneration PROVE Rest'
  <2>1. \A o \in Requests : call[o].at \notin Held
    BY <1>0, <1>10 DEF NextGeneration, OneHolder, Held
  <2>2. row'.gen = row.gen + 1
    BY <1>10 DEF NextGeneration
  <2>3. OnItsWay' /\ OnRecord'
    BY <1>10, <2>1 DEF NextGeneration, OnItsWay, OnRecord, Held
  <2>4. Remembered' /\ StopPressedOnce'
    BY <1>r, <1>g, <1>10, <2>2 DEF NextGeneration, Remembered, StopPressedOnce, Generations
  <2> QED BY <2>3, <2>4
\* The row changes, its generation does not, and a cancelled one stays so,
\* unless an attempt is unconfirmed.
<1>11. ASSUME UNCHANGED <<receipt, call, attempts>>, row'.gen = row.gen,
              \/ row.state = "cancelled" => row'.state = "cancelled"
              \/ \A g \in Generations : attempts[g] > 0 => g < row.gen \/ Unconfirmed(g)
       PROVE  Rest'
  BY <1>r, <1>11 DEF OnItsWay, OnRecord, Remembered, StopPressedOnce, Unconfirmed
<1>12. ASSUME Refused \/ Resumes \/ Submitted \/ Observe \/ Retire \/ RefreshBegins PROVE Rest'
  <2>1. UNCHANGED <<receipt, call, attempts>>
    BY <1>12 DEF Refused, Resumes, Submitted, Observe, Retire, RefreshBegins
  <2>2. row'.gen = row.gen /\ (row.state = "cancelled" => row'.state = "cancelled")
    BY <1>0, <1>12 DEF Refused, Resumes, Submitted, Observe, Retire, RefreshBegins, Row, EndStates
  <2> QED BY <1>11, <2>1, <2>2
<1>16. ASSUME RefreshEnds PROVE Rest'
  <2>1. UNCHANGED <<receipt, call, attempts>> /\ row'.gen = row.gen
    BY <1>0, <1>16 DEF RefreshEnds, Row
  <2>2. \A g \in Generations : attempts[g] > 0 => g < row.gen \/ Unconfirmed(g)
    BY <1>16 DEF RefreshEnds, StopInv, Refreshing
  <2> QED BY <1>11, <2>1, <2>2
<1>13. ASSUME Restart PROVE Rest'
  <2>1. \A o \in Requests : call'[o].at = "idle"
    BY <1>13 DEF Restart, Idle
  <2>2. OnItsWay' /\ OnRecord'
    BY <2>1 DEF OnItsWay, OnRecord
  <2>3. Remembered' /\ StopPressedOnce'
    BY <1>r, <1>13 DEF Restart, Remembered, StopPressedOnce, Unconfirmed
  <2> QED BY <2>2, <2>3
<1>14. ASSUME UNCHANGED vars PROVE Rest'
  BY <1>11, <1>14 DEF vars
<1>15. Rest'
  BY <1>1, <1>3, <1>4, <1>5, <1>6, <1>7, <1>8, <1>9, <1>10, <1>12, <1>13, <1>14, <1>16 DEF Next, OfRequest
\* A refresh that began goes on: only a retirement changes its row.
<1>17. Refreshing'
  <2>1. CASE RefreshBegins
    BY <1>0, <1>r, <2>1 DEF RefreshBegins, Refreshing, Remembered, Unconfirmed
  <2>2. CASE holder' # PageRefresh
    BY <2>2 DEF Refreshing
  <2>3. ASSUME NEW r \in Requests, NEW g \in 0..MaxGen, Ask(r, g), holder' = PageRefresh PROVE Refreshing'
    BY <2>3 DEF Ask, StopInv, Refreshing, Unconfirmed
  <2>4. CASE Retire /\ holder' = PageRefresh
    <3>1. holder = PageRefresh /\ UNCHANGED <<receipt, attempts>>
      BY <2>4 DEF Retire
    <3>2. row'.gen = row.gen /\ row'.state = "cancelled" /\ row'.submitted = row.submitted
      BY <1>0, <2>4 DEF Retire, Row
    <3> QED BY <3>1, <3>2 DEF StopInv, Refreshing, Unconfirmed
  <2>5. CASE UNCHANGED vars
    BY <2>5 DEF vars, StopInv, Refreshing, Unconfirmed
  <2>6. ASSUME NEW r \in Requests,
               AnswerAtOnce(r) \/ Open(r) \/ Opened(r) \/ Unavailable(r) \/ Attempt(r) \/ Stopped(r) \/ Unknown(r)
        PROVE  holder' # PageRefresh
    BY <1>0, <2>6 DEF AnswerAtOnce, Open, Opened, Unavailable, Attempt, Stopped, Unknown, Leave, OneHolder, Held
  <2>7. NextGeneration \/ Refused \/ Resumes \/ Submitted \/ Observe \/ RefreshEnds \/ Restart => holder' # PageRefresh
    BY DEF NextGeneration, Refused, Resumes, Submitted, Observe, RefreshEnds, Restart
  <2> QED BY <2>1, <2>2, <2>3, <2>4, <2>5, <2>6, <2>7 DEF Next, OfRequest
<1> QED BY <1>15, <1>17, <1>t DEF StopInv

(* The strengthened invariant holds in every behaviour.                    *)
THEOREM StopInvariant == Spec => []StopInv
<1> QED BY StopInit, StopStep, PTL DEF Spec

(* The model is well typed, and one call at a time holds the actor.        *)
THEOREM StopTyped == Spec => []TypeOK
<1>1. StopInv => TypeOK
  BY DEF StopInv
<1> QED BY <1>1, StopInvariant, PTL

(* However many requests ask, fail, are retried or are cut off by a        *)
(* restart, Stop is pressed at most once for a generation.                 *)
THEOREM PressedOnce == Spec => []StopPressedOnce
<1>1. StopInv => StopPressedOnce
  BY DEF StopInv
<1> QED BY <1>1, StopInvariant, PTL

-----------------------------------------------------------------------------
(* What is recorded stays true.                                            *)

\* While the actor is held nothing else completes the generation.
HeldIsOpen == holder # None => row.state # "complete"

\* While a page refresh holds it nobody has been told of an outcome.
RefreshIsUntold ==
  holder = PageRefresh =>
    \A r \in Requests : ~(receipt[r].status = "complete" /\ receipt[r].state \in EndStates /\ receipt[r].gen = row.gen)

\* Receipts are about the current generation or an older one.
ReceiptsOfThePast == \A r \in Requests : receipt[r].gen \in 0..row.gen

\* A call that may press Stop is about the generation its caller named.
HeldIsNamed == \A r \in Requests : call[r].at \in Held => asked[r] \in {0, call[r].gen}

OutcomeInv == HeldIsOpen /\ ReceiptsOfThePast /\ ConfirmedStopIsTrue /\ RefreshIsUntold

NamedInv == HeldIsNamed /\ StopsWhatWasNamed

(* A receipt that repeats the session's row, or speaks of an attempt at it, *)
(* keeps what is recorded true.                                            *)
LEMMA ReceiptIsTrue ==
  ASSUME StopInv, OutcomeInv, NEW r \in Requests, NEW v \in Receipt,
         v.gen = row.gen, v.status = "attempted" \/ v.state = row.state,
         receipt' = [receipt EXCEPT ![r] = v], UNCHANGED row
  PROVE  ReceiptsOfThePast' /\ ConfirmedStopIsTrue'
<1>1. \A o \in Requests : receipt'[o] = IF o = r THEN v ELSE receipt[o]
  BY DEF StopInv, TypeOK
<1>2. row.gen \in 0..row.gen
  BY DEF StopInv, TypeOK, Row
<1>3. ReceiptsOfThePast'
  BY <1>1, <1>2 DEF OutcomeInv, ReceiptsOfThePast
<1>4. ConfirmedStopIsTrue'
  BY <1>1 DEF OutcomeInv, ConfirmedStopIsTrue
<1> QED BY <1>3, <1>4

LEMMA OutcomeInit == Init => OutcomeInv
BY NoneIsNoRequest DEF Init, OutcomeInv, HeldIsOpen, RefreshIsUntold, ReceiptsOfThePast, ConfirmedStopIsTrue, NoReceipt

(* No step rewrites an outcome, and every receipt stays true.              *)
LEMMA OutcomeStep ==
  ASSUME StopInv, OutcomeInv, [Next]_vars
  PROVE  OutcomeInv' /\ (row.state \in EndStates /\ row'.gen = row.gen => row'.state = row.state \/ Reopened)
<1> DEFINE Final == row.state \in EndStates /\ row'.gen = row.gen => row'.state = row.state \/ Reopened
<1> USE DEF OutcomeInv
<1>r. row \in Row /\ \A r \in Requests : receipt[r] \in Receipt \cup {NoReceipt} /\ call[r] \in Call
  BY DEF StopInv, TypeOK
<1>h. \A r \in Requests : call[r].at \in Held => holder = r /\ holder # None
  BY NoneIsNoRequest DEF StopInv, TypeOK, Held
\* Unless a refresh holds the actor there is nothing to say of one.
<1>f. ASSUME holder' # PageRefresh PROVE RefreshIsUntold'
  BY <1>f DEF RefreshIsUntold
<1>u. ASSUME UNCHANGED <<row, receipt>>, holder' # None => holder' = holder PROVE OutcomeInv' /\ Final
  BY <1>u, NoneIsNoRequest DEF HeldIsOpen, RefreshIsUntold, ReceiptsOfThePast, ConfirmedStopIsTrue
<1>1. ASSUME NEW r \in Requests, NEW g \in 0..MaxGen, Ask(r, g) PROVE OutcomeInv' /\ Final
  BY <1>1, <1>u DEF Ask
<1>2. ASSUME NEW r \in Requests, AnswerAtOnce(r) PROVE OutcomeInv' /\ Final
  <2>1. CASE UNCHANGED receipt
    BY <1>2, <2>1, <1>u DEF AnswerAtOnce, Leave
  <2>2. CASE Terminal /\ Store(r, "complete")
    <3>1. [status |-> "complete", gen |-> row.gen, state |-> row.state, expect |-> call[r].expect] \in Receipt
      BY <1>r, <2>2 DEF Row, Receipt, Call, Terminal, Closed, EndStates
    <3>2. ReceiptsOfThePast' /\ ConfirmedStopIsTrue'
      BY <3>1, <2>2, <1>2, ReceiptIsTrue DEF Store, AnswerAtOnce
    <3> QED BY <3>2, <1>2, <1>f, NoneIsNoRequest DEF AnswerAtOnce, Leave, HeldIsOpen
  <2> QED BY <1>2, <2>1, <2>2 DEF AnswerAtOnce
<1>3. ASSUME NEW r \in Requests, Open(r) PROVE OutcomeInv' /\ Final
  <2>1. row.state # "complete" /\ UNCHANGED <<row, receipt>> /\ holder' # PageRefresh
    BY <1>3, NoneIsNoRequest DEF Open, Terminal, Closed, EndStates
  <2> QED BY <2>1, <1>f DEF HeldIsOpen, ReceiptsOfThePast, ConfirmedStopIsTrue
<1>4. ASSUME NEW r \in Requests, Opened(r) PROVE OutcomeInv' /\ Final
  BY <1>4, <1>u DEF Opened, Leave
<1>5. ASSUME NEW r \in Requests, Unavailable(r) PROVE OutcomeInv' /\ Final
  <2>1. CASE UNCHANGED receipt
    BY <1>5, <2>1, <1>u DEF Unavailable, Leave
  <2>2. CASE Terminal /\ Store(r, "complete")
    <3>1. [status |-> "complete", gen |-> row.gen, state |-> row.state, expect |-> call[r].expect] \in Receipt
      BY <1>r, <2>2 DEF Row, Receipt, Call, Terminal, Closed, EndStates
    <3>2. ReceiptsOfThePast' /\ ConfirmedStopIsTrue'
      BY <3>1, <2>2, <1>5, ReceiptIsTrue DEF Store, Unavailable
    <3> QED BY <3>2, <1>5, <1>f, NoneIsNoRequest DEF Unavailable, Leave, HeldIsOpen
  <2> QED BY <1>5, <2>1, <2>2 DEF Unavailable
<1>6. ASSUME NEW r \in Requests, Attempt(r) PROVE OutcomeInv' /\ Final
  <2>1. call[r].gen = row.gen
    BY <1>6 DEF Attempt, StopInv, OnItsWay
  <2>2. [status |-> "attempted", gen |-> call[r].gen, state |-> "working", expect |-> call[r].expect] \in Receipt
    BY <1>r DEF Receipt, Call
  <2>3. ReceiptsOfThePast' /\ ConfirmedStopIsTrue'
    BY <2>1, <2>2, <1>6, ReceiptIsTrue DEF Attempt
  <2>4. holder' = holder /\ holder # PageRefresh
    BY <1>6, <1>h, NoneIsNoRequest DEF Attempt, Held
  <2> QED BY <2>3, <2>4, <1>6, <1>f DEF Attempt, HeldIsOpen
<1>7. ASSUME NEW r \in Requests, Stopped(r) PROVE OutcomeInv' /\ Final
  <2>1. call[r].gen = row.gen /\ row.state # "complete" /\ holder' = None
    BY <1>7, <1>h DEF Stopped, Leave, StopInv, OnRecord, HeldIsOpen, Held
  <2>2. row' = [row EXCEPT !.state = "cancelled"] /\ receipt' = [receipt EXCEPT ![r] = Cancelled(r)]
    BY <1>7, <2>1 DEF Stopped
  <2>3. row'.gen = row.gen /\ row'.state = "cancelled" /\ row.gen \in 0..row.gen
    BY <2>2, <1>r DEF Row
  <2>4. \A o \in Requests : receipt'[o] = IF o = r THEN Cancelled(r) ELSE receipt[o]
    BY <2>2 DEF StopInv, TypeOK
  <2>5. Cancelled(r).gen = row.gen /\ Cancelled(r).state = "cancelled"
    BY <2>1 DEF Cancelled
  <2>6. ReceiptsOfThePast'
    BY <2>3, <2>4, <2>5 DEF ReceiptsOfThePast
  <2>7. ConfirmedStopIsTrue'
    BY <2>1, <2>3, <2>4, <2>5 DEF ConfirmedStopIsTrue, EndStates
  <2>8. Final
    BY <2>1, <2>3 DEF EndStates
  <2> QED BY <2>1, <2>6, <2>7, <2>8, <1>f, NoneIsNoRequest DEF HeldIsOpen
<1>8. ASSUME NEW r \in Requests, Unknown(r) PROVE OutcomeInv' /\ Final
  BY <1>8, <1>u DEF Unknown, Leave
<1>9. CASE NextGeneration
  <2>1. row'.gen = row.gen + 1 /\ row.gen \in Nat /\ holder' = None /\ UNCHANGED receipt
    BY <1>9, <1>r, MaxGenAssumption DEF NextGeneration, Row
  <2>2. \A r \in Requests : receipt[r].gen \in 0..row.gen
    BY DEF ReceiptsOfThePast
  <2>3. \A r \in Requests : receipt'[r].gen \in 0..row'.gen /\ receipt'[r].gen # row'.gen
    BY <2>1, <2>2
  <2>4. Final
    BY <2>1
  <2> QED BY <2>1, <2>3, <2>4, <1>f, NoneIsNoRequest DEF HeldIsOpen, ReceiptsOfThePast, ConfirmedStopIsTrue
<1>10. CASE Refused \/ Resumes \/ Submitted \/ Observe \/ Retire
  <2>1. row'.gen = row.gen /\ UNCHANGED <<receipt, holder>> /\ (row.state \in EndStates => row'.state = row.state)
    BY <1>10, <1>r DEF Refused, Resumes, Submitted, Observe, Retire, Row, EndStates
  <2>2. holder # None => row'.state # "complete"
    BY <1>10, <1>r DEF Refused, Resumes, Submitted, Observe, Retire, Row, EndStates, HeldIsOpen
  <2> QED BY <2>1, <2>2 DEF HeldIsOpen, RefreshIsUntold, ReceiptsOfThePast, ConfirmedStopIsTrue
\* The refresh begins with the row refused, so no receipt speaks of an outcome.
<1>13. CASE RefreshBegins
  <2>1. UNCHANGED <<row, receipt>> /\ row.state = "refused"
    BY <1>13 DEF RefreshBegins
  <2>2. \A r \in Requests : ~(receipt[r].status = "complete" /\ receipt[r].state \in EndStates /\ receipt[r].gen = row.gen)
    BY <2>1 DEF ConfirmedStopIsTrue, EndStates
  <2> QED BY <2>1, <2>2 DEF HeldIsOpen, RefreshIsUntold, ReceiptsOfThePast, ConfirmedStopIsTrue
<1>14. CASE RefreshEnds
  <2>1. /\ UNCHANGED receipt /\ row'.gen = row.gen /\ holder = PageRefresh /\ holder' = None
        /\ row'.state = row.state \/ row'.state = "working"
    BY <1>14, <1>r DEF RefreshEnds, Row
  <2>2. row.state \in {"refused", "cancelled"} /\ ~row.submitted
    BY <2>1 DEF StopInv, Refreshing
  <2>3. Final
    BY <2>1, <2>2 DEF Reopened, EndStates
  <2>4. ReceiptsOfThePast' /\ ConfirmedStopIsTrue'
    BY <2>1 DEF ReceiptsOfThePast, ConfirmedStopIsTrue, RefreshIsUntold
  <2> QED BY <2>1, <2>3, <2>4, <1>f, NoneIsNoRequest DEF HeldIsOpen
<1>11. CASE Restart
  BY <1>11, <1>u DEF Restart
<1>12. CASE UNCHANGED vars
  BY <1>12, <1>u DEF vars
<1> QED BY <1>1, <1>2, <1>3, <1>4, <1>5, <1>6, <1>7, <1>8, <1>9, <1>10, <1>11, <1>12, <1>13, <1>14 DEF Next, OfRequest

LEMMA NamedInit == Init => NamedInv
BY DEF Init, NamedInv, HeldIsNamed, StopsWhatWasNamed, Held, Idle, NoReceipt

LEMMA NamedStep == ASSUME StopInv, NamedInv, [Next]_vars PROVE NamedInv'
<1> USE DEF NamedInv
<1>r. /\ receipt \in [Requests -> Receipt \cup {NoReceipt}] /\ call \in [Requests -> Call]
      /\ asked \in [Requests -> 0..MaxGen]
  BY DEF StopInv, TypeOK
\* A call that is not on its way leaves the named generations alone.
<1>n. ASSUME UNCHANGED asked, \A r \in Requests : call'[r].at \in Held => call'[r].gen = call[r].gen /\ call[r].at \in Held,
             \A r \in Requests : receipt'[r].status = "attempted" => receipt'[r] = receipt[r]
      PROVE NamedInv'
  BY <1>n DEF HeldIsNamed, StopsWhatWasNamed
<1>1. ASSUME NEW r \in Requests, NEW g \in 0..MaxGen, Ask(r, g) PROVE NamedInv'
  BY <1>1, <1>r, <1>n DEF Ask, Held
<1>2. ASSUME NEW r \in Requests, Leave(r), UNCHANGED <<asked, row>>, receipt' = receipt \/ Store(r, "complete")
      PROVE  NamedInv'
  <2>1. \A o \in Requests : call'[o].at \in Held => call'[o] = call[o]
    BY <1>2, <1>r DEF Leave, Idle, Held
  <2>2. \A o \in Requests : receipt'[o].status = "attempted" => receipt'[o] = receipt[o]
    BY <1>2, <1>r DEF Store
  <2> QED BY <2>1, <2>2, <1>2, <1>n
<1>3. ASSUME NEW r \in Requests, AnswerAtOnce(r) PROVE NamedInv'
  BY <1>3, <1>2 DEF AnswerAtOnce
<1>4. ASSUME NEW r \in Requests, Open(r) PROVE NamedInv'
  <2>1. /\ call'[r].gen = row.gen /\ \A o \in Requests \ {r} : call'[o] = call[o]
    <3>1. row.gen \in 0..MaxGen
      BY DEF StopInv, TypeOK, Row
    <3>2. call' = [call EXCEPT ![r].at = "opening", ![r].gen = row.gen]
      BY <1>4 DEF Open
    <3> QED BY <3>1, <3>2, <1>r, CallOpens
  <2>2. asked'[r] \in {0, row.gen} /\ \A o \in Requests \ {r} : asked'[o] = asked[o]
    BY <1>4, <1>r DEF Open
  <2>3. receipt' = receipt /\ receipt[r].status # "attempted"
    BY <1>4 DEF Open, NoReceipt
  <2>4. HeldIsNamed'
    BY <2>1, <2>2 DEF HeldIsNamed
  <2>5. StopsWhatWasNamed'
    BY <2>2, <2>3 DEF StopsWhatWasNamed
  <2> QED BY <2>4, <2>5
<1>5. ASSUME NEW r \in Requests, NEW a \in Held, call[r].at \in Held, call' = [call EXCEPT ![r].at = a]
      PROVE  \A o \in Requests : call'[o].at \in Held => call'[o].gen = call[o].gen /\ call[o].at \in Held
  <2>1. call'[r].gen = call[r].gen /\ \A o \in Requests \ {r} : call'[o] = call[o]
    BY <1>5, <1>r, CallMoves DEF Held, Call
  <2> QED BY <1>5, <2>1
<1>6. ASSUME NEW r \in Requests, Opened(r) PROVE NamedInv'
  <2>1. CASE Leave(r)
    BY <1>6, <2>1, <1>2 DEF Opened
  <2>2. CASE call' = [call EXCEPT ![r].at = "preparing"]
    BY <1>6, <2>2, <1>5, <1>n DEF Opened, Held
  <2> QED BY <1>6, <2>1, <2>2 DEF Opened
<1>7. ASSUME NEW r \in Requests, Unavailable(r) PROVE NamedInv'
  BY <1>7, <1>2 DEF Unavailable
<1>8. ASSUME NEW r \in Requests, Attempt(r) PROVE NamedInv'
  <2>1. \A o \in Requests : call'[o].at \in Held => call'[o].gen = call[o].gen /\ call[o].at \in Held
    BY <1>8, <1>5 DEF Attempt, Held
  <2>2. HeldIsNamed'
    BY <1>8, <2>1 DEF Attempt, HeldIsNamed
  <2>3. receipt'[r].gen = call[r].gen /\ \A o \in Requests \ {r} : receipt'[o] = receipt[o]
    BY <1>8, <1>r DEF Attempt
  <2>4. asked' = asked /\ asked[r] \in {0, call[r].gen}
    BY <1>8 DEF Attempt, HeldIsNamed, Held
  <2>5. StopsWhatWasNamed'
    BY <2>3, <2>4 DEF StopsWhatWasNamed
  <2> QED BY <2>2, <2>5
<1>9. ASSUME NEW r \in Requests, Stopped(r) PROVE NamedInv'
  <2>1. \A o \in Requests : call'[o].at \in Held => call'[o] = call[o]
    BY <1>9, <1>r DEF Stopped, Leave, Idle, Held
  <2>2. \A o \in Requests : receipt'[o].status = "attempted" => receipt'[o] = receipt[o]
    BY <1>9, <1>r DEF Stopped, Cancelled
  <2> QED BY <2>1, <2>2, <1>9, <1>n DEF Stopped
<1>10. ASSUME NEW r \in Requests, Unknown(r) PROVE NamedInv'
  BY <1>10, <1>2 DEF Unknown
<1>11. CASE NextGeneration \/ Refused \/ Resumes \/ Submitted \/ Observe \/ Retire \/ RefreshBegins \/ RefreshEnds \/ UNCHANGED vars
  BY <1>11, <1>n DEF NextGeneration, Refused, Resumes, Submitted, Observe, Retire, RefreshBegins, RefreshEnds, vars
<1>12. CASE Restart
  BY <1>12, <1>n DEF Restart, Idle, Held
<1> QED BY <1>1, <1>3, <1>4, <1>6, <1>7, <1>8, <1>9, <1>10, <1>11, <1>12 DEF Next, OfRequest

(* Every attempt recorded is at the generation its caller named.           *)
THEOREM StopsTheNamed == Spec => []StopsWhatWasNamed
<1>1. NamedInv => StopsWhatWasNamed
  BY DEF NamedInv
<1> QED BY <1>1, NamedInit, NamedStep, StopInvariant, PTL DEF Spec

(* What a stop did to a generation, and what a caller was told of it, is   *)
(* true for as long as the generation is the current one.                  *)
THEOREM ConfirmedTrue == Spec => []ConfirmedStopIsTrue
<1>1. OutcomeInv => ConfirmedStopIsTrue
  BY DEF OutcomeInv
<1> QED BY <1>1, OutcomeInit, OutcomeStep, StopInvariant, PTL DEF Spec

(* No step of anybody rewrites the outcome of a generation, but a page     *)
(* refresh that reopens an unsubmitted one its role's retirement cancelled *)
(* meanwhile.                                                              *)
THEOREM OutcomeFinal == Spec => OutcomeIsFinal
<1>1. StopInv /\ OutcomeInv /\ [Next]_vars =>
        [row.state \in EndStates /\ row'.gen = row.gen => row'.state = row.state \/ Reopened]_row
  BY OutcomeStep
<1>2. StopInv /\ OutcomeInv /\ [Next]_vars => OutcomeInv'
  BY OutcomeStep
<1> QED BY <1>1, <1>2, OutcomeInit, StopInvariant, PTL DEF Spec, OutcomeIsFinal

=============================================================================
