----------------------------- MODULE KeyedMutex -----------------------------
(***************************************************************************)
(* src/scheduler/keyed-mutex.ts: a chain of promises per key.  A caller    *)
(* reads the newest tail of its key, installs its own tail behind it and   *)
(* awaits the older one.  When its operation ends it opens its gate, unless *)
(* the operation retained browser commands it gave up waiting for: then    *)
(* the gate opens when the last of them has settled.                       *)
(*                                                                         *)
(* It guards pages (browser/page-mutex.ts), requests (stop-service.ts,     *)
(* submission-service.ts), probe scopes (probe-coordinator.ts), role       *)
(* replacements and artifact captures.                                     *)
(***************************************************************************)
EXTENDS Naturals, Sequences, FiniteSets

CONSTANTS
  Callers,       \* calls of runExclusive that may overlap
  Keys,          \* mutex keys
  NoCaller,      \* no tail: the promise is resolved, the map has no entry
  MaxArrivals,   \* bound: calls of runExclusive in a behaviour
  MaxRetained    \* bound: commands one operation retains

ASSUME NoCallerIsNoCaller == NoCaller \notin Callers
ASSUME SomeKey == Keys # {}
ASSUME BoundsAreNatural == MaxArrivals \in Nat /\ MaxRetained \in Nat

VARIABLES
  tails,      \* tails[k]: whose tail is the newest of key k
  previous,   \* previous[c]: the unresolved tail c awaits
  phase,      \* "idle", "queued", "inside" the operation, or "draining" after it
  key,        \* key[c]: the key of c's call
  drains,     \* drains[c]: the operation retained something (drain # undefined)
  pending,    \* pending[c]: retained commands that have not settled
  ticket,     \* history: the arrival number of c's call
  arrivals    \* history: calls so far

vars == <<tails, previous, phase, key, drains, pending, ticket, arrivals>>

Phases == {"idle", "queued", "inside", "draining"}

Init == /\ tails = [k \in Keys |-> NoCaller]
        /\ previous = [c \in Callers |-> NoCaller]
        /\ phase = [c \in Callers |-> "idle"]
        /\ key = [c \in Callers |-> CHOOSE k \in Keys : TRUE]
        /\ drains = [c \in Callers |-> FALSE]
        /\ pending = [c \in Callers |-> 0]
        /\ ticket = [c \in Callers |-> 0]
        /\ arrivals = 0

-----------------------------------------------------------------------------
(* The call.                                                               *)

\* Up to the first await: read the newest tail, become the newest tail.
RunExclusive(c, k) ==
  /\ phase[c] = "idle" /\ arrivals < MaxArrivals
  /\ phase' = [phase EXCEPT ![c] = "queued"]
  /\ key' = [key EXCEPT ![c] = k]
  /\ previous' = [previous EXCEPT ![c] = tails[k]]
  /\ tails' = [tails EXCEPT ![k] = c]
  /\ drains' = [drains EXCEPT ![c] = FALSE]
  /\ arrivals' = arrivals + 1
  /\ ticket' = [ticket EXCEPT ![c] = arrivals + 1]
  /\ UNCHANGED pending

\* await previous
Enter(c) ==
  /\ phase[c] = "queued" /\ previous[c] = NoCaller
  /\ phase' = [phase EXCEPT ![c] = "inside"]
  /\ UNCHANGED <<tails, previous, key, drains, pending, ticket, arrivals>>

\* retainUntil(pending): the drain now also waits for this command.
RetainUntil(c) ==
  /\ phase[c] = "inside" /\ pending[c] < MaxRetained
  /\ drains' = [drains EXCEPT ![c] = TRUE]
  /\ pending' = [pending EXCEPT ![c] = @ + 1]
  /\ UNCHANGED <<tails, previous, phase, key, ticket, arrivals>>

\* A retained command resolves or rejects: allSettled makes no difference.
CommandSettles(c) ==
  /\ pending[c] > 0
  /\ pending' = [pending EXCEPT ![c] = @ - 1]
  /\ UNCHANGED <<tails, previous, phase, key, drains, ticket, arrivals>>

\* Mutant: finish deletes the entry of the key whatever tail is the newest.
FinishForgetsKey(c) ==
  /\ phase' = [phase EXCEPT ![c] = "idle"]
  /\ previous' = [d \in Callers |-> IF previous[d] = c THEN NoCaller ELSE previous[d]]
  /\ tails' = [tails EXCEPT ![key[c]] = NoCaller]
  /\ UNCHANGED <<key, drains, pending, ticket, arrivals>>

\* Mutant: finish forgets to open the gate when a later call is queued behind it.
FinishKeepsGate(c) ==
  /\ phase' = [phase EXCEPT ![c] = "idle"]
  /\ previous' = previous
  /\ tails' = [tails EXCEPT ![key[c]] = IF @ = c THEN NoCaller ELSE @]
  /\ UNCHANGED <<key, drains, pending, ticket, arrivals>>

\* finish: open the gate, and forget the key when no later tail replaced ours.
Finish(c) ==
  /\ phase' = [phase EXCEPT ![c] = "idle"]
  /\ previous' = [d \in Callers |-> IF previous[d] = c THEN NoCaller ELSE previous[d]]
  /\ tails' = [tails EXCEPT ![key[c]] = IF @ = c THEN NoCaller ELSE @]
  /\ UNCHANGED <<key, drains, pending, ticket, arrivals>>

\* The operation returns or throws with nothing retained.
ReturnAndFinish(c) == phase[c] = "inside" /\ ~drains[c] /\ Finish(c)

\* The operation returns or throws and leaves its drain to finish the call.
ReturnAndDrain(c) ==
  /\ phase[c] = "inside" /\ drains[c]
  /\ phase' = [phase EXCEPT ![c] = "draining"]
  /\ UNCHANGED <<tails, previous, key, drains, pending, ticket, arrivals>>

\* drain.then(finish)
Drained(c) == phase[c] = "draining" /\ pending[c] = 0 /\ Finish(c)

Return(c) == ReturnAndFinish(c) \/ ReturnAndDrain(c)

Step(c) == \/ \E k \in Keys : RunExclusive(c, k)
           \/ Enter(c) \/ RetainUntil(c) \/ CommandSettles(c)
           \/ Return(c) \/ Drained(c)

Next == \E c \in Callers : Step(c)

Spec == Init /\ [][Next]_vars

-----------------------------------------------------------------------------
(* Properties.                                                             *)

\* Every variable keeps its type.
TypeOK == /\ tails \in [Keys -> Callers \cup {NoCaller}]
          /\ previous \in [Callers -> Callers \cup {NoCaller}]
          /\ phase \in [Callers -> Phases]
          /\ key \in [Callers -> Keys]
          /\ drains \in [Callers -> BOOLEAN]
          /\ pending \in [Callers -> 0..MaxRetained]
          /\ ticket \in [Callers -> 0..MaxArrivals]
          /\ arrivals \in 0..MaxArrivals

Live(c) == phase[c] # "idle"

\* c's operation runs, or a command it gave up on still does.
AtWork(c) == phase[c] = "inside" \/ pending[c] > 0

(* No operation enters a key while another operation of the key, or a      *)
(* browser command such an operation abandoned, is still at work: the      *)
(* comment "A caller timeout does not cancel a browser command already in  *)
(* flight" of keyed-mutex.ts and its unit test.                            *)
Exclusive == \A c, d \in Callers : c # d /\ AtWork(c) /\ AtWork(d) => key[c] # key[d]

(* isBusy and activeCount read the map: a key is in it exactly while some  *)
(* call of the key has not finished.  The maintenance handover commits on  *)
(* activeCount = 0 and the load-recovery sweep skips busy pages.           *)
BusyIsTrue == \A k \in Keys :
                (tails[k] # NoCaller) <=> (\E c \in Callers : Live(c) /\ key[c] = k)

(* The calls of a key are served in the order runExclusive was called,     *)
(* whatever their operations retain.                                       *)
ServedInOrder == \A c, d \in Callers :
                   phase[c] \in {"inside", "draining"} /\ phase[d] = "queued" /\ key[c] = key[d]
                     => ticket[c] < ticket[d]

(* Nobody waits for a gate that nobody will open: the tail a queued call   *)
(* awaits is that of an earlier call of its key that has not finished, so  *)
(* that waiting cannot go round in a circle either.                        *)
NoGateIsLost == \A c \in Callers :
                  phase[c] = "queued" /\ previous[c] # NoCaller
                    => /\ Live(previous[c]) /\ key[previous[c]] = key[c]
                       /\ ticket[previous[c]] < ticket[c]

(* The chain of promises is a queue: KeyedMutex implements FifoLock.       *)
Line(k) == {c \in Callers : Live(c) /\ key[c] = k}

\* The members of S, each at the place after those with smaller numbers.
InOrder(S, number) ==
  [i \in 1..Cardinality(S) |-> CHOOSE c \in S : Cardinality({d \in S : number[d] < number[c]}) = i - 1]

CallsOf(k) == InOrder(Line(k), ticket)

Promised == INSTANCE FifoLock WITH
              queue <- [k \in Keys |-> CallsOf(k)],
              granted <- {c \in Callers : phase[c] \in {"inside", "draining"}}

ImplementsFifoLock == Promised!Spec

=============================================================================
