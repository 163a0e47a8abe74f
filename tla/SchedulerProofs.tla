--------------------------- MODULE SchedulerProofs ---------------------------
(***************************************************************************)
(* Proofs about the lines in which callers wait: the operations of a key   *)
(* (KeyedMutex), the clients of a session's actor (SessionWait) and the    *)
(* readers of the provider's server (ServerReads).  They share no state.   *)
(***************************************************************************)
EXTENDS KeyedMutex, SessionWait, ServerReads, FiniteSetTheorems, WellFoundedInduction, TLAPS

(***************************************************************************)
(* KeyedMutex, for any number of callers, keys and calls: the map tells    *)
(* which keys are busy, calls are served in order, and no two pieces of    *)
(* work overlap on a key.                                                  *)
(*                                                                         *)
(* None of the three is inductive: that a caller may enter when its        *)
(* previous gate opens is safe only because the callers of a key form one  *)
(* chain.  QueueInv says so with the arrival numbers: the tail is the      *)
(* newest call of its key, a caller awaits the next older one, and one     *)
(* that awaits nobody is the oldest.                                       *)
(***************************************************************************)
\* Calls in progress carry different arrival numbers, none of them too large.
Tickets == /\ \A c \in Callers : Live(c) => ticket[c] <= arrivals
           /\ \A c, d \in Callers : Live(c) /\ Live(d) /\ c # d => ticket[c] # ticket[d]

\* The entry of a key is its newest call.
TailIsNewest == \A k \in Keys : tails[k] # NoCaller =>
                  /\ Live(tails[k]) /\ key[tails[k]] = k
                  /\ \A c \in Callers : Live(c) /\ key[c] = k /\ c # tails[k]
                                          => ticket[c] < ticket[tails[k]]

\* A key with a call in progress has an entry.
LiveIsInMap == \A c \in Callers : Live(c) => tails[key[c]] # NoCaller

\* Who awaits a gate awaits the call that came just before its own.
AwaitsNextOlder == \A d \in Callers : previous[d] # NoCaller =>
                     /\ phase[d] = "queued"
                     /\ Live(previous[d]) /\ key[previous[d]] = key[d]
                     /\ ticket[previous[d]] < ticket[d]
                     /\ \A e \in Callers : Live(e) /\ key[e] = key[d] =>
                          ticket[e] <= ticket[previous[d]] \/ ticket[e] >= ticket[d]

\* Who awaits nobody is the oldest call of its key.
FreeIsOldest == \A c, d \in Callers :
                  Live(c) /\ Live(d) /\ c # d /\ key[c] = key[d] /\ previous[c] = NoCaller
                    => ticket[c] < ticket[d]

\* Retained commands hold the gate of the operation that retained them.
RetainedHoldsGate == \A c \in Callers :
                       pending[c] > 0 => phase[c] \in {"inside", "draining"} /\ drains[c]

QueueInv == /\ TypeOK /\ Tickets /\ TailIsNewest /\ LiveIsInMap
            /\ AwaitsNextOlder /\ FreeIsOldest /\ RetainedHoldsGate

-----------------------------------------------------------------------------

\* The initial state satisfies the invariant: nobody is in progress.
LEMMA QueueInit == Init => QueueInv
<1> SUFFICES ASSUME Init PROVE QueueInv
  OBVIOUS
<1>1. \E k \in Keys : TRUE
  BY SomeKey
<1>2. TypeOK
  BY <1>1, BoundsAreNatural DEF Init, TypeOK, Phases
<1>3. \A c \in Callers : ~Live(c) /\ previous[c] = NoCaller /\ ~(pending[c] > 0)
  BY DEF Init, Live
<1>4. \A k \in Keys : tails[k] = NoCaller
  BY DEF Init
<1> QED
  BY <1>2, <1>3, <1>4 DEF QueueInv, Tickets, TailIsNewest, LiveIsInMap, AwaitsNextOlder,
     FreeIsOldest, RetainedHoldsGate

\* Every step keeps the types.
LEMMA TypeStep == ASSUME TypeOK, [Next]_vars PROVE TypeOK'
<1>1. CASE UNCHANGED vars
  BY <1>1 DEF TypeOK, vars
<1>2. ASSUME NEW c \in Callers, NEW k \in Keys, RunExclusive(c, k) PROVE TypeOK'
  BY <1>2, BoundsAreNatural DEF TypeOK, RunExclusive, Phases
<1>3. ASSUME NEW c \in Callers, Enter(c) PROVE TypeOK'
  BY <1>3 DEF TypeOK, Enter, Phases
<1>4. ASSUME NEW c \in Callers, RetainUntil(c) PROVE TypeOK'
  BY <1>4, BoundsAreNatural DEF TypeOK, RetainUntil, Phases
<1>5. ASSUME NEW c \in Callers, CommandSettles(c) PROVE TypeOK'
  BY <1>5, BoundsAreNatural DEF TypeOK, CommandSettles, Phases
<1>6. ASSUME NEW c \in Callers, Finish(c) PROVE TypeOK'
  BY <1>6 DEF TypeOK, Finish, Phases
<1>7. ASSUME NEW c \in Callers, ReturnAndDrain(c) PROVE TypeOK'
  BY <1>7 DEF TypeOK, ReturnAndDrain, Phases
<1> QED
  BY <1>1, <1>2, <1>3, <1>4, <1>5, <1>6, <1>7 DEF Next, Step, Return, ReturnAndFinish, Drained

\* The steps of an operation that stays where it is in its queue.
Stays(c) == Enter(c) \/ RetainUntil(c) \/ CommandSettles(c) \/ ReturnAndDrain(c)

\* Such a step changes neither the chain nor who is in progress.
LEMMA StaysStep == ASSUME QueueInv, NEW c \in Callers, Stays(c) PROVE QueueInv'
<1> USE DEF QueueInv
<1>1. TypeOK'
  BY TypeStep DEF Stays, Next, Step, Return
<1>2. /\ UNCHANGED <<tails, previous, key, ticket, arrivals>>
      /\ \A d \in Callers : d # c => phase'[d] = phase[d]
      /\ phase[c] # "idle" /\ phase'[c] # "idle"
      /\ phase'[c] = "queued" \/ previous[c] = NoCaller
      /\ phase'[c] = phase[c] \/ phase'[c] \in {"inside", "draining"}
  <2>1. CASE Enter(c)
    BY <2>1 DEF Enter, TypeOK
  <2>2. CASE RetainUntil(c)
    BY <2>2 DEF RetainUntil, TypeOK, AwaitsNextOlder
  <2>3. CASE CommandSettles(c)
    BY <2>3 DEF CommandSettles, TypeOK, AwaitsNextOlder, RetainedHoldsGate
  <2>4. CASE ReturnAndDrain(c)
    BY <2>4 DEF ReturnAndDrain, TypeOK, AwaitsNextOlder
  <2> QED
    BY <2>1, <2>2, <2>3, <2>4 DEF Stays
<1>3. \A d \in Callers : Live(d)' <=> Live(d)
  BY <1>2 DEF Live
<1>4. Tickets' /\ TailIsNewest' /\ LiveIsInMap' /\ FreeIsOldest'
  <2>1. Tickets' /\ LiveIsInMap' /\ FreeIsOldest'
    BY <1>2, <1>3 DEF Tickets, LiveIsInMap, FreeIsOldest
  <2>2. TailIsNewest'
    <3> SUFFICES ASSUME NEW k \in Keys, tails[k] # NoCaller
                 PROVE  /\ Live(tails[k])' /\ key[tails[k]] = k
                        /\ \A d \in Callers : Live(d) /\ key[d] = k /\ d # tails[k]
                                                => ticket[d] < ticket[tails[k]]
      BY <1>2, <1>3 DEF TailIsNewest
    <3>1. tails[k] \in Callers
      BY DEF TypeOK
    <3> QED
      BY <3>1, <1>2, <1>3 DEF TailIsNewest
  <2> QED
    BY <2>1, <2>2
<1>5. AwaitsNextOlder'
  <2> SUFFICES ASSUME NEW d \in Callers, previous[d] # NoCaller
               PROVE  /\ phase'[d] = "queued"
                      /\ Live(previous[d])' /\ key[previous[d]] = key[d]
                      /\ ticket[previous[d]] < ticket[d]
                      /\ \A e \in Callers : Live(e) /\ key[e] = key[d] =>
                           ticket[e] <= ticket[previous[d]] \/ ticket[e] >= ticket[d]
    BY <1>2, <1>3 DEF AwaitsNextOlder
  <2>1. previous[d] \in Callers
    BY DEF TypeOK
  <2>2. phase'[d] = "queued"
    BY <1>2 DEF AwaitsNextOlder
  <2> QED
    BY <2>1, <2>2, <1>2, <1>3 DEF AwaitsNextOlder
<1>6. RetainedHoldsGate'
  <2>1. CASE Enter(c)
    BY <2>1 DEF Enter, TypeOK, RetainedHoldsGate
  <2>2. CASE RetainUntil(c)
    BY <2>2, BoundsAreNatural DEF RetainUntil, TypeOK, RetainedHoldsGate
  <2>3. CASE CommandSettles(c)
    BY <2>3, BoundsAreNatural DEF CommandSettles, TypeOK, RetainedHoldsGate
  <2>4. CASE ReturnAndDrain(c)
    BY <2>4 DEF ReturnAndDrain, TypeOK, RetainedHoldsGate
  <2> QED
    BY <2>1, <2>2, <2>3, <2>4 DEF Stays
<1> QED
  BY <1>1, <1>4, <1>5, <1>6

\* A new call becomes the newest of its key and awaits the one that was.
LEMMA RunExclusiveStep ==
  ASSUME QueueInv, NEW c \in Callers, NEW k \in Keys, RunExclusive(c, k) PROVE QueueInv'
<1> USE DEF QueueInv
<1>1. TypeOK'
  BY TypeStep DEF Next, Step
<1>2. /\ \A d \in Callers : d # c => /\ phase'[d] = phase[d] /\ key'[d] = key[d]
                                     /\ previous'[d] = previous[d] /\ ticket'[d] = ticket[d]
                                     /\ drains'[d] = drains[d]
      /\ phase'[c] = "queued" /\ key'[c] = k /\ previous'[c] = tails[k]
      /\ ticket'[c] = arrivals + 1 /\ arrivals' = arrivals + 1
      /\ \A l \in Keys : l # k => tails'[l] = tails[l]
      /\ tails'[k] = c
      /\ pending' = pending
      /\ ~Live(c)
  BY DEF RunExclusive, TypeOK, Live
<1>3. \A d \in Callers : d # c => (Live(d)' <=> Live(d))
  BY <1>2 DEF Live
<1>4. Live(c)'
  BY <1>2 DEF Live
<1>5. \A d \in Callers : ticket[d] \in Nat /\ ticket'[d] \in Nat
  BY <1>1, BoundsAreNatural DEF TypeOK
<1>6. arrivals \in Nat
  BY BoundsAreNatural DEF TypeOK
<1>7. \A d \in Callers : d # c /\ Live(d) => ticket'[d] < ticket'[c]
  BY <1>2, <1>5, <1>6 DEF Tickets
<1>8. Tickets'
  BY <1>2, <1>3, <1>4, <1>5, <1>6, <1>7 DEF Tickets
<1>9. \A l \in Keys : tails[l] # NoCaller => tails[l] \in Callers \ {c}
  BY <1>2 DEF TypeOK, TailIsNewest
<1>10. TailIsNewest'
  <2> SUFFICES ASSUME NEW l \in Keys, tails'[l] # NoCaller
               PROVE  /\ Live(tails[l])' /\ key'[tails'[l]] = l
                      /\ \A d \in Callers : Live(d)' /\ key'[d] = l /\ d # tails'[l]
                                              => ticket'[d] < ticket'[tails'[l]]
    BY DEF TailIsNewest, Live
  <2>1. CASE l = k
    BY <2>1, <1>2, <1>3, <1>4, <1>7 DEF Live
  <2>2. CASE l # k
    <3>1. tails'[l] = tails[l] /\ tails[l] \in Callers /\ tails[l] # c
      BY <2>2, <1>2, <1>9
    <3> QED
      BY <2>2, <3>1, <1>2, <1>3, <1>4 DEF TailIsNewest, Live
  <2> QED
    BY <2>1, <2>2
<1>11. LiveIsInMap'
  BY <1>2, <1>3, NoCallerIsNoCaller DEF LiveIsInMap, TypeOK
<1>12. \A d \in Callers : d # c /\ previous[d] # NoCaller => previous[d] \in Callers \ {c}
  BY <1>2 DEF AwaitsNextOlder, TypeOK
<1>13. AwaitsNextOlder'
  <2> SUFFICES ASSUME NEW d \in Callers, previous'[d] # NoCaller
               PROVE  /\ phase'[d] = "queued"
                      /\ Live(previous[d])' /\ key'[previous'[d]] = key'[d]
                      /\ ticket'[previous'[d]] < ticket'[d]
                      /\ \A e \in Callers : Live(e)' /\ key'[e] = key'[d] =>
                           ticket'[e] <= ticket'[previous'[d]] \/ ticket'[e] >= ticket'[d]
    BY DEF AwaitsNextOlder, Live
  <2>1. CASE d = c
    <3>1. previous'[c] = tails[k] /\ tails[k] \in Callers /\ tails[k] # c
      BY <2>1, <1>2, <1>9
    <3>2. \A e \in Callers : e # c /\ Live(e) /\ key[e] = k => ticket[e] <= ticket[tails[k]]
      BY <3>1, <1>5, NoCallerIsNoCaller DEF TailIsNewest
    <3> QED
      BY <2>1, <3>1, <3>2, <1>2, <1>3, <1>5, <1>7 DEF TailIsNewest, Live
  <2>2. CASE d # c
    <3>1. previous'[d] = previous[d] /\ previous[d] \in Callers /\ previous[d] # c /\ Live(d)
      BY <2>2, <1>2, <1>12 DEF AwaitsNextOlder, Live
    <3>2. ticket'[c] >= ticket'[d]
      BY <2>2, <3>1, <1>5, <1>7
    <3> QED
      BY <2>2, <3>1, <3>2, <1>2, <1>3 DEF AwaitsNextOlder, Live
  <2> QED
    BY <2>1, <2>2
<1>14. FreeIsOldest'
  <2> SUFFICES ASSUME NEW d \in Callers, NEW e \in Callers, Live(d)', Live(e)', d # e,
                      key'[d] = key'[e], previous'[d] = NoCaller
               PROVE  ticket'[d] < ticket'[e]
    BY DEF FreeIsOldest
  <2>1. CASE d = c
    BY <2>1, <1>2, <1>3 DEF LiveIsInMap
  <2>2. CASE e = c
    BY <2>2, <1>3, <1>7
  <2>3. CASE d # c /\ e # c
    BY <2>3, <1>2, <1>3 DEF FreeIsOldest
  <2> QED
    BY <2>1, <2>2, <2>3
<1>15. RetainedHoldsGate'
  BY <1>2, BoundsAreNatural DEF RetainedHoldsGate, TypeOK, Live
<1> QED
  BY <1>1, <1>8, <1>10, <1>11, <1>13, <1>14, <1>15

\* A call that finishes is the oldest of its key, so the next one is now.
LEMMA FinishStep ==
  ASSUME QueueInv, NEW c \in Callers, Finish(c), phase[c] \in {"inside", "draining"}, pending[c] = 0
  PROVE  QueueInv'
<1> USE DEF QueueInv
<1>1. TypeOK'
  BY DEF TypeOK, Finish, Phases
<1>2. /\ phase'[c] = "idle"
      /\ \A d \in Callers : d # c => phase'[d] = phase[d]
      /\ UNCHANGED <<key, drains, pending, ticket, arrivals>>
      /\ \A d \in Callers : previous'[d] = IF previous[d] = c THEN NoCaller ELSE previous[d]
      /\ \A k \in Keys : tails'[k] = IF tails[k] = c /\ k = key[c] THEN NoCaller ELSE tails[k]
  BY DEF Finish, TypeOK
<1>3. Live(c) /\ ~Live(c)' /\ \A d \in Callers : d # c => (Live(d)' <=> Live(d))
  BY <1>2 DEF Live
<1>4. \A d \in Callers : ticket[d] \in Nat
  BY BoundsAreNatural DEF TypeOK
<1>5. \A d \in Callers : Live(d) /\ d # c /\ key[d] = key[c] => ticket[c] < ticket[d]
  BY <1>3 DEF FreeIsOldest, AwaitsNextOlder
<1>6. Tickets'
  BY <1>2, <1>3 DEF Tickets
<1>7. \A k \in Keys : tails'[k] # NoCaller => tails'[k] = tails[k] /\ tails[k] \in Callers \ {c}
  BY <1>2 DEF TypeOK, TailIsNewest
<1>8. TailIsNewest'
  <2> SUFFICES ASSUME NEW k \in Keys, tails'[k] # NoCaller
               PROVE  /\ Live(tails[k])' /\ key'[tails'[k]] = k
                      /\ \A d \in Callers : Live(d)' /\ key'[d] = k /\ d # tails'[k]
                                              => ticket'[d] < ticket'[tails'[k]]
    BY DEF TailIsNewest, Live
  <2>1. tails'[k] = tails[k] /\ tails[k] \in Callers /\ tails[k] # c
    BY <1>7
  <2> QED
    BY <2>1, <1>2, <1>3 DEF TailIsNewest, Live
<1>9. LiveIsInMap'
  <2> SUFFICES ASSUME NEW d \in Callers, d # c, Live(d) PROVE tails'[key[d]] # NoCaller
    BY <1>2, <1>3 DEF LiveIsInMap
  <2>1. tails[key[d]] # NoCaller /\ key[d] \in Keys
    BY DEF LiveIsInMap, TypeOK
  <2>2. ~(tails[key[d]] = c /\ key[d] = key[c])
    BY <2>1, <1>4, <1>5 DEF TailIsNewest
  <2> QED
    BY <2>1, <2>2, <1>2
<1>10. AwaitsNextOlder'
  <2> SUFFICES ASSUME NEW d \in Callers, previous'[d] # NoCaller
               PROVE  /\ phase'[d] = "queued"
                      /\ Live(previous[d])' /\ key'[previous'[d]] = key'[d]
                      /\ ticket'[previous'[d]] < ticket'[d]
                      /\ \A e \in Callers : Live(e)' /\ key'[e] = key'[d] =>
                           ticket'[e] <= ticket'[previous'[d]] \/ ticket'[e] >= ticket'[d]
    BY DEF AwaitsNextOlder, Live
  <2>1. previous'[d] = previous[d] /\ previous[d] \in Callers /\ previous[d] # c /\ d # c
    BY <1>2 DEF TypeOK, AwaitsNextOlder
  <2> QED
    BY <2>1, <1>2, <1>3 DEF AwaitsNextOlder, Live
<1>11. FreeIsOldest'
  <2> SUFFICES ASSUME NEW d \in Callers, NEW e \in Callers, d # c, e # c, Live(d), Live(e),
                      d # e, key[d] = key[e], previous'[d] = NoCaller
               PROVE  ticket[d] < ticket[e]
    BY <1>2, <1>3 DEF FreeIsOldest
  <2>1. CASE previous[d] = NoCaller
    BY <2>1 DEF FreeIsOldest
  <2>2. CASE previous[d] = c
    <3>1. previous[d] # NoCaller
      BY <2>2, NoCallerIsNoCaller
    <3>2. key[c] = key[d] /\ (ticket[e] <= ticket[c] \/ ticket[e] >= ticket[d])
      BY <2>2, <3>1 DEF AwaitsNextOlder
    <3>3. ticket[c] < ticket[e]
      BY <3>2, <1>5
    <3>4. ticket[d] # ticket[e]
      BY DEF Tickets
    <3> QED
      BY <3>2, <3>3, <3>4, <1>4
  <2> QED
    BY <2>1, <2>2, <1>2
<1>12. RetainedHoldsGate'
  BY <1>2 DEF RetainedHoldsGate
<1> QED
  BY <1>1, <1>6, <1>8, <1>9, <1>10, <1>11, <1>12

\* The invariant holds in every behaviour: one case per action.
THEOREM QueueInvariant == Spec => []QueueInv
<1>1. Init => QueueInv
  BY QueueInit
<1>2. QueueInv /\ [Next]_vars => QueueInv'
  <2> SUFFICES ASSUME QueueInv, [Next]_vars PROVE QueueInv'
    OBVIOUS
  <2>1. CASE UNCHANGED vars
    BY <2>1 DEF vars, QueueInv, TypeOK, Tickets, TailIsNewest, LiveIsInMap, AwaitsNextOlder,
       FreeIsOldest, RetainedHoldsGate, Live
  <2>2. ASSUME NEW c \in Callers, NEW k \in Keys, RunExclusive(c, k) PROVE QueueInv'
    BY <2>2, RunExclusiveStep
  <2>3. ASSUME NEW c \in Callers, Enter(c) \/ RetainUntil(c) \/ CommandSettles(c) \/ ReturnAndDrain(c)
        PROVE  QueueInv'
    BY <2>3, StaysStep DEF Stays
  <2>4. ASSUME NEW c \in Callers, ReturnAndFinish(c) PROVE QueueInv'
    <3>1. pending[c] = 0
      BY <2>4, BoundsAreNatural DEF ReturnAndFinish, QueueInv, RetainedHoldsGate, TypeOK
    <3> QED
      BY <2>4, <3>1, FinishStep DEF ReturnAndFinish
  <2>5. ASSUME NEW c \in Callers, Drained(c) PROVE QueueInv'
    BY <2>5, FinishStep DEF Drained
  <2> QED
    BY <2>1, <2>2, <2>3, <2>4, <2>5 DEF Next, Step, Return
<1> QED
  BY <1>1, <1>2, PTL DEF Spec

-----------------------------------------------------------------------------

(* No operation enters a key while another operation of the key, or a      *)
(* browser command such an operation abandoned, is still at work.          *)
THEOREM MutualExclusion == Spec => []Exclusive
<1>1. QueueInv => Exclusive
  <2> SUFFICES ASSUME QueueInv, NEW c \in Callers, NEW d \in Callers,
                      c # d, AtWork(c), AtWork(d), key[c] = key[d]
               PROVE  FALSE
    BY DEF Exclusive
  <2>1. \A e \in {c, d} : Live(e) /\ previous[e] = NoCaller
    BY DEF QueueInv, RetainedHoldsGate, AwaitsNextOlder, AtWork, Live
  <2>2. ticket[c] < ticket[d] /\ ticket[d] < ticket[c]
    BY <2>1 DEF QueueInv, FreeIsOldest
  <2> QED
    BY <2>2, BoundsAreNatural DEF QueueInv, TypeOK
<1> QED
  BY <1>1, QueueInvariant, PTL

(* isBusy and activeCount tell the truth: a key is in the map exactly      *)
(* while some call of the key has not finished.                            *)
THEOREM MapTellsBusyKeys == Spec => []BusyIsTrue
<1>1. QueueInv => BusyIsTrue
  <2> SUFFICES ASSUME QueueInv, NEW k \in Keys
               PROVE  (tails[k] # NoCaller) <=> (\E c \in Callers : Live(c) /\ key[c] = k)
    BY DEF BusyIsTrue
  <2>1. tails[k] # NoCaller => tails[k] \in Callers /\ Live(tails[k]) /\ key[tails[k]] = k
    BY DEF QueueInv, TypeOK, TailIsNewest
  <2>2. (\E c \in Callers : Live(c) /\ key[c] = k) => tails[k] # NoCaller
    BY DEF QueueInv, LiveIsInMap
  <2> QED
    BY <2>1, <2>2
<1> QED
  BY <1>1, QueueInvariant, PTL

(* Nobody overtakes: the calls of a key are served in order of arrival.    *)
THEOREM FirstComeFirstServed == Spec => []ServedInOrder
<1>1. QueueInv => ServedInOrder
  BY DEF QueueInv, ServedInOrder, FreeIsOldest, AwaitsNextOlder, Live
<1> QED
  BY <1>1, QueueInvariant, PTL

(* Whoever waits waits for an earlier call that is still to finish.        *)
THEOREM NobodyAwaitsTheGone == Spec => []NoGateIsLost
<1>1. QueueInv => NoGateIsLost
  BY DEF QueueInv, NoGateIsLost, AwaitsNextOlder
<1> QED
  BY <1>1, QueueInvariant, PTL

\* The state of the mutex stays well typed.
THEOREM MutexTyped == Spec => []TypeOK
<1>1. QueueInv => TypeOK
  BY DEF QueueInv
<1> QED
  BY <1>1, QueueInvariant, PTL

-----------------------------------------------------------------------------
(* The refinement.  CallsOf(k) counts for every call who is ahead of it;   *)
(* what a step makes of the queue is shown by naming the new queue, whose  *)
(* numbers grow, and by there being only one such order.                   *)

\* q is the members of S by their numbers.
IsOrder(q, S, number) ==
  /\ q \in Seq(S)
  /\ \A c \in S : \E i \in 1..Len(q) : q[i] = c
  /\ \A i, j \in 1..Len(q) : i < j => number[q[i]] < number[q[j]]

\* There is one order, the one that counts who is ahead.
LEMMA OneOrder ==
  ASSUME NEW S, NEW number, \A c \in S : number[c] \in Nat, NEW q, IsOrder(q, S, number)
  PROVE  q = InOrder(S, number)
<1> DEFINE n == Len(q)
           Ahead(c) == {d \in S : number[d] < number[c]}
<1>1. n \in Nat /\ q \in [1..n -> S] /\ q = [i \in 1..n |-> q[i]]
  BY DEF IsOrder
<1>2. \A i, j \in 1..n : number[q[i]] < number[q[j]] <=> i < j
  <2> TAKE i, j \in 1..n
  <2>1. number[q[i]] \in Nat /\ number[q[j]] \in Nat
    BY <1>1
  <2>2. i < j \/ i = j \/ j < i
    BY <1>1
  <2> QED BY <1>1, <2>1, <2>2 DEF IsOrder
<1>3. \A i, j \in 1..n : q[i] = q[j] => i = j
  <2> SUFFICES ASSUME NEW i \in 1..n, NEW j \in 1..n, q[i] = q[j], i # j PROVE FALSE
    OBVIOUS
  <2>1. number[q[i]] \in Nat
    BY <1>1
  <2>2. i < j \/ j < i
    BY <1>1
  <2> QED BY <1>2, <2>1, <2>2
<1>4. Cardinality(S) = n
  <2>1. q \in Bijection(1..n, S)
    BY <1>1, <1>3 DEF Bijection, Injection, Surjection, IsInjective, IsOrder
  <2> QED BY <1>1, <2>1, FS_CountingElements DEF ExistsBijection
<1>5. ASSUME NEW i \in 1..n PROVE Cardinality(Ahead(q[i])) = i - 1
  <2> DEFINE A == Ahead(q[i])
             r == [j \in 1..(i - 1) |-> q[j]]
  <2>1. i - 1 \in Nat /\ 1..(i - 1) \subseteq 1..n
    BY <1>1
  <2>2. r \in [1..(i - 1) -> A]
    BY <1>1, <1>2, <2>1
  <2>3. \A a, b \in 1..(i - 1) : r[a] = r[b] => a = b
    BY <1>3, <2>1
  <2>4. ASSUME NEW d \in A PROVE \E j \in 1..(i - 1) : r[j] = d
    <3>1. PICK j \in 1..n : q[j] = d
      BY <2>4 DEF IsOrder
    <3>2. j < i
      BY <1>2, <2>4, <3>1
    <3>3. j \in 1..(i - 1)
      BY <1>1, <3>2
    <3> QED BY <3>1, <3>3
  <2>5. r \in Bijection(1..(i - 1), A)
    BY <2>2, <2>3, <2>4 DEF Bijection, Injection, Surjection, IsInjective
  <2> HIDE DEF A
  <2>6. Cardinality(A) = i - 1
    BY <2>1, <2>5, FS_CountingElements DEF ExistsBijection
  <2> QED BY <2>6 DEF A
<1>6. ASSUME NEW i \in 1..n PROVE (CHOOSE c \in S : Cardinality(Ahead(c)) = i - 1) = q[i]
  <2>1. q[i] \in S /\ Cardinality(Ahead(q[i])) = i - 1
    BY <1>1, <1>5
  <2>2. ASSUME NEW c \in S, Cardinality(Ahead(c)) = i - 1 PROVE c = q[i]
    <3>1. PICK j \in 1..n : q[j] = c
      BY DEF IsOrder
    <3>2. j - 1 = i - 1
      BY <1>5, <2>2, <3>1
    <3> QED BY <1>1, <3>1, <3>2
  <2> HIDE DEF Ahead
  <2> QED BY <2>1, <2>2
<1> HIDE DEF n
<1>7. InOrder(S, number) = [i \in 1..n |-> q[i]]
  BY <1>4, <1>6 DEF InOrder
<1> QED BY <1>1, <1>7

LEMMA SameOrder ==
  ASSUME NEW S, NEW t, NEW u, NEW q, IsOrder(q, S, t), \A c \in S : u[c] = t[c]
  PROVE  IsOrder(q, S, u)
<1>1. \A i \in 1..Len(q) : q[i] \in S
  BY DEF IsOrder
<1> QED BY <1>1 DEF IsOrder

LEMMA JoinedOrder ==
  ASSUME NEW S, NEW t, NEW u, NEW q, IsOrder(q, S, t), NEW c,
         \A d \in S : u[d] = t[d] /\ u[d] < u[c]
  PROVE  IsOrder(Append(q, c), S \cup {c}, u)
<1> DEFINE p == Append(q, c)
           n == Len(q)
<1>1. n \in Nat /\ \A i \in 1..n : q[i] \in S
  BY DEF IsOrder
<1>2. p \in Seq(S \cup {c}) /\ Len(p) = n + 1 /\ (\A i \in 1..n : p[i] = q[i]) /\ p[n + 1] = c
  BY DEF IsOrder
<1>3. ASSUME NEW d \in S \cup {c} PROVE \E i \in 1..Len(p) : p[i] = d
  <2>1. CASE d = c
    BY <1>1, <1>2, <2>1
  <2>2. CASE d \in S
    <3>1. PICK i \in 1..n : q[i] = d
      BY <2>2 DEF IsOrder
    <3> QED BY <1>1, <1>2, <3>1
  <2> QED BY <2>1, <2>2
<1> HIDE DEF p
<1>4. ASSUME NEW i \in 1..Len(p), NEW j \in 1..Len(p), i < j PROVE u[p[i]] < u[p[j]]
  <2>1. i \in 1..n /\ p[i] = q[i] /\ q[i] \in S
    BY <1>1, <1>2, <1>4
  <2>2. CASE j = n + 1
    BY <1>2, <2>1, <2>2
  <2>3. CASE j # n + 1
    <3>1. j \in 1..n /\ p[j] = q[j] /\ q[j] \in S
      BY <1>1, <1>2, <2>3
    <3>2. t[q[i]] < t[q[j]]
      BY <1>4, <2>1, <3>1 DEF IsOrder
    <3> QED BY <2>1, <3>1, <3>2
  <2> QED BY <2>2, <2>3
<1>5. IsOrder(p, S \cup {c}, u)
  BY <1>2, <1>3, <1>4 DEF IsOrder
<1> QED BY <1>5 DEF p

LEMMA FirstOfOrder ==
  ASSUME NEW S, NEW t, NEW q, IsOrder(q, S, t), NEW c \in S, \A d \in S : t[d] \in Nat,
         \A d \in S \ {c} : t[c] < t[d]
  PROVE  q # <<>> /\ Head(q) = c
<1>1. PICK i \in 1..Len(q) : q[i] = c
  BY DEF IsOrder
<1>2. Len(q) \in Nat /\ 1 \in 1..Len(q) /\ q[1] \in S /\ q # <<>>
  BY <1>1 DEF IsOrder
<1>3. q[1] = c
  <2> SUFFICES ASSUME q[1] # c PROVE FALSE
    OBVIOUS
  <2>1. 1 < i
    BY <1>1, <1>2
  <2>2. t[q[1]] < t[c] /\ t[c] < t[q[1]]
    BY <1>1, <1>2, <2>1 DEF IsOrder
  <2> QED BY <1>2, <2>2
<1> QED BY <1>2, <1>3 DEF IsOrder

LEMMA FreedOrder ==
  ASSUME NEW S, NEW t, NEW q, IsOrder(q, S, t), \A d \in S : t[d] \in Nat, q # <<>>
  PROVE  IsOrder(Tail(q), S \ {Head(q)}, t)
<1> DEFINE p == Tail(q)
           n == Len(q)
           c == Head(q)
<1>1. n \in Nat \ {0} /\ (\A i \in 1..n : q[i] \in S) /\ c = q[1]
  BY DEF IsOrder
<1>2. p \in Seq(S) /\ Len(p) = n - 1 /\ \A i \in 1..(n - 1) : p[i] = q[i + 1]
  BY <1>1 DEF IsOrder
<1> HIDE DEF p, n, c
<1>3. \A i \in 1..(n - 1) : p[i] \in S \ {c}
  <2> TAKE i \in 1..(n - 1)
  <2>1. i + 1 \in 1..n /\ 1 \in 1..n /\ 1 < i + 1
    BY <1>1
  <2>2. t[c] < t[p[i]] /\ t[c] \in Nat
    BY <1>1, <1>2, <2>1 DEF IsOrder, n
  <2> QED BY <1>1, <1>2, <2>1, <2>2
<1>4. p \in Seq(S \ {c})
  BY <1>1, <1>2, <1>3
<1>5. ASSUME NEW d \in S \ {c} PROVE \E i \in 1..Len(p) : p[i] = d
  <2>1. PICK j \in 1..n : q[j] = d
    BY DEF IsOrder, n
  <2>2. j # 1 /\ j - 1 \in 1..(n - 1) /\ (j - 1) + 1 = j
    BY <1>1, <1>5, <2>1
  <2> QED BY <1>2, <2>1, <2>2
<1>6. ASSUME NEW i \in 1..Len(p), NEW j \in 1..Len(p), i < j PROVE t[p[i]] < t[p[j]]
  <2>1. i + 1 \in 1..n /\ j + 1 \in 1..n /\ i + 1 < j + 1
    BY <1>1, <1>2, <1>6
  <2> QED BY <1>2, <2>1 DEF IsOrder, n
<1>7. IsOrder(p, S \ {c}, t)
  BY <1>4, <1>5, <1>6 DEF IsOrder
<1> QED BY <1>7 DEF p, c

Ordered == \A k \in Keys : IsOrder(CallsOf(k), Line(k), ticket)
LineInv == QueueInv /\ Ordered

LEMMA LineTickets == ASSUME TypeOK, NEW k \in Keys PROVE \A c \in Line(k) : ticket[c] \in Nat
BY BoundsAreNatural DEF TypeOK, Line

(* A queue whose members and numbers stay is the same queue.               *)
LEMMA LineStays ==
  ASSUME TypeOK', NEW k \in Keys, IsOrder(CallsOf(k), Line(k), ticket),
         Line(k)' = Line(k), \A c \in Line(k) : ticket'[c] = ticket[c]
  PROVE  CallsOf(k)' = CallsOf(k) /\ IsOrder(CallsOf(k), Line(k), ticket)'
<1>1. PICK q : q = CallsOf(k)
  OBVIOUS
<1>2. IsOrder(q, Line(k), ticket')
  BY <1>1, SameOrder
<1>3. \A c \in Line(k) : ticket'[c] \in Nat
  BY BoundsAreNatural DEF TypeOK, Line
<1>4. q = InOrder(Line(k), ticket')
  BY <1>2, <1>3, OneOrder
<1>5. CallsOf(k)' = q
  BY <1>4 DEF CallsOf
<1> QED BY <1>1, <1>2, <1>5

(* What the new queue is, is what it is called.                            *)
LEMMA LineBecomes ==
  ASSUME TypeOK', NEW k \in Keys, NEW q, NEW S, Line(k)' = S, IsOrder(q, S, ticket')
  PROVE  CallsOf(k)' = q /\ IsOrder(CallsOf(k), Line(k), ticket)'
<1>1. \A c \in S : ticket'[c] \in Nat
  BY BoundsAreNatural DEF TypeOK, Line
<1>2. q = InOrder(S, ticket')
  BY <1>1, OneOrder
<1>3. CallsOf(k)' = q
  BY <1>2 DEF CallsOf
<1> QED BY <1>3

LEMMA LineStarts == Init => LineInv /\ Promised!Init
<1> SUFFICES ASSUME Init PROVE LineInv /\ Promised!Init
  OBVIOUS
<1>1. QueueInv
  BY QueueInit
<1>2. \A k \in Keys : Line(k) = {}
  BY DEF Init, Line, Live
<1>3. ASSUME NEW k \in Keys PROVE CallsOf(k) = <<>> /\ IsOrder(CallsOf(k), Line(k), ticket)
  <2>1. IsOrder(<<>>, {}, ticket)
    BY DEF IsOrder
  <2>2. <<>> = InOrder({}, ticket)
    BY <2>1, OneOrder
  <2> QED BY <1>2, <2>1, <2>2 DEF CallsOf
<1>4. {c \in Callers : phase[c] \in {"inside", "draining"}} = {}
  BY DEF Init
<1> QED BY <1>1, <1>3, <1>4 DEF LineInv, Ordered, Promised!Init

Granted == {c \in Callers : phase[c] \in {"inside", "draining"}}

(* A call joins the end of the queue of its key.                           *)
LEMMA JoinsLine ==
  ASSUME LineInv, QueueInv', NEW c \in Callers, NEW k \in Keys, RunExclusive(c, k)
  PROVE  Ordered' /\ Promised!Join(c, k)
<1>1. TypeOK /\ TypeOK' /\ Tickets /\ ~Live(c) /\ arrivals \in Nat
  BY BoundsAreNatural DEF LineInv, QueueInv, RunExclusive, Live, TypeOK
<1>2. Line(k)' = Line(k) \cup {c} /\ \A l \in Keys \ {k} : Line(l)' = Line(l)
  BY <1>1 DEF RunExclusive, Line, Live, TypeOK
<1>3. \A d \in Callers \ {c} : ticket'[d] = ticket[d]
  BY <1>1 DEF RunExclusive, TypeOK
<1>4. \A l \in Keys : c \notin Line(l) /\ Line(l) \subseteq Callers
  BY <1>1 DEF Line
<1>5. PICK q : q = CallsOf(k)
  OBVIOUS
<1>6. IsOrder(Append(q, c), Line(k) \cup {c}, ticket')
  <2>1. \A d \in Line(k) : ticket'[d] = ticket[d] /\ ticket'[d] < ticket'[c]
    <3> TAKE d \in Line(k)
    <3>1. ticket'[d] = ticket[d] /\ ticket'[c] = arrivals + 1
      BY <1>1, <1>3, <1>4 DEF RunExclusive, TypeOK
    <3>2. ticket[d] \in Nat /\ ticket[d] <= arrivals
      BY <1>1, LineTickets DEF Tickets, Line
    <3> QED BY <1>1, <3>1, <3>2
  <2>2. IsOrder(q, Line(k), ticket)
    BY <1>5 DEF LineInv, Ordered
  <2> QED BY <2>1, <2>2, JoinedOrder
<1>7. CallsOf(k)' = Append(CallsOf(k), c) /\ IsOrder(CallsOf(k), Line(k), ticket)'
  BY <1>1, <1>2, <1>5, <1>6, LineBecomes
<1>8. ASSUME NEW l \in Keys \ {k} PROVE CallsOf(l)' = CallsOf(l) /\ IsOrder(CallsOf(l), Line(l), ticket)'
  BY <1>1, <1>2, <1>3, <1>4, LineStays DEF LineInv, Ordered
<1>9. Granted' = Granted
  BY <1>1 DEF Granted, RunExclusive, TypeOK, Live
<1>10. \A l \in Keys : \A i \in 1..Len(CallsOf(l)) : CallsOf(l)[i] # c
  BY <1>4 DEF LineInv, Ordered, IsOrder
<1>11. Ordered'
  BY <1>7, <1>8 DEF Ordered
<1>12. [l \in Keys |-> CallsOf(l)]' = [[l \in Keys |-> CallsOf(l)] EXCEPT ![k] = Append(@, c)]
  BY <1>7, <1>8
<1> QED BY <1>9, <1>10, <1>11, <1>12 DEF Promised!Join, Promised!InQueue, Granted

(* Whoever has its key is the head of its queue.                           *)
LEMMA HeadOfLine ==
  ASSUME LineInv, NEW c \in Callers, Live(c), previous[c] = NoCaller
  PROVE  key[c] \in Keys /\ CallsOf(key[c]) # <<>> /\ Head(CallsOf(key[c])) = c
<1>1. key[c] \in Keys /\ c \in Line(key[c])
  BY DEF LineInv, QueueInv, TypeOK, Line
<1>2. \A d \in Line(key[c]) \ {c} : ticket[c] < ticket[d]
  BY DEF LineInv, QueueInv, FreeIsOldest, Line
<1>3. PICK q : q = CallsOf(key[c])
  OBVIOUS
<1>4. PICK S : S = Line(key[c])
  OBVIOUS
<1>5. IsOrder(q, S, ticket) /\ (\A d \in S : ticket[d] \in Nat) /\ c \in S
  BY <1>1, <1>3, <1>4, LineTickets DEF LineInv, QueueInv, Ordered
<1>6. q # <<>> /\ Head(q) = c
  BY <1>2, <1>4, <1>5, FirstOfOrder
<1> QED BY <1>1, <1>3, <1>6

(* The queues stay while no call comes or goes.                            *)
LEMMA LinesStay ==
  ASSUME LineInv, QueueInv', UNCHANGED <<key, ticket>>, \A c \in Callers : Live(c)' <=> Live(c)
  PROVE  Ordered' /\ [k \in Keys |-> CallsOf(k)]' = [k \in Keys |-> CallsOf(k)]
<1>1. \A k \in Keys : Line(k)' = Line(k)
  BY DEF Line
<1>2. ASSUME NEW k \in Keys PROVE CallsOf(k)' = CallsOf(k) /\ IsOrder(CallsOf(k), Line(k), ticket)'
  BY <1>1, LineStays DEF LineInv, Ordered, QueueInv
<1> QED BY <1>2 DEF Ordered

LEMMA EntersKey ==
  ASSUME LineInv, QueueInv', NEW c \in Callers, Enter(c)
  PROVE  Ordered' /\ \E k \in Keys : Promised!Grant(c, k)
<1>1. TypeOK /\ Live(c) /\ previous[c] = NoCaller /\ c \notin Granted
  BY DEF LineInv, QueueInv, Enter, Live, Granted
<1>2. \A d \in Callers : Live(d)' <=> Live(d)
  BY <1>1 DEF Enter, Live, TypeOK
<1>3. Ordered' /\ [k \in Keys |-> CallsOf(k)]' = [k \in Keys |-> CallsOf(k)]
  BY <1>2, LinesStay DEF Enter
<1>4. Granted' = Granted \cup {c}
  BY <1>1 DEF Enter, Granted, TypeOK
<1>5. PICK k \in Keys : CallsOf(k) # <<>> /\ Head(CallsOf(k)) = c
  BY <1>1, HeadOfLine
<1>6. Promised!Grant(c, k)
  BY <1>1, <1>3, <1>4, <1>5 DEF Promised!Grant, Granted
<1> QED BY <1>3, <1>5, <1>6

LEMMA LeavesLine ==
  ASSUME LineInv, QueueInv', NEW c \in Callers, phase[c] \in {"inside", "draining"}, Finish(c)
  PROVE  Ordered' /\ \E k \in Keys : Promised!Free(c, k)
<1>1. TypeOK /\ TypeOK' /\ Live(c) /\ c \in Granted
  BY DEF LineInv, QueueInv, Live, Granted
<1>2. previous[c] = NoCaller
  BY DEF LineInv, QueueInv, AwaitsNextOlder
<1>3. PICK k : k = key[c]
  OBVIOUS
<1>4. k \in Keys /\ CallsOf(k) # <<>> /\ Head(CallsOf(k)) = c
  BY <1>1, <1>2, <1>3, HeadOfLine
<1>5. ticket' = ticket /\ key' = key
  BY DEF Finish
<1>6. Line(k)' = Line(k) \ {c} /\ \A l \in Keys \ {k} : Line(l)' = Line(l)
  BY <1>1, <1>3 DEF Finish, Line, Live, TypeOK
<1>7. PICK q : q = CallsOf(k)
  OBVIOUS
<1>8. IsOrder(Tail(q), Line(k) \ {c}, ticket')
  <2>1. IsOrder(q, Line(k), ticket) /\ (\A d \in Line(k) : ticket[d] \in Nat)
    BY <1>1, <1>4, <1>7, LineTickets DEF LineInv, Ordered
  <2>2. IsOrder(Tail(q), Line(k) \ {Head(q)}, ticket)
    BY <1>4, <1>7, <2>1, FreedOrder
  <2> QED BY <1>4, <1>5, <1>7, <2>2
<1>9. CallsOf(k)' = Tail(CallsOf(k)) /\ IsOrder(CallsOf(k), Line(k), ticket)'
  BY <1>1, <1>4, <1>6, <1>7, <1>8, LineBecomes
<1>10. ASSUME NEW l \in Keys \ {k} PROVE CallsOf(l)' = CallsOf(l) /\ IsOrder(CallsOf(l), Line(l), ticket)'
  BY <1>1, <1>5, <1>6, LineStays DEF LineInv, Ordered
<1>11. Granted' = Granted \ {c}
  BY <1>1 DEF Granted, Finish, TypeOK
<1>12. Ordered'
  BY <1>9, <1>10 DEF Ordered
<1>13. [l \in Keys |-> CallsOf(l)]' = [[l \in Keys |-> CallsOf(l)] EXCEPT ![k] = Tail(@)]
  BY <1>4, <1>9, <1>10
<1>14. Promised!Free(c, k)
  BY <1>1, <1>4, <1>11, <1>13 DEF Promised!Free, Granted
<1> QED BY <1>4, <1>12, <1>14

LEMMA LineStep ==
  ASSUME LineInv, QueueInv', [Next]_vars
  PROVE  Ordered' /\ [Promised!Next]_(Promised!vars)
<1>1. ASSUME NEW c \in Callers, NEW k \in Keys, RunExclusive(c, k) PROVE Ordered' /\ Promised!Next
  <2>1. Ordered' /\ Promised!Join(c, k)
    BY <1>1, JoinsLine
  <2> QED BY <2>1 DEF Promised!Next
<1>2. ASSUME NEW c \in Callers, Enter(c) PROVE Ordered' /\ Promised!Next
  <2>1. Ordered' /\ \E k \in Keys : Promised!Grant(c, k)
    BY <1>2, EntersKey
  <2> QED BY <2>1 DEF Promised!Next
<1>3. ASSUME NEW c \in Callers, phase[c] \in {"inside", "draining"}, Finish(c) PROVE Ordered' /\ Promised!Next
  <2>1. Ordered' /\ \E k \in Keys : Promised!Free(c, k)
    BY <1>3, LeavesLine
  <2> QED BY <2>1 DEF Promised!Next
<1>4. ASSUME UNCHANGED <<key, ticket>>, (\A c \in Callers : Live(c)' <=> Live(c)), Granted' = Granted
      PROVE  Ordered' /\ UNCHANGED Promised!vars
  BY <1>4, LinesStay DEF Promised!vars, Granted
<1>5. ASSUME NEW c \in Callers, RetainUntil(c) \/ CommandSettles(c) PROVE Ordered' /\ UNCHANGED Promised!vars
  BY <1>4, <1>5 DEF RetainUntil, CommandSettles, Live, Granted
<1>6. ASSUME NEW c \in Callers, ReturnAndDrain(c) PROVE Ordered' /\ UNCHANGED Promised!vars
  <2>1. \A d \in Callers : (Live(d)' <=> Live(d)) /\ (phase'[d] \in {"inside", "draining"} <=> phase[d] \in {"inside", "draining"})
    BY <1>6 DEF ReturnAndDrain, Live, LineInv, QueueInv, TypeOK
  <2>2. Granted' = Granted
    BY <2>1 DEF Granted
  <2> QED BY <1>4, <1>6, <2>1, <2>2 DEF ReturnAndDrain
<1>7. CASE UNCHANGED vars
  BY <1>4, <1>7 DEF vars, Live, Granted
<1> QED BY <1>1, <1>2, <1>3, <1>5, <1>6, <1>7 DEF Next, Step, Return, ReturnAndFinish, Drained

(* KeyedMutex keeps what FifoLock promises: one queue per key, whose head  *)
(* owns it until the last piece of its work has ended.                     *)
THEOREM LockKept == Spec => ImplementsFifoLock
<1>1. Init => LineInv /\ Promised!Init
  BY LineStarts
<1>2. LineInv /\ QueueInv' /\ [Next]_vars => LineInv' /\ [Promised!Next]_(Promised!vars)
  BY LineStep DEF LineInv
<1> QED BY <1>1, <1>2, QueueInvariant, PTL DEF Spec, ImplementsFifoLock, Promised!Spec

-----------------------------------------------------------------------------
(***************************************************************************)
(* SessionWait.  What a sleeping client waits for has not happened yet,    *)
(* because every change of a row in use is published at its actor, with a  *)
(* number above every number that anybody was given before.                *)
(***************************************************************************)
Queues == [waiting : Nat, running : BOOLEAN, ended : Nat]
WaitCalls == [kind : {"none", "session", "team", "collect"}, until : Conditions, cursor : Nat]
Answers == [session : Identities, view : Snapshots]

WaitTyped ==
  /\ rowOf \in [Identities -> Views] /\ lastEvent \in [Identities -> Nat] /\ sequence \in Nat
  /\ current \in [Roles -> Identities]
  /\ actor \in [Identities -> Snapshots \cup {NoActor}]
  /\ queue \in [Identities -> Queues]
  /\ call \in [Clients -> WaitCalls] /\ on \in [Clients -> SUBSET Identities]
  /\ wake \in [Clients -> {"none", "changed", "expired"}]
  /\ seen \in [Clients -> Answers \cup {NoActor}]

\* A session belongs to one role.
OneRoleEach == \A r, q \in Roles : current[r] = current[q] => r = q

\* An actor shows the rows, and no number is ahead of the event table.
Shows(s) ==
  /\ lastEvent[s] <= sequence
  /\ actor[s] # NoActor =>
       /\ actor[s].generation = rowOf[s].generation /\ actor[s].state = rowOf[s].state
       /\ actor[s].revision <= sequence

TeamSleeps(w) == call[w].kind = "team" /\ wake[w] = "none"
TeamIsRight(w) ==
  TeamSleeps(w) =>
    /\ ~ConditionMet(call[w].until)
    /\ on[w] = InUse
    /\ \A s \in InUse : actor[s] # NoActor /\ actor[s].revision <= call[w].cursor

SessionIsRight(w) ==
  call[w].kind = "session" =>
    \A s \in on[w] : s \in InUse /\ actor[s] # NoActor /\ actor[s].revision <= call[w].cursor

CallIsRight(w) == call[w].cursor <= sequence /\ TeamIsRight(w) /\ SessionIsRight(w)

\* What an answer shows is so, or a newer event tells.
IsTold(s, v) ==
  \/ rowOf[s].generation = v.generation /\ rowOf[s].state = v.state
  \/ lastEvent[s] > v.revision /\ (actor[s] # NoActor => actor[s].revision > v.revision)

\* A session that was never used is not one that somebody was told about.
Used(s) == rowOf[s].generation > 0 \/ rowOf[s].state # "open"

AnswerIsRight(w) ==
  seen[w] # NoActor =>
    /\ seen[w].view.revision <= sequence
    /\ seen[w].session \in InUse => IsTold(seen[w].session, seen[w].view)
    /\ seen[w].session \notin InUse => Used(seen[w].session)

WaitInv ==
  /\ WaitTyped /\ OneRoleEach
  /\ \A s \in Identities : Shows(s)
  /\ \A w \in Clients : CallIsRight(w) /\ AnswerIsRight(w)

LEMMA InUseAreSessions == ASSUME WaitTyped PROVE InUse \subseteq Identities
BY DEF WaitTyped, InUse

LEMMA ActorMade ==
  ASSUME WaitInv, NEW s \in Identities
  PROVE  /\ ActorFor(s) \in Snapshots /\ ActorFor(s) # NoActor
         /\ ActorFor(s).generation = rowOf[s].generation /\ ActorFor(s).state = rowOf[s].state
         /\ ActorFor(s).revision <= sequence
         /\ actor[s] # NoActor => ActorFor(s) = actor[s]
         /\ actor[s] = NoActor => ActorFor(s).revision = lastEvent[s]
<1>1. CASE actor[s] # NoActor
  BY <1>1 DEF WaitInv, WaitTyped, Shows, ActorFor
<1>2. CASE actor[s] = NoActor
  <2>1. ActorFor(s) = [generation |-> rowOf[s].generation, state |-> rowOf[s].state, revision |-> lastEvent[s]]
    BY <1>2 DEF ActorFor
  <2>2. ActorFor(s) \in Snapshots
    BY <2>1 DEF WaitInv, WaitTyped, Views, Snapshots
  <2> QED BY <1>2, <2>1, <2>2, NoActorIsNone DEF WaitInv, Shows
<1> QED BY <1>1, <1>2

(* An actor is forgotten only when nobody listens to it.                   *)
LEMMA KeptOrAlone ==
  ASSUME NEW s, NEW a, NEW q, NEW o
  PROVE  Kept(s, a, q, o) = a \/ (Kept(s, a, q, o) = NoActor /\ \A w \in Clients : s \notin o[w])
BY DEF Kept

-----------------------------------------------------------------------------
(* Steps that change no row: actors are made and forgotten, events that    *)
(* nobody publishes are counted.                                           *)

QuietAt(s) ==
  \/ actor'[s] = actor[s]
  \/ actor'[s] = ActorFor(s)
  \/ actor'[s] = NoActor /\ \A w \in Clients : s \notin on'[w]

Quiet ==
  /\ rowOf' = rowOf /\ current' = current
  /\ sequence' \in Nat /\ sequence <= sequence'
  /\ lastEvent' \in [Identities -> Nat]
  /\ \A s \in Identities : lastEvent[s] <= lastEvent'[s] /\ lastEvent'[s] <= sequence'
  /\ actor' \in [Identities -> Snapshots \cup {NoActor}]
  /\ \A s \in Identities : QuietAt(s)

LEMMA QuietShows ==
  ASSUME WaitInv, Quiet, NEW s \in Identities
  PROVE  Shows(s)'
<1>1. CASE actor'[s] = actor[s]
  BY <1>1 DEF WaitInv, WaitTyped, Shows, Quiet, Snapshots
<1>2. CASE actor'[s] = ActorFor(s)
  BY <1>2, ActorMade DEF WaitInv, WaitTyped, Shows, Quiet, Snapshots
<1>3. CASE actor'[s] = NoActor
  BY <1>3 DEF Quiet, Shows
<1> QED BY <1>1, <1>2, <1>3 DEF Quiet, QuietAt

(* Whoever listens to an actor keeps it.                                   *)
LEMMA QuietListened ==
  ASSUME WaitInv, Quiet, NEW w \in Clients, NEW s \in Identities, s \in on'[w], actor[s] # NoActor
  PROVE  actor'[s] = actor[s]
BY ActorMade DEF Quiet, QuietAt

LEMMA QuietCall ==
  ASSUME WaitInv, Quiet, NEW w \in Clients, call'[w] = call[w], on'[w] = on[w], wake'[w] = wake[w]
  PROVE  CallIsRight(w)'
<1>1. InUse' = InUse /\ InUse \subseteq Identities /\ on[w] \subseteq Identities
  BY InUseAreSessions DEF Quiet, InUse, WaitInv, WaitTyped
<1>2. call[w].cursor \in Nat /\ call'[w].cursor <= sequence'
  BY DEF WaitInv, WaitTyped, WaitCalls, CallIsRight, Quiet
<1>3. TeamIsRight(w)'
  <2> SUFFICES ASSUME TeamSleeps(w)'
               PROVE  /\ ~ConditionMet(call[w].until)'
                      /\ on'[w] = InUse'
                      /\ \A s \in InUse' : actor'[s] # NoActor /\ actor'[s].revision <= call'[w].cursor
    BY DEF TeamIsRight
  <2>1. TeamSleeps(w) /\ TeamIsRight(w)
    BY DEF TeamSleeps, WaitInv, CallIsRight
  <2>2. ~ConditionMet(call[w].until)'
    BY <1>1, <2>1 DEF TeamIsRight, ConditionMet, Quiet, Terminal
  <2>3. ASSUME NEW s \in InUse PROVE actor'[s] # NoActor /\ actor'[s].revision <= call'[w].cursor
    BY <1>1, <2>1, <2>3, QuietListened DEF TeamIsRight
  <2> QED BY <1>1, <2>1, <2>2, <2>3 DEF TeamIsRight
<1>4. SessionIsRight(w)'
  <2> SUFFICES ASSUME call[w].kind = "session", NEW s \in on[w]
               PROVE  s \in InUse' /\ actor'[s] # NoActor /\ actor'[s].revision <= call'[w].cursor
    BY DEF SessionIsRight
  <2>1. s \in InUse /\ actor[s] # NoActor /\ actor[s].revision <= call[w].cursor
    BY DEF WaitInv, CallIsRight, SessionIsRight
  <2> QED BY <1>1, <2>1, QuietListened
<1> QED BY <1>2, <1>3, <1>4 DEF CallIsRight

LEMMA QuietAnswer ==
  ASSUME WaitInv, Quiet, NEW w \in Clients, seen'[w] = seen[w]
  PROVE  AnswerIsRight(w)'
<1> SUFFICES ASSUME seen[w] # NoActor
             PROVE  /\ seen[w].view.revision <= sequence'
                    /\ seen[w].session \in InUse' => IsTold(seen[w].session, seen[w].view)'
                    /\ seen[w].session \notin InUse' => Used(seen[w].session)'
  BY DEF AnswerIsRight
<1> DEFINE s == seen[w].session
           v == seen[w].view
<1>1. s \in Identities /\ v \in Snapshots /\ v.revision \in Nat /\ v.revision <= sequence
  BY DEF WaitInv, WaitTyped, Answers, Snapshots, AnswerIsRight
<1>2. InUse' = InUse
  BY DEF Quiet, InUse
<1>3. v.revision <= sequence'
  BY <1>1 DEF Quiet, WaitInv, WaitTyped
<1>4. ASSUME s \in InUse PROVE IsTold(s, v)'
  <2>1. IsTold(s, v)
    BY <1>4 DEF WaitInv, AnswerIsRight
  <2>2. CASE rowOf[s].generation = v.generation /\ rowOf[s].state = v.state
    BY <2>2 DEF IsTold, Quiet
  <2>3. CASE lastEvent[s] > v.revision /\ (actor[s] # NoActor => actor[s].revision > v.revision)
    <3>1. lastEvent'[s] > v.revision
      BY <1>1, <2>3 DEF Quiet, WaitInv, WaitTyped
    <3>2. actor'[s] # NoActor => actor'[s].revision > v.revision
      BY <1>1, <2>3, ActorMade DEF Quiet, QuietAt
    <3> QED BY <3>1, <3>2 DEF IsTold
  <2> QED BY <2>1, <2>2, <2>3 DEF IsTold
<1>5. ASSUME s \notin InUse PROVE Used(s)'
  BY <1>5 DEF WaitInv, AnswerIsRight, Used, Quiet
<1> QED BY <1>2, <1>3, <1>4, <1>5

(* An answer that shows the actor of a session in use is right.            *)
LEMMA QuietAnswers ==
  ASSUME WaitInv, Quiet, NEW w \in Clients, NEW s \in InUse,
         seen'[w] = [session |-> s, view |-> ActorFor(s)]
  PROVE  AnswerIsRight(w)'
<1>1. s \in Identities /\ InUse' = InUse
  BY InUseAreSessions DEF WaitInv, Quiet, InUse
<1>2. seen'[w].session = s /\ seen'[w].view = ActorFor(s)
  OBVIOUS
<1>3. ActorFor(s).revision \in Nat /\ ActorFor(s).revision <= sequence'
  BY <1>1, ActorMade DEF Quiet, WaitInv, WaitTyped, Snapshots
<1>4. rowOf'[s].generation = ActorFor(s).generation /\ rowOf'[s].state = ActorFor(s).state
  BY <1>1, ActorMade DEF Quiet
<1> QED BY <1>1, <1>2, <1>3, <1>4 DEF AnswerIsRight, IsTold

QuietClient(w) ==
  /\ CallIsRight(w)' \/ (call'[w] = call[w] /\ on'[w] = on[w] /\ wake'[w] = wake[w])
  /\ \/ seen'[w] = seen[w]
     \/ \E s \in InUse : seen'[w] = [session |-> s, view |-> ActorFor(s)]

LEMMA QuietMoves ==
  ASSUME WaitInv, Quiet, queue' \in [Identities -> Queues],
         call' \in [Clients -> WaitCalls], on' \in [Clients -> SUBSET Identities],
         wake' \in [Clients -> {"none", "changed", "expired"}],
         \A w \in Clients : QuietClient(w), seen' \in [Clients -> Answers \cup {NoActor}]
  PROVE  WaitInv'
<1>1. WaitTyped'
  BY DEF WaitInv, WaitTyped, Quiet
<1>2. OneRoleEach'
  BY DEF WaitInv, OneRoleEach, Quiet
<1>3. \A w \in Clients : CallIsRight(w)'
  BY QuietCall DEF QuietClient
<1>4. \A w \in Clients : AnswerIsRight(w)'
  BY QuietAnswer, QuietAnswers DEF QuietClient
<1> QED BY <1>1, <1>2, <1>3, <1>4, QuietShows DEF WaitInv

-----------------------------------------------------------------------------
(* Steps that change the row of a session.  A newer number than anybody    *)
(* was given tells of it, at its actor and in the event table; a session   *)
(* that leaves its role in the step is not open any more.                  *)

Changed(s, v) ==
  /\ rowOf' = [rowOf EXCEPT ![s] = v]
  /\ sequence' = sequence + 1
  /\ lastEvent' \in [Identities -> Nat]
  /\ \A t \in Identities : lastEvent[t] <= lastEvent'[t] /\ lastEvent'[t] <= sequence'
  /\ Used(s) => v.generation > 0 \/ v.state # "open"
  /\ \/ current' = current /\ lastEvent'[s] = sequence'
     \/ /\ s \in InUse /\ v.state # "open" /\ InUse \ {s} \subseteq InUse' /\ s \notin InUse'
        /\ \A t \in InUse' \ InUse : rowOf[t] = [generation |-> 0, state |-> "open"]
  /\ current' \in [Roles -> Identities] /\ OneRoleEach'

\* The actor hears of it: who listened to it is woken, and nobody else.
Heard(s, v) ==
  /\ actor' \in [Identities -> Snapshots \cup {NoActor}]
  /\ \A t \in Identities \ {s} : actor'[t] = actor[t]
  /\ actor'[s] # NoActor =>
       actor'[s].generation = v.generation /\ actor'[s].state = v.state /\ actor'[s].revision = sequence + 1
  /\ call' \in [Clients -> WaitCalls] /\ on' \in [Clients -> SUBSET Identities]
  /\ wake' \in [Clients -> {"none", "changed", "expired"}]
  /\ seen' \in [Clients -> Answers \cup {NoActor}]
  /\ \A w \in Clients :
       /\ on'[w] \subseteq on[w]
       /\ \/ call'[w] = call[w] /\ seen'[w] = seen[w]
          \/ /\ call[w].kind = "session" /\ s \in on[w] /\ call'[w] = NoCall
             /\ seen'[w] = [session |-> s, view |-> [generation |-> v.generation, state |-> v.state, revision |-> sequence + 1]]
       /\ call'[w].kind \in {"session", "team"} =>
            /\ s \notin on[w] => wake'[w] = wake[w] /\ on'[w] = on[w]
            /\ s \in on[w] => call[w].kind = "team" /\ wake'[w] # "none"

LEMMA PublishIsHeard ==
  ASSUME WaitInv, NEW s \in Identities, NEW v \in Views, NEW q, Publish(s, v, sequence + 1, q)
  PROVE  Heard(s, v)
<1> DEFINE n == sequence + 1
           W == Woken(s, v, n)
           a == [generation |-> v.generation, state |-> v.state,
                 revision |-> IF n > ActorFor(s).revision THEN n ELSE ActorFor(s).revision]
           b == [generation |-> v.generation, state |-> v.state, revision |-> n]
           Ends == {w \in W : call[w].kind = "session"}
<1>1. a = b /\ b \in Snapshots
  <2>1. ActorFor(s).revision \in Nat /\ ActorFor(s).revision <= sequence /\ sequence \in Nat
    BY ActorMade DEF Snapshots, WaitInv, WaitTyped
  <2>2. ~(ActorFor(s).revision > n) /\ n \in Nat /\ n > ActorFor(s).revision
    BY <2>1
  <2> QED BY <2>2 DEF Views, Snapshots
<1>2. Resolve(W, s, b, "changed") /\ actor' = [actor EXCEPT ![s] = Kept(s, b, q, on')]
  BY <1>1 DEF Publish
<1>3. /\ on' = [w \in Clients |-> IF w \in W THEN on[w] \ {s} ELSE on[w]]
      /\ call' = [w \in Clients |-> IF w \in Ends THEN NoCall ELSE call[w]]
      /\ seen' = [w \in Clients |-> IF w \in Ends THEN [session |-> s, view |-> b] ELSE seen[w]]
      /\ wake' = [w \in Clients |-> IF w \in W \ Ends /\ wake[w] = "none" THEN "changed" ELSE wake[w]]
  BY <1>2 DEF Resolve
<1>4. \A w \in Clients : w \in W <=> s \in on[w] /\ call[w].kind # "collect"
  <2>1. \A w \in Clients : n > call[w].cursor
    <3> TAKE w \in Clients
    <3> QED BY DEF WaitInv, WaitTyped, WaitCalls, CallIsRight
  <2> QED BY <2>1 DEF Woken
<1>5. actor' \in [Identities -> Snapshots \cup {NoActor}] /\ (\A t \in Identities \ {s} : actor'[t] = actor[t])
      /\ actor'[s] \in {b, NoActor}
  BY <1>1, <1>2, KeptOrAlone DEF WaitInv, WaitTyped
<1>6. NoCall \in WaitCalls /\ [session |-> s, view |-> b] \in Answers
  BY <1>1 DEF NoCall, WaitCalls, Conditions, Answers
<1> HIDE DEF W
<1>7. call' \in [Clients -> WaitCalls] /\ on' \in [Clients -> SUBSET Identities]
  BY <1>3, <1>6 DEF WaitInv, WaitTyped
<1>8. wake' \in [Clients -> {"none", "changed", "expired"}] /\ seen' \in [Clients -> Answers \cup {NoActor}]
  BY <1>3, <1>6 DEF WaitInv, WaitTyped
<1>9. ASSUME NEW w \in Clients
      PROVE  /\ on'[w] \subseteq on[w]
             /\ \/ call'[w] = call[w] /\ seen'[w] = seen[w]
                \/ call[w].kind = "session" /\ s \in on[w] /\ call'[w] = NoCall /\ seen'[w] = [session |-> s, view |-> b]
  BY <1>3, <1>4
<1>10. ASSUME NEW w \in Clients, call'[w].kind \in {"session", "team"}
       PROVE  /\ s \notin on[w] => wake'[w] = wake[w] /\ on'[w] = on[w]
              /\ s \in on[w] => call[w].kind = "team" /\ wake'[w] # "none"
  <2>1. CASE s \notin on[w]
    BY <1>3, <1>4, <2>1
  <2>2. CASE s \in on[w]
    <3>1. w \notin Ends /\ call'[w] = call[w]
      BY <1>3, <1>10 DEF NoCall
    <3>2. call[w].kind = "team" /\ w \in W
      BY <1>4, <1>10, <2>2, <3>1
    <3> QED BY <1>3, <2>2, <3>1, <3>2
  <2> QED BY <2>1, <2>2
<1> QED BY <1>5, <1>7, <1>8, <1>9, <1>10 DEF Heard

(* Nobody sleeps at a session that has no actor.                           *)
LEMMA NobodyHears ==
  ASSUME WaitInv, NEW s \in Identities, NEW v \in Views, actor[s] = NoActor, UNCHANGED <<actor, call, on, wake, seen>>
  PROVE  Heard(s, v)
<1>1. \A w \in Clients : call[w].kind = "session" => s \notin on[w]
  BY DEF WaitInv, CallIsRight, SessionIsRight
<1>2. \A w \in Clients : TeamSleeps(w) => s \notin on[w]
  BY DEF WaitInv, CallIsRight, TeamIsRight
<1>3. \A w \in Clients : call[w].kind \in {"session", "team"} /\ s \in on[w] => call[w].kind = "team" /\ wake[w] # "none"
  BY <1>1, <1>2 DEF TeamSleeps
<1> QED BY <1>3 DEF Heard, WaitInv, WaitTyped

LEMMA ChangedShows ==
  ASSUME WaitInv, NEW s \in Identities, NEW v \in Views, Changed(s, v), Heard(s, v), NEW t \in Identities
  PROVE  Shows(t)'
<1>1. sequence \in Nat /\ rowOf \in [Identities -> Views]
  BY DEF WaitInv, WaitTyped
<1>2. CASE t = s
  BY <1>1, <1>2 DEF Changed, Heard, Shows
<1>3. CASE t # s
  BY <1>1, <1>3 DEF Changed, Heard, Shows, WaitInv, WaitTyped, Snapshots
<1> QED BY <1>2, <1>3

LEMMA ChangedCall ==
  ASSUME WaitInv, NEW s \in Identities, NEW v \in Views, Changed(s, v), Heard(s, v), NEW w \in Clients
  PROVE  CallIsRight(w)'
<1>0. current' = current => InUse' = InUse
  BY DEF InUse
<1>1. InUse \subseteq Identities /\ on[w] \subseteq Identities /\ call[w] \in WaitCalls /\ sequence \in Nat
  BY InUseAreSessions DEF WaitInv, WaitTyped
<1>2. call'[w].cursor <= sequence'
  <2>1. call[w].cursor <= sequence /\ call[w].cursor \in Nat
    BY <1>1 DEF WaitInv, CallIsRight, WaitCalls
  <2>2. CASE call'[w] = call[w]
    BY <1>1, <2>1, <2>2 DEF Changed
  <2>3. CASE call'[w] = NoCall
    BY <1>1, <2>3 DEF Changed, NoCall
  <2> QED BY <2>2, <2>3 DEF Heard
<1>3. TeamIsRight(w)'
  <2> SUFFICES ASSUME TeamSleeps(w)'
               PROVE  /\ ~ConditionMet(call[w].until)'
                      /\ on'[w] = InUse'
                      /\ \A t \in InUse' : actor'[t] # NoActor /\ actor'[t].revision <= call'[w].cursor
    BY DEF TeamIsRight
  <2>1. call'[w] = call[w] /\ s \notin on[w] /\ wake'[w] = wake[w] /\ on'[w] = on[w]
    BY DEF Heard, TeamSleeps, NoCall
  <2>2. TeamSleeps(w) /\ TeamIsRight(w)
    BY <2>1 DEF TeamSleeps, WaitInv, CallIsRight
  <2>3. s \notin InUse /\ on[w] = InUse
    BY <2>1, <2>2 DEF TeamIsRight
  <2>4. current' = current /\ InUse' = InUse
    BY <2>3 DEF Changed, InUse
  <2>5. \A t \in InUse : rowOf'[t] = rowOf[t] /\ actor'[t] = actor[t]
    BY <1>1, <2>3 DEF Changed, Heard, WaitInv, WaitTyped
  <2>6. ~ConditionMet(call[w].until)'
    <3>1. current[Primary] \in InUse
      BY PrimaryIsARole DEF InUse
    <3> QED BY <2>1, <2>2, <2>4, <2>5, <3>1 DEF TeamIsRight, ConditionMet, Terminal
  <2> QED BY <2>1, <2>2, <2>3, <2>4, <2>5, <2>6 DEF TeamIsRight
<1>4. SessionIsRight(w)'
  <2> SUFFICES ASSUME call'[w].kind = "session", NEW t \in on'[w]
               PROVE  t \in InUse' /\ actor'[t] # NoActor /\ actor'[t].revision <= call'[w].cursor
    BY DEF SessionIsRight
  <2>1. call'[w] = call[w] /\ s \notin on[w] /\ t \in on[w]
    BY DEF Heard, NoCall
  <2>2. t \in InUse /\ actor[t] # NoActor /\ actor[t].revision <= call[w].cursor
    BY <2>1 DEF WaitInv, CallIsRight, SessionIsRight
  <2>3. t # s /\ actor'[t] = actor[t] /\ t \in InUse'
    BY <1>0, <1>1, <2>1, <2>2 DEF Changed, Heard
  <2> QED BY <2>1, <2>2, <2>3
<1> QED BY <1>2, <1>3, <1>4 DEF CallIsRight

LEMMA ChangedAnswer ==
  ASSUME WaitInv, NEW s \in Identities, NEW v \in Views, Changed(s, v), Heard(s, v), NEW w \in Clients
  PROVE  AnswerIsRight(w)'
<1>0. sequence \in Nat /\ InUse \subseteq Identities /\ rowOf'[s] = v /\ v.generation \in Nat
      /\ (current' = current => InUse' = InUse)
      /\ \A t \in Identities \ {s} : rowOf'[t] = rowOf[t] /\ actor'[t] = actor[t]
  <2>1. InUse \subseteq Identities /\ (current' = current => InUse' = InUse)
    BY InUseAreSessions DEF WaitInv, InUse
  <2> QED BY <2>1 DEF WaitInv, WaitTyped, Changed, Heard, Views
<1>1. CASE seen'[w] = seen[w]
  <2> SUFFICES ASSUME seen[w] # NoActor, NEW t, NEW a, t = seen[w].session, a = seen[w].view
               PROVE  /\ a.revision <= sequence'
                      /\ t \in InUse' => IsTold(t, a)'
                      /\ t \notin InUse' => Used(t)'
    BY <1>1 DEF AnswerIsRight
  <2>1. t \in Identities /\ a.revision \in Nat /\ a.revision <= sequence
    BY DEF WaitInv, WaitTyped, Answers, Snapshots, AnswerIsRight
  <2>2. /\ t \in InUse => IsTold(t, a)
        /\ t \notin InUse => Used(t)
    BY DEF WaitInv, AnswerIsRight
  <2>3. a.revision <= sequence'
    BY <1>0, <2>1 DEF Changed
  <2>4. ASSUME t \in InUse', t # s PROVE IsTold(t, a)'
    <3>1. rowOf'[t] = rowOf[t] /\ actor'[t] = actor[t]
      BY <1>0, <2>1, <2>4
    <3>2. t \in InUse
      <4> SUFFICES ASSUME t \in InUse' \ InUse PROVE FALSE
        BY <2>4
      <4>1. rowOf[t] = [generation |-> 0, state |-> "open"]
        BY <1>0 DEF Changed
      <4>2. Used(t)
        BY <2>2
      <4> QED BY <4>1, <4>2 DEF Used
    <3>3. IsTold(t, a)
      BY <2>2, <3>2
    <3>4. lastEvent[t] > a.revision => lastEvent'[t] > a.revision
      BY <2>1 DEF Changed, WaitInv, WaitTyped
    <3> QED BY <3>1, <3>3, <3>4 DEF IsTold
  <2>5. ASSUME t \in InUse', t = s PROVE IsTold(t, a)'
    <3>1. lastEvent'[s] = sequence + 1
      BY <2>5 DEF Changed
    <3>2. lastEvent'[s] > a.revision /\ (actor'[s] # NoActor => actor'[s].revision > a.revision)
      BY <1>0, <2>1, <3>1 DEF Heard
    <3> QED BY <2>5, <3>2 DEF IsTold
  <2>6. ASSUME t \notin InUse', t # s PROVE Used(t)'
    <3>1. t \notin InUse
      BY <1>0, <2>6 DEF Changed
    <3> QED BY <1>0, <2>1, <2>2, <2>6, <3>1 DEF Used
  <2>7. ASSUME t \notin InUse', t = s PROVE Used(t)'
    <3>1. CASE t \in InUse
      <4>1. v.state # "open"
        BY <1>0, <2>7, <3>1 DEF Changed
      <4> QED BY <1>0, <2>7, <4>1 DEF Used
    <3>2. CASE t \notin InUse
      <4>1. v.generation > 0 \/ v.state # "open"
        BY <2>2, <2>7, <3>2 DEF Changed
      <4> QED BY <1>0, <2>7, <4>1 DEF Used
    <3> QED BY <3>1, <3>2
  <2> QED BY <2>3, <2>4, <2>5, <2>6, <2>7
<1>2. CASE /\ call[w].kind = "session" /\ s \in on[w]
           /\ seen'[w] = [session |-> s, view |-> [generation |-> v.generation, state |-> v.state, revision |-> sequence + 1]]
  <2>1. s \in InUse
    BY <1>2 DEF WaitInv, CallIsRight, SessionIsRight
  <2>2. seen'[w].session = s /\ seen'[w].view.revision = sequence'
        /\ seen'[w].view.generation = v.generation /\ seen'[w].view.state = v.state
    BY <1>2 DEF Changed
  <2>3. sequence' <= sequence'
    BY <1>0 DEF Changed
  <2>4. s \notin InUse' => Used(s)'
    BY <1>0, <2>1 DEF Changed, Used
  <2> QED BY <1>0, <2>2, <2>3, <2>4 DEF AnswerIsRight, IsTold
<1> QED BY <1>1, <1>2 DEF Heard

LEMMA ChangeMoves ==
  ASSUME WaitInv, NEW s \in Identities, NEW v \in Views, Changed(s, v), Heard(s, v),
         queue' \in [Identities -> Queues]
  PROVE  WaitInv'
<1>1. WaitTyped'
  <2>1. rowOf' \in [Identities -> Views] /\ sequence' \in Nat
    BY DEF WaitInv, WaitTyped, Changed
  <2>2. lastEvent' \in [Identities -> Nat] /\ current' \in [Roles -> Identities]
    BY DEF Changed
  <2> QED BY <2>1, <2>2 DEF WaitTyped, Heard
<1> QED BY <1>1, ChangedShows, ChangedCall, ChangedAnswer DEF WaitInv, Changed

-----------------------------------------------------------------------------
(* The steps.                                                              *)

LEMMA WaitStarts == WaitInit => WaitInv
<1> SUFFICES ASSUME WaitInit PROVE WaitInv
  OBVIOUS
<1>1. WaitTyped
  BY DEF WaitInit, WaitTyped, Views, GenerationStates, Queues, NoOperations, WaitCalls, NoCall, Conditions
<1>2. OneRoleEach
  BY DEF WaitInit, OneRoleEach
<1>3. \A s \in Identities : Shows(s)
  BY DEF WaitInit, Shows
<1>4. \A w \in Clients : CallIsRight(w) /\ AnswerIsRight(w)
  BY DEF WaitInit, NoCall, CallIsRight, TeamIsRight, TeamSleeps, SessionIsRight, AnswerIsRight
<1> QED BY <1>1, <1>2, <1>3, <1>4 DEF WaitInv

LEMMA CommitMoves ==
  ASSUME WaitInv, NEW s \in Identities, NEW v \in Views, Commit(s, v), Used(s) => v.generation > 0 \/ v.state # "open"
  PROVE  WaitInv'
<1>1. Heard(s, v)
  BY PublishIsHeard DEF Commit
<1>2. queue' \in [Identities -> Queues]
  BY DEF Commit, WaitInv, WaitTyped
<1>3. Changed(s, v)
  <2>1. current' \in [Roles -> Identities] /\ OneRoleEach'
    BY DEF Commit, WaitInv, WaitTyped, OneRoleEach
  <2>2. /\ lastEvent' \in [Identities -> Nat] /\ sequence' = sequence + 1 /\ lastEvent'[s] = sequence'
        /\ \A t \in Identities : lastEvent[t] <= lastEvent'[t] /\ lastEvent'[t] <= sequence'
    BY DEF Commit, WaitInv, WaitTyped, Shows
  <2> QED BY <2>1, <2>2 DEF Changed, Commit
<1> QED BY <1>1, <1>2, <1>3, ChangeMoves

LEMMA StartMoves == ASSUME WaitInv, NEW s \in Identities, StartGeneration(s) PROVE WaitInv'
<1> DEFINE v == [generation |-> rowOf[s].generation + 1, state |-> "open"]
<1>1. v \in Views /\ v.generation > 0
  BY DEF WaitInv, WaitTyped, Views, GenerationStates
<1>2. Commit(s, v)
  BY DEF StartGeneration
<1> HIDE DEF v
<1> QED BY <1>1, <1>2, CommitMoves

LEMMA UpdateMoves == ASSUME WaitInv, NEW s \in Identities, UpdateGeneration(s) PROVE WaitInv'
<1>1. rowOf[s] \in Views /\ rowOf[s].generation > 0
  BY DEF WaitInv, WaitTyped, UpdateGeneration
<1>2. PICK state \in GenerationStates : Commit(s, [rowOf[s] EXCEPT !.state = state])
  BY <1>1 DEF UpdateGeneration, Views, GenerationStates
<1> DEFINE v == [rowOf[s] EXCEPT !.state = state]
<1>3. v \in Views /\ v.generation > 0
  BY <1>1 DEF Views
<1>4. Commit(s, v)
  BY <1>2
<1> HIDE DEF v
<1> QED BY <1>3, <1>4, CommitMoves

LEMMA UnsubmittedView ==
  ASSUME WaitInv, NEW s \in Identities
  PROVE  /\ Unsubmitted(s) \in Views /\ Unsubmitted(s).state # "open"
         /\ Unsubmitted(s).generation = rowOf[s].generation
<1>1. rowOf[s] \in Views
  BY DEF WaitInv, WaitTyped
<1> QED BY <1>1 DEF Unsubmitted, Views, GenerationStates

LEMMA RefreshIsHeard ==
  ASSUME WaitInv, NEW s \in Identities, NEW v \in Views, RefreshSession(s, v), sequence' = sequence + 1
  PROVE  Heard(s, v)
<1>1. CASE actor[s] = NoActor
  BY <1>1, NobodyHears DEF RefreshSession
<1>2. CASE actor[s] # NoActor
  BY <1>2, PublishIsHeard DEF RefreshSession
<1> QED BY <1>1, <1>2

LEMMA RetireRoleMoves == ASSUME WaitInv, NEW r \in Roles, RetireRole(r) PROVE WaitInv'
<1> DEFINE s == current[r]
           v == Unsubmitted(s)
<1>1. s \in Identities /\ queue' \in [Identities -> Queues]
  BY DEF WaitInv, WaitTyped, RetireRole
<1>2. v \in Views /\ v.state # "open"
  BY <1>1, UnsubmittedView
<1>3. Heard(s, v)
  BY <1>1, <1>2, RefreshIsHeard DEF RetireRole
<1>4. Changed(s, v)
  <2>1. current' \in [Roles -> Identities] /\ OneRoleEach'
    BY DEF RetireRole, WaitInv, WaitTyped, OneRoleEach
  <2>2. /\ lastEvent' \in [Identities -> Nat] /\ sequence' = sequence + 1 /\ lastEvent'[s] = sequence'
        /\ \A t \in Identities : lastEvent[t] <= lastEvent'[t] /\ lastEvent'[t] <= sequence'
    BY <1>1 DEF RetireRole, WaitInv, WaitTyped, Shows
  <2> QED BY <1>2, <2>1, <2>2 DEF Changed, RetireRole
<1> HIDE DEF s, v
<1> QED BY <1>1, <1>2, <1>3, <1>4, ChangeMoves

LEMMA CreateSessionMoves ==
  ASSUME WaitInv, NEW r \in Roles, NEW t \in Identities, CreateSession(r, t)
  PROVE  WaitInv'
<1> DEFINE s == current[r]
           v == Unsubmitted(s)
<1>1. s \in Identities /\ s \in InUse /\ t \notin InUse /\ queue' \in [Identities -> Queues] /\ current \in [Roles -> Identities]
  BY DEF WaitInv, WaitTyped, CreateSession, InUse
<1>2. v \in Views /\ v.state # "open"
  BY <1>1, UnsubmittedView
<1>3. Heard(s, v)
  BY <1>1, <1>2, RefreshIsHeard DEF CreateSession
<1>4. current' = [current EXCEPT ![r] = t]
  BY DEF CreateSession
<1>5. current' \in [Roles -> Identities] /\ OneRoleEach'
  BY <1>1, <1>4 DEF WaitInv, OneRoleEach, InUse
<1>6. /\ InUse \ {s} \subseteq InUse' /\ s \notin InUse' /\ InUse' \ InUse \subseteq {t}
  BY <1>1, <1>4 DEF WaitInv, OneRoleEach, InUse
<1>7. Changed(s, v)
  <2>1. /\ lastEvent' \in [Identities -> Nat] /\ sequence' = sequence + 1
        /\ \A q \in Identities : lastEvent[q] <= lastEvent'[q] /\ lastEvent'[q] <= sequence'
    BY DEF CreateSession, WaitInv, WaitTyped, Shows
  <2>2. rowOf' = [rowOf EXCEPT ![s] = v] /\ rowOf[t] = [generation |-> 0, state |-> "open"]
    BY DEF CreateSession
  <2> QED BY <1>1, <1>2, <1>5, <1>6, <2>1, <2>2 DEF Changed
<1> HIDE DEF s, v
<1> QED BY <1>1, <1>2, <1>3, <1>7, ChangeMoves

-----------------------------------------------------------------------------
(* Quiet steps of an actor's queue.                                        *)

LEMMA ActorQuiet ==
  ASSUME WaitInv, NEW s \in Identities, NEW a \in {actor[s], ActorFor(s)}, NEW q, NEW b,
         b = a \/ b = Kept(s, a, q, on'), actor' = [actor EXCEPT ![s] = b]
  PROVE  actor' \in [Identities -> Snapshots \cup {NoActor}] /\ \A t \in Identities : QuietAt(t)
<1>1. actor \in [Identities -> Snapshots \cup {NoActor}] /\ ActorFor(s) \in Snapshots
  BY ActorMade DEF WaitInv, WaitTyped
<1>2. b = a \/ (b = NoActor /\ \A w \in Clients : s \notin on'[w])
  BY KeptOrAlone
<1>3. actor' \in [Identities -> Snapshots \cup {NoActor}]
  BY <1>1, <1>2
<1>4. ASSUME NEW t \in Identities PROVE QuietAt(t)
  BY <1>1, <1>2 DEF QuietAt
<1> QED BY <1>3, <1>4

LEMMA RowsQuiet ==
  ASSUME WaitInv, UNCHANGED <<rowOf, lastEvent, sequence, current>>,
         actor' \in [Identities -> Snapshots \cup {NoActor}], \A t \in Identities : QuietAt(t)
  PROVE  Quiet
<1>1. sequence \in Nat /\ lastEvent \in [Identities -> Nat]
  BY DEF WaitInv, WaitTyped
<1> QED BY <1>1 DEF Quiet, WaitInv, Shows

LEMMA QueueMoves ==
  ASSUME WaitInv, Quiet, UNCHANGED <<call, on, wake, seen>>, queue' \in [Identities -> Queues]
  PROVE  WaitInv'
<1>1. \A w \in Clients : QuietClient(w)
  BY DEF QuietClient
<1> QED BY <1>1, QuietMoves DEF WaitInv, WaitTyped

LEMMA EnqueueMoves == ASSUME WaitInv, NEW s \in Identities, Enqueue(s) PROVE WaitInv'
<1>1. queue' \in [Identities -> Queues]
  BY DEF Enqueue, WaitInv, WaitTyped, Queues
<1>2. actor' \in [Identities -> Snapshots \cup {NoActor}] /\ \A t \in Identities : QuietAt(t)
  BY ActorQuiet DEF Enqueue
<1>3. Quiet
  BY <1>2, RowsQuiet DEF Enqueue, durable
<1> QED BY <1>1, <1>3, QueueMoves DEF Enqueue

LEMMA SameActorsQuiet ==
  ASSUME WaitInv, UNCHANGED <<rowOf, lastEvent, sequence, current, actor>>
  PROVE  Quiet
<1>1. actor' \in [Identities -> Snapshots \cup {NoActor}] /\ \A t \in Identities : QuietAt(t)
  BY DEF WaitInv, WaitTyped, QuietAt
<1> QED BY <1>1, RowsQuiet

LEMMA BeginMoves == ASSUME WaitInv, NEW s \in Identities, Dequeue(s) PROVE WaitInv'
<1>1. queue' \in [Identities -> Queues]
  BY DEF Dequeue, WaitInv, WaitTyped, Queues
<1>2. Quiet
  BY SameActorsQuiet DEF Dequeue, durable
<1> QED BY <1>1, <1>2, QueueMoves DEF Dequeue

LEMMA EndMoves == ASSUME WaitInv, NEW s \in Identities, End(s) PROVE WaitInv'
<1>1. queue' \in [Identities -> Queues]
  BY DEF End, WaitInv, WaitTyped, Queues
<1>2. Quiet
  BY SameActorsQuiet DEF End, durable
<1> QED BY <1>1, <1>2, QueueMoves DEF End

LEMMA SettleMoves == ASSUME WaitInv, NEW s \in Identities, Settle(s) PROVE WaitInv'
<1>1. queue' \in [Identities -> Queues]
  BY DEF Settle, WaitInv, WaitTyped, Queues
<1>2. actor' = [actor EXCEPT ![s] = Kept(s, actor[s], queue'[s], on')]
  BY DEF Settle
<1>3. actor' \in [Identities -> Snapshots \cup {NoActor}] /\ \A t \in Identities : QuietAt(t)
  BY <1>2, ActorQuiet
<1>4. Quiet
  BY <1>3, RowsQuiet DEF Settle, durable
<1> QED BY <1>1, <1>4, QueueMoves DEF Settle

LEMMA NoteMoves == ASSUME WaitInv, NEW S \in SUBSET Identities, Note(S) PROVE WaitInv'
<1>1. Quiet
  <2>1. /\ lastEvent' \in [Identities -> Nat] /\ sequence' \in Nat /\ sequence <= sequence'
        /\ \A s \in Identities : lastEvent[s] <= lastEvent'[s] /\ lastEvent'[s] <= sequence'
    BY DEF Note, WaitInv, WaitTyped, Shows
  <2> QED BY <2>1 DEF Note, Quiet, QuietAt, WaitInv, WaitTyped
<1> QED BY <1>1, QueueMoves DEF Note, WaitInv, WaitTyped

-----------------------------------------------------------------------------
(* The steps of a client.                                                  *)

ClientStep(w, c, o, k, a) ==
  /\ call' = [call EXCEPT ![w] = c] /\ on' = [on EXCEPT ![w] = o]
  /\ wake' = [wake EXCEPT ![w] = k] /\ seen' = [seen EXCEPT ![w] = a]
  /\ queue' = queue
  /\ c \in WaitCalls /\ o \in SUBSET Identities /\ k \in {"none", "changed", "expired"}

LEMMA ClientMoves ==
  ASSUME WaitInv, NEW w \in Clients, Quiet, NEW c, NEW o, NEW k, NEW a, ClientStep(w, c, o, k, a),
         CallIsRight(w)' \/ (c = call[w] /\ o = on[w] /\ k = wake[w]),
         a = seen[w] \/ \E s \in InUse : a = [session |-> s, view |-> ActorFor(s)]
  PROVE  WaitInv'
<1>2. call \in [Clients -> WaitCalls] /\ on \in [Clients -> SUBSET Identities]
      /\ wake \in [Clients -> {"none", "changed", "expired"}] /\ seen \in [Clients -> Answers \cup {NoActor}]
  BY DEF WaitInv, WaitTyped
<1>3. a \in Answers \cup {NoActor}
  BY <1>2, InUseAreSessions, ActorMade DEF WaitInv, Answers
<1>4. call' \in [Clients -> WaitCalls] /\ on' \in [Clients -> SUBSET Identities]
      /\ wake' \in [Clients -> {"none", "changed", "expired"}] /\ seen' \in [Clients -> Answers \cup {NoActor}]
  BY <1>2, <1>3 DEF ClientStep
<1>5. QuietClient(w)
  BY <1>2 DEF QuietClient, ClientStep
<1>6. ASSUME NEW v \in Clients, v # w PROVE QuietClient(v)
  BY <1>2, <1>6 DEF QuietClient, ClientStep
<1>7. queue' \in [Identities -> Queues]
  BY DEF WaitInv, WaitTyped, ClientStep
<1>8. \A v \in Clients : QuietClient(v)
  BY <1>5, <1>6
<1> QED BY <1>4, <1>7, <1>8, QuietMoves

\* What a client leaves alone.
LEMMA ClientKeeps ==
  ASSUME WaitInv, NEW w \in Clients
  PROVE  /\ call = [call EXCEPT ![w] = call[w]] /\ on = [on EXCEPT ![w] = on[w]]
         /\ wake = [wake EXCEPT ![w] = wake[w]] /\ seen = [seen EXCEPT ![w] = seen[w]]
         /\ call[w] \in WaitCalls /\ on[w] \in SUBSET Identities /\ wake[w] \in {"none", "changed", "expired"}
         /\ NoCall \in WaitCalls
BY DEF WaitInv, WaitTyped, NoCall, WaitCalls, Conditions

LEMMA NobodyWaits ==
  ASSUME WaitInv, NEW w \in Clients, call'[w].kind \in {"none", "collect"}, call'[w].cursor <= sequence'
  PROVE  CallIsRight(w)'
BY DEF CallIsRight, TeamIsRight, TeamSleeps, SessionIsRight

LEMMA SessionWaitMoves ==
  ASSUME WaitInv, NEW w \in Clients, NEW s \in InUse, NEW cursor \in Nat, cursor <= sequence, SessionWait(w, s, cursor)
  PROVE  WaitInv'
<1> DEFINE a == ActorFor(s)
<1>0. s \in Identities /\ UNCHANGED <<rowOf, lastEvent, sequence, current, queue>>
  BY InUseAreSessions DEF WaitInv, SessionWait, durable
<1>1. CASE /\ seen' = [seen EXCEPT ![w] = [session |-> s, view |-> a]]
           /\ actor' = [actor EXCEPT ![s] = Kept(s, a, queue[s], on)]
           /\ UNCHANGED <<call, on, wake>>
  <2>1. actor' = [actor EXCEPT ![s] = Kept(s, a, queue[s], on')]
    BY <1>1
  <2>2. actor' \in [Identities -> Snapshots \cup {NoActor}] /\ \A t \in Identities : QuietAt(t)
    BY <1>0, <2>1, ActorQuiet
  <2>3. ClientStep(w, call[w], on[w], wake[w], [session |-> s, view |-> a])
    BY <1>0, <1>1, ClientKeeps DEF ClientStep
  <2> QED BY <1>0, <2>2, <2>3, RowsQuiet, ClientMoves
<1>2. CASE /\ ~(a.revision > cursor)
           /\ call' = [call EXCEPT ![w] = [kind |-> "session", until |-> "any_change", cursor |-> cursor]]
           /\ on' = [on EXCEPT ![w] = {s}]
           /\ actor' = [actor EXCEPT ![s] = a]
           /\ UNCHANGED <<wake, seen>>
  <2> DEFINE c == [kind |-> "session", until |-> "any_change", cursor |-> cursor]
  <2>1. actor' \in [Identities -> Snapshots \cup {NoActor}] /\ \A t \in Identities : QuietAt(t)
    BY <1>0, <1>2, ActorQuiet
  <2>2. c \in WaitCalls
    BY DEF WaitCalls, Conditions
  <2>3. call'[w] = c /\ on'[w] = {s} /\ actor'[s] = a /\ InUse' = InUse
    BY <1>0, <1>2 DEF WaitInv, WaitTyped, InUse
  <2>4. a # NoActor /\ a.revision <= cursor
    BY <1>0, <1>2, ActorMade DEF Snapshots
  <2>5. CallIsRight(w)'
    BY <1>0, <2>3, <2>4 DEF CallIsRight, TeamIsRight, TeamSleeps, SessionIsRight
  <2>6. ClientStep(w, c, {s}, wake[w], seen[w])
    BY <1>0, <1>2, <2>2, ClientKeeps DEF ClientStep
  <2> QED BY <1>0, <2>1, <2>5, <2>6, RowsQuiet, ClientMoves
<1> QED BY <1>1, <1>2 DEF SessionWait

LEMMA CallSessionWaitMoves ==
  ASSUME WaitInv, NEW w \in Clients, NEW s \in InUse, CallSessionWait(w, s)
  PROVE  WaitInv'
<1>0. s \in Identities
  BY InUseAreSessions DEF WaitInv
<1>1. CASE SessionWait(w, s, ActorFor(s).revision)
  <2>1. ActorFor(s).revision \in Nat /\ ActorFor(s).revision <= sequence
    BY <1>0, ActorMade DEF Snapshots
  <2> QED BY <1>1, <2>1, SessionWaitMoves
<1>2. CASE seen[w] # NoActor /\ SessionWait(w, s, seen[w].view.revision)
  <2>1. seen[w].view.revision \in Nat /\ seen[w].view.revision <= sequence
    BY <1>2 DEF WaitInv, WaitTyped, Answers, Snapshots, AnswerIsRight
  <2> QED BY <1>2, <2>1, SessionWaitMoves
<1> QED BY <1>1, <1>2 DEF CallSessionWait

LEMMA StaleMoves ==
  ASSUME WaitInv, NEW w \in Clients, NEW s \in InUse, StaleSessionWait(w, s)
  PROVE  WaitInv'
<1>1. s \in Identities /\ UNCHANGED <<rowOf, lastEvent, sequence, current, queue>>
  BY InUseAreSessions DEF WaitInv, StaleSessionWait, durable
<1>2. actor' \in [Identities -> Snapshots \cup {NoActor}] /\ \A t \in Identities : QuietAt(t)
  BY <1>1, ActorQuiet DEF StaleSessionWait
<1> QED BY <1>1, <1>2, RowsQuiet, QueueMoves DEF StaleSessionWait, WaitInv, WaitTyped

LEMMA RetainMoves ==
  ASSUME WaitInv, NEW w \in Clients, NEW s \in InUse, RetainCollector(w, s)
  PROVE  WaitInv'
<1>1. s \in Identities /\ UNCHANGED <<rowOf, lastEvent, sequence, current, queue>>
  BY InUseAreSessions DEF WaitInv, RetainCollector, durable
<1>2. actor' \in [Identities -> Snapshots \cup {NoActor}] /\ \A t \in Identities : QuietAt(t)
  BY <1>1, ActorQuiet DEF RetainCollector
<1> DEFINE c == [call[w] EXCEPT !.kind = "collect"]
<1>3. c \in WaitCalls /\ c.kind = "collect" /\ c.cursor = call[w].cursor /\ call' = [call EXCEPT ![w] = c]
  BY ClientKeeps DEF RetainCollector, WaitCalls
<1> HIDE DEF c
<1>4. call'[w] = c
  BY <1>3 DEF WaitInv, WaitTyped
<1>5. CallIsRight(w)'
  BY <1>1, <1>3, <1>4, NobodyWaits DEF WaitInv, CallIsRight
<1>6. ClientStep(w, c, {s}, wake[w], seen[w])
  BY <1>1, <1>3, ClientKeeps DEF RetainCollector, ClientStep
<1> QED BY <1>1, <1>2, <1>5, <1>6, RowsQuiet, ClientMoves

LEMMA ReleaseMoves ==
  ASSUME WaitInv, NEW w \in Clients, NEW s \in Identities, ReleaseCollector(w, s)
  PROVE  WaitInv'
<1>1. UNCHANGED <<rowOf, lastEvent, sequence, current, queue>>
  BY DEF ReleaseCollector, durable
<1>2. actor' \in [Identities -> Snapshots \cup {NoActor}] /\ \A t \in Identities : QuietAt(t)
  BY ActorQuiet DEF ReleaseCollector
<1>3. call'[w] = NoCall /\ sequence \in Nat
  BY DEF ReleaseCollector, WaitInv, WaitTyped
<1>4. CallIsRight(w)'
  BY <1>1, <1>3, NobodyWaits DEF NoCall
<1>5. ClientStep(w, NoCall, {}, wake[w], seen[w])
  BY <1>1, ClientKeeps DEF ReleaseCollector, ClientStep
<1> QED BY <1>1, <1>2, <1>4, <1>5, RowsQuiet, ClientMoves

LEMMA ExpireMoves ==
  ASSUME WaitInv, NEW w \in Clients, NEW s \in Identities, Expire(w, s)
  PROVE  WaitInv'
<1>1. UNCHANGED <<rowOf, lastEvent, sequence, current, queue>> /\ Resolve({w}, s, actor[s], "expired")
      /\ actor' = [actor EXCEPT ![s] = Kept(s, actor[s], queue[s], on')] /\ s \in on[w]
  BY DEF Expire, durable
<1>2. actor' \in [Identities -> Snapshots \cup {NoActor}] /\ \A t \in Identities : QuietAt(t)
  BY <1>1, ActorQuiet
<1>3. CASE call[w].kind = "session"
  <2>1. s \in InUse /\ ActorFor(s) = actor[s]
    BY <1>1, <1>3, ActorMade DEF WaitInv, CallIsRight, SessionIsRight
  <2>2. ClientStep(w, NoCall, on[w] \ {s}, wake[w], [session |-> s, view |-> actor[s]])
    BY <1>1, <1>3, ClientKeeps DEF Resolve, ClientStep, WaitInv, WaitTyped
  <2>3. call'[w] = NoCall /\ sequence \in Nat
    BY <2>2 DEF ClientStep, WaitInv, WaitTyped
  <2>4. CallIsRight(w)'
    BY <1>1, <2>3, NobodyWaits DEF NoCall
  <2> QED BY <1>1, <1>2, <2>1, <2>2, <2>4, RowsQuiet, ClientMoves
<1>4. CASE call[w].kind # "session"
  <2> DEFINE k == IF wake[w] = "none" THEN "expired" ELSE wake[w]
  <2>1. k \in {"none", "changed", "expired"} /\ k # "none"
    BY ClientKeeps
  <2>2. ClientStep(w, call[w], on[w] \ {s}, k, seen[w])
    BY <1>1, <1>4, <2>1, ClientKeeps DEF Resolve, ClientStep, WaitInv, WaitTyped
  <2>3. call'[w] = call[w] /\ wake'[w] = k
    BY <2>2 DEF ClientStep, WaitInv, WaitTyped
  <2>4. CallIsRight(w)'
    BY <1>1, <1>4, <2>1, <2>3 DEF CallIsRight, TeamIsRight, TeamSleeps, SessionIsRight, WaitInv
  <2> QED BY <1>1, <1>2, <2>2, <2>4, RowsQuiet, ClientMoves
<1> QED BY <1>3, <1>4

(* A team.wait that ends leaves its waiters.                               *)
LEMMA LeaveMoves ==
  ASSUME WaitInv, NEW w \in Clients, Answer(w), Leave(w), UNCHANGED <<durable, queue, seen>>
  PROVE  WaitInv'
<1>1. UNCHANGED <<rowOf, lastEvent, sequence, current, queue>>
  BY DEF durable
<1>2. actor' \in [Identities -> Snapshots \cup {NoActor}] /\ \A t \in Identities : QuietAt(t)
  <2>1. actor' = [t \in Identities |-> IF t \in on[w] THEN Kept(t, actor[t], queue[t], on') ELSE actor[t]]
    BY DEF Leave
  <2>2. ASSUME NEW t \in Identities
        PROVE  actor'[t] = actor[t] \/ (actor'[t] = NoActor /\ \A v \in Clients : t \notin on'[v])
    BY <2>1, KeptOrAlone
  <2>3. actor' \in [Identities -> Snapshots \cup {NoActor}]
    BY <2>1, <2>2 DEF WaitInv, WaitTyped
  <2> QED BY <2>2, <2>3 DEF QuietAt
<1>3. ClientStep(w, NoCall, {}, "none", seen[w])
  BY <1>1, ClientKeeps DEF Answer, Leave, ClientStep
<1>4. call'[w] = NoCall /\ sequence \in Nat
  BY DEF Answer, WaitInv, WaitTyped
<1>5. CallIsRight(w)'
  BY <1>1, <1>4, NobodyWaits DEF NoCall
<1> QED BY <1>1, <1>2, <1>3, <1>5, RowsQuiet, ClientMoves

(* A team.wait that goes to sleep listens at every session in use, and     *)
(* nothing there is newer than what it knows.                              *)
LEMMA RaceMoves ==
  ASSUME WaitInv, NEW w \in Clients, NEW until \in Conditions, NEW cursor \in Nat, cursor <= sequence,
         ~ConditionMet(until), Race(w, until, cursor), UNCHANGED <<durable, queue, seen>>
  PROVE  WaitInv'
<1> DEFINE c == [kind |-> "team", until |-> until, cursor |-> cursor]
           o == {s \in InUse : ActorFor(s).revision <= cursor}
           k == IF \E s \in InUse : ActorFor(s).revision > cursor THEN "changed" ELSE "none"
           b(t) == IF t \in InUse THEN ActorFor(t) ELSE actor[t]
<1>1. UNCHANGED <<rowOf, lastEvent, sequence, current, queue>> /\ InUse' = InUse /\ InUse \subseteq Identities
  BY InUseAreSessions DEF durable, InUse, WaitInv
<1>2. /\ \A t \in Identities : \/ actor'[t] = b(t) \/ actor'[t] = actor[t]
                               \/ actor'[t] = NoActor /\ \A v \in Clients : t \notin on'[v]
      /\ \A t \in InUse : actor'[t] = ActorFor(t) \/ (actor'[t] = NoActor /\ \A v \in Clients : t \notin on'[v])
      /\ actor' \in [Identities -> Snapshots \cup {NoActor}]
  <2>1. actor' = [t \in Identities |->
                    IF t \in InUse \/ t \in on[w] THEN Kept(t, b(t), queue[t], on') ELSE actor[t]]
    BY DEF Race
  <2>2. ASSUME NEW t \in Identities
        PROVE  Kept(t, b(t), queue[t], on') \in {b(t), NoActor}
               /\ (Kept(t, b(t), queue[t], on') # b(t) => \A v \in Clients : t \notin on'[v])
    BY KeptOrAlone
  <2>3. ASSUME NEW t \in Identities PROVE b(t) \in Snapshots \cup {NoActor} /\ actor[t] \in Snapshots \cup {NoActor}
    BY ActorMade DEF WaitInv, WaitTyped
  <2>4. \A t \in InUse : b(t) = ActorFor(t)
    OBVIOUS
  <2> HIDE DEF b
  <2>5. ASSUME NEW t \in Identities
        PROVE  /\ actor'[t] \in Snapshots \cup {NoActor}
               /\ \/ actor'[t] = b(t) \/ (actor'[t] = actor[t] /\ t \notin InUse)
                  \/ actor'[t] = NoActor /\ \A v \in Clients : t \notin on'[v]
    BY <2>1, <2>2, <2>3
  <2>6. actor' \in [Identities -> Snapshots \cup {NoActor}]
    BY <2>1, <2>5
  <2>7. ASSUME NEW t \in InUse
        PROVE  actor'[t] = ActorFor(t) \/ (actor'[t] = NoActor /\ \A v \in Clients : t \notin on'[v])
    BY <1>1, <2>4, <2>5
  <2> QED BY <2>5, <2>6, <2>7
<1>3. \A t \in Identities : QuietAt(t)
  BY <1>2 DEF QuietAt
<1>4. ClientStep(w, c, o, k, seen[w])
  <2>1. c \in WaitCalls /\ o \in SUBSET Identities /\ k \in {"none", "changed", "expired"}
    BY <1>1 DEF WaitCalls
  <2>2. call' = [call EXCEPT ![w] = c] /\ on' = [on EXCEPT ![w] = o] /\ wake' = [wake EXCEPT ![w] = k]
    BY DEF Race
  <2> QED BY <1>1, <2>1, <2>2, ClientKeeps DEF ClientStep
<1>5. call'[w] = c /\ on'[w] = o /\ wake'[w] = k
  BY <1>4 DEF ClientStep, WaitInv, WaitTyped
<1>6. CallIsRight(w)'
  <2>1. SessionIsRight(w)' /\ call'[w].cursor <= sequence'
    BY <1>1, <1>5 DEF SessionIsRight
  <2>2. ASSUME k = "none" PROVE /\ ~ConditionMet(until)' /\ on'[w] = InUse'
                                /\ \A s \in InUse' : actor'[s] # NoActor /\ actor'[s].revision <= cursor
    <3>1. \A s \in InUse : ActorFor(s).revision <= cursor
      <4> TAKE s \in InUse
      <4>1. ~(ActorFor(s).revision > cursor)
        BY <2>2
      <4> QED BY <1>1, <4>1, ActorMade DEF Snapshots
    <3>2. on'[w] = InUse'
      BY <1>1, <1>5, <3>1
    <3>3. \A s \in InUse : actor'[s] = ActorFor(s) /\ ActorFor(s) # NoActor
      BY <1>1, <1>2, <3>2, ActorMade
    <3>4. ~ConditionMet(until)'
      BY <1>1 DEF ConditionMet, Terminal
    <3> QED BY <1>1, <3>1, <3>2, <3>3, <3>4
  <2>3. TeamIsRight(w)'
    BY <1>5, <2>2 DEF TeamIsRight, TeamSleeps
  <2> QED BY <2>1, <2>3 DEF CallIsRight
<1>7. Quiet
  BY <1>1, <1>2, <1>3, RowsQuiet
<1> HIDE DEF c, o, k
<1> QED BY <1>4, <1>6, <1>7, ClientMoves

LEMMA TurnMoves ==
  ASSUME WaitInv, NEW w \in Clients, NEW until \in Conditions, NEW cursor \in Nat, cursor <= sequence,
         Turn(w, until, cursor), UNCHANGED <<durable, queue, seen>>
  PROVE  WaitInv'
<1>1. CASE Answer(w) /\ Leave(w)
  BY <1>1, LeaveMoves
<1>2. CASE ~ConditionMet(until) /\ Race(w, until, cursor)
  BY <1>2, RaceMoves
<1> QED BY <1>1, <1>2 DEF Turn

LEMMA CallTeamWaitMoves ==
  ASSUME WaitInv, NEW w \in Clients, NEW until \in Conditions, CallTeamWait(w, until)
  PROVE  WaitInv'
<1>1. sequence \in Nat /\ sequence <= sequence
  BY DEF WaitInv, WaitTyped
<1>2. CASE TeamWait(w, until, sequence)
  BY <1>1, <1>2, TurnMoves DEF TeamWait
<1>3. CASE seen[w] # NoActor /\ TeamWait(w, until, seen[w].view.revision)
  <2>1. seen[w].view.revision \in Nat /\ seen[w].view.revision <= sequence
    BY <1>3 DEF WaitInv, WaitTyped, Answers, Snapshots, AnswerIsRight
  <2> QED BY <1>3, <2>1, TurnMoves DEF TeamWait
<1> QED BY <1>2, <1>3 DEF CallTeamWait

LEMMA TeamWakeMoves ==
  ASSUME WaitInv, NEW w \in Clients, TeamWake(w)
  PROVE  WaitInv'
<1>1. sequence \in Nat /\ sequence <= sequence /\ call[w].until \in Conditions
  BY DEF WaitInv, WaitTyped, WaitCalls
<1>2. CASE Answer(w) /\ Leave(w)
  BY <1>2, LeaveMoves DEF TeamWake
<1>3. CASE Turn(w, call[w].until, sequence)
  BY <1>1, <1>3, TurnMoves DEF TeamWake
<1> QED BY <1>2, <1>3 DEF TeamWake

LEMMA RestartMoves == ASSUME WaitInv, Restart PROVE WaitInv'
<1>0. WaitTyped /\ UNCHANGED <<rowOf, lastEvent, sequence, current>> /\ seen' = seen
  BY DEF WaitInv, Restart, durable
<1>1. ASSUME NEW s \in Identities PROVE actor'[s] \in Snapshots \cup {NoActor} /\ Shows(s)'
                                      /\ (actor'[s] # NoActor => actor'[s].revision = lastEvent[s])
  <2>1. CASE s \in InUse /\ ~Terminal(rowOf[s])
    <3>1. actor'[s] = [generation |-> rowOf[s].generation, state |-> rowOf[s].state, revision |-> lastEvent[s]]
      BY <2>1 DEF Restart
    <3> QED BY <1>0, <3>1 DEF WaitInv, WaitTyped, Shows, Views, Snapshots
  <2>2. CASE ~(s \in InUse /\ ~Terminal(rowOf[s]))
    <3>1. actor'[s] = NoActor
      BY <2>2 DEF Restart
    <3> QED BY <1>0, <3>1 DEF WaitInv, Shows
  <2> QED BY <2>1, <2>2
<1>2. actor' \in [Identities -> Snapshots \cup {NoActor}]
  <2>1. actor' = [s \in Identities |-> actor'[s]]
    BY DEF Restart
  <2> QED BY <1>1, <2>1
<1>3. /\ call' \in [Clients -> WaitCalls] /\ on' \in [Clients -> SUBSET Identities]
      /\ wake' \in [Clients -> {"none", "changed", "expired"}] /\ queue' \in [Identities -> Queues]
  BY DEF Restart, NoCall, WaitCalls, Conditions, NoOperations, Queues
<1>4. WaitTyped' /\ OneRoleEach'
  BY <1>0, <1>2, <1>3 DEF WaitInv, WaitTyped, OneRoleEach
<1>5. ASSUME NEW w \in Clients PROVE CallIsRight(w)'
  <2>1. call'[w] = NoCall
    BY DEF Restart
  <2> QED BY <1>0, <2>1, NobodyWaits DEF NoCall, WaitTyped
<1>6. ASSUME NEW w \in Clients PROVE AnswerIsRight(w)'
  <2> SUFFICES ASSUME seen[w] # NoActor, NEW t, NEW a, t = seen[w].session, a = seen[w].view
               PROVE  /\ a.revision <= sequence'
                      /\ t \in InUse' => IsTold(t, a)'
                      /\ t \notin InUse' => Used(t)'
    BY <1>0 DEF AnswerIsRight
  <2>1. t \in Identities /\ InUse' = InUse
    BY <1>0 DEF WaitTyped, Answers, InUse
  <2>2. a.revision <= sequence /\ (t \in InUse => IsTold(t, a)) /\ (t \notin InUse => Used(t))
    BY DEF WaitInv, AnswerIsRight
  <2>3. IsTold(t, a) => IsTold(t, a)'
    BY <1>0, <1>1, <2>1 DEF IsTold
  <2> QED BY <1>0, <2>1, <2>2, <2>3 DEF Used
<1> QED BY <1>1, <1>4, <1>5, <1>6 DEF WaitInv

LEMMA WaitStep == WaitInv /\ [WaitNext]_waitVars => WaitInv'
<1> SUFFICES ASSUME WaitInv, [WaitNext]_waitVars PROVE WaitInv'
  OBVIOUS
<1>1. ASSUME NEW s \in Identities, OfActor(s) PROVE WaitInv'
  BY <1>1, EnqueueMoves, BeginMoves, EndMoves, SettleMoves, StartMoves, UpdateMoves, NoteMoves DEF OfActor
<1>2. CASE OfDirectory
  <2>1. CASE Note({})
    BY <2>1, NoteMoves
  <2> QED BY <1>2, <2>1, RetireRoleMoves, CreateSessionMoves DEF OfDirectory
<1>3. ASSUME NEW w \in Clients, OfClient(w) PROVE WaitInv'
  BY <1>3, CallSessionWaitMoves, StaleMoves, RetainMoves, ExpireMoves, ReleaseMoves, CallTeamWaitMoves, TeamWakeMoves
     DEF OfClient
<1>4. CASE Restart
  BY <1>4, RestartMoves
<1>5. CASE UNCHANGED waitVars
  <2>1. Quiet
    BY <1>5, SameActorsQuiet DEF waitVars, durable
  <2> QED BY <1>5, <2>1, QueueMoves DEF waitVars, WaitInv, WaitTyped
<1> QED BY <1>1, <1>2, <1>3, <1>4, <1>5 DEF WaitNext

(* What is told and waited for agrees with rows, numbers and actors, over  *)
(* retirements and restarts: the invariant of SessionActor's revisions.    *)
THEOREM WaitInvariant == WaitSpec => []WaitInv
BY WaitStarts, WaitStep, PTL DEF WaitSpec

(* A team.wait is not asleep over a condition that holds, nor over news:   *)
(* no wake-up is lost.                                                     *)
THEOREM SleepersAreWoken == WaitSpec => []SleepingTeamWaitIsRight
<1>1. WaitInv => SleepingTeamWaitIsRight
  BY DEF WaitInv, CallIsRight, TeamIsRight, TeamSleeps, SleepingTeamWaitIsRight
<1> QED BY <1>1, WaitInvariant, PTL

(* Who follows a session by the numbers of its answers misses no change.   *)
THEOREM FollowersMissNothing == WaitSpec => []FollowerMissesNothing
<1>1. ASSUME WaitInv PROVE FollowerMissesNothing
  <2> SUFFICES ASSUME NEW w \in Clients, NEW s \in Identities, call[w].kind = "session", s \in on[w], Follows(w, s)
               PROVE  rowOf[s].generation = seen[w].view.generation /\ rowOf[s].state = seen[w].view.state
    BY DEF FollowerMissesNothing
  <2>1. s \in InUse /\ actor[s] # NoActor /\ actor[s].revision <= call[w].cursor
    BY <1>1 DEF WaitInv, CallIsRight, SessionIsRight
  <2>2. IsTold(s, seen[w].view) /\ seen[w].view.revision = call[w].cursor
    BY <1>1, <2>1 DEF WaitInv, AnswerIsRight, Follows
  <2>3. actor[s].revision \in Nat /\ call[w].cursor \in Nat
    BY <1>1, <2>1 DEF WaitInv, WaitTyped, Snapshots, WaitCalls
  <2> QED BY <2>1, <2>2, <2>3 DEF IsTold
<1> QED BY <1>1, WaitInvariant, PTL
------------------------------------------------------------------------------
(***************************************************************************)
(* ServerReads, for any number of conversations, any grace of two ticks    *)
(* and more and any Retry-After: a selection that waits is overtaken by    *)
(* nobody, and a line whose readers are gone does not stand still.         *)
(*                                                                         *)
(* Neither is inductive.  The first needs that a selection comes back      *)
(* before its place is lost (ComesInTime, SelectionsHavePlaces); the       *)
(* second that a place nobody keeps ages by the tick (GivenUpPlacesAge)    *)
(* and that whoever is first, while the others have asked in vain, is one  *)
(* of those or has not come back yet (AskersStandBehind).  That there is a *)
(* first at all rests on the line's being a strict order of finitely many. *)
(***************************************************************************)
InWait(r) == reader[r].at = "waits"

ReadsTyped ==
  /\ retryAt \in Nat /\ recorded \in Nat /\ idle \in Nat
  /\ reading \in Readers \cup {Unread}
  /\ reader \in [Readers -> [at : {"away", "reads", "waits"}, due : Nat]]
  /\ DOMAIN place \subseteq Chats
  /\ place \in [DOMAIN place -> [left : Int, selected : BOOLEAN]]

\* Nobody comes back later than it is told, and no place is kept for longer
\* than the grace after the next read.
ComesInTime == \A r \in Readers : /\ InWait(r) => reader[r].due <= Later(1, retryAt)
                                  /\ ~InWait(r) => reader[r].due = 0
GraceIsLimited == \A c \in DOMAIN place : place[c].left <= retryAt + Grace

\* The line stands still only while nothing is read and nothing limited.
StillOnlyUnread == /\ idle > 0 => retryAt = 0 /\ reading = Unread
                   /\ reading # Unread => retryAt <= 1

\* A waiting selection has its place and comes back before it is lost.
SelectionsHavePlaces == \A s \in Readers : InWait(s) /\ IsSelected(s) =>
  /\ Chat(s) \in DOMAIN place /\ place[Chat(s)].selected
  /\ place[Chat(s)].left >= reader[s].due

\* The order of the line is a total order.
Orders(R, D) ==
  /\ R \subseteq D \X D
  /\ \A c \in D : <<c, c>> \notin R
  /\ \A c, d, e \in D : <<c, d>> \in R /\ <<d, e>> \in R => <<c, e>> \in R
LineIsOrdered == Orders(before, DOMAIN place)

\* Somebody who waits keeps the place.
HeldBy(r) == /\ InWait(r) /\ Chat(r) \in DOMAIN place
             /\ place[Chat(r)].selected => IsSelected(r)

\* A place nobody keeps ages while the line stands still.
GivenUpPlacesAge == \A c \in DOMAIN place :
  (\A r \in Readers : Chat(r) = c => ~HeldBy(r)) /\ place[c].left >= 0
    => place[c].left + idle <= retryAt + Grace

\* Once somebody has asked since the last tick of a standing line, the lost
\* places are gone, and who is first has not come back yet, or never will.
HasAsked(r) == idle > 0 /\ InWait(r) /\ reader[r].due > 0
AskersStandBehind == \A r \in Readers : HasAsked(r) =>
   /\ Chat(r) \in DOMAIN place
   /\ \A c \in DOMAIN place : place[c].left >= 0
   /\ \A s \in Readers : HeldBy(s) /\ IsFirst(Chat(s), place, before) => reader[s].due = 0

ReadsInv ==
  /\ ReadsTyped /\ ComesInTime /\ GraceIsLimited /\ StillOnlyUnread
  /\ SelectionsHavePlaces /\ LineIsOrdered /\ GivenUpPlacesAge /\ AskersStandBehind
  /\ TheLineMovesOn

USE ChatsAreFinite, GraceIsTwoTicks, RetryBound, UnreadIsNoReader

-----------------------------------------------------------------------------
(* The line.                                                               *)

\* A finite set has a member that no other precedes.
LEMMA SomeoneIsFirst ==
  ASSUME NEW D, NEW R, Orders(R, D), NEW C \in SUBSET D, IsFiniteSet(C), C # {}
  PROVE  \E c \in C : \A d \in C : <<d, c>> \notin R
<1> DEFINE Ahead(c) == {d \in C : <<d, c>> \in R}
           Counts == {Cardinality(Ahead(c)) : c \in C}
           Less == OpToRel(<, Nat)
<1>1. \A c \in C : IsFiniteSet(Ahead(c)) /\ Cardinality(Ahead(c)) \in Nat
  BY FS_Subset, FS_CardinalityType
<1>2. Counts \subseteq Nat /\ Counts # {}
  BY <1>1
<1>3. IsWellFoundedOn(Less, Nat)
  BY NatLessThanWellFounded
<1>4. \A x, y \in Nat : <<y, x>> \in Less <=> y < x
  BY DEF OpToRel
<1> HIDE DEF Less, Counts
<1>5. PICK m \in Counts : \A n \in Counts : ~(<<n, m>> \in Less)
  BY <1>2, <1>3, WFMin
<1>6. PICK c \in C : m = Cardinality(Ahead(c))
  BY DEF Counts
<1>7. ASSUME NEW d \in C, <<d, c>> \in R PROVE FALSE
  <2>1. Ahead(d) \subseteq Ahead(c)
    BY <1>7 DEF Orders
  <2>2. d \in Ahead(c) /\ d \notin Ahead(d)
    BY <1>7 DEF Orders
  <2>3. Cardinality(Ahead(d)) <= Cardinality(Ahead(c))
        /\ Cardinality(Ahead(d)) # Cardinality(Ahead(c))
    <3>1. IsFiniteSet(Ahead(c)) /\ Ahead(d) \in SUBSET Ahead(c)
      BY <1>1, <2>1
    <3> HIDE DEF Ahead
    <3> QED BY <2>2, <3>1, FS_Subset
  <2>4. Cardinality(Ahead(d)) < m
    BY <1>1, <1>6, <2>3
  <2>5. Cardinality(Ahead(d)) \in Counts
    BY DEF Counts
  <2> QED BY <1>2, <1>4, <1>5, <2>4, <2>5
<1> QED BY <1>7

LEMMA FirstExists ==
  ASSUME ReadsTyped, LineIsOrdered, DOMAIN place # {}
  PROVE  \E c \in DOMAIN place : IsFirst(c, place, before)
<1> DEFINE C == Candidates(place)
<1>1. C \subseteq DOMAIN place /\ C # {}
  BY DEF Candidates
<1>2. IsFiniteSet(C)
  BY <1>1, FS_Subset DEF ReadsTyped
<1>3. Orders(before, DOMAIN place)
  BY DEF LineIsOrdered
<1> HIDE DEF C
<1>4. PICK c \in C : \A d \in C : <<d, c>> \notin before
  BY <1>1, <1>2, <1>3, SomeoneIsFirst
<1> QED BY <1>1, <1>4 DEF IsFirst, C

\* Who is first in the longer line was first in the shorter one.
LEMMA FirstWasFirst ==
  ASSUME NEW p, NEW q, NEW R, NEW T, R \subseteq T,
         \A c \in DOMAIN p : c \in DOMAIN q /\ (p[c].selected => q[c].selected),
         \A c \in DOMAIN q : q[c].selected => c \in DOMAIN p /\ p[c].selected,
         NEW d \in DOMAIN p, IsFirst(d, q, T)
  PROVE  IsFirst(d, p, R)
<1> DEFINE P == {c \in DOMAIN p : p[c].selected}
           Q == {c \in DOMAIN q : q[c].selected}
<1>1. P \subseteq Q /\ Q \subseteq P
  OBVIOUS
<1>2. P = Q
  BY <1>1
<1>3. CASE P = {}
  BY <1>2, <1>3 DEF IsFirst, Candidates
<1>4. CASE P # {}
  BY <1>2, <1>4 DEF IsFirst, Candidates
<1> QED BY <1>3, <1>4

\* Leaving and joining at the end keep the order.
LEMMA OrderSurvives ==
  ASSUME NEW R, NEW D, Orders(R, D), NEW K \in SUBSET D, NEW c
  PROVE  /\ Orders({p \in R : p[1] \in K /\ p[2] \in K}, K)
         /\ Orders({p \in R : p[1] \in K /\ p[2] \in K} \cup (K \X ({c} \ K)), K \cup {c})
<1> DEFINE A == {p \in R : p[1] \in K /\ p[2] \in K}
           B == A \cup (K \X ({c} \ K))
<1>1. \A x, y : <<x, y>> \in A <=> <<x, y>> \in R /\ x \in K /\ y \in K
  OBVIOUS
<1>2. \A x, y : <<x, y>> \in B <=> <<x, y>> \in A \/ (x \in K /\ y = c /\ c \notin K)
  OBVIOUS
<1>3. A \subseteq K \X K /\ B \subseteq (K \cup {c}) \X (K \cup {c})
  BY DEF Orders
<1> HIDE DEF A, B
<1>4. Orders(A, K)
  BY <1>1, <1>3 DEF Orders
<1>5. Orders(B, K \cup {c})
  BY <1>1, <1>2, <1>3 DEF Orders
<1> QED BY <1>4, <1>5 DEF A, B

-----------------------------------------------------------------------------
(* The steps.                                                              *)

\* What asking does to the line.
LEMMA AskedLine ==
  ASSUME ReadsTyped, NEW r \in Readers
  PROVE  /\ KeptPlaces \subseteq DOMAIN place
         /\ \A c \in KeptPlaces : place[c].left >= 0
         /\ Chat(r) \in Chats
         /\ DOMAIN Asked(r) = KeptPlaces \cup {Chat(r)}
         /\ Asked(r) \in [DOMAIN Asked(r) -> [left : Int, selected : BOOLEAN]]
         /\ Renews(r) => /\ Asked(r)[Chat(r)].left = retryAt + Grace
                         /\ Asked(r)[Chat(r)].selected = IsSelected(r)
         /\ \A c \in KeptPlaces : c # Chat(r) => Asked(r)[c] = place[c]
         /\ ~Renews(r) => /\ Chat(r) \in KeptPlaces /\ place[Chat(r)].selected /\ ~IsSelected(r)
                          /\ Asked(r)[Chat(r)] = place[Chat(r)]
<1>1. Chat(r) \in Chats
  BY DEF Readers, Chat
<1>2. IsSelected(r) \in BOOLEAN /\ retryAt + Grace \in Int
  BY DEF IsSelected, ReadsTyped
<1>3. ASSUME NEW c \in KeptPlaces PROVE c \in DOMAIN place /\ place[c].left >= 0 /\ place[c] \in [left : Int, selected : BOOLEAN]
  BY DEF KeptPlaces, ReadsTyped
<1>4. ~Renews(r) => Chat(r) \in KeptPlaces /\ place[Chat(r)].selected /\ ~IsSelected(r)
  BY DEF Renews, SelectedIn
<1> QED BY <1>1, <1>2, <1>3, <1>4 DEF Asked, PlaceFor

LEMMA WaitsKeeps ==
  ASSUME ReadsInv, NEW r \in Readers, Waits(r)
  PROVE  ReadsInv'
<1> USE DEF ReadsInv
<1>1. PICK n \in 1..Later(1, retryAt) : reader' = [reader EXCEPT ![r] = Waiting(n)]
  BY DEF Waits
<1>2. /\ n \in Nat /\ n >= 1 /\ n <= Later(1, retryAt) /\ n <= retryAt + Grace
      /\ retryAt \in Nat
  BY DEF Later, ReadsTyped
<1>3. /\ reader' \in [Readers -> [at : {"away", "reads", "waits"}, due : Nat]]
      /\ reader'[r].at = "waits" /\ reader'[r].due = n
      /\ \A s \in Readers : s # r => reader'[s] = reader[s]
  BY <1>1, <1>2 DEF Waiting, ReadsTyped
<1>4. /\ place' = Asked(r) /\ before' = AtTheEnd(KeptPlaces, Chat(r))
      /\ retryAt' = retryAt /\ reading' = reading /\ recorded' = recorded
      /\ idle' = 0 \/ idle' = idle
      /\ idle' # 0 => idle' = idle /\ (IsSelected(r) => reader[r] # Elsewhere)
      /\ Due(r) /\ ~MayRead(r)
  BY DEF Waits
<1>5. /\ KeptPlaces \subseteq DOMAIN place
      /\ \A c \in KeptPlaces : place[c].left >= 0
      /\ Chat(r) \in Chats
      /\ DOMAIN place' = KeptPlaces \cup {Chat(r)}
      /\ place' \in [DOMAIN place' -> [left : Int, selected : BOOLEAN]]
      /\ Renews(r) => /\ place'[Chat(r)].left = retryAt + Grace
                      /\ place'[Chat(r)].selected = IsSelected(r)
      /\ \A c \in KeptPlaces : c # Chat(r) => place'[c] = place[c]
      /\ ~Renews(r) => /\ Chat(r) \in KeptPlaces /\ place[Chat(r)].selected /\ ~IsSelected(r)
                       /\ place'[Chat(r)] = place[Chat(r)]
  BY <1>4, AskedLine
<1>6. ReadsTyped'
  BY <1>3, <1>4, <1>5 DEF ReadsTyped
<1>7. ComesInTime'
  BY <1>2, <1>3, <1>4 DEF ComesInTime, InWait
<1>8. GraceIsLimited'
  <2>1. ASSUME NEW c \in DOMAIN place' PROVE place'[c].left <= retryAt + Grace
    <3>1. CASE c = Chat(r) /\ Renews(r)
      BY <1>5, <3>1 DEF ReadsTyped
    <3>2. CASE ~(c = Chat(r) /\ Renews(r))
      BY <1>5, <2>1, <3>2 DEF GraceIsLimited
    <3> QED BY <3>1, <3>2
  <2> QED BY <1>4, <2>1 DEF GraceIsLimited
<1>9. StillOnlyUnread'
  BY <1>4 DEF StillOnlyUnread
<1>10. SelectionsHavePlaces'
  <2>1. ASSUME NEW s \in Readers, InWait(s)', IsSelected(s)
        PROVE  Chat(s) \in DOMAIN place' /\ place'[Chat(s)].selected /\ place'[Chat(s)].left >= reader'[s].due
    <3>1. CASE s = r
      BY <1>2, <1>3, <1>5, <2>1, <3>1 DEF Renews
    <3>2. CASE s # r
      <4>1. InWait(s) /\ reader'[s] = reader[s] /\ reader[s].due \in Nat
        BY <1>3, <2>1, <3>2 DEF InWait, ReadsTyped
      <4>2. Chat(s) \in DOMAIN place /\ place[Chat(s)].selected /\ place[Chat(s)].left >= reader[s].due
        BY <2>1, <4>1 DEF SelectionsHavePlaces
      <4>3. place[Chat(s)].left \in Int
        BY <4>2 DEF ReadsTyped
      <4>4. Chat(s) \in KeptPlaces
        BY <4>1, <4>2, <4>3 DEF KeptPlaces
      <4>5. Chat(s) = Chat(r) => ~Renews(r)
        BY <2>1, <3>2, <4>2, <4>4 DEF Renews, SelectedIn, IsSelected, Chat, Readers
      <4> QED BY <1>5, <4>1, <4>2, <4>4, <4>5
    <3> QED BY <3>1, <3>2
  <2> QED BY <2>1 DEF SelectionsHavePlaces, IsSelected
<1>11. LineIsOrdered'
  <2>1. Orders(before, DOMAIN place)
    BY DEF LineIsOrdered
  <2>2. Orders(AtTheEnd(KeptPlaces, Chat(r)), KeptPlaces \cup {Chat(r)})
    BY <1>5, <2>1, OrderSurvives DEF AtTheEnd, Among
  <2> QED BY <1>4, <1>5, <2>2 DEF LineIsOrdered
<1>12. GivenUpPlacesAge'
  <2>1. ASSUME NEW c \in DOMAIN place', \A s \in Readers : Chat(s) = c => ~HeldBy(s)', place'[c].left >= 0
        PROVE  place'[c].left + idle' <= retryAt + Grace
    <3>1. ~(c = Chat(r) /\ Renews(r))
      BY <1>3, <1>5, <2>1 DEF HeldBy, InWait
    <3>2. c \in DOMAIN place /\ place'[c] = place[c]
      BY <1>5, <2>1, <3>1
    <3>3. ASSUME NEW s \in Readers, Chat(s) = c, HeldBy(s) PROVE FALSE
      <4>1. CASE s = r
        BY <1>3, <1>5, <2>1, <3>1, <3>2, <3>3, <4>1 DEF HeldBy, InWait
      <4>2. CASE s # r
        BY <1>3, <2>1, <3>2, <3>3, <4>2 DEF HeldBy, InWait
      <4> QED BY <4>1, <4>2
    <3>4. place[c].left + idle <= retryAt + Grace
      BY <2>1, <3>2, <3>3 DEF GivenUpPlacesAge
    <3>5. place[c].left <= retryAt + Grace
      BY <3>2 DEF GraceIsLimited
    <3>6. place[c].left \in Int /\ idle \in Nat
      BY <3>2 DEF ReadsTyped
    <3> QED BY <1>4, <3>2, <3>4, <3>5, <3>6
  <2> QED BY <1>4, <2>1 DEF GivenUpPlacesAge
<1>13. AskersStandBehind'
  <2> SUFFICES ASSUME NEW t \in Readers, HasAsked(t)'
               PROVE  /\ Chat(t) \in DOMAIN place'
                      /\ \A c \in DOMAIN place' : place'[c].left >= 0
                      /\ \A s \in Readers : HeldBy(s)' /\ IsFirst(Chat(s), place', before') => reader'[s].due = 0
    BY DEF AskersStandBehind, IsFirst
  <2>1. /\ idle' = idle /\ idle > 0 /\ retryAt = 0 /\ reading = Unread
        /\ IsSelected(r) => reader[r] # Elsewhere
    BY <1>4, <1>6 DEF HasAsked, StillOnlyUnread, ReadsTyped
  <2>2. Queued(r)
    BY <1>4, <2>1 DEF MayRead
  <2>3. IsFirst(Chat(r), place', before') => ~Renews(r)
    BY <1>4, <2>2 DEF Queued, Renews
  <2>4. \A c \in DOMAIN place' : place'[c].left >= 0
    <3>1. retryAt + Grace >= 0
      BY DEF ReadsTyped
    <3> QED BY <1>5, <3>1
  <2>5. CASE \A u \in Readers : ~HasAsked(u)
    <3>1. t = r
      BY <1>3, <2>1, <2>5 DEF HasAsked, InWait
    <3>2. ASSUME NEW s \in Readers, HeldBy(s)', IsFirst(Chat(s), place', before') PROVE reader'[s].due = 0
      <4>1. s # r
        BY <1>3, <1>5, <2>3, <3>2 DEF HeldBy
      <4>2. reader'[s] = reader[s] /\ reader[s].due \in Nat
        BY <1>3, <4>1 DEF ReadsTyped
      <4>3. ~(reader[s].due > 0)
        BY <2>1, <2>5, <3>2, <4>2 DEF HasAsked, HeldBy, InWait
      <4> QED BY <4>2, <4>3
    <3> QED BY <1>5, <2>4, <3>1, <3>2
  <2>6. CASE \E u \in Readers : HasAsked(u)
    <3>1. PICK u \in Readers : HasAsked(u)
      BY <2>6
    <3>2. /\ \A c \in DOMAIN place : place[c].left >= 0
          /\ \A s \in Readers : HeldBy(s) /\ IsFirst(Chat(s), place, before) => reader[s].due = 0
      BY <3>1 DEF AskersStandBehind
    <3>3. KeptPlaces = DOMAIN place
      BY <3>2 DEF KeptPlaces
    <3>4. Chat(t) \in DOMAIN place'
      <4>1. CASE t = r
        BY <1>5, <4>1
      <4>2. CASE t # r
        BY <1>3, <1>5, <2>1, <3>3, <4>2 DEF HasAsked, InWait, AskersStandBehind
      <4> QED BY <4>1, <4>2
    <3>5. before \subseteq before'
      <4>1. before \subseteq (DOMAIN place) \X (DOMAIN place)
        BY DEF LineIsOrdered, Orders
      <4> QED BY <1>4, <3>3, <4>1 DEF AtTheEnd, Among
    <3>6. IsSelected(r) => Chat(r) \in DOMAIN place /\ place[Chat(r)].selected
      <4>1. HAVE IsSelected(r)
      <4>2. reader[r].at = "waits"
        <5>1. reader[r] \in [at : {"away", "reads", "waits"}, due : Nat]
          BY DEF ReadsTyped
        <5>2. reader[r].at # "waits" => reader[r].due = 0
          BY DEF ComesInTime, InWait
        <5>3. reader[r] = [at |-> reader[r].at, due |-> reader[r].due]
          BY <5>1
        <5> QED BY <1>4, <2>1, <4>1, <5>2, <5>3 DEF Due, Elsewhere
      <4> QED BY <4>1, <4>2 DEF SelectionsHavePlaces, InWait
    <3>7. \A c \in DOMAIN place : c \in DOMAIN place' /\ (place[c].selected => place'[c].selected)
      <4>1. ASSUME NEW c \in DOMAIN place, place[c].selected PROVE place'[c].selected
        <5>1. CASE c = Chat(r)
          BY <1>5, <3>3, <4>1, <5>1 DEF Renews, SelectedIn
        <5>2. CASE c # Chat(r)
          BY <1>5, <3>3, <4>1, <5>2
        <5> QED BY <5>1, <5>2
      <4> QED BY <1>5, <3>3, <4>1
    <3>8. \A c \in DOMAIN place' : place'[c].selected => c \in DOMAIN place /\ place[c].selected
      <4>1. ASSUME NEW c \in DOMAIN place', place'[c].selected PROVE c \in DOMAIN place /\ place[c].selected
        <5>1. CASE c = Chat(r)
          BY <1>5, <3>3, <3>6, <4>1, <5>1
        <5>2. CASE c # Chat(r)
          BY <1>5, <3>3, <4>1, <5>2
        <5> QED BY <5>1, <5>2
      <4> QED BY <4>1
    <3>9. ASSUME NEW s \in Readers, HeldBy(s)', IsFirst(Chat(s), place', before') PROVE reader'[s].due = 0
      <4>1. s # r
        BY <1>3, <1>5, <2>3, <3>9 DEF HeldBy
      <4>2. reader'[s] = reader[s]
        BY <1>3, <4>1
      <4>3. Chat(s) \in DOMAIN place
        BY <1>5, <2>3, <3>3, <3>9 DEF HeldBy
      <4>4. IsFirst(Chat(s), place, before)
        BY <3>5, <3>7, <3>8, <3>9, <4>3, FirstWasFirst
      <4>5. HeldBy(s)
        BY <3>7, <3>9, <4>2, <4>3 DEF HeldBy, InWait
      <4> QED BY <3>2, <4>2, <4>4, <4>5
    <3> QED BY <2>4, <3>4, <3>9
  <2> QED BY <2>5, <2>6
<1>14. TheLineMovesOn'
  BY <1>4 DEF TheLineMovesOn, Patience
<1> QED BY <1>6, <1>7, <1>8, <1>9, <1>10, <1>11, <1>12, <1>13, <1>14

\* Where the line does not stand still there is less to keep.
LEMMA MovingKeeps ==
  ASSUME ReadsTyped', GraceIsLimited', idle' = 0
  PROVE  GivenUpPlacesAge' /\ AskersStandBehind' /\ TheLineMovesOn'
<1>1. \A c \in DOMAIN place' : place'[c].left + idle' <= retryAt' + Grace
  BY DEF GraceIsLimited, ReadsTyped
<1>2. GivenUpPlacesAge'
  BY <1>1 DEF GivenUpPlacesAge
<1>3. AskersStandBehind'
  BY DEF AskersStandBehind, HasAsked
<1>4. TheLineMovesOn'
  BY DEF TheLineMovesOn, Patience
<1> QED BY <1>2, <1>3, <1>4

LEMMA ReadsKeeps ==
  ASSUME ReadsInv, NEW r \in Readers, Reads(r)
  PROVE  ReadsInv'
<1> USE DEF ReadsInv
<1>1. /\ reader' = [reader EXCEPT ![r] = Reading]
      /\ reading' = r /\ retryAt' = 1 /\ idle' = 0 /\ recorded' = recorded
      /\ MayRead(r)
      /\ place' = [c \in KeptPlaces \ {Chat(r)} |-> place[c]] /\ before' = Among(KeptPlaces \ {Chat(r)})
  BY DEF Reads
<1>2. retryAt = 0 /\ reading = Unread /\ ~Queued(r)
  BY <1>1 DEF MayRead
<1>3. /\ reader' \in [Readers -> [at : {"away", "reads", "waits"}, due : Nat]]
      /\ reader'[r].at = "reads" /\ reader'[r].due = 0
      /\ \A s \in Readers : s # r => reader'[s] = reader[s]
  BY <1>1 DEF Reading, ReadsTyped
<1>4. KeptPlaces \subseteq DOMAIN place
  BY DEF KeptPlaces
<1>5. /\ DOMAIN place' = KeptPlaces \ {Chat(r)}
      /\ \A c \in KeptPlaces \ {Chat(r)} : place'[c] = place[c]
      /\ place' \in [DOMAIN place' -> [left : Int, selected : BOOLEAN]]
  BY <1>1, <1>4 DEF ReadsTyped
<1>6. ReadsTyped'
  BY <1>1, <1>3, <1>4, <1>5 DEF ReadsTyped
<1>7. ComesInTime'
  BY <1>1, <1>2, <1>3 DEF ComesInTime, InWait, Later, ReadsTyped
<1>8. GraceIsLimited'
  <2>1. ASSUME NEW c \in DOMAIN place' PROVE place'[c].left <= 1 + Grace
    <3>1. c \in DOMAIN place /\ place'[c] = place[c] /\ place[c].left \in Int
      BY <1>4, <1>5, <2>1 DEF ReadsTyped
    <3> QED BY <1>2, <3>1 DEF GraceIsLimited
  <2> QED BY <1>1, <2>1 DEF GraceIsLimited
<1>9. StillOnlyUnread'
  BY <1>1 DEF StillOnlyUnread
<1>10. SelectionsHavePlaces'
  <2>1. ASSUME NEW s \in Readers, InWait(s)', IsSelected(s)
        PROVE  Chat(s) \in DOMAIN place' /\ place'[Chat(s)].selected /\ place'[Chat(s)].left >= reader'[s].due
    <3>1. s # r
      BY <1>3, <2>1 DEF InWait
    <3>2. InWait(s) /\ reader'[s] = reader[s] /\ reader[s].due \in Nat
      BY <1>3, <2>1, <3>1 DEF InWait, ReadsTyped
    <3>3. Chat(s) \in DOMAIN place /\ place[Chat(s)].selected /\ place[Chat(s)].left >= reader[s].due
      BY <2>1, <3>2 DEF SelectionsHavePlaces
    <3>4. place[Chat(s)].left \in Int
      BY <3>3 DEF ReadsTyped
    <3>5. Chat(s) \in KeptPlaces
      BY <3>2, <3>3, <3>4 DEF KeptPlaces
    <3>6. Chat(s) # Chat(r)
      BY <1>2, <2>1, <3>1, <3>3, <3>5 DEF Queued, SelectedIn, IsSelected, Chat, Readers
    <3> QED BY <1>5, <3>2, <3>3, <3>5, <3>6
  <2> QED BY <2>1 DEF SelectionsHavePlaces, IsSelected
<1>11. LineIsOrdered'
  <2>1. Orders(before, DOMAIN place) /\ KeptPlaces \ {Chat(r)} \in SUBSET DOMAIN place
    BY <1>4 DEF LineIsOrdered
  <2>2. Orders(Among(KeptPlaces \ {Chat(r)}), KeptPlaces \ {Chat(r)})
    BY <2>1, OrderSurvives DEF Among
  <2> QED BY <1>1, <1>5, <2>2 DEF LineIsOrdered
<1> QED BY <1>1, <1>6, <1>7, <1>8, <1>9, <1>10, <1>11, MovingKeeps

\* A read that is over leaves a line in which every place is kept for longer.
LEMMA EndsKeep ==
  ASSUME ReadsInv, NEW r \in Readers, reading = r, reading' = Unread, idle' = idle, recorded' \in Nat,
         NEW at \in Nat, retryAt' = at, at >= retryAt,
         NEW back \in Nat, NEW how \in {"away", "waits"},
         reader' = [reader EXCEPT ![r] = [at |-> how, due |-> back]],
         back <= Later(1, at), how = "away" => back = 0,
         NEW q, DOMAIN q \subseteq Chats, q \in [DOMAIN q -> [left : Int, selected : BOOLEAN]],
         \A c \in DOMAIN q : q[c].left <= at + Grace,
         \A c \in DOMAIN place : /\ c \in DOMAIN q
                                 /\ c # Chat(r) \/ ~IsSelected(r) => q[c] = place[c],
         how = "waits" /\ IsSelected(r) =>
            Chat(r) \in DOMAIN q /\ q[Chat(r)].selected,
         how = "away" => q = place,
         place' = Extended(q, at), Orders(before', DOMAIN q)
  PROVE  ReadsInv'
<1> USE DEF ReadsInv
<1>1. idle' = 0
  BY DEF StillOnlyUnread, ReadsTyped
<1>2. /\ reader' \in [Readers -> [at : {"away", "reads", "waits"}, due : Nat]]
      /\ reader'[r].at = how /\ reader'[r].due = back
      /\ \A s \in Readers : s # r => reader'[s] = reader[s]
  BY DEF ReadsTyped
<1>3. /\ DOMAIN place' = DOMAIN q
      /\ \A c \in DOMAIN q : /\ place'[c].left = at + Grace /\ place'[c].selected = q[c].selected
                             /\ place'[c] \in [left : Int, selected : BOOLEAN]
      /\ place' \in [DOMAIN place' -> [left : Int, selected : BOOLEAN]]
  <2>1. \A c \in DOMAIN q : q[c].left \in Int /\ q[c].selected \in BOOLEAN
    OBVIOUS
  <2>2. \A c \in DOMAIN q : Later(q[c].left, at + Grace) = at + Grace
    BY <2>1 DEF Later
  <2> QED BY <2>1, <2>2 DEF Extended, PlaceFor
<1>4. ReadsTyped'
  BY <1>1, <1>2, <1>3 DEF ReadsTyped
<1>5. ComesInTime'
  <2>1. \A s \in Readers : reader[s].due \in Nat
    BY DEF ReadsTyped
  <2> QED BY <1>2, <2>1 DEF ComesInTime, InWait, Later, ReadsTyped
<1>6. GraceIsLimited'
  BY <1>3 DEF GraceIsLimited
<1>7. StillOnlyUnread'
  BY <1>1 DEF StillOnlyUnread
<1>8. SelectionsHavePlaces'
  <2>1. ASSUME NEW s \in Readers, InWait(s)', IsSelected(s)
        PROVE  Chat(s) \in DOMAIN place' /\ place'[Chat(s)].selected /\ place'[Chat(s)].left >= reader'[s].due
    <3>1. reader'[s].due <= at + Grace
      BY <1>2, <1>5, <2>1 DEF ComesInTime, Later
    <3>2. Chat(s) \in DOMAIN q /\ q[Chat(s)].selected
      <4>1. CASE s = r
        BY <1>2, <2>1, <4>1 DEF InWait
      <4>2. CASE s # r
        <5>1. Chat(s) \in DOMAIN place /\ place[Chat(s)].selected
          BY <1>2, <2>1, <4>2 DEF InWait, SelectionsHavePlaces
        <5>2. Chat(s) # Chat(r) \/ ~IsSelected(r)
          BY <2>1, <4>2 DEF IsSelected, Chat, Readers
        <5> QED BY <5>1, <5>2
      <4> QED BY <4>1, <4>2
    <3> QED BY <1>3, <3>1, <3>2
  <2> QED BY <2>1 DEF SelectionsHavePlaces, IsSelected
<1>9. LineIsOrdered'
  BY <1>3 DEF LineIsOrdered
<1> QED BY <1>1, <1>4, <1>5, <1>6, <1>7, <1>8, <1>9, MovingKeeps

LEMMA ServedKeeps ==
  ASSUME ReadsInv, NEW r \in Readers, Served(r)
  PROVE  ReadsInv'
<1> USE DEF ReadsInv
<1>1. CASE Read(r)
  <2>1. \A c \in DOMAIN place : place[c].left <= retryAt + Grace
    BY DEF GraceIsLimited
  <2>2. Orders(before', DOMAIN place)
    BY <1>1 DEF Read, LineIsOrdered
  <2>3. /\ reading = r /\ reading' = Unread /\ idle' = idle /\ recorded' \in Nat
        /\ retryAt' = retryAt /\ retryAt \in Nat /\ retryAt >= retryAt
        /\ reader' = [reader EXCEPT ![r] = [at |-> "away", due |-> 0]]
        /\ place' = Extended(place, retryAt)
        /\ DOMAIN place \subseteq Chats
        /\ place \in [DOMAIN place -> [left : Int, selected : BOOLEAN]]
    BY <1>1 DEF Read, Elsewhere, ReadsTyped
  <2>4. 0 <= Later(1, retryAt)
    BY <2>3 DEF Later
  <2> QED BY <2>1, <2>2, <2>3, <2>4, EndsKeep
<1>2. CASE \E n \in 0..MaxRetry : LimitedTo(r, n)
  <2>1. PICK n \in 0..MaxRetry : LimitedTo(r, n)
    BY <1>2
  <2> DEFINE at == Later(1, n)
             q == [c \in DOMAIN place \cup Retries(r) |->
                     IF c \in Retries(r) THEN PlaceFor(at + Grace, TRUE) ELSE place[c]]
  <2>2. /\ reading = r /\ reading' = Unread /\ retryAt' = at /\ idle' = idle
        /\ place' = Extended(q, at)
        /\ before' = before \cup ((DOMAIN place) \X (Retries(r) \ DOMAIN place))
        /\ recorded' \in {Later(recorded, at)} \cup (IF IsSelected(r) THEN {} ELSE {recorded})
    BY <2>1 DEF LimitedTo
  <2>3. at \in Nat /\ at >= 1 /\ at >= retryAt /\ recorded' \in Nat
    BY <2>2 DEF Later, ReadsTyped, StillOnlyUnread
  <2>4. PICK m \in 1..at : reader' = [reader EXCEPT ![r] = [at |-> "waits", due |-> m]]
    BY <2>1 DEF LimitedTo, Waiting
  <2>5. Chat(r) \in Chats
    BY DEF Chat, Readers
  <2>6. DOMAIN q = DOMAIN place \cup Retries(r) /\ DOMAIN q \subseteq Chats
    BY <2>5 DEF Retries, ReadsTyped
  <2>7. \A c \in DOMAIN q : /\ c \in Retries(r) => q[c] = [left |-> at + Grace, selected |-> TRUE]
                            /\ c \notin Retries(r) => c \in DOMAIN place /\ q[c] = place[c]
    BY <2>6 DEF PlaceFor
  <2> HIDE DEF q
  <2>8. Orders(before', DOMAIN q)
    <3>1. Orders(before, DOMAIN place)
      BY DEF LineIsOrdered
    <3>2. CASE IsSelected(r)
      <4>1. /\ DOMAIN q = DOMAIN place \cup {Chat(r)}
            /\ before' = before \cup ((DOMAIN place) \X ({Chat(r)} \ DOMAIN place))
        BY <2>2, <2>6, <3>2 DEF Retries
      <4>2. {p \in before : p[1] \in DOMAIN place /\ p[2] \in DOMAIN place} = before
        BY <3>1 DEF Orders
      <4>3. Orders({p \in before : p[1] \in DOMAIN place /\ p[2] \in DOMAIN place}
                     \cup ((DOMAIN place) \X ({Chat(r)} \ DOMAIN place)), DOMAIN place \cup {Chat(r)})
        BY <3>1, OrderSurvives
      <4> QED BY <4>1, <4>2, <4>3
    <3>3. CASE ~IsSelected(r)
      BY <2>2, <2>6, <3>1, <3>3 DEF Retries
    <3> QED BY <3>2, <3>3
  <2>9. \A c \in DOMAIN place : place[c].left \in Int /\ place[c].left <= retryAt + Grace
    BY DEF GraceIsLimited, ReadsTyped
  <2>10. /\ \A c \in DOMAIN q : q[c].left <= at + Grace
         /\ \A c \in DOMAIN q : q[c] \in [left : Int, selected : BOOLEAN]
    <3> HIDE DEF at
    <3>1. ASSUME NEW c \in DOMAIN q PROVE q[c].left <= at + Grace /\ q[c] \in [left : Int, selected : BOOLEAN]
      <4>1. CASE c \in Retries(r)
        <5>1. q[c] = [left |-> at + Grace, selected |-> TRUE]
          BY <2>7, <4>1
        <5>2. at + Grace \in Int
          BY <2>3
        <5> HIDE DEF q, at
        <5> QED BY <5>1, <5>2
      <4>2. CASE c \notin Retries(r)
        BY <2>3, <2>7, <2>9, <4>2 DEF ReadsTyped
      <4> QED BY <4>1, <4>2
    <3> QED BY <3>1
  <2>11. q \in [DOMAIN q -> [left : Int, selected : BOOLEAN]]
    BY <2>10 DEF q
  <2>12. /\ \A c \in DOMAIN place : c \in DOMAIN q /\ (c # Chat(r) \/ ~IsSelected(r) => q[c] = place[c])
         /\ IsSelected(r) => Chat(r) \in DOMAIN q /\ q[Chat(r)].selected
    BY <2>6, <2>7 DEF Retries
  <2>13. m \in Nat /\ m <= Later(1, at)
    BY <2>3 DEF Later
  <2> HIDE DEF at
  <2> QED BY <2>2, <2>3, <2>4, <2>6, <2>8, <2>10, <2>11, <2>12, <2>13, EndsKeep
<1> QED BY <1>1, <1>2 DEF Served

LEMMA GivesUpKeeps ==
  ASSUME ReadsInv, NEW r \in Readers, GivesUp(r)
  PROVE  ReadsInv'
<1> USE DEF ReadsInv
<1>1. /\ reader' = [reader EXCEPT ![r] = Elsewhere] /\ idle' = 0
      /\ UNCHANGED <<retryAt, place, before, reading, recorded>>
  BY DEF GivesUp
<1>2. /\ reader' \in [Readers -> [at : {"away", "reads", "waits"}, due : Nat]]
      /\ reader'[r].at = "away" /\ reader'[r].due = 0
      /\ \A s \in Readers : s # r => reader'[s] = reader[s]
  BY <1>1 DEF Elsewhere, ReadsTyped
<1>3. ReadsTyped'
  BY <1>1, <1>2 DEF ReadsTyped
<1>4. ComesInTime'
  BY <1>1, <1>2 DEF ComesInTime, InWait
<1>5. GraceIsLimited' /\ StillOnlyUnread' /\ LineIsOrdered'
  BY <1>1 DEF GraceIsLimited, StillOnlyUnread, LineIsOrdered
<1>6. SelectionsHavePlaces'
  BY <1>1, <1>2 DEF SelectionsHavePlaces, InWait
<1> QED BY <1>1, <1>3, <1>4, <1>5, <1>6, MovingKeeps

LEMMA RestartKeeps ==
  ASSUME ReadsInv, ReadsRestart
  PROVE  ReadsInv'
<1> USE DEF ReadsInv
<1>1. /\ retryAt' = recorded /\ recorded' = recorded /\ reading' = Unread /\ idle' = 0
      /\ place' = NoPlaces /\ before' = {} /\ reader' = [r \in Readers |-> Elsewhere]
  BY DEF ReadsRestart
<1>2. DOMAIN place' = {} /\ place' \in [DOMAIN place' -> [left : Int, selected : BOOLEAN]]
  BY <1>1 DEF NoPlaces
<1>3. ReadsTyped'
  BY <1>1, <1>2 DEF ReadsTyped, Elsewhere
<1>4. ComesInTime' /\ SelectionsHavePlaces'
  BY <1>1 DEF ComesInTime, SelectionsHavePlaces, InWait, Elsewhere
<1>5. GraceIsLimited' /\ StillOnlyUnread' /\ LineIsOrdered'
  BY <1>1, <1>2 DEF GraceIsLimited, StillOnlyUnread, LineIsOrdered, Orders
<1> QED BY <1>1, <1>3, <1>4, <1>5, MovingKeeps

LEMMA TickKeeps ==
  ASSUME ReadsInv, ReadsTick
  PROVE  ReadsInv'
<1> USE DEF ReadsInv
<1>1. /\ \A r \in Readers : InWait(r) => reader[r].due > 0
      /\ retryAt' = Later(0, retryAt - 1) /\ recorded' = Later(0, recorded - 1)
      /\ place' = [c \in DOMAIN place |-> PlaceFor(Later(-1, place[c].left - 1), place[c].selected)]
      /\ reader' = [r \in Readers |-> [at |-> reader[r].at, due |-> Later(0, reader[r].due - 1)]]
      /\ before' = before /\ reading' = reading
      /\ \/ /\ idle' = idle + 1 /\ retryAt = 0 /\ reading = Unread
            /\ \E r \in Readers : InWait(r)
         \/ idle' = idle
  BY DEF ReadsTick, Somebody, InWait
<1>2. \A r \in Readers : /\ reader[r].due \in Nat /\ reader'[r].at = reader[r].at
                         /\ reader'[r].due = Later(0, reader[r].due - 1)
                         /\ reader'[r].due \in Nat
                         /\ reader'[r] \in [at : {"away", "reads", "waits"}, due : Nat]
  <2>1. \A r \in Readers : reader[r].due \in Nat /\ reader[r].at \in {"away", "reads", "waits"}
    BY DEF ReadsTyped
  <2> QED BY <1>1, <2>1 DEF Later
<1>3. /\ DOMAIN place' = DOMAIN place
      /\ \A c \in DOMAIN place : /\ place[c].left \in Int /\ place[c].selected \in BOOLEAN
                                 /\ place'[c].left = Later(-1, place[c].left - 1)
                                 /\ place'[c].left \in Int
                                 /\ place'[c].selected = place[c].selected
                                 /\ place'[c] \in [left : Int, selected : BOOLEAN]
  <2>1. \A c \in DOMAIN place : place[c].left \in Int /\ place[c].selected \in BOOLEAN
    BY DEF ReadsTyped
  <2>2. \A c \in DOMAIN place : Later(-1, place[c].left - 1) \in Int
    BY <2>1 DEF Later
  <2> QED BY <1>1, <2>1, <2>2 DEF PlaceFor
<1>4. retryAt \in Nat /\ idle \in Nat /\ retryAt' \in Nat /\ recorded' \in Nat /\ idle' \in Nat
      /\ retryAt' >= retryAt - 1
  BY <1>1 DEF Later, ReadsTyped
<1>5. ReadsTyped'
  <2>1. reader' \in [Readers -> [at : {"away", "reads", "waits"}, due : Nat]]
    BY <1>1, <1>2
  <2>2. place' \in [DOMAIN place' -> [left : Int, selected : BOOLEAN]]
    BY <1>1, <1>3
  <2> QED BY <1>1, <1>3, <1>4, <2>1, <2>2 DEF ReadsTyped
<1>6. ComesInTime'
  <2>1. ASSUME NEW r \in Readers
        PROVE  /\ InWait(r)' => reader'[r].due <= Later(1, retryAt')
               /\ ~InWait(r)' => reader'[r].due = 0
    <3>1. /\ InWait(r) => reader[r].due <= Later(1, retryAt)
          /\ ~InWait(r) => reader[r].due = 0
      BY DEF ComesInTime
    <3>2. InWait(r)' <=> InWait(r)
      BY <1>2 DEF InWait
    <3> QED BY <1>1, <1>2, <1>4, <3>1, <3>2 DEF Later
  <2> QED BY <2>1 DEF ComesInTime
<1>7. GraceIsLimited'
  <2>1. ASSUME NEW c \in DOMAIN place PROVE place'[c].left <= retryAt' + Grace
    <3>1. place[c].left <= retryAt + Grace
      BY DEF GraceIsLimited
    <3> QED BY <1>3, <1>4, <3>1 DEF Later
  <2> QED BY <1>3, <2>1 DEF GraceIsLimited
<1>8. StillOnlyUnread'
  <2>1. /\ idle > 0 => retryAt = 0 /\ reading = Unread
        /\ reading # Unread => retryAt <= 1
    BY DEF StillOnlyUnread
  <2>2. retryAt = 0 => retryAt' = 0
    BY <1>1 DEF Later
  <2>3. retryAt' <= retryAt
    BY <1>1, <1>4 DEF Later
  <2> QED BY <1>1, <1>4, <2>1, <2>2, <2>3 DEF StillOnlyUnread
<1>9. SelectionsHavePlaces'
  <2>1. ASSUME NEW s \in Readers, InWait(s)', IsSelected(s)
        PROVE  Chat(s) \in DOMAIN place' /\ place'[Chat(s)].selected /\ place'[Chat(s)].left >= reader'[s].due
    <3>1. InWait(s)
      BY <1>2, <2>1 DEF InWait
    <3>2. Chat(s) \in DOMAIN place /\ place[Chat(s)].selected /\ place[Chat(s)].left >= reader[s].due
          /\ reader[s].due > 0
      BY <1>1, <2>1, <3>1 DEF SelectionsHavePlaces
    <3> QED BY <1>2, <1>3, <3>2 DEF Later
  <2> QED BY <2>1 DEF SelectionsHavePlaces, IsSelected
<1>10. LineIsOrdered'
  BY <1>1, <1>3 DEF LineIsOrdered
<1>11. \A s \in Readers : HeldBy(s)' <=> HeldBy(s)
  BY <1>2, <1>3 DEF HeldBy, InWait, Chat, Readers
<1>12. GivenUpPlacesAge'
  <2>1. ASSUME NEW c \in DOMAIN place, \A s \in Readers : Chat(s) = c => ~HeldBy(s), place'[c].left >= 0
        PROVE  place'[c].left + idle' <= retryAt' + Grace
    <3>1. place'[c].left = place[c].left - 1 /\ place[c].left >= 0
      BY <1>3, <2>1 DEF Later
    <3>2. place[c].left + idle <= retryAt + Grace
      BY <2>1, <3>1 DEF GivenUpPlacesAge
    <3> QED BY <1>1, <1>3, <1>4, <3>1, <3>2
  <2> QED BY <1>3, <1>11, <2>1 DEF GivenUpPlacesAge
<1>13. AskersStandBehind'
  <2>1. ASSUME NEW r \in Readers, HasAsked(r)' PROVE FALSE
    <3>1. retryAt = 0
      BY <1>1, <1>4, <2>1 DEF HasAsked, StillOnlyUnread
    <3>2. InWait(r) /\ reader'[r].due > 0
      BY <1>2, <2>1 DEF HasAsked, InWait
    <3>3. reader[r].due <= 1
      BY <3>1, <3>2 DEF ComesInTime, Later
    <3> QED BY <1>2, <3>2, <3>3 DEF Later
  <2> QED BY <2>1 DEF AskersStandBehind
<1>14. TheLineMovesOn'
  <2>1. idle <= Grace + 1
    BY DEF TheLineMovesOn, Patience
  <2>2. CASE idle' = idle
    BY <2>1, <2>2 DEF TheLineMovesOn, Patience
  <2>3. CASE idle = 0
    BY <1>1, <2>3 DEF TheLineMovesOn, Patience
  <2>4. CASE idle > 0 /\ idle' = idle + 1
    <3>1. PICK w \in Readers : HasAsked(w)
      BY <1>1, <1>4, <2>4 DEF HasAsked, InWait
    <3>2. /\ Chat(w) \in DOMAIN place
          /\ \A c \in DOMAIN place : place[c].left >= 0
          /\ \A s \in Readers : HeldBy(s) /\ IsFirst(Chat(s), place, before) => reader[s].due = 0
      BY <3>1 DEF AskersStandBehind
    <3>3. PICK d \in DOMAIN place : IsFirst(d, place, before)
      BY <3>2, FirstExists
    <3>4. ASSUME NEW s \in Readers, Chat(s) = d, HeldBy(s) PROVE FALSE
      BY <1>1, <3>2, <3>3, <3>4 DEF HeldBy
    <3>5. place[d].left + idle <= retryAt + Grace /\ retryAt = 0
      BY <2>4, <3>2, <3>4 DEF GivenUpPlacesAge, StillOnlyUnread
    <3>6. idle' <= Grace + 1
      BY <1>3, <1>4, <2>4, <3>2, <3>5
    <3> QED BY <3>6 DEF TheLineMovesOn, Patience
  <2> QED BY <1>1, <1>4, <2>2, <2>3, <2>4
<1> QED BY <1>5, <1>6, <1>7, <1>8, <1>9, <1>10, <1>12, <1>13, <1>14

-----------------------------------------------------------------------------
(* The results.                                                            *)

\* The line before the server is what its steps take it for.
THEOREM ReadsInvariant == ReadsSpec => []ReadsInv
<1>1. ReadsInit => ReadsInv
  <2> SUFFICES ASSUME ReadsInit PROVE ReadsInv
    OBVIOUS
  <2>1. /\ retryAt = 0 /\ reading = Unread /\ recorded = 0 /\ idle = 0
        /\ place = NoPlaces /\ before = {} /\ reader = [r \in Readers |-> Elsewhere]
    BY DEF ReadsInit
  <2>2. DOMAIN place = {} /\ place \in [DOMAIN place -> [left : Int, selected : BOOLEAN]]
    BY <2>1 DEF NoPlaces
  <2>3. ReadsTyped
    BY <2>1, <2>2 DEF ReadsTyped, Elsewhere
  <2>4. ComesInTime /\ SelectionsHavePlaces
    BY <2>1 DEF ComesInTime, SelectionsHavePlaces, InWait, Elsewhere
  <2>5. GraceIsLimited /\ StillOnlyUnread /\ LineIsOrdered /\ GivenUpPlacesAge
    BY <2>1, <2>2 DEF GraceIsLimited, StillOnlyUnread, LineIsOrdered, Orders, GivenUpPlacesAge
  <2>6. AskersStandBehind /\ TheLineMovesOn
    BY <2>1 DEF AskersStandBehind, HasAsked, TheLineMovesOn, Patience
  <2> QED BY <2>3, <2>4, <2>5, <2>6 DEF ReadsInv
<1>2. ReadsInv /\ [ReadsNext]_readsVars => ReadsInv'
  <2> SUFFICES ASSUME ReadsInv, [ReadsNext]_readsVars PROVE ReadsInv'
    OBVIOUS
  <2>1. CASE UNCHANGED readsVars
    BY <2>1 DEF readsVars, ReadsInv, ReadsTyped, ComesInTime, GraceIsLimited, StillOnlyUnread,
                SelectionsHavePlaces, LineIsOrdered, GivenUpPlacesAge, AskersStandBehind,
                TheLineMovesOn, InWait, HeldBy, HasAsked, IsFirst
  <2>2. ASSUME NEW r \in Readers, Asks(r) PROVE ReadsInv'
    BY <2>2, ReadsKeeps, WaitsKeeps DEF Asks
  <2>3. ASSUME NEW r \in Readers, Served(r) PROVE ReadsInv'
    BY <2>3, ServedKeeps
  <2>4. ASSUME NEW r \in Readers, GivesUp(r) PROVE ReadsInv'
    BY <2>4, GivesUpKeeps
  <2> QED BY <2>1, <2>2, <2>3, <2>4, TickKeeps, RestartKeeps DEF ReadsNext
<1> QED BY <1>1, <1>2, PTL DEF ReadsSpec

\* However many conversations are read and however their readers come, give up
\* and are limited, the line stands still no longer than a place is kept.
THEOREM NoPlaceHoldsUpTheLine == ReadsSpec => []TheLineMovesOn
<1>1. ReadsInv => TheLineMovesOn
  BY DEF ReadsInv
<1> QED BY <1>1, ReadsInvariant, PTL

\* No recurring reader overtakes a person's selection.
THEOREM SelectionIsFirst == ReadsSpec => SelectedGoesFirst
<1>1. ReadsInv /\ [ReadsNext]_readsVars
        => [\A r \in Readers : reading # r /\ reading' = r /\ ~IsSelected(r)
              => \A s \in Readers : IsSelected(s) => reader[s].at # "waits"]_readsVars
  <2> SUFFICES ASSUME ReadsInv, ReadsNext, NEW r \in Readers, reading # r, reading' = r, ~IsSelected(r),
                      NEW s \in Readers, IsSelected(s), InWait(s)
               PROVE  FALSE
    BY DEF InWait, readsVars
  <2>1. Reads(r)
    <3>1. ASSUME NEW t \in Readers, Served(t) PROVE reading' = Unread
      BY <3>1 DEF Served, Read, LimitedTo
    <3>2. ASSUME NEW t \in Readers, Waits(t) PROVE reading' = reading
      BY <3>2 DEF Waits
    <3>3. ASSUME NEW t \in Readers, GivesUp(t) PROVE reading' = reading
      BY <3>3 DEF GivesUp
    <3>4. ASSUME NEW t \in Readers, Reads(t) PROVE reading' = t
      BY <3>4 DEF Reads
    <3>5. ReadsTick => reading' = reading
      BY DEF ReadsTick
    <3>6. ReadsRestart => reading' = Unread
      BY DEF ReadsRestart
    <3> QED BY <3>1, <3>2, <3>3, <3>4, <3>5, <3>6 DEF ReadsNext, Asks
  <2>2. ~Queued(r)
    BY <2>1 DEF Reads, MayRead
  <2>3. Chat(s) \in DOMAIN place /\ place[Chat(s)].selected /\ place[Chat(s)].left >= reader[s].due
    BY DEF ReadsInv, SelectionsHavePlaces
  <2>4. reader[s].due \in Nat /\ place[Chat(s)].left \in Int
    BY <2>3 DEF ReadsInv, ReadsTyped
  <2>5. Chat(s) \in KeptPlaces
    BY <2>3, <2>4 DEF KeptPlaces
  <2>6. ~SelectedIn(Chat(r)) /\ Chat(s) # Chat(r)
    BY <2>2, <2>3, <2>5 DEF Queued, SelectedIn
  <2>7. Asked(r)[Chat(s)] = place[Chat(s)] /\ Chat(s) \in DOMAIN Asked(r)
    BY <2>5, <2>6, AskedLine DEF ReadsInv
  <2>8. ~Asked(r)[Chat(r)].selected
    BY <2>6, AskedLine DEF Renews, ReadsInv
  <2>9. Chat(r) \in Candidates(Asked(r))
    BY <2>2 DEF Queued, IsFirst
  <2> QED BY <2>3, <2>7, <2>8, <2>9 DEF Candidates
<1> QED BY <1>1, ReadsInvariant, PTL DEF ReadsSpec, SelectedGoesFirst
=============================================================================
