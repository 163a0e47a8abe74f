-------------------------- MODULE OperationsProofs --------------------------
(***************************************************************************)
(* Proofs about RpcDelivery, BrowserOwner, FailureChain, ArtifactCapture   *)
(* and ServerAnswer: components that share no state.  The proofs of the    *)
(* first four are of one form, an invariant that says what a call, a core, *)
(* a chain or a file is known to be at each await; the last is about what  *)
(* pure functions compute.                                                 *)
(***************************************************************************)
EXTENDS RpcDelivery, BrowserOwner, FailureChain, ArtifactCapture, ServerAnswer,
        FiniteSetTheorems, WellFoundedInduction, TLAPS

(* RpcDelivery.  A mutation has at most one line at a time, and none while *)
(* it may still be sent again; its line starts it at most once.            *)

CallStates == [pc : {"idle", "connect", "waiting", "done"}, try : Nat, deferred : BOOLEAN, late : BOOLEAN,
               relayed : BOOLEAN, at : Nat, dispatched : BOOLEAN,
               outcome : {"none", "ok", "timeout", "unavailable", "lost"}]
Lines == [of : Calls, try : Nat, at : Nat, state : {"sent", "running", "answered", "deferred"}]

DeliveryTyped ==
  /\ calls \in [Calls -> CallStates] /\ lines \subseteq Lines /\ ran \in [Calls -> Nat]
  /\ serving \in Nat /\ cores \in Nat

LinesOf(k) == {r \in lines : r.of = k}
Untouched(k) == ran[k] = 0 /\ LinesOf(k) = {}
OneLine(k) == \A r, q \in LinesOf(k) : r = q
NotStarted(k) == \A r \in LinesOf(k) : r.state \in {"sent", "deferred"} => ran[k] = 0
MaySendAgain(k) ==
  \/ calls[k].pc \in {"idle", "connect"}
  \/ calls[k].pc = "done" /\ ~calls[k].dispatched

AtMostOnce(k) == OneLine(k) /\ NotStarted(k) /\ (MaySendAgain(k) => Untouched(k)) /\ ran[k] <= 1
DeliveryInv == DeliveryTyped /\ \A k \in Mutations : AtMostOnce(k)

LEMMA DeliveryStarts == DeliveryInit => DeliveryInv
<1> SUFFICES ASSUME DeliveryInit PROVE DeliveryInv
  OBVIOUS
<1>1. NoCall \in CallStates
  BY DEF NoCall, CallStates
<1>2. DeliveryTyped
  BY <1>1 DEF DeliveryInit, DeliveryTyped
<1>3. \A k \in Mutations : AtMostOnce(k)
  BY DEF DeliveryInit, Calls, AtMostOnce, OneLine, NotStarted, Untouched, LinesOf
<1> QED BY <1>2, <1>3 DEF DeliveryInv

(* What becomes of a call whose attempt went wrong.  A mutation ends,      *)
(* unless what went wrong is known to come before its operation.           *)
LEMMA HandledCall ==
  ASSUME calls \in [Calls -> CallStates], NEW k \in Calls, NEW error \in {"maintenance", "unavailable", "lost"},
         NEW dispatched \in BOOLEAN, NEW at \in Nat, Handles(k, error, dispatched, at)
  PROVE  /\ calls' \in [Calls -> CallStates]
         /\ \A q \in Calls \ {k} : calls'[q] = calls[q]
         /\ calls'[k].pc \in {"connect", "done"}
         /\ calls'[k].pc = "connect" => Again(k, error, dispatched)
         /\ calls'[k].pc = "done" => calls'[k].dispatched = dispatched /\ calls'[k].outcome = error
<1>1. CASE /\ Again(k, error, dispatched)
           /\ calls' = [calls EXCEPT ![k] =
                [@ EXCEPT !.pc = "connect", !.try = calls[k].try + 1, !.late = TRUE, !.at = at,
                          !.deferred = calls[k].deferred \/ error = "maintenance"]]
  <2> DEFINE d == calls[k].deferred \/ error = "maintenance"
             t == calls[k].try + 1
             c == [calls[k] EXCEPT !.pc = "connect", !.try = t, !.late = TRUE, !.at = at, !.deferred = d]
  <2>1. d \in BOOLEAN /\ t \in Nat
    BY DEF CallStates
  <2>2. calls' = [calls EXCEPT ![k] = c]
    BY <1>1
  <2> HIDE DEF d, t
  <2>3. c \in CallStates /\ c.pc = "connect"
    BY <2>1 DEF CallStates
  <2> HIDE DEF c
  <2> QED BY <1>1, <2>2, <2>3
<1>2. CASE error # "maintenance" /\ Ends(k, error, dispatched)
  <2> DEFINE c == [calls[k] EXCEPT !.pc = "done", !.outcome = error, !.dispatched = dispatched]
  <2>1. c \in CallStates /\ c.pc = "done" /\ c.dispatched = dispatched /\ c.outcome = error
    BY <1>2 DEF CallStates
  <2>2. calls' = [calls EXCEPT ![k] = c]
    BY <1>2 DEF Ends
  <2> HIDE DEF c
  <2> QED BY <2>1, <2>2
<1> QED BY <1>1, <1>2 DEF Handles, Again

(* A call keeps what it promises while no line is added or started, and    *)
(* when it becomes one that is sent again, nothing has come of it.         *)
LEMMA NothingStarts ==
  ASSUME NEW m \in Mutations, AtMostOnce(m), lines' \subseteq lines, ran' = ran,
         MaySendAgain(m)' => MaySendAgain(m) \/ Untouched(m)'
  PROVE  AtMostOnce(m)'
<1>1. LinesOf(m)' \subseteq LinesOf(m)
  BY DEF LinesOf
<1>2. OneLine(m)' /\ NotStarted(m)' /\ (ran[m] <= 1)'
  BY <1>1 DEF AtMostOnce, OneLine, NotStarted
<1>3. Untouched(m) => Untouched(m)'
  BY <1>1 DEF Untouched
<1> QED BY <1>2, <1>3 DEF AtMostOnce

LEMMA ErrorIsHandled ==
  ASSUME DeliveryInv, NEW k \in Calls, NEW error \in {"maintenance", "unavailable", "lost"},
         NEW dispatched \in BOOLEAN, NEW at \in Nat, Handles(k, error, dispatched, at),
         lines' \subseteq lines, UNCHANGED coreVars,
         \/ MaySendAgain(k)
         \/ error = "lost" /\ dispatched
         \/ k \in Mutations => Untouched(k)'
  PROVE  DeliveryInv'
<1>1. DeliveryTyped'
  BY HandledCall DEF DeliveryInv, DeliveryTyped, coreVars
<1>2. ASSUME NEW m \in Mutations PROVE AtMostOnce(m)'
  <2>1. AtMostOnce(m) /\ m \in Calls /\ m \notin Reads
    BY MutationsAreNoReads DEF DeliveryInv, Calls
  <2>2. CASE m = k
    <3>1. MaySendAgain(m)' => MaySendAgain(m) \/ Untouched(m)'
      BY <2>1, <2>2, HandledCall DEF DeliveryInv, DeliveryTyped, MaySendAgain, Again
    <3> QED BY <2>1, <3>1, NothingStarts DEF coreVars
  <2>3. CASE m # k
    <3>1. MaySendAgain(m)' => MaySendAgain(m)
      BY <2>1, <2>3, HandledCall DEF DeliveryInv, DeliveryTyped, MaySendAgain
    <3> QED BY <2>1, <3>1, NothingStarts DEF coreVars
  <2> QED BY <2>2, <2>3
<1> QED BY <1>1, <1>2 DEF DeliveryInv

LEMMA BeginsKeeps ==
  ASSUME DeliveryInv, NEW k \in Calls, NEW relayed \in BOOLEAN, Begins(k, relayed)
  PROVE  DeliveryInv'
<1> DEFINE c == [calls[k] EXCEPT !.pc = "connect", !.try = 1, !.relayed = relayed]
<1>1. c \in CallStates /\ c.pc = "connect" /\ calls' = [calls EXCEPT ![k] = c]
  BY DEF DeliveryInv, DeliveryTyped, Begins, CallStates
<1> HIDE DEF c
<1>2. DeliveryTyped'
  BY <1>1 DEF DeliveryInv, DeliveryTyped, Begins, coreVars
<1>3. ASSUME NEW m \in Mutations PROVE AtMostOnce(m)'
  <2>1. MaySendAgain(m)' => MaySendAgain(m)
    BY <1>1 DEF DeliveryInv, DeliveryTyped, Begins, MaySendAgain, Calls
  <2> QED BY <2>1, NothingStarts DEF DeliveryInv, Begins, coreVars
<1> QED BY <1>2, <1>3 DEF DeliveryInv

LEMMA DispatchesKeeps ==
  ASSUME DeliveryInv, NEW k \in Calls, Dispatches(k)
  PROVE  DeliveryInv'
<1> DEFINE at == IF calls[k].relayed THEN serving ELSE 0
           c == [calls[k] EXCEPT !.pc = "waiting", !.at = at]
           l == Line(k)
<1>0. calls \in [Calls -> CallStates] /\ serving \in Nat
  BY DEF DeliveryInv, DeliveryTyped
<1>1. at \in Nat
  BY <1>0
<1>2. calls' = [calls EXCEPT ![k] = c]
  BY DEF Dispatches, Writes
<1> HIDE DEF at
<1>3. c \in CallStates /\ c.pc = "waiting"
  BY <1>0, <1>1 DEF CallStates
<1>4. l \in Lines /\ l.of = k /\ l.state = "sent" /\ lines' = lines \cup {l}
  BY <1>0 DEF Dispatches, Writes, Line, Lines, CallStates
<1> HIDE DEF c, l
<1>5. DeliveryTyped'
  BY <1>0, <1>2, <1>3, <1>4 DEF DeliveryInv, DeliveryTyped, Dispatches, Writes, coreVars
<1>6. ASSUME NEW m \in Mutations PROVE AtMostOnce(m)'
  <2>1. AtMostOnce(m) /\ m \in Calls /\ ran'[m] = ran[m]
    BY DEF DeliveryInv, Calls, Dispatches, Writes, coreVars
  <2>2. CASE m = k
    <3>1. ran[m] = 0 /\ LinesOf(m) = {}
      BY <2>1, <2>2 DEF Dispatches, AtMostOnce, MaySendAgain, Untouched
    <3>2. LinesOf(m)' = {l}
      BY <1>4, <2>2, <3>1 DEF LinesOf
    <3>3. ~MaySendAgain(m)'
      BY <1>0, <1>2, <1>3, <2>2 DEF MaySendAgain
    <3> QED BY <2>1, <3>1, <3>2, <3>3 DEF AtMostOnce, OneLine, NotStarted
  <2>3. CASE m # k
    <3>1. LinesOf(m)' = LinesOf(m)
      BY <1>4, <2>3 DEF LinesOf
    <3>2. MaySendAgain(m)' => MaySendAgain(m)
      BY <1>0, <1>2, <2>1, <2>3 DEF MaySendAgain
    <3> QED BY <2>1, <3>1, <3>2 DEF AtMostOnce, OneLine, NotStarted, Untouched
  <2> QED BY <2>2, <2>3
<1> QED BY <1>5, <1>6 DEF DeliveryInv

LEMMA EndedCall ==
  ASSUME calls \in [Calls -> CallStates], NEW k \in Calls, NEW outcome \in {"ok", "timeout"},
         NEW dispatched \in BOOLEAN, Ends(k, outcome, dispatched)
  PROVE  /\ calls' \in [Calls -> CallStates]
         /\ \A q \in Calls \ {k} : calls'[q] = calls[q]
         /\ calls'[k].pc = "done" /\ calls'[k].dispatched = dispatched /\ calls'[k].outcome = outcome
<1> DEFINE c == [calls[k] EXCEPT !.pc = "done", !.outcome = outcome, !.dispatched = dispatched]
<1>1. c \in CallStates /\ c.pc = "done" /\ c.dispatched = dispatched /\ c.outcome = outcome
  BY DEF CallStates
<1>2. calls' = [calls EXCEPT ![k] = c]
  BY DEF Ends
<1> HIDE DEF c
<1> QED BY <1>1, <1>2

LEMMA AnsweredKeeps ==
  ASSUME DeliveryInv, NEW k \in Calls, NEW r \in lines, Answered(k, r)
  PROVE  DeliveryInv'
<1>0. calls \in [Calls -> CallStates] /\ lines' \subseteq lines /\ UNCHANGED coreVars
  BY DEF DeliveryInv, DeliveryTyped, Answered
<1>1. CASE Ends(k, "ok", TRUE)
  <2>1. DeliveryTyped'
    BY <1>0, <1>1, EndedCall DEF DeliveryInv, DeliveryTyped, coreVars
  <2>2. ASSUME NEW m \in Mutations PROVE AtMostOnce(m)'
    <3>1. m \in Calls /\ AtMostOnce(m)
      BY DEF Calls, DeliveryInv
    <3>2. MaySendAgain(m)' => MaySendAgain(m)
      BY <1>0, <1>1, <3>1, EndedCall DEF MaySendAgain
    <3> QED BY <1>0, <3>1, <3>2, NothingStarts DEF coreVars
  <2> QED BY <2>1, <2>2 DEF DeliveryInv
<1>2. CASE /\ k \in Reads
           /\ calls' = [calls EXCEPT ![k] = [@ EXCEPT !.pc = "connect", !.try = calls[k].try + 1,
                                                      !.deferred = FALSE, !.late = FALSE]]
  <2> DEFINE t == calls[k].try + 1
             c == [calls[k] EXCEPT !.pc = "connect", !.try = t, !.deferred = FALSE, !.late = FALSE]
  <2>1. calls' = [calls EXCEPT ![k] = c]
    BY <1>2
  <2>2. t \in Nat
    BY <1>0 DEF CallStates
  <2> HIDE DEF t
  <2>3. c \in CallStates
    BY <1>0, <2>2 DEF CallStates
  <2> HIDE DEF c
  <2>4. DeliveryTyped'
    BY <1>0, <2>1, <2>3 DEF DeliveryInv, DeliveryTyped, coreVars
  <2>5. ASSUME NEW m \in Mutations PROVE AtMostOnce(m)'
    <3>1. m \in Calls /\ AtMostOnce(m) /\ m # k
      BY <1>2, MutationsAreNoReads DEF Calls, DeliveryInv
    <3>2. MaySendAgain(m)' => MaySendAgain(m)
      BY <1>0, <2>1, <3>1 DEF MaySendAgain
    <3> QED BY <1>0, <3>1, <3>2, NothingStarts DEF coreVars
  <2> QED BY <2>4, <2>5 DEF DeliveryInv
<1> QED BY <1>1, <1>2 DEF Answered

LEMMA DeferredKeeps ==
  ASSUME DeliveryInv, NEW k \in Calls, NEW r \in lines, Deferred(k, r)
  PROVE  DeliveryInv'
<1>1. lines' \subseteq lines /\ UNCHANGED coreVars /\ calls[k].at \in Nat
  BY DEF DeliveryInv, DeliveryTyped, CallStates, Deferred
<1>2. ASSUME k \in Mutations PROVE Untouched(k)'
  <2>1. AtMostOnce(k) /\ r \in LinesOf(k)
    BY <1>2 DEF DeliveryInv, Deferred, LinesOf
  <2>2. ran[k] = 0 /\ LinesOf(k)' = {}
    BY <2>1 DEF AtMostOnce, OneLine, NotStarted, LinesOf, Deferred
  <2> QED BY <1>1, <2>2 DEF Untouched, coreVars
<1> QED BY <1>1, <1>2, ErrorIsHandled DEF Deferred

LEMMA TimesOutKeeps ==
  ASSUME DeliveryInv, NEW k \in Calls, TimesOut(k)
  PROVE  DeliveryInv'
<1> DEFINE d == calls[k].pc = "waiting"
<1>0. /\ calls \in [Calls -> CallStates] /\ lines' \subseteq lines /\ UNCHANGED coreVars
      /\ d \in BOOLEAN /\ Ends(k, "timeout", d) /\ (d \/ calls[k].pc = "connect")
  BY DEF DeliveryInv, DeliveryTyped, TimesOut
<1>1. d => calls[k].pc = "waiting"
  OBVIOUS
<1> HIDE DEF d
<1>2. DeliveryTyped'
  BY <1>0, EndedCall DEF DeliveryInv, DeliveryTyped, coreVars
<1>3. ASSUME NEW m \in Mutations PROVE AtMostOnce(m)'
  <2>1. m \in Calls /\ AtMostOnce(m)
    BY DEF Calls, DeliveryInv
  <2>2. MaySendAgain(m)' => MaySendAgain(m)
    BY <1>0, <2>1, EndedCall DEF MaySendAgain
  <2> QED BY <1>0, <2>1, <2>2, NothingStarts DEF coreVars
<1> QED BY <1>2, <1>3 DEF DeliveryInv

(* The core's side: a line gets another state, or is gone.                 *)
LEMMA LineBecomes ==
  ASSUME lines \subseteq Lines, NEW r \in lines, NEW state \in {"running", "answered", "deferred"},
         Become(r, state)
  PROVE  /\ lines' \subseteq Lines
         /\ \A m \in Calls : m # r.of => LinesOf(m)' = LinesOf(m)
         /\ \A m \in Calls : m = r.of /\ OneLine(m) =>
              OneLine(m)' /\ \A q \in LinesOf(m)' : q.state = state
<1> DEFINE n == [r EXCEPT !.state = state]
<1>1. n \in Lines /\ n.of = r.of /\ n.state = state /\ lines' = (lines \ {r}) \cup {n}
  BY DEF Lines, Become
<1> HIDE DEF n
<1> QED BY <1>1 DEF LinesOf, OneLine

LEMMA AnswersLine ==
  ASSUME lines \subseteq Lines, NEW r \in lines, NEW state \in {"answered", "deferred"}, Answers(r, state)
  PROVE  /\ lines' \subseteq Lines
         /\ \A m \in Calls : m # r.of => LinesOf(m)' = LinesOf(m)
         /\ \A m \in Calls : m = r.of /\ OneLine(m) =>
              OneLine(m)' /\ \A q \in LinesOf(m)' : q.state = state
<1>1. CASE Become(r, state)
  BY <1>1, LineBecomes
<1>2. CASE lines' = lines \ {r}
  BY <1>2 DEF LinesOf, OneLine
<1> QED BY <1>1, <1>2 DEF Answers

LEMMA AdmitsKeeps ==
  ASSUME DeliveryInv, NEW r \in lines, Admits(r)
  PROVE  DeliveryInv'
<1>0. /\ lines \subseteq Lines /\ ran \in [Calls -> Nat] /\ r.of \in Calls /\ calls' = calls
      /\ \A m \in Mutations : AtMostOnce(m) /\ m \in Calls
  BY DEF DeliveryInv, DeliveryTyped, Lines, Admits, Calls
<1>1. CASE Answers(r, "deferred") /\ UNCHANGED ran
  <2>1. DeliveryTyped'
    BY <1>0, <1>1, AnswersLine DEF DeliveryInv, DeliveryTyped, Admits
  <2>2. ASSUME NEW m \in Mutations PROVE AtMostOnce(m)'
    <3>1. CASE m # r.of
      BY <1>0, <1>1, <3>1, AnswersLine DEF AtMostOnce, OneLine, NotStarted, Untouched, MaySendAgain
    <3>2. CASE m = r.of
      <4>1. r \in LinesOf(m)
        BY <3>2 DEF LinesOf
      <4>2. ran[m] = 0 /\ ~MaySendAgain(m)
        BY <1>0, <4>1 DEF Admits, AtMostOnce, NotStarted, Untouched
      <4>3. OneLine(m)'
        BY <1>0, <1>1, <3>2, AnswersLine DEF AtMostOnce
      <4> QED BY <1>0, <1>1, <4>2, <4>3 DEF AtMostOnce, NotStarted, MaySendAgain
    <3> QED BY <3>1, <3>2
  <2> QED BY <2>1, <2>2 DEF DeliveryInv
<1>2. CASE Become(r, "running") /\ ran' = [ran EXCEPT ![r.of] = @ + 1]
  <2>1. DeliveryTyped'
    BY <1>0, <1>2, LineBecomes DEF DeliveryInv, DeliveryTyped, Admits
  <2>2. ASSUME NEW m \in Mutations PROVE AtMostOnce(m)'
    <3>1. CASE m # r.of
      <4>1. LinesOf(m)' = LinesOf(m) /\ ran'[m] = ran[m]
        BY <1>0, <1>2, <3>1, LineBecomes
      <4> QED BY <1>0, <4>1 DEF AtMostOnce, OneLine, NotStarted, Untouched, MaySendAgain
    <3>2. CASE m = r.of
      <4>1. r \in LinesOf(m)
        BY <3>2 DEF LinesOf
      <4>2. ran[m] = 0 /\ ~MaySendAgain(m)
        BY <1>0, <4>1 DEF Admits, AtMostOnce, NotStarted, Untouched
      <4>3. OneLine(m)' /\ NotStarted(m)'
        BY <1>0, <1>2, <3>2, LineBecomes DEF AtMostOnce, NotStarted
      <4>4. ran'[m] = 1
        BY <1>0, <1>2, <3>2, <4>2
      <4> QED BY <1>0, <4>2, <4>3, <4>4 DEF AtMostOnce, MaySendAgain
    <3> QED BY <3>1, <3>2
  <2> QED BY <2>1, <2>2 DEF DeliveryInv
<1> QED BY <1>1, <1>2 DEF Admits

LEMMA CompletesKeeps ==
  ASSUME DeliveryInv, NEW r \in lines, Completes(r)
  PROVE  DeliveryInv'
<1>0. /\ lines \subseteq Lines /\ r.of \in Calls /\ calls' = calls /\ ran' = ran
      /\ Answers(r, "answered") /\ \A m \in Mutations : AtMostOnce(m) /\ m \in Calls
  BY DEF DeliveryInv, DeliveryTyped, Lines, Completes, Calls, coreVars
<1>1. DeliveryTyped'
  BY <1>0, AnswersLine DEF DeliveryInv, DeliveryTyped, Completes, coreVars
<1>2. ASSUME NEW m \in Mutations PROVE AtMostOnce(m)'
  <2>1. CASE m # r.of
    BY <1>0, <2>1, AnswersLine DEF AtMostOnce, OneLine, NotStarted, Untouched, MaySendAgain
  <2>2. CASE m = r.of
    <3>1. ~MaySendAgain(m)
      BY <1>0, <2>2 DEF AtMostOnce, Untouched, LinesOf
    <3>2. OneLine(m)' /\ NotStarted(m)'
      BY <1>0, <2>2, AnswersLine DEF AtMostOnce, NotStarted
    <3> QED BY <1>0, <3>1, <3>2 DEF AtMostOnce, MaySendAgain
  <2> QED BY <2>1, <2>2
<1> QED BY <1>1, <1>2 DEF DeliveryInv

LEMMA CoresComeAndGo ==
  ASSUME DeliveryInv, PausesOrResumes \/ Exits \/ Listens
  PROVE  DeliveryInv'
<1>1. calls' = calls /\ ran' = ran /\ lines' \subseteq lines /\ serving' \in Nat /\ cores' \in Nat
  BY DEF PausesOrResumes, Exits, Listens, DeliveryInv, DeliveryTyped
<1>2. DeliveryTyped'
  BY <1>1 DEF DeliveryInv, DeliveryTyped
<1>3. ASSUME NEW m \in Mutations PROVE AtMostOnce(m)'
  BY <1>1, NothingStarts DEF DeliveryInv, MaySendAgain
<1> QED BY <1>2, <1>3 DEF DeliveryInv

LEMMA DeliveryMoves == DeliveryInv /\ [DeliveryNext]_deliveryVars => DeliveryInv'
<1> SUFFICES ASSUME DeliveryInv, [DeliveryNext]_deliveryVars PROVE DeliveryInv'
  OBVIOUS
<1>1. ASSUME NEW k \in Calls, NEW relayed \in BOOLEAN, Begins(k, relayed) PROVE DeliveryInv'
  BY <1>1, BeginsKeeps
<1>2. ASSUME NEW k \in Calls, Dispatches(k) PROVE DeliveryInv'
  BY <1>2, DispatchesKeeps
<1>3. ASSUME NEW k \in Calls, NobodyListens(k) PROVE DeliveryInv'
  <2>1. MaySendAgain(k) /\ Handles(k, "unavailable", FALSE, 0) /\ lines' \subseteq lines /\ UNCHANGED coreVars
    BY <1>3 DEF NobodyListens, MaySendAgain
  <2> QED BY <2>1, ErrorIsHandled
<1>4. ASSUME NEW k \in Calls, KeptIsGone(k) PROVE DeliveryInv'
  <2>1. MaySendAgain(k) /\ lines' \subseteq lines /\ UNCHANGED coreVars
    BY <1>4 DEF KeptIsGone, MaySendAgain
  <2>2. Handles(k, "unavailable", FALSE, 0) \/ Handles(k, "lost", TRUE, 0)
    BY <1>4 DEF KeptIsGone
  <2>3. CASE Handles(k, "unavailable", FALSE, 0)
    BY <2>1, <2>3, ErrorIsHandled
  <2>4. CASE Handles(k, "lost", TRUE, 0)
    BY <2>1, <2>4, ErrorIsHandled
  <2> QED BY <2>2, <2>3, <2>4
<1>5. ASSUME NEW k \in Calls, Breaks(k) PROVE DeliveryInv'
  <2>1. Handles(k, "lost", TRUE, 0) /\ lines' \subseteq lines /\ UNCHANGED coreVars
    BY <1>5 DEF Breaks
  <2> QED BY <2>1, ErrorIsHandled
<1>6. ASSUME NEW k \in Calls, TimesOut(k) PROVE DeliveryInv'
  BY <1>6, TimesOutKeeps
<1>7. ASSUME NEW k \in Calls, NEW r \in lines, Answered(k, r) \/ Deferred(k, r) PROVE DeliveryInv'
  BY <1>7, AnsweredKeeps, DeferredKeeps
<1>8. ASSUME NEW r \in lines, Admits(r) \/ Completes(r) PROVE DeliveryInv'
  BY <1>8, AdmitsKeeps, CompletesKeeps
<1>9. CASE PausesOrResumes \/ Exits \/ Listens
  BY <1>9, CoresComeAndGo
<1>10. CASE UNCHANGED deliveryVars
  BY <1>10 DEF deliveryVars, DeliveryInv, DeliveryTyped, AtMostOnce, OneLine, NotStarted, Untouched,
               MaySendAgain, LinesOf
<1> QED
  BY <1>1, <1>2, <1>3, <1>4, <1>5, <1>6, <1>7, <1>8, <1>9, <1>10 DEF DeliveryNext

(* One call, its lines and what the cores made of them, through breaks,    *)
(* deferrals, time-outs and cores: the invariant of callTransport.         *)
THEOREM DeliveryInvariant == DeliverySpec => []DeliveryInv
BY DeliveryStarts, DeliveryMoves, PTL DEF DeliverySpec

(* A mutation that a client asks for once is started at most once, by      *)
(* whichever cores read its lines ("a dispatched mutation is never         *)
(* replayed automatically").                                               *)
THEOREM MutationsStartOnce == DeliverySpec => []StartedOnce
<1>1. DeliveryInv => StartedOnce
  BY DEF DeliveryInv, AtMostOnce, StartedOnce
<1> QED BY DeliveryInvariant, <1>1, PTL

(* A client that is told its mutation was not dispatched, or deferred, can *)
(* rely on it: nothing has run and no line is left that will.              *)
THEOREM UndispatchedIsTrue == DeliverySpec => []UndispatchedNeverRuns
<1>1. DeliveryInv => UndispatchedNeverRuns
  BY DEF DeliveryInv, AtMostOnce, MaySendAgain, Untouched, LinesOf, UndispatchedNeverRuns
<1> QED BY DeliveryInvariant, <1>1, PTL

(* BrowserOwner.  While one core lives at a time, the lock names the one   *)
(* browser that runs, and a core that is past looking knows of no other.   *)

OwnStates == [state : {"off", "dead", "stopped", "starting", "error", "manual", "ready", "disconnected", "stopping"},
              pc : {"idle", "acquire", "probe", "launch", "connect", "close", "signing", "sign-in"},
              token : BOOLEAN, browser : Browsers \cup {Nobody}, own : {"none", "adopted", "spawned", "manual"},
              then : {"stay", "start", "reset", "stop"}, served : BOOLEAN]

OwnTyped ==
  /\ core \in [Cores -> OwnStates] /\ lock \in Locks \cup {Free}
  /\ running \subseteq Browsers

OneAlive == \A c, d \in Cores : Alive(c) /\ Alive(d) => c = d

\* What the lock names is the only browser there is.
Named == \A b \in running : lock # Free /\ lock.browser = b

\* A core that has served, or holds the lock by now, knows of every browser.
Knows(c) ==
  core[c].served \/ core[c].pc \in {"launch", "connect", "close", "signing", "sign-in"}
    => running \subseteq {core[c].browser}

Rests(c) ==
  /\ core[c].state \in {"off", "dead", "stopped"} =>
       core[c].pc = "idle" /\ core[c].browser = Nobody /\ ~core[c].token
  /\ core[c].state \in {"ready", "disconnected", "error", "manual", "stopped"} => core[c].served
  /\ core[c].pc \in {"close", "signing", "sign-in"} => core[c].served
  /\ core[c].state = "off" => ~core[c].served
  /\ core[c].pc = "acquire" => core[c].browser = Nobody /\ ~core[c].token
  /\ core[c].pc = "probe" => /\ ~core[c].served /\ ~core[c].token
                             /\ lock # Free /\ lock.browser = core[c].browser
  /\ core[c].pc \in {"launch", "sign-in"} => core[c].browser = Nobody
  /\ core[c].pc = "connect" => core[c].own = "spawned" \/ ~core[c].served

OwnInv ==
  /\ OwnTyped /\ OneAlive /\ Named
  /\ \A c \in Cores : Rests(c) /\ (Alive(c) => Knows(c))

LEMMA OwnStarts == OwnInit => OwnInv
<1> SUFFICES ASSUME OwnInit PROVE OwnInv
  OBVIOUS
<1>1. NoCore \in OwnStates /\ \A c \in Cores : core[c] = NoCore
  BY DEF OwnInit, NoCore, OwnStates
<1>2. OwnTyped
  BY <1>1 DEF OwnInit, OwnTyped
<1>3. \A c \in Cores : ~Alive(c) /\ Rests(c)
  BY <1>1 DEF NoCore, Alive, Rests
<1> QED BY <1>2, <1>3 DEF OwnInit, OwnInv, OneAlive, Named

(* What the others rely on, when a core that is the only one alive moves.  *)
LEMMA OneMoves ==
  ASSUME OwnInv, NEW c \in Cores, NEW new \in OwnStates, To(c, new), \A d \in Cores \ {c} : ~Alive(d)
  PROVE  /\ core' \in [Cores -> OwnStates] /\ core'[c] = new
         /\ OneAlive'
         /\ \A d \in Cores \ {c} : core'[d] = core[d] /\ ~Alive(d)' /\ Rests(d)'
<1>1. core' \in [Cores -> OwnStates] /\ core'[c] = new /\ \A d \in Cores \ {c} : core'[d] = core[d]
  BY DEF To, OwnInv, OwnTyped
<1>2. \A d \in Cores \ {c} : ~Alive(d)'
  BY <1>1 DEF Alive
<1>3. \A d \in Cores \ {c} : Rests(d)'
  BY <1>1, <1>2 DEF OwnInv, Rests, Alive
<1> QED BY <1>1, <1>2, <1>3 DEF OneAlive

LEMMA NobodyElse ==
  ASSUME OwnInv, NEW c \in Cores, Alive(c)
  PROVE  /\ core[c] \in OwnStates /\ Rests(c) /\ Knows(c) /\ \A d \in Cores \ {c} : ~Alive(d)
BY DEF OwnInv, OwnTyped, OneAlive

(* A core at rest holds nothing, and its start or its death tells nobody.  *)
LEMMA RestingState ==
  ASSUME NEW c \in Cores, core[c] \in OwnStates, NEW state \in {"dead", "stopped", "error", "starting"}
  PROVE  /\ Resting(c, state) \in OwnStates
         /\ Resting(c, state).state = state /\ Resting(c, state).pc = "idle" /\ ~Resting(c, state).token
         /\ Resting(c, state).browser = Nobody /\ Resting(c, state).served = core[c].served
BY DEF OwnStates, Resting

(* A failed start: what the core has launched ends with it.                *)
LEMMA FailsKeeps ==
  ASSUME OwnInv, NEW c \in Cores, Alive(c), running' \subseteq running,
         To(c, Failed(c)), lock' \in Locks \cup {Free},
         core[c].served => running' = {}, Named'
  PROVE  OwnInv'
<1> DEFINE new == Failed(c)
<1>0. core[c] \in OwnStates /\ Rests(c) /\ \A d \in Cores \ {c} : ~Alive(d)
  BY NobodyElse
<1>1. /\ new \in OwnStates /\ new.state = (IF core[c].served THEN "error" ELSE "dead") /\ new.pc = "idle"
      /\ ~new.token /\ new.browser = Nobody /\ new.served = core[c].served
  BY <1>0, RestingState DEF Failed
<1>2. To(c, new)
  OBVIOUS
<1> HIDE DEF new
<1>3. /\ core' \in [Cores -> OwnStates] /\ core'[c] = new /\ OneAlive'
      /\ \A d \in Cores \ {c} : ~Alive(d)' /\ Rests(d)'
  BY <1>0, <1>1, <1>2, OneMoves
<1>4. OwnTyped'
  BY <1>3 DEF OwnInv, OwnTyped
<1>5. Rests(c)' /\ (Alive(c)' => Knows(c)')
  BY <1>1, <1>3 DEF Rests, Alive, Knows
<1> QED BY <1>3, <1>4, <1>5 DEF OwnInv

LEMMA ServeKeeps ==
  ASSUME OwnInv, Overlap = FALSE, NEW c \in Cores, Serve(c)
  PROVE  OwnInv'
<1> DEFINE new == [core[c] EXCEPT !.state = "starting", !.pc = "acquire"]
<1>0. /\ core[c] \in OwnStates /\ Rests(c) /\ (Alive(c) => Knows(c)) /\ UNCHANGED <<lock, running>>
      /\ core[c].state \in {"off", "stopped"} /\ \A d \in Cores \ {c} : ~Alive(d)
  BY DEF OwnInv, OwnTyped, OneAlive, Serve, Alive
<1>1. /\ new \in OwnStates /\ new.state = "starting" /\ new.pc = "acquire" /\ new.token = core[c].token
      /\ new.browser = core[c].browser /\ new.served = core[c].served
  BY <1>0 DEF OwnStates
<1>2. To(c, new)
  BY DEF Serve
<1> HIDE DEF new
<1>3. /\ core' \in [Cores -> OwnStates] /\ core'[c] = new /\ OneAlive'
      /\ \A d \in Cores \ {c} : ~Alive(d)' /\ Rests(d)'
  BY <1>0, <1>1, <1>2, OneMoves
<1>4. Rests(c)' /\ Knows(c)'
  BY <1>0, <1>1, <1>3 DEF Rests, Alive, Knows
<1> QED BY <1>0, <1>3, <1>4 DEF OwnInv, OwnTyped, Named

LEMMA CoreMoves ==
  ASSUME OwnInv, NEW c \in Cores, Alive(c), NEW new \in OwnStates, To(c, new),
         running' \subseteq Browsers, lock' \in Locks \cup {Free}, Named',
         Rests(c)', Alive(c)' => Knows(c)'
  PROVE  OwnInv'
<1>1. /\ core' \in [Cores -> OwnStates] /\ OneAlive'
      /\ \A d \in Cores \ {c} : ~Alive(d)' /\ Rests(d)'
  BY NobodyElse, OneMoves
<1> QED BY <1>1 DEF OwnInv, OwnTyped

LEMMA AcquiresKeeps ==
  ASSUME OwnInv, NEW c \in Cores, Acquires(c)
  PROVE  OwnInv'
<1> DEFINE stale == lock # Free /\ ~Alive(lock.owner)
           left == stale /\ lock.browser \in running
<1>0. /\ core \in [Cores -> OwnStates] /\ core[c] \in OwnStates /\ core[c].pc = "acquire" /\ running \subseteq Browsers
      /\ lock \in Locks \cup {Free} /\ Rests(c) /\ Named
  BY DEF OwnInv, OwnTyped, Acquires
<1>1. Alive(c) /\ core[c].browser = Nobody /\ ~core[c].token /\ Nobody \notin running
  BY <1>0, NobodyIsNoProcess DEF Rests, Alive
<1>2. core[c].served => running = {}
  BY <1>0, <1>1 DEF OwnInv, Knows
<1>3. CASE Fails(c)
  <2>1. lock' = lock /\ running' = running /\ To(c, Failed(c))
    BY <1>1, <1>3 DEF Fails, Released, Surviving
  <2> QED BY <1>0, <1>1, <1>2, <2>1, FailsKeeps DEF Named
<1>4. CASE /\ lock = Free \/ (stale /\ ~left)
           /\ lock' = Lock(c, Nobody, "none")
           /\ To(c, [core[c] EXCEPT !.pc = "launch", !.token = TRUE]) /\ UNCHANGED running
  <2> DEFINE new == [core[c] EXCEPT !.pc = "launch", !.token = TRUE]
  <2>1. running = {} /\ running' = {}
    BY <1>0, <1>4 DEF Named
  <2>2. lock' \in Locks
    BY <1>4 DEF Lock, Locks
  <2>3. /\ new \in OwnStates /\ new.pc = "launch" /\ new.browser = Nobody /\ new.state = core[c].state
        /\ new.served = core[c].served /\ To(c, new)
    BY <1>0, <1>1, <1>4 DEF OwnStates
  <2> HIDE DEF new
  <2>4. core'[c] = new
    BY <1>0, <2>3 DEF To
  <2>5. Rests(c)' /\ Knows(c)' /\ Named'
    BY <1>0, <1>1, <2>1, <2>3, <2>4 DEF Rests, Alive, Knows, Named
  <2> QED BY <1>1, <2>1, <2>2, <2>3, <2>5, CoreMoves
<1>5. CASE /\ left
           /\ lock' = Lock(c, lock.browser, "manual")
           /\ To(c, [core[c] EXCEPT !.state = "manual", !.pc = "idle", !.token = TRUE,
                                    !.browser = lock.browser, !.own = "manual", !.served = TRUE])
           /\ UNCHANGED running
  <2> DEFINE b == lock.browser
             new == [core[c] EXCEPT !.state = "manual", !.pc = "idle", !.token = TRUE,
                                    !.browser = b, !.own = "manual", !.served = TRUE]
  <2>1. b \in Browsers \cup {Nobody} /\ running \subseteq {b} /\ running' = running
    BY <1>0, <1>5 DEF Named
  <2>2. lock' = Lock(c, b, "manual") /\ To(c, new)
    BY <1>5
  <2> HIDE DEF b
  <2>3. lock' \in Locks /\ lock'.browser = b
    BY <2>1, <2>2 DEF Lock, Locks
  <2>4. /\ new \in OwnStates /\ new.pc = "idle" /\ new.browser = b /\ new.state = "manual" /\ new.served
    BY <1>0, <2>1 DEF OwnStates
  <2> HIDE DEF new
  <2>5. core'[c] = new
    BY <1>0, <2>2 DEF To
  <2>6. Free \notin Locks
    BY NobodyIsNoLock DEF Free
  <2>7. Rests(c)' /\ Knows(c)' /\ Named'
    BY <2>1, <2>3, <2>4, <2>5, <2>6 DEF Rests, Alive, Knows, Named
  <2> QED BY <1>0, <1>1, <2>1, <2>2, <2>3, <2>4, <2>7, CoreMoves
<1>6. CASE /\ left
           /\ To(c, [core[c] EXCEPT !.pc = "probe", !.browser = lock.browser]) /\ UNCHANGED <<lock, running>>
  <2> DEFINE b == lock.browser
             new == [core[c] EXCEPT !.pc = "probe", !.browser = b]
  <2>1. b \in Browsers \cup {Nobody} /\ b \in running /\ lock # Free
    BY <1>0, <1>6
  <2>2. To(c, new) /\ UNCHANGED <<lock, running>>
    BY <1>6
  <2>3. lock.browser = b
    OBVIOUS
  <2> HIDE DEF b
  <2>4. /\ new \in OwnStates /\ new.pc = "probe" /\ new.browser = b /\ new.state = core[c].state
        /\ new.served = core[c].served /\ new.token = core[c].token
    BY <1>0, <2>1 DEF OwnStates
  <2> HIDE DEF new
  <2>5. core'[c] = new
    BY <1>0, <2>2 DEF To
  <2>6. ~core[c].served
    BY <1>2, <2>1
  <2>7. lock' # Free /\ lock'.browser = b
    BY <2>1, <2>2, <2>3
  <2>8. Rests(c)' /\ Knows(c)'
    BY <1>0, <1>1, <2>4, <2>5, <2>6, <2>7 DEF Rests, Alive, Knows
  <2>9. Named'
    BY <1>0, <2>2 DEF Named
  <2> QED BY <1>0, <1>1, <2>2, <2>4, <2>8, <2>9, CoreMoves
<1> QED BY <1>3, <1>4, <1>5, <1>6 DEF Acquires

LEMMA AdoptsKeeps ==
  ASSUME OwnInv, NEW c \in Cores, Adopts(c)
  PROVE  OwnInv'
<1>0. /\ core \in [Cores -> OwnStates] /\ core[c] \in OwnStates /\ core[c].pc = "probe" /\ running \subseteq Browsers
      /\ lock \in Locks \cup {Free} /\ Rests(c) /\ Named /\ running' = running
  BY DEF OwnInv, OwnTyped, Adopts
<1>1. Alive(c) /\ ~core[c].served /\ lock # Free /\ lock.browser = core[c].browser
  BY <1>0 DEF Rests, Alive
<1>2. CASE To(c, Failed(c)) /\ UNCHANGED lock
  BY <1>0, <1>1, <1>2, FailsKeeps DEF Named
<1>3. CASE /\ lock' = Lock(c, core[c].browser, "cdp")
           /\ To(c, [core[c] EXCEPT !.pc = "connect", !.token = TRUE, !.own = "adopted"])
  <2> DEFINE new == [core[c] EXCEPT !.pc = "connect", !.token = TRUE, !.own = "adopted"]
  <2>1. /\ new \in OwnStates /\ new.pc = "connect" /\ new.browser = core[c].browser /\ new.state = core[c].state
        /\ new.served = core[c].served /\ To(c, new)
    BY <1>0, <1>3 DEF OwnStates
  <2> HIDE DEF new
  <2>2. core'[c] = new
    BY <1>0, <2>1 DEF To
  <2>3. lock' \in Locks /\ lock'.browser = core[c].browser /\ lock' # Free
    BY <1>0, <1>3, NobodyIsNoLock DEF Lock, Locks, OwnStates, Free
  <2>4. Named'
    BY <1>0, <1>1, <2>3 DEF Named
  <2>5. Rests(c)' /\ Knows(c)'
    BY <1>0, <1>1, <2>1, <2>2 DEF Rests, Alive, Knows, Named
  <2> QED BY <1>0, <1>1, <2>1, <2>3, <2>4, <2>5, CoreMoves
<1> QED BY <1>2, <1>3 DEF Adopts

LEMMA LaunchesKeeps ==
  ASSUME OwnInv, NEW c \in Cores, NEW b \in Browsers, NEW mode \in {"cdp", "manual"}, Launches(c, b, mode)
  PROVE  OwnInv'
<1>0. /\ core \in [Cores -> OwnStates] /\ core[c] \in OwnStates /\ core[c].pc \in {"launch", "sign-in"}
      /\ running \subseteq Browsers /\ lock \in Locks \cup {Free} /\ Rests(c) /\ Named
  BY DEF OwnInv, OwnTyped, Launches
<1>1. Alive(c) /\ core[c].browser = Nobody
  BY <1>0 DEF Rests, Alive
<1>2. running = {}
  BY <1>0, <1>1, NobodyIsNoProcess DEF OwnInv, Knows
<1>3. CASE Fails(c)
  <2>1. running' = {} /\ lock' \in {lock, Free} /\ To(c, Failed(c))
    BY <1>2, <1>3 DEF Fails, Surviving, Released
  <2> QED BY <1>0, <1>1, <1>2, <2>1, FailsKeeps DEF Named
<1>4. CASE /\ lock' = Lock(c, b, mode) /\ running' = {b}
           /\ To(c, [core[c] EXCEPT !.browser = b, !.own = IF mode = "cdp" THEN "spawned" ELSE "manual",
                                    !.pc = IF mode = "cdp" THEN "connect" ELSE "idle",
                                    !.state = IF mode = "cdp" THEN "starting" ELSE "manual"])
  <2> DEFINE own == IF mode = "cdp" THEN "spawned" ELSE "manual"
             pc == IF mode = "cdp" THEN "connect" ELSE "idle"
             state == IF mode = "cdp" THEN "starting" ELSE "manual"
             new == [core[c] EXCEPT !.browser = b, !.own = own, !.pc = pc, !.state = state]
  <2>1. own \in {"spawned", "manual"} /\ pc \in {"connect", "idle"} /\ state \in {"starting", "manual"}
    OBVIOUS
  <2>2. pc = "connect" => own = "spawned" /\ state = "starting"
    OBVIOUS
  <2>3. state = "manual" => core[c].served
    BY <1>0 DEF Launches, Rests
  <2>4. To(c, new)
    BY <1>4
  <2> HIDE DEF own, pc, state
  <2> DEFINE held == [core[c] EXCEPT !.browser = b, !.own = own]
  <2>5. new \in OwnStates
    <3>1. held \in OwnStates /\ new = [held EXCEPT !.pc = pc, !.state = state]
      BY <1>0, <2>1 DEF OwnStates
    <3> HIDE DEF held, new
    <3> QED BY <2>1, <3>1 DEF OwnStates
  <2>6. new.pc = pc /\ new.browser = b /\ new.state = state /\ new.served = core[c].served /\ new.own = own
    BY <1>0 DEF OwnStates
  <2> HIDE DEF new
  <2>7. core'[c] = new
    BY <1>0, <2>4 DEF To
  <2>8. lock' \in Locks /\ lock'.browser = b /\ lock' # Free
    BY <1>0, <1>4, NobodyIsNoLock DEF Lock, Locks, OwnStates, Free
  <2>9. Named'
    BY <1>4, <2>8 DEF Named
  <2>10. Rests(c)' /\ Knows(c)'
    BY <1>0, <1>1, <1>4, <2>1, <2>2, <2>3, <2>6, <2>7, NobodyIsNoProcess DEF Rests, Alive, Knows
  <2> QED BY <1>0, <1>1, <1>4, <2>4, <2>5, <2>8, <2>9, <2>10, CoreMoves
<1> QED BY <1>3, <1>4 DEF Launches

LEMMA AttachesKeeps ==
  ASSUME OwnInv, NEW c \in Cores, Attaches(c)
  PROVE  OwnInv'
<1>0. /\ core \in [Cores -> OwnStates] /\ core[c] \in OwnStates /\ core[c].pc = "connect"
      /\ running \subseteq Browsers /\ lock \in Locks \cup {Free} /\ Rests(c) /\ Named
  BY DEF OwnInv, OwnTyped, Attaches
<1>1. Alive(c) /\ running \subseteq {core[c].browser}
  BY <1>0 DEF Rests, Alive, Knows, OwnInv
<1>2. CASE To(c, [core[c] EXCEPT !.state = "ready", !.pc = "idle", !.served = TRUE]) /\ UNCHANGED <<lock, running>>
  <2> DEFINE new == [core[c] EXCEPT !.state = "ready", !.pc = "idle", !.served = TRUE]
  <2>1. /\ new \in OwnStates /\ new.pc = "idle" /\ new.browser = core[c].browser /\ new.state = "ready"
        /\ new.served /\ To(c, new)
    BY <1>0, <1>2 DEF OwnStates
  <2> HIDE DEF new
  <2>2. core'[c] = new
    BY <1>0, <2>1 DEF To
  <2>3. Rests(c)' /\ Knows(c)' /\ Named'
    BY <1>0, <1>1, <1>2, <2>1, <2>2 DEF Rests, Alive, Knows, Named
  <2> QED BY <1>0, <1>1, <1>2, <2>1, <2>3, CoreMoves
<1>3. CASE core[c].own = "adopted" /\ To(c, Failed(c)) /\ UNCHANGED <<lock, running>>
  <2>1. ~core[c].served
    BY <1>0, <1>3 DEF Rests
  <2> QED BY <1>0, <1>1, <1>3, <2>1, FailsKeeps DEF Named
<1>4. CASE Fails(c)
  <2>1. running' = {} /\ lock' \in {lock, Free} /\ To(c, Failed(c))
    BY <1>1, <1>4 DEF Fails, Surviving, Released
  <2> QED BY <1>0, <1>1, <2>1, FailsKeeps DEF Named
<1> QED BY <1>2, <1>3, <1>4 DEF Attaches

LEMMA ClosesKeeps ==
  ASSUME OwnInv, NEW c \in Cores, Closes(c)
  PROVE  OwnInv'
<1>0. /\ core \in [Cores -> OwnStates] /\ core[c] \in OwnStates /\ core[c].pc = "close"
      /\ running \subseteq Browsers /\ lock \in Locks \cup {Free} /\ Rests(c)
  BY DEF OwnInv, OwnTyped, Closes
<1>1. Alive(c) /\ running \subseteq {core[c].browser}
  BY <1>0 DEF Rests, Alive, Knows, OwnInv
<1>2. running' = {} /\ lock' \in Locks \cup {Free} /\ Named'
  BY <1>0, <1>1 DEF Closes, Surviving, Released, Named
<1> DEFINE new == CASE core[c].then = "stay" -> Resting(c, "dead")
                    [] core[c].then = "stop" -> Resting(c, "stopped")
                    [] OTHER -> [Resting(c, "starting") EXCEPT !.pc = "acquire"]
<1>3. core'[c] = new /\ To(c, new)
  BY <1>0 DEF Closes, To
<1>4. CASE core[c].then = "stay"
  <2>1. new = Resting(c, "dead")
    BY <1>4
  <2> HIDE DEF new
  <2>2. Rests(c)' /\ ~Alive(c)'
    BY <1>0, <1>3, <2>1, RestingState DEF Rests, Alive
  <2> QED BY <1>0, <1>1, <1>2, <1>3, <2>1, <2>2, RestingState, CoreMoves
<1>5. CASE core[c].then = "stop"
  <2>1. new = Resting(c, "stopped")
    BY <1>5
  <2> HIDE DEF new
  <2>2. Rests(c)' /\ Knows(c)'
    BY <1>0, <1>2, <1>3, <2>1, RestingState DEF Rests, Alive, Knows
  <2> QED BY <1>0, <1>1, <1>2, <1>3, <2>1, <2>2, RestingState, CoreMoves
<1>6. CASE core[c].then \notin {"stay", "stop"}
  <2>1. new = [Resting(c, "starting") EXCEPT !.pc = "acquire"]
    BY <1>6
  <2> DEFINE old == Resting(c, "starting")
  <2>2. old \in OwnStates /\ old.state = "starting" /\ ~old.token /\ old.browser = Nobody /\ old.served = core[c].served
    BY <1>0, RestingState
  <2>3. new = [old EXCEPT !.pc = "acquire"]
    BY <2>1
  <2> HIDE DEF new, old
  <2>4. /\ new \in OwnStates /\ new.state = "starting" /\ ~new.token /\ new.browser = Nobody
        /\ new.served = core[c].served /\ new.pc = "acquire"
    BY <2>2, <2>3 DEF OwnStates
  <2>5. Rests(c)' /\ Knows(c)'
    BY <1>0, <1>2, <1>3, <2>4 DEF Rests, Alive, Knows
  <2> QED BY <1>0, <1>1, <1>2, <1>3, <2>4, <2>5, CoreMoves
<1> QED BY <1>4, <1>5, <1>6

LEMMA SignsInKeeps ==
  ASSUME OwnInv, NEW c \in Cores, SignsIn(c)
  PROVE  OwnInv'
<1> DEFINE new == [core[c] EXCEPT !.state = "starting", !.pc = "sign-in", !.browser = Nobody, !.own = "none"]
<1>0. /\ core \in [Cores -> OwnStates] /\ core[c] \in OwnStates /\ core[c].pc = "signing"
      /\ running \subseteq Browsers /\ lock \in Locks \cup {Free} /\ Rests(c)
  BY DEF OwnInv, OwnTyped, SignsIn
<1>1. Alive(c) /\ running' = {} /\ lock' = lock
  BY <1>0 DEF Rests, Alive, Knows, OwnInv, SignsIn, Surviving
<1>2. /\ new \in OwnStates /\ new.pc = "sign-in" /\ new.browser = Nobody /\ new.state = "starting"
      /\ new.served = core[c].served /\ To(c, new)
  BY <1>0 DEF OwnStates, SignsIn
<1> HIDE DEF new
<1>3. core'[c] = new
  BY <1>0, <1>2 DEF To
<1>4. Rests(c)' /\ Knows(c)' /\ Named'
  BY <1>0, <1>1, <1>2, <1>3 DEF Rests, Alive, Knows, Named
<1> QED BY <1>0, <1>1, <1>2, <1>4, CoreMoves

(* The moves: an operation begins, a core dies, the browser changes.       *)
LEMMA ClosingKeeps ==
  ASSUME OwnInv, NEW c \in Cores, Alive(c), core[c].pc = "idle", core[c].served, UNCHANGED <<lock, running>>,
         NEW pc \in {"close", "signing"}, NEW then \in {"stay", "start", "reset", "stop"},
         To(c, [core[c] EXCEPT !.state = "stopping", !.pc = pc, !.then = then])
  PROVE  OwnInv'
<1> DEFINE new == [core[c] EXCEPT !.state = "stopping", !.pc = pc, !.then = then]
<1>0. /\ core \in [Cores -> OwnStates] /\ core[c] \in OwnStates
      /\ running \subseteq Browsers /\ lock \in Locks \cup {Free} /\ Knows(c) /\ Named
  BY DEF OwnInv, OwnTyped
<1>1. /\ new \in OwnStates /\ new.pc = pc /\ new.browser = core[c].browser /\ new.state = "stopping"
      /\ new.served = core[c].served /\ To(c, new)
  BY <1>0 DEF OwnStates
<1> HIDE DEF new
<1>2. core'[c] = new
  BY <1>0, <1>1 DEF To
<1>3. Rests(c)' /\ Knows(c)' /\ Named'
  BY <1>0, <1>1, <1>2 DEF Rests, Alive, Knows, Named
<1> QED BY <1>0, <1>1, <1>3, CoreMoves

LEMMA DiesKeeps ==
  ASSUME OwnInv, NEW c \in Cores, Dies(c)
  PROVE  OwnInv'
<1> DEFINE new == Resting(c, "dead")
<1>0. /\ core \in [Cores -> OwnStates] /\ core[c] \in OwnStates /\ Alive(c) /\ UNCHANGED <<lock, running>>
      /\ running \subseteq Browsers /\ lock \in Locks \cup {Free} /\ Named /\ To(c, new) /\ Rests(c)
  BY DEF OwnInv, OwnTyped, Dies
<1>1. new \in OwnStates /\ new.state = "dead" /\ new.pc = "idle" /\ ~new.token /\ new.browser = Nobody
  BY <1>0, RestingState
<1> HIDE DEF new
<1>2. core'[c] = new
  BY <1>0 DEF To
<1>3. Rests(c)' /\ ~Alive(c)' /\ Named'
  BY <1>0, <1>1, <1>2 DEF Rests, Alive, Named
<1> QED BY <1>0, <1>1, <1>3, CoreMoves

LEMMA LostStates ==
  ASSUME core \in [Cores -> OwnStates], NEW b
  PROVE  /\ Lost(b) \in [Cores -> OwnStates]
         /\ \A c \in Cores :
              /\ \/ Lost(b)[c].state = core[c].state
                 \/ core[c].state = "ready" /\ Lost(b)[c].state = "disconnected"
              /\ Lost(b)[c].pc = core[c].pc /\ Lost(b)[c].token = core[c].token
              /\ Lost(b)[c].browser = core[c].browser /\ Lost(b)[c].served = core[c].served
              /\ Lost(b)[c].own = core[c].own
<1> SUFFICES ASSUME NEW c \in Cores
             PROVE  /\ Lost(b)[c] \in OwnStates
                    /\ \/ Lost(b)[c].state = core[c].state
                       \/ core[c].state = "ready" /\ Lost(b)[c].state = "disconnected"
                    /\ Lost(b)[c].pc = core[c].pc /\ Lost(b)[c].token = core[c].token
                    /\ Lost(b)[c].browser = core[c].browser /\ Lost(b)[c].served = core[c].served
                    /\ Lost(b)[c].own = core[c].own
  BY DEF Lost
<1>1. core[c] \in OwnStates
  OBVIOUS
<1>2. CASE core[c].browser = b /\ core[c].state = "ready"
  <2> DEFINE new == [core[c] EXCEPT !.state = "disconnected"]
  <2>1. /\ new \in OwnStates /\ new.state = "disconnected" /\ new.pc = core[c].pc /\ new.token = core[c].token
        /\ new.browser = core[c].browser /\ new.served = core[c].served /\ new.own = core[c].own
    BY <1>1 DEF OwnStates
  <2>2. Lost(b)[c] = new
    BY <1>2 DEF Lost
  <2> HIDE DEF new
  <2> QED BY <1>2, <2>1, <2>2
<1>3. CASE ~(core[c].browser = b /\ core[c].state = "ready")
  BY <1>1, <1>3 DEF Lost
<1> QED BY <1>2, <1>3

LEMMA BrowserChangesKeeps ==
  ASSUME OwnInv, NEW b \in Browsers, BrowserChanges(b)
  PROVE  OwnInv'
<1>1. lock' = lock /\ running' \subseteq running /\ core' \in {core, Lost(b)}
  BY DEF BrowserChanges
<1>2. /\ core' \in [Cores -> OwnStates]
      /\ \A c \in Cores :
           /\ \/ core'[c].state = core[c].state
              \/ core[c].state = "ready" /\ core'[c].state = "disconnected"
           /\ core'[c].pc = core[c].pc /\ core'[c].token = core[c].token /\ core'[c].browser = core[c].browser
           /\ core'[c].served = core[c].served /\ core'[c].own = core[c].own
  <2>1. CASE core' = core
    BY <2>1 DEF OwnInv, OwnTyped
  <2>2. CASE core' = Lost(b)
    BY <2>2, LostStates DEF OwnInv, OwnTyped
  <2> QED BY <1>1, <2>1, <2>2
<1>3. OwnTyped' /\ Named'
  BY <1>1, <1>2 DEF OwnInv, OwnTyped, Named
<1>4. \A c \in Cores : Alive(c)' <=> Alive(c)
  BY <1>2 DEF Alive
<1>5. ASSUME NEW c \in Cores PROVE Rests(c)' /\ (Alive(c)' => Knows(c)')
  BY <1>1, <1>2, <1>4 DEF OwnInv, Rests, Knows
<1> QED BY <1>3, <1>4, <1>5 DEF OwnInv, OneAlive

LEMMA OwnMoves ==
  ASSUME Overlap = FALSE, OwnInv, [OwnNext]_ownVars PROVE OwnInv'
<1>1. ASSUME NEW c \in Cores, OwnStep(c) PROVE OwnInv'
  BY <1>1, ServeKeeps, AcquiresKeeps, AdoptsKeeps, AttachesKeeps, ClosesKeeps, SignsInKeeps, LaunchesKeeps DEF OwnStep
<1>2. CASE OwnMove
  <2>1. ASSUME NEW c \in Cores, Restarts(c) \/ Quits(c) \/ BeginsSignIn(c) PROVE OwnInv'
    <3>1. core[c] \in OwnStates /\ Rests(c)
      BY DEF OwnInv, OwnTyped
    <3>2. Alive(c) /\ core[c].pc = "idle" /\ core[c].served /\ UNCHANGED <<lock, running>>
      BY <2>1, <3>1 DEF Restarts, Quits, BeginsSignIn, AtRest, Alive, Rests
    <3>3. CASE \E then \in {"start", "reset", "stop", "stay"} : Closing(c, then)
      BY <3>2, <3>3, ClosingKeeps DEF Closing
    <3>4. CASE BeginsSignIn(c)
      <4> DEFINE then == core[c].then
      <4>1. then \in {"stay", "start", "reset", "stop"}
        BY <3>1 DEF OwnStates
      <4>2. [core[c] EXCEPT !.state = "stopping", !.pc = "signing"] =
              [core[c] EXCEPT !.state = "stopping", !.pc = "signing", !.then = then]
        BY <3>1 DEF OwnStates
      <4>3. To(c, [core[c] EXCEPT !.state = "stopping", !.pc = "signing", !.then = then])
        BY <3>4, <4>2 DEF BeginsSignIn
      <4> HIDE DEF then
      <4> QED BY <3>2, <4>1, <4>3, ClosingKeeps
    <3> QED BY <2>1, <3>3, <3>4 DEF Restarts, Quits
  <2>2. ASSUME NEW c \in Cores, Dies(c) PROVE OwnInv'
    BY <2>2, DiesKeeps
  <2>3. ASSUME NEW b \in Browsers, BrowserChanges(b) PROVE OwnInv'
    BY <2>3, BrowserChangesKeeps
  <2> QED BY <1>2, <2>1, <2>2, <2>3 DEF OwnMove
<1>3. CASE UNCHANGED ownVars
  BY <1>3 DEF ownVars, OwnInv, OwnTyped, OneAlive, Named, Rests, Knows, Alive
<1> QED BY <1>1, <1>2, <1>3 DEF OwnNext

(* As long as a core starts only after the one before it has ended, the    *)
(* lock names the one browser that runs, through failed starts, sign-ins,  *)
(* resets and deaths at any step.                                          *)
THEOREM OwnInvariant == ASSUME Overlap = FALSE PROVE OwnSpec => []OwnInv
BY OwnStarts, OwnMoves, PTL DEF OwnSpec

(* No browser of the profile is ever lost to the cores that follow.        *)
THEOREM BrowserIsNeverLost == ASSUME Overlap = FALSE PROVE OwnSpec => []BrowserIsFound
<1>1. OwnInv => BrowserIsFound
  BY DEF OwnInv, Named, BrowserIsFound
<1> QED BY OwnInvariant, <1>1, PTL

(* FailureChain.  A paused chain has nobody under way; one that has waited *)
(* long enough still has when it sends; and where the press is next, what  *)
(* a person did came after the last look.                                  *)

Gens == [ours : BOOLEAN, attempt : Nat, sub : {"submitted", "prepared", "attempted", "unknown"},
         end : {"active", "alert", "complete", "failed"}, done : Nat, made : Nat]
ChainStates == [pc : {"idle", "reconcile", "backoff", "inspect", "send", "verify", "again", "fill", "click"},
                gen : Nat, watched : BOOLEAN, aborted : BOOLEAN]

ChainTyped ==
  /\ gens \in Seq(Gens) /\ Current \in 1..MaxChainGens
  /\ chain \in ChainStates /\ clock \in Nat /\ clicks \in [1..MaxChainGens -> Nat]
  /\ halted \in BOOLEAN /\ bound \in BOOLEAN /\ late \in BOOLEAN /\ restoring \in BOOLEAN

\* An attempt has a predecessor for each that came before it, so that the
\* table of pauses has one for the next.
AttemptsFit == \A g \in 1..Current : gens[g].attempt < g

UnderWay == chain.pc # "idle" => chain.gen \in 1..Current /\ ~halted /\ ~restoring
WaitedEnough == chain.pc \in {"inspect", "send"} => clock >= Due(chain.gen)
LookedLast == chain.pc = "click" => trouble = {} \/ late

ChainInv == ChainTyped /\ AttemptsFit /\ UnderWay /\ WaitedEnough /\ LookedLast /\ BackoffIsKept

\* What the others rely on of the generations and of their surroundings.
GensKept ==
  /\ gens' \in Seq(Gens) /\ Current' \in 1..MaxChainGens /\ Current <= Current'
  /\ AttemptsFit' /\ BackoffIsKept'
DueStays == \A g \in 1..Current : Due(g)' = Due(g)
AroundKept ==
  /\ clock' \in Nat /\ clock <= clock' /\ clicks' \in [1..MaxChainGens -> Nat]
  /\ bound' \in BOOLEAN /\ late' \in BOOLEAN

LEMMA ChainStarts == ChainInit => ChainInv
<1> SUFFICES ASSUME ChainInit PROVE ChainInv
  OBVIOUS
<1> DEFINE first == [ours |-> TRUE, attempt |-> 0, sub |-> "submitted", end |-> "active", done |-> 0, made |-> 0]
<1>1. first \in Gens /\ gens = <<first>> /\ first.attempt = 0
  BY DEF ChainInit, Gens
<1> HIDE DEF first
<1>2. gens \in Seq(Gens) /\ Current = 1 /\ gens[1] = first
  BY <1>1 DEF Current
<1>3. chain \in ChainStates
  BY DEF ChainInit, ChainStates, NoChain
<1>4. /\ clock \in Nat /\ clicks \in [1..MaxChainGens -> Nat] /\ halted \in BOOLEAN /\ bound \in BOOLEAN
      /\ late \in BOOLEAN /\ restoring \in BOOLEAN
  BY DEF ChainInit
<1>5. Current \in 1..MaxChainGens
  BY <1>2, ChainBounds
<1>6. ChainTyped
  BY <1>2, <1>3, <1>4, <1>5 DEF ChainTyped
<1>7. AttemptsFit /\ BackoffIsKept
  BY <1>1, <1>2 DEF AttemptsFit, BackoffIsKept
<1> QED BY <1>6, <1>7 DEF ChainInit, ChainInv, NoChain, UnderWay, WaitedEnough, LookedLast

LEMMA DueTyped ==
  ASSUME ChainInv, NEW g \in 1..Current
  PROVE  Due(g) \in Nat
<1>0. gens \in Seq(Gens) /\ Current \in 1..MaxChainGens /\ gens[g].attempt < g
  BY DEF ChainInv, ChainTyped, AttemptsFit
<1>1. gens[g] \in Gens /\ gens[g].attempt < g /\ g \in 1..MaxChainGens
  <2>1. gens[g] \in Gens
    BY <1>0 DEF Current
  <2>2. g \in 1..MaxChainGens
    BY <1>0, ChainBounds
  <2> QED BY <1>0, <2>1, <2>2
<1>2. gens[g].attempt + 1 \in 1..MaxChainGens /\ gens[g].done \in Nat
  BY <1>1, ChainBounds DEF Gens
<1> QED BY <1>2, BackoffGrows DEF Due

LEMMA GensStay ==
  ASSUME ChainInv, gens' = gens
  PROVE  GensKept /\ DueStays /\ Current' = Current
BY DEF ChainInv, ChainTyped, GensKept, DueStays, Due, Current, AttemptsFit, BackoffIsKept

(* A generation gets another state, and keeps what its pause is told by.   *)
LEMMA GenMoves ==
  ASSUME ChainInv, NEW g \in 1..Current, NEW n \in Gens, gens' = [gens EXCEPT ![g] = n],
         n.ours = gens[g].ours, n.attempt = gens[g].attempt, n.made = gens[g].made
  PROVE  /\ gens' \in Seq(Gens) /\ Current' = Current /\ gens'[g] = n
         /\ AttemptsFit' /\ \A h \in 1..Current : h # g => gens'[h] = gens[h]
<1>1. gens \in Seq(Gens) /\ Current \in Nat /\ AttemptsFit
  BY DEF ChainInv, ChainTyped, Current
<1>2. gens' \in Seq(Gens) /\ Current' = Current
  BY <1>1 DEF Current
<1>3. gens'[g] = n /\ \A h \in 1..Current : h # g => gens'[h] = gens[h]
  BY <1>1 DEF Current
<1>4. AttemptsFit'
  BY <1>1, <1>2, <1>3 DEF AttemptsFit
<1> QED BY <1>2, <1>3, <1>4

LEMMA GenGoesOn ==
  ASSUME ChainInv, NEW g \in 1..Current, NEW n \in Gens, gens' = [gens EXCEPT ![g] = n],
         n.ours = gens[g].ours, n.attempt = gens[g].attempt, n.made = gens[g].made, n.done = gens[g].done
  PROVE  GensKept /\ DueStays /\ Current' = Current
<1>1. /\ gens' \in Seq(Gens) /\ Current' = Current /\ gens'[g] = n
      /\ AttemptsFit' /\ \A h \in 1..Current : h # g => gens'[h] = gens[h]
  BY GenMoves
<1>2. \A h \in 1..Current : Due(h)' = Due(h) /\ gens'[h].ours = gens[h].ours /\ gens'[h].made = gens[h].made
  BY <1>1 DEF Due
<1>3. Current \in 1..MaxChainGens /\ BackoffIsKept
  BY DEF ChainInv, ChainTyped
<1>4. BackoffIsKept'
  <2> SUFFICES ASSUME NEW h \in 2..Current, gens'[h].ours PROVE gens'[h].made >= Due(h - 1)'
    BY <1>1 DEF BackoffIsKept
  <2>1. h \in 1..Current /\ h - 1 \in 1..Current
    BY <1>3
  <2> QED BY <1>2, <1>3, <2>1 DEF BackoffIsKept
<1> QED BY <1>1, <1>2, <1>3, <1>4 DEF GensKept, DueStays

(* The last one fails: no later one exists whose pause it could lengthen.  *)
LEMMA GenFails ==
  ASSUME ChainInv, gens' = [gens EXCEPT ![Current] = [@ EXCEPT !.end = "failed", !.done = clock]]
  PROVE  GensKept /\ Current' = Current
<1> DEFINE n == [gens[Current] EXCEPT !.end = "failed", !.done = clock]
<1>0. Current \in 1..MaxChainGens /\ BackoffIsKept /\ gens \in Seq(Gens) /\ clock \in Nat
  BY DEF ChainInv, ChainTyped
<1>1. gens[Current] \in Gens
  BY <1>0 DEF Current
<1>2. /\ n \in Gens /\ n.ours = gens[Current].ours /\ n.attempt = gens[Current].attempt
      /\ n.made = gens[Current].made
  BY <1>0, <1>1 DEF Gens
<1>3. gens' = [gens EXCEPT ![Current] = n]
  OBVIOUS
<1> HIDE DEF n
<1>4. Current \in 1..Current
  BY <1>0
<1>5. /\ gens' \in Seq(Gens) /\ Current' = Current /\ gens'[Current] = n
      /\ AttemptsFit' /\ \A h \in 1..Current : h # Current => gens'[h] = gens[h]
  BY <1>2, <1>3, <1>4, GenMoves
<1>6. \A h \in 1..Current : h # Current => Due(h)' = Due(h)
  BY <1>5 DEF Due
<1>7. BackoffIsKept'
  <2> SUFFICES ASSUME NEW h \in 2..Current, gens'[h].ours PROVE gens'[h].made >= Due(h - 1)'
    BY <1>5 DEF BackoffIsKept
  <2>1. h \in 1..Current /\ h - 1 \in 1..Current /\ h - 1 # Current
    BY <1>0
  <2>2. gens'[h].ours = gens[h].ours /\ gens'[h].made = gens[h].made
    BY <1>2, <1>5, <2>1
  <2> QED BY <1>0, <1>6, <2>1, <2>2 DEF BackoffIsKept
<1> QED BY <1>0, <1>5, <1>7 DEF GensKept

(* Another generation: a continuation comes after its pause.               *)
LEMMA GenAppended ==
  ASSUME gens \in Seq(Gens), NEW n \in Gens, gens' = Append(gens, n)
  PROVE  /\ gens' \in Seq(Gens) /\ Current' = Current + 1 /\ gens'[Current + 1] = n
         /\ \A h \in 1..Current : gens'[h] = gens[h]
BY DEF Current

LEMMA GenFollows ==
  ASSUME ChainInv, NEW n \in Gens, gens' \in Seq(Gens), Current' = Current + 1, gens'[Current + 1] = n,
         \A h \in 1..Current : gens'[h] = gens[h],
         Current < MaxChainGens, n.attempt <= Current, n.ours => n.made >= Due(Current)
  PROVE  GensKept /\ DueStays /\ Current' = Current + 1
<1>0. Current \in 1..MaxChainGens /\ BackoffIsKept /\ AttemptsFit
  BY DEF ChainInv, ChainTyped
<1>1. \A h \in 1..Current : Due(h)' = Due(h)
  BY DEF Due
<1>2. AttemptsFit'
  <2> SUFFICES ASSUME NEW h \in 1..(Current + 1) PROVE gens'[h].attempt < h
    BY DEF AttemptsFit
  <2>1. n.attempt \in Nat
    BY DEF Gens
  <2>2. CASE h = Current + 1
    BY <1>0, <2>1, <2>2
  <2>3. CASE h \in 1..Current
    BY <1>0, <2>3 DEF AttemptsFit
  <2> QED BY <1>0, <2>2, <2>3
<1>3. BackoffIsKept'
  <2> SUFFICES ASSUME NEW h \in 2..(Current + 1), gens'[h].ours PROVE gens'[h].made >= Due(h - 1)'
    BY DEF BackoffIsKept
  <2>1. h - 1 \in 1..Current
    BY <1>0
  <2>2. CASE h = Current + 1
    BY <1>0, <2>1, <2>2 DEF Due
  <2>3. CASE h \in 2..Current
    BY <1>0, <2>1, <2>3 DEF BackoffIsKept, Due
  <2> QED BY <1>0, <2>2, <2>3
<1>4. (Current + 1) \in 1..MaxChainGens
  BY <1>0, ChainBounds
<1> QED BY <1>0, <1>1, <1>2, <1>3, <1>4 DEF GensKept, DueStays

LEMMA ChainEnds ==
  ASSUME ChainInv, GensKept, AroundKept, halted' \in BOOLEAN, restoring' \in BOOLEAN,
         chain' \in ChainStates, chain'.pc = "idle"
  PROVE  ChainInv'
BY DEF ChainInv, ChainTyped, GensKept, AroundKept, UnderWay, WaitedEnough, LookedLast

LEMMA NoChainRests == NoChain \in ChainStates /\ NoChain.pc = "idle"
BY DEF NoChain, ChainStates

(* The chain goes on by itself, or waits where it is.                      *)
LEMMA ChainGoes ==
  ASSUME ChainInv, GensKept, AroundKept, UNCHANGED <<halted, restoring>>, chain.pc # "idle",
         NEW pc \in {"backoff", "inspect", "send", "verify", "again", "fill", "click"}, Step(pc),
         pc \in {"inspect", "send"} => clock >= Due(chain.gen) /\ DueStays,
         pc = "click" => trouble' = {}
  PROVE  ChainInv'
<1>0. chain \in ChainStates /\ clock \in Nat
  BY DEF ChainInv, ChainTyped
<1>1. chain' \in ChainStates /\ chain'.pc = pc /\ chain'.gen = chain.gen
  BY <1>0 DEF ChainStates, Step
<1>2. chain.gen \in 1..Current /\ ~halted /\ ~restoring /\ Current \in Nat /\ Current' \in Nat
  BY DEF ChainInv, ChainTyped, UnderWay, GensKept
<1>3. UnderWay'
  BY <1>1, <1>2 DEF UnderWay, GensKept
<1>4. WaitedEnough'
  <2>1. CASE pc \in {"inspect", "send"}
    <3>1. PICK g \in 1..Current : g = chain.gen
      BY <1>2
    <3>2. Due(g)' = Due(g) /\ clock >= Due(g)
      BY <2>1, <3>1 DEF DueStays
    <3>3. Due(g) \in Nat
      BY DueTyped
    <3> QED BY <1>0, <1>1, <3>1, <3>2, <3>3 DEF WaitedEnough, AroundKept, Due
  <2>2. CASE pc \notin {"inspect", "send"}
    BY <1>1, <2>2 DEF WaitedEnough
  <2> QED BY <2>1, <2>2
<1>5. LookedLast'
  BY <1>1 DEF LookedLast
<1> QED BY <1>0, <1>1, <1>2, <1>3, <1>4, <1>5 DEF ChainInv, ChainTyped, GensKept, AroundKept

LEMMA ChainWaits ==
  ASSUME ChainInv, GensKept, DueStays, AroundKept, UNCHANGED <<halted, restoring>>,
         chain' \in ChainStates, chain'.pc = chain.pc, chain'.gen = chain.gen,
         chain.pc = "click" => (trouble' = {} \/ late')
  PROVE  ChainInv'
<1>0. chain \in ChainStates /\ clock \in Nat /\ UnderWay /\ WaitedEnough
  BY DEF ChainInv, ChainTyped
<1>1. UnderWay'
  BY <1>0 DEF UnderWay, GensKept, ChainInv, ChainTyped
<1>2. WaitedEnough'
  <2>1. CASE chain.pc \in {"inspect", "send"}
    <3>1. PICK g \in 1..Current : g = chain.gen
      BY <1>0, <2>1 DEF UnderWay
    <3>2. Due(g)' = Due(g) /\ clock >= Due(g)
      BY <1>0, <2>1, <3>1 DEF DueStays, WaitedEnough
    <3>3. Due(g) \in Nat
      BY DueTyped
    <3> QED BY <1>0, <3>1, <3>2, <3>3 DEF WaitedEnough, AroundKept, Due
  <2>2. CASE chain.pc \notin {"inspect", "send"}
    BY <2>2 DEF WaitedEnough
  <2> QED BY <2>1, <2>2
<1>3. LookedLast'
  BY DEF LookedLast
<1> QED BY <1>1, <1>2, <1>3 DEF ChainInv, ChainTyped, GensKept, AroundKept

LEMMA AroundStays ==
  ASSUME ChainInv, UNCHANGED <<clock, clicks, bound, late>>
  PROVE  AroundKept
BY DEF ChainInv, ChainTyped, AroundKept

LEMMA EntersKeeps ==
  ASSUME ChainInv, chain.pc = "idle", NEW watched \in BOOLEAN, Enters(Current, watched),
         UNCHANGED <<gens, trouble, clock, clicks, bound, late>>, restoring' = FALSE
  PROVE  ChainInv'
<1>0. /\ GensKept /\ AroundKept /\ Current' = Current /\ chain \in ChainStates /\ halted \in BOOLEAN
      /\ Current \in 1..MaxChainGens
  BY GensStay, AroundStays DEF ChainInv, ChainTyped
<1>1. CASE chain' = chain /\ halted' \in BOOLEAN
  BY <1>0, <1>1, ChainEnds
<1>2. CASE /\ chain' = [pc |-> FirstStep(Current), gen |-> Current, watched |-> watched, aborted |-> FALSE]
           /\ UNCHANGED halted /\ Admitted(Current)
  <2> DEFINE pc == FirstStep(Current)
  <2>1. pc \in {"again", "reconcile", "backoff"}
    BY DEF FirstStep
  <2>2. chain' = [pc |-> pc, gen |-> Current, watched |-> watched, aborted |-> FALSE]
    BY <1>2
  <2> HIDE DEF pc
  <2>3. chain' \in ChainStates /\ chain'.pc = pc /\ chain'.gen = Current
    BY <1>0, <2>1, <2>2, ChainBounds DEF ChainStates
  <2>4. UnderWay'
    BY <1>0, <1>2, <2>3 DEF UnderWay, Admitted
  <2>5. WaitedEnough' /\ LookedLast'
    BY <2>1, <2>3 DEF WaitedEnough, LookedLast
  <2> QED BY <1>0, <1>2, <2>3, <2>4, <2>5 DEF ChainInv, ChainTyped, GensKept, AroundKept
<1> QED BY <1>0, <1>1, <1>2 DEF Enters

LEMMA GenEnds ==
  ASSUME ChainInv, NEW e \in {"alert", "complete"}, gens' = [gens EXCEPT ![Current].end = e]
  PROVE  GensKept /\ DueStays
<1> DEFINE n == [gens[Current] EXCEPT !.end = e]
<1>0. Current \in 1..Current /\ gens[Current] \in Gens
  BY DEF ChainInv, ChainTyped, Current
<1>1. n \in Gens /\ n.ours = gens[Current].ours /\ n.attempt = gens[Current].attempt
      /\ n.made = gens[Current].made /\ n.done = gens[Current].done
  BY <1>0 DEF Gens
<1>2. gens' = [gens EXCEPT ![Current] = n]
  OBVIOUS
<1> HIDE DEF n
<1> QED BY <1>0, <1>1, <1>2, GenGoesOn

LEMMA GenSubmits ==
  ASSUME ChainInv, NEW g \in 1..Current, NEW sub \in {"attempted", "submitted", "unknown"},
         gens' = [gens EXCEPT ![g].sub = sub]
  PROVE  GensKept /\ DueStays
<1> DEFINE n == [gens[g] EXCEPT !.sub = sub]
<1>0. gens[g] \in Gens
  BY DEF ChainInv, ChainTyped, Current
<1>1. n \in Gens /\ n.ours = gens[g].ours /\ n.attempt = gens[g].attempt
      /\ n.made = gens[g].made /\ n.done = gens[g].done
  BY <1>0 DEF Gens
<1>2. gens' = [gens EXCEPT ![g] = n]
  OBVIOUS
<1> HIDE DEF n
<1> QED BY <1>1, <1>2, GenGoesOn

LEMMA GensCrash ==
  ASSUME ChainInv,
         gens' = [g \in DOMAIN gens |-> [gens[g] EXCEPT !.sub = IF @ = "attempted" THEN "unknown" ELSE @]]
  PROVE  GensKept
<1>0. gens \in Seq(Gens) /\ Current \in 1..MaxChainGens /\ DOMAIN gens = 1..Current /\ AttemptsFit /\ BackoffIsKept
  BY DEF ChainInv, ChainTyped, Current
<1>1. ASSUME NEW g \in 1..Current
      PROVE  /\ gens'[g] \in Gens /\ gens'[g].ours = gens[g].ours /\ gens'[g].attempt = gens[g].attempt
             /\ gens'[g].made = gens[g].made /\ gens'[g].done = gens[g].done
  <2> DEFINE sub == IF gens[g].sub = "attempted" THEN "unknown" ELSE gens[g].sub
             n == [gens[g] EXCEPT !.sub = sub]
  <2>1. gens[g] \in Gens
    BY <1>0 DEF Current
  <2>2. sub \in {"submitted", "prepared", "attempted", "unknown"}
    BY <2>1 DEF Gens
  <2>3. gens'[g] = n
    BY <1>0
  <2> HIDE DEF sub
  <2>4. n \in Gens /\ n.ours = gens[g].ours /\ n.attempt = gens[g].attempt
        /\ n.made = gens[g].made /\ n.done = gens[g].done
    BY <2>1, <2>2 DEF Gens
  <2> HIDE DEF n
  <2> QED BY <2>3, <2>4
<1>2. gens' \in [1..Current -> Gens]
  BY <1>0, <1>1
<1>3. gens' \in Seq(Gens) /\ Current' = Current
  BY <1>0, <1>2, ChainBounds DEF Current
<1>4. AttemptsFit'
  BY <1>0, <1>1, <1>3 DEF AttemptsFit
<1>5. BackoffIsKept'
  <2> SUFFICES ASSUME NEW h \in 2..Current, gens'[h].ours PROVE gens'[h].made >= Due(h - 1)'
    BY <1>3 DEF BackoffIsKept
  <2>1. h \in 1..Current /\ h - 1 \in 1..Current
    BY <1>0
  <2> QED BY <1>0, <1>1, <2>1 DEF BackoffIsKept, Due
<1> QED BY <1>0, <1>3, <1>4, <1>5 DEF GensKept

LEMMA ReconcilesKeeps == ASSUME ChainInv, Reconciles PROVE ChainInv'
<1>0. AroundKept /\ UNCHANGED <<trouble, restoring>> /\ restoring \in BOOLEAN
  BY AroundStays DEF Reconciles, pageVars, outVars, ChainInv, ChainTyped
<1>1. CASE /\ gens' = [gens EXCEPT ![Current] = [@ EXCEPT !.end = "failed", !.done = clock]]
           /\ Step("backoff") /\ UNCHANGED halted
  BY <1>0, <1>1, GenFails, ChainGoes DEF Reconciles
<1>2. CASE Pauses /\ UNCHANGED gens
  BY <1>0, <1>2, GensStay, ChainEnds, NoChainRests DEF Pauses, Ended
<1> QED BY <1>1, <1>2 DEF Reconciles

LEMMA BackoffEndsKeeps == ASSUME ChainInv, BackoffEnds PROVE ChainInv'
<1>0. AroundKept /\ GensKept /\ DueStays /\ UNCHANGED <<trouble, restoring>> /\ restoring \in BOOLEAN /\ halted \in BOOLEAN
  BY AroundStays, GensStay DEF BackoffEnds, pageVars, outVars, ChainInv, ChainTyped
<1>1. CASE Ended /\ halted' \in BOOLEAN
  BY <1>0, <1>1, ChainEnds, NoChainRests DEF Ended
<1>2. CASE ~Expired /\ Step("inspect") /\ UNCHANGED halted
  <2>1. clock >= Due(chain.gen)
    BY <1>2, DeadlineIsLater DEF BackoffEnds, Expired, Horizon, ChainInv, ChainTyped
  <2> QED BY <1>0, <1>2, <2>1, ChainGoes DEF BackoffEnds
<1> QED BY <1>0, <1>1, <1>2 DEF BackoffEnds, Pauses

LEMMA BackoffAbortedKeeps == ASSUME ChainInv, BackoffAborted PROVE ChainInv'
<1>0. /\ AroundKept /\ GensKept /\ UNCHANGED restoring /\ restoring \in BOOLEAN /\ halted' \in BOOLEAN
      /\ Ended
  BY AroundStays, GensStay DEF BackoffAborted, pageVars, outVars, ChainInv, ChainTyped
<1> QED BY <1>0, ChainEnds, NoChainRests DEF Ended

LEMMA InspectsKeeps == ASSUME ChainInv, Inspects PROVE ChainInv'
<1>0. AroundKept /\ GensKept /\ DueStays /\ UNCHANGED <<trouble, restoring>> /\ restoring \in BOOLEAN
  BY AroundStays, GensStay DEF Inspects, pageVars, outVars, ChainInv, ChainTyped
<1>1. CASE Pauses
  BY <1>0, <1>1, ChainEnds, NoChainRests DEF Pauses, Ended
<1>2. CASE Step("send") /\ UNCHANGED halted
  BY <1>0, <1>2, ChainGoes DEF Inspects, ChainInv, WaitedEnough
<1> QED BY <1>1, <1>2 DEF Inspects

LEMMA SendsKeeps == ASSUME ChainInv, Sends PROVE ChainInv'
<1>0. AroundKept /\ UNCHANGED <<trouble, restoring>> /\ restoring \in BOOLEAN
  BY AroundStays DEF Sends, pageVars, outVars, ChainInv, ChainTyped
<1>1. CASE Pauses /\ UNCHANGED gens
  BY <1>0, <1>1, GensStay, ChainEnds, NoChainRests DEF Pauses, Ended
<1>2. CASE /\ chain.gen = Current /\ gens' = Append(gens, Generation(TRUE, Last.attempt + 1, "prepared"))
           /\ chain' = [chain EXCEPT !.pc = "verify", !.gen = Current + 1] /\ UNCHANGED halted
  <2> DEFINE n == Generation(TRUE, Last.attempt + 1, "prepared")
  <2>0. gens \in Seq(Gens) /\ Current \in 1..MaxChainGens /\ clock \in Nat /\ Last \in Gens /\ Last.attempt < Current
    BY DEF ChainInv, ChainTyped, AttemptsFit, Current, Last
  <2>1. n \in Gens /\ n.attempt <= Current /\ n.made = clock /\ gens' = Append(gens, n)
    BY <1>2, <2>0 DEF Gens, Generation
  <2> HIDE DEF n
  <2>2. clock >= Due(Current) /\ Current < MaxChainGens
    BY <1>2 DEF Sends, ChainInv, WaitedEnough
  <2>3. /\ gens' \in Seq(Gens) /\ Current' = Current + 1 /\ gens'[Current + 1] = n
        /\ \A h \in 1..Current : gens'[h] = gens[h]
    BY <2>0, <2>1, GenAppended
  <2>4. GensKept /\ Current' = Current + 1
    <3>1. n \in Gens /\ n.attempt <= Current /\ (n.ours => n.made >= Due(Current)) /\ Current < MaxChainGens
      BY <2>1, <2>2
    <3> QED BY <2>3, <3>1, GenFollows
  <2>5. chain' \in ChainStates /\ chain'.pc = "verify" /\ chain'.gen = Current + 1
    <3> DEFINE next == Current + 1
    <3>1. chain \in ChainStates /\ next \in Nat
      BY <2>0, ChainBounds DEF ChainInv, ChainTyped
    <3>2. chain' = [chain EXCEPT !.pc = "verify", !.gen = next]
      BY <1>2
    <3> HIDE DEF next
    <3>3. chain' \in ChainStates /\ chain'.pc = "verify" /\ chain'.gen = next
      BY <3>1, <3>2 DEF ChainStates
    <3> QED BY <3>3 DEF next
  <2>6. UnderWay'
    BY <1>0, <1>2, <2>0, <2>4, <2>5 DEF UnderWay, Sends, ChainInv
  <2>7. WaitedEnough' /\ LookedLast'
    BY <2>5 DEF WaitedEnough, LookedLast
  <2> QED BY <1>0, <1>2, <2>4, <2>5, <2>6, <2>7 DEF ChainInv, ChainTyped, GensKept, AroundKept
<1> QED BY <1>1, <1>2 DEF Sends

LEMMA VerifiesKeeps == ASSUME ChainInv, Verifies PROVE ChainInv'
<1>0. AroundKept /\ GensKept /\ UNCHANGED <<trouble, restoring>> /\ restoring \in BOOLEAN /\ chain.pc # "idle"
  BY AroundStays, GensStay DEF Verifies, pageVars, outVars, ChainInv, ChainTyped
<1>1. CASE Pauses
  BY <1>0, <1>1, ChainEnds, NoChainRests DEF Pauses, Ended
<1>2. CASE (Step("fill") \/ Step("again")) /\ UNCHANGED halted
  BY <1>0, <1>2, ChainGoes
<1> QED BY <1>1, <1>2 DEF Verifies

LEMMA FillsKeeps == ASSUME ChainInv, Fills PROVE ChainInv'
<1>0. AroundKept /\ UNCHANGED <<trouble, restoring>> /\ restoring \in BOOLEAN /\ chain.pc # "idle"
      /\ chain.gen \in 1..Current
  <2>1. chain.pc = "fill" /\ late' = FALSE /\ UNCHANGED <<clock, clicks, bound, trouble, restoring>>
    BY DEF Fills, pageVars, outVars
  <2>2. /\ clock \in Nat /\ clicks \in [1..MaxChainGens -> Nat] /\ bound \in BOOLEAN /\ restoring \in BOOLEAN
        /\ chain.gen \in 1..Current
    BY <2>1 DEF ChainInv, ChainTyped, UnderWay
  <2>3. bound' \in BOOLEAN /\ late' \in BOOLEAN
    BY <2>1, <2>2
  <2>4. clock' \in Nat /\ clock <= clock' /\ clicks' \in [1..MaxChainGens -> Nat]
    BY <2>1, <2>2
  <2>5. AroundKept
    BY <2>3, <2>4 DEF AroundKept
  <2> QED BY <2>1, <2>2, <2>5
<1>1. CASE Pauses /\ UNCHANGED gens
  BY <1>0, <1>1, GensStay, ChainEnds, NoChainRests DEF Pauses, Ended
<1>2. CASE Step("again") /\ UNCHANGED <<gens, halted>>
  BY <1>0, <1>2, GensStay, ChainGoes
<1>3. CASE Valid /\ gens' = [gens EXCEPT ![chain.gen].sub = "attempted"] /\ Step("click") /\ UNCHANGED halted
  <2>1. trouble' = {}
    BY <1>0, <1>3 DEF Valid, LooksRight
  <2>2. GensKept
    BY <1>0, <1>3, GenSubmits
  <2> QED BY <1>0, <1>3, <2>1, <2>2, ChainGoes
<1> QED BY <1>1, <1>2, <1>3 DEF Fills

LEMMA ClickedAround ==
  ASSUME ChainInv, chain.pc = "click", Clicked
  PROVE  clicks' \in [1..MaxChainGens -> Nat]
<1>1. chain.gen \in 1..MaxChainGens /\ clicks \in [1..MaxChainGens -> Nat]
  BY ChainBounds DEF ChainInv, ChainTyped, UnderWay
<1> QED BY <1>1 DEF Clicked

LEMMA ClicksKeeps == ASSUME ChainInv, Clicks PROVE ChainInv'
<1>0. AroundKept /\ restoring' \in BOOLEAN /\ chain.gen \in 1..Current
  BY ClickedAround DEF Clicks, outVars, ChainInv, ChainTyped, AroundKept, UnderWay
<1>1. chain' = NoChain /\ halted' \in BOOLEAN
  BY DEF Clicks, Ended, Pauses, ChainInv, ChainTyped
<1>2. GensKept
  BY <1>0, GenSubmits DEF Clicks
<1> QED BY <1>0, <1>1, <1>2, ChainEnds, NoChainRests

(* What happens beside the chain.                                          *)
LEMMA BesideChain ==
  ASSUME ChainInv, GensKept, DueStays, AroundKept, UNCHANGED <<halted, restoring, chain>>,
         trouble' = trouble /\ late' = late
  PROVE  ChainInv'
<1>1. chain \in ChainStates /\ LookedLast
  BY DEF ChainInv, ChainTyped
<1> QED BY <1>1, ChainWaits DEF LookedLast

LEMMA ObserverSeesKeeps == ASSUME ChainInv, ObserverSees PROVE ChainInv'
<1>1. AroundKept /\ UNCHANGED <<halted, restoring, chain, trouble, late>>
  BY AroundStays DEF ObserverSees, pageVars, outVars
<1>2. GensKept /\ DueStays
  BY GenEnds DEF ObserverSees
<1> QED BY <1>1, <1>2, BesideChain

LEMMA HandsOverKeeps == ASSUME ChainInv, ObserverHandsOver PROVE ChainInv'
<1>1. UNCHANGED <<gens, trouble, clock, clicks, bound, late>> /\ restoring' = FALSE
  BY DEF ObserverHandsOver, pageVars, outVars, ChainInv, ChainTyped
<1> QED BY <1>1, EntersKeeps DEF ObserverHandsOver

LEMMA RestoresKeeps == ASSUME ChainInv, Restores PROVE ChainInv'
<1>1. UNCHANGED <<gens, trouble, clock, clicks, bound, late>> /\ restoring' = FALSE /\ chain.pc = "idle"
  BY DEF Restores, pageVars, outVars, ChainInv, UnderWay
<1>2. CASE Enters(Current, FALSE)
  BY <1>1, <1>2, EntersKeeps
<1>3. CASE UNCHANGED <<chain, halted>>
  BY <1>1, <1>3, GensStay, AroundStays, ChainEnds DEF ChainInv, ChainTyped
<1> QED BY <1>2, <1>3 DEF Restores

LEMMA BesideKeeps ==
  ASSUME ChainInv, ProviderAnswers \/ AcknowledgementFound \/ Tick \/ PageReturns \/ OtherSends \/ BrowserRestarts
  PROVE  ChainInv'
<1>0. UNCHANGED <<halted, restoring, chain, trouble, late>>
  BY DEF ProviderAnswers, AcknowledgementFound, Tick, PageReturns, OtherSends, BrowserRestarts, pageVars, outVars
<1>1. AroundKept
  <2>1. clock \in Nat /\ clicks \in [1..MaxChainGens -> Nat] /\ bound \in BOOLEAN /\ late \in BOOLEAN
    BY DEF ChainInv, ChainTyped
  <2>2. clicks' = clicks /\ (clock' = clock \/ clock' = clock + 1)
    BY DEF ProviderAnswers, AcknowledgementFound, Tick, PageReturns, OtherSends, BrowserRestarts, pageVars, outVars
  <2>3. bound' \in {bound, TRUE, FALSE}
    BY DEF ProviderAnswers, AcknowledgementFound, Tick, PageReturns, OtherSends, BrowserRestarts, pageVars, outVars
  <2>4. bound' \in BOOLEAN /\ late' \in BOOLEAN
    BY <1>0, <2>1, <2>3
  <2>5. clock' \in Nat /\ clock <= clock' /\ clicks' \in [1..MaxChainGens -> Nat]
    BY <2>1, <2>2
  <2> QED BY <2>4, <2>5 DEF AroundKept
<1>2. CASE OtherSends
  <2> DEFINE n == Generation(FALSE, 0, "submitted")
  <2>1. n \in Gens /\ n.attempt = 0 /\ n.ours = FALSE /\ gens' = Append(gens, n)
    BY <1>2 DEF OtherSends, Generation, Gens, ChainInv, ChainTyped
  <2> HIDE DEF n
  <2>2. gens \in Seq(Gens) /\ Current \in 1..MaxChainGens /\ Current < MaxChainGens
    BY <1>2 DEF OtherSends, ChainInv, ChainTyped
  <2>3. /\ gens' \in Seq(Gens) /\ Current' = Current + 1 /\ gens'[Current + 1] = n
        /\ \A h \in 1..Current : gens'[h] = gens[h]
    BY <2>1, <2>2, GenAppended
  <2>4. GensKept /\ DueStays
    <3>1. n \in Gens /\ n.attempt <= Current /\ (n.ours => n.made >= Due(Current)) /\ Current < MaxChainGens
      BY <2>1, <2>2
    <3> QED BY <2>3, <3>1, GenFollows
  <2> QED BY <1>0, <1>1, <2>4, BesideChain
<1>3. CASE AcknowledgementFound
  <2>1. GensKept /\ DueStays
    <3>1. Current \in 1..Current
      BY DEF ChainInv, ChainTyped
    <3> QED BY <1>3, <3>1, GenSubmits DEF AcknowledgementFound
  <2> QED BY <1>0, <1>1, <2>1, BesideChain
<1>4. CASE ProviderAnswers \/ Tick \/ PageReturns \/ BrowserRestarts
  BY <1>0, <1>1, <1>4, GensStay, BesideChain DEF ProviderAnswers, Tick, PageReturns, BrowserRestarts
<1> QED BY <1>2, <1>3, <1>4

LEMMA PersonActsKeeps == ASSUME ChainInv, NEW what, PersonActs(what) PROVE ChainInv'
<1>1. GensKept /\ DueStays /\ UNCHANGED <<halted, restoring, chain, clock, clicks, bound>>
  BY GensStay DEF PersonActs
<1>2. late' \in BOOLEAN /\ (chain.pc = "click" => late')
  BY DEF PersonActs
<1>3. AroundKept /\ chain \in ChainStates
  BY <1>1, <1>2 DEF AroundKept, ChainInv, ChainTyped
<1> QED BY <1>1, <1>2, <1>3, ChainWaits

LEMMA SweepStopsKeeps == ASSUME ChainInv, SweepStops PROVE ChainInv'
<1> DEFINE aborted == chain.aborted \/ (chain.watched /\ chain.gen = sweep)
<1>0. GensKept /\ DueStays /\ UNCHANGED <<halted, restoring, clock, clicks, trouble, late>> /\ bound' \in BOOLEAN
  BY GensStay DEF SweepStops
<1>1. AroundKept /\ chain \in ChainStates /\ LookedLast
  BY <1>0 DEF AroundKept, ChainInv, ChainTyped
<1>2. chain' = [chain EXCEPT !.aborted = aborted] /\ aborted \in BOOLEAN
  BY DEF SweepStops
<1> HIDE DEF aborted
<1>3. chain' \in ChainStates /\ chain'.pc = chain.pc /\ chain'.gen = chain.gen
  BY <1>1, <1>2 DEF ChainStates
<1> QED BY <1>0, <1>1, <1>3, ChainWaits DEF LookedLast

LEMMA ChainCrashKeeps == ASSUME ChainInv, ChainCrash PROVE ChainInv'
<1>1. GensKept
  BY GensCrash DEF ChainCrash
<1>2. AroundKept /\ chain' = NoChain /\ halted' \in BOOLEAN /\ restoring' \in BOOLEAN
  BY ClickedAround DEF ChainCrash, AroundKept, ChainInv, ChainTyped
<1> QED BY <1>1, <1>2, ChainEnds, NoChainRests

LEMMA ChainSteps == ChainInv /\ [ChainNext]_chainVars => ChainInv'
<1> SUFFICES ASSUME ChainInv, [ChainNext]_chainVars PROVE ChainInv'
  OBVIOUS
<1>1. CASE Continuing
  BY <1>1, HandsOverKeeps, RestoresKeeps, ReconcilesKeeps, BackoffEndsKeeps, BackoffAbortedKeeps, InspectsKeeps,
     SendsKeeps, VerifiesKeeps, FillsKeeps, ClicksKeeps DEF Continuing
<1>2. CASE ObserverSees \/ ProviderAnswers \/ AcknowledgementFound \/ Tick \/ SweepStops \/ PageReturns
  BY <1>2, ObserverSeesKeeps, BesideKeeps, SweepStopsKeeps
<1>3. CASE ChainMove
  BY <1>3, PersonActsKeeps, BesideKeeps, ChainCrashKeeps DEF ChainMove
<1>4. CASE UNCHANGED chainVars
  <2>1. UNCHANGED <<gens, halted, restoring, chain, clock, clicks, bound, late, trouble>>
    BY <1>4 DEF chainVars
  <2> QED BY <2>1, GensStay, AroundStays, BesideChain
<1> QED BY <1>1, <1>2, <1>3, <1>4 DEF ChainNext

(* Where a continuation is, what it has waited for and what it has seen:   *)
(* the invariant of #continue, over crashes, sweeps and people.            *)
THEOREM ChainInvariant == ChainSpec => []ChainInv
BY ChainStarts, ChainSteps, PTL DEF ChainSpec

(* No continuation is made before the pause of the failed one is over,     *)
(* whenever the core stops and starts in between.                          *)
THEOREM PausesAreKept == ChainSpec => []BackoffIsKept
<1>1. ChainInv => BackoffIsKept
  BY DEF ChainInv
<1> QED BY ChainInvariant, <1>1, PTL

(* Only the chain's own last step presses the button.                      *)
LEMMA OnlyClicksPress ==
  ASSUME [ChainNext]_chainVars, clicks' # clicks
  PROVE  chain.pc = "click"
BY DEF ChainNext, Continuing, ChainMove, ObserverSees, ObserverHandsOver, Restores, Reconciles, BackoffEnds,
       BackoffAborted, Inspects, Sends, Verifies, Fills, Clicks, ProviderAnswers, AcknowledgementFound, Tick,
       SweepStops, PageReturns, PersonActs, OtherSends, BrowserRestarts, ChainCrash, chainVars

(* A chain that was paused once sends nothing again by itself, whatever is *)
(* restarted, acknowledged later or fails again.                           *)
THEOREM PausedStaysPaused == ChainSpec => PausedIsForGood
<1>1. ChainInv /\ [ChainNext]_chainVars => [halted => clicks' = clicks]_chainVars
  BY OnlyClicksPress DEF ChainInv, UnderWay
<1> QED BY ChainInvariant, <1>1, PTL DEF ChainSpec, PausedIsForGood

(* A continuation is not sent over what a person did before the last look. *)
THEOREM PeopleGoFirst == ChainSpec => NotOverAPerson
<1>1. ChainInv /\ [ChainNext]_chainVars => [clicks' # clicks => trouble = {} \/ late]_chainVars
  BY OnlyClicksPress DEF ChainInv, LookedLast
<1> QED BY ChainInvariant, <1>1, PTL DEF ChainSpec, NotOverAPerson

(* ArtifactCapture.  A row says downloaded only of a content, whose bytes  *)
(* came before it; a transfer is of the content its first piece named.     *)

OnDisk == {"none", "whole", "short", "rotten"}
Rows == [state : {"unknown", "discovered", "downloaded", "missing"}, content : Contents \cup {Nothing}]
CaptureStates == [pc : {"idle", "queued", "page", "discover", "files", "file"}, of : OwnersOfFiles \cup {Nothing},
                  todo : SUBSET Artifacts, seen : [Artifacts -> Rows] \cup {<<>>},
                  doing : Artifacts \cup {Nothing}]
TransferStates == [pc : {"idle", "reading"}, of : Artifacts \cup {Nothing}, sum : Contents \cup {Nothing},
                   got : Seq(Contents \X OnDisk), over : BOOLEAN]

ArtTyped ==
  /\ offered \in [Artifacts -> Contents] /\ disk \in [Contents -> OnDisk]
  /\ record \in [Artifacts -> Rows] /\ harmed \subseteq Contents
  /\ capture \in [Captures -> CaptureStates] /\ transfer \in [Transfers -> TransferStates]
  /\ published \in [Artifacts -> Seq(Contents \X OnDisk)]

NamesContent == \A a \in Artifacts : record[a].state = "downloaded" => record[a].content \in Contents
FileInHand == \A k \in Captures : capture[k].pc = "file" => capture[k].doing \in Artifacts
PieceInHand ==
  \A t \in Transfers : transfer[t].pc = "reading" => transfer[t].of \in Artifacts /\ transfer[t].sum \in Contents

ArtInv ==
  /\ ArtTyped /\ NamesContent /\ FileInHand /\ PieceInHand
  /\ DownloadedIsStored /\ PublishedIsExact

LEMMA ArtStarts == ArtInit => ArtInv
<1> SUFFICES ASSUME ArtInit PROVE ArtInv
  OBVIOUS
<1>1. NoRow \in Rows /\ NoRow.state = "unknown"
  BY DEF NoRow, Rows
<1>2. NoCapture \in CaptureStates /\ NoCapture.pc = "idle"
  BY DEF NoCapture, CaptureStates
<1>3. NoTransfer \in TransferStates /\ NoTransfer.pc = "idle"
  BY DEF NoTransfer, TransferStates
<1>4. ArtTyped
  BY <1>1, <1>2, <1>3 DEF ArtInit, ArtTyped, OnDisk
<1> QED
  BY <1>1, <1>2, <1>3, <1>4 DEF ArtInit, ArtInv, NamesContent, FileInHand, PieceInHand, DownloadedIsStored, PublishedIsExact

\* The two halves of the invariant, and what each relies on.
StoreInv ==
  /\ disk \in [Contents -> OnDisk] /\ record \in [Artifacts -> Rows] /\ harmed \subseteq Contents
  /\ NamesContent /\ DownloadedIsStored
CallsInv == capture \in [Captures -> CaptureStates] /\ FileInHand
CopiesInv ==
  /\ transfer \in [Transfers -> TransferStates] /\ published \in [Artifacts -> Seq(Contents \X OnDisk)]
  /\ PieceInHand /\ PublishedIsExact

LEMMA ArtHalves == ArtInv <=> offered \in [Artifacts -> Contents] /\ StoreInv /\ CallsInv /\ CopiesInv
BY DEF ArtInv, ArtTyped, StoreInv, CallsInv, CopiesInv

LEMMA ArtJoins ==
  ASSUME offered' \in [Artifacts -> Contents], StoreInv', CallsInv', CopiesInv'
  PROVE  ArtInv'
BY DEF ArtInv, ArtTyped, StoreInv, CallsInv, CopiesInv

LEMMA StoreStays == StoreInv /\ UNCHANGED <<disk, record, harmed>> => StoreInv'
BY DEF StoreInv, NamesContent, DownloadedIsStored
LEMMA CallsStay == CallsInv /\ UNCHANGED capture => CallsInv'
BY DEF CallsInv, FileInHand
LEMMA CopiesStay == CopiesInv /\ UNCHANGED copyVars => CopiesInv'
BY DEF CopiesInv, copyVars, PieceInHand, PublishedIsExact

(* A row that is marked names no file any more, or what it named before.   *)
LEMMA MarkedStore ==
  ASSUME StoreInv, NEW a \in Artifacts, NEW r, record' = MarkMissing(a, r), UNCHANGED <<disk, harmed>>
  PROVE  StoreInv'
<1> DEFINE state == IF r.state = "downloaded" THEN "missing" ELSE record[a].state
           row == [record[a] EXCEPT !.state = state]
<1>0. record \in [Artifacts -> Rows] /\ record[a] \in Rows
  BY DEF StoreInv
<1>1. record' = [record EXCEPT ![a] = row]
  BY DEF MarkMissing
<1>2. state \in {"missing", record[a].state}
  OBVIOUS
<1> HIDE DEF state
<1>3. row \in Rows /\ row.content = record[a].content /\ (row.state = "downloaded" => record[a].state = "downloaded")
  BY <1>0, <1>2 DEF Rows
<1> HIDE DEF row
<1>4. record' \in [Artifacts -> Rows]
  BY <1>0, <1>1, <1>3
<1>5. ASSUME NEW b \in Artifacts
      PROVE  record'[b].content = record[b].content /\ (record'[b].state = "downloaded" => record[b].state = "downloaded")
  <2>1. CASE b = a
    BY <1>0, <1>1, <1>3, <2>1
  <2>2. CASE b # a
    BY <1>0, <1>1, <2>2
  <2> QED BY <2>1, <2>2
<1> QED BY <1>4, <1>5 DEF StoreInv, NamesContent, DownloadedIsStored

LEMMA PersistedStore ==
  ASSUME StoreInv, NEW found, record' = Persisted(found), UNCHANGED <<disk, harmed>>
  PROVE  StoreInv'
<1>1. ASSUME NEW a \in Artifacts
      PROVE  record'[a] \in Rows /\ (record'[a] = record[a] \/ record'[a].state = "discovered")
  <2>1. record[a] \in Rows /\ [NoRow EXCEPT !.state = "discovered"] \in Rows
        /\ [NoRow EXCEPT !.state = "discovered"].state = "discovered"
    BY DEF StoreInv, Rows, NoRow
  <2> QED BY <2>1 DEF Persisted, Discovered
<1>2. record' \in [Artifacts -> Rows]
  BY <1>1 DEF Persisted
<1> QED BY <1>1, <1>2 DEF StoreInv, NamesContent, DownloadedIsStored

(* A call's record is typed, and has no file where it does not say so.     *)
LEMMA CallMoves ==
  ASSUME CallsInv, NEW k \in Captures, NEW c \in CaptureStates, c.pc = "file" => c.doing \in Artifacts,
         capture' = [capture EXCEPT ![k] = c]
  PROVE  CallsInv'
BY DEF CallsInv, FileInHand

LEMMA CallFinishes ==
  ASSUME CallsInv, NEW k \in Captures, Finished(k)
  PROVE  CallsInv'
<1>1. NoCapture \in CaptureStates /\ NoCapture.pc = "idle"
  BY DEF NoCapture, CaptureStates
<1> QED BY <1>1, CallMoves DEF Finished

LEMMA FileFinishes ==
  ASSUME CallsInv, NEW k \in Captures, NEW a, FileDone(k, a)
  PROVE  CallsInv'
<1> DEFINE todo == capture[k].todo \ {a}
           c == [capture[k] EXCEPT !.pc = "files", !.doing = Nothing, !.todo = todo]
<1>1. capture[k] \in CaptureStates
  BY DEF CallsInv
<1>2. todo \in SUBSET Artifacts
  BY <1>1 DEF CaptureStates
<1>3. CASE capture' = [capture EXCEPT ![k] = c]
  <2> HIDE DEF todo
  <2>1. c \in CaptureStates /\ c.pc = "files"
    BY <1>1, <1>2 DEF CaptureStates
  <2> HIDE DEF c
  <2> QED BY <1>3, <2>1, CallMoves
<1>4. CASE Finished(k)
  BY <1>4, CallFinishes
<1> QED BY <1>3, <1>4 DEF FileDone

LEMMA CallGoes ==
  ASSUME CallsInv, NEW k \in Captures, NEW pc \in {"page", "discover"}, capture' = [capture EXCEPT ![k].pc = pc]
  PROVE  CallsInv'
<1> DEFINE c == [capture[k] EXCEPT !.pc = pc]
<1>1. capture[k] \in CaptureStates
  BY DEF CallsInv
<1>2. c \in CaptureStates /\ c.pc = pc /\ capture' = [capture EXCEPT ![k] = c]
  BY <1>1 DEF CaptureStates
<1> HIDE DEF c
<1> QED BY <1>2, CallMoves

LEMMA CallsCaptureKeeps ==
  ASSUME ArtInv, NEW k \in Captures, NEW s \in OwnersOfFiles, CallsCapture(k, s) PROVE ArtInv'
<1> DEFINE c == [NoCapture EXCEPT !.pc = "queued", !.of = s]
<1>1. c \in CaptureStates /\ c.pc = "queued"
  BY DEF NoCapture, CaptureStates
<1>2. capture' = [capture EXCEPT ![k] = c]
  BY DEF CallsCapture
<1> HIDE DEF c
<1>3. CallsInv'
  BY <1>1, <1>2, ArtHalves, CallMoves
<1> QED BY <1>3, ArtHalves, ArtJoins, StoreStays, CopiesStay DEF CallsCapture, storeVars, outerVars

LEMMA EntersCaptureKeeps == ASSUME ArtInv, NEW k \in Captures, EntersCapture(k) PROVE ArtInv'
<1>0. StoreInv /\ CallsInv /\ CopiesInv /\ UNCHANGED <<disk, copyVars, outerVars>>
  BY ArtHalves DEF EntersCapture
<1>1. CallsInv'
  <2>1. Finished(k) \/ capture' = [capture EXCEPT ![k].pc = "page"]
    BY DEF EntersCapture
  <2> QED BY <1>0, <2>1, CallFinishes, CallGoes
<1>2. StoreInv'
  <2>1. record' = record \/ \E a \in Artifacts : record' = MarkMissing(a, record[a])
    BY DEF EntersCapture, FilesOf
  <2> QED BY <1>0, <2>1, StoreStays, MarkedStore DEF outerVars
<1> QED BY <1>0, <1>1, <1>2, ArtHalves, ArtJoins, CopiesStay DEF outerVars

LEMMA EnsuresPageKeeps == ASSUME ArtInv, NEW k \in Captures, EnsuresPage(k) PROVE ArtInv'
<1>1. Finished(k) \/ capture' = [capture EXCEPT ![k].pc = "discover"]
  BY DEF EnsuresPage
<1>2. CallsInv'
  BY <1>1, ArtHalves, CallFinishes, CallGoes
<1> QED BY <1>2, ArtHalves, ArtJoins, StoreStays, CopiesStay DEF EnsuresPage, storeVars

LEMMA DiscoversKeeps == ASSUME ArtInv, NEW k \in Captures, Discovers(k) PROVE ArtInv'
<1>0. StoreInv /\ CallsInv /\ CopiesInv /\ UNCHANGED <<disk, copyVars, outerVars>>
  BY ArtHalves DEF Discovers
<1>1. CASE Finished(k) /\ UNCHANGED record
  BY <1>0, <1>1, ArtHalves, ArtJoins, CallFinishes, StoreStays, CopiesStay DEF outerVars
<1>2. ASSUME NEW found \in Found(capture[k].of), record' = Persisted(found),
             \/ Finished(k)
             \/ capture' = [capture EXCEPT ![k] = [@ EXCEPT !.pc = "files", !.todo = found, !.seen = record']]
      PROVE  ArtInv'
  <2>1. StoreInv'
    BY <1>0, <1>2, PersistedStore DEF outerVars
  <2>2. CallsInv'
    <3> DEFINE seen == record'
               c == [capture[k] EXCEPT !.pc = "files", !.todo = found, !.seen = seen]
    <3>1. capture[k] \in CaptureStates /\ found \in SUBSET Artifacts /\ seen \in [Artifacts -> Rows]
      BY <1>0, <2>1 DEF CallsInv, StoreInv, Found, FilesOf
    <3>2. CASE capture' = [capture EXCEPT ![k] = c]
      <4> HIDE DEF seen
      <4>1. c \in CaptureStates /\ c.pc = "files"
        BY <3>1 DEF CaptureStates
      <4> HIDE DEF c
      <4> QED BY <1>0, <3>2, <4>1, CallMoves
    <3>3. CASE Finished(k)
      BY <1>0, <3>3, CallFinishes
    <3> QED BY <1>2, <3>2, <3>3
  <2> QED BY <1>0, <2>1, <2>2, ArtHalves, ArtJoins, CopiesStay DEF outerVars
<1> QED BY <1>1, <1>2 DEF Discovers

LEMMA AsksKeeps == ASSUME ArtInv, NEW k \in Captures, NEW a \in Artifacts, Asks(k, a) PROVE ArtInv'
<1> DEFINE c == [capture[k] EXCEPT !.pc = "file", !.doing = a]
<1>0. StoreInv /\ CallsInv /\ CopiesInv /\ UNCHANGED <<disk, copyVars, outerVars>>
  BY ArtHalves DEF Asks
<1>1. StoreInv'
  BY <1>0, MarkedStore DEF Asks, outerVars
<1>2. capture[k] \in CaptureStates /\ capture' = [capture EXCEPT ![k] = c]
  BY <1>0 DEF CallsInv, Asks
<1>3. c \in CaptureStates /\ c.doing = a
  BY <1>2 DEF CaptureStates
<1> HIDE DEF c
<1>4. CallsInv'
  BY <1>0, <1>2, <1>3, CallMoves
<1> QED BY <1>0, <1>1, <1>4, ArtHalves, ArtJoins, CopiesStay DEF outerVars

(* The file first, then the row that names it.                             *)
LEMMA StoresKeeps == ASSUME ArtInv, NEW k \in Captures, Stores(k) PROVE ArtInv'
<1>0. StoreInv /\ CallsInv /\ CopiesInv /\ UNCHANGED <<copyVars, outerVars>>
  BY ArtHalves DEF Stores
<1>1. CallsInv'
  BY <1>0, FileFinishes DEF Stores
<1>2. CASE UNCHANGED storeVars
  BY <1>0, <1>1, <1>2, ArtHalves, ArtJoins, StoreStays, CopiesStay DEF storeVars, outerVars
<1>3. CASE /\ disk' = [disk EXCEPT ![Bytes(capture[k].doing)] = "whole"]
           /\ record' = [record EXCEPT ![capture[k].doing] = Downloaded(Bytes(capture[k].doing))]
  <2>1. PICK a \in Artifacts, c \in Contents : a = capture[k].doing /\ c = Bytes(capture[k].doing)
    BY <1>0, ArtHalves DEF CallsInv, FileInHand, Stores, Bytes
  <2>2. Downloaded(c) \in Rows /\ Downloaded(c).content = c
    BY DEF Downloaded, Rows
  <2>3. disk' = [disk EXCEPT ![c] = "whole"] /\ record' = [record EXCEPT ![a] = Downloaded(c)] /\ harmed' = harmed
    BY <1>0, <1>3, <2>1 DEF outerVars
  <2>4. disk' \in [Contents -> OnDisk] /\ record' \in [Artifacts -> Rows]
    BY <1>0, <2>2, <2>3 DEF StoreInv, OnDisk
  <2>5. ASSUME NEW b \in Artifacts, record'[b].state = "downloaded"
        PROVE  record'[b].content \in Contents /\ (disk'[record'[b].content] = "whole" \/ record'[b].content \in harmed')
    <3>1. CASE b = a
      BY <1>0, <2>2, <2>3, <3>1 DEF StoreInv
    <3>2. CASE b # a
      <4>1. record'[b] = record[b] /\ record[b].content \in Contents
        BY <1>0, <2>3, <2>5, <3>2 DEF StoreInv, NamesContent
      <4>2. disk[record[b].content] = "whole" \/ record[b].content \in harmed
        BY <1>0, <2>5, <4>1 DEF StoreInv, DownloadedIsStored
      <4>3. disk[record[b].content] = "whole" => disk'[record[b].content] = "whole"
        BY <1>0, <2>3, <4>1 DEF StoreInv
      <4> QED BY <2>3, <4>1, <4>2, <4>3
    <3> QED BY <3>1, <3>2
  <2>6. StoreInv'
    BY <1>0, <2>3, <2>4, <2>5 DEF StoreInv, NamesContent, DownloadedIsStored
  <2> QED BY <1>0, <1>1, <2>6, ArtHalves, ArtJoins, CopiesStay DEF outerVars
<1> QED BY <1>2, <1>3 DEF Stores

LEMMA ExportKeeps == ASSUME ArtInv, NEW a \in Artifacts, Export(a) PROVE ArtInv'
BY ArtHalves, ArtJoins, MarkedStore, CallsStay, CopiesStay DEF Export, outerVars

(* What is on the disk changes: harmed, or stored just before a crash.     *)
LEMMA DiskChanges ==
  ASSUME StoreInv, NEW c \in Contents, NEW how \in OnDisk, disk' = [disk EXCEPT ![c] = how],
         record' = record, harmed' \in {harmed, harmed \cup {c}}, how = "whole" \/ c \in harmed'
  PROVE  StoreInv'
<1>1. disk' \in [Contents -> OnDisk] /\ harmed' \subseteq Contents /\ harmed \subseteq harmed'
  BY DEF StoreInv
<1>2. ASSUME NEW b \in Artifacts, record[b].state = "downloaded"
      PROVE  record[b].content \in Contents /\ (disk'[record[b].content] = "whole" \/ record[b].content \in harmed')
  <2>1. record[b].content \in Contents /\ (disk[record[b].content] = "whole" \/ record[b].content \in harmed)
    BY <1>2 DEF StoreInv, NamesContent, DownloadedIsStored
  <2>2. CASE record[b].content = c
    BY <2>1, <2>2 DEF StoreInv
  <2>3. CASE record[b].content # c
    BY <1>1, <2>1, <2>3 DEF StoreInv
  <2> QED BY <2>2, <2>3
<1> QED BY <1>1, <1>2 DEF StoreInv, NamesContent, DownloadedIsStored

LEMMA CoreCrashKeeps == ASSUME ArtInv, NEW k \in Captures, CoreCrash(k) PROVE ArtInv'
<1>0. StoreInv /\ CallsInv /\ CopiesInv /\ UNCHANGED <<offered, record, copyVars, harmed>>
  BY ArtHalves DEF CoreCrash
<1>1. NoCapture \in CaptureStates /\ NoCapture.pc = "idle"
  BY DEF NoCapture, CaptureStates
<1>2. CallsInv'
  BY <1>1 DEF CoreCrash, CallsInv, FileInHand
<1>3. StoreInv'
  <2>1. CASE UNCHANGED disk
    BY <1>0, <2>1, StoreStays
  <2>2. CASE capture[k].pc = "file" /\ disk' = [disk EXCEPT ![Bytes(capture[k].doing)] = "whole"]
    <3>1. PICK c \in Contents : c = Bytes(capture[k].doing)
      BY <1>0, <2>2, ArtHalves DEF CallsInv, FileInHand, Bytes
    <3> QED BY <1>0, <2>2, <3>1, DiskChanges DEF OnDisk
  <2> QED BY <2>1, <2>2 DEF CoreCrash
<1> QED BY <1>0, <1>2, <1>3, ArtHalves, ArtJoins, CopiesStay DEF copyVars

LEMMA ArtMoveKeeps == ASSUME ArtInv, ArtMove PROVE ArtInv'
<1>0. StoreInv /\ CallsInv /\ CopiesInv /\ offered \in [Artifacts -> Contents]
  BY ArtHalves
<1>1. ASSUME NEW c \in Contents, NEW how \in {"none", "short", "rotten"}, Harm(c, how) PROVE ArtInv'
  <2>1. StoreInv'
    BY <1>0, <1>1, DiskChanges DEF Harm, OnDisk
  <2> QED BY <1>0, <1>1, <2>1, ArtHalves, ArtJoins, CallsStay, CopiesStay DEF Harm
<1>2. ASSUME NEW a \in Artifacts, NEW c \in Contents, Changes(a, c) PROVE ArtInv'
  <2>1. offered' \in [Artifacts -> Contents]
    BY <1>0, <1>2 DEF Changes
  <2> QED BY <1>0, <1>2, <2>1, ArtHalves, ArtJoins, StoreStays, CallsStay, CopiesStay DEF Changes, storeVars
<1>3. ASSUME NEW s \in OwnersOfFiles, PageLeaves(s) PROVE ArtInv'
  BY <1>0, <1>3, ArtHalves, ArtJoins, StoreStays, CallsStay, CopiesStay DEF PageLeaves, storeVars
<1> QED BY <1>1, <1>2, <1>3, CoreCrashKeeps DEF ArtMove

(* The copies: every piece is one of the store, under the name of its sum. *)
LEMMA CopyMoves ==
  ASSUME CopiesInv, NEW t \in Transfers, NEW x \in TransferStates,
         x.pc = "reading" => x.of \in Artifacts /\ x.sum \in Contents,
         transfer' = [transfer EXCEPT ![t] = x]
  PROVE  transfer' \in [Transfers -> TransferStates] /\ PieceInHand'
BY DEF CopiesInv, PieceInHand

LEMMA CopyAborts ==
  ASSUME CopiesInv, NEW t \in Transfers, Aborts(t)
  PROVE  transfer' \in [Transfers -> TransferStates] /\ PieceInHand'
<1>1. NoTransfer \in TransferStates /\ NoTransfer.pc = "idle"
  BY DEF NoTransfer, TransferStates
<1> QED BY <1>1, CopyMoves DEF Aborts

LEMMA PieceIsStored ==
  ASSUME StoreInv, NEW a \in Artifacts, Readable(a)
  PROVE  record[a].content \in Contents /\ Piece(a) \in Contents \X OnDisk
<1>1. record[a].content \in Contents
  BY DEF StoreInv, NamesContent, Readable
<1>2. disk[record[a].content] \in OnDisk
  BY <1>1 DEF StoreInv
<1> QED BY <1>1, <1>2 DEF Piece

LEMMA FirstReadKeeps ==
  ASSUME ArtInv, NEW t \in Transfers, NEW a \in Artifacts, NEW over \in BOOLEAN, FirstRead(t, a, over) PROVE ArtInv'
<1> DEFINE p == Piece(a)
           sum == record[a].content
           x == [pc |-> "reading", of |-> a, sum |-> sum, got |-> <<p>>, over |-> over]
<1>0. /\ StoreInv /\ CallsInv /\ CopiesInv /\ UNCHANGED <<storeVars, capture, published, outerVars>>
      /\ transfer' = [transfer EXCEPT ![t] = x]
  BY ArtHalves DEF FirstRead
<1>1. sum \in Contents /\ p \in Contents \X OnDisk
  BY <1>0, PieceIsStored DEF FirstRead
<1> HIDE DEF p, sum
<1>2. <<p>> \in Seq(Contents \X OnDisk)
  BY <1>1
<1>3. x \in TransferStates /\ x.of = a /\ x.sum = sum
  BY <1>1, <1>2 DEF TransferStates
<1> HIDE DEF x
<1>4. CopiesInv'
  BY <1>0, <1>1, <1>3, CopyMoves DEF CopiesInv, PublishedIsExact
<1> QED BY <1>0, <1>4, ArtHalves, ArtJoins, StoreStays, CallsStay DEF storeVars, outerVars

LEMMA NextReadKeeps == ASSUME ArtInv, NEW t \in Transfers, NextRead(t) PROVE ArtInv'
<1>0. StoreInv /\ CallsInv /\ CopiesInv /\ UNCHANGED <<storeVars, capture, published, outerVars>>
  BY ArtHalves DEF NextRead
<1>1. transfer[t] \in TransferStates /\ transfer[t].of \in Artifacts /\ transfer[t].sum \in Contents
  BY <1>0 DEF CopiesInv, PieceInHand, NextRead
<1>2. transfer' \in [Transfers -> TransferStates] /\ PieceInHand'
  <2>1. CASE Aborts(t)
    BY <1>0, <2>1, CopyAborts
  <2>2. CASE /\ Readable(transfer[t].of)
             /\ transfer' = [transfer EXCEPT ![t].got = Append(transfer[t].got, Piece(transfer[t].of))]
    <3> DEFINE p == Piece(transfer[t].of)
               got == Append(transfer[t].got, p)
               x == [transfer[t] EXCEPT !.got = got]
    <3>1. p \in Contents \X OnDisk
      BY <1>0, <1>1, <2>2, PieceIsStored
    <3> HIDE DEF p
    <3>2. transfer[t].got \in Seq(Contents \X OnDisk)
      BY <1>1 DEF TransferStates
    <3>3. got \in Seq(Contents \X OnDisk)
      BY <3>1, <3>2
    <3>4. transfer' = [transfer EXCEPT ![t] = x]
      BY <2>2 DEF p
    <3> HIDE DEF got
    <3>5. x \in TransferStates /\ x.of = transfer[t].of /\ x.sum = transfer[t].sum
      BY <1>1, <3>3 DEF TransferStates
    <3> HIDE DEF x
    <3> QED BY <1>0, <1>1, <3>4, <3>5, CopyMoves
  <2> QED BY <2>1, <2>2 DEF NextRead
<1>3. CopiesInv'
  BY <1>0, <1>2 DEF CopiesInv, PublishedIsExact
<1> QED BY <1>0, <1>3, ArtHalves, ArtJoins, StoreStays, CallsStay DEF storeVars, outerVars

(* The sum of all that arrived is that of one content's pieces.            *)
LEMMA PublishesKeeps == ASSUME ArtInv, NEW t \in Transfers, Publishes(t) PROVE ArtInv'
<1>0. StoreInv /\ CallsInv /\ CopiesInv /\ UNCHANGED <<storeVars, capture, outerVars>>
  BY ArtHalves DEF Publishes
<1>1. transfer' \in [Transfers -> TransferStates] /\ PieceInHand'
  BY <1>0, CopyAborts DEF Publishes
<1>2. published' \in [Artifacts -> Seq(Contents \X OnDisk)] /\ PublishedIsExact'
  <2>1. CASE UNCHANGED published
    BY <1>0, <2>1 DEF CopiesInv, PublishedIsExact
  <2>2. CASE /\ transfer[t].got = ExactCopy(transfer[t].sum)
             /\ published' = [published EXCEPT ![transfer[t].of] = transfer[t].got]
    <3>1. PICK a \in Artifacts, c \in Contents : a = transfer[t].of /\ c = transfer[t].sum
      BY <1>0 DEF CopiesInv, PieceInHand, Publishes
    <3>2. transfer[t].got \in Seq(Contents \X OnDisk) /\ transfer[t].got = ExactCopy(c)
      BY <1>0, <2>2, <3>1 DEF CopiesInv, TransferStates
    <3>3. published' = [published EXCEPT ![a] = transfer[t].got]
      BY <2>2, <3>1
    <3>4. published' \in [Artifacts -> Seq(Contents \X OnDisk)]
      BY <1>0, <3>2, <3>3 DEF CopiesInv
    <3>5. ASSUME NEW b \in Artifacts, published'[b] # <<>> PROVE \E d \in Contents : published'[b] = ExactCopy(d)
      <4>1. CASE b = a
        BY <1>0, <3>2, <3>3, <4>1 DEF CopiesInv
      <4>2. CASE b # a
        BY <1>0, <3>3, <3>5, <4>2 DEF CopiesInv, PublishedIsExact
      <4> QED BY <4>1, <4>2
    <3>6. PublishedIsExact'
      BY <3>5 DEF PublishedIsExact, ExactCopy
    <3> QED BY <3>4, <3>6
  <2> QED BY <2>1, <2>2 DEF Publishes
<1>3. CopiesInv'
  BY <1>1, <1>2 DEF CopiesInv
<1> QED BY <1>0, <1>3, ArtHalves, ArtJoins, StoreStays, CallsStay DEF storeVars, outerVars

LEMMA ArtSteps == ArtInv /\ [ArtNext]_artVars => ArtInv'
<1> SUFFICES ASSUME ArtInv, [ArtNext]_artVars PROVE ArtInv'
  OBVIOUS
<1>1. ASSUME NEW k \in Captures, Capturing(k) PROVE ArtInv'
  <2>1. ASSUME NEW a, FileDone(k, a), UNCHANGED <<storeVars, copyVars, outerVars>> PROVE ArtInv'
    BY <2>1, ArtHalves, ArtJoins, FileFinishes, StoreStays, CopiesStay DEF storeVars, outerVars
  <2>2. CASE NotDelivered(k)
    BY <2>1, <2>2 DEF NotDelivered
  <2>3. ASSUME NEW a \in Artifacts, Reuses(k, a) PROVE ArtInv'
    BY <2>1, <2>3 DEF Reuses
  <2> QED BY <1>1, <2>2, <2>3, EntersCaptureKeeps, EnsuresPageKeeps, DiscoversKeeps, StoresKeeps, AsksKeeps DEF Capturing
<1>2. CASE UNCHANGED artVars
  BY <1>2, ArtHalves, ArtJoins, StoreStays, CallsStay, CopiesStay DEF artVars, copyVars
<1> QED
  BY <1>1, <1>2, CallsCaptureKeeps, ExportKeeps, FirstReadKeeps, NextReadKeeps, PublishesKeeps, ArtMoveKeeps DEF ArtNext

(* Rows, store, calls and copies stay consistent, whatever captures,       *)
(* transfers, crashes and damage do in between: the invariant of           *)
(* ArtifactService and of the copying to an agent's computer.              *)
THEOREM ArtInvariant == ArtSpec => []ArtInv
BY ArtStarts, ArtSteps, PTL DEF ArtSpec

(* A row says downloaded only of bytes that are in the store, or were and  *)
(* have been harmed there since.                                           *)
THEOREM RowsNameStoredFiles == ArtSpec => []DownloadedIsStored
<1>1. ArtInv => DownloadedIsStored
  BY DEF ArtInv
<1> QED BY ArtInvariant, <1>1, PTL

(* What an agent's computer gets is one content, never a mixture of two,   *)
(* nor a damaged one, though the store changes between the pieces.         *)
THEOREM CopiesAreExact == ArtSpec => []PublishedIsExact
<1>1. ArtInv => PublishedIsExact
  BY DEF ArtInv
<1> QED BY ArtInvariant, <1>1, PTL

(* ServerAnswer.  The document is a tree whose nodes come after their       *)
(* parents.  Branch and TurnOf are recursive: that a function fits the     *)
(* equation exists because one for the first m nodes extends by one, and   *)
(* what it says of a node follows from the least node it would fail for.   *)

TreeInv ==
  /\ doc \in Seq([parent : Int, is : Kinds]) /\ Len(doc) \in Nat \ {0}
  /\ \A k \in 1..Len(doc) : IF k = 1 THEN doc[k].parent \in {Top, Gone} ELSE doc[k].parent \in 1..(k - 1)
  /\ current \in 1..Len(doc)

LEMMA TreeStarts == AnswerInit => TreeInv
<1> SUFFICES ASSUME AnswerInit PROVE TreeInv
  OBVIOUS
<1>1. PICK p \in {Top, Gone} : doc = <<[parent |-> p, is |-> "other"]>>
  BY DEF AnswerInit
<1>2. [parent |-> p, is |-> "other"] \in [parent : Int, is : Kinds]
  BY DEF Top, Gone, Kinds
<1>3. doc \in Seq([parent : Int, is : Kinds]) /\ Len(doc) = 1 /\ doc[1].parent = p
  BY <1>1, <1>2
<1> QED BY <1>3 DEF TreeInv, AnswerInit

LEMMA AddsStep == ASSUME TreeInv, NEW p \in Nodes, NEW k \in Kinds, Adds(p, k) PROVE TreeInv'
<1> DEFINE M == [parent : Int, is : Kinds]
           new == [parent |-> p, is |-> k]
<1>1. doc \in Seq(M) /\ Len(doc) \in Nat /\ p \in 1..Len(doc)
  BY DEF TreeInv, Nodes
<1>2. new \in M /\ new.parent = p
  BY <1>1
<1>3. doc' = Append(doc, new) /\ current' = Len(doc) + 1
  BY DEF Adds
<1> HIDE DEF new, M
<1>4. doc' \in Seq(M) /\ Len(doc') = Len(doc) + 1
  BY <1>1, <1>2, <1>3
<1>5. \A i \in 1..Len(doc) : doc'[i] = doc[i]
  BY <1>1, <1>2, <1>3
<1>6. doc'[Len(doc) + 1] = new
  BY <1>1, <1>2, <1>3
<1>7. \A i \in 1..Len(doc') : IF i = 1 THEN doc'[i].parent \in {Top, Gone} ELSE doc'[i].parent \in 1..(i - 1)
  <2> SUFFICES ASSUME NEW i \in 1..Len(doc')
               PROVE  IF i = 1 THEN doc'[i].parent \in {Top, Gone} ELSE doc'[i].parent \in 1..(i - 1)
    OBVIOUS
  <2>1. CASE i \in 1..Len(doc)
    BY <2>1, <1>5 DEF TreeInv
  <2>2. CASE i = Len(doc) + 1
    BY <2>2, <1>1, <1>2, <1>6
  <2> QED BY <2>1, <2>2, <1>1, <1>4
<1> QED BY <1>1, <1>3, <1>4, <1>7 DEF TreeInv, M

LEMMA SettlesStep == ASSUME TreeInv, NEW n \in Nodes, NEW k \in Kinds, Settles(n, k) PROVE TreeInv'
<1> DEFINE M == [parent : Int, is : Kinds]
<1>1. doc \in Seq(M) /\ Len(doc) \in Nat /\ n \in 1..Len(doc)
  BY DEF TreeInv, Nodes
<1>2. doc' = [doc EXCEPT ![n].is = k] /\ current' = current
  BY DEF Settles
<1> HIDE DEF M
<1>3. DOMAIN doc = 1..Len(doc) /\ \A i \in 1..Len(doc) : doc[i] \in M
  BY <1>1
<1>4. DOMAIN doc' = 1..Len(doc) /\ \A i \in 1..Len(doc) : doc'[i] \in M /\ doc'[i].parent = doc[i].parent
  BY <1>2, <1>3 DEF M
<1>5. doc' = [i \in 1..Len(doc) |-> doc'[i]]
  BY <1>2, <1>3
<1>6. doc' \in Seq(M) /\ Len(doc') = Len(doc)
  BY <1>1, <1>4, <1>5
<1> QED BY <1>2, <1>4, <1>6 DEF TreeInv, M

LEMMA TreeMoves == ASSUME TreeInv, [AnswerNext]_answerVars PROVE TreeInv'
<1>1. CASE UNCHANGED answerVars
  BY <1>1 DEF TreeInv, answerVars
<1>2. ASSUME NEW n \in Nodes, Selects(n) PROVE TreeInv'
  BY <1>2 DEF TreeInv, Selects, Nodes
<1> QED BY <1>1, <1>2, AddsStep, SettlesStep DEF AnswerNext

(* The least node of a set, used where the code's loop goes one node on. *)
LEMMA LeastOf == ASSUME NEW S \in SUBSET Nat, S # {} PROVE \E n \in S : \A m \in S : n <= m
<1> DEFINE Less == OpToRel(<, Nat)
<1>1. IsWellFoundedOn(Less, Nat)
  BY NatLessThanWellFounded
<1>2. \A x, y \in Nat : <<y, x>> \in Less <=> y < x
  BY DEF OpToRel
<1> HIDE DEF Less
<1>3. PICK x \in S : \A y \in S : ~ (<<y, x>> \in Less)
  BY <1>1, WFMin
<1>4. \A y \in S : x \in Nat /\ y \in Nat /\ ~ (y < x)
  BY <1>2, <1>3
<1> QED BY <1>4

Parent(n) == doc[n].parent

LEMMA Above == ASSUME TreeInv
               PROVE /\ Nodes = 1..Len(doc) /\ Len(doc) \in Nat
                     /\ \A n \in Nodes : Parent(n) \in Nodes => Parent(n) < n
                     /\ \A n \in Nodes : (Parent(n) \notin Nodes) <=> (n = 1)
                     /\ 1 \in Nodes /\ Top \notin Nodes /\ current \in Nodes
                     /\ Parent(1) \in {Top, Gone} /\ Top # Gone
<1>1. Nodes = 1..Len(doc) /\ Len(doc) \in Nat \ {0}
  BY DEF TreeInv, Nodes
<1>2. \A n \in Nodes : n # 1 => Parent(n) \in 1..(n - 1)
  BY <1>1 DEF TreeInv, Parent
<1>3. 1 \in Nodes /\ Parent(1) \in {Top, Gone}
  BY <1>1 DEF TreeInv, Parent
<1> QED BY <1>1, <1>2, <1>3 DEF TreeInv, Top, Gone

LEMMA BranchIs ==
  ASSUME TreeInv
  PROVE  Branch = [n \in Nodes |-> IF Parent(n) \in Nodes THEN Append(Branch[Parent(n)], n) ELSE <<n>>]
<1> DEFINE F(g, n) == IF Parent(n) \in Nodes THEN Append(g[Parent(n)], n) ELSE <<n>>
           Fits(g, m) == g = [n \in 1..m |-> F(g, n)]
           Bad == {m \in Nat : m <= Len(doc) /\ ~ \E g : Fits(g, m)}
<1>1. Bad = {}
  <2> SUFFICES ASSUME Bad # {} PROVE FALSE
    OBVIOUS
  <2>1. PICK m \in Bad : \A i \in Bad : m <= i
    BY LeastOf
  <2>2. m # 0
    <3> DEFINE none == [n \in 1..0 |-> n]
    <3>1. Fits(none, 0)
      OBVIOUS
    <3> QED BY <3>1
  <2> HIDE DEF Fits
  <2>3. PICK g : Fits(g, m - 1)
    <3>1. m \in Nat /\ m - 1 \in Nat /\ m - 1 < m /\ m <= Len(doc) /\ Len(doc) \in Nat
      BY <2>2, Above
    <3> QED BY <2>1, <3>1
  <2> USE DEF Fits
  <2> DEFINE h == [n \in 1..m |-> IF n = m THEN F(g, m) ELSE g[n]]
  <2>4. \A n \in 1..m : F(h, n) = F(g, n)
    BY <2>1, <2>2, Above
  <2>5. \A n \in 1..(m - 1) : g[n] = F(g, n)
    BY <2>3
  <2> HIDE DEF F
  <2>6. \A n \in 1..m : h[n] = F(h, n)
    BY <2>1, <2>2, <2>4, <2>5
  <2>7. Fits(h, m)
    BY <2>6
  <2> QED BY <2>7, <2>1
<1> HIDE DEF Fits
<1>2. \E g : Fits(g, Len(doc))
  <2>1. Len(doc) \in Nat /\ Len(doc) <= Len(doc)
    BY Above
  <2> QED BY <1>1, <2>1
<1>3. \E g : g = [n \in Nodes |-> F(g, n)]
  BY <1>2, Above DEF Fits
<1> QED BY <1>3 DEF Branch, Parent

LEMMA TurnIs ==
  ASSUME TreeInv
  PROVE  TurnOf = [n \in Nodes |-> IF IsUser(n) \/ Parent(n) \notin Nodes THEN n ELSE TurnOf[Parent(n)]]
<1> DEFINE F(g, n) == IF IsUser(n) \/ Parent(n) \notin Nodes THEN n ELSE g[Parent(n)]
           Fits(g, m) == g = [n \in 1..m |-> F(g, n)]
           Bad == {m \in Nat : m <= Len(doc) /\ ~ \E g : Fits(g, m)}
<1>1. Bad = {}
  <2> SUFFICES ASSUME Bad # {} PROVE FALSE
    OBVIOUS
  <2>1. PICK m \in Bad : \A i \in Bad : m <= i
    BY LeastOf
  <2>2. m # 0
    <3> DEFINE none == [n \in 1..0 |-> n]
    <3>1. Fits(none, 0)
      OBVIOUS
    <3> QED BY <3>1
  <2> HIDE DEF Fits
  <2>3. PICK g : Fits(g, m - 1)
    <3>1. m \in Nat /\ m - 1 \in Nat /\ m - 1 < m /\ m <= Len(doc) /\ Len(doc) \in Nat
      BY <2>2, Above
    <3> QED BY <2>1, <3>1
  <2> USE DEF Fits
  <2> DEFINE h == [n \in 1..m |-> IF n = m THEN F(g, m) ELSE g[n]]
  <2>4. \A n \in 1..m : F(h, n) = F(g, n)
    BY <2>1, <2>2, Above
  <2>5. \A n \in 1..(m - 1) : g[n] = F(g, n)
    BY <2>3
  <2> HIDE DEF F
  <2>6. \A n \in 1..m : h[n] = F(h, n)
    BY <2>1, <2>2, <2>4, <2>5
  <2>7. Fits(h, m)
    BY <2>6
  <2> QED BY <2>7, <2>1
<1> HIDE DEF Fits
<1>2. \E g : Fits(g, Len(doc))
  <2>1. Len(doc) \in Nat /\ Len(doc) <= Len(doc)
    BY Above
  <2> QED BY <1>1, <2>1
<1>3. \E g : g = [n \in Nodes |-> F(g, n)]
  BY <1>2, Above DEF Fits
<1> QED BY <1>3 DEF TurnOf, Parent

(* What the loop over parents collects, once it is turned round: the nodes *)
(* from the root to n, each the parent of the next, in the order in which  *)
(* they were made.                                                         *)
Leads(b, n) ==
  /\ b \in Seq(Nodes) /\ Len(b) \in Nat \ {0} /\ b[1] = 1 /\ b[Len(b)] = n
  /\ \A i \in 2..Len(b) : Parent(b[i]) = b[i - 1]
  /\ \A i, j \in 1..Len(b) : i < j => b[i] < b[j]

LEMMA LeadsOn ==
  ASSUME TreeInv, NEW n \in Nodes, n # 1, NEW b, Leads(b, Parent(n))
  PROVE  Leads(Append(b, n), n)
<1> DEFINE c == Append(b, n)
<1>1. b \in Seq(Nodes) /\ Len(b) \in Nat \ {0} /\ Parent(n) < n /\ b[Len(b)] = Parent(n)
  BY Above DEF Leads
<1>2. c \in Seq(Nodes) /\ Len(c) = Len(b) + 1
  BY <1>1
<1>3. \A i \in 1..Len(b) : c[i] = b[i]
  BY <1>1
<1>4. c[Len(b) + 1] = n
  BY <1>1
<1> HIDE DEF c
<1>5. \A i \in 2..Len(c) : Parent(c[i]) = c[i - 1]
  <2> SUFFICES ASSUME NEW i \in 2..Len(c) PROVE Parent(c[i]) = c[i - 1]
    OBVIOUS
  <2>1. CASE i <= Len(b)
    <3>1. i \in 2..Len(b) /\ i - 1 \in 1..Len(b) /\ i \in 1..Len(b)
      BY <2>1, <1>1, <1>2
    <3> QED BY <3>1, <1>3 DEF Leads
  <2>2. CASE i = Len(b) + 1
    <3>1. i - 1 = Len(b) /\ Len(b) \in 1..Len(b)
      BY <2>2, <1>1
    <3> QED BY <2>2, <3>1, <1>1, <1>3, <1>4
  <2> QED BY <2>1, <2>2, <1>1, <1>2
<1>6. \A i \in 1..Len(b) : b[i] \in Nodes /\ b[i] <= Parent(n)
  <2> SUFFICES ASSUME NEW i \in 1..Len(b) PROVE b[i] \in Nodes /\ b[i] <= Parent(n)
    OBVIOUS
  <2>1. b[i] \in Nodes
    BY <1>1
  <2>2. CASE i = Len(b)
    BY <1>1, <2>1, <2>2, Above
  <2>3. CASE i < Len(b)
    <3>1. Len(b) \in 1..Len(b)
      BY <1>1
    <3>2. b[i] < Parent(n)
      BY <1>1, <2>3, <3>1 DEF Leads
    <3>3. b[i] \in Int /\ Parent(n) \in Int
      BY <1>1, <2>1, <3>1, Above
    <3> QED BY <2>1, <3>2, <3>3
  <2> QED BY <2>2, <2>3, <1>1
<1>7. \A i, j \in 1..Len(c) : i < j => c[i] < c[j]
  <2> SUFFICES ASSUME NEW i \in 1..Len(c), NEW j \in 1..Len(c), i < j PROVE c[i] < c[j]
    OBVIOUS
  <2>1. i \in 1..Len(b)
    BY <1>1, <1>2
  <2>2. CASE j <= Len(b)
    BY <2>1, <2>2, <1>1, <1>3 DEF Leads
  <2>3. CASE j = Len(b) + 1
    <3>1. b[i] \in Int /\ Parent(n) \in Int /\ n \in Int
      BY <1>1, <1>6, <2>1, Above
    <3> QED BY <2>1, <2>3, <3>1, <1>1, <1>3, <1>4, <1>6
  <2> QED BY <2>2, <2>3, <1>1, <1>2
<1>8. c[1] = 1 /\ c[Len(c)] = n
  BY <1>1, <1>2, <1>3, <1>4 DEF Leads
<1> QED BY <1>1, <1>2, <1>5, <1>7, <1>8 DEF Leads, c

LEMMA BranchLeads == ASSUME TreeInv, NEW n \in Nodes PROVE Leads(Branch[n], n)
<1> DEFINE Bad == {k \in Nodes : ~Leads(Branch[k], k)}
<1> SUFFICES ASSUME Bad # {} PROVE FALSE
  OBVIOUS
<1>1. PICK k \in Bad : \A i \in Bad : k <= i
  <2>1. Bad \in SUBSET Nat
    BY Above
  <2> QED BY <2>1, LeastOf
<1>2. CASE k = 1
  <2>1. Branch[k] = <<1>>
    BY <1>2, BranchIs, Above
  <2>2. Leads(<<1>>, 1)
    BY Above DEF Leads
  <2> QED BY <1>1, <1>2, <2>1, <2>2
<1>3. CASE k # 1
  <2>1. Parent(k) \in Nodes /\ Parent(k) < k /\ k \in Nodes
    BY <1>3, Above
  <2>2. Leads(Branch[Parent(k)], Parent(k))
    BY <1>1, <2>1, Above
  <2>3. Branch[k] = Append(Branch[Parent(k)], k)
    BY <2>1, BranchIs
  <2> QED BY <1>1, <1>3, <2>1, <2>2, <2>3, LeadsOn
<1> QED BY <1>2, <1>3

(* Along a branch, a node is in the turn of the last user message so far.  *)
LastUser(b, i, u) == \E p \in 1..i : b[p] = u /\ \A j \in (p + 1)..i : ~IsUser(b[j])

LEMMA TurnAlong ==
  ASSUME TreeInv, NEW n, NEW b, Leads(b, n), NEW u \in Nodes, IsUser(u), NEW i \in 1..Len(b)
  PROVE  (TurnOf[b[i]] = u) <=> LastUser(b, i, u)
<1> DEFINE Right(k) == (TurnOf[b[k]] = u) <=> LastUser(b, k, u)
           Bad == {k \in 1..Len(b) : ~Right(k)}
<1> SUFFICES ASSUME Bad # {} PROVE FALSE
  OBVIOUS
<1>0. Len(b) \in Nat /\ \A k \in 1..Len(b) : b[k] \in Nodes
  BY DEF Leads
<1>1. PICK k \in Bad : \A m \in Bad : k <= m
  <2>1. Bad \in SUBSET Nat
    OBVIOUS
  <2> QED BY <2>1, LeastOf
<1>2. CASE k = 1
  <2>1. TurnOf[b[k]] = b[k]
    BY <1>0, <1>2, TurnIs, Above DEF Leads
  <2>2. LastUser(b, k, u) <=> b[k] = u
    BY <1>2 DEF LastUser
  <2> QED BY <1>1, <2>1, <2>2
<1>3. CASE k # 1 /\ IsUser(b[k])
  <2>1. TurnOf[b[k]] = b[k]
    BY <1>0, <1>3, TurnIs
  <2>2. LastUser(b, k, u) <=> b[k] = u
    <3>1. \A p \in 1..k : p = k \/ k \in (p + 1)..k
      OBVIOUS
    <3>2. k \in 1..k /\ (k + 1)..k = {}
      OBVIOUS
    <3> QED BY <1>3, <3>1, <3>2 DEF LastUser
  <2> QED BY <1>1, <2>1, <2>2
<1>4. CASE k # 1 /\ ~IsUser(b[k])
  <2>1. k \in 2..Len(b) /\ k - 1 \in 1..Len(b) /\ k - 1 < k
    BY <1>0, <1>4
  <2>2. Parent(b[k]) = b[k - 1] /\ b[k] \in Nodes /\ b[k - 1] \in Nodes
    BY <1>0, <2>1 DEF Leads
  <2>3. TurnOf[b[k]] = TurnOf[b[k - 1]]
    BY <1>4, <2>2, TurnIs
  <2>4. Right(k - 1)
    BY <1>1, <2>1
  <2>5. LastUser(b, k, u) <=> LastUser(b, k - 1, u)
    <3>1. ASSUME NEW p \in 1..k, b[p] = u, \A j \in (p + 1)..k : ~IsUser(b[j]) PROVE LastUser(b, k - 1, u)
      <4>1. p # k
        BY <1>4, <3>1
      <4>2. p \in 1..(k - 1) /\ \A j \in (p + 1)..(k - 1) : j \in (p + 1)..k
        BY <2>1, <4>1
      <4> QED BY <3>1, <4>2 DEF LastUser
    <3>2. ASSUME NEW p \in 1..(k - 1), b[p] = u, \A j \in (p + 1)..(k - 1) : ~IsUser(b[j]) PROVE LastUser(b, k, u)
      <4>1. p \in 1..k /\ \A j \in (p + 1)..k : j = k \/ j \in (p + 1)..(k - 1)
        BY <2>1
      <4> QED BY <1>4, <3>2, <4>1 DEF LastUser
    <3> QED BY <3>1, <3>2 DEF LastUser
  <2> QED BY <1>1, <2>3, <2>4, <2>5
<1> QED BY <1>2, <1>3, <1>4
LEMMA GreatestOf ==
  ASSUME NEW k \in Nat, NEW S \in SUBSET (1..k), S # {} PROVE \E n \in S : \A m \in S : m <= n
<1> DEFINE Rest == {k - n : n \in S}
<1>1. Rest \in SUBSET Nat /\ Rest # {}
  <2>1. \A n \in S : k - n \in Nat
    OBVIOUS
  <2>2. PICK n \in S : TRUE
    OBVIOUS
  <2>3. k - n \in Rest
    OBVIOUS
  <2> QED BY <2>1, <2>3
<1>2. PICK x \in Rest : \A y \in Rest : x <= y
  BY <1>1, LeastOf
<1>3. PICK n \in S : x = k - n
  OBVIOUS
<1>4. ASSUME NEW m \in S PROVE m <= n
  <2>1. k - n <= k - m
    BY <1>2, <1>3
  <2> QED BY <2>1
<1> QED BY <1>4

(* The turn of the message at place p ends before the next user message.   *)
LEMMA TurnEnds ==
  ASSUME NEW b \in Seq(Nodes), NEW p \in 1..Len(b)
  PROVE  \E e \in p..Len(b) : /\ Turn(b, p) = SubSeq(b, p + 1, e)
                              /\ \A j \in (p + 1)..e : ~IsUser(b[j])
                              /\ e = Len(b) \/ IsUser(b[e + 1])
<1> DEFINE after == {i \in p + 1..Len(b) : IsUser(b[i])}
<1>0. Len(b) \in Nat
  OBVIOUS
<1>1. CASE after = {}
  <2>1. Turn(b, p) = SubSeq(b, p + 1, Len(b))
    BY <1>1 DEF Turn
  <2>2. Len(b) \in p..Len(b) /\ \A j \in (p + 1)..Len(b) : ~IsUser(b[j])
    BY <1>0, <1>1
  <2> QED BY <2>1, <2>2
<1>2. CASE after # {}
  <2>1. after \in SUBSET Nat
    BY <1>0
  <2> DEFINE next == CHOOSE i \in after : \A j \in after : i <= j
  <2>2. next \in after /\ \A j \in after : next <= j
    BY <1>2, <2>1, LeastOf
  <2>3. Turn(b, p) = SubSeq(b, p + 1, next - 1)
    BY <1>2 DEF Turn
  <2> HIDE DEF next
  <2>4. next \in (p + 1)..Len(b) /\ IsUser(b[next])
    BY <2>2
  <2>5. next - 1 \in p..Len(b) /\ (next - 1) + 1 = next
    BY <1>0, <2>4
  <2>6. ASSUME NEW j \in (p + 1)..(next - 1), IsUser(b[j]) PROVE FALSE
    <3>1. j \in (p + 1)..Len(b) /\ ~(next <= j)
      BY <1>0, <2>4
    <3> QED BY <2>2, <2>6, <3>1
  <2> QED BY <2>3, <2>4, <2>5, <2>6
<1> QED BY <1>1, <1>2

(* What the loop over the turn ends with.                                  *)
Said(turn) == {i \in 1..Len(turn) : doc[turn[i]].is \in {"live", "final"}}

LEMMA FinalIs ==
  ASSUME NEW turn \in Seq(Nodes)
  PROVE  IF Said(turn) = {} THEN Final(turn) = Top
         ELSE \E i \in Said(turn) : /\ \A j \in Said(turn) : j <= i
                                    /\ Final(turn) = IF doc[turn[i]].is = "final" THEN turn[i] ELSE Top
<1>1. Said(turn) = {i \in DOMAIN turn : doc[turn[i]].is \in {"live", "final"}}
  BY DEF Said
<1>2. CASE Said(turn) = {}
  BY <1>1, <1>2 DEF Final
<1>3. CASE Said(turn) # {}
  <2> DEFINE i == CHOOSE k \in Said(turn) : \A j \in Said(turn) : j <= k
  <2>1. Len(turn) \in Nat /\ Said(turn) \in SUBSET (1..Len(turn))
    BY DEF Said
  <2>2. i \in Said(turn) /\ \A j \in Said(turn) : j <= i
    BY <1>3, <2>1, GreatestOf
  <2>3. Final(turn) = IF doc[turn[i]].is = "final" THEN turn[i] ELSE Top
    BY <1>1, <1>3 DEF Final
  <2> QED BY <1>3, <2>2, <2>3
<1> QED BY <1>2, <1>3

(* A branch as the reading of the message u goes through it: u at place p, *)
(* its turn up to place e.                                                 *)
Turns(b, p, e, u) ==
  /\ p \in 1..Len(b) /\ b[p] = u /\ e \in p..Len(b)
  /\ Turn(b, p) = SubSeq(b, p + 1, e)
  /\ \A j \in 1..Len(b) : (TurnOf[b[j]] = u) <=> (j \in p..e)

LEMMA TurnsOf ==
  ASSUME TreeInv, NEW n, NEW b, Leads(b, n), NEW u \in Nodes, IsUser(u), NEW p \in 1..Len(b), b[p] = u
  PROVE  \E e \in p..Len(b) : Turns(b, p, e, u)
<1>0. b \in Seq(Nodes) /\ Len(b) \in Nat /\ \A j \in 1..Len(b) : b[j] \in Nodes
  BY DEF Leads
<1>1. PICK e \in p..Len(b) : /\ Turn(b, p) = SubSeq(b, p + 1, e)
                             /\ \A j \in (p + 1)..e : ~IsUser(b[j])
                             /\ e = Len(b) \/ IsUser(b[e + 1])
  BY <1>0, TurnEnds
<1>2. \A q \in 1..Len(b) : b[q] = u => q = p
  <2> SUFFICES ASSUME NEW q \in 1..Len(b), b[q] = u, q # p PROVE FALSE
    OBVIOUS
  <2>1. u \in Int
    BY Above
  <2>2. q < p \/ p < q
    BY <1>0
  <2> QED BY <2>1, <2>2 DEF Leads
<1>3. ASSUME NEW j \in 1..Len(b) PROVE (TurnOf[b[j]] = u) <=> (j \in p..e)
  <2>1. (TurnOf[b[j]] = u) <=> LastUser(b, j, u)
    BY TurnAlong
  <2>2. ASSUME j \in p..e PROVE LastUser(b, j, u)
    <3>1. p \in 1..j /\ \A i \in (p + 1)..j : i \in (p + 1)..e
      BY <2>2, <1>0
    <3> QED BY <1>1, <3>1 DEF LastUser
  <2>3. ASSUME LastUser(b, j, u) PROVE j \in p..e
    <3>1. PICK q \in 1..j : b[q] = u /\ \A i \in (q + 1)..j : ~IsUser(b[i])
      BY <2>3 DEF LastUser
    <3>2. q = p
      BY <1>0, <1>2, <3>1
    <3>3. ASSUME j > e PROVE FALSE
      <4>1. e # Len(b) /\ e + 1 \in (q + 1)..j
        BY <1>0, <3>2, <3>3
      <4> QED BY <1>1, <3>1, <4>1
    <3> QED BY <1>0, <3>2, <3>3
  <2> QED BY <2>1, <2>2, <2>3
<1> QED BY <1>1, <1>3 DEF Turns
(* What a reading ends with, when the branch holds the message and when it *)
(* does not.                                                               *)
LEMMA NotOnTheBranch ==
  ASSUME TreeInv, NEW u \in Nodes, u \notin Shown
  PROVE  ServerFinal(u) \in {NotRead, NotShown}
<1>1. Leads(Branch[current], current)
  BY BranchLeads, Above
<1>2. {i \in DOMAIN Branch[current] : Branch[current][i] = u} = {}
  BY DEF Shown
<1> QED BY <1>1, <1>2 DEF ServerFinal, Leads

LEMMA OnTheBranch ==
  ASSUME TreeInv, NEW u \in Nodes, IsUser(u), NEW p \in 1..Len(Branch[current]), Branch[current][p] = u
  PROVE  LET a == Final(Turn(Branch[current], p)) IN
         ServerFinal(u) = IF Parent(1) = Gone THEN NotRead
                          ELSE [kind |-> IF a = Top THEN "pending" ELSE "complete", answer |-> a]
<1> DEFINE b == Branch[current]
           at == {i \in DOMAIN b : b[i] = u}
           a == Final(Turn(b, p))
<1>1. Leads(b, current)
  BY BranchLeads, Above
<1>2. DOMAIN b = 1..Len(b) /\ b[1] = 1 /\ Len(b) \in Nat
  BY <1>1 DEF Leads
<1>3. PICK e \in p..Len(b) : Turns(b, p, e, u)
  BY <1>1, TurnsOf
<1>4. \A q \in 1..Len(b) : b[q] = u => q = p
  <2> SUFFICES ASSUME NEW q \in 1..Len(b), b[q] = u, q # p PROVE FALSE
    OBVIOUS
  <2>1. u \in Int
    BY Above
  <2>2. q < p \/ p < q
    BY <1>2
  <2> QED BY <1>1, <2>1, <2>2 DEF Leads
<1>5. at = {p}
  BY <1>2, <1>4
<1>6. (CHOOSE i \in at : TRUE) = p
  BY <1>5
<1> HIDE DEF b
<1>7. doc[b[1]].parent = Parent(1)
  BY <1>2 DEF Parent
<1> QED BY <1>5, <1>6, <1>7 DEF ServerFinal, b

LEMMA OwnNodes ==
  ASSUME TreeInv, NEW b, Leads(b, current), b = Branch[current],
         NEW u \in Nodes, IsUser(u), NEW p, NEW e, Turns(b, p, e, u)
  PROVE  /\ Turn(b, p) \in Seq(Nodes)
         /\ {n \in Shown : IsAssistant(n) /\ TurnOf[n] = u /\ doc[n].is # "hidden"}
              = {Turn(b, p)[i] : i \in Said(Turn(b, p))}
         /\ \A i, j \in Said(Turn(b, p)) : i < j => Turn(b, p)[i] < Turn(b, p)[j]
<1> DEFINE turn == Turn(b, p)
           own == {n \in Shown : IsAssistant(n) /\ TurnOf[n] = u /\ doc[n].is # "hidden"}
<1>1. b \in Seq(Nodes) /\ Len(b) \in Nat /\ DOMAIN b = 1..Len(b) /\ \A i \in 1..Len(b) : b[i] \in Nodes
  BY DEF Leads
<1>2. p \in 1..Len(b) /\ e \in p..Len(b) /\ b[p] = u /\ turn = SubSeq(b, p + 1, e)
  BY DEF Turns
<1>3. turn \in Seq(Nodes) /\ Len(turn) = e - p /\ \A i \in 1..(e - p) : turn[i] = b[p + i]
  BY <1>1, <1>2
<1> HIDE DEF turn
<1>4. \A i \in Said(turn) : i \in 1..(e - p) /\ turn[i] = b[p + i] /\ p + i \in 1..Len(b) /\ p + i \in p..e
  BY <1>1, <1>2, <1>3 DEF Said
<1>5. ASSUME NEW i \in Said(turn) PROVE turn[i] \in own
  <2>1. turn[i] \in Shown /\ TurnOf[turn[i]] = u
    BY <1>1, <1>4, <1>5 DEF Shown, Turns
  <2>2. doc[turn[i]].is \in {"live", "final"}
    BY DEF Said
  <2> QED BY <2>1, <2>2 DEF IsAssistant
<1>6. ASSUME NEW n \in own PROVE \E i \in Said(turn) : n = turn[i]
  <2>1. PICK j \in 1..Len(b) : n = b[j]
    BY <1>1 DEF Shown
  <2>2. j \in p..e
    BY <2>1 DEF Turns
  <2>3. doc[n].is \in {"live", "final"} /\ n # u
    BY DEF IsAssistant, IsUser
  <2>4. j - p \in 1..(e - p) /\ p + (j - p) = j
    BY <1>1, <1>2, <2>1, <2>2, <2>3
  <2>5. turn[j - p] = n
    BY <1>3, <2>1, <2>4
  <2>6. j - p \in Said(turn)
    BY <1>3, <2>3, <2>4, <2>5 DEF Said
  <2> QED BY <2>5, <2>6
<1>7. own = {turn[i] : i \in Said(turn)}
  BY <1>5, <1>6
<1>8. ASSUME NEW i \in Said(turn), NEW j \in Said(turn), i < j PROVE turn[i] < turn[j]
  <2>1. p + i < p + j
    BY <1>1, <1>2, <1>4, <1>8
  <2> QED BY <1>4, <2>1 DEF Leads
<1> QED BY <1>3, <1>7, <1>8 DEF turn

(* The last of the message's own turn, by number as by place.              *)
LEMMA CompletesWithTheLast ==
  ASSUME TreeInv, NEW u \in Nodes, IsUser(u), NEW r \in Nodes
  PROVE  LET own == {n \in Shown : IsAssistant(n) /\ TurnOf[n] = u /\ doc[n].is # "hidden"}
             last == {n \in own : \A m \in own : m <= n}
         IN ServerFinal(u) = [kind |-> "complete", answer |-> r]
              <=> Parent(1) # Gone /\ r \in last /\ doc[r].is = "final"
<1> DEFINE b == Branch[current]
           own == {n \in Shown : IsAssistant(n) /\ TurnOf[n] = u /\ doc[n].is # "hidden"}
           last == {n \in own : \A m \in own : m <= n}
           done == [kind |-> "complete", answer |-> r]
<1> HIDE DEF own
<1>1. Leads(b, current)
  BY BranchLeads, Above
<1>2. Len(b) \in Nat /\ Shown = {b[i] : i \in 1..Len(b)}
  BY <1>1 DEF Leads, Shown
<1>3. CASE u \notin Shown
  <2>1. ServerFinal(u) # done
    BY <1>3, NotOnTheBranch DEF NotRead, NotShown
  <2>2. ASSUME NEW n \in own PROVE FALSE
    <3>1. PICK j \in 1..Len(b) : n = b[j]
      BY <1>2 DEF own
    <3>2. LastUser(b, j, u)
      BY <1>1, <3>1, TurnAlong DEF own
    <3> QED BY <1>2, <1>3, <3>2 DEF LastUser
  <2> QED BY <2>1, <2>2 DEF own
<1>4. CASE u \in Shown
  <2>1. PICK p \in 1..Len(b) : b[p] = u
    BY <1>2, <1>4
  <2>2. PICK e \in p..Len(b) : Turns(b, p, e, u)
    BY <1>1, <2>1, TurnsOf
  <2> DEFINE turn == Turn(b, p)
             a == Final(turn)
  <2> HIDE DEF turn
  <2>3. /\ turn \in Seq(Nodes) /\ own = {turn[i] : i \in Said(turn)}
        /\ \A i, j \in Said(turn) : i < j => turn[i] < turn[j]
    BY <1>1, <2>2, OwnNodes DEF own, turn
  <2>4. ServerFinal(u) = IF Parent(1) = Gone THEN NotRead
                         ELSE [kind |-> IF a = Top THEN "pending" ELSE "complete", answer |-> a]
    BY <2>1, OnTheBranch DEF turn
  <2> HIDE DEF b, a
  <2>5. (ServerFinal(u) = done) <=> (Parent(1) # Gone /\ a = r)
    BY <2>4, Above DEF NotRead
  <2>6. Said(turn) \subseteq Nat /\ \A i \in Said(turn) : turn[i] \in Nodes /\ turn[i] \in Int
    BY <2>3, Above DEF Said
  <2>7. (a = r) <=> (r \in last /\ doc[r].is = "final")
    <3>1. CASE Said(turn) = {}
      BY <2>3, <3>1, FinalIs, Above DEF a
    <3>2. CASE Said(turn) # {}
      <4>1. PICK i \in Said(turn) : /\ \A j \in Said(turn) : j <= i
                                    /\ a = IF doc[turn[i]].is = "final" THEN turn[i] ELSE Top
        BY <2>3, <3>2, FinalIs DEF a
      <4>2. ASSUME NEW j \in Said(turn) PROVE turn[j] <= turn[i] /\ (turn[j] = turn[i] => j = i)
        <5>1. j = i \/ j < i
          BY <2>6, <4>1
        <5> QED BY <2>3, <2>6, <5>1
      <4>3. last = {turn[i]}
        <5>1. turn[i] \in own /\ \A m \in own : m <= turn[i]
          BY <2>3, <4>2
        <5>2. ASSUME NEW n \in last PROVE n = turn[i]
          <6>1. PICK j \in Said(turn) : n = turn[j]
            BY <2>3
          <6>2. turn[i] <= turn[j] /\ turn[j] <= turn[i]
            BY <5>1, <6>1
          <6> QED BY <2>6, <6>1, <6>2
        <5> QED BY <5>1, <5>2
      <4> QED BY <4>1, <4>3, Above
    <3> QED BY <3>1, <3>2
  <2> QED BY <2>5, <2>7 DEF own
<1> QED BY <1>3, <1>4

LEMMA AcknowledgedIsThere ==
  ASSUME TreeInv, NEW u \in Acknowledged
  PROVE  u \in Shown /\ \A n \in Nodes \ {u} : doc[n].is # "asked"
<1> DEFINE matches == {n \in Nodes : doc[n].is = "asked"}
<1>1. u \in matches /\ Cardinality(matches) = 1 /\ ServerFinal(u).kind \in {"complete", "pending"}
  BY DEF Acknowledged
<1>2. u \in Shown
  BY <1>1, NotOnTheBranch DEF NotRead, NotShown
<1>3. IsFiniteSet(matches)
  <2>1. IsFiniteSet(1..Len(doc))
    BY Above, FS_Interval
  <2>2. matches \in SUBSET (1..Len(doc))
    BY Above
  <2> QED BY <2>1, <2>2, FS_Subset
<1>4. PICK x : matches = {x}
  BY <1>1, <1>3, FS_Singleton
<1> QED BY <1>1, <1>2, <1>4

(* Documents stay trees, with one root, and show one of their nodes.       *)
THEOREM TreeInvariant == AnswerSpec => []TreeInv
BY TreeStarts, TreeMoves, PTL DEF AnswerSpec

(* Of every document, however large and branched, recoverExactServerFinal  *)
(* completes a message only with the last answer of its own turn on the    *)
(* branch that is shown, it does so when no message follows there, and a   *)
(* message acknowledged by its text is the one with that text and on that  *)
(* branch.                                                                 *)
THEOREM OwnTurnIsRead == AnswerSpec => []ReadsItsOwnTurn
<1>1. ASSUME TreeInv, NEW u \in Nodes, IsUser(u)
      PROVE  LET own == {n \in Shown : IsAssistant(n) /\ TurnOf[n] = u /\ doc[n].is # "hidden"}
                 ends == {n \in own : doc[n].is = "final" /\ \A m \in own : m <= n}
             IN /\ \A r \in Nodes : AnsweredBy(u, r) => r \in ends
                /\ doc[1].parent # Gone /\ Latest(u) => \A r \in ends : AnsweredBy(u, r)
  <2> DEFINE own == {n \in Shown : IsAssistant(n) /\ TurnOf[n] = u /\ doc[n].is # "hidden"}
             ends == {n \in own : doc[n].is = "final" /\ \A m \in own : m <= n}
             last == {n \in own : \A m \in own : m <= n}
  <2>1. ASSUME NEW r \in Nodes PROVE AnsweredBy(u, r) <=> doc[1].parent # Gone /\ r \in ends
    <3>1. AnsweredBy(u, r) <=> Parent(1) # Gone /\ r \in last /\ doc[r].is = "final"
      BY <1>1, CompletesWithTheLast DEF AnsweredBy
    <3> QED BY <3>1 DEF Parent
  <2>2. ends \subseteq Nodes
    BY <1>1, BranchLeads, Above DEF Leads, Shown
  <2> QED BY <2>1, <2>2
<1>2. TreeInv => ReadsItsOwnTurn
  BY <1>1, AcknowledgedIsThere DEF ReadsItsOwnTurn
<1> QED BY TreeInvariant, <1>2, PTL
=============================================================================
