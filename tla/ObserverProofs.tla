---------------------------- MODULE ObserverProofs ----------------------------
(***************************************************************************)
(* Proofs about BackendProbes: no probe goes out while a limitation runs.  *)
(* Two invariants carry it.  What the provider or the operator said is     *)
(* covered by what is stored (Barred), and whoever is first at a scope's   *)
(* mutex asked for that scope (Lines), so the deadlines that are compared  *)
(* before the probe goes out are those of the scope it is told about.      *)
(*                                                                         *)
(* Proofs about AnswerObservation: a quiet window is never measured over   *)
(* two texts, and a turn that has ended keeps its end.  The invariant      *)
(* (Measures) compares the window of every loop with how long the text     *)
(* that it measures has stood on the page, and with how long it had stood  *)
(* when it was read and what the reading has taken since: an answer that   *)
(* grows while a reading is under way parts the two.                       *)
(***************************************************************************)
EXTENDS BackendProbes, AnswerObservation, TLAPS

Stages == {"unused", "loop", "asked", "flying", "ending", "gone"}
LoopRecords == [st : Stages, session : Sessions \cup {None}, home : Scopes \cup {None},
                scope : Scopes \cup {None}, aborted : BOOLEAN]
Rows == [next : Int, blocked : Int, level : Int, failures : Int]

\* What is stored is typed, and no limitation ends before it was said to.
Stored == budget \in [Scopes -> Rows] /\ told \in [Scopes -> Nat]
Barred == \A c \in Scopes : told[c] <= budget[c].blocked
BudgetInv == Stored /\ Barred

LoopsTyped ==
  /\ loop \in [Loops -> LoopRecords] /\ conv \in [Sessions -> Scopes \cup {None}]
  /\ mutex \in [Scopes -> Seq(Loops)]
  /\ \A l \in Loops : loop[l].st \in {"loop", "asked", "flying"} =>
       loop[l].session \in Sessions /\ conv[loop[l].session] \in Scopes

\* Who stands at a mutex asked for its scope and stands there once.
Lines ==
  \A c \in Scopes : \A i \in 1..Len(mutex[c]) :
    /\ loop[mutex[c][i]].st \in {"asked", "flying"} /\ loop[mutex[c][i]].scope = c
    /\ \A j \in 1..Len(mutex[c]) : mutex[c][i] = mutex[c][j] => i = j

\* The probe that is in flight holds the mutex of its scope.
FlightHolds ==
  \A l \in Loops : loop[l].st = "flying" =>
    loop[l].scope \in Scopes /\ mutex[loop[l].scope] # <<>> /\ Head(mutex[loop[l].scope]) = l

LineInv == LoopsTyped /\ Lines /\ FlightHolds
ProbeInv == BudgetInv /\ LineInv

LEMMA ProbesStart == ProbeInit => ProbeInv
<1> SUFFICES ASSUME ProbeInit PROVE ProbeInv
  OBVIOUS
<1> USE DEF ProbeInit
<1>1. BudgetInv
  BY DEF BudgetInv, Stored, Barred, Rows
<1>2. LoopsTyped
  BY Homes DEF LoopsTyped, LoopRecords, Unused, Stages
<1>3. Lines /\ FlightHolds
  BY DEF Lines, FlightHolds, Unused
<1> QED BY <1>1, <1>2, <1>3 DEF ProbeInv, LineInv

-----------------------------------------------------------------------------
(* The budget.                                                             *)

(* A row that is saved keeps the later deadline.                           *)
LEMMA SaveKeeps ==
  ASSUME BudgetInv, NEW c \in Scopes, NEW next \in Int, NEW blocked \in Int,
         NEW level \in Int, NEW failures \in Int,
         budget' = Save(budget, c, next, blocked, level, failures),
         told' \in [Scopes -> Nat],
         told'[c] = told[c] \/ told'[c] = Larger(told[c], blocked) \/ told'[c] <= blocked,
         \A d \in Scopes \ {c} : told'[d] = told[d]
  PROVE  BudgetInv'
<1>1. MaxLevel \in Int
  BY Intervals
<1>2. budget' \in [Scopes -> Rows]
  BY <1>1 DEF BudgetInv, Stored, Rows, Save, Larger, Smaller
<1>3. /\ budget'[c].blocked >= budget[c].blocked /\ budget'[c].blocked >= blocked
      /\ \A d \in Scopes \ {c} : budget'[d] = budget[d]
  BY <1>1 DEF BudgetInv, Stored, Rows, Save, Larger
<1>4. told'[c] <= budget'[c].blocked
  BY <1>2, <1>3 DEF BudgetInv, Stored, Barred, Rows, Larger
<1> QED BY <1>2, <1>3, <1>4 DEF BudgetInv, Stored, Barred

LEMMA DeferKeeps == ASSUME BudgetInv, NEW c \in Scopes, NEW d \in Delays, Defer(c, d) PROVE BudgetInv'
<1>1. d \in Int /\ budget[c].level \in Int /\ budget[c].failures \in Int
  BY Intervals DEF BudgetInv, Stored, Rows
<1>2. told' \in [Scopes -> Nat] /\ told'[c] = Larger(told[c], d) /\ \A e \in Scopes \ {c} : told'[e] = told[e]
  BY <1>1 DEF Defer, BudgetInv, Stored, Larger
<1>3. budget' = Save(budget, c, d, d, budget[c].level, budget[c].failures)
  BY DEF Defer
<1> QED BY <1>1, <1>2, <1>3, SaveKeeps

LEMMA SettleKeeps == ASSUME BudgetInv, FlightHolds, NEW l \in Loops, Settle(l) PROVE BudgetInv'
<1> DEFINE c == loop[l].scope
<1>1. c \in Scopes
  BY DEF FlightHolds, Settle
<1>2. budget[c].level \in Int /\ budget[c].failures \in Int /\ Success \in Int /\ told[c] \in Int
  BY <1>1, Intervals DEF BudgetInv, Stored, Rows
<1>3. ASSUME NEW d \in Delays, Limited(c, l, d) PROVE BudgetInv'
  <2>1. d \in Int /\ Larger(d, Success) \in Int /\ Larger(d, Success) >= d
    BY <1>2, Intervals DEF Larger
  <2>2. /\ told' \in [Scopes -> Nat] /\ \A e \in Scopes \ {c} : told'[e] = told[e]
        /\ told'[c] = told[c] \/ told'[c] <= Larger(d, Success)
    BY <1>1, <1>2, <1>3, <2>1 DEF Limited, BudgetInv, Stored, Larger
  <2>3. budget' = Save(budget, c, Larger(d, Success), Larger(d, Success), budget[c].level + 1, budget[c].failures + 1)
    BY <1>3 DEF Limited
  <2> HIDE DEF c
  <2> QED BY <1>1, <1>2, <2>1, <2>2, <2>3, SaveKeeps
<1>4. ASSUME NEW n \in Int, NEW b \in Int, NEW v \in Int, NEW f \in Int, UNCHANGED told,
             budget' = Save(budget, c, n, b, v, f)
      PROVE  BudgetInv'
  <2>1. told' \in [Scopes -> Nat]
    BY <1>4 DEF BudgetInv, Stored
  <2> HIDE DEF c
  <2> QED BY <1>1, <1>4, <2>1, SaveKeeps
<1>5. CASE \E d \in Delays : PutOff(c, l, d)
  BY <1>4, <1>5, Intervals DEF PutOff
<1>6. CASE BackedOff(c, l)
  <2>1. PICK w \in Jitter(Doubled(Min429, budget[c].level)) :
          budget' = Save(budget, c, w, w, budget[c].level + 1, budget[c].failures + 1) /\ UNCHANGED told
    BY <1>6 DEF BackedOff
  <2>2. w \in Int
    BY DEF Jitter
  <2>3. PICK v \in Int : v = budget[c].level + 1
    BY <1>2
  <2>4. PICK f \in Int : f = budget[c].failures + 1
    BY <1>2
  <2>5. budget' = Save(budget, c, w, w, v, f) /\ UNCHANGED told
    BY <2>1, <2>3, <2>4
  <2> HIDE DEF c
  <2> QED BY <1>4, <2>2, <2>5
<1>7. CASE Unavailable(c, l)
  <2>1. PICK w \in Jitter(Doubled(Success, Smaller(budget[c].failures, 5))) :
          budget' = Save(budget, c, w, 0, 0, budget[c].failures + 1) /\ UNCHANGED told
    BY <1>7 DEF Unavailable
  <2>2. w \in Int
    BY DEF Jitter
  <2>3. PICK f \in Int : f = budget[c].failures + 1
    BY <1>2
  <2>4. budget' = Save(budget, c, w, 0, 0, f) /\ UNCHANGED told
    BY <2>1, <2>3
  <2> HIDE DEF c
  <2> QED BY <1>4, <2>2, <2>3, <2>4
<1>8. CASE Answered(c, l)
  <2>1. budget' = Save(budget, c, Success, 0, 0, 0) /\ UNCHANGED told
    BY <1>8 DEF Answered
  <2> HIDE DEF c
  <2> QED BY <1>2, <1>4, <2>1
<1> QED BY <1>3, <1>5, <1>6, <1>7, <1>8 DEF Settle

LEMMA ElapseKeepsOrder ==
  /\ \A n \in Int : Elapse(n) \in Nat
  /\ \A m, n \in Int : m <= n => Elapse(m) <= Elapse(n)
BY DEF Elapse, Larger

(* Time passes alike for what was said and what is stored.                 *)
LEMMA TickKeeps == ASSUME BudgetInv, Tick PROVE BudgetInv'
<1>1. told' = [c \in Scopes |-> Elapse(told[c])]
  BY DEF Tick
<1>2. \A c \in Scopes : budget'[c] = [budget[c] EXCEPT !.next = Elapse(@), !.blocked = Elapse(@)]
  BY DEF Tick
<1>3. \A c \in Scopes : budget'[c] \in Rows /\ budget'[c].blocked = Elapse(budget[c].blocked)
  <2>2. \A c \in Scopes : budget[c] \in Rows /\ Elapse(budget[c].next) \in Int /\ Elapse(budget[c].blocked) \in Int
    BY ElapseKeepsOrder DEF BudgetInv, Stored, Rows
  <2>3. ASSUME NEW c \in Scopes PROVE budget'[c] \in Rows /\ budget'[c].blocked = Elapse(budget[c].blocked)
    <3> DEFINE r == budget[c]
    <3>1. budget'[c] = [r EXCEPT !.next = Elapse(r.next), !.blocked = Elapse(r.blocked)]
      BY <1>2
    <3>2. r \in Rows /\ Elapse(r.next) \in Int /\ Elapse(r.blocked) \in Int
      BY <2>2
    <3> DEFINE n == Elapse(r.next)
               b == Elapse(r.blocked)
    <3>3. n \in Int /\ b \in Int /\ budget'[c] = [r EXCEPT !.next = n, !.blocked = b]
      BY <3>1, <3>2
    <3> HIDE DEF r, n, b
    <3>4. budget'[c] \in Rows /\ budget'[c].blocked = b
      BY <3>2, <3>3 DEF Rows
    <3> QED BY <3>4 DEF b, r
  <2> QED BY <2>3
<1>4. budget' \in [Scopes -> Rows]
  <2>1. budget' = [c \in Scopes |-> budget'[c]]
    BY DEF Tick
  <2> QED BY <1>3, <2>1
<1>5. told' \in [Scopes -> Nat]
  BY <1>1, ElapseKeepsOrder DEF BudgetInv, Stored
<1>6. \A c \in Scopes : told'[c] <= budget'[c].blocked
  BY <1>1, <1>3, ElapseKeepsOrder DEF BudgetInv, Stored, Barred, Rows
<1> QED BY <1>4, <1>5, <1>6 DEF BudgetInv, Stored, Barred

LEMMA BudgetStep == ASSUME BudgetInv, FlightHolds, [ProbeNext]_probeVars PROVE BudgetInv'
<1>1. CASE UNCHANGED <<budget, told>>
  BY <1>1 DEF BudgetInv, Stored, Barred
<1>2. CASE \E l \in Loops : Settle(l)
  BY <1>2, SettleKeeps
<1>3. CASE \E c \in Scopes, d \in Delays : Defer(c, d)
  BY <1>3, DeferKeeps
<1>4. CASE Tick
  BY <1>4, TickKeeps
<1>5. ASSUME NEW s \in Sessions, (\E l \in Loops : Start(s, l)) \/ Stop(s) \/ Attention(s)
      PROVE  UNCHANGED <<budget, told>>
  BY <1>5 DEF Start, Stop, Attention, durable
<1>6. ASSUME NEW l \in Loops, OfLoop(l), ~Settle(l) PROVE UNCHANGED <<budget, told>>
  BY <1>6 DEF OfLoop, Redirect, GiveUpTurn, Ask, End, Deferred, Launch, durable
<1>7. CASE Restart \/ UNCHANGED probeVars
  BY <1>1, <1>7 DEF Restart, durable, probeVars
<1> QED BY <1>1, <1>2, <1>3, <1>4, <1>5, <1>6, <1>7 DEF ProbeNext

-----------------------------------------------------------------------------
(* The lines.                                                              *)

(* An abort changes nothing a line depends on.                             *)
LEMMA AbortKeeps ==
  ASSUME NEW f \in [Loops -> LoopRecords], NEW k
  PROVE  /\ AbortIn(f, k) \in [Loops -> LoopRecords]
         /\ \A l \in Loops : /\ AbortIn(f, k)[l].st = f[l].st
                            /\ AbortIn(f, k)[l].session = f[l].session
                            /\ AbortIn(f, k)[l].scope = f[l].scope
BY DEF AbortIn, LoopRecords

(* Steps that leave the lines and those who stand in them alone.           *)
LEMMA BesideTheLines ==
  ASSUME LineInv, UNCHANGED mutex,
         loop' \in [Loops -> LoopRecords], conv' \in [Sessions -> Scopes \cup {None}],
         \A l \in Loops : \/ loop[l].st \notin {"asked", "flying"} /\ loop'[l].st \in {"unused", "loop", "ending", "gone"}
                          \/ loop'[l].st = loop[l].st /\ loop'[l].scope = loop[l].scope,
         \A l \in Loops : loop'[l].st \in {"loop", "asked", "flying"} =>
           loop'[l].session \in Sessions /\ conv'[loop'[l].session] \in Scopes
  PROVE  LineInv'
<1>1. \A c \in Scopes : \A i \in 1..Len(mutex[c]) : mutex[c][i] \in Loops
  BY DEF LineInv, LoopsTyped
<1>2. LoopsTyped'
  BY DEF LineInv, LoopsTyped
<1>3. Lines'
  BY <1>1 DEF LineInv, Lines
<1>4. FlightHolds'
  BY DEF LineInv, FlightHolds
<1> QED BY <1>2, <1>3, <1>4 DEF LineInv

LEMMA StartStopKeep ==
  ASSUME LineInv, NEW s \in Sessions, (\E l \in Loops : Start(s, l)) \/ Stop(s) \/ Attention(s)
  PROVE  LineInv'
<1>1. ASSUME NEW l \in Loops, Start(s, l) PROVE LineInv'
  <2> DEFINE g == [loop EXCEPT ![l] = [@ EXCEPT !.st = "loop", !.session = s, !.home = conv[s]]]
  <2>1. g \in [Loops -> LoopRecords] /\ loop' = AbortIn(g, runtime[s])
    <3>1. [loop[l] EXCEPT !.st = "loop", !.session = s, !.home = conv[s]] \in LoopRecords
      BY DEF LineInv, LoopsTyped, LoopRecords, Stages
    <3>2. loop' = AbortIn(g, runtime[s])
      BY <1>1 DEF Start
    <3> QED BY <3>1, <3>2 DEF LineInv, LoopsTyped
  <2>2. loop[l].st = "unused"
    <3>1. loop[l] = Unused
      BY <1>1 DEF Start
    <3> QED BY <3>1 DEF Unused
  <2>3. /\ g[l].st = "loop" /\ g[l].session = s
        /\ \A k \in Loops \ {l} : g[k] = loop[k]
    BY DEF LineInv, LoopsTyped, LoopRecords
  <2>4. loop' \in [Loops -> LoopRecords] /\ \A k \in Loops :
          loop'[k].st = g[k].st /\ loop'[k].session = g[k].session /\ loop'[k].scope = g[k].scope
    <3> HIDE DEF g
    <3> QED BY <2>1, AbortKeeps
  <2>5. UNCHANGED mutex /\ UNCHANGED conv /\ conv[s] \in Scopes
    BY <1>1 DEF Start, queues, LineInv, LoopsTyped
  <2> HIDE DEF g
  <2>6. \A k \in Loops : k # l => loop'[k].st = loop[k].st /\ loop'[k].scope = loop[k].scope /\ loop'[k].session = loop[k].session
    BY <2>3, <2>4
  <2>7. loop'[l].st = "loop" /\ loop'[l].session = s
    BY <2>3, <2>4
  <2>8. /\ conv' \in [Sessions -> Scopes \cup {None}]
        /\ \A k \in Loops : loop'[k].st \in {"loop", "asked", "flying"} =>
             loop'[k].session \in Sessions /\ conv'[loop'[k].session] \in Scopes
    BY <2>5, <2>6, <2>7 DEF LineInv, LoopsTyped
  <2> DEFINE Alone(k) == \/ loop[k].st \notin {"asked", "flying"} /\ loop'[k].st \in {"unused", "loop", "ending", "gone"}
                         \/ loop'[k].st = loop[k].st /\ loop'[k].scope = loop[k].scope
  <2>9. ASSUME NEW k \in Loops PROVE Alone(k)
    <3>1. CASE k # l
      BY <2>6, <3>1
    <3>2. CASE k = l
      BY <2>2, <2>7, <3>2
    <3> QED BY <3>1, <3>2
  <2> QED BY <2>4, <2>5, <2>8, <2>9, BesideTheLines
<1>2. CASE Stop(s)
  <2>1. loop' = AbortIn(loop, runtime[s]) /\ UNCHANGED mutex /\ UNCHANGED conv
    BY <1>2 DEF Stop, queues, durable
  <2>2. loop' \in [Loops -> LoopRecords] /\ \A k \in Loops :
          loop'[k].st = loop[k].st /\ loop'[k].session = loop[k].session /\ loop'[k].scope = loop[k].scope
    BY <2>1, AbortKeeps DEF LineInv, LoopsTyped
  <2> QED BY <2>1, <2>2, BesideTheLines DEF LineInv, LoopsTyped
<1>3. CASE Attention(s)
  BY <1>3, BesideTheLines DEF Attention, queues, durable, LineInv, LoopsTyped
<1> QED BY <1>1, <1>2, <1>3

LEMMA LoopsOwnKeep ==
  ASSUME LineInv, NEW l \in Loops, Redirect(l) \/ GiveUpTurn(l) \/ End(l)
  PROVE  LineInv'
<1>1. CASE Redirect(l)
  <2>1. loop[l].session \in Sessions /\ conv[loop[l].session] \in Scopes /\ UNCHANGED <<mutex, loop>>
    BY <1>1 DEF Redirect, LineInv, LoopsTyped, queues
  <2>2. conv' = [conv EXCEPT ![loop[l].session] = Lasting[@]]
    BY <1>1 DEF Redirect
  <2>3. /\ conv' \in [Sessions -> Scopes \cup {None}]
        /\ \A s \in Sessions : conv[s] \in Scopes => conv'[s] \in Scopes
    BY <2>1, <2>2, Homes DEF LineInv, LoopsTyped
  <2> QED BY <2>1, <2>3, BesideTheLines DEF LineInv, LoopsTyped
<1>2. CASE GiveUpTurn(l)
  BY <1>2, BesideTheLines DEF GiveUpTurn, durable, LineInv, LoopsTyped
<1>3. CASE End(l)
  <2>1. /\ loop[l].st \in {"loop", "ending"} /\ loop' = [loop EXCEPT ![l].st = "gone"]
        /\ UNCHANGED mutex /\ UNCHANGED conv
    BY <1>3 DEF End, durable
  <2>2. loop' \in [Loops -> LoopRecords] /\ loop'[l].st = "gone" /\ \A k \in Loops \ {l} : loop'[k] = loop[k]
    BY <2>1 DEF LineInv, LoopsTyped, LoopRecords, Stages
  <2> QED BY <2>1, <2>2, BesideTheLines DEF LineInv, LoopsTyped
<1> QED BY <1>1, <1>2, <1>3

(* A loop joins the line of its conversation's scope.                      *)
LEMMA AskKeeps == ASSUME LineInv, NEW l \in Loops, Ask(l) PROVE LineInv'
<1> DEFINE c == conv[loop[l].session]
<1>1. /\ loop[l].st = "loop" /\ c \in Scopes /\ loop[l].session \in Sessions
      /\ loop' = [loop EXCEPT ![l].st = "asked", ![l].scope = c]
      /\ mutex' = [mutex EXCEPT ![c] = Append(@, l)] /\ UNCHANGED conv
  BY DEF Ask, LineInv, LoopsTyped, durable
<1>2. /\ loop \in [Loops -> LoopRecords] /\ mutex \in [Scopes -> Seq(Loops)]
  BY DEF LineInv, LoopsTyped
<1> HIDE DEF c
<1>3. /\ loop' \in [Loops -> LoopRecords] /\ \A k \in Loops \ {l} : loop'[k] = loop[k]
      /\ loop'[l].st = "asked" /\ loop'[l].scope = c /\ loop'[l].session = loop[l].session
  BY <1>1, <1>2 DEF LoopRecords, Stages
<1>4. LoopsTyped'
  BY <1>1, <1>2, <1>3 DEF LineInv, LoopsTyped
<1>5. \A d \in Scopes : \A i \in 1..Len(mutex[d]) : mutex[d][i] \in Loops /\ mutex[d][i] # l
  <2>1. ASSUME NEW d \in Scopes, NEW i \in 1..Len(mutex[d]) PROVE mutex[d][i] \in Loops /\ mutex[d][i] # l
    <3>1. mutex[d] \in Seq(Loops)
      BY <1>2
    <3>2. loop[mutex[d][i]].st \in {"asked", "flying"}
      BY DEF LineInv, Lines
    <3> QED BY <1>1, <3>1, <3>2
  <2> QED BY <2>1
<1>6. Lines'
  <2>1. ASSUME NEW d \in Scopes \ {c}, NEW i \in 1..Len(mutex'[d])
        PROVE  /\ loop'[mutex'[d][i]].st \in {"asked", "flying"} /\ loop'[mutex'[d][i]].scope = d
               /\ \A j \in 1..Len(mutex'[d]) : mutex'[d][i] = mutex'[d][j] => i = j
    <3>1. mutex'[d] = mutex[d]
      BY <1>1, <1>2, <2>1
    <3> QED BY <1>3, <1>5, <2>1, <3>1 DEF LineInv, Lines
  <2>2. ASSUME NEW i \in 1..Len(mutex'[c])
        PROVE  /\ loop'[mutex'[c][i]].st \in {"asked", "flying"} /\ loop'[mutex'[c][i]].scope = c
               /\ \A j \in 1..Len(mutex'[c]) : mutex'[c][i] = mutex'[c][j] => i = j
    <3>1. mutex'[c] = Append(mutex[c], l) /\ mutex[c] \in Seq(Loops)
      BY <1>1, <1>2
    <3>2. /\ Len(mutex'[c]) = Len(mutex[c]) + 1 /\ mutex'[c][Len(mutex[c]) + 1] = l
          /\ \A j \in 1..Len(mutex[c]) : mutex'[c][j] = mutex[c][j]
      BY <3>1
    <3> QED BY <1>1, <1>3, <1>5, <2>2, <3>1, <3>2 DEF LineInv, Lines
  <2> QED BY <2>1, <2>2 DEF Lines
<1>7. FlightHolds'
  <2>1. ASSUME NEW k \in Loops, loop'[k].st = "flying"
        PROVE  loop'[k].scope \in Scopes /\ mutex'[loop'[k].scope] # <<>> /\ Head(mutex'[loop'[k].scope]) = k
    <3> DEFINE d == loop[k].scope
    <3>1. k # l /\ loop'[k] = loop[k] /\ d \in Scopes /\ mutex[d] # <<>> /\ Head(mutex[d]) = k
      BY <1>3, <2>1 DEF LineInv, FlightHolds
    <3>2. mutex'[d] = mutex[d] \/ mutex'[d] = Append(mutex[d], l)
      BY <1>1, <1>2, <3>1
    <3>3. mutex[d] \in Seq(Loops)
      BY <1>2, <3>1
    <3> HIDE DEF d
    <3>4. mutex'[d] # <<>> /\ Head(mutex'[d]) = k
      BY <3>1, <3>2, <3>3
    <3> QED BY <3>1, <3>4 DEF d
  <2> QED BY <2>1 DEF FlightHolds
<1> QED BY <1>4, <1>6, <1>7 DEF LineInv

(* The first of a line goes, and nobody else stands where it stood.        *)
LEMMA HeadLeaves ==
  ASSUME LineInv, NEW c \in Scopes, mutex[c] # <<>>, mutex' = [mutex EXCEPT ![c] = Tail(@)],
         NEW next, Returns(Head(mutex[c]), next), UNCHANGED conv
  PROVE  LineInv'
<1> DEFINE l == Head(mutex[c])
<1>1. /\ loop \in [Loops -> LoopRecords] /\ mutex \in [Scopes -> Seq(Loops)] /\ mutex[c] \in Seq(Loops)
      /\ l = mutex[c][1] /\ 1 \in 1..Len(mutex[c]) /\ l \in Loops
  BY DEF LineInv, LoopsTyped
<1>2. loop[l].st \in {"asked", "flying"} /\ loop[l].scope = c
  BY <1>1 DEF LineInv, Lines
<1>3. loop' = [loop EXCEPT ![l].st = IF loop[l].aborted THEN "ending" ELSE "loop", ![l].scope = None]
  BY DEF Returns
<1> HIDE DEF l
<1>4. /\ loop' \in [Loops -> LoopRecords] /\ \A k \in Loops \ {l} : loop'[k] = loop[k]
      /\ loop'[l].st \in {"ending", "loop"} /\ loop'[l].session = loop[l].session
  <2> DEFINE v == IF loop[l].aborted THEN "ending" ELSE "loop"
             r == [loop[l] EXCEPT !.st = v, !.scope = None]
  <2>1. v \in {"ending", "loop"} /\ loop' = [loop EXCEPT ![l] = r]
    BY <1>1, <1>3
  <2>2. loop[l] \in LoopRecords
    BY <1>1
  <2> HIDE DEF v
  <2>3. r \in LoopRecords /\ r.st = v /\ r.session = loop[l].session
    BY <2>1, <2>2 DEF LoopRecords, Stages
  <2> HIDE DEF r
  <2> QED BY <1>1, <2>1, <2>3
<1>5. /\ mutex'[c] = Tail(mutex[c]) /\ Tail(mutex[c]) \in Seq(Loops)
      /\ \A d \in Scopes \ {c} : mutex'[d] = mutex[d]
      /\ mutex' \in [Scopes -> Seq(Loops)]
  BY <1>1
<1>6. LoopsTyped'
  <2>1. loop[l].session \in Sessions /\ conv[loop[l].session] \in Scopes /\ conv' = conv
    BY <1>1, <1>2 DEF LineInv, LoopsTyped
  <2>2. \A k \in Loops : loop'[k].st \in {"loop", "asked", "flying"} =>
          loop'[k].session \in Sessions /\ conv'[loop'[k].session] \in Scopes
    BY <1>4, <2>1 DEF LineInv, LoopsTyped
  <2> QED BY <1>4, <1>5, <2>1, <2>2 DEF LineInv, LoopsTyped
<1>7. /\ Len(mutex'[c]) = Len(mutex[c]) - 1
      /\ \A i \in 1..Len(mutex'[c]) : mutex'[c][i] = mutex[c][i + 1] /\ i + 1 \in 1..Len(mutex[c])
  BY <1>1, <1>5
<1>8. \A i \in 1..Len(mutex'[c]) : mutex'[c][i] \in Loops \ {l}
  BY <1>1, <1>7 DEF LineInv, Lines
<1>9. \A d \in Scopes \ {c} : \A i \in 1..Len(mutex[d]) : mutex[d][i] \in Loops \ {l}
  BY <1>1, <1>2 DEF LineInv, Lines
<1>10. Lines'
  <2>1. ASSUME NEW d \in Scopes \ {c}, NEW i \in 1..Len(mutex'[d])
        PROVE  /\ loop'[mutex'[d][i]].st \in {"asked", "flying"} /\ loop'[mutex'[d][i]].scope = d
               /\ \A j \in 1..Len(mutex'[d]) : mutex'[d][i] = mutex'[d][j] => i = j
    BY <1>4, <1>5, <1>9, <2>1 DEF LineInv, Lines
  <2>2. ASSUME NEW i \in 1..Len(mutex'[c])
        PROVE  /\ loop'[mutex'[c][i]].st \in {"asked", "flying"} /\ loop'[mutex'[c][i]].scope = c
               /\ \A j \in 1..Len(mutex'[c]) : mutex'[c][i] = mutex'[c][j] => i = j
    <3>1. loop'[mutex'[c][i]] = loop[mutex[c][i + 1]] /\ i + 1 \in 1..Len(mutex[c])
      BY <1>4, <1>7, <1>8, <2>2
    <3>2. loop[mutex[c][i + 1]].st \in {"asked", "flying"} /\ loop[mutex[c][i + 1]].scope = c
      BY <3>1 DEF LineInv, Lines
    <3>3. ASSUME NEW j \in 1..Len(mutex'[c]), mutex'[c][i] = mutex'[c][j] PROVE i = j
      <4>1. mutex[c][i + 1] = mutex[c][j + 1] /\ j + 1 \in 1..Len(mutex[c])
        BY <1>7, <2>2, <3>3
      <4>2. i + 1 = j + 1
        BY <3>1, <4>1 DEF LineInv, Lines
      <4> QED BY <1>1, <1>5, <2>2, <3>3, <4>2
    <3>4. \A j \in 1..Len(mutex'[c]) : mutex'[c][i] = mutex'[c][j] => i = j
      BY <3>3
    <3> QED BY <3>1, <3>2, <3>4
  <2>3. ASSUME NEW d \in Scopes, NEW i \in 1..Len(mutex'[d])
        PROVE  /\ loop'[mutex'[d][i]].st \in {"asked", "flying"} /\ loop'[mutex'[d][i]].scope = d
               /\ \A j \in 1..Len(mutex'[d]) : mutex'[d][i] = mutex'[d][j] => i = j
    <3>1. CASE d = c
      BY <2>2, <2>3, <3>1
    <3>2. CASE d # c
      BY <2>1, <2>3, <3>2
    <3> QED BY <3>1, <3>2
  <2> QED BY <2>3 DEF Lines
<1>11. FlightHolds'
  <2>1. ASSUME NEW k \in Loops, loop'[k].st = "flying"
        PROVE  loop'[k].scope \in Scopes /\ mutex'[loop'[k].scope] # <<>> /\ Head(mutex'[loop'[k].scope]) = k
    <3>1. k # l /\ loop'[k] = loop[k]
      BY <1>4, <2>1
    <3>2. loop[k].scope \in Scopes /\ mutex[loop[k].scope] # <<>> /\ Head(mutex[loop[k].scope]) = k
      BY <2>1, <3>1 DEF LineInv, FlightHolds
    <3>3. loop[k].scope # c
      BY <3>1, <3>2 DEF l
    <3> QED BY <1>5, <3>1, <3>2, <3>3
  <2> QED BY <2>1 DEF FlightHolds
<1> QED BY <1>6, <1>10, <1>11 DEF LineInv

(* The first of a line flies.                                              *)
LEMMA LaunchKeeps ==
  ASSUME LineInv, NEW c \in Scopes, NEW l \in Loops, Launch(c, l)
  PROVE  LineInv' /\ loop[l].scope = c
<1>1. /\ mutex[c] # <<>> /\ l = Head(mutex[c]) /\ loop[l].st = "asked"
      /\ loop' = [loop EXCEPT ![l].st = "flying"] /\ UNCHANGED mutex /\ UNCHANGED conv
  BY DEF Launch, durable
<1>2. /\ loop \in [Loops -> LoopRecords] /\ mutex[c] \in Seq(Loops)
      /\ l = mutex[c][1] /\ 1 \in 1..Len(mutex[c])
  BY <1>1 DEF LineInv, LoopsTyped
<1>3. loop[l].scope = c
  BY <1>2 DEF LineInv, Lines
<1>4. /\ loop' \in [Loops -> LoopRecords] /\ \A k \in Loops \ {l} : loop'[k] = loop[k]
      /\ loop'[l].st = "flying" /\ loop'[l].session = loop[l].session /\ loop'[l].scope = c
  BY <1>1, <1>2, <1>3 DEF LoopRecords, Stages
<1>5. LoopsTyped'
  BY <1>1, <1>4 DEF LineInv, LoopsTyped
<1>6. \A d \in Scopes : \A i \in 1..Len(mutex[d]) : mutex[d][i] \in Loops
  BY DEF LineInv, LoopsTyped
<1>7. Lines'
  BY <1>1, <1>3, <1>4, <1>6 DEF LineInv, Lines
<1>8. FlightHolds'
  BY <1>1, <1>4 DEF LineInv, FlightHolds
<1> QED BY <1>3, <1>5, <1>7, <1>8 DEF LineInv

LEMMA LineStep == ASSUME LineInv, [ProbeNext]_probeVars PROVE LineInv'
<1>1. ASSUME NEW l \in Loops, Settle(l) PROVE LineInv'
  <2> DEFINE c == loop[l].scope
  <2>1. c \in Scopes /\ mutex[c] # <<>> /\ Head(mutex[c]) = l
    BY <1>1 DEF Settle, LineInv, FlightHolds
  <2>2. ASSUME NEW next, Finish(c, l, next) PROVE LineInv'
    <3>1. mutex' = [mutex EXCEPT ![c] = Tail(@)] /\ Returns(l, next) /\ UNCHANGED conv
      BY <2>2 DEF Finish
    <3> HIDE DEF c
    <3> QED BY <2>1, <3>1, HeadLeaves
  <2>3. \E next : Finish(c, l, next)
    BY <1>1 DEF Settle, Limited, BackedOff, Unavailable, PutOff, Answered
  <2> QED BY <2>2, <2>3
<1>2. ASSUME NEW l \in Loops, NEW c \in Scopes, Deferred(c, l) PROVE LineInv'
  <2>1. /\ mutex[c] # <<>> /\ l = Head(mutex[c]) /\ mutex' = [mutex EXCEPT ![c] = Tail(@)] /\ UNCHANGED conv
        /\ Returns(l, IF Earliest(c) > 0 THEN Earliest(c) ELSE Success)
    BY <1>2 DEF Deferred
  <2> QED BY <2>1, HeadLeaves
<1>3. ASSUME NEW l \in Loops, OfLoop(l) PROVE LineInv'
  BY <1>1, <1>2, <1>3, LoopsOwnKeep, AskKeeps, LaunchKeeps DEF OfLoop
<1>4. CASE Restart
  <2>1. /\ mutex' = [c \in Scopes |-> <<>>] /\ UNCHANGED conv
        /\ loop' = [l \in Loops |-> IF loop[l] = Unused THEN Unused ELSE [Unused EXCEPT !.st = "gone"]]
    BY <1>4 DEF Restart, durable
  <2>2. /\ Unused \in LoopRecords /\ [Unused EXCEPT !.st = "gone"] \in LoopRecords
        /\ Unused.st = "unused" /\ [Unused EXCEPT !.st = "gone"].st = "gone"
    BY DEF Unused, LoopRecords, Stages
  <2>3. loop' \in [Loops -> LoopRecords] /\ \A l \in Loops : loop'[l].st \in {"unused", "gone"}
    BY <2>1, <2>2
  <2>4. mutex' \in [Scopes -> Seq(Loops)]
    BY <2>1
  <2>5. LoopsTyped'
    BY <2>1, <2>3, <2>4 DEF LineInv, LoopsTyped
  <2>6. Lines' /\ FlightHolds'
    BY <2>1, <2>3 DEF Lines, FlightHolds
  <2> QED BY <2>5, <2>6 DEF LineInv
<1>5. CASE (\E c \in Scopes, d \in Delays : Defer(c, d)) \/ Tick \/ UNCHANGED probeVars
  <2>1. UNCHANGED <<loop, mutex, conv>>
    BY <1>5 DEF Defer, Tick, probeVars, queues, durable
  <2> QED BY <2>1 DEF LineInv, LoopsTyped, Lines, FlightHolds
<1> QED BY <1>3, <1>4, <1>5, StartStopKeep DEF ProbeNext

-----------------------------------------------------------------------------
(* Only Launch sends a probe out.                                          *)

StaysDown(l) == loop'[l].st = "flying" => loop[l].st = "flying"

(* A result that returns leaves every other loop where it is.              *)
LEMMA ReturnsStaysDown ==
  ASSUME LoopsTyped, NEW k \in Loops, NEW next, Returns(k, next), NEW l \in Loops
  PROVE  StaysDown(l)
<1> DEFINE v == IF loop[k].aborted THEN "ending" ELSE "loop"
<1>1. loop \in [Loops -> LoopRecords] /\ loop' = [loop EXCEPT ![k].st = v, ![k].scope = None] /\ v # "flying"
  BY DEF LoopsTyped, Returns
<1> HIDE DEF v
<1>2. l # k => loop'[l] = loop[l]
  BY <1>1
<1>3. loop'[k].st = v
  BY <1>1 DEF LoopRecords
<1> QED BY <1>1, <1>2, <1>3 DEF StaysDown

LEMMA OnlyLaunchFlies ==
  ASSUME LineInv, [ProbeNext]_probeVars, NEW l \in Loops, \A c \in Scopes : ~Launch(c, l)
  PROVE  StaysDown(l)
<1>0. loop \in [Loops -> LoopRecords] /\ LoopsTyped
  BY DEF LineInv, LoopsTyped
<1>1. ASSUME NEW s \in Sessions, NEW k \in Loops, Start(s, k) PROVE StaysDown(l)
  <2> DEFINE g == [loop EXCEPT ![k] = [@ EXCEPT !.st = "loop", !.session = s, !.home = conv[s]]]
  <2>1. [loop[k] EXCEPT !.st = "loop", !.session = s, !.home = conv[s]] \in LoopRecords
    BY <1>0, <1>1 DEF Start, LineInv, LoopsTyped, LoopRecords, Stages
  <2>2. g \in [Loops -> LoopRecords] /\ g[k].st = "loop" /\ \A m \in Loops \ {k} : g[m] = loop[m]
    BY <1>0, <2>1 DEF LoopRecords
  <2>3. loop' = AbortIn(g, runtime[s])
    BY <1>1 DEF Start
  <2> HIDE DEF g
  <2>4. loop'[l].st = g[l].st
    BY <2>2, <2>3, AbortKeeps
  <2> QED BY <2>2, <2>4 DEF StaysDown
<1>2. ASSUME NEW s \in Sessions, Stop(s) \/ Attention(s) PROVE StaysDown(l)
  <2>1. loop' = AbortIn(loop, runtime[s]) \/ loop' = loop
    BY <1>2 DEF Stop, Attention
  <2> QED BY <1>0, <2>1, AbortKeeps DEF StaysDown
<1>3. ASSUME NEW k \in Loops, Settle(k) PROVE StaysDown(l)
  <2>1. \E next : Returns(k, next)
    BY <1>3 DEF Settle, Limited, BackedOff, Unavailable, PutOff, Answered, Finish
  <2> QED BY <1>0, <2>1, ReturnsStaysDown
<1>4. ASSUME NEW k \in Loops, NEW c \in Scopes, Deferred(c, k) PROVE StaysDown(l)
  <2>1. \E next : Returns(k, next)
    BY <1>4 DEF Deferred
  <2> QED BY <1>0, <2>1, ReturnsStaysDown
<1>5. ASSUME NEW k \in Loops, Redirect(k) \/ GiveUpTurn(k) PROVE StaysDown(l)
  BY <1>5 DEF Redirect, GiveUpTurn, StaysDown
<1>6. ASSUME NEW k \in Loops, Ask(k) PROVE StaysDown(l)
  <2>1. \E c : loop' = [loop EXCEPT ![k].st = "asked", ![k].scope = c]
    BY <1>6 DEF Ask
  <2> QED BY <1>0, <2>1 DEF StaysDown, LoopRecords
<1>7. ASSUME NEW k \in Loops, End(k) PROVE StaysDown(l)
  BY <1>0, <1>7 DEF End, StaysDown, LoopRecords
<1>8. ASSUME NEW k \in Loops, NEW c \in Scopes, Launch(c, k) PROVE StaysDown(l)
  BY <1>0, <1>8 DEF Launch, StaysDown, LoopRecords
<1>9. CASE Restart
  BY <1>9 DEF Restart, Unused, StaysDown
<1>10. CASE (\E c \in Scopes, d \in Delays : Defer(c, d)) \/ Tick \/ UNCHANGED probeVars
  BY <1>10 DEF Defer, Tick, probeVars, StaysDown
<1> QED BY <1>1, <1>2, <1>3, <1>4, <1>5, <1>6, <1>7, <1>8, <1>9, <1>10 DEF ProbeNext, OfLoop

-----------------------------------------------------------------------------
(* The theorems.                                                           *)

(* What the provider and the operator said is covered by what is stored,   *)
(* and the lines at the mutexes are in order: inductive.                   *)
THEOREM ProbeInvariant == ProbeSpec => []ProbeInv
<1>1. ProbeInv /\ [ProbeNext]_probeVars => ProbeInv'
  BY BudgetStep, LineStep DEF ProbeInv, LineInv
<1> QED BY <1>1, ProbesStart, PTL DEF ProbeSpec

(* No probe goes out while the provider's Retry-After, or a cooldown       *)
(* imposed on its scope or on the account, still runs, for any number of   *)
(* sessions, observers and scopes and any intervals.                       *)
THEOREM ProbesKeepAway == ProbeSpec => ProbesStayAway
<1> DEFINE Away == \A l \in Loops : Launched(l) =>
       LET c == loop'[l].scope IN told[c] = 0 /\ (c \in Conversations => told[Account] = 0)
<1>1. ASSUME ProbeInv, [ProbeNext]_probeVars, NEW l \in Loops, Launched(l)
      PROVE  told[loop'[l].scope] = 0 /\ (loop'[l].scope \in Conversations => told[Account] = 0)
  <2>1. PICK c \in Scopes : Launch(c, l)
    BY <1>1, OnlyLaunchFlies DEF StaysDown, Launched, ProbeInv
  <2>2. loop'[l].scope = c
    <3>1. loop[l].scope = c
      BY <1>1, <2>1, LaunchKeeps DEF ProbeInv
    <3> QED BY <1>1, <2>1, <3>1 DEF Launch, ProbeInv, LineInv, LoopsTyped, LoopRecords
  <2>3. Earliest(c) = 0 /\ Account \in Scopes
    BY <2>1, ScopeNames DEF Launch
  <2>4. \A d \in Scopes : told[d] \in Nat /\ budget[d].next \in Int /\ budget[d].blocked \in Int /\ told[d] <= budget[d].blocked
    BY <1>1 DEF ProbeInv, BudgetInv, Stored, Barred, Rows
  <2>5. budget[c].blocked <= 0 /\ (c \in Conversations => budget[Account].blocked <= 0)
    BY <2>3, <2>4 DEF Earliest, Larger
  <2> QED BY <2>2, <2>3, <2>4, <2>5
<1>2. ProbeInv /\ [ProbeNext]_probeVars => [Away]_probeVars
  BY <1>1
<1> QED BY <1>2, ProbeInvariant, PTL DEF ProbeSpec, ProbesStayAway
-----------------------------------------------------------------------------
(* AnswerObservation.                                                      *)

\* The loops as AnswerObservation has them.
Notes == {"submitted", "unavailable", "deferred", "final", "progress", "blocked", "unverified", "pending"}
Readings == [around : {"unread", "plain", "again", "dialog", "lost", "followed"}, text : Nat,
             marked : BOOLEAN, stream : BOOLEAN, stood : Nat, took : Nat]
Ages == Nat \cup {-1}
Watches == [st : {"gone", "round", "reading", "writing", "noted", "asking"}, aborted : BOOLEAN, open : BOOLEAN,
            ev : Readings, known : Nat, since : Ages]
Updates == [by : Observers, note : Notes, text : Nat, paced : BOOLEAN, st : {"gone", "round", "noted"}]

SeeTyped ==
  /\ answer \in [text : Nat, phase : {"writing", "lull", "plain", "marked"}, stood : Nat]
  /\ around \in {"plain", "again", "dialog", "lost", "followed"}
  /\ turn \in [state : {"observing", "complete", "failed"}, now : BOOLEAN, text : Nat, note : Notes, paced : BOOLEAN]
  /\ pending \in Seq(Updates)
  /\ current \in Observers \cup {NoObserver}

\* A loop that waits for its reading.
Listens(x) == x.st = "reading" /\ ~x.aborted

\* What a loop remembers is of the answer, and its window is not older than the
\* text that it measures has stood on the page; while a reading is at hand, the
\* loop waits for it, and the window is not older than the text was when it was
\* read and the reading takes together.
Measures(x, a) ==
  /\ x \in Watches /\ x.known <= a.text /\ x.ev.text <= a.text
  /\ x.since >= 0 /\ x.known = a.text => x.since <= a.stood
  /\ x.since >= 0 /\ x.ev.text # 0 => Listens(x)
  /\ x.since >= 0 /\ x.ev.text # 0 /\ x.known = x.ev.text => x.since <= x.ev.stood + x.ev.took

AllMeasure == observer \in [Observers -> Watches] /\ \A o \in Observers : Measures(observer[o], answer)

SeeInv == SeeTyped /\ AllMeasure

\* A loop whose update is in the queue waits for it, and has one there.
Queued == \A i \in 1..Len(pending) :
  /\ observer[pending[i].by].st = "writing"
  /\ \A j \in 1..Len(pending) : pending[i].by = pending[j].by => i = j

QuietStep == \A o \in Observers :
  observer[o].st = "reading" /\ observer'[o].st = "writing" /\ ~observer[o].ev.marked
    /\ pending'[Len(pending')].note = "final"
  => observer[o].ev.stood + observer[o].ev.took >= Window

EndKept == turn.state # "observing" => turn'.state = turn.state

SeeStep == SeeInv' /\ QuietStep /\ EndKept

LEMMA RestingMeasures ==
  ASSUME NEW a, a.text \in Nat PROVE Measures(Resting, a) /\ Resting \in Watches
  BY DEF Measures, Resting, Watches, Readings, Unread, Found, Ages

LEMMA SeeStarts == SeeInit => SeeInv
<1> SUFFICES ASSUME SeeInit PROVE SeeInv
  OBVIOUS
<1>1. SeeTyped
  BY DEF SeeInit, SeeTyped, Notes
<1>2. answer.text \in Nat
  BY <1>1 DEF SeeTyped
<1>3. AllMeasure
  BY <1>2, RestingMeasures DEF SeeInit, AllMeasure
<1> QED BY <1>1, <1>3 DEF SeeInv

\* One loop changes, and the answer does not.
LEMMA OneLoop ==
  ASSUME SeeInv, NEW o \in Observers, NEW x, Measures(x, answer), observer' = [observer EXCEPT ![o] = x],
         UNCHANGED <<answer, turn, around>>, pending' \in Seq(Updates), current' \in Observers \cup {NoObserver},
         observer[o].st = "reading" /\ x.st = "writing" /\ ~observer[o].ev.marked
           /\ pending'[Len(pending')].note = "final" => observer[o].ev.stood + observer[o].ev.took >= Window
  PROVE  SeeStep
<1>1. observer'[o] = x /\ \A p \in Observers \ {o} : observer'[p] = observer[p]
  BY DEF SeeInv, AllMeasure
<1>2. AllMeasure'
  <2>1. observer' \in [Observers -> Watches]
    BY DEF SeeInv, AllMeasure, Measures
  <2>2. \A p \in Observers : Measures(observer'[p], answer)
    BY <1>1 DEF SeeInv, AllMeasure
  <2> QED BY <2>1, <2>2 DEF AllMeasure, Measures
<1>3. SeeTyped'
  BY DEF SeeInv, SeeTyped
<1>4. QuietStep
  BY <1>1 DEF QuietStep
<1> QED BY <1>2, <1>3, <1>4 DEF SeeStep, SeeInv, EndKept

\* The loops stay as they are, or one of them ends or goes on after its write.
LEMMA OthersStep ==
  ASSUME SeeInv, UNCHANGED observer, SeeTyped', EndKept,
         UNCHANGED answer \/ (answer'.text = answer.text /\ answer'.stood = answer.stood)
           \/ (answer'.text = answer.text + 1 /\ answer'.stood = 0)
  PROVE  SeeStep
<1>1. ASSUME NEW o \in Observers PROVE Measures(observer[o], answer')
  <2>1. PICK x : x = observer[o]
    OBVIOUS
  <2>2. Measures(x, answer) /\ answer.text \in Nat /\ answer.stood \in Nat
    BY <2>1 DEF SeeInv, AllMeasure, SeeTyped
  <2>3. x.known \in Nat /\ x.since \in Int /\ x.ev.text \in Nat /\ x \in Watches
    BY <2>2 DEF Measures, Watches, Ages, Readings
  <2>4. Measures(x, answer')
    BY <2>2, <2>3 DEF Measures
  <2> QED BY <2>1, <2>4
<1>2. AllMeasure'
  BY <1>1 DEF SeeInv, AllMeasure, Measures
<1>3. QuietStep
  BY DEF QuietStep, SeeInv, AllMeasure
<1> QED BY <1>2, <1>3 DEF SeeStep, SeeInv

LEMMA LoopFine ==
  ASSUME SeeInv, NEW o \in Observers
  PROVE  /\ Measures(observer[o], answer) /\ observer[o] \in Watches /\ observer[o].ev \in Readings
         /\ answer.text \in Nat /\ answer.stood \in Nat /\ pending \in Seq(Updates)
  BY DEF SeeInv, AllMeasure, Measures, SeeTyped, Watches

LEMMA AppendFine ==
  ASSUME pending \in Seq(Updates), NEW u, u \in Updates, pending' = Append(pending, u)
  PROVE  pending' \in Seq(Updates) /\ pending'[Len(pending')] = u
  OBVIOUS

LEMMA SpotFine ==
  ASSUME SeeInv, NEW o \in Observers, NEW x, NEW st \in {"gone", "round", "reading", "writing", "noted", "asking"},
         x = [observer[o] EXCEPT !.st = st], observer[o].st # "reading"
  PROVE  Measures(x, answer)
<1>1. PICK y : y = observer[o]
  OBVIOUS
<1>2. Measures(y, answer) /\ y \in Watches
  BY <1>1, LoopFine
<1>3. x = [y EXCEPT !.st = st]
  BY <1>1
<1>4. x \in Watches /\ x.ev = y.ev /\ x.known = y.known /\ x.since = y.since
  BY <1>2, <1>3 DEF Watches
<1>5. y.st # "reading"
  BY <1>1
<1> QED BY <1>2, <1>4, <1>5 DEF Measures, Listens

\* A loop leaves.
LEMMA LeavesFine ==
  ASSUME SeeInv, NEW o \in Observers, Leaves(o), UNCHANGED <<answer, turn, around>>, pending' \in Seq(Updates)
  PROVE  SeeStep
<1>1. Measures(Resting, answer)
  BY LoopFine, RestingMeasures
<1>2. Resting.st # "writing"
  BY DEF Resting
<1>3. current' \in Observers \cup {NoObserver}
  BY DEF Leaves, SeeInv, SeeTyped
<1>4. observer' = [observer EXCEPT ![o] = Resting]
  BY DEF Leaves
<1> QED BY <1>1, <1>2, <1>3, <1>4, OneLoop

\* A loop goes on elsewhere; it does not judge.
LEMMA EntersFine ==
  ASSUME SeeInv, NEW o \in Observers, NEW st \in {"gone", "round", "reading", "writing", "noted", "asking"},
         Enters(o, st), UNCHANGED <<answer, turn, around>>, pending' \in Seq(Updates),
         observer[o].st # "reading"
  PROVE  SeeStep
<1>1. PICK x : x = [observer[o] EXCEPT !.st = st]
  OBVIOUS
<1>2. Measures(x, answer)
  BY <1>1, SpotFine
<1>3. observer' = [observer EXCEPT ![o] = x]
  BY <1>1 DEF Enters
<1>4. x.st = st
  BY <1>1, LoopFine DEF Watches
<1>5. current' \in Observers \cup {NoObserver}
  BY DEF Enters, SeeInv, SeeTyped
<1> QED BY <1>2, <1>3, <1>4, <1>5, OneLoop

LEMMA AbortedFine ==
  ASSUME SeeInv, NEW o \in Observers
  PROVE  Measures(Aborted(o), answer) /\ Aborted(o).st = observer[o].st
<1>1. PICK y : y = observer[o]
  OBVIOUS
<1>2. Measures(y, answer) /\ y \in Watches /\ answer.text \in Nat
  BY <1>1, LoopFine
<1>3. Aborted(o) = [y EXCEPT !.aborted = TRUE, !.ev = Unread, !.known = 0, !.since = -1]
  BY <1>1 DEF Aborted
<1>4. PICK e : e = Unread
  OBVIOUS
<1>5. e \in Readings /\ e.text = 0
  BY <1>4 DEF Unread, Found, Readings
<1>6. PICK z : z = [y EXCEPT !.aborted = TRUE, !.ev = e, !.known = 0, !.since = -1]
  OBVIOUS
<1>7. z = Aborted(o)
  BY <1>3, <1>4, <1>6
<1>8. z \in Watches /\ z.st = y.st /\ z.ev = e /\ z.known = 0 /\ z.since = -1
  BY <1>2, <1>5, <1>6 DEF Watches, Ages
<1>9. Measures(z, answer)
  BY <1>2, <1>5, <1>8 DEF Measures
<1> QED BY <1>1, <1>7, <1>8, <1>9

LEMMA UpdateFine ==
  ASSUME NEW o \in Observers, NEW note \in Notes, NEW text \in Nat, NEW paced \in BOOLEAN, NEW st \in {"gone", "round", "noted"}
  PROVE  Update(o, note, text, paced, st) \in Updates /\ Update(o, note, text, paced, st).note = note
  BY DEF Update, Updates

-----------------------------------------------------------------------------
LEMMA ProviderStep == SeeInv /\ (AnswerGrows \/ AnswerRests) => SeeStep
<1> SUFFICES ASSUME SeeInv, AnswerGrows \/ AnswerRests PROVE SeeStep
  OBVIOUS
<1>1. CASE AnswerGrows
  <2>1. SeeTyped'
    BY <1>1 DEF AnswerGrows, SeeInv, SeeTyped
  <2>2. EndKept
    BY <1>1 DEF AnswerGrows, EndKept
  <2>3. UNCHANGED observer /\ answer'.text = answer.text + 1 /\ answer'.stood = 0
    BY <1>1 DEF AnswerGrows
  <2> QED BY <2>1, <2>2, <2>3, OthersStep
<1>2. CASE AnswerRests
  <2>1. PICK p \in {"lull", "plain", "marked"} : answer' = [answer EXCEPT !.phase = p]
    BY <1>2 DEF AnswerRests
  <2>2. answer'.text = answer.text /\ answer'.stood = answer.stood /\ UNCHANGED <<observer, turn>>
    BY <1>2, <2>1 DEF AnswerRests, SeeInv, SeeTyped
  <2>3. SeeTyped'
    BY <1>2, <2>1 DEF AnswerRests, SeeInv, SeeTyped
  <2>4. EndKept
    BY <2>2 DEF EndKept
  <2> QED BY <2>2, <2>3, <2>4, OthersStep
<1> QED BY <1>1, <1>2

LEMMA PageStep == SeeInv /\ (PageChanges \/ PageRecovers \/ OtherOperation) => SeeStep
<1> SUFFICES ASSUME SeeInv, PageChanges \/ PageRecovers \/ OtherOperation PROVE SeeStep
  OBVIOUS
<1>1. SeeTyped' /\ EndKept /\ UNCHANGED <<observer, answer>>
  BY DEF PageChanges, PageRecovers, OtherOperation, SeeInv, SeeTyped, EndKept
<1> QED BY <1>1, OthersStep

LEMMA OperationEndsStep == SeeInv /\ OperationEnds => SeeStep
<1> SUFFICES ASSUME SeeInv, OperationEnds PROVE SeeStep
  OBVIOUS
<1>1. UNCHANGED <<observer, answer, around, pending, current>>
  BY DEF OperationEnds, theirs
<1>2. CASE UNCHANGED turn
  BY <1>1, <1>2, OthersStep DEF SeeInv, SeeTyped, EndKept
<1>3. CASE Ended /\ turn' = [turn EXCEPT !.now = FALSE]
  <2>1. SeeTyped' /\ EndKept
    BY <1>1, <1>3 DEF SeeInv, SeeTyped, EndKept
  <2> QED BY <1>1, <2>1, OthersStep
<1>4. CASE ~Ended /\ turn' = [turn EXCEPT !.state = "failed"]
  <2>1. SeeTyped' /\ EndKept
    BY <1>1, <1>4 DEF SeeInv, SeeTyped, EndKept, Ended
  <2> QED BY <1>1, <2>1, OthersStep
<1> QED BY <1>2, <1>3, <1>4 DEF OperationEnds

LEMMA StartsObservingStep == ASSUME SeeInv, NEW o \in Observers, StartsObserving(o) PROVE SeeStep
<1>1. PICK x : x = [Resting EXCEPT !.st = "round"]
  OBVIOUS
<1>a. Resting.since = -1 /\ Resting.known = 0 /\ Resting.ev.text = 0 /\ Resting \in Watches /\ answer.text \in Nat
  BY LoopFine, RestingMeasures DEF Resting, Unread, Found
<1>b. x \in Watches /\ x.st = "round" /\ x.since = -1 /\ x.known = 0 /\ x.ev.text = 0
  BY <1>1, <1>a DEF Watches
<1>2. Measures(x, answer) /\ x.st = "round"
  BY <1>a, <1>b DEF Measures
<1>3. observer' = [observer EXCEPT ![o] = x] /\ current' = o /\ UNCHANGED <<answer, around, turn, pending>>
  BY <1>1 DEF StartsObserving, theirs
<1>4. pending' \in Seq(Updates)
  BY <1>3, LoopFine
<1> QED BY <1>2, <1>3, <1>4, OneLoop

\* Several loops change, and none of them judges.
LEMMA ManyLoops ==
  ASSUME SeeInv, observer' \in [Observers -> Watches], \A o \in Observers : Measures(observer'[o], answer'),
         SeeTyped', UNCHANGED turn.state,
         \A o \in Observers : observer'[o].st = "writing" => observer[o].st = "writing"
  PROVE  SeeStep
<1>1. AllMeasure'
  BY DEF AllMeasure, Measures
<1>2. QuietStep /\ EndKept
  BY DEF QuietStep, EndKept
<1> QED BY <1>1, <1>2 DEF SeeStep, SeeInv

LEMMA StartsByForceStep == ASSUME SeeInv, NEW o \in Observers, StartsByForce(o) PROVE SeeStep
<1>1. PICK x : x = [Resting EXCEPT !.st = "round"]
  OBVIOUS
<1>2. PICK y : y = Aborted(current)
  OBVIOUS
<1>3. current \in Observers
  BY DEF StartsByForce, SeeInv, SeeTyped
<1>a. Resting.since = -1 /\ Resting.known = 0 /\ Resting.ev.text = 0 /\ Resting \in Watches /\ answer.text \in Nat
  BY LoopFine, RestingMeasures DEF Resting, Unread, Found
<1>b. x \in Watches /\ x.st = "round" /\ x.since = -1 /\ x.known = 0 /\ x.ev.text = 0
  BY <1>1, <1>a DEF Watches
<1>4. Measures(x, answer) /\ x.st = "round"
  BY <1>a, <1>b DEF Measures
<1>5. Measures(y, answer) /\ y.st = observer[current].st
  BY <1>2, <1>3, AbortedFine
<1>6. observer' = [observer EXCEPT ![o] = x, ![current] = y] /\ current' = o /\ UNCHANGED <<answer, around, turn, pending>>
  BY <1>1, <1>2 DEF StartsByForce
<1>7. observer' \in [Observers -> Watches] /\ \A p \in Observers :
         observer'[p] = IF p = current THEN y ELSE IF p = o THEN x ELSE observer[p]
  BY <1>3, <1>4, <1>5, <1>6 DEF SeeInv, AllMeasure, Measures
<1>8. \A p \in Observers : Measures(observer'[p], answer')
  BY <1>4, <1>5, <1>6, <1>7, LoopFine
<1>9. SeeTyped'
  BY <1>6 DEF SeeInv, SeeTyped
<1>10. \A p \in Observers : observer'[p].st = "writing" => observer[p].st = "writing"
  BY <1>4, <1>5, <1>7
<1> QED BY <1>6, <1>7, <1>8, <1>9, <1>10, ManyLoops

LEMMA StopsStep == SeeInv /\ Stops => SeeStep
<1> SUFFICES ASSUME SeeInv, Stops PROVE SeeStep
  OBVIOUS
<1>1. PICK y : y = Aborted(current)
  OBVIOUS
<1>2. current \in Observers
  BY DEF Stops, SeeInv, SeeTyped
<1>3. Measures(y, answer) /\ y.st = observer[current].st
  BY <1>1, <1>2, AbortedFine
<1>4. observer' = [observer EXCEPT ![current] = y] /\ current' = NoObserver /\ UNCHANGED <<answer, around, turn, pending>>
  BY <1>1 DEF Stops
<1>5. pending' \in Seq(Updates)
  BY <1>2, <1>4, LoopFine
<1> QED BY <1>2, <1>3, <1>4, <1>5, OneLoop

LEMMA SeeCrashStep == SeeInv /\ SeeCrash => SeeStep
<1> SUFFICES ASSUME SeeInv, SeeCrash PROVE SeeStep
  OBVIOUS
<1>1. observer' = [o \in Observers |-> Resting] /\ UNCHANGED <<answer, around, turn>> /\ pending' = <<>> /\ current' = NoObserver
  BY DEF SeeCrash
<1>2. answer.text \in Nat
  BY DEF SeeInv, SeeTyped
<1>3. observer' \in [Observers -> Watches] /\ \A o \in Observers : Measures(observer'[o], answer')
  BY <1>1, <1>2, RestingMeasures
<1>4. \A o \in Observers : observer'[o].st # "writing"
  BY <1>1 DEF Resting
<1>5. SeeTyped'
  BY <1>1 DEF SeeInv, SeeTyped
<1> QED BY <1>1, <1>3, <1>4, <1>5, ManyLoops

-----------------------------------------------------------------------------
(* The round of a loop.                                                    *)

LEMMA SeenFine ==
  ASSUME SeeInv, NEW stream \in BOOLEAN, NEW e, e = Seen(stream)
  PROVE  e \in Readings /\ e.text <= answer.text /\ (e.text # 0 => e.text = answer.text /\ e.stood = answer.stood /\ e.took = 0)
<1>1. PICK a : a = answer
  OBVIOUS
<1>2. a.text \in Nat /\ a.stood \in Nat /\ around \in {"plain", "again", "dialog", "lost", "followed"}
  BY <1>1 DEF SeeInv, SeeTyped
<1>3. CASE around \in {"dialog", "lost"}
  <2>1. e = [around |-> around, text |-> 0, marked |-> FALSE, stream |-> FALSE, stood |-> 0, took |-> 0]
    BY <1>3 DEF Seen, Found
  <2> QED BY <1>1, <1>2, <2>1 DEF Readings
<1>4. CASE around \notin {"dialog", "lost"}
  <2>1. e = [around |-> around, text |-> a.text, marked |-> a.phase = "marked", stream |-> stream, stood |-> a.stood, took |-> 0]
    BY <1>1, <1>4 DEF Seen, Found
  <2> QED BY <1>1, <1>2, <2>1 DEF Readings
<1> QED BY <1>3, <1>4

LEMMA ReadsStep == ASSUME SeeInv, NEW o \in Observers, Reads(o) PROVE SeeStep
<1>1. PICK y : y = observer[o]
  OBVIOUS
<1>2. Measures(y, answer) /\ y \in Watches /\ y.ev \in Readings /\ answer.text \in Nat /\ answer.stood \in Nat
  BY <1>1, LoopFine
<1>3. PICK stream \in BOOLEAN :
        observer' = [observer EXCEPT ![o] = [observer[o] EXCEPT !.st = "reading", !.open = TRUE,
                       !.ev = IF observer[o].ev = Unread THEN Seen(stream) ELSE observer[o].ev]]
  BY DEF Reads
<1>4. PICK e : e = IF y.ev = Unread THEN Seen(stream) ELSE y.ev
  OBVIOUS
<1>5. e \in Readings /\ e.text <= answer.text
         /\ (e = y.ev \/ (e.text # 0 => e.text = answer.text /\ e.stood = answer.stood /\ e.took = 0))
  BY <1>2, <1>4, SeenFine DEF Measures
<1>a. y.st = "round" /\ ~y.aborted
  BY <1>1 DEF Reads, GoesRound
<1>6. PICK x : x = [y EXCEPT !.st = "reading", !.open = TRUE, !.ev = e]
  OBVIOUS
<1>7. observer' = [observer EXCEPT ![o] = x]
  <2>1. x = [observer[o] EXCEPT !.st = "reading", !.open = TRUE,
                                !.ev = IF observer[o].ev = Unread THEN Seen(stream) ELSE observer[o].ev]
    BY <1>1, <1>4, <1>6
  <2> QED BY <1>3, <2>1
<1>8. x \in Watches /\ x.st = "reading" /\ ~x.aborted /\ x.ev = e /\ x.known = y.known /\ x.since = y.since
  BY <1>2, <1>5, <1>6, <1>a DEF Watches
<1>9. Measures(x, answer)
  <2>1. x.known <= answer.text /\ x.ev.text <= answer.text /\ (x.since >= 0 /\ x.known = answer.text => x.since <= answer.stood)
    BY <1>2, <1>5, <1>8 DEF Measures
  <2>2. ASSUME x.since >= 0, x.ev.text # 0, x.known = x.ev.text PROVE x.since <= x.ev.stood + x.ev.took
    <3>1. e # y.ev
      BY <1>2, <1>8, <1>a, <2>2 DEF Measures, Listens
    <3>2. x.known = answer.text /\ x.ev.stood = answer.stood /\ x.ev.took = 0
      BY <1>5, <1>8, <2>2, <3>1
    <3> QED BY <1>2, <2>1, <2>2, <3>2
  <2> QED BY <1>8, <2>1, <2>2 DEF Measures, Listens
<1>10. UNCHANGED <<answer, around, turn, pending, current>>
  BY DEF Reads, theirs
<1>11. pending' \in Seq(Updates) /\ current' \in Observers \cup {NoObserver}
  BY <1>10 DEF SeeInv, SeeTyped
<1> QED BY <1>7, <1>8, <1>9, <1>10, <1>11, OneLoop

\* The reading is dropped.
LEMMA DropFine ==
  ASSUME SeeInv, NEW o \in Observers, NEW x \in Watches, x.ev = Unread,
         x.known = observer[o].known, x.since = observer[o].since
  PROVE  Measures(x, answer)
<1>1. PICK y : y = observer[o]
  OBVIOUS
<1>2. Measures(y, answer) /\ y \in Watches /\ answer.text \in Nat
  BY <1>1, LoopFine
<1>3. x.ev.text = 0
  BY DEF Unread, Found
<1>4. x.known = y.known /\ x.since = y.since
  BY <1>1
<1> QED BY <1>2, <1>3, <1>4 DEF Measures

LEMMA RoundEndsStep == ASSUME SeeInv, NEW o \in Observers, RoundEnds(o) \/ ReadingEnds(o) PROVE SeeStep
<1>1. Leaves(o) /\ UNCHANGED <<answer, around, turn, pending>>
  BY DEF RoundEnds, ReadingEnds, theirs
<1>2. pending' \in Seq(Updates)
  BY <1>1, LoopFine
<1> QED BY <1>1, <1>2, LeavesFine

LEMMA RecordsUnavailableStep == ASSUME SeeInv, NEW o \in Observers, RecordsUnavailable(o) PROVE SeeStep
<1>1. PICK st : st = IF Same("unavailable") THEN "round" ELSE "writing"
  OBVIOUS
<1>a. observer[o] \in Watches /\ Unread \in Readings
  BY LoopFine DEF Unread, Found, Readings
<1>b. st \in {"round", "writing"}
  BY <1>1
<1>2. PICK x : x = [observer[o] EXCEPT !.st = st, !.open = FALSE, !.ev = Unread]
  OBVIOUS
<1>c. x \in Watches /\ x.st = st /\ x.ev = Unread /\ x.known = observer[o].known /\ x.since = observer[o].since
  BY <1>2, <1>a, <1>b DEF Watches
<1>3. Measures(x, answer) /\ x.st = st
  BY <1>c, DropFine
<1>4. observer' = [observer EXCEPT ![o] = x]
  BY <1>1, <1>2 DEF RecordsUnavailable
<1>5. UNCHANGED <<answer, around, turn, current>>
  BY DEF RecordsUnavailable, theirs
<1>6. PICK u : u = Update(o, "unavailable", 0, FALSE, "round")
  OBVIOUS
<1>7. u \in Updates /\ u.note = "unavailable"
  BY <1>6 DEF Update, Updates, Notes
<1>8. CASE Same("unavailable")
  <2>1. pending' \in Seq(Updates) /\ x.st # "writing"
    BY <1>1, <1>3, <1>8, LoopFine DEF RecordsUnavailable
  <2> QED BY <1>3, <1>4, <1>5, <2>1, OneLoop DEF SeeInv, SeeTyped
<1>9. CASE ~Same("unavailable")
  <2>1. pending' = Append(pending, u)
    BY <1>6, <1>9 DEF RecordsUnavailable
  <2>2. pending' \in Seq(Updates) /\ pending'[Len(pending')].note # "final"
    BY <1>7, <2>1, LoopFine, AppendFine
  <2> QED BY <1>3, <1>4, <1>5, <2>2, OneLoop DEF SeeInv, SeeTyped
<1> QED BY <1>8, <1>9

LEMMA TimesOutStep == ASSUME SeeInv, NEW o \in Observers, TimesOut(o) PROVE SeeStep
<1>1. PICK st : st = IF Same("unavailable") THEN "noted" ELSE "writing"
  OBVIOUS
<1>2. PICK y : y = observer[o]
  OBVIOUS
<1>3. Measures(y, answer) /\ y \in Watches /\ answer.text \in Nat
  BY <1>2, LoopFine
<1>a. PICK e : e = [y.ev EXCEPT !.took = 0]
  OBVIOUS
<1>b. e \in Readings /\ e.text = y.ev.text
  BY <1>3, <1>a DEF Watches, Readings
<1>4. PICK x : x = [y EXCEPT !.st = st, !.ev = e, !.known = 0, !.since = -1]
  OBVIOUS
<1>5. x \in Watches /\ x.st = st /\ x.ev = e /\ x.known = 0 /\ x.since = -1
  BY <1>1, <1>3, <1>4, <1>b DEF Watches, Ages
<1>6. Measures(x, answer)
  BY <1>3, <1>5, <1>b DEF Measures
<1>c. observer' = [observer EXCEPT ![o] = [@ EXCEPT !.st = st, !.ev = [observer[o].ev EXCEPT !.took = 0],
                                                    !.known = 0, !.since = -1]]
  BY <1>1 DEF TimesOut
<1>7. observer' = [observer EXCEPT ![o] = x] /\ UNCHANGED <<answer, around, turn, current>>
  BY <1>2, <1>4, <1>a, <1>c DEF TimesOut, theirs
<1>8. PICK u : u = Update(o, "unavailable", 0, FALSE, "noted")
  OBVIOUS
<1>9. u \in Updates /\ u.note = "unavailable"
  BY <1>8 DEF Update, Updates, Notes
<1>10. CASE Same("unavailable")
  <2>1. pending' \in Seq(Updates) /\ x.st # "writing"
    BY <1>1, <1>5, <1>10, LoopFine DEF TimesOut
  <2> QED BY <1>6, <1>7, <2>1, OneLoop DEF SeeInv, SeeTyped
<1>11. CASE ~Same("unavailable")
  <2>1. pending' = Append(pending, u)
    BY <1>8, <1>11 DEF TimesOut
  <2>2. pending' \in Seq(Updates) /\ pending'[Len(pending')].note # "final"
    BY <1>9, <2>1, LoopFine, AppendFine
  <2> QED BY <1>6, <1>7, <2>2, OneLoop DEF SeeInv, SeeTyped
<1> QED BY <1>10, <1>11

LEMMA LateReadingStep == ASSUME SeeInv, NEW o \in Observers, LateReading(o) PROVE SeeStep
<1>1. PICK y : y = observer[o]
  OBVIOUS
<1>2. Measures(y, answer) /\ y \in Watches /\ y.st = "round"
  BY <1>1, LoopFine DEF LateReading
<1>a. Unread \in Readings
  BY DEF Unread, Found, Readings
<1>3. PICK x : x = [y EXCEPT !.ev = Unread]
  OBVIOUS
<1>4. x \in Watches /\ x.st = "round" /\ x.ev = Unread /\ x.known = y.known /\ x.since = y.since
  BY <1>2, <1>3, <1>a DEF Watches
<1>5. Measures(x, answer)
  BY <1>1, <1>4, DropFine
<1>6. observer' = [observer EXCEPT ![o] = x] /\ UNCHANGED <<answer, around, turn, pending, current>>
  BY <1>1, <1>3 DEF LateReading, theirs
<1>7. pending' \in Seq(Updates) /\ current' \in Observers \cup {NoObserver}
  BY <1>6 DEF SeeInv, SeeTyped
<1> QED BY <1>4, <1>5, <1>6, <1>7, OneLoop

LEMMA AsksStep == ASSUME SeeInv, NEW o \in Observers, Asks(o) \/ Rests(o) PROVE SeeStep
<1>1. UNCHANGED <<answer, around, turn, pending>> /\ (Enters(o, "asking") \/ Enters(o, "round")) /\ observer[o].st = "noted"
  BY DEF Asks, Rests, theirs
<1>2. pending' \in Seq(Updates)
  BY <1>1, LoopFine
<1> QED BY <1>1, <1>2, EntersFine

LEMMA AnswersStep == ASSUME SeeInv, NEW o \in Observers, Answers(o) PROVE SeeStep
<1>1. UNCHANGED <<answer, around, turn>> /\ observer[o].st = "asking"
  BY DEF Answers, theirs
<1>2. CASE observer[o].aborted
  <2>1. Leaves(o) /\ UNCHANGED pending
    BY <1>2 DEF Answers
  <2> QED BY <1>1, <2>1, LoopFine, LeavesFine
<1>3. CASE ~observer[o].aborted
  <2>1. Enters(o, "writing")
    BY <1>3 DEF Answers
  <2>2. PICK u : /\ pending' = Append(pending, u)
                 /\ \/ u = Update(o, "final", answer.text, FALSE, "gone")
                    \/ u = Update(o, "unavailable", 0, TRUE, "round")
                    \/ u = Update(o, "deferred", 0, TRUE, "round")
    BY <1>3 DEF Answers
  <2>3. u \in Updates
    <3>1. PICK text \in Nat : text = answer.text
      BY LoopFine
    <3>2. \/ u = Update(o, "final", text, FALSE, "gone")
          \/ u = Update(o, "unavailable", 0, TRUE, "round")
          \/ u = Update(o, "deferred", 0, TRUE, "round")
      BY <2>2, <3>1
    <3>3. CASE u = Update(o, "final", text, FALSE, "gone")
      BY <3>1, <3>3 DEF Update, Updates, Notes
    <3>4. CASE u = Update(o, "unavailable", 0, TRUE, "round")
      BY <3>4 DEF Update, Updates, Notes
    <3>5. CASE u = Update(o, "deferred", 0, TRUE, "round")
      BY <3>5 DEF Update, Updates, Notes
    <3> QED BY <3>2, <3>3, <3>4, <3>5
  <2>4. pending' \in Seq(Updates)
    BY <2>2, <2>3, LoopFine, AppendFine
  <2> QED BY <1>1, <2>1, <2>4, EntersFine
<1> QED BY <1>2, <1>3

\* What a verdict remembers: nothing, what it knew, or the text that was read
\* with a window of its own; a final without the marker has the whole window.
LEMMA EvaluateFine ==
  ASSUME NEW ev \in Readings, NEW activity \in {"none", "weak", "unknown"}, NEW known \in Nat, NEW since \in Ages, NEW v,
         v = Evaluate(ev, activity, known, since)
  PROVE  /\ v.kind \in {"final", "progress", "blocked", "unavailable", "unverified", "pending"}
         /\ v.known \in Nat /\ v.since \in Ages /\ v.known \in {0, known, ev.text}
         /\ v.since \in {-1, 0} \/ (v.since = since /\ v.known = known)
         /\ v.kind = "final" /\ ~ev.marked => v.known = ev.text /\ ev.text # 0 /\ v.since >= Window
         /\ v.kind = "final" /\ ~ev.marked => v.since = 0 \/ (v.since = since /\ v.known = known)
<1>1. PICK from : from = IF known # ev.text THEN 0 ELSE since
  OBVIOUS
<1>2. from \in Ages /\ (from = 0 \/ (from = since /\ ev.text = known)) /\ Window \in Nat \ {0} /\ ev.text \in Nat
  BY <1>1, Spans DEF Ages, Readings
<1>3. \/ v = Verdict("blocked", known, since)
      \/ v \in {Reset("unavailable"), Reset("unverified"), Reset("pending"), Reset("progress")}
      \/ v = Verdict("progress", ev.text, -1)
      \/ v = Verdict("final", ev.text, from) /\ ev.text # 0 /\ (ev.marked \/ from >= Window)
      \/ v = Verdict("progress", ev.text, IF from = -1 THEN 0 ELSE from)
  BY <1>1 DEF Evaluate, Readings
<1>4. CASE v = Verdict("blocked", known, since)
  BY <1>4 DEF Verdict
<1>5. CASE v \in {Reset("unavailable"), Reset("unverified"), Reset("pending"), Reset("progress")}
  BY <1>5 DEF Reset, Verdict, Ages
<1>6. CASE v = Verdict("progress", ev.text, -1)
  BY <1>2, <1>6 DEF Verdict, Ages
<1>7. CASE v = Verdict("final", ev.text, from) /\ ev.text # 0 /\ (ev.marked \/ from >= Window)
  BY <1>2, <1>7 DEF Verdict, Ages
<1>8. CASE v = Verdict("progress", ev.text, IF from = -1 THEN 0 ELSE from)
  BY <1>2, <1>8 DEF Verdict, Ages
<1> QED BY <1>3, <1>4, <1>5, <1>6, <1>7, <1>8

LEMMA JudgesStep == ASSUME SeeInv, NEW o \in Observers, Judges(o) PROVE SeeStep
<1>1. PICK y : y = observer[o]
  OBVIOUS
<1>2. Measures(y, answer) /\ y \in Watches /\ y.ev \in Readings /\ answer.text \in Nat /\ answer.stood \in Nat
  BY <1>1, LoopFine
<1>3. PICK activity, v, then, kept :
        /\ activity \in Activities
        /\ v = Evaluate(y.ev, activity, y.known, y.since)
        /\ then = CASE v.kind = "final" -> "gone" [] v.kind = "blocked" -> "round" [] OTHER -> "noted"
        /\ kept \in BOOLEAN
        /\ observer' = [observer EXCEPT ![o] = [@ EXCEPT !.st = IF kept THEN then ELSE "writing", !.ev = Unread,
                                                         !.known = v.known, !.since = v.since]]
        /\ pending' = IF kept THEN pending
                      ELSE Append(pending, Update(o, v.kind, IF v.kind = "final" THEN v.known ELSE 0, FALSE, then))
  <2>1. PICK activity \in Activities :
          LET v == Evaluate(observer[o].ev, activity, observer[o].known, observer[o].since)
              then == CASE v.kind = "final" -> "gone" [] v.kind = "blocked" -> "round" [] OTHER -> "noted"
              kept == KeepsDeferral(o, v) \/ (v.kind # "final" /\ Same(v.kind))
          IN /\ observer' = [observer EXCEPT ![o] = [@ EXCEPT !.st = IF kept THEN then ELSE "writing", !.ev = Unread,
                                                              !.known = v.known, !.since = v.since]]
             /\ pending' = IF kept THEN pending
                           ELSE Append(pending, Update(o, v.kind, IF v.kind = "final" THEN v.known ELSE 0, FALSE, then))
    BY DEF Judges
  <2>2. PICK v : v = Evaluate(observer[o].ev, activity, observer[o].known, observer[o].since)
    OBVIOUS
  <2>3. (KeepsDeferral(o, v) \/ (v.kind # "final" /\ Same(v.kind))) \in BOOLEAN
    OBVIOUS
  <2> QED BY <1>1, <2>1, <2>2, <2>3
<1>4. activity \in {"none", "weak", "unknown"}
  BY <1>3 DEF Activities
<1>5. /\ v.kind \in {"final", "progress", "blocked", "unavailable", "unverified", "pending"}
      /\ v.known \in Nat /\ v.since \in Ages /\ v.known \in {0, y.known, y.ev.text}
      /\ v.since \in {-1, 0} \/ (v.since = y.since /\ v.known = y.known)
      /\ v.kind = "final" /\ ~y.ev.marked => v.known = y.ev.text /\ y.ev.text # 0 /\ v.since >= Window
      /\ v.kind = "final" /\ ~y.ev.marked => v.since = 0 \/ (v.since = y.since /\ v.known = y.known)
  <2>1. y.known \in Nat /\ y.since \in Ages
    BY <1>2 DEF Watches
  <2> HIDE <1>2
  <2> QED BY <1>2, <1>3, <1>4, <2>1, EvaluateFine
<1>6. PICK e : e = Unread
  OBVIOUS
<1>7. e \in Readings /\ e.text = 0
  BY <1>6 DEF Unread, Found, Readings
<1>8. then \in {"gone", "round", "noted"}
  BY <1>3
<1>9. PICK st : st = IF kept THEN then ELSE "writing"
  OBVIOUS
<1>10. st \in {"gone", "round", "noted", "writing"} /\ (st = "writing" => ~kept)
  BY <1>8, <1>9
<1>11. PICK x : x = [y EXCEPT !.st = st, !.ev = e, !.known = v.known, !.since = v.since]
  OBVIOUS
<1>12. observer' = [observer EXCEPT ![o] = x]
  BY <1>1, <1>3, <1>6, <1>9, <1>11
<1>13. x \in Watches /\ x.st = st /\ x.ev = e /\ x.known = v.known /\ x.since = v.since
  BY <1>2, <1>5, <1>7, <1>10, <1>11 DEF Watches
<1>14. x.known <= answer.text
  BY <1>2, <1>5, <1>13 DEF Measures
<1>15. x.since >= 0 /\ x.known = answer.text => x.since <= answer.stood
  BY <1>2, <1>5, <1>13 DEF Measures
<1>16. Measures(x, answer)
  BY <1>2, <1>7, <1>13, <1>14, <1>15 DEF Measures
<1>17. v.kind = "final" /\ ~y.ev.marked => y.ev.stood + y.ev.took >= Window
  <2>1. Window \in Nat \ {0} /\ y.ev.stood \in Nat /\ y.ev.took \in Nat /\ y.since \in Int
    BY <1>2, Spans DEF Readings, Watches, Ages
  <2> QED BY <1>2, <1>5, <2>1 DEF Measures
<1>18. UNCHANGED <<answer, turn, around, current>>
  BY DEF Judges, theirs
<1>19. CASE kept
  <2>1. pending' \in Seq(Updates) /\ st # "writing"
    BY <1>3, <1>10, <1>19, LoopFine
  <2> QED BY <1>12, <1>13, <1>16, <1>18, <2>1, OneLoop DEF SeeInv, SeeTyped
<1>20. CASE ~kept
  <2>1. PICK text : text = IF v.kind = "final" THEN v.known ELSE 0
    OBVIOUS
  <2>2. text \in Nat /\ v.kind \in Notes
    BY <1>5, <2>1 DEF Notes
  <2>3. PICK u : u = Update(o, v.kind, text, FALSE, then)
    OBVIOUS
  <2>4. u \in Updates /\ u.note = v.kind
    BY <1>8, <2>2, <2>3, UpdateFine
  <2>5. pending' = Append(pending, u)
    BY <1>3, <1>20, <2>1, <2>3
  <2>6. pending' \in Seq(Updates) /\ pending'[Len(pending')].note = v.kind
    BY <2>4, <2>5, LoopFine, AppendFine
  <2> QED BY <1>1, <1>12, <1>13, <1>16, <1>17, <1>18, <2>6, OneLoop DEF SeeInv, SeeTyped
<1> QED BY <1>19, <1>20

-----------------------------------------------------------------------------
(* The queue, and time.                                                    *)

LEMMA WritesStep == SeeInv /\ Queued /\ Writes => SeeStep
<1> SUFFICES ASSUME SeeInv, Queued, Writes PROVE SeeStep
  OBVIOUS
<1>1. PICK u : u = Head(pending)
  OBVIOUS
<1>2. u \in Updates /\ pending' \in Seq(Updates) /\ UNCHANGED <<answer, around>>
  BY <1>1 DEF Writes, SeeInv, SeeTyped, theirs
<1>3. turn' = IF Refused(u) THEN turn ELSE Written(u)
  BY <1>1 DEF Writes
<1>4. IF Refused(u) \/ u.st = "gone" THEN Leaves(u.by) ELSE Enters(u.by, u.st)
  BY <1>1 DEF Writes
<1>5. u.by \in Observers /\ u.st \in {"gone", "round", "noted"} /\ u.note \in Notes /\ u.text \in Nat /\ u.paced \in BOOLEAN
  BY <1>2 DEF Updates
<1>a. observer[u.by].st = "writing"
  BY <1>1 DEF Writes, Queued, SeeInv, SeeTyped
<1>6. PICK x : Measures(x, answer) /\ x.st # "writing" /\ observer' = [observer EXCEPT ![u.by] = x]
  <2>1. CASE Leaves(u.by)
    <3>1. Measures(Resting, answer) /\ Resting.st # "writing"
      BY <1>5, LoopFine, RestingMeasures DEF Resting
    <3> QED BY <2>1, <3>1 DEF Leaves
  <2>2. CASE Enters(u.by, u.st)
    <3>1. PICK y : y = [observer[u.by] EXCEPT !.st = u.st]
      OBVIOUS
    <3>2. Measures(y, answer)
      BY <1>5, <1>a, <3>1, SpotFine
    <3>3. y.st = u.st
      BY <1>5, <3>1, LoopFine DEF Watches
    <3> QED BY <1>5, <2>2, <3>1, <3>2, <3>3 DEF Enters
  <2> QED BY <1>4, <2>1, <2>2
<1>7. current' \in Observers \cup {NoObserver}
  BY <1>4 DEF Leaves, Enters, SeeInv, SeeTyped
<1>8. turn' \in [state : {"observing", "complete", "failed"}, now : BOOLEAN, text : Nat, note : Notes, paced : BOOLEAN]
  <2>1. PICK t : t = turn
    OBVIOUS
  <2>2. t \in [state : {"observing", "complete", "failed"}, now : BOOLEAN, text : Nat, note : Notes, paced : BOOLEAN]
    BY <2>1 DEF SeeInv, SeeTyped
  <2>3. PICK p \in BOOLEAN : p = (u.paced \/ (t.paced /\ u.note # "final"))
    OBVIOUS
  <2>4. PICK st \in {"observing", "complete"} : st = IF u.note = "final" THEN "complete" ELSE "observing"
    OBVIOUS
  <2>5. Written(u) = [t EXCEPT !.state = st, !.text = u.text, !.note = u.note, !.paced = p]
    BY <2>1, <2>2, <2>3, <2>4 DEF Written
  <2>6. [t EXCEPT !.state = st, !.text = u.text, !.note = u.note, !.paced = p]
          \in [state : {"observing", "complete", "failed"}, now : BOOLEAN, text : Nat, note : Notes, paced : BOOLEAN]
    BY <1>5, <2>2, <2>3, <2>4
  <2> QED BY <1>3, <2>1, <2>2, <2>5, <2>6
<1>9. EndKept
  <2>1. CASE Refused(u)
    BY <1>3, <2>1 DEF EndKept
  <2>2. CASE ~Refused(u)
    <3>1. turn' = Written(u) /\ turn.state \in {"observing", "complete", "failed"}
      BY <1>3, <2>2 DEF SeeInv, SeeTyped
    <3>2. turn.state # "observing" => turn.state = "complete" /\ u.note = "final"
      BY <2>2 DEF Refused
    <3>3. Written(u).state = IF u.note = "final" THEN "complete" ELSE "observing"
      BY DEF Written, SeeInv, SeeTyped
    <3> QED BY <3>1, <3>2, <3>3 DEF EndKept
  <2> QED BY <2>1, <2>2
<1>10. SeeTyped'
  BY <1>2, <1>7, <1>8 DEF SeeInv, SeeTyped
<1>11. observer' \in [Observers -> Watches] /\ \A p \in Observers : observer'[p] = IF p = u.by THEN x ELSE observer[p]
  BY <1>5, <1>6 DEF SeeInv, AllMeasure, Measures
<1>12. AllMeasure'
  BY <1>2, <1>6, <1>11, LoopFine DEF AllMeasure, Measures
<1>13. QuietStep
  BY <1>6, <1>11 DEF QuietStep
<1> QED BY <1>9, <1>10, <1>12, <1>13 DEF SeeStep, SeeInv

LEMMA CappedFine ==
  ASSUME NEW m \in Nat, NEW n \in Nat, m <= n
  PROVE  Capped(m + 1) \in Nat /\ Capped(m + 1) <= Capped(n + 1)
  BY Spans DEF Capped

LEMMA SeeTickStep == SeeInv /\ SeeTick => SeeStep
<1> SUFFICES ASSUME SeeInv, SeeTick PROVE SeeStep
  OBVIOUS
<1>1. PICK a : a = answer
  OBVIOUS
<1>2. a \in [text : Nat, phase : {"writing", "lull", "plain", "marked"}, stood : Nat]
  BY <1>1 DEF SeeInv, SeeTyped
<1>3. PICK stood : stood = Capped(a.stood + 1)
  OBVIOUS
<1>4. stood \in Nat
  BY <1>2, <1>3, CappedFine
<1>5. answer' = [a EXCEPT !.stood = stood]
  BY <1>1, <1>2, <1>3 DEF SeeTick
<1>6. answer' \in [text : Nat, phase : {"writing", "lull", "plain", "marked"}, stood : Nat]
         /\ answer'.text = a.text /\ answer'.stood = stood
  BY <1>2, <1>4, <1>5
<1>7. UNCHANGED <<around, pending, current>> /\ turn' = [turn EXCEPT !.paced = FALSE]
  BY DEF SeeTick
<1>8. SeeTyped' /\ UNCHANGED turn.state
  BY <1>6, <1>7 DEF SeeInv, SeeTyped
<1>9. ASSUME NEW o \in Observers
      PROVE  observer'[o] \in Watches /\ Measures(observer'[o], answer') /\ observer'[o].st = observer[o].st
  <2>1. PICK y : y = observer[o]
    OBVIOUS
  <2>2. Measures(y, answer) /\ y \in Watches /\ y.ev \in Readings
    BY <2>1, LoopFine
  <2>3. PICK since : since = IF y.since = -1 THEN -1 ELSE Capped(y.since + 1)
    OBVIOUS
  <2>4. PICK took : took = IF Listens(y) THEN y.ev.took + 1 ELSE 0
    OBVIOUS
  <2>5. y.since \in Ages /\ y.known \in Nat /\ y.ev.text \in Nat /\ y.ev.stood \in Nat /\ y.ev.took \in Nat
    BY <2>2 DEF Watches, Readings
  <2>6. since \in Ages /\ took \in Nat
    BY <2>3, <2>4, <2>5, CappedFine DEF Ages
  <2>7. PICK e : e = [y.ev EXCEPT !.took = took]
    OBVIOUS
  <2>8. e \in Readings /\ e.text = y.ev.text /\ e.stood = y.ev.stood /\ e.took = took
    BY <2>2, <2>6, <2>7 DEF Readings
  <2>9. PICK x : x = [y EXCEPT !.since = since, !.ev = e]
    OBVIOUS
  <2>10. x \in Watches /\ x.st = y.st /\ x.aborted = y.aborted /\ x.ev = e /\ x.known = y.known /\ x.since = since
    BY <2>2, <2>6, <2>8, <2>9 DEF Watches
  <2>11. observer'[o] = x
    <3>1. observer'[o] = [observer[o] EXCEPT
                    !.since = IF observer[o].since = -1 THEN -1 ELSE Capped(observer[o].since + 1),
                    !.ev = [observer[o].ev EXCEPT !.took = IF Waiting(o) THEN observer[o].ev.took + 1 ELSE 0]]
      BY <2>1, <2>2 DEF SeeTick, Watches, Readings
    <3>2. Waiting(o) <=> Listens(y)
      BY <2>1 DEF Waiting, Listens
    <3> QED BY <2>1, <2>3, <2>4, <2>7, <2>9, <3>1, <3>2
  <2>12. x.since >= 0 => y.since >= 0 /\ since = Capped(y.since + 1)
    BY <2>3, <2>5, <2>10 DEF Ages
  <2>13. x.since >= 0 /\ x.known = a.text => x.since <= stood
    BY <1>1, <1>2, <1>3, <2>2, <2>5, <2>10, <2>12, CappedFine DEF Measures, Ages
  <2>14. x.since >= 0 /\ e.text # 0 => Listens(x) /\ (x.known = e.text => x.since <= e.stood + e.took)
    <3>1. SUFFICES ASSUME x.since >= 0, e.text # 0 PROVE Listens(x) /\ (x.known = e.text => x.since <= e.stood + e.took)
      OBVIOUS
    <3>2. Listens(y) /\ (y.known = y.ev.text => y.since <= y.ev.stood + y.ev.took)
      BY <2>2, <2>8, <2>12, <3>1 DEF Measures
    <3>3. Listens(x) /\ took = y.ev.took + 1
      BY <2>4, <2>10, <3>2 DEF Listens
    <3>4. since <= y.since + 1 /\ y.since \in Int
      BY <2>5, <2>12, <3>1, Spans DEF Capped, Ages
    <3>5. ASSUME x.known = e.text PROVE x.since <= e.stood + e.took
      <4>1. y.since <= y.ev.stood + y.ev.took
        BY <2>8, <2>10, <3>2, <3>5
      <4>2. e.stood + e.took = y.ev.stood + (y.ev.took + 1) /\ x.since = since
        BY <2>8, <2>10, <3>3
      <4>3. since \in Int
        BY <2>6 DEF Ages
      <4> QED BY <2>5, <3>4, <4>1, <4>2, <4>3
    <3> QED BY <3>3, <3>5
  <2>15. x.known <= a.text /\ x.ev.text <= a.text
    BY <1>1, <2>2, <2>8, <2>10 DEF Measures
  <2>16. Measures(x, answer')
    BY <1>6, <2>8, <2>10, <2>13, <2>14, <2>15 DEF Measures
  <2> QED BY <2>1, <2>10, <2>11, <2>16
<1>10. observer' \in [Observers -> Watches]
  BY <1>9 DEF SeeTick
<1> QED BY <1>8, <1>9, <1>10, ManyLoops

-----------------------------------------------------------------------------
(* Who waits for the queue.                                                *)

LEMMA ByObservers ==
  ASSUME pending \in Seq(Updates), NEW i \in 1..Len(pending) PROVE pending[i].by \in Observers
<1>1. pending[i] \in Updates
  OBVIOUS
<1> QED BY <1>1 DEF Updates

LEMMA QueuedKept ==
  ASSUME Queued, UNCHANGED pending, \A o \in Observers : observer[o].st = "writing" => observer'[o].st = "writing",
         pending \in Seq(Updates)
  PROVE  Queued'
<1>1. \A i \in 1..Len(pending) : observer'[pending[i].by].st = "writing"
  BY ByObservers DEF Queued
<1> QED BY <1>1 DEF Queued

LEMMA QueuedLonger ==
  ASSUME Queued, pending \in Seq(Updates), NEW o \in Observers, NEW u \in Updates, u.by = o,
         pending' = Append(pending, u), observer[o].st # "writing", observer'[o].st = "writing",
         \A p \in Observers \ {o} : observer'[p] = observer[p]
  PROVE  Queued'
<1>1. Len(pending') = Len(pending) + 1 /\ pending'[Len(pending) + 1] = u /\ Len(pending) \in Nat
       /\ \A i \in 1..Len(pending) : pending'[i] = pending[i]
  OBVIOUS
<1>2. \A i \in 1..Len(pending) : pending[i].by \in Observers \ {o} /\ observer'[pending[i].by].st = "writing"
  BY ByObservers DEF Queued
<1>3. \A i \in 1..Len(pending') : observer'[pending'[i].by].st = "writing"
  BY <1>1, <1>2
<1>4. ASSUME NEW i \in 1..Len(pending'), NEW j \in 1..Len(pending'), pending'[i].by = pending'[j].by PROVE i = j
  BY <1>1, <1>2, <1>4 DEF Queued
<1> QED BY <1>3, <1>4 DEF Queued

LEMMA QueuedShorter ==
  ASSUME Queued, SeeInv, Writes
  PROVE  Queued'
<1>1. PICK u : u = Head(pending)
  OBVIOUS
<1>2. pending \in Seq(Updates) /\ pending # <<>> /\ pending' = Tail(pending) /\ u = pending[1]
  BY <1>1 DEF Writes, SeeInv, SeeTyped
<1>3. Len(pending') = Len(pending) - 1 /\ Len(pending) \in Nat \ {0} /\ \A i \in 1..Len(pending') : pending'[i] = pending[i + 1]
  BY <1>2
<1>4. \A p \in Observers \ {u.by} : observer'[p] = observer[p]
  BY <1>1 DEF Writes, Leaves, Enters, SeeInv, AllMeasure
<1>5. ASSUME NEW i \in 1..Len(pending') PROVE observer'[pending'[i].by].st = "writing"
  <2>1. pending'[i] = pending[i + 1] /\ i + 1 \in 1..Len(pending) /\ i + 1 # 1 /\ 1 \in 1..Len(pending)
    BY <1>3
  <2>2. pending[i + 1].by # u.by /\ pending[i + 1].by \in Observers
    BY <1>2, <2>1, ByObservers DEF Queued
  <2>3. observer[pending[i + 1].by].st = "writing"
    BY <2>1 DEF Queued
  <2> QED BY <1>4, <2>1, <2>2, <2>3
<1>6. ASSUME NEW i \in 1..Len(pending'), NEW j \in 1..Len(pending'), pending'[i].by = pending'[j].by PROVE i = j
  <2>1. pending'[i] = pending[i + 1] /\ i + 1 \in 1..Len(pending) /\ pending'[j] = pending[j + 1] /\ j + 1 \in 1..Len(pending)
    BY <1>3
  <2>2. i + 1 = j + 1
    BY <1>6, <2>1 DEF Queued
  <2> QED BY <2>2
<1> QED BY <1>5, <1>6 DEF Queued

LEMMA QueuedObserves == ASSUME SeeInv, Queued, NEW o \in Observers, Observes(o) PROVE Queued'
<1>1. pending \in Seq(Updates) /\ observer \in [Observers -> Watches]
  BY DEF SeeInv, SeeTyped, AllMeasure
<1>2. CASE UNCHANGED pending /\ observer[o].st # "writing" /\ (\E x : observer' = [observer EXCEPT ![o] = x])
  BY <1>1, <1>2, QueuedKept
<1>3. CASE \E note \in Notes, text \in Nat, paced \in BOOLEAN, st \in {"gone", "round", "noted"}, x \in Watches :
             /\ pending' = Append(pending, Update(o, note, text, paced, st)) /\ observer[o].st # "writing"
             /\ observer' = [observer EXCEPT ![o] = x] /\ x.st = "writing"
  <2>1. PICK note \in Notes, text \in Nat, paced \in BOOLEAN, st \in {"gone", "round", "noted"}, x \in Watches :
             /\ pending' = Append(pending, Update(o, note, text, paced, st)) /\ observer[o].st # "writing"
             /\ observer' = [observer EXCEPT ![o] = x] /\ x.st = "writing"
    BY <1>3
  <2>2. PICK u : u = Update(o, note, text, paced, st)
    OBVIOUS
  <2>3. u \in Updates /\ u.by = o
    BY <2>2, UpdateFine DEF Update
  <2>4. observer'[o].st = "writing" /\ \A p \in Observers \ {o} : observer'[p] = observer[p]
    BY <1>1, <2>1
  <2> QED BY <1>1, <2>1, <2>2, <2>3, <2>4, QueuedLonger
<1>4. CASE Reads(o) \/ LateReading(o)
  BY <1>2, <1>4 DEF Reads, GoesRound, LateReading
<1>5. CASE RoundEnds(o) \/ ReadingEnds(o)
  BY <1>2, <1>5 DEF RoundEnds, ReadingEnds, Leaves
<1>6. CASE Asks(o) \/ Rests(o)
  BY <1>2, <1>6 DEF Asks, Rests, Enters
<1>7. CASE RecordsUnavailable(o)
  <2>1. observer[o].st # "writing"
    BY <1>7 DEF RecordsUnavailable, GoesRound
  <2>2. PICK x : x = [observer[o] EXCEPT !.open = FALSE, !.ev = Unread, !.st = IF Same("unavailable") THEN "round" ELSE "writing"]
    OBVIOUS
  <2>3. observer' = [observer EXCEPT ![o] = x]
    BY <1>7, <2>2 DEF RecordsUnavailable
  <2>4. CASE Same("unavailable")
    BY <1>2, <1>7, <2>1, <2>3, <2>4 DEF RecordsUnavailable
  <2>5. CASE ~Same("unavailable")
    <3>1. pending' = Append(pending, Update(o, "unavailable", 0, FALSE, "round")) /\ "unavailable" \in Notes
      BY <1>7, <2>5 DEF RecordsUnavailable, Notes
    <3>2. Unread \in Readings
      BY DEF Unread, Found, Readings
    <3>3. x \in Watches /\ x.st = "writing"
      BY <1>1, <2>2, <2>5, <3>2 DEF Watches
    <3> QED BY <1>3, <2>1, <2>3, <3>1, <3>3
  <2> QED BY <2>4, <2>5
<1>8. CASE Judges(o)
  <2>1. observer[o].st # "writing" /\ observer[o].ev \in Readings /\ observer[o].known \in Nat /\ observer[o].since \in Ages
    BY <1>1, <1>8 DEF Judges, Watches
  <2>2. PICK activity \in Activities :
          LET v == Evaluate(observer[o].ev, activity, observer[o].known, observer[o].since)
              then == CASE v.kind = "final" -> "gone" [] v.kind = "blocked" -> "round" [] OTHER -> "noted"
              kept == KeepsDeferral(o, v) \/ (v.kind # "final" /\ Same(v.kind))
          IN /\ observer' = [observer EXCEPT ![o] = [@ EXCEPT !.st = IF kept THEN then ELSE "writing", !.ev = Unread,
                                                              !.known = v.known, !.since = v.since]]
             /\ pending' = IF kept THEN pending
                           ELSE Append(pending, Update(o, v.kind, IF v.kind = "final" THEN v.known ELSE 0, FALSE, then))
    BY <1>8 DEF Judges
  <2>3. PICK v : v = Evaluate(observer[o].ev, activity, observer[o].known, observer[o].since)
    OBVIOUS
  <2>4. PICK then : then = CASE v.kind = "final" -> "gone" [] v.kind = "blocked" -> "round" [] OTHER -> "noted"
    OBVIOUS
  <2>5. then \in {"gone", "round", "noted"}
    BY <2>4
  <2>6. activity \in {"none", "weak", "unknown"}
    BY DEF Activities
  <2>7. v.kind \in {"final", "progress", "blocked", "unavailable", "unverified", "pending"} /\ v.known \in Nat /\ v.since \in Ages
    BY <2>1, <2>3, <2>6, EvaluateFine
  <2>8. CASE KeepsDeferral(o, v) \/ (v.kind # "final" /\ Same(v.kind))
    <3>1. pending' = pending
      BY <2>2, <2>3, <2>8
    <3>2. \E x : observer' = [observer EXCEPT ![o] = x]
      BY <2>2
    <3> QED BY <1>2, <2>1, <3>1, <3>2
  <2>9. CASE ~(KeepsDeferral(o, v) \/ (v.kind # "final" /\ Same(v.kind)))
    <3>1. PICK text : text = IF v.kind = "final" THEN v.known ELSE 0
      OBVIOUS
    <3>2. text \in Nat /\ v.kind \in Notes
      BY <2>7, <3>1 DEF Notes
    <3>3. pending' = Append(pending, Update(o, v.kind, text, FALSE, then))
      BY <2>2, <2>3, <2>4, <2>9, <3>1
    <3>4. PICK x : x = [observer[o] EXCEPT !.st = "writing", !.ev = Unread, !.known = v.known, !.since = v.since]
      OBVIOUS
    <3>5. observer' = [observer EXCEPT ![o] = x]
      BY <2>2, <2>3, <2>9, <3>4
    <3>6. Unread \in Readings
      BY DEF Unread, Found, Readings
    <3>7. x \in Watches /\ x.st = "writing"
      BY <1>1, <2>7, <3>4, <3>6 DEF Watches
    <3> QED BY <1>3, <2>1, <2>5, <3>2, <3>3, <3>5, <3>7
  <2> QED BY <2>8, <2>9
<1>9. CASE TimesOut(o)
  <2>1. observer[o].st # "writing" /\ observer[o] \in Watches /\ observer[o].ev \in Readings
    BY <1>1, <1>9 DEF TimesOut, Watches
  <2>2. PICK e : e = [observer[o].ev EXCEPT !.took = 0]
    OBVIOUS
  <2>3. e \in Readings
    BY <2>1, <2>2 DEF Readings
  <2>4. PICK st : st = IF Same("unavailable") THEN "noted" ELSE "writing"
    OBVIOUS
  <2>5. PICK x : x = [observer[o] EXCEPT !.st = st, !.ev = e, !.known = 0, !.since = -1]
    OBVIOUS
  <2>6. observer' = [observer EXCEPT ![o] = x]
    <3>1. observer' = [observer EXCEPT ![o] = [@ EXCEPT !.st = st, !.ev = [observer[o].ev EXCEPT !.took = 0],
                                                        !.known = 0, !.since = -1]]
      BY <1>9, <2>4 DEF TimesOut
    <3> QED BY <2>2, <2>5, <3>1
  <2>7. CASE Same("unavailable")
    BY <1>2, <1>9, <2>1, <2>6, <2>7 DEF TimesOut
  <2>8. CASE ~Same("unavailable")
    <3>1. pending' = Append(pending, Update(o, "unavailable", 0, FALSE, "noted")) /\ "unavailable" \in Notes
      BY <1>9, <2>8 DEF TimesOut, Notes
    <3>2. x \in Watches /\ x.st = "writing"
      BY <2>1, <2>3, <2>4, <2>5, <2>8 DEF Watches, Ages
    <3> QED BY <1>3, <2>1, <2>6, <3>1, <3>2
  <2> QED BY <2>7, <2>8
<1>10. CASE Answers(o)
  <2>1. observer[o].st # "writing"
    BY <1>10 DEF Answers
  <2>2. CASE observer[o].aborted
    BY <1>2, <1>10, <2>1, <2>2 DEF Answers, Leaves
  <2>3. CASE ~observer[o].aborted
    <3>1. PICK x : x = [observer[o] EXCEPT !.st = "writing"]
      OBVIOUS
    <3>2. x \in Watches /\ x.st = "writing" /\ observer' = [observer EXCEPT ![o] = x]
      BY <1>1, <1>10, <2>3, <3>1 DEF Answers, Enters, Watches
    <3>3. answer.text \in Nat /\ {"final", "unavailable", "deferred"} \subseteq Notes
      BY LoopFine DEF Notes
    <3>4. PICK note \in {"final", "unavailable", "deferred"}, text \in Nat, paced \in BOOLEAN, st \in {"gone", "round"} :
            pending' = Append(pending, Update(o, note, text, paced, st))
      BY <1>10, <2>3, <3>3 DEF Answers
    <3> QED BY <1>3, <2>1, <3>2, <3>3, <3>4
  <2> QED BY <2>2, <2>3
<1> QED BY <1>4, <1>5, <1>6, <1>7, <1>8, <1>9, <1>10 DEF Observes

LEMMA QueuedStep == SeeInv /\ Queued /\ [SeeNext]_seeVars => Queued'
<1> SUFFICES ASSUME SeeInv, Queued, [SeeNext]_seeVars PROVE Queued'
  OBVIOUS
<1>1. pending \in Seq(Updates) /\ observer \in [Observers -> Watches]
  BY DEF SeeInv, SeeTyped, AllMeasure
<1>2. CASE UNCHANGED seeVars
  BY <1>1, <1>2, QueuedKept DEF seeVars
<1>3. CASE AnswerGrows \/ AnswerRests \/ PageChanges \/ PageRecovers \/ OtherOperation \/ OperationEnds
  BY <1>1, <1>3, QueuedKept
     DEF AnswerGrows, AnswerRests, PageChanges, PageRecovers, OtherOperation, OperationEnds, theirs
<1>4. ASSUME NEW o \in Observers, StartsObserving(o) \/ StartsByForce(o) PROVE Queued'
  <2>1. observer[o].st = "gone" /\ UNCHANGED pending
    BY <1>4 DEF StartsObserving, StartsByForce, Goes
  <2>2. \A p \in Observers : observer[p].st = "writing" => observer'[p].st = "writing"
    <3>1. CASE StartsObserving(o)
      BY <1>1, <2>1, <3>1 DEF StartsObserving
    <3>2. CASE StartsByForce(o)
      <4>1. current \in Observers
        BY <3>2 DEF StartsByForce, SeeInv, SeeTyped
      <4>2. Aborted(current).st = observer[current].st
        BY <4>1, AbortedFine
      <4> QED BY <1>1, <2>1, <3>2, <4>1, <4>2 DEF StartsByForce
    <3> QED BY <1>4, <3>1, <3>2
  <2> QED BY <1>1, <2>1, <2>2, QueuedKept
<1>5. CASE Stops
  <2>1. current \in Observers /\ UNCHANGED pending
    BY <1>5 DEF Stops, SeeInv, SeeTyped
  <2>2. Aborted(current).st = observer[current].st
    BY <2>1, AbortedFine
  <2>3. \A p \in Observers : observer[p].st = "writing" => observer'[p].st = "writing"
    BY <1>1, <1>5, <2>1, <2>2 DEF Stops
  <2> QED BY <1>1, <2>1, <2>3, QueuedKept
<1>6. CASE SeeCrash
  BY <1>6 DEF SeeCrash, Queued
<1>7. CASE SeeTick
  <2>1. \A p \in Observers : observer'[p].st = observer[p].st
    BY <1>1, <1>7 DEF SeeTick, Watches
  <2> QED BY <1>1, <1>7, <2>1, QueuedKept DEF SeeTick
<1>8. CASE Writes
  BY <1>8, QueuedShorter
<1> QED BY <1>2, <1>3, <1>4, <1>5, <1>6, <1>7, <1>8, QueuedObserves DEF SeeNext

LEMMA EachSeeStep == SeeInv /\ Queued /\ [SeeNext]_seeVars => SeeStep
<1> SUFFICES ASSUME SeeInv, Queued, [SeeNext]_seeVars PROVE SeeStep
  OBVIOUS
<1>1. CASE UNCHANGED seeVars
  BY <1>1, OthersStep DEF seeVars, SeeInv, SeeTyped, EndKept
<1>2. ASSUME NEW o \in Observers, Observes(o) PROVE SeeStep
  BY <1>2, ReadsStep, RoundEndsStep, RecordsUnavailableStep, JudgesStep, TimesOutStep, LateReadingStep,
     AsksStep, AnswersStep DEF Observes
<1>3. CASE SeeNext
  BY <1>2, <1>3, ProviderStep, PageStep, OperationEndsStep, StartsObservingStep, StartsByForceStep, StopsStep,
     SeeCrashStep, WritesStep, SeeTickStep DEF SeeNext
<1> QED BY <1>1, <1>3

LEMMA SeeInvariant == SeeSpec => [](SeeInv /\ Queued)
<1>1. SeeInit => SeeInv /\ Queued
  BY SeeStarts DEF SeeInit, Queued
<1>2. SeeInv /\ Queued /\ [SeeNext]_seeVars => SeeInv' /\ Queued'
  BY EachSeeStep, QueuedStep DEF SeeStep
<1> QED BY <1>1, <1>2, PTL DEF SeeSpec

(* No quiet window of any loop is older than the text that it measures has *)
(* stood on the page, nor, while a reading of it is under way, than it had *)
(* stood when it was read and the reading has taken (SeeInv); so a final   *)
(* without the page's marker is one of a text that had stood for the       *)
(* window less the time its last reading took, for any window and limit.   *)
THEOREM WindowsAreWhole == SeeSpec => []SeeInv /\ QuietFinalStood
<1>1. SeeInv /\ Queued /\ [SeeNext]_seeVars => [QuietStep]_seeVars
  BY EachSeeStep DEF SeeStep
<1>2. SeeSpec => []SeeInv
  BY SeeInvariant, PTL
<1>3. SeeSpec => [][QuietStep]_seeVars
  BY <1>1, SeeInvariant, PTL DEF SeeSpec
<1> QED BY <1>2, <1>3 DEF QuietFinalStood, QuietStep

(* A turn that has ended keeps its end, whoever still has an update of it  *)
(* in the actor's queue.                                                   *)
THEOREM EndsStand == SeeSpec => EndedStaysEnded
<1>1. SeeInv /\ Queued /\ [SeeNext]_seeVars => [EndKept]_seeVars
  BY EachSeeStep DEF SeeStep
<1>2. SeeSpec => [][EndKept]_seeVars
  BY <1>1, SeeInvariant, PTL DEF SeeSpec
<1> QED BY <1>2 DEF EndedStaysEnded, EndKept
=============================================================================
