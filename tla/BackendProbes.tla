---------------------------- MODULE BackendProbes ----------------------------
(***************************************************************************)
(* src/scheduler/probe-coordinator.ts and its callers, the observer loops  *)
(* of src/core/observation-service.ts.  A quiet observer asks to read the  *)
(* provider's backend; the coordinator serialises the reads of a scope,    *)
(* lets callers take turns and keeps the account's durable rate limits.    *)
(*                                                                         *)
(* Deadlines are kept as ticks still to go, 0 when past or never set, so   *)
(* that time needs no bound.                                               *)
(***************************************************************************)
EXTENDS Integers, Sequences

CONSTANTS
  Sessions, Loops,
  Scopes,           \* the budget rows
  Account,          \* the scope chatgpt:default, which bounds the conversations'
  Conversations,    \* the scopes chatgpt:conversation-detail:*
  Starts,           \* the scopes sessions may start with, None for one that submitted nothing
  Lasting,          \* a scope's name after the conversation's WEB: id is replaced
  Success, Min429, Max429,
  Delays,           \* Retry-After, backend queue and operator delays
  MaxLevel,         \* bound: doublings told apart
  MaxDefers,        \* bound: cooldowns imposed from outside
  None

ASSUME ScopeNames == Account \in Scopes \ Conversations /\ Conversations \subseteq Scopes
ASSUME Homes == Starts \subseteq [Sessions -> Scopes \cup {None}] /\ Lasting \in [Scopes -> Scopes]
ASSUME Intervals == /\ Success \in Nat \ {0} /\ Min429 \in Nat \ {0} /\ Max429 \in Nat /\ Min429 <= Max429
                    /\ Delays \subseteq Nat \ {0} /\ MaxLevel \in Nat /\ MaxDefers \in Nat
ASSUME NoneIsNoLoop == None \notin Loops

VARIABLES
  budget,    \* durable: [next, blocked, level, failures] of a scope
  conv,      \* durable: the scope of a session's conversation
  check,     \* durable: ticks to the session's nextCheckAt
  waiting,   \* #waiting: a scope's callers in the order they came
  mutex,      \* callers queued at the scope's mutex, the first holds it
  loop,      \* the observer loops started so far
  runtime,   \* #runtimes: the loop that observes a session
  attached,  \* sessions somebody waits for
  defers,
  told       \* history: ticks the provider or the operator said to stay away

durable == <<budget, conv, check>>
queues == <<waiting, mutex>>
probeVars == <<durable, queues, loop, runtime, attached, defers, told>>

Larger(a, b) == IF a >= b THEN a ELSE b
Smaller(a, b) == IF a <= b THEN a ELSE b
Elapse(n) == Larger(0, n - 1)
Members(q) == {q[i] : i \in DOMAIN q}
Without(q, l) == SelectSeq(q, LAMBDA m : m # l)

Unused == [st |-> "unused", session |-> None, home |-> None, scope |-> None, aborted |-> FALSE]

ProbeInit ==
  /\ budget = [c \in Scopes |-> [next |-> 0, blocked |-> 0, level |-> 0, failures |-> 0]]
  /\ conv \in Starts /\ check = [s \in Sessions |-> 0]
  /\ waiting = [c \in Scopes |-> <<>>] /\ mutex = [c \in Scopes |-> <<>>]
  /\ loop = [l \in Loops |-> Unused] /\ runtime = [s \in Sessions |-> None]
  /\ attached = {} /\ defers = 0
  /\ told = [c \in Scopes |-> 0]

Alive(l) == loop[l].st \notin {"unused", "gone"}
Observing(s) == runtime[s] # None
AbortIn(f, l) == IF l = None THEN f ELSE [f EXCEPT ![l].aborted = TRUE]

\* withdraw
Withdraw(c, l) == waiting' = [waiting EXCEPT ![c] = Without(@, l)]

-----------------------------------------------------------------------------
(* ObservationService                                                      *)

\* start: for a new generation, whose row has no next check, or by force.
Start(s, l) ==
  /\ loop[l] = Unused /\ conv[s] # None
  /\ loop' = AbortIn([loop EXCEPT ![l] = [@ EXCEPT !.st = "loop", !.session = s, !.home = conv[s]]], runtime[s])
  /\ runtime' = [runtime EXCEPT ![s] = l]
  /\ check' \in {check, [check EXCEPT ![s] = 0]}
  /\ UNCHANGED <<budget, conv, queues, attached, defers, told>>

Stop(s) ==
  /\ Observing(s)
  /\ loop' = AbortIn(loop, runtime[s])
  /\ runtime' = [runtime EXCEPT ![s] = None]
  /\ UNCHANGED <<durable, queues, attached, defers, told>>

\* A fresh page shows the conversation under its lasting id.
Redirect(l) ==
  /\ loop[l].st = "loop" /\ ~loop[l].aborted
  /\ LET s == loop[l].session IN Lasting[conv[s]] # conv[s] /\ conv' = [conv EXCEPT ![s] = Lasting[@]]
  /\ UNCHANGED <<budget, check, queues, loop, runtime, attached, defers, told>>

\* Detached observers leave the backend to sessions somebody waits for.
Yields(s) == s \notin attached /\ \E t \in Sessions \ {s} : Observing(t) /\ t \in attached

\* The page makes progress, asks for something or cannot be read, or the
\* observer yields: it gives up its turn.
GiveUpTurn(l) ==
  /\ loop[l].st = "loop"
  /\ Withdraw(loop[l].home, l)
  /\ UNCHANGED <<durable, mutex, loop, runtime, attached, defers, told>>

\* A quiet page and no paced recovery: #recover, which queues at the mutex.
Ask(l) ==
  /\ loop[l].st = "loop"
  /\ LET s == loop[l].session
         c == conv[s]
     IN /\ check[s] = 0 /\ ~Yields(s)
        /\ loop' = [loop EXCEPT ![l].st = "asked", ![l].scope = c]
        /\ mutex' = [mutex EXCEPT ![c] = Append(@, l)]
  /\ UNCHANGED <<durable, waiting, runtime, attached, defers, told>>

\* Mutant: the loop ends without giving up its turn.
EndKeepsTurn(l) ==
  /\ loop[l].st \in {"loop", "ending"}
  /\ loop' = [loop EXCEPT ![l].st = "gone"]
  /\ runtime' = [s \in Sessions |-> IF runtime[s] = l THEN None ELSE runtime[s]]
  /\ UNCHANGED <<durable, queues, attached, defers, told>>

\* The loop ends: the turn is complete, terminal, replaced, stopped or an
\* update was refused.  It withdraws from the scope it started with.
End(l) ==
  /\ loop[l].st \in {"loop", "ending"}
  /\ loop' = [loop EXCEPT ![l].st = "gone"]
  /\ runtime' = [s \in Sessions |-> IF runtime[s] = l THEN None ELSE runtime[s]]
  /\ Withdraw(loop[l].home, l)
  /\ UNCHANGED <<durable, mutex, attached, defers, told>>

-----------------------------------------------------------------------------
(* ProbeCoordinator                                                        *)

\* jitter, rounded to ticks
Jitter(n) == {m \in 1..n + 1 : m >= n - 1}
Doubled(n, k) == Smaller(Max429, n * 2 ^ k)

\* Mutant: the newest outcome decides.
SaveLast(b, c, next, blocked, level, failures) ==
  [b EXCEPT ![c] = [next |-> next, blocked |-> blocked,
                    level |-> Smaller(level, MaxLevel), failures |-> Smaller(failures, MaxLevel)]]

\* #save: a deadline is never moved forward.
Save(b, c, next, blocked, level, failures) ==
  [b EXCEPT ![c] = [next |-> Larger(next, @.next), blocked |-> Larger(blocked, @.blocked),
                    level |-> Smaller(level, MaxLevel), failures |-> Smaller(failures, MaxLevel)]]

\* defer: a cooldown seen by load recovery or imposed by the operator, of a
\* scope that bounds some session.
Defer(c, d) ==
  /\ defers < MaxDefers
  /\ \E s \in Sessions : c = conv[s] \/ (c = Account /\ conv[s] \in Conversations)
  /\ defers' = defers + 1
  /\ budget' = Save(budget, c, d, d, budget[c].level, budget[c].failures)
  /\ told' = [told EXCEPT ![c] = Larger(@, d)]
  /\ UNCHANGED <<conv, check, queues, loop, runtime, attached>>

\* Ticks until a probe of the scope may go.
Earliest(c) == LET own == Larger(budget[c].next, budget[c].blocked)
               IN IF c \in Conversations THEN Larger(own, budget[Account].blocked) ELSE own

\* The result reaches the loop: unless it was aborted, its next check is recorded.
Returns(l, next) ==
  /\ loop' = [loop EXCEPT ![l].st = IF loop[l].aborted THEN "ending" ELSE "loop", ![l].scope = None]
  /\ check' = IF loop[l].aborted THEN check ELSE [check EXCEPT ![loop[l].session] = next]

Queue(c, l) == IF l \in Members(waiting[c]) THEN waiting[c] ELSE Append(waiting[c], l)

\* #run: too early, or another caller's turn.
Deferred(c, l) ==
  /\ mutex[c] # <<>> /\ l = Head(mutex[c]) /\ loop[l].st = "asked"
  /\ waiting' = [waiting EXCEPT ![c] = Queue(c, l)]
  /\ Earliest(c) > 0 \/ Head(Queue(c, l)) # l
  /\ Returns(l, IF Earliest(c) > 0 THEN Earliest(c) ELSE Success)
  /\ mutex' = [mutex EXCEPT ![c] = Tail(@)]
  /\ UNCHANGED <<budget, conv, runtime, attached, defers, told>>

\* #run and #execute: the probe goes out.
Launch(c, l) ==
  /\ mutex[c] # <<>> /\ l = Head(mutex[c]) /\ loop[l].st = "asked"
  /\ waiting' = [waiting EXCEPT ![c] = Queue(c, l)]
  /\ Earliest(c) = 0 /\ Head(Queue(c, l)) = l
  /\ loop' = [loop EXCEPT ![l].st = "flying"]
  /\ UNCHANGED <<durable, mutex, runtime, attached, defers, told>>

\* Whatever the outcome, the caller leaves the queue and the mutex.
Finish(c, l, next) ==
  /\ Returns(l, next)
  /\ Withdraw(c, l) /\ mutex' = [mutex EXCEPT ![c] = Tail(@)]
  /\ UNCHANGED <<conv, runtime, attached, defers>>

\* HTTP 429 with Retry-After, which jitter must not shorten.
Limited(c, l, d) ==
  LET wait == Larger(d, Success)
  IN /\ budget' = Save(budget, c, wait, wait, budget[c].level + 1, budget[c].failures + 1)
     /\ told' = [told EXCEPT ![c] = Larger(@, d)]
     /\ Finish(c, l, wait)

\* HTTP 429 without one.
BackedOff(c, l) ==
  \E wait \in Jitter(Doubled(Min429, budget[c].level)) :
    /\ budget' = Save(budget, c, wait, wait, budget[c].level + 1, budget[c].failures + 1)
    /\ Finish(c, l, wait) /\ UNCHANGED told

\* The probe failed.
Unavailable(c, l) ==
  \E wait \in Jitter(Doubled(Success, Smaller(budget[c].failures, 5))) :
    /\ budget' = Save(budget, c, wait, 0, 0, budget[c].failures + 1)
    /\ Finish(c, l, wait) /\ UNCHANGED told

\* The backend's own queue put it off.
PutOff(c, l, d) ==
  /\ budget' = Save(budget, c, d, 0, 0, 0)
  /\ Finish(c, l, d) /\ UNCHANGED told

\* It answered: pending, unverified or complete.
Answered(c, l) ==
  /\ budget' = Save(budget, c, Success, 0, 0, 0)
  /\ Finish(c, l, Success) /\ UNCHANGED told

Settle(l) ==
  LET c == loop[l].scope
  IN /\ loop[l].st = "flying"
     /\ \/ \E d \in Delays : Limited(c, l, d) \/ PutOff(c, l, d)
        \/ BackedOff(c, l) \/ Unavailable(c, l) \/ Answered(c, l)

-----------------------------------------------------------------------------
Tick ==
  /\ budget' = [c \in Scopes |-> [budget[c] EXCEPT !.next = Elapse(@), !.blocked = Elapse(@)]]
  /\ check' = [s \in Sessions |-> Elapse(check[s])]
  /\ told' = [c \in Scopes |-> Elapse(told[c])]
  /\ UNCHANGED <<conv, queues, loop, runtime, attached, defers>>

\* A waiter attaches to the actor of a session that submitted something; it
\* makes no difference to a session that is alone.
Attention(s) ==
  /\ conv[s] # None /\ \E t \in Sessions \ {s} : conv[t] # None
  /\ attached' = IF s \in attached THEN attached \ {s} ELSE attached \cup {s}
  /\ UNCHANGED <<durable, queues, loop, runtime, defers, told>>

\* The core stops and starts: only the rows are left.
Restart ==
  /\ \E l \in Loops : Alive(l)
  /\ waiting' = [c \in Scopes |-> <<>>] /\ mutex' = [c \in Scopes |-> <<>>]
  /\ loop' = [l \in Loops |-> IF loop[l] = Unused THEN Unused ELSE [Unused EXCEPT !.st = "gone"]]
  /\ runtime' = [s \in Sessions |-> None] /\ attached' = {}
  /\ UNCHANGED <<durable, defers, told>>

OfLoop(l) == \/ Redirect(l) \/ GiveUpTurn(l) \/ Ask(l) \/ End(l) \/ Settle(l)
             \/ \E c \in Scopes : Deferred(c, l) \/ Launch(c, l)

ProbeNext == \/ \E s \in Sessions : (\E l \in Loops : Start(s, l)) \/ Stop(s) \/ Attention(s)
             \/ \E l \in Loops : OfLoop(l)
             \/ \E c \in Scopes, d \in Delays : Defer(c, d)
             \/ Tick \/ Restart

ProbeSpec == ProbeInit /\ [][ProbeNext]_probeVars

\* What a loop does without waiting for its page: a promise settles, an aborted
\* loop ends, and one that nothing paces asks or gives up its turn.
GoesOn(l) == \/ Settle(l) \/ Ask(l)
             \/ \E c \in Scopes : Deferred(c, l) \/ Launch(c, l)
             \/ loop[l].aborted /\ End(l)
             \/ loop[l].st = "loop" /\ check[loop[l].session] = 0 /\ GiveUpTurn(l)

\* Time passes and every loop goes on.
ProbeFairness == WF_probeVars(Tick) /\ \A l \in Loops : WF_probeVars(GoesOn(l))

FairProbeSpec == ProbeSpec /\ ProbeFairness

-----------------------------------------------------------------------------
(* Properties.                                                             *)

Launched(l) == loop[l].st # "flying" /\ loop'[l].st = "flying"

(* No probe goes out while the provider's Retry-After, or a cooldown       *)
(* imposed on its scope or on the account, still runs: not after a later   *)
(* success of another probe, not after a restart, not from the queue.      *)
ProbesStayAway ==
  [][\A l \in Loops : Launched(l) =>
       LET c == loop'[l].scope IN told[c] = 0 /\ (c \in Conversations => told[Account] = 0)]_probeVars

(* "stopped observers release their turn": a loop that is over waits in no *)
(* scope, where it would stand before every later observer.                *)
StoppedObserversReleaseTheirTurn ==
  \A l \in Loops, c \in Scopes : loop[l].st = "gone" => l \notin Members(waiting[c])

\* Scopes somebody waits in that never change their name.
Steady == {c \in Scopes \ {Account} : \A d \in Scopes : Lasting[d] = c <=> d = c}

(* A caller that waits for its turn gets it or gives it up, where the      *)
(* scope keeps its name.                                                   *)
EveryTurnComes ==
  \A l \in Loops, c \in Steady : l \in Members(waiting[c]) ~> l \notin Members(waiting[c])
=============================================================================
