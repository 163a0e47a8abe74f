---------------------------- MODULE SessionWait ----------------------------
(***************************************************************************)
(* Waiting for sessions: src/scheduler/session-actor.ts and                *)
(* actor-scheduler.ts (one actor per session, made on demand and retired   *)
(* when it has nothing to do), src/rpc/methods/wait.ts (session.wait and   *)
(* team.wait) and the changes they wait for.                               *)
(*                                                                         *)
(* Clients follow a session by the number of the last event they were told *)
(* about.  Those numbers reach them from three places: an actor's own      *)
(* commits, the latest event of the whole team when the directory changed  *)
(* a session behind its actor, and the latest event of the session when an *)
(* actor is made again.                                                    *)
(***************************************************************************)
EXTENDS Naturals, FiniteSets

CONSTANTS
  Identities,        \* session identities
  Roles,           \* the roles of the team
  Primary,         \* its primary role
  Clients,         \* clients that wait
  NoActor,         \* the session has no actor in memory
  MaxEvents,       \* bound: rows of the event table
  MaxQueue         \* bound: operations queued at one actor

ASSUME PrimaryIsARole == Primary \in Roles
ASSUME EnoughSessions == Cardinality(Roles) <= Cardinality(Identities)
ASSUME WaitBounds == MaxEvents \in Nat /\ MaxQueue \in Nat

VARIABLES
  rowOf,       \* sessions table: [generation, state] of each session
  lastEvent, \* number of the newest event that names the session
  sequence,  \* number of the newest event of the team
  current,   \* current[r]: the current session of a role
  retired,   \* roles that are retired
  actor,     \* the attached actor: its snapshot and revision
  queue,     \* queue[s]: operations behind the running one, running, ended
  call,      \* call[w]: the wait client w has open
  on,        \* on[w]: the actors w's call has a waiter or a collector at
  wake,      \* wake[w]: how the race of a team.wait was decided
  seen       \* seen[w]: the last snapshot a session.wait gave w, with its number

durable == <<rowOf, lastEvent, sequence, current, retired>>
waitVars == <<durable, actor, queue, call, on, wake, seen>>

\* What a session's row says of its current generation, and an actor's snapshot of it.
GenerationStates == {"open", "submitted", "failed", "complete", "retired"}
Views == [generation : Nat, state : GenerationStates]
Snapshots == [generation : Nat, state : GenerationStates, revision : Nat]
ASSUME NoActorIsNone == NoActor \notin Snapshots

TerminalGeneration == {"failed", "complete", "retired"}

NoOperations == [waiting |-> 0, running |-> FALSE, ended |-> 0]
Conditions == {"any_change", "primary_terminal", "all_selected_terminal"}
NoCall == [kind |-> "none", until |-> "any_change", cursor |-> 0]

Terminal(v) == v.state \in TerminalGeneration
InUse == {current[r] : r \in Roles}
Depth(q) == q.waiting + (IF q.running THEN 1 ELSE 0) + q.ended

\* actorFor: the actor at hand, or one made from the rows.
ActorFor(s) ==
  IF actor[s] # NoActor THEN actor[s]
  ELSE [generation |-> rowOf[s].generation, state |-> rowOf[s].state, revision |-> lastEvent[s]]

\* #retireIfIdleTerminal and #retireActor: forget an actor nobody needs.
Kept(s, a, q, o) ==
  IF a # NoActor /\ Terminal(a) /\ Depth(q) = 0 /\ (\A w \in Clients : s \notin o[w])
  THEN NoActor ELSE a

WaitInit ==
  /\ rowOf = [s \in Identities |-> [generation |-> 0, state |-> "open"]]
  /\ lastEvent = [s \in Identities |-> 0]
  /\ sequence = 0
  /\ current \in {c \in [Roles -> Identities] : \A r, q \in Roles : c[r] = c[q] => r = q}
  /\ retired = {}
  /\ actor = [s \in Identities |-> NoActor]
  /\ queue = [s \in Identities |-> NoOperations]
  /\ call = [w \in Clients |-> NoCall]
  /\ on = [w \in Clients |-> {}]
  /\ wake = [w \in Clients |-> "none"]
  /\ seen = [w \in Clients |-> NoActor]

-----------------------------------------------------------------------------
(* Waiters.  Finish(o, s, a, ...) are the clients whose waiter at s a step *)
(* resolves; a session.wait ends there, a team.wait when its race is read. *)

\* Mutant: a terminal snapshot wakes only the waiters that asked for terminals.
WokenTerminalFirst(s, v, n) ==
  {w \in Clients : /\ s \in on[w] /\ call[w].kind # "collect"
                   /\ IF Terminal(v) THEN call[w].kind = "session" ELSE n > call[w].cursor}

\* publish: who is woken by snapshot v at revision n.
Woken(s, v, n) ==
  {w \in Clients : /\ s \in on[w] /\ call[w].kind # "collect"
                   /\ \/ call[w].kind = "session" /\ Terminal(v)
                      \/ n > call[w].cursor}

\* The waiters W at s resolve with a's snapshot; expired says how.
Resolve(W, s, a, how) ==
  /\ on' = [w \in Clients |-> IF w \in W THEN on[w] \ {s} ELSE on[w]]
  /\ LET Ends == {w \in W : call[w].kind = "session"}
     IN /\ call' = [w \in Clients |-> IF w \in Ends THEN NoCall ELSE call[w]]
        /\ seen' = [w \in Clients |-> IF w \in Ends THEN [session |-> s, view |-> a] ELSE seen[w]]
        /\ wake' = [w \in Clients |-> IF w \in W \ Ends /\ wake[w] = "none" THEN how ELSE wake[w]]

\* publish at s of the committed row v with event number n; q is the queue of s.
Publish(s, v, n, q) ==
  LET a == [generation |-> v.generation, state |-> v.state,
            revision |-> IF n > ActorFor(s).revision THEN n ELSE ActorFor(s).revision]
  IN /\ Resolve(Woken(s, v, n), s, a, "changed")
     /\ actor' = [actor EXCEPT ![s] = Kept(s, a, q, on')]

-----------------------------------------------------------------------------
(* Operations of the actor's queue.                                        *)

\* enqueue: the depth grows at once, the operation runs when its turn comes.
Enqueue(s) ==
  /\ s \in InUse /\ Depth(queue[s]) < MaxQueue
  /\ actor' = [actor EXCEPT ![s] = ActorFor(s)]
  /\ queue' = [queue EXCEPT ![s].waiting = @ + 1]
  /\ UNCHANGED <<durable, call, on, wake, seen>>

Dequeue(s) ==
  /\ queue[s].waiting > 0 /\ ~queue[s].running
  /\ queue' = [queue EXCEPT ![s].waiting = @ - 1, ![s].running = TRUE]
  /\ UNCHANGED <<durable, actor, call, on, wake, seen>>

\* A transaction of the running operation: rows, event and publish in one
\* synchronous block.
Commit(s, v) ==
  /\ queue[s].running /\ sequence < MaxEvents
  /\ rowOf' = [rowOf EXCEPT ![s] = v]
  /\ sequence' = sequence + 1
  /\ lastEvent' = [lastEvent EXCEPT ![s] = sequence + 1]
  /\ Publish(s, v, sequence + 1, queue[s])
  /\ UNCHANGED <<current, retired, queue>>

\* startGeneration, and #prepareOutbox of a submission.
StartGeneration(s) ==
  /\ rowOf[s].state # "retired" /\ rowOf[s].generation < MaxEvents
  /\ Commit(s, [generation |-> rowOf[s].generation + 1, state |-> "open"])

\* updateGeneration: a terminal generation keeps its state.
UpdateGeneration(s) ==
  /\ rowOf[s].generation > 0
  /\ \E state \in CASE rowOf[s].state = "open" -> {"open", "submitted", "failed", "retired"}
                    [] rowOf[s].state = "submitted" -> {"submitted", "complete", "retired"}
                    [] OTHER -> {rowOf[s].state} :
       Commit(s, [rowOf[s] EXCEPT !.state = state])

\* The operation resolves or rejects; its finally block runs in a later microtask.
End(s) ==
  /\ queue[s].running
  /\ queue' = [queue EXCEPT ![s].running = FALSE, ![s].ended = @ + 1]
  /\ UNCHANGED <<durable, actor, call, on, wake, seen>>

Settle(s) ==
  /\ queue[s].ended > 0
  /\ queue' = [queue EXCEPT ![s].ended = @ - 1]
  /\ actor' = [actor EXCEPT ![s] = Kept(s, actor[s], queue'[s], on)]
  /\ UNCHANGED <<durable, call, on, wake, seen>>

-----------------------------------------------------------------------------
(* The directory, which does not go through the queue.                     *)

\* refreshSession: an attached actor learns the row and the team's latest event.
RefreshSession(s, v) ==
  IF actor[s] = NoActor THEN UNCHANGED <<actor, call, on, wake, seen>>
  ELSE Publish(s, v, sequence', queue[s])

\* retireUnsubmittedSession
Unsubmitted(s) == [rowOf[s] EXCEPT !.state = IF @ \in {"open", "failed"} THEN "retired" ELSE @]

RetireRole(r) ==
  LET s == current[r]
  IN /\ r # Primary /\ r \notin retired /\ sequence < MaxEvents
     /\ rowOf' = [rowOf EXCEPT ![s] = Unsubmitted(s)]
     /\ retired' = retired \cup {r}
     /\ sequence' = sequence + 1
     /\ lastEvent' = [lastEvent EXCEPT ![s] = sequence + 1]
     /\ RefreshSession(s, Unsubmitted(s))
     /\ UNCHANGED <<current, queue>>

\* createSession for a role that has one: the event names the successor.
CreateSession(r, t) ==
  LET s == current[r]
  IN /\ r \notin retired /\ sequence < MaxEvents
     /\ t \notin InUse /\ rowOf[t] = [generation |-> 0, state |-> "open"] /\ lastEvent[t] = 0
     /\ rowOf' = [rowOf EXCEPT ![s] = Unsubmitted(s)]
     /\ current' = [current EXCEPT ![r] = t]
     /\ sequence' = sequence + 1
     /\ lastEvent' = [lastEvent EXCEPT ![t] = sequence + 1]
     /\ RefreshSession(s, Unsubmitted(s))
     /\ UNCHANGED <<retired, queue>>

\* An event no actor publishes: a role, a brief, or a session's dispatch record.
Note(S) ==
  /\ sequence < MaxEvents
  /\ sequence' = sequence + 1
  /\ lastEvent' = [s \in Identities |-> IF s \in S THEN sequence + 1 ELSE lastEvent[s]]
  /\ UNCHANGED <<rowOf, current, retired, actor, queue, call, on, wake, seen>>

-----------------------------------------------------------------------------
(* session.wait.                                                           *)

\* The call up to its await; cursor is the number the client gives, if any.
SessionWait(w, s, cursor) ==
  LET a == ActorFor(s)
  IN /\ call[w].kind = "none"
     /\ IF Terminal(a) \/ a.revision > cursor
        THEN /\ seen' = [seen EXCEPT ![w] = [session |-> s, view |-> a]]
             /\ actor' = [actor EXCEPT ![s] = Kept(s, a, queue[s], on)]
             /\ UNCHANGED <<call, on, wake>>
        ELSE /\ call' = [call EXCEPT ![w] = [kind |-> "session", until |-> "any_change", cursor |-> cursor]]
             /\ on' = [on EXCEPT ![w] = {s}]
             /\ actor' = [actor EXCEPT ![s] = a]
             /\ UNCHANGED <<wake, seen>>
     /\ UNCHANGED <<durable, queue>>

\* Without afterEventSequence the actor's revision counts; otherwise the number
\* is one an earlier answer of this session carried.
CallSessionWait(w, s) ==
  \/ SessionWait(w, s, ActorFor(s).revision)
  \/ seen[w] # NoActor /\ seen[w].session = s /\ SessionWait(w, s, seen[w].view.revision)

\* The caller's generation is not the current one: the wait throws.
StaleSessionWait(w, s) ==
  /\ call[w].kind = "none"
  /\ actor' = [actor EXCEPT ![s] = ActorFor(s)]
  /\ UNCHANGED <<durable, queue, call, on, wake, seen>>

\* A timer runs out or a signal is aborted.
Expire(w, s) ==
  /\ s \in on[w] /\ call[w].kind # "collect"
  /\ Resolve({w}, s, actor[s], "expired")
  /\ actor' = [actor EXCEPT ![s] = Kept(s, actor[s], queue[s], on')]
  /\ UNCHANGED <<durable, queue>>

\* retainCollector, and its release.
RetainCollector(w, s) ==
  /\ call[w].kind = "none"
  /\ call' = [call EXCEPT ![w].kind = "collect"]
  /\ on' = [on EXCEPT ![w] = {s}]
  /\ actor' = [actor EXCEPT ![s] = ActorFor(s)]
  /\ UNCHANGED <<durable, queue, wake, seen>>

ReleaseCollector(w, s) ==
  /\ call[w].kind = "collect" /\ s \in on[w]
  /\ call' = [call EXCEPT ![w] = NoCall]
  /\ on' = [on EXCEPT ![w] = {}]
  /\ actor' = [actor EXCEPT ![s] = Kept(s, actor[s], queue[s], on')]
  /\ UNCHANGED <<durable, queue, wake, seen>>

-----------------------------------------------------------------------------
(* team.wait.                                                              *)

\* evaluateTeamCondition over the current sessions of all roles.
ConditionMet(until) ==
  IF until = "primary_terminal" THEN Terminal(rowOf[current[Primary]])
  ELSE \A s \in InUse : Terminal(rowOf[s])

Answer(w) ==
  /\ call' = [call EXCEPT ![w] = NoCall]
  /\ wake' = [wake EXCEPT ![w] = "none"]

\* Ask every current session's actor, without waking because it is terminal.
Race(w, until, cursor) ==
  /\ call' = [call EXCEPT ![w] = [kind |-> "team", until |-> until, cursor |-> cursor]]
  /\ on' = [on EXCEPT ![w] = {s \in InUse : ActorFor(s).revision <= cursor}]
  /\ wake' = [wake EXCEPT ![w] = IF \E s \in InUse : ActorFor(s).revision > cursor THEN "changed" ELSE "none"]
  /\ actor' = [s \in Identities |->
                 IF s \in InUse \/ s \in on[w]
                 THEN Kept(s, IF s \in InUse THEN ActorFor(s) ELSE actor[s], queue[s], on')
                 ELSE actor[s]]

\* Leave the waiters of the finished race.
Leave(w) ==
  /\ on' = [on EXCEPT ![w] = {}]
  /\ actor' = [s \in Identities |-> IF s \in on[w] THEN Kept(s, actor[s], queue[s], on') ELSE actor[s]]

\* One turn of the loop; the deadline may have passed.
Turn(w, until, cursor) ==
  \/ /\ ConditionMet(until) \/ (until = "any_change" /\ sequence > cursor)
     /\ Answer(w) /\ Leave(w)
  \/ /\ ~ConditionMet(until) /\ ~(until = "any_change" /\ sequence > cursor)
     /\ \/ Answer(w) /\ Leave(w)
        \/ Race(w, until, cursor)

TeamWait(w, until, cursor) ==
  /\ call[w].kind = "none"
  /\ Turn(w, until, cursor)
  /\ UNCHANGED <<durable, queue, seen>>

CallTeamWait(w, until) ==
  \/ TeamWait(w, until, sequence)
  \/ seen[w] # NoActor /\ TeamWait(w, until, seen[w].view.revision)

\* The race is decided: leave the other waiters, read the team again.
TeamWake(w) ==
  LET cursor == call[w].cursor
      until == call[w].until
  IN /\ call[w].kind = "team" /\ wake[w] # "none"
     /\ \/ /\ until = "any_change" /\ (wake[w] = "changed" \/ sequence > cursor)
           /\ Answer(w) /\ Leave(w)
        \/ /\ wake[w] = "expired" /\ sequence <= cursor
           /\ Answer(w) /\ Leave(w)
        \/ /\ until # "any_change" /\ (wake[w] = "changed" \/ sequence > cursor)
           /\ Turn(w, until, sequence)
     /\ UNCHANGED <<durable, queue, seen>>

-----------------------------------------------------------------------------

\* Mutant: restored actors start their numbers afresh.
RestartFromZero ==
  /\ actor' = [s \in Identities |->
                 IF s \in InUse /\ ~Terminal(rowOf[s])
                 THEN [generation |-> rowOf[s].generation, state |-> rowOf[s].state, revision |-> 0]
                 ELSE NoActor]
  /\ queue' = [s \in Identities |-> NoOperations]
  /\ call' = [w \in Clients |-> NoCall]
  /\ on' = [w \in Clients |-> {}]
  /\ wake' = [w \in Clients |-> "none"]
  /\ UNCHANGED <<durable, seen>>

\* The core stops and starts: calls are gone, restore makes the actors of the
\* sessions whose generation is not terminal; clients keep what they know.
Restart ==
  /\ actor' = [s \in Identities |->
                 IF s \in InUse /\ ~Terminal(rowOf[s])
                 THEN [generation |-> rowOf[s].generation, state |-> rowOf[s].state, revision |-> lastEvent[s]]
                 ELSE NoActor]
  /\ queue' = [s \in Identities |-> NoOperations]
  /\ call' = [w \in Clients |-> NoCall]
  /\ on' = [w \in Clients |-> {}]
  /\ wake' = [w \in Clients |-> "none"]
  /\ UNCHANGED <<durable, seen>>

OfActor(s) == \/ Enqueue(s) \/ Dequeue(s) \/ End(s) \/ Settle(s)
              \/ StartGeneration(s) \/ UpdateGeneration(s) \/ Note({s})

OfDirectory == \/ \E r \in Roles : RetireRole(r)
               \/ \E r \in Roles, t \in Identities : CreateSession(r, t)
               \/ Note({})

OfClient(w) == \/ \E s \in Identities : s \in InUse /\ (CallSessionWait(w, s) \/ StaleSessionWait(w, s))
               \/ \E s \in Identities : s \in InUse /\ RetainCollector(w, s)
               \/ \E s \in Identities : Expire(w, s) \/ ReleaseCollector(w, s)
               \/ \E until \in Conditions : CallTeamWait(w, until)
               \/ TeamWake(w)

WaitNext == \/ \E s \in Identities : OfActor(s)
            \/ OfDirectory
            \/ \E w \in Clients : OfClient(w)
            \/ Restart

WaitSpec == WaitInit /\ [][WaitNext]_waitVars

-----------------------------------------------------------------------------
(* Properties.                                                             *)

(* No lost wake-up: while a team.wait sleeps its condition is false, it    *)
(* listens at the actor of every current session, which was not retired    *)
(* under it, and no published event is newer than its cursor.              *)
SleepingTeamWaitIsRight ==
  \A w \in Clients : call[w].kind = "team" /\ wake[w] = "none" =>
    /\ ~ConditionMet(call[w].until)
    /\ on[w] = InUse
    /\ \A s \in InUse : actor[s] # NoActor /\ actor[s].revision <= call[w].cursor

Follows(w, s) == /\ seen[w] # NoActor /\ seen[w].session = s
                 /\ seen[w].view.revision = call[w].cursor

(* A client that waits behind the number of the last answer it got misses  *)
(* nothing: while it sleeps, the session is as that answer showed it, even *)
(* if the actor was retired, refreshed from the whole team's events or     *)
(* made again after a restart in between.                                  *)
FollowerMissesNothing ==
  \A w \in Clients, s \in Identities :
    call[w].kind = "session" /\ s \in on[w] /\ Follows(w, s)
      => /\ rowOf[s].generation = seen[w].view.generation
         /\ rowOf[s].state = seen[w].view.state

=============================================================================
