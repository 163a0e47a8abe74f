------------------------- MODULE ConversationCleanup -------------------------
(***************************************************************************)
(* src/core/conversation-cleanup-service.ts: deleting a conversation at    *)
(* the provider, replacing a role's session, deleting a team.  A deletion  *)
(* runs inside its session's actor; its attempt is recorded before the     *)
(* provider is asked, and a request that is repeated after a crash or a    *)
(* lost answer goes on from its receipts.                                  *)
(***************************************************************************)
EXTENDS Naturals, FiniteSets

CONSTANTS
  Roles,         \* the first session of each role of one team, with its conversation
  Deletes, Replacements, TeamDeletions,  \* requests, by their identity
  Target,        \* the session a deletion or a replacement is about
  MaxCleanMoves, \* bound: crashes and new work
  Absent

VARIABLES
  receipt,    \* durable: request_receipts
  hidden,     \* the provider: conversations that are deleted
  patched,    \* the provider: deletions it was asked for, by conversation
  refused,    \* the provider: deletions it has answered with a refusal
  work,       \* durable: sessions with unresolved work
  routing,    \* durable: whether the role's session is the first one, a successor, or none
  team,       \* durable: the state of the team
  successors, \* history: sessions a replacement has created
  tab,        \* sessions with an open page
  call,       \* the calls the core is running, by request
  cleanMoves  \* bound: moves made so far

cleanVars == <<receipt, hidden, patched, refused, work, routing, team, successors, tab, call, cleanMoves>>
provider == <<hidden, patched, refused>>
roleVars == <<routing, team, successors>>

CleanRequests == Deletes \cup Replacements \cup TeamDeletions
\* Identities of receipts; a replacement and a team deletion derive those of their deletions.
Derived(r, s) == <<r, s>>
DeletionIds(s) == {d \in Deletes : Target[d] = s} \cup {Derived(r, s) : r \in Replacements \cup TeamDeletions}
Ids == CleanRequests \cup {Derived(r, s) : r \in Replacements \cup TeamDeletions, s \in Roles}
Receipts == [status : {"attempted", "complete"}, deleted : BOOLEAN,
             error : {"none", "unknown", "rejected", "preserved", "confirmed", "refused", "uncertain", "not-attempted"}]

\* An identity names one request, and the derived ones have prefixes of their own.
ASSUME Identities ==
  /\ Deletes \cap Replacements = {} /\ TeamDeletions \cap (Deletes \cup Replacements) = {}
  /\ \A r \in Replacements \cup TeamDeletions, s \in Roles : Derived(r, s) \notin CleanRequests
ASSUME Targets == \A r \in Deletes \cup Replacements : Target[r] \in Roles
ASSUME AbsentIsNothing == Absent \notin Receipts \cup Ids

NoCall == [pc |-> "idle", of |-> Absent, id |-> Absent, prior |-> Absent, todo |-> {}]

CleanInit ==
  /\ receipt = [i \in Ids |-> Absent]
  /\ hidden = {} /\ patched = [s \in Roles |-> 0] /\ refused = [s \in Roles |-> 0]
  /\ work \in SUBSET Roles
  /\ routing = [s \in Roles |-> "first"] /\ team = "active"
  /\ successors = [r \in Replacements |-> 0]
  /\ tab = Roles
  /\ call = [r \in CleanRequests |-> NoCall] /\ cleanMoves = 0

\* Mutant: the actor is entered when the deletion has been prepared.
InActorLater(c) == c.pc \in {"patching", "landed", "refused", "unknown"}

\* Mutant: a replacement stays in the actor between deletion and successor.
InActorThroughout(c) == c.pc \in {"opening", "patching", "landed", "refused", "unknown", "replacing"}

\* A call that is inside a session's actor, and inside the mutex of a role or team.
InActor(c) == c.pc \in {"opening", "patching", "landed", "refused", "unknown"}
ActorFree(s) == \A r \in CleanRequests : ~(InActor(call[r]) /\ call[r].of = s)
RoleFree(s) == \A r \in Replacements : Target[r] = s => call[r].pc = "idle"

Goes(r, pc) == call' = [call EXCEPT ![r].pc = pc]
Returns(r) == call' = [call EXCEPT ![r] = NoCall]

Status(i) == IF receipt[i] = Absent THEN "none" ELSE receipt[i].status
Gone(i) == receipt[i].deleted

\* findConversationDeletion: the newest deletion that was attempted or confirmed.
Attempts(s) == {i \in DeletionIds(s) : receipt[i] # Absent /\ (receipt[i].status = "attempted" \/ receipt[i].deleted)}

Recorded(i, status, deleted, error) ==
  receipt' = [receipt EXCEPT ![i] = [status |-> status, deleted |-> deleted, error |-> error]]

\* #closeSessionPages: pages that are not idle stay, and are reported.
ClosesPages(s) == tab' \in {tab, tab \ {s}}

-----------------------------------------------------------------------------
(* delete(), for session.delete itself or inside a replacement or a team   *)
(* deletion, whose pc then goes on.                                        *)

After(r) == IF r \in Deletes THEN "idle" ELSE IF r \in Replacements THEN "replacing" ELSE "swept"
DeletionReturns(r) ==
  call' = [call EXCEPT ![r] = IF r \in Deletes THEN NoCall ELSE [@ EXCEPT !.pc = After(r)]]

CallsDelete(r) ==
  /\ r \in Deletes /\ call[r].pc = "idle" /\ team # "deleted"
  /\ call' = [call EXCEPT ![r] = [NoCall EXCEPT !.pc = "deleting", !.of = Target[r], !.id = r]]
  /\ UNCHANGED <<receipt, provider, work, roleVars, tab, cleanMoves>>

\* In the actor's queue: what was recorded before answers; else the pages and
\* the open work are looked at, and the deletion is prepared.
DeletionBegins(r) ==
  /\ call[r].pc = "deleting" /\ ActorFree(call[r].of)
  /\ LET s == call[r].of  i == call[r].id IN
     \E p \in IF receipt[i] # Absent THEN {i} ELSE IF Attempts(s) = {} THEN {Absent} ELSE Attempts(s) :
       CASE p # Absent /\ Status(p) = "complete" ->
              /\ IF Gone(p) \/ r \in Deletes THEN ClosesPages(s) ELSE UNCHANGED tab
              /\ DeletionReturns(r)
         [] /\ p = Absent \/ Status(p) = "attempted"
            /\ team = "deleted" \/ (r \in Deletes /\ s \in work) ->
              DeletionReturns(r) /\ UNCHANGED tab
         [] OTHER ->
              /\ call' = [call EXCEPT ![r].pc = "opening", ![r].prior = p]
              /\ UNCHANGED tab
  /\ UNCHANGED <<receipt, provider, work, roleVars, cleanMoves>>

\* A page is in use, or openDeletion fails: nothing has been attempted.
OpeningFails(r) ==
  /\ call[r].pc = "opening"
  /\ IF r \in Deletes THEN ClosesPages(call[r].of) ELSE UNCHANGED tab
  /\ DeletionReturns(r)
  /\ UNCHANGED <<receipt, provider, work, roleVars, cleanMoves>>

\* The transaction that ends a deletion: routing, event and receipt.
Confirms(r) ==
  LET s == call[r].of  i == IF call[r].prior = Absent THEN call[r].id ELSE call[r].prior IN
  /\ Recorded(i, "complete", TRUE, "none")
  /\ routing' = IF r \in Deletes /\ routing[s] = "first" THEN [routing EXCEPT ![s] = "none"] ELSE routing
  /\ ClosesPages(s)

\* Mutant: an attempt of another request is not looked at.
OpenedAlone(r) ==
  /\ call[r].pc = "opening"
  /\ IF call[r].of \in hidden
       THEN Confirms(r) /\ DeletionReturns(r)
       ELSE /\ Recorded(call[r].id, "attempted", FALSE, "unknown")
            /\ Goes(r, "patching") /\ UNCHANGED <<tab, routing>>
  /\ UNCHANGED <<provider, work, team, successors, cleanMoves>>

\* openDeletion says whether the conversation is gone already.
Opened(r) ==
  /\ call[r].pc = "opening"
  /\ CASE call[r].of \in hidden -> Confirms(r) /\ DeletionReturns(r)
       [] call[r].of \notin hidden /\ call[r].prior # Absent ->
            /\ IF r \in Deletes THEN ClosesPages(call[r].of) ELSE UNCHANGED tab
            /\ DeletionReturns(r) /\ UNCHANGED <<receipt, routing>>
       [] OTHER ->
            /\ Recorded(call[r].id, "attempted", FALSE, "unknown")
            /\ Goes(r, "patching") /\ UNCHANGED <<tab, routing>>
  /\ UNCHANGED <<provider, work, team, successors, cleanMoves>>

\* deleteOnce: done, refused, or nobody knows; an unknown answer hides the conversation or not.
DeletesOnce(r) ==
  /\ call[r].pc = "patching"
  /\ LET s == call[r].of IN
     /\ patched' = [patched EXCEPT ![s] = @ + 1]
     /\ \/ hidden' = hidden \cup {s} /\ Goes(r, "landed") /\ UNCHANGED refused
        \/ refused' = [refused EXCEPT ![s] = @ + 1] /\ Goes(r, "refused") /\ UNCHANGED hidden
        \/ hidden' \in {hidden, hidden \cup {s}} /\ Goes(r, "unknown") /\ UNCHANGED refused
  /\ UNCHANGED <<receipt, work, roleVars, tab, cleanMoves>>

DeletionEnds(r) ==
  /\ call[r].pc \in {"landed", "refused", "unknown"}
  /\ CASE call[r].pc = "landed" -> Confirms(r)
       [] call[r].pc = "refused" ->
            /\ Recorded(call[r].id, "complete", FALSE, "rejected") /\ UNCHANGED routing
            /\ IF r \in Deletes THEN ClosesPages(call[r].of) ELSE UNCHANGED tab
       [] call[r].pc = "unknown" ->
            /\ UNCHANGED <<receipt, routing>>
            /\ IF r \in Deletes THEN ClosesPages(call[r].of) ELSE UNCHANGED tab
  /\ DeletionReturns(r)
  /\ UNCHANGED <<provider, work, team, successors, cleanMoves>>

-----------------------------------------------------------------------------
(* replace().                                                              *)

\* What a replacement reports of its deletion, read from the receipts.
Outcome(r) ==
  LET s == Target[r]  i == Derived(r, s)
      seen == IF receipt[i] # Absent THEN {i} ELSE Attempts(s)
  IN IF seen = {} THEN {"not-attempted"}
     ELSE {CASE receipt[d].status = "complete" /\ receipt[d].deleted -> "confirmed"
             [] receipt[d].status = "complete" /\ receipt[d].error = "rejected" -> "refused"
             [] OTHER -> "uncertain" : d \in seen}

\* Under the role's mutex.  A replacement that is complete but does not know
\* the outcome of its own deletion asks for confirmation, and only for that.
CallsReplace(r) ==
  /\ r \in Replacements /\ call[r].pc = "idle" /\ RoleFree(Target[r])
  /\ LET s == Target[r]
         asked == [NoCall EXCEPT !.pc = "deleting", !.of = s, !.id = Derived(r, s)]
     IN IF Status(r) = "complete"
          THEN /\ receipt[r].error = "uncertain" /\ Status(Derived(r, s)) = "attempted"
               /\ call' = [call EXCEPT ![r] = asked]
          ELSE /\ team = "active" /\ routing[s] = "first"
               /\ call' = [call EXCEPT ![r] = asked]
  /\ UNCHANGED <<receipt, provider, work, roleVars, tab, cleanMoves>>

\* preserveConversation: in the actor, only the routing changes.
CallsPreserve(r) ==
  /\ r \in Replacements /\ call[r].pc = "idle" /\ RoleFree(Target[r]) /\ Status(r) = "none"
  /\ team = "active" /\ routing[Target[r]] = "first"
  /\ ActorFree(Target[r]) /\ Attempts(Target[r]) = {}
  /\ routing' = [routing EXCEPT ![Target[r]] = "successor"]
  /\ successors' = [successors EXCEPT ![r] = @ + 1]
  /\ Recorded(r, "complete", FALSE, "preserved")
  /\ UNCHANGED <<provider, work, team, tab, call, cleanMoves>>

\* The outcome of a deletion that was asked for again.
Reconfirms(r) ==
  /\ call[r].pc = "replacing" /\ Status(r) = "complete"
  /\ Recorded(r, "complete", Gone(Derived(r, Target[r])),
              IF Gone(Derived(r, Target[r])) THEN "confirmed" ELSE receipt[r].error)
  /\ ClosesPages(Target[r]) /\ Returns(r)
  /\ UNCHANGED <<provider, work, roleVars, cleanMoves>>

\* Mutant: the successor is created before its receipt is looked up.
CreatesAgain(r) ==
  /\ call[r].pc = "replacing" /\ ActorFree(Target[r]) /\ team = "active"
  /\ successors' = [successors EXCEPT ![r] = @ + 1]
  /\ routing' = [routing EXCEPT ![Target[r]] = "successor"]
  /\ \E o \in Outcome(r) : Recorded(r, "complete", o = "confirmed", o)
  /\ ClosesPages(Target[r]) /\ Returns(r)
  /\ UNCHANGED <<provider, work, team, cleanMoves>>

\* The successor and the receipt are one transaction in the actor's queue.
Creates(r) ==
  /\ call[r].pc = "replacing" /\ Status(r) = "none" /\ ActorFree(Target[r])
  /\ IF team = "active"
       THEN /\ successors' = [successors EXCEPT ![r] = @ + 1]
            /\ routing' = [routing EXCEPT ![Target[r]] = "successor"]
            /\ \E o \in Outcome(r) : Recorded(r, "complete", o = "confirmed", o)
            /\ IF Target[r] \in work /\ receipt'[r].error # "confirmed" THEN UNCHANGED tab ELSE ClosesPages(Target[r])
       ELSE UNCHANGED <<successors, routing, receipt, tab>>
  /\ Returns(r)
  /\ UNCHANGED <<provider, work, team, cleanMoves>>

-----------------------------------------------------------------------------
(* deleteTeam().                                                           *)

\* Roles retire before any provider work is awaited.
CallsDeleteTeam(r) ==
  /\ r \in TeamDeletions /\ call[r].pc = "idle"
  /\ \A q \in TeamDeletions : call[q].pc = "idle"
  /\ Status(r) # "complete" /\ team # "deleted"
  /\ team' = "archived" /\ Recorded(r, "attempted", FALSE, "unknown")
  /\ call' = [call EXCEPT ![r] = [NoCall EXCEPT !.pc = "next", !.todo = Roles]]
  /\ UNCHANGED <<provider, work, routing, successors, tab, cleanMoves>>

\* The session is retired in its actor's queue, then deleted.
RetiresSession(r) ==
  /\ call[r].pc = "next"
  /\ \E s \in call[r].todo :
       /\ ActorFree(s)
       /\ routing' = IF routing[s] = "first" THEN [routing EXCEPT ![s] = "none"] ELSE routing
       /\ call' = [call EXCEPT ![r] = [NoCall EXCEPT !.pc = "deleting", !.of = s, !.id = Derived(r, s),
                                                     !.todo = call[r].todo \ {s}]]
  /\ UNCHANGED <<receipt, provider, work, team, successors, tab, cleanMoves>>

\* Whatever the provider said, the pages are closed and the bindings removed.
SessionSwept(r) ==
  /\ call[r].pc = "swept" /\ ClosesPages(call[r].of) /\ Goes(r, "next")
  /\ UNCHANGED <<receipt, provider, work, roleVars, cleanMoves>>

TeamDeleted(r) ==
  /\ call[r].pc = "next" /\ call[r].todo = {}
  /\ team' = "deleted" /\ Recorded(r, "complete", TRUE, "none") /\ Returns(r)
  /\ UNCHANGED <<provider, work, routing, successors, tab, cleanMoves>>

-----------------------------------------------------------------------------

CleanMove == cleanMoves < MaxCleanMoves /\ cleanMoves' = cleanMoves + 1

\* The session's next message; its outcome.
WorkBegins(s) ==
  /\ CleanMove /\ s \notin work /\ ActorFree(s) /\ team = "active" /\ routing[s] = "first"
  /\ work' = work \cup {s}
  /\ UNCHANGED <<receipt, provider, roleVars, tab, call>>

WorkSettles(s) ==
  /\ s \in work /\ ActorFree(s) /\ work' = work \ {s}
  /\ UNCHANGED <<receipt, provider, roleVars, tab, call, cleanMoves>>

CoreCrashes ==
  /\ CleanMove /\ \E r \in CleanRequests : call[r].pc # "idle"
  /\ call' = [r \in CleanRequests |-> NoCall]
  /\ UNCHANGED <<receipt, provider, work, roleVars, tab>>

Proceeds(r) ==
  \/ DeletionBegins(r) \/ OpeningFails(r) \/ Opened(r) \/ DeletesOnce(r) \/ DeletionEnds(r)
  \/ Reconfirms(r) \/ Creates(r) \/ RetiresSession(r) \/ SessionSwept(r) \/ TeamDeleted(r)

CleanNext ==
  \/ \E r \in CleanRequests :
       CallsDelete(r) \/ CallsReplace(r) \/ CallsPreserve(r) \/ CallsDeleteTeam(r) \/ Proceeds(r)
  \/ \E s \in Roles : WorkBegins(s) \/ WorkSettles(s)
  \/ CoreCrashes

\* Queues and mutexes serve in order: whoever waits gets in.
CleanSpec ==
  /\ CleanInit /\ [][CleanNext]_cleanVars
  /\ \A r \in CleanRequests : SF_cleanVars(Proceeds(r))

-----------------------------------------------------------------------------
(* Properties.                                                             *)

\* The provider is asked again only when it has refused: a deletion whose
\* outcome is unknown is never sent a second time, by whatever request.
UnknownDeletionIsNotRepeated == \A s \in Roles : patched[s] <= refused[s] + 1

\* A replacement creates one successor, however often it is repeated and
\* wherever the core stopped.
OneSuccessor == \A r \in Replacements : successors[r] <= 1

\* session.delete asks the provider only for conversations without open work,
\* although a message may have been sent while the deletion was queued.
SettledBeforeDeleted ==
  [][\A r \in Deletes : call[r].pc = "patching" /\ call'[r].pc \in {"landed", "refused", "unknown"}
       => call[r].of \notin work]_cleanVars

\* Deletions, replacements and a team deletion that nest queues and mutexes
\* never wait for one another for ever.
EveryCleanupReturns == \A r \in CleanRequests : call[r].pc # "idle" ~> call[r].pc = "idle"
=============================================================================
