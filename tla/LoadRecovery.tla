---------------------------- MODULE LoadRecovery ----------------------------
(***************************************************************************)
(* src/core/conversation-load-recovery.ts: one queue for the whole profile *)
(* presses the Retry button of conversations that failed to load.  A sweep *)
(* looks at every owned page, gives one conversation the turn, and inside  *)
(* its session's actor and under its page lock presses at most once.  The  *)
(* attempt is stored before the button is pressed.                         *)
(***************************************************************************)
EXTENDS Naturals, Sequences, SequencesExt

CONSTANTS
  Sessions,     \* each has one conversation and one page
  MaxAttempts,  \* LOAD_RECOVERY_MAX_ATTEMPTS, 100 in the code
  MaxGen,       \* bound: generations of a session
  MaxLoadMoves, \* bound: what people, pages, services and crashes do
  Account,      \* the scope of an account-wide service hold
  NoRecord

VARIABLES
  record,   \* durable: conversation_load_recovery, by session
  checked,  \* durable: conversations by lastCheckedAt, those never touched left out
  cooling,  \* durable: the interval of the UI scope has not passed
  limited,  \* durable: scopes with a service hold
  request,  \* durable: the current generation, and whether it is on its way to the page
  screen,   \* the page: what conversationLoadSurface would report, and whether it is owned
  sweep,    \* the running sweep
  late,     \* evaluations whose caller has given up waiting
  clicks,   \* the page: how often its button was pressed
  loadMoves \* bound: moves made so far

loadVars == <<record, checked, cooling, limited, request, screen, sweep, late, clicks, loadMoves>>
outside == <<limited, request, screen, loadMoves>>

Records == [state : {"waiting", "held", "attempting", "recovered", "exhausted"}, review : BOOLEAN,
            attempts : Nat, outcome : {"none", "uncertain", "clicked", "not-clicked"}]

ASSUME NoRecordIsNone == NoRecord \notin Records

Surfaces == {"normal", "retry", "held", "other"}
LoadError(k) == k \in {"retry", "held"}
Resting == [pc |-> "idle", todo |-> {}, targets |-> [s \in Sessions |-> 0], of |-> NoRecord, gen |-> 0,
            local |-> NoRecord, tried |-> FALSE]

LoadInit ==
  /\ record = [s \in Sessions |-> NoRecord] /\ checked = <<>>
  /\ cooling = FALSE /\ limited = {}
  /\ request = [s \in Sessions |-> [gen |-> 1, settled |-> TRUE]]
  /\ screen = [s \in Sessions |-> [surface |-> "normal", owned |-> TRUE]]
  /\ sweep = Resting /\ late = {}
  /\ clicks = [s \in Sessions |-> 0] /\ loadMoves = 0

\* isUserHeld
UserHeld(s) == record[s] # NoRecord /\ record[s].state = "held" /\ record[s].review

Touched(s) == Append(SelectSeq(checked, LAMBDA r : r # s), s)

\* #record: the caller's copy of the record is stored whole.
Record(s, local, state) ==
  /\ record' = [record EXCEPT ![s] = [local EXCEPT !.state = state, !.review = FALSE]]
  /\ checked' = IF state = "recovered" /\ (record[s] = NoRecord \/ record[s].state # "recovered")
                  THEN Touched(s) ELSE checked

Waits(pc) == sweep' = [sweep EXCEPT !.pc = pc]

-----------------------------------------------------------------------------
(* Looking at the pages.                                                   *)

SweepStarts ==
  /\ sweep.pc = "idle"
  /\ sweep' = [Resting EXCEPT !.pc = "look", !.todo = Sessions]
  /\ UNCHANGED <<record, checked, cooling, late, clicks, outside>>

\* A page is looked at while nobody holds it and its message is not on its way.
LookAt(s) ==
  /\ sweep.pc = "look" /\ s \in sweep.todo
  /\ sweep' = IF screen[s].owned /\ ~UserHeld(s) /\ request[s].settled
                THEN [sweep EXCEPT !.pc = "looking", !.todo = @ \ {s}, !.of = s, !.gen = request[s].gen]
                ELSE [sweep EXCEPT !.todo = @ \ {s}]
  /\ UNCHANGED <<record, checked, cooling, late, clicks, outside>>

\* The answer of the page; the hold is looked up again after the await.
Looked ==
  /\ sweep.pc = "looking" /\ screen[sweep.of].owned
  /\ LET s == sweep.of  k == screen[s].surface
         old == IF record[s] = NoRecord
                  THEN [state |-> "waiting", review |-> FALSE, attempts |-> 0, outcome |-> "none"] ELSE record[s]
     IN /\ sweep' = [sweep EXCEPT !.pc = "look", !.targets[s] = IF UserHeld(s) THEN 0 ELSE sweep.gen]
        /\ CASE UserHeld(s) \/ (record[s] = NoRecord /\ ~LoadError(k)) -> UNCHANGED <<record, checked>>
             [] k = "normal" -> Record(s, old, "recovered")
             [] old.state = "exhausted" -> UNCHANGED <<record, checked>>
             [] OTHER -> Record(s, old, IF k = "retry" THEN "waiting" ELSE "held")
  /\ UNCHANGED <<cooling, late, clicks, outside>>

\* The page is gone, or does not answer within the lease.
LookFails ==
  /\ sweep.pc = "looking"
  /\ IF screen[sweep.of].owned THEN loadMoves < MaxLoadMoves /\ loadMoves' = loadMoves + 1 ELSE UNCHANGED loadMoves
  /\ Waits("look")
  /\ UNCHANGED <<record, checked, cooling, limited, request, screen, late, clicks>>

-----------------------------------------------------------------------------
(* The turn.                                                               *)

InTurn == {s \in Sessions : /\ record[s] # NoRecord /\ sweep.targets[s] # 0
                            /\ record[s].state \in {"waiting", "held", "attempting"}}

\* Records never touched come first, then the one checked longest ago.
NextInTurn(s) ==
  /\ s \in InTurn
  /\ IF \E r \in InTurn : ~Contains(checked, r) THEN ~Contains(checked, s)
     ELSE s = SelectSeq(checked, LAMBDA r : r \in InTurn)[1]

\* Mutant: who has had a turn is not remembered.
ChooseTheFirst ==
  /\ sweep.pc = "look" /\ sweep.todo = {}
  /\ IF cooling \/ InTurn = {} THEN Waits("idle")
     ELSE \E s \in Sessions :
            /\ NextInTurn(s)
            /\ sweep' = [sweep EXCEPT !.pc = "queued", !.of = s, !.gen = sweep.targets[s], !.local = record[s]]
  /\ UNCHANGED <<record, checked, cooling, late, clicks, outside>>

\* reserveTurn: the turn is stored before anything is awaited.
Choose ==
  /\ sweep.pc = "look" /\ sweep.todo = {}
  /\ IF cooling \/ InTurn = {} THEN Waits("idle") /\ UNCHANGED checked
     ELSE \E s \in Sessions :
            /\ NextInTurn(s) /\ checked' = Touched(s)
            /\ sweep' = [sweep EXCEPT !.pc = "queued", !.of = s, !.gen = sweep.targets[s], !.local = record[s]]
  /\ UNCHANGED <<record, cooling, late, clicks, outside>>

\* The sweep is over; an attempt spaces the next one once more.
Over == Waits("idle") /\ cooling' = (cooling \/ sweep.tried)

\* The actor's turn has come: hold and request are looked up again.
Enters ==
  /\ sweep.pc = "queued"
  /\ CASE UserHeld(sweep.of) -> Over /\ UNCHANGED <<record, checked>>
       [] ~UserHeld(sweep.of) /\ (request[sweep.of].gen # sweep.gen \/ ~request[sweep.of].settled) ->
            Record(sweep.of, sweep.local, "held") /\ Over
       [] OTHER -> Waits("inspect") /\ UNCHANGED <<record, checked, cooling>>
  /\ UNCHANGED <<late, clicks, outside>>

Allowed(s) == ~cooling /\ limited \cap {s, Account} = {}

\* Mutant: the attempt is counted in memory and stored with the outcome.
CountsLater ==
  /\ sweep.pc = "inspect" /\ screen[sweep.of].owned /\ screen[sweep.of].surface = "retry"
  /\ sweep.local.attempts < MaxAttempts /\ Allowed(sweep.of)
  /\ cooling' = TRUE
  /\ sweep' = [sweep EXCEPT !.pc = "click", !.tried = TRUE,
                 !.local = [@ EXCEPT !.attempts = @ + 1, !.outcome = "uncertain", !.state = "attempting"]]
  /\ UNCHANGED <<record, checked, late, clicks, outside>>

\* reserveRefresh and the attempt are stored before the button is pressed.
Dispatches ==
  /\ sweep.pc = "inspect" /\ screen[sweep.of].owned /\ screen[sweep.of].surface = "retry"
  /\ sweep.local.attempts < MaxAttempts /\ Allowed(sweep.of)
  /\ cooling' = TRUE
  /\ LET local == [sweep.local EXCEPT !.attempts = @ + 1, !.outcome = "uncertain", !.state = "attempting"] IN
     /\ Record(sweep.of, local, "attempting")
     /\ sweep' = [sweep EXCEPT !.pc = "click", !.tried = TRUE, !.local = local]
  /\ UNCHANGED <<late, clicks, outside>>

\* Nothing to press, no attempt left, or it is not the time.
Refrains ==
  /\ sweep.pc = "inspect"
  /\ LET s == sweep.of  k == screen[s].surface IN
     \/ screen[s].owned /\ k # "retry" /\ Record(s, sweep.local, IF k = "normal" THEN "recovered" ELSE "held")
     \/ screen[s].owned /\ k = "retry" /\ sweep.local.attempts >= MaxAttempts /\ Record(s, sweep.local, "exhausted")
     \/ /\ screen[s].owned /\ k = "retry" /\ sweep.local.attempts < MaxAttempts /\ ~Allowed(s)
        /\ Record(s, sweep.local, "waiting")
     \/ ~screen[s].owned /\ Record(s, sweep.local, "held")
  /\ Over
  /\ UNCHANGED <<late, clicks, outside>>

\* The renderer inspects and presses in one task.
Presses ==
  /\ sweep.pc = "click" /\ screen[sweep.of].owned
  /\ IF screen[sweep.of].surface = "retry"
       THEN /\ clicks' = [clicks EXCEPT ![sweep.of] = @ + 1]
            /\ \E k \in Surfaces : screen' = [screen EXCEPT ![sweep.of].surface = k]
            /\ Waits("pressed")
       ELSE /\ Waits(IF screen[sweep.of].surface = "normal" THEN "rendered" ELSE "refused")
            /\ UNCHANGED <<clicks, screen>>
  /\ UNCHANGED <<record, checked, cooling, limited, request, late, loadMoves>>

Answered ==
  /\ sweep.pc \in {"pressed", "rendered", "refused"}
  /\ IF sweep.pc = "pressed"
       THEN Record(sweep.of, [sweep.local EXCEPT !.outcome = "clicked"], "waiting")
       ELSE Record(sweep.of, [sweep.local EXCEPT !.outcome = "not-clicked", !.attempts = @ - 1],
                   IF sweep.pc = "rendered" THEN "recovered" ELSE "held")
  /\ Over
  /\ UNCHANGED <<late, clicks, outside>>

\* The answer does not arrive: whether the button was pressed is not known.
TimesOut ==
  /\ sweep.pc \in {"click", "pressed", "rendered", "refused"}
  /\ IF screen[sweep.of].owned THEN loadMoves < MaxLoadMoves /\ loadMoves' = loadMoves + 1 ELSE UNCHANGED loadMoves
  /\ Record(sweep.of, sweep.local, "held") /\ Over
  /\ late' = IF sweep.pc = "click" /\ screen[sweep.of].owned THEN late \cup {sweep.of} ELSE late
  /\ UNCHANGED <<limited, request, screen, clicks>>

\* An evaluation that was queued in the renderer finds its lease expired.
LandsLate(s) ==
  /\ s \in late /\ late' = late \ {s}
  /\ UNCHANGED <<record, checked, cooling, sweep, clicks, outside>>

-----------------------------------------------------------------------------
(* Everybody else.                                                         *)

LoadMove == loadMoves < MaxLoadMoves /\ loadMoves' = loadMoves + 1

\* The session's actor runs nothing of the sweep.
Free(s) == ~(sweep.of = s /\ sweep.pc \in {"inspect", "click", "pressed", "rendered", "refused"})

\* workflow.human_review, in the actor's queue and under the page lock.
HumanReview(s, action) ==
  /\ LoadMove /\ Free(s) /\ screen[s].owned
  /\ record' = [record EXCEPT ![s] =
       [state |-> IF action = "pause" THEN "held" ELSE "recovered", review |-> action = "pause",
        attempts |-> IF record[s] = NoRecord THEN 0 ELSE record[s].attempts,
        outcome |-> IF record[s] = NoRecord THEN "none" ELSE record[s].outcome]]
  /\ checked' = Touched(s)
  /\ UNCHANGED <<cooling, limited, request, screen, sweep, late, clicks>>

Submits(s) ==
  /\ LoadMove /\ Free(s) /\ request[s].gen < MaxGen
  /\ request' = [request EXCEPT ![s] = [gen |-> @.gen + 1, settled |-> FALSE]]
  /\ UNCHANGED <<record, checked, cooling, limited, screen, sweep, late, clicks>>

Settles(s) ==
  /\ ~request[s].settled /\ Free(s)
  /\ request' = [request EXCEPT ![s].settled = TRUE]
  /\ UNCHANGED <<record, checked, cooling, limited, screen, sweep, late, clicks, loadMoves>>

ScreenChanges(s, k) ==
  /\ LoadMove /\ screen[s].surface # k
  /\ screen' = [screen EXCEPT ![s].surface = k]
  /\ UNCHANGED <<record, checked, cooling, limited, request, sweep, late, clicks>>

ScreenGoes(s) ==
  /\ LoadMove /\ screen[s].owned
  /\ screen' = [screen EXCEPT ![s].owned = FALSE]
  /\ UNCHANGED <<record, checked, cooling, limited, request, sweep, late, clicks>>

ScreenReturns(s) ==
  /\ ~screen[s].owned
  /\ \E k \in {"normal", "retry"} : screen' = [screen EXCEPT ![s] = [surface |-> k, owned |-> TRUE]]
  /\ UNCHANGED <<record, checked, cooling, limited, request, sweep, late, clicks, loadMoves>>

\* A 429 is seen: its scope is held back.
Limited(scope) ==
  /\ LoadMove /\ scope \notin limited /\ limited' = limited \cup {scope}
  /\ UNCHANGED <<record, checked, cooling, request, screen, sweep, late, clicks>>

LimitEnds(scope) ==
  /\ scope \in limited /\ limited' = limited \ {scope}
  /\ UNCHANGED <<record, checked, cooling, request, screen, sweep, late, clicks, loadMoves>>

\* The interval is at least as long as the lease of an evaluation.
CoolingEnds ==
  /\ cooling /\ cooling' = FALSE
  /\ sweep.pc # "click"
  /\ UNCHANGED <<record, checked, sweep, late, clicks, outside>>

LoadRestarts ==
  /\ LoadMove /\ sweep.pc # "idle" /\ sweep' = Resting
  /\ late' = IF sweep.pc = "click" THEN late \cup {sweep.of} ELSE late
  /\ UNCHANGED <<record, checked, cooling, limited, request, screen, clicks>>

-----------------------------------------------------------------------------

Sweeping ==
  \/ SweepStarts \/ (\E s \in Sessions : LookAt(s)) \/ Looked \/ LookFails \/ Choose \/ Enters
  \/ Dispatches \/ Refrains \/ Presses \/ Answered \/ TimesOut

LoadNext ==
  \/ Sweeping \/ CoolingEnds \/ LoadRestarts
  \/ \E s \in Sessions :
       \/ LandsLate(s) \/ Submits(s) \/ Settles(s) \/ ScreenGoes(s) \/ ScreenReturns(s)
       \/ \E action \in {"pause", "resume"} : HumanReview(s, action)
       \/ \E k \in Surfaces : ScreenChanges(s, k)
  \/ \E scope \in Sessions \cup {Account} : Limited(scope) \/ LimitEnds(scope)

\* The timer and the promises go on; services and requests come to an end.
LoadFairness ==
  /\ WF_loadVars(Sweeping) /\ WF_loadVars(CoolingEnds)
  /\ \A s \in Sessions : WF_loadVars(Settles(s)) /\ WF_loadVars(LandsLate(s))

LoadSpec == LoadInit /\ [][LoadNext]_loadVars /\ LoadFairness

-----------------------------------------------------------------------------
(* Properties.                                                             *)

\* Every press is in the stored count of its conversation, whatever was lost
\* with a crash or a time-out, so the hundredth attempt is the last.
ClicksAreCounted ==
  \A s \in Sessions : clicks[s] <= IF record[s] = NoRecord THEN 0 ELSE record[s].attempts

\* An error that stays, on a page nobody holds, is reported in the end: every
\* conversation gets its turns, however many others want theirs.
PersistentErrorIsReported ==
  \A s \in Sessions :
    <>[](/\ screen[s] = [surface |-> "retry", owned |-> TRUE]
         /\ request[s].settled /\ ~UserHeld(s) /\ limited \cap {s, Account} = {})
      => <>[](record[s] # NoRecord /\ record[s].state = "exhausted")
=============================================================================
