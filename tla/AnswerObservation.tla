------------------------- MODULE AnswerObservation -------------------------
(***************************************************************************)
(* src/core/observation-service.ts and src/providers/chatgpt/exact-final.ts *)
(* for one submitted turn: observer loops read the page of the turn again  *)
(* and again, decide when its answer is final and write what they saw to   *)
(* the turn's row, through the queue of the session's actor.  Observers    *)
(* are replaced by force while the old one still has a write in the queue. *)
(*                                                                         *)
(* A reading takes time: the messages are read first, the activity after   *)
(* them, and the decision is taken when both are there.  Texts are the     *)
(* lengths of the answer, which only grows; 0 is no answer yet.            *)
(***************************************************************************)
EXTENDS Integers, Sequences

CONSTANTS
  Observers,
  MaxText,      \* bound: how often the answer grows
  Window,       \* quietWindowMs, in ticks
  ReadLimit,    \* observationTimeoutMs, in ticks
  MaxSeeMoves,  \* bound: what other operations and crashes do
  NoObserver

ASSUME Spans == Window \in Nat \ {0} /\ ReadLimit \in Nat \ {0} /\ MaxText \in Nat \ {0} /\ MaxSeeMoves \in Nat
ASSUME NoObserverObserves == NoObserver \notin Observers

VARIABLES
  answer,    \* the provider: [text, phase, stood], stood counts the ticks since the text grew
  around,    \* the page: what else it shows
  turn,      \* durable: the generation's row, and whether it is the current one
  pending,   \* updates that wait in the actor's queue
  busy,      \* another operation has the actor
  observer,  \* the loops
  current,   \* #runtimes: the loop that observes the session
  seeMoves   \* bound: moves made so far

seeVars == <<answer, around, turn, pending, busy, observer, current, seeMoves>>
theirs == <<answer, around, seeMoves>>

\* A reading: what it found, how long that text had stood on the page when it
\* was read, and how long the round has waited for the reading to come back.
Found(around_, text, marked, stream, stood) ==
  [around |-> around_, text |-> text, marked |-> marked, stream |-> stream, stood |-> stood, took |-> 0]
Unread == Found("unread", 0, FALSE, FALSE, 0)
Resting == [st |-> "gone", aborted |-> FALSE, open |-> FALSE, ev |-> Unread, known |-> 0, since |-> -1]

SeeInit ==
  /\ answer = [text |-> 0, phase |-> "writing", stood |-> 0]
  /\ around = "plain"
  /\ turn = [state |-> "observing", now |-> TRUE, text |-> 0, note |-> "submitted", paced |-> FALSE]
  /\ pending = <<>> /\ busy = FALSE
  /\ observer = [o \in Observers |-> Resting] /\ current = NoObserver
  /\ seeMoves = 0

Ended == turn.state # "observing" \/ ~turn.now
Goes(o) == observer[o].st # "gone"
Leaves(o) == /\ observer' = [observer EXCEPT ![o] = Resting]
             /\ current' = IF current = o THEN NoObserver ELSE current
Enters(o, st) == observer' = [observer EXCEPT ![o].st = st] /\ UNCHANGED current
Capped(n) == IF n >= Window THEN Window ELSE n

-----------------------------------------------------------------------------
(* The provider and its page, as long as the turn is open.                 *)

Moves == seeMoves < MaxSeeMoves /\ seeMoves' = seeMoves + 1

AnswerGrows ==
  /\ ~Ended
  /\ answer.phase \in {"writing", "lull"} /\ answer.text < MaxText
  /\ answer' = [text |-> answer.text + 1, phase |-> "writing", stood |-> 0]
  /\ UNCHANGED <<around, turn, pending, busy, observer, current, seeMoves>>

\* Nothing shows activity any more, although the answer may go on (lull); it
\* is over, with or without the marker the page puts below a finished answer.
AnswerRests ==
  /\ ~Ended
  /\ answer.phase \in {"writing", "lull"} /\ answer.text > 0
  /\ \E p \in {"lull", "plain", "marked"} \ {answer.phase} : answer' = [answer EXCEPT !.phase = p]
  /\ UNCHANGED <<around, turn, pending, busy, observer, current, seeMoves>>

\* A dialog, a lost page, a message of the person below the answer; all but
\* the last go away, and the page stays as it is "again" (the bound: one change).
PageChanges ==
  /\ ~Ended
  /\ around = "plain" /\ around' \in {"dialog", "lost", "followed"}
  /\ UNCHANGED <<answer, turn, pending, busy, observer, current, seeMoves>>

PageRecovers ==
  /\ around \in {"dialog", "lost"} /\ around' = "again"
  /\ UNCHANGED <<answer, turn, pending, busy, observer, current, seeMoves>>

-----------------------------------------------------------------------------
(* start and stop.                                                         *)

\* An aborted loop does not use again what it remembers.
Aborted(o) == [observer[o] EXCEPT !.aborted = TRUE, !.ev = Unread, !.known = 0, !.since = -1]

\* Loops are alike: a new one is the first that is free.
New(o) == o = CHOOSE free \in Observers : ~Goes(free)

StartsObserving(o) ==
  /\ ~Goes(o) /\ New(o) /\ ~Ended /\ current = NoObserver
  /\ observer' = [observer EXCEPT ![o] = [Resting EXCEPT !.st = "round"]] /\ current' = o
  /\ UNCHANGED <<turn, pending, busy, theirs>>

\* start with force: the page was recovered or the browser restarted.
StartsByForce(o) ==
  /\ Moves
  /\ ~Goes(o) /\ New(o) /\ ~Ended /\ current # NoObserver
  /\ observer' = [observer EXCEPT ![o] = [Resting EXCEPT !.st = "round"], ![current] = Aborted(current)]
  /\ current' = o
  /\ UNCHANGED <<answer, around, turn, pending, busy>>

Stops ==
  /\ Moves
  /\ current # NoObserver
  /\ observer' = [observer EXCEPT ![current] = Aborted(current)] /\ current' = NoObserver
  /\ UNCHANGED <<answer, around, turn, pending, busy>>

-----------------------------------------------------------------------------
(* A round of the loop.                                                    *)

GoesRound(o) == observer[o].st = "round" /\ ~observer[o].aborted /\ ~Ended

Seen(stream) ==
  IF around \in {"dialog", "lost"} THEN Found(around, 0, FALSE, FALSE, 0)
  ELSE Found(around, answer.text, answer.phase = "marked", stream, answer.stood)

\* The row is read again, a closed source opened and the messages read,
\* unless the last reading has not come back yet.
Reads(o) ==
  /\ GoesRound(o) /\ (observer[o].open \/ around # "lost")
  /\ \E stream \in IF answer.phase = "writing" THEN BOOLEAN ELSE {FALSE} :
       observer' = [observer EXCEPT ![o] = [observer[o] EXCEPT !.st = "reading", !.open = TRUE,
                      !.ev = IF observer[o].ev = Unread THEN Seen(stream) ELSE observer[o].ev]]
  /\ UNCHANGED <<turn, pending, busy, current, theirs>>

RoundEnds(o) ==
  /\ observer[o].st = "round" /\ (observer[o].aborted \/ Ended)
  /\ Leaves(o)
  /\ UNCHANGED <<turn, pending, busy, theirs>>

\* An update, and where the loop goes on once it is written.
Update(o, note, text, paced, st) == [by |-> o, note |-> note, text |-> text, paced |-> paced, st |-> st]
Same(note) == turn.note = note

\* #recordUnavailable, when the source cannot be opened or the reading fails.
RecordsUnavailable(o) ==
  /\ \/ GoesRound(o) /\ ~observer[o].open
     \/ observer[o].st = "reading" /\ ~observer[o].aborted
  /\ around = "lost"
  /\ observer' = [observer EXCEPT ![o] = [@ EXCEPT !.open = FALSE, !.ev = Unread,
                                                   !.st = IF Same("unavailable") THEN "round" ELSE "writing"]]
  /\ pending' = IF Same("unavailable") THEN pending
                ELSE Append(pending, Update(o, "unavailable", 0, FALSE, "round"))
  /\ UNCHANGED <<turn, busy, current, theirs>>

Verdict(kind, known, since) == [kind |-> kind, known |-> known, since |-> since]
Reset(kind) == Verdict(kind, 0, -1)

\* Mutant: a changed text keeps the window of the one before.
EvaluateKeepsWindow(ev, activity, known, since) ==
  IF ev.around = "dialog" THEN Verdict("blocked", known, since)
  ELSE IF ev.around = "lost" THEN Reset("unavailable")
  ELSE IF ev.around = "followed" /\ ~(ev.marked /\ ~ev.stream) THEN Reset("unverified")
  ELSE IF ev.text = 0 THEN Reset("pending")
  ELSE IF ev.stream THEN Verdict("progress", ev.text, -1)
  ELSE IF activity = "unknown" THEN Reset("unverified")
  ELSE IF ev.marked THEN Verdict("final", ev.text, since)
  ELSE IF activity = "weak" THEN Reset("progress")
  ELSE IF since >= Window THEN Verdict("final", ev.text, since)
  ELSE Verdict("progress", ev.text, IF since = -1 THEN 0 ELSE since)

\* ExactFinalTracker.evaluate: the verdict, the text it knows from then on and
\* the age of the quiet window (-1: none runs).
Evaluate(ev, activity, known, since) ==
  LET from == IF known # ev.text THEN 0 ELSE since
  IN IF ev.around = "dialog" THEN Verdict("blocked", known, since)
     ELSE IF ev.around = "lost" THEN Reset("unavailable")
     ELSE IF ev.around = "followed" /\ ~(ev.marked /\ ~ev.stream) THEN Reset("unverified")
     ELSE IF ev.text = 0 THEN Reset("pending")
     ELSE IF ev.stream THEN Verdict("progress", ev.text, -1)
     ELSE IF activity = "unknown" THEN Reset("unverified")
     ELSE IF ev.marked THEN Verdict("final", ev.text, from)
     ELSE IF activity = "weak" THEN Reset("progress")
     ELSE IF from >= Window THEN Verdict("final", ev.text, from)
     ELSE Verdict("progress", ev.text, IF from = -1 THEN 0 ELSE from)

\* What observeChatGptActivity finds when the messages have been read.
Activities == IF answer.phase = "writing" THEN {"weak", "unknown"} ELSE {"none"}

\* Mutant: a final does not end the pause either.
KeepsAnyDeferral(o, v) ==
  turn.note = "deferred" /\ turn.paced /\ ~(v.kind = "progress" /\ v.known \notin {0, observer[o].known})

\* A paced backend recovery is not overwritten by a page that shows nothing new.
KeepsDeferral(o, v) ==
  /\ turn.note = "deferred" /\ turn.paced
  /\ v.kind \notin {"final", "blocked", "unavailable"}
  /\ ~(v.kind = "progress" /\ v.known \notin {0, observer[o].known})

\* The reading is there: the loop decides, unless it was aborted meanwhile;
\* #persistDecision writes nothing when nothing has changed.
Judges(o) ==
  /\ observer[o].st = "reading" /\ ~observer[o].aborted
  /\ \E activity \in Activities :
       LET v == Evaluate(observer[o].ev, activity, observer[o].known, observer[o].since)
           then == CASE v.kind = "final" -> "gone" [] v.kind = "blocked" -> "round" [] OTHER -> "noted"
           kept == KeepsDeferral(o, v) \/ (v.kind # "final" /\ Same(v.kind))
       IN /\ observer' = [observer EXCEPT ![o] = [@ EXCEPT !.st = IF kept THEN then ELSE "writing", !.ev = Unread,
                                                           !.known = v.known, !.since = v.since]]
          /\ pending' = IF kept THEN pending
                        ELSE Append(pending, Update(o, v.kind, IF v.kind = "final" THEN v.known ELSE 0, FALSE, then))
  /\ UNCHANGED <<turn, busy, current, theirs>>

\* It takes too long: the round goes on without it and the window is dropped;
\* a later round waits for the same reading anew, or has it dropped when it
\* comes back in between.
TimesOut(o) ==
  /\ observer[o].st = "reading" /\ ~observer[o].aborted
  /\ observer' = [observer EXCEPT ![o] = [@ EXCEPT !.st = IF Same("unavailable") THEN "noted" ELSE "writing",
                                                   !.ev.took = 0, !.known = 0, !.since = -1]]
  /\ pending' = IF Same("unavailable") THEN pending
                ELSE Append(pending, Update(o, "unavailable", 0, FALSE, "noted"))
  /\ UNCHANGED <<turn, busy, current, theirs>>

LateReading(o) ==
  /\ observer[o].st = "round" /\ observer[o].ev # Unread
  /\ observer' = [observer EXCEPT ![o].ev = Unread]
  /\ UNCHANGED <<turn, pending, busy, current, theirs>>

ReadingEnds(o) ==
  /\ observer[o].st = "reading" /\ observer[o].aborted
  /\ Leaves(o)
  /\ UNCHANGED <<turn, pending, busy, theirs>>

\* The page has been quiet for long: the backend may be asked.
Asks(o) ==
  /\ observer[o].st = "noted" /\ ~turn.paced
  /\ Enters(o, "asking")
  /\ UNCHANGED <<turn, pending, busy, theirs>>

Rests(o) ==
  /\ observer[o].st = "noted"
  /\ Enters(o, "round")
  /\ UNCHANGED <<turn, pending, busy, theirs>>

\* #recover and #persistRecovery: the backend knows the answer when it is
\* over; otherwise it is asked again later, and an error of the page is kept.
Answers(o) ==
  /\ observer[o].st = "asking"
  /\ IF observer[o].aborted THEN Leaves(o) /\ UNCHANGED pending
     ELSE /\ Enters(o, "writing")
          /\ \/ /\ answer.phase \in {"plain", "marked"}
                /\ pending' = Append(pending, Update(o, "final", answer.text, FALSE, "gone"))
             \/ pending' = Append(pending,
                  Update(o, IF Same("unavailable") THEN "unavailable" ELSE "deferred", 0, TRUE, "round"))
  /\ UNCHANGED <<turn, busy, theirs>>

-----------------------------------------------------------------------------
(* The actor's queue.                                                      *)

\* Mutant: an update is applied to whatever the turn has become.
RefusedIfReplaced(u) == ~turn.now

\* updateGeneration: a replaced generation, or another end of an ended one, is left alone.
Refused(u) == ~turn.now \/ (turn.state # "observing" /\ ~(turn.state = "complete" /\ u.note = "final"))

Written(u) ==
  [turn EXCEPT !.state = IF u.note = "final" THEN "complete" ELSE "observing",
               !.text = u.text, !.note = u.note, !.paced = u.paced \/ (@ /\ u.note # "final")]

\* The queue comes to an update; the observer that waits for it goes on, or
\* ends with the turn or with the error.
Writes ==
  /\ pending # <<>> /\ ~busy
  /\ LET u == Head(pending)
     IN /\ turn' = IF Refused(u) THEN turn ELSE Written(u)
        /\ pending' = Tail(pending)
        /\ IF Refused(u) \/ u.st = "gone" THEN Leaves(u.by) ELSE Enters(u.by, u.st)
  /\ UNCHANGED <<busy, theirs>>

OtherOperation ==
  /\ Moves
  /\ ~busy /\ busy' = TRUE
  /\ UNCHANGED <<answer, around, turn, pending, observer, current>>

\* It may have ended the turn, or have begun the next one after an ended one.
OperationEnds ==
  /\ busy /\ busy' = FALSE
  /\ turn' \in {turn, IF Ended THEN [turn EXCEPT !.now = FALSE] ELSE [turn EXCEPT !.state = "failed"]}
  /\ UNCHANGED <<pending, observer, current, theirs>>

\* The core stops: rows and pages are left.
SeeCrash ==
  /\ Moves
  /\ current # NoObserver
  /\ pending' = <<>> /\ busy' = FALSE
  /\ observer' = [o \in Observers |-> Resting] /\ current' = NoObserver
  /\ UNCHANGED <<answer, around, turn>>

Waiting(o) == observer[o].st = "reading" /\ ~observer[o].aborted

\* Time passes for whoever measures it.  The loop looks at the clock when a
\* reading has come back, so the window it measures counts the time the reading
\* took; a round waits no longer for one than its time limit.
SeeTick ==
  /\ ~Ended
  /\ \A o \in Observers : Waiting(o) => observer[o].ev.took < ReadLimit
  /\ answer' = [answer EXCEPT !.stood = Capped(@ + 1)]
  /\ turn' = [turn EXCEPT !.paced = FALSE]
  /\ observer' = [o \in Observers |-> [observer[o] EXCEPT
                    !.since = IF @ = -1 THEN -1 ELSE Capped(@ + 1),
                    !.ev.took = IF Waiting(o) THEN @ + 1 ELSE 0]]
  /\ UNCHANGED <<around, pending, busy, current, seeMoves>>

-----------------------------------------------------------------------------
Observes(o) == \/ Reads(o) \/ RoundEnds(o) \/ RecordsUnavailable(o) \/ Judges(o) \/ TimesOut(o) \/ LateReading(o)
               \/ ReadingEnds(o) \/ Asks(o) \/ Rests(o) \/ Answers(o)

SeeNext ==
  \/ AnswerGrows \/ AnswerRests \/ PageChanges \/ PageRecovers
  \/ \E o \in Observers : StartsObserving(o) \/ StartsByForce(o) \/ Observes(o)
  \/ Stops \/ Writes \/ OtherOperation \/ OperationEnds \/ SeeCrash \/ SeeTick

SeeSpec == SeeInit /\ [][SeeNext]_seeVars

\* Loops go round, readings come back, the queue goes on, and an unobserved
\* turn is observed again: by the restart of the core or of the page.
Continues(o) == Reads(o) \/ RoundEnds(o) \/ RecordsUnavailable(o) \/ Rests(o) \/ Answers(o)
ReadingReturns(o) == Judges(o) \/ ReadingEnds(o)
Restarts == \E o \in Observers : StartsObserving(o)

-----------------------------------------------------------------------------
(* Properties.                                                             *)

(* The quiet window is never measured over two texts, whatever dialogs,    *)
(* time-outs, failed readings and replaced observers came in between: an   *)
(* answer that is called final without the page's marker had stood         *)
(* unchanged, when it was last read, for the window less the time that     *)
(* this reading took.  The clock is looked at after the reading            *)
(* (observation-service.ts:223), so no more than that is true of the code. *)
QuietFinalStood ==
  [][\A o \in Observers :
       observer[o].st = "reading" /\ observer'[o].st = "writing" /\ ~observer[o].ev.marked
         /\ pending'[Len(pending')].note = "final"
       => observer[o].ev.stood + observer[o].ev.took >= Window]_seeVars

(* "Never change a terminal turn": an observer that was replaced, stopped  *)
(* or overtaken while its update waited in the queue does not reopen a     *)
(* turn that ended meanwhile, nor end it in another way.                   *)
EndedStaysEnded == [][turn.state # "observing" => turn'.state = turn.state]_seeVars

(* An answer that the page shows as finished is collected, whatever        *)
(* happened to pages, observers and the core before.                       *)
FinishedAnswerIsCollected ==
  (<>[](around \in {"plain", "again"} /\ answer.phase = "marked")) => <>Ended

(* docs/team-workflow.md: "completed results remain immutable and cannot   *)
(* be overwritten by later conversation activity": true of everything but  *)
(* the decision that a replaced observer had in the queue.                 *)
CompletedResultStays ==
  [][turn.state = "complete" => turn'.text = turn.text]_seeVars
=============================================================================
