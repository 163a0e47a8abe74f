---------------------------- MODULE ServerReads ----------------------------
(***************************************************************************)
(* Whose turn it is to read a conversation from the provider's server:     *)
(* ChatGptBackendRecovery.#conversation in                                 *)
(* src/providers/chatgpt/backend-recovery.ts.  One reader at a time for    *)
(* the whole account, five seconds apart at least and not before the       *)
(* provider's Retry-After; those who come too early wait in a line that    *)
(* keeps their places for as long as they come back, and a message that a  *)
(* person selected goes before everything that recurs by itself.           *)
(*                                                                         *)
(* A tick is the five seconds between two reads.  Moments are kept as the  *)
(* ticks that are left until then.                                         *)
(***************************************************************************)
EXTENDS Integers, FiniteSets

CONSTANTS
  Chats,        \* conversations of the account
  Grace,        \* ticks a place in the line is kept for a reader that is due
  MaxRetry,     \* bound: the longest Retry-After, in ticks
  Unread        \* no read is in flight

ASSUME ChatsAreFinite == IsFiniteSet(Chats)
ASSUME GraceIsTwoTicks == Grace \in Nat /\ Grace >= 2
ASSUME RetryBound == MaxRetry \in Nat

VARIABLES
  retryAt,      \* #conversationRetryAt: ticks until the next read is allowed
  place,        \* #conversationWaiting: the places of those who are in it
  before,       \* the insertion order of that Map, as pairs of conversations
  reading,      \* the reader whose request is in flight
  reader,       \* what each reader does, and in how many ticks it comes back
  recorded,     \* ticks left of the Retry-After that the event table knows
  idle          \* history: ticks the line stood still for nobody who is there

readsVars == <<retryAt, place, before, reading, reader, recorded, idle>>

(***************************************************************************)
(* A conversation has two kinds of readers: the observer of its answer or  *)
(* the watcher of its acknowledgement, which recur, and the person's       *)
(* explicit selection of a message.                                        *)
(***************************************************************************)
Readers == {"recurring", "selected"} \X Chats
IsSelected(r) == r[1] = "selected"
Chat(r) == r[2]

ASSUME UnreadIsNoReader == Unread \notin Readers

\* History is told apart up to here.
Patience == Grace + 1

Later(a, b) == IF a >= b THEN a ELSE b
Elsewhere == [at |-> "away", due |-> 0]
Reading == [at |-> "reads", due |-> 0]
Waiting(n) == [at |-> "waits", due |-> n]

\* A place in the line: the ticks it is kept for, and by whom it is held.
PlaceFor(n, byPerson) == [left |-> n, selected |-> byPerson]
NoPlaces == [c \in {} |-> PlaceFor(0, FALSE)]

ReadsInit ==
  /\ retryAt = 0 /\ reading = Unread /\ recorded = 0 /\ idle = 0
  /\ place = NoPlaces /\ before = {}
  /\ reader = [r \in Readers |-> Elsewhere]

----------------------------------------------------------------------------
(* The line.                                                               *)

\* Mutant: a reader that stopped coming keeps its place.
PlacesForEver == DOMAIN place

\* Those who did not come back in time lose their place.
KeptPlaces == {c \in DOMAIN place : place[c].left >= 0}

SelectedIn(c) == c \in KeptPlaces /\ place[c].selected

\* A recurring reader leaves the place of its conversation to the selection.
Renews(r) == IsSelected(r) \/ ~SelectedIn(Chat(r))

\* The line once r has asked: its conversation keeps the place it has, or goes
\* to the end.
Asked(r) ==
  [c \in KeptPlaces \cup {Chat(r)} |->
     IF c = Chat(r) /\ Renews(r) THEN PlaceFor(retryAt + Grace, IsSelected(r)) ELSE place[c]]

Among(S) == {p \in before : p[1] \in S /\ p[2] \in S}
AtTheEnd(S, c) == Among(S) \cup (S \X ({c} \ S))

\* The first selection, else whoever is first.
Candidates(q) ==
  LET chosen == {c \in DOMAIN q : q[c].selected}
  IN IF chosen # {} THEN chosen ELSE DOMAIN q

IsFirst(c, q, order) ==
  /\ c \in Candidates(q)
  /\ \A d \in Candidates(q) : <<d, c>> \notin order

Queued(r) == \/ ~IsFirst(Chat(r), Asked(r), AtTheEnd(KeptPlaces, Chat(r)))
             \/ ~IsSelected(r) /\ SelectedIn(Chat(r))

----------------------------------------------------------------------------
(* One call of #conversation, up to its first await.                       *)

Due(r) == reader[r].at = "away" \/ (reader[r].at = "waits" /\ reader[r].due = 0)

MayRead(r) == retryAt = 0 /\ reading = Unread /\ ~Queued(r)

Reads(r) ==
  /\ Due(r) /\ MayRead(r)
  /\ place' = [c \in KeptPlaces \ {Chat(r)} |-> place[c]] /\ before' = Among(KeptPlaces \ {Chat(r)})
  /\ reading' = r /\ retryAt' = 1
  /\ reader' = [reader EXCEPT ![r] = Reading]
  /\ idle' = 0 /\ UNCHANGED recorded

\* "paced" or "queued": watchers come back after five seconds, the others at
\* the nextCheckAt they are told at the latest.
Waits(r) ==
  /\ Due(r) /\ ~MayRead(r)
  /\ place' = Asked(r) /\ before' = AtTheEnd(KeptPlaces, Chat(r))
  /\ \E n \in 1..Later(1, retryAt) : reader' = [reader EXCEPT ![r] = Waiting(n)]
  /\ idle' = IF IsSelected(r) /\ reader[r] = Elsewhere THEN 0 ELSE idle
  /\ UNCHANGED <<retryAt, reading, recorded>>

\* "A caller honoring Retry-After must not expire before its allowed turn."
Extended(q, at) == [c \in DOMAIN q |-> PlaceFor(Later(q[c].left, at + Grace), q[c].selected)]

\* The document came, or anything else but a limitation: the reader is done.
Read(r) ==
  /\ reading = r /\ reading' = Unread
  /\ place' = Extended(place, retryAt) /\ UNCHANGED before
  /\ reader' = [reader EXCEPT ![r] = Elsewhere]
  /\ UNCHANGED <<retryAt, recorded, idle>>

\* Mutant: the selection that was limited starts over at the end of the line.
RetriesAgain(r) == {}

\* A selection that was limited stays in the line.
Retries(r) == IF IsSelected(r) THEN {Chat(r)} ELSE {}

\* 429.  Acknowledgement recovery records it with its nextCheckAt; the
\* collection of an answer records only that it was limited.
LimitedTo(r, n) ==
  LET at == Later(1, n)
      retrying == [c \in DOMAIN place \cup Retries(r) |->
                     IF c \in Retries(r) THEN PlaceFor(at + Grace, TRUE) ELSE place[c]]
  IN /\ reading = r /\ reading' = Unread
     /\ retryAt' = at
     /\ place' = Extended(retrying, at)
     /\ before' = before \cup ((DOMAIN place) \X (Retries(r) \ DOMAIN place))
     /\ \E m \in 1..at : reader' = [reader EXCEPT ![r] = Waiting(m)]
     /\ recorded' \in {Later(recorded, at)} \cup (IF IsSelected(r) THEN {} ELSE {recorded})
     /\ UNCHANGED idle

\* The watcher is aborted, the person has enough.
GivesUp(r) ==
  /\ reader[r].at = "waits" /\ reader' = [reader EXCEPT ![r] = Elsewhere]
  /\ idle' = 0 /\ UNCHANGED <<retryAt, place, before, reading, recorded>>

\* A new core starts from the recorded Retry-After.
ReadsRestart ==
  /\ retryAt' = recorded /\ reading' = Unread
  /\ place' = NoPlaces /\ before' = {}
  /\ reader' = [r \in Readers |-> Elsewhere]
  /\ idle' = 0 /\ UNCHANGED recorded

Somebody == \E r \in Readers : reader[r].at = "waits"

\* Whoever waits comes back when it is due, long before its grace is over.
ReadsTick ==
  /\ \A r \in Readers : reader[r].at = "waits" => reader[r].due > 0
  /\ retryAt' = Later(0, retryAt - 1) /\ recorded' = Later(0, recorded - 1)
  /\ place' = [c \in DOMAIN place |-> PlaceFor(Later(-1, place[c].left - 1), place[c].selected)]
  /\ reader' = [r \in Readers |-> [at |-> reader[r].at, due |-> Later(0, reader[r].due - 1)]]
  /\ idle' = IF retryAt = 0 /\ reading = Unread /\ Somebody /\ idle <= Patience THEN idle + 1 ELSE idle
  /\ UNCHANGED <<before, reading>>

Asks(r) == Reads(r) \/ Waits(r)
Served(r) == Read(r) \/ \E n \in 0..MaxRetry : LimitedTo(r, n)

ReadsNext ==
  \/ \E r \in Readers : Asks(r) \/ Served(r) \/ GivesUp(r)
  \/ ReadsTick \/ ReadsRestart

ReadsSpec == ReadsInit /\ [][ReadsNext]_readsVars

----------------------------------------------------------------------------
(* Properties.                                                             *)

\* "A user-selected ACK gets the next legal slot ahead of repeated background
\* UNKNOWN polling": no recurring reader reads while a selection waits, be it
\* for its turn or for the end of the limitation its own read ran into.
SelectedGoesFirst ==
  [][\A r \in Readers : reading # r /\ reading' = r /\ ~IsSelected(r)
       => \A s \in Readers : IsSelected(s) => reader[s].at # "waits"]_readsVars

\* Readers that stopped coming, abandoned selections included, hold nobody up
\* for long: while somebody waits, nobody reads and nothing is limited, the line
\* stands still for the grace of the last place that was given up or taken by a
\* selection and the tick in which that place is found lost, and no longer.
TheLineMovesOn == idle <= Patience
============================================================================
