----------------------------- MODULE CareProofs -----------------------------
(***************************************************************************)
(* Proofs about LoadRecovery and ConversationCleanup.  Both write down an  *)
(* attempt before they make it.  That no press goes uncounted rests on the *)
(* sweep's copy of the record having the attempts of the stored one for as *)
(* long as the turn lasts, although pauses and time-outs write it as well; *)
(* that no deletion of unknown outcome is repeated, on the attempt that    *)
(* was recorded being found, in the actor, by every other request.         *)
(***************************************************************************)
EXTENDS LoadRecovery, ConversationCleanup, FiniteSetTheorems, TLAPS

Turn == {"queued", "inspect", "click", "pressed", "rendered", "refused"}
Sweeps == [pc : {"idle", "look", "looking"} \cup Turn, todo : SUBSET Sessions, targets : [Sessions -> Nat],
           of : Sessions \cup {NoRecord}, gen : Nat, local : Records \cup {NoRecord}, tried : BOOLEAN]
Stored(s) == IF record[s] = NoRecord THEN 0 ELSE record[s].attempts

LoadTyped ==
  /\ record \in [Sessions -> Records \cup {NoRecord}] /\ clicks \in [Sessions -> Nat]
  /\ request \in [Sessions -> [gen : Nat, settled : BOOLEAN]]
  /\ sweep \in Sweeps

\* What the sweep knows of the session whose turn it is.
HasTheTurn ==
  /\ sweep.pc = "looking" => sweep.of \in Sessions
  /\ sweep.pc \in Turn => /\ sweep.of \in Sessions /\ record[sweep.of] \in Records /\ sweep.local \in Records
                          /\ sweep.local.attempts = record[sweep.of].attempts

\* Before the button is pressed one more attempt is stored than was made.
OneToSpare ==
  sweep.pc \in {"click", "rendered", "refused"} => clicks[sweep.of] < sweep.local.attempts

LoadInv == LoadTyped /\ HasTheTurn /\ OneToSpare /\ ClicksAreCounted

LEMMA LoadStarts == LoadInit => LoadInv
<1> SUFFICES ASSUME LoadInit PROVE LoadInv
  OBVIOUS
<1>1. LoadTyped
  BY DEF LoadInit, LoadTyped, Sweeps, Resting
<1> QED BY <1>1 DEF LoadInit, LoadInv, HasTheTurn, OneToSpare, ClicksAreCounted, Resting, Turn

(* A pc that is set changes nothing else of the sweep.                     *)
LEMMA SweepGoes ==
  ASSUME sweep \in Sweeps, NEW pc \in {"idle", "look", "looking"} \cup Turn, Waits(pc)
  PROVE  /\ sweep' \in Sweeps /\ sweep'.pc = pc /\ sweep'.of = sweep.of /\ sweep'.local = sweep.local
         /\ sweep'.gen = sweep.gen /\ sweep'.targets = sweep.targets
BY DEF Sweeps, Waits

(* A record that is stored has the attempts of the copy.                   *)
LEMMA RecordStores ==
  ASSUME record \in [Sessions -> Records \cup {NoRecord}], NEW s \in Sessions, NEW local \in Records,
         NEW state \in {"waiting", "held", "attempting", "recovered", "exhausted"}, Record(s, local, state)
  PROVE  /\ record' \in [Sessions -> Records \cup {NoRecord}]
         /\ record'[s] \in Records /\ record'[s].attempts = local.attempts
         /\ \A r \in Sessions \ {s} : record'[r] = record[r]
<1> DEFINE new == [local EXCEPT !.state = state, !.review = FALSE]
<1>1. new \in Records /\ new.attempts = local.attempts
  BY DEF Records
<1>2. record' = [record EXCEPT ![s] = new]
  BY DEF Record
<1> HIDE DEF new
<1> QED BY <1>1, <1>2

(* The counts stay in order when a record is stored whose attempts cover   *)
(* the presses, outside a turn or at the end of one.                       *)
LEMMA CountedOutside ==
  ASSUME LoadInv, LoadTyped', UNCHANGED clicks, sweep'.pc \in {"idle", "look"},
         NEW s \in Sessions, record'[s] = record[s] \/ (record'[s] \in Records /\ record'[s].attempts >= clicks[s]),
         \A r \in Sessions \ {s} : record'[r] = record[r]
  PROVE  LoadInv'
<1>1. HasTheTurn' /\ OneToSpare'
  BY DEF HasTheTurn, OneToSpare, Turn
<1>2. ClicksAreCounted'
  <2>1. ASSUME NEW r \in Sessions PROVE clicks'[r] <= Stored(r)'
    <3>1. CASE r = s
      BY <3>1, NoRecordIsNone DEF LoadInv, ClicksAreCounted, Stored
    <3>2. CASE r # s
      BY <3>2 DEF LoadInv, ClicksAreCounted, Stored
    <3> QED BY <3>1, <3>2
  <2> QED BY <2>1 DEF ClicksAreCounted, Stored
<1> QED BY <1>1, <1>2 DEF LoadInv

(* The sweep looks at the pages.                                           *)
LEMMA LooksKeep ==
  ASSUME LoadInv, SweepStarts \/ (\E s \in Sessions : LookAt(s)) \/ LookFails
  PROVE  LoadInv'
<1>1. LoadTyped /\ UNCHANGED <<record, clicks, request>>
  BY DEF LoadInv, SweepStarts, LookAt, LookFails, outside
<1>2. CASE SweepStarts
  <2>1. sweep' \in Sweeps /\ sweep'.pc = "look"
    BY <1>2 DEF SweepStarts, Sweeps, Resting
  <2> QED BY <1>1, <2>1 DEF LoadInv, LoadTyped, HasTheTurn, OneToSpare, ClicksAreCounted, Turn
<1>3. ASSUME NEW s \in Sessions, LookAt(s) PROVE LoadInv'
  <2>1. request[s].gen \in Nat /\ sweep \in Sweeps /\ sweep.pc = "look"
    BY <1>1, <1>3 DEF LookAt, LoadTyped
  <2>2. sweep' \in Sweeps /\ (sweep'.pc = "look" \/ (sweep'.pc = "looking" /\ sweep'.of = s))
    <3>1. CASE sweep' = [sweep EXCEPT !.pc = "looking", !.todo = @ \ {s}, !.of = s, !.gen = request[s].gen]
      <4> DEFINE t == sweep.todo \ {s}
                 g == request[s].gen
      <4>1. t \in SUBSET Sessions /\ g \in Nat /\ sweep' = [sweep EXCEPT !.pc = "looking", !.todo = t, !.of = s, !.gen = g]
        BY <2>1, <3>1 DEF Sweeps
      <4> HIDE DEF t, g
      <4> QED BY <2>1, <4>1 DEF Sweeps
    <3>2. CASE sweep' = [sweep EXCEPT !.todo = @ \ {s}]
      BY <2>1, <3>2 DEF Sweeps
    <3> QED BY <1>3, <3>1, <3>2 DEF LookAt
  <2> QED BY <1>1, <1>3, <2>2 DEF LoadInv, LoadTyped, HasTheTurn, OneToSpare, ClicksAreCounted, Turn
<1>4. CASE LookFails
  <2>1. sweep' \in Sweeps /\ sweep'.pc = "look"
    BY <1>1, <1>4, SweepGoes DEF LookFails, LoadTyped
  <2> QED BY <1>1, <2>1 DEF LoadInv, LoadTyped, HasTheTurn, OneToSpare, ClicksAreCounted, Turn
<1> QED BY <1>2, <1>3, <1>4

(* What a look finds is recorded with the attempts there were.             *)
LEMMA LookedKeeps == ASSUME LoadInv, Looked PROVE LoadInv'
<1> DEFINE s == sweep.of
           old == IF record[s] = NoRecord
                    THEN [state |-> "waiting", review |-> FALSE, attempts |-> 0, outcome |-> "none"] ELSE record[s]
<1>1. s \in Sessions /\ sweep \in Sweeps /\ record \in [Sessions -> Records \cup {NoRecord}]
      /\ UNCHANGED <<clicks, request>>
  BY DEF Looked, LoadInv, HasTheTurn, LoadTyped, outside
<1>2. old \in Records /\ old.attempts >= clicks[s]
  <2>1. [state |-> "waiting", review |-> FALSE, attempts |-> 0, outcome |-> "none"] \in Records
    BY DEF Records
  <2> QED BY <1>1, <2>1 DEF LoadInv, ClicksAreCounted, LoadTyped
<1>3. sweep' \in Sweeps /\ sweep'.pc = "look"
  <2> DEFINE g == IF UserHeld(s) THEN 0 ELSE sweep.gen
             t == [sweep.targets EXCEPT ![s] = g]
  <2>1. sweep' = [sweep EXCEPT !.pc = "look", !.targets[s] = g] /\ g \in Nat
    BY <1>1 DEF Looked, Sweeps
  <2> HIDE DEF g
  <2>2. t \in [Sessions -> Nat]
    BY <1>1, <2>1 DEF Sweeps
  <2>3. sweep' = [sweep EXCEPT !.pc = "look", !.targets = t]
    BY <1>1, <2>1 DEF Sweeps
  <2> HIDE DEF t
  <2> QED BY <1>1, <2>2, <2>3 DEF Sweeps
<1>4. \/ UNCHANGED record
      \/ \E state \in {"waiting", "held", "recovered"} : Record(s, old, state)
  BY DEF Looked
<1> HIDE DEF s, old
<1>5. /\ record' \in [Sessions -> Records \cup {NoRecord}]
      /\ \A r \in Sessions \ {s} : record'[r] = record[r]
      /\ record'[s] = record[s] \/ (record'[s] \in Records /\ record'[s].attempts >= clicks[s])
  BY <1>1, <1>2, <1>4, RecordStores
<1>6. LoadTyped'
  BY <1>1, <1>3, <1>5 DEF LoadInv, LoadTyped
<1> QED BY <1>1, <1>3, <1>5, <1>6, CountedOutside

(* A turn begins with a copy of the record.                                *)
LEMMA ChooseKeeps == ASSUME LoadInv, Choose PROVE LoadInv'
<1>1. sweep \in Sweeps /\ UNCHANGED <<record, clicks, request>>
  BY DEF LoadInv, LoadTyped, Choose, outside
<1>2. CASE Waits("idle")
  <2>1. sweep' \in Sweeps /\ sweep'.pc = "idle"
    BY <1>1, <1>2, SweepGoes
  <2> QED BY <1>1, <2>1 DEF LoadInv, LoadTyped, HasTheTurn, OneToSpare, ClicksAreCounted, Turn
<1>3. ASSUME NEW s \in Sessions, NextInTurn(s),
             sweep' = [sweep EXCEPT !.pc = "queued", !.of = s, !.gen = sweep.targets[s], !.local = record[s]]
      PROVE  LoadInv'
  <2> DEFINE g == sweep.targets[s]
             c == record[s]
  <2>1. g \in Nat /\ c \in Records
    BY <1>1, <1>3 DEF NextInTurn, InTurn, LoadInv, LoadTyped, Sweeps
  <2>2. sweep' = [sweep EXCEPT !.pc = "queued", !.of = s, !.gen = g, !.local = c]
    BY <1>3
  <2> HIDE DEF g, c
  <2>3. sweep' \in Sweeps /\ sweep'.pc = "queued" /\ sweep'.of = s /\ sweep'.local = c
    BY <1>1, <2>1, <2>2 DEF Sweeps, Turn
  <2> QED BY <1>1, <2>1, <2>3 DEF c, LoadInv, LoadTyped, HasTheTurn, OneToSpare, ClicksAreCounted
<1> QED BY <1>2, <1>3 DEF Choose

(* A turn ends: what is stored covers the presses.                         *)
LEMMA TurnOver ==
  ASSUME LoadInv, sweep.pc \in Turn, Waits("idle"), UNCHANGED <<clicks, request>>,
         \/ UNCHANGED record
         \/ \E local \in Records, state \in {"waiting", "held", "recovered", "exhausted"} :
              Record(sweep.of, local, state) /\ local.attempts >= clicks[sweep.of]
  PROVE  LoadInv'
<1>1. sweep' \in Sweeps /\ sweep'.pc = "idle" /\ sweep.of \in Sessions
  BY SweepGoes DEF LoadInv, LoadTyped, HasTheTurn
<1>2. /\ record' \in [Sessions -> Records \cup {NoRecord}]
      /\ \A r \in Sessions \ {sweep.of} : record'[r] = record[r]
      /\ \/ record'[sweep.of] = record[sweep.of]
         \/ record'[sweep.of] \in Records /\ record'[sweep.of].attempts >= clicks[sweep.of]
  BY <1>1, RecordStores DEF LoadInv, LoadTyped
<1>3. LoadTyped'
  BY <1>1, <1>2 DEF LoadInv, LoadTyped
<1> HIDE DEF LoadInv
<1> QED BY <1>1, <1>2, <1>3, CountedOutside

(* In a turn the copy covers the presses as the record does.               *)
LEMMA CopyCovers ==
  ASSUME LoadInv, sweep.pc \in Turn
  PROVE  /\ sweep.local \in Records /\ sweep.of \in Sessions /\ sweep.local.attempts \in Nat
         /\ clicks[sweep.of] \in Nat /\ clicks[sweep.of] <= sweep.local.attempts
<1>1. /\ sweep.of \in Sessions /\ record[sweep.of] \in Records /\ sweep.local \in Records
      /\ sweep.local.attempts = record[sweep.of].attempts
  BY DEF LoadInv, HasTheTurn
<1>2. clicks[sweep.of] <= record[sweep.of].attempts
  BY <1>1, NoRecordIsNone DEF LoadInv, ClicksAreCounted
<1> QED BY <1>1, <1>2 DEF LoadInv, LoadTyped, Records

LEMMA EntersKeeps == ASSUME LoadInv, Enters PROVE LoadInv'
<1>1. sweep.pc = "queued" /\ sweep.pc \in Turn /\ UNCHANGED <<clicks, request>>
  BY DEF Enters, Turn, outside
<1>2. CASE Waits("idle")
  BY <1>1, <1>2, CopyCovers, TurnOver DEF Enters, Waits
<1>3. CASE Waits("inspect") /\ UNCHANGED record
  <2>1. sweep' \in Sweeps /\ sweep'.pc = "inspect" /\ sweep'.of = sweep.of /\ sweep'.local = sweep.local
    BY <1>3, SweepGoes DEF LoadInv, LoadTyped, Turn
  <2> QED BY <1>1, <1>3, <2>1 DEF LoadInv, LoadTyped, HasTheTurn, OneToSpare, ClicksAreCounted, Turn
<1> QED BY <1>2, <1>3 DEF Enters, Over

LEMMA RefrainsKeeps == ASSUME LoadInv, Refrains PROVE LoadInv'
<1>1. sweep.pc \in Turn /\ UNCHANGED <<clicks, request>> /\ Waits("idle")
  BY DEF Refrains, Turn, outside, Over
<1>2. \E state \in {"waiting", "held", "recovered", "exhausted"} : Record(sweep.of, sweep.local, state)
  BY DEF Refrains
<1> QED BY <1>1, <1>2, CopyCovers, TurnOver

(* The attempt is stored first.                                            *)
LEMMA DispatchesKeeps == ASSUME LoadInv, Dispatches PROVE LoadInv'
<1> DEFINE s == sweep.of
           n == sweep.local.attempts + 1
           local == [sweep.local EXCEPT !.attempts = n, !.outcome = "uncertain", !.state = "attempting"]
<1>1. sweep.pc \in Turn /\ UNCHANGED <<clicks, request>>
  BY DEF Dispatches, Turn, outside
<1>2. /\ sweep.local \in Records /\ s \in Sessions /\ n \in Nat /\ clicks[s] \in Nat /\ clicks[s] < n
  BY <1>1, CopyCovers
<1>3. /\ Record(s, local, "attempting")
      /\ sweep' = [sweep EXCEPT !.pc = "click", !.tried = TRUE, !.local = local]
  BY DEF Dispatches
<1> HIDE DEF n, s
<1>4. local \in Records /\ local.attempts = n
  BY <1>2 DEF Records
<1> HIDE DEF local
<1>5. /\ record' \in [Sessions -> Records \cup {NoRecord}] /\ record'[s] \in Records /\ record'[s].attempts = n
      /\ \A r \in Sessions \ {s} : record'[r] = record[r]
  BY <1>2, <1>3, <1>4, RecordStores DEF LoadInv, LoadTyped
<1>6. sweep' \in Sweeps /\ sweep'.pc = "click" /\ sweep'.of = s /\ sweep'.local = local
  BY <1>3, <1>4 DEF s, LoadInv, LoadTyped, Sweeps, Turn
<1>7. LoadTyped' /\ HasTheTurn' /\ OneToSpare'
  BY <1>1, <1>2, <1>4, <1>5, <1>6 DEF LoadInv, LoadTyped, HasTheTurn, OneToSpare
<1>8. ClicksAreCounted'
  <2>1. ASSUME NEW r \in Sessions PROVE clicks'[r] <= Stored(r)'
    <3>1. CASE r = s
      BY <1>1, <1>2, <1>5, <3>1, NoRecordIsNone DEF Stored
    <3>2. CASE r # s
      BY <1>1, <1>5, <3>2 DEF LoadInv, ClicksAreCounted, Stored
    <3> QED BY <3>1, <3>2
  <2> QED BY <2>1 DEF ClicksAreCounted, Stored
<1> QED BY <1>7, <1>8 DEF LoadInv

(* The press uses up what there was to spare.                              *)
LEMMA PressesKeeps == ASSUME LoadInv, Presses PROVE LoadInv'
<1>1. sweep.pc = "click" /\ UNCHANGED <<record, request>>
  BY DEF Presses
<1>2. sweep.local \in Records /\ sweep.of \in Sessions /\ clicks[sweep.of] < sweep.local.attempts
      /\ record[sweep.of] \in Records /\ record[sweep.of].attempts = sweep.local.attempts
  BY <1>1 DEF LoadInv, HasTheTurn, OneToSpare, Turn
<1>3. ASSUME clicks' = [clicks EXCEPT ![sweep.of] = @ + 1], Waits("pressed") PROVE LoadInv'
  <2>1. sweep' \in Sweeps /\ sweep'.pc = "pressed" /\ sweep'.of = sweep.of /\ sweep'.local = sweep.local
    BY <1>3, SweepGoes DEF LoadInv, LoadTyped, Turn
  <2>2. /\ clicks' \in [Sessions -> Nat] /\ clicks'[sweep.of] = clicks[sweep.of] + 1
        /\ \A r \in Sessions \ {sweep.of} : clicks'[r] = clicks[r]
    BY <1>2, <1>3 DEF LoadInv, LoadTyped
  <2>3. LoadTyped' /\ HasTheTurn' /\ OneToSpare'
    BY <1>1, <1>2, <2>1, <2>2 DEF LoadInv, LoadTyped, HasTheTurn, OneToSpare, Turn
  <2>4. ASSUME NEW r \in Sessions PROVE clicks'[r] <= Stored(r)'
    <3>1. CASE r = sweep.of
      <4>1. record'[r] \in Records /\ record'[r].attempts = sweep.local.attempts /\ sweep.local.attempts \in Nat
        BY <1>1, <1>2, <3>1 DEF Records
      <4>2. clicks[r] \in Nat /\ clicks[r] < sweep.local.attempts /\ clicks'[r] = clicks[r] + 1
        BY <1>2, <2>2, <3>1 DEF LoadInv, LoadTyped
      <4> QED BY <4>1, <4>2, NoRecordIsNone DEF Stored
    <3>2. CASE r # sweep.of
      BY <1>1, <2>2, <3>2 DEF LoadInv, ClicksAreCounted, Stored
    <3> QED BY <3>1, <3>2
  <2> QED BY <2>3, <2>4 DEF LoadInv, ClicksAreCounted, Stored
<1>4. ASSUME UNCHANGED clicks, NEW pc \in {"rendered", "refused"}, Waits(pc) PROVE LoadInv'
  <2>1. sweep' \in Sweeps /\ sweep'.pc = pc /\ sweep'.of = sweep.of /\ sweep'.local = sweep.local
    BY <1>4, SweepGoes DEF LoadInv, LoadTyped, Turn
  <2> QED BY <1>1, <1>2, <1>4, <2>1 DEF LoadInv, LoadTyped, HasTheTurn, OneToSpare, ClicksAreCounted, Turn
<1> QED BY <1>3, <1>4 DEF Presses

(* The answer of the page, or none.                                        *)
LEMMA AnsweredKeeps == ASSUME LoadInv, Answered \/ TimesOut PROVE LoadInv'
<1> DEFINE s == sweep.of
<1>1. sweep.pc \in Turn /\ UNCHANGED <<clicks, request>> /\ Waits("idle")
  BY DEF Answered, TimesOut, Turn, outside, Over
<1>2. sweep.local \in Records /\ s \in Sessions /\ sweep.local.attempts \in Nat /\ clicks[s] \in Nat /\ clicks[s] <= sweep.local.attempts
  BY <1>1, CopyCovers
<1>3. CASE Record(s, sweep.local, "held")
  BY <1>1, <1>2, <1>3, TurnOver
<1>4. CASE Record(s, [sweep.local EXCEPT !.outcome = "clicked"], "waiting")
  <2> DEFINE local == [sweep.local EXCEPT !.outcome = "clicked"]
  <2>1. local \in Records /\ local.attempts = sweep.local.attempts
    BY <1>2 DEF Records
  <2>2. Record(s, local, "waiting")
    BY <1>4
  <2> HIDE DEF local
  <2> QED BY <1>1, <1>2, <2>1, <2>2, TurnOver
<1>5. CASE /\ sweep.pc \in {"rendered", "refused"}
           /\ \E state \in {"recovered", "held"} :
                Record(s, [sweep.local EXCEPT !.outcome = "not-clicked", !.attempts = @ - 1], state)
  <2> DEFINE n == sweep.local.attempts - 1
             local == [sweep.local EXCEPT !.outcome = "not-clicked", !.attempts = n]
  <2>1. n \in Nat /\ clicks[s] <= n
    BY <1>2, <1>5 DEF LoadInv, OneToSpare
  <2>2. \E state \in {"recovered", "held"} : Record(s, local, state)
    BY <1>5
  <2> HIDE DEF n
  <2>3. local \in Records /\ local.attempts = n
    BY <1>2, <2>1 DEF Records
  <2> HIDE DEF local
  <2> QED BY <1>1, <1>2, <2>1, <2>2, <2>3, TurnOver
<1> QED BY <1>3, <1>4, <1>5 DEF Answered, TimesOut

(* A person's pause or resume leaves the count alone.                      *)
LEMMA ReviewKeeps ==
  ASSUME LoadInv, NEW s \in Sessions, NEW action \in {"pause", "resume"}, HumanReview(s, action)
  PROVE  LoadInv'
<1> DEFINE n == IF record[s] = NoRecord THEN 0 ELSE record[s].attempts
           o == IF record[s] = NoRecord THEN "none" ELSE record[s].outcome
           v == IF action = "pause" THEN "held" ELSE "recovered"
           new == [state |-> v, review |-> action = "pause", attempts |-> n, outcome |-> o]
<1>1. n \in Nat /\ clicks[s] <= n /\ (record[s] \in Records => n = record[s].attempts)
  BY NoRecordIsNone DEF LoadInv, LoadTyped, ClicksAreCounted, Records
<1>2. o \in {"none", "uncertain", "clicked", "not-clicked"} /\ v \in {"held", "recovered"}
  BY DEF LoadInv, LoadTyped, Records
<1>3. record' = [record EXCEPT ![s] = new] /\ UNCHANGED <<clicks, request, sweep>>
  BY DEF HumanReview
<1> HIDE DEF n, o, v
<1>4. new \in Records /\ new.attempts = n
  BY <1>1, <1>2 DEF Records
<1> HIDE DEF new
<1>5. /\ record' \in [Sessions -> Records \cup {NoRecord}] /\ record'[s] = new
      /\ \A r \in Sessions \ {s} : record'[r] = record[r]
  BY <1>3, <1>4 DEF LoadInv, LoadTyped
<1>6. LoadTyped' /\ OneToSpare'
  BY <1>3, <1>5 DEF LoadInv, LoadTyped, OneToSpare
<1>7. HasTheTurn'
  <2>1. CASE sweep.of = s
    BY <1>1, <1>3, <1>4, <1>5, <2>1 DEF LoadInv, HasTheTurn
  <2>2. CASE sweep.of # s
    BY <1>3, <1>5, <2>2 DEF LoadInv, HasTheTurn
  <2> QED BY <2>1, <2>2
<1>8. ASSUME NEW r \in Sessions PROVE clicks'[r] <= Stored(r)'
  <2>1. CASE r = s
    BY <1>1, <1>3, <1>4, <1>5, <2>1, NoRecordIsNone DEF Stored
  <2>2. CASE r # s
    BY <1>3, <1>5, <2>2 DEF LoadInv, ClicksAreCounted, Stored
  <2> QED BY <2>1, <2>2
<1> QED BY <1>6, <1>7, <1>8 DEF LoadInv, ClicksAreCounted, Stored

(* What leaves the records, the presses and the sweep alone.               *)
LEMMA ElsewhereKeeps ==
  ASSUME LoadInv, UNCHANGED <<record, clicks, sweep>>, request' \in [Sessions -> [gen : Nat, settled : BOOLEAN]]
  PROVE  LoadInv'
BY DEF LoadInv, LoadTyped, HasTheTurn, OneToSpare, ClicksAreCounted

LEMMA LoadStep == ASSUME LoadInv, [LoadNext]_loadVars PROVE LoadInv'
<1>1. CASE Sweeping
  BY <1>1, LooksKeep, LookedKeeps, ChooseKeeps, EntersKeeps, DispatchesKeeps, RefrainsKeeps, PressesKeeps, AnsweredKeeps
     DEF Sweeping
<1>2. CASE LoadRestarts
  <2>1. sweep' = Resting /\ UNCHANGED <<record, clicks, request>>
    BY <1>2 DEF LoadRestarts
  <2>2. Resting \in Sweeps /\ Resting.pc = "idle"
    BY DEF Resting, Sweeps
  <2> QED BY <2>1, <2>2 DEF LoadInv, LoadTyped, HasTheTurn, OneToSpare, ClicksAreCounted, Turn
<1>3. ASSUME NEW s \in Sessions, Submits(s) \/ Settles(s) PROVE LoadInv'
  <2>1. request \in [Sessions -> [gen : Nat, settled : BOOLEAN]]
    BY DEF LoadInv, LoadTyped
  <2>2. request' \in [Sessions -> [gen : Nat, settled : BOOLEAN]]
    <3>1. CASE Submits(s)
      <4> DEFINE n == request[s].gen + 1
      <4>1. n \in Nat /\ request' = [request EXCEPT ![s] = [gen |-> n, settled |-> FALSE]]
        BY <2>1, <3>1 DEF Submits
      <4> HIDE DEF n
      <4> QED BY <2>1, <4>1
    <3>2. CASE Settles(s)
      BY <2>1, <3>2 DEF Settles
    <3> QED BY <1>3, <3>1, <3>2
  <2> QED BY <1>3, <2>2, ElsewhereKeeps DEF Submits, Settles
<1>4. CASE \/ CoolingEnds \/ UNCHANGED loadVars
           \/ \E scope \in Sessions \cup {Account} : Limited(scope) \/ LimitEnds(scope)
           \/ \E s \in Sessions : \/ LandsLate(s) \/ ScreenGoes(s) \/ ScreenReturns(s)
                                  \/ \E k \in Surfaces : ScreenChanges(s, k)
  <2>1. UNCHANGED <<record, clicks, sweep, request>>
    BY <1>4 DEF CoolingEnds, Limited, LimitEnds, LandsLate, ScreenGoes, ScreenReturns, ScreenChanges, outside, loadVars
  <2> QED BY <2>1, ElsewhereKeeps DEF LoadInv, LoadTyped
<1> QED BY <1>1, <1>2, <1>3, <1>4, ReviewKeeps DEF LoadNext

(* The copy a turn works with covers the presses as the record does, for   *)
(* any number of sessions, attempts, pauses, time-outs and restarts.       *)
THEOREM LoadInvariant == LoadSpec => []LoadInv
<1> QED BY LoadStarts, LoadStep, PTL DEF LoadSpec

(* Every press of Retry is in the stored count of its conversation.        *)
THEOREM PressesAreCounted == LoadSpec => []ClicksAreCounted
<1>1. LoadInv => ClicksAreCounted
  BY DEF LoadInv
<1> QED BY <1>1, LoadInvariant, PTL

-----------------------------------------------------------------------------
(* Deletions.                                                              *)

Inside == {"opening", "patching", "landed", "refused", "unknown"}
CallRecords == [pc : {"idle", "deleting", "replacing", "swept", "next"} \cup Inside, of : Roles \cup {Absent},
                id : Ids \cup {Absent}, prior : Ids \cup {Absent}, todo : SUBSET Roles]

CleanTyped ==
  /\ receipt \in [Ids -> Receipts \cup {Absent}] /\ call \in [CleanRequests -> CallRecords]
  /\ patched \in [Roles -> Nat] /\ refused \in [Roles -> Nat] /\ successors \in [Replacements -> Nat]

\* One call at a time is inside a session's actor.
OneInside ==
  \A q, r \in CleanRequests : InActor(call[q]) /\ InActor(call[r]) /\ call[q].of = call[r].of => q = r

\* A call knows the conversation and the identities it is about.
AboutIts(r) ==
  /\ call[r].pc \in {"deleting"} \cup Inside =>
       /\ call[r].of \in Roles /\ call[r].id \in DeletionIds(call[r].of)
       /\ call[r].prior \in DeletionIds(call[r].of) \cup {Absent}
  /\ call[r].pc = "replacing" => r \in Replacements
  /\ call[r].pc \in {"swept", "next"} => r \in TeamDeletions

\* A replacement that is complete and called again has deleted before.
Derives(r) ==
  r \in Replacements /\ call[r].pc # "idle" /\ receipt[r] # Absent => receipt[Derived(r, Target[r])] # Absent

\* Only a call that found no attempt prepares one, and its own is on record
\* from before the provider is asked until the outcome is known.
MayAsk(r) ==
  /\ call[r].pc = "opening" /\ call[r].prior = Absent => Attempts(call[r].of) = {}
  /\ call[r].pc \in {"patching", "refused"} => patched[call[r].of] <= refused[call[r].of]
  /\ call[r].pc \in {"patching", "landed", "refused", "unknown"} => call[r].id \in Attempts(call[r].of)

\* session.delete has looked for open work inside the actor.
Settled(r) == r \in Deletes /\ call[r].pc \in {"opening", "patching"} => call[r].of \notin work

Fine(r) == AboutIts(r) /\ Derives(r) /\ MayAsk(r) /\ Settled(r)

\* What was asked and not refused is found by every later request.
Noticed(s) == patched[s] <= refused[s] + 1 /\ (Attempts(s) = {} => patched[s] <= refused[s])

\* A replacement that made its successor has its receipt.
MadeOnce(r) ==
  /\ successors[r] <= 1 /\ (successors[r] > 0 => receipt[r] # Absent)
  /\ receipt[r] # Absent => receipt[r].status = "complete"

CleanInv ==
  /\ CleanTyped /\ OneInside /\ \A r \in CleanRequests : Fine(r)
  /\ \A s \in Roles : Noticed(s)
  /\ \A r \in Replacements : MadeOnce(r)

LEMMA CleanStarts == CleanInit => CleanInv
<1> SUFFICES ASSUME CleanInit PROVE CleanInv
  OBVIOUS
<1>1. NoCall \in CallRecords /\ NoCall.pc = "idle"
  BY DEF NoCall, CallRecords
<1>2. CleanTyped /\ \A r \in CleanRequests : call[r].pc = "idle"
  BY <1>1 DEF CleanInit, CleanTyped
<1>3. OneInside
  BY <1>2 DEF OneInside, InActor
<1>4. ASSUME NEW r \in CleanRequests PROVE Fine(r)
  BY <1>2 DEF Fine, AboutIts, Derives, MayAsk, Settled, Inside
<1>5. (\A s \in Roles : Noticed(s)) /\ \A r \in Replacements : MadeOnce(r)
  BY DEF CleanInit, Noticed, MadeOnce, Ids, CleanRequests
<1> QED BY <1>2, <1>3, <1>4, <1>5 DEF CleanInv

\* What other calls know of a conversation is as it was.
Same(s) ==
  /\ Attempts(s)' = Attempts(s) /\ patched'[s] = patched[s] /\ refused'[s] = refused[s]

(* A call makes a step.  Nothing of what another one relies on changes,    *)
(* unless the call is inside the actor and the other is not.               *)
LEMMA CallMoves ==
  ASSUME CleanInv, NEW r \in CleanRequests, NEW c \in CallRecords, call' = [call EXCEPT ![r] = c],
         receipt' \in [Ids -> Receipts \cup {Absent}], patched' \in [Roles -> Nat], refused' \in [Roles -> Nat],
         successors' \in [Replacements -> Nat], UNCHANGED work,
         \A i \in Ids : receipt[i] # Absent => receipt'[i] # Absent,
         \A q \in Replacements \ {r} : receipt'[q] = receipt[q] /\ successors'[q] = successors[q],
         \A s \in Roles : Same(s) \/ (InActor(call[r]) /\ call[r].of = s /\ Noticed(s)'),
         InActor(c) => (InActor(call[r]) /\ call[r].of = c.of) \/ ActorFree(c.of),
         Fine(r)', r \in Replacements => MadeOnce(r)'
  PROVE  CleanInv'
<1>1. call'[r] = c /\ \A q \in CleanRequests \ {r} : call'[q] = call[q]
  BY DEF CleanInv, CleanTyped
<1>2. CleanTyped'
  BY DEF CleanInv, CleanTyped
<1>3. OneInside'
  <2> SUFFICES ASSUME NEW q \in CleanRequests \ {r}, InActor(call[q]), InActor(c), call[q].of = c.of PROVE FALSE
    BY <1>1 DEF OneInside, InActor, CleanInv
  <2> QED BY DEF CleanInv, OneInside, ActorFree
<1>4. ASSUME NEW q \in CleanRequests \ {r} PROVE Fine(q)'
  <2>1. Fine(q) /\ call'[q] = call[q]
    BY <1>1 DEF CleanInv
  <2>2. AboutIts(q)' /\ Settled(q)'
    BY <2>1 DEF Fine, AboutIts, Settled, DeletionIds
  <2>3. Derives(q)'
    <3> SUFFICES ASSUME q \in Replacements, call[q].pc # "idle", receipt'[q] # Absent
                 PROVE  receipt'[Derived(q, Target[q])] # Absent
      BY <2>1 DEF Derives
    <3>1. receipt[q] # Absent
      OBVIOUS
    <3>2. receipt[Derived(q, Target[q])] # Absent
      BY <2>1, <3>1 DEF Fine, Derives
    <3>3. Derived(q, Target[q]) \in Ids
      BY Targets DEF Ids
    <3> QED BY <3>2, <3>3
  <2>4. MayAsk(q)'
    <3>1. CASE ~InActor(call[q])
      BY <2>1, <3>1 DEF MayAsk, InActor
    <3>2. CASE InActor(call[q])
      <4>1. call[q].of \in Roles /\ Same(call[q].of)
        BY <2>1, <3>2 DEF CleanInv, OneInside, Fine, AboutIts, InActor, Inside
      <4> QED BY <2>1, <4>1 DEF Fine, MayAsk, Same
    <3> QED BY <3>1, <3>2
  <2> QED BY <2>2, <2>3, <2>4 DEF Fine
<1>5. \A s \in Roles : Noticed(s)'
  BY DEF CleanInv, Noticed, Same
<1>6. \A q \in Replacements : MadeOnce(q)'
  BY DEF CleanInv, MadeOnce
<1> QED BY <1>2, <1>3, <1>4, <1>5, <1>6 DEF CleanInv

(* Identities of deletions are of one conversation each, and of no other   *)
(* request.                                                                *)
LEMMA DeletionIdentities ==
  /\ \A s \in Roles : DeletionIds(s) \subseteq Ids
  /\ \A s, t \in Roles : s # t => DeletionIds(s) \cap DeletionIds(t) = {}
  /\ \A s \in Roles : DeletionIds(s) \cap (Replacements \cup TeamDeletions) = {}
  /\ \A r \in Replacements \cup TeamDeletions, s \in Roles : Derived(r, s) \in DeletionIds(s) /\ Derived(r, s) # r
<1>1. ASSUME NEW s \in Roles, NEW i \in DeletionIds(s)
      PROVE  /\ i \in Ids /\ i \notin Replacements \cup TeamDeletions
             /\ \A t \in Roles : i \in DeletionIds(t) => s = t
  <2>1. CASE i \in Deletes /\ Target[i] = s
    <3>1. \A q \in Replacements \cup TeamDeletions, t \in Roles : Derived(q, t) # i
      BY <2>1, Identities DEF CleanRequests
    <3> QED BY <2>1, <3>1, Identities DEF DeletionIds, Ids, CleanRequests
  <2>2. CASE \E q \in Replacements \cup TeamDeletions : i = Derived(q, s)
    <3>1. i \notin CleanRequests /\ i \in Ids
      BY <2>2, Identities DEF Ids
    <3>2. ASSUME NEW t \in Roles, i \in DeletionIds(t) PROVE s = t
      BY <2>2, <3>1, <3>2 DEF DeletionIds, Derived, CleanRequests
    <3> QED BY <3>1, <3>2 DEF CleanRequests
  <2> QED BY <1>1, <2>1, <2>2 DEF DeletionIds
<1>2. ASSUME NEW r \in Replacements \cup TeamDeletions, NEW s \in Roles
      PROVE  Derived(r, s) \in DeletionIds(s) /\ Derived(r, s) # r
  BY Identities DEF DeletionIds, CleanRequests
<1> QED BY <1>1, <1>2

(* A receipt that is written.                                              *)
LEMMA RecordedOne ==
  ASSUME CleanTyped, NEW i \in Ids, NEW st \in {"attempted", "complete"}, NEW deleted \in BOOLEAN,
         NEW error \in {"none", "unknown", "rejected", "preserved", "confirmed", "refused", "uncertain", "not-attempted"},
         Recorded(i, st, deleted, error)
  PROVE  /\ receipt' \in [Ids -> Receipts \cup {Absent}] /\ receipt'[i] # Absent
         /\ receipt'[i].status = st /\ receipt'[i].deleted = deleted
         /\ \A j \in Ids \ {i} : receipt'[j] = receipt[j]
         /\ \A s \in Roles : i \notin DeletionIds(s) => Attempts(s)' = Attempts(s)
         /\ \A s \in Roles : i \in DeletionIds(s) /\ (st = "attempted" \/ deleted) => i \in Attempts(s)'
<1> DEFINE new == [status |-> st, deleted |-> deleted, error |-> error]
<1>1. new \in Receipts /\ new # Absent /\ new.status = st /\ new.deleted = deleted
  BY AbsentIsNothing DEF Receipts
<1>2. receipt' = [receipt EXCEPT ![i] = new]
  BY DEF Recorded
<1> HIDE DEF new
<1>3. receipt' \in [Ids -> Receipts \cup {Absent}] /\ receipt'[i] = new /\ \A j \in Ids \ {i} : receipt'[j] = receipt[j]
  BY <1>1, <1>2 DEF CleanTyped
<1>4. ASSUME NEW s \in Roles, i \notin DeletionIds(s) PROVE Attempts(s)' = Attempts(s)
  <2>1. \A j \in DeletionIds(s) : receipt'[j] = receipt[j]
    BY <1>3, <1>4, DeletionIdentities
  <2> QED BY <2>1 DEF Attempts, DeletionIds
<1>5. ASSUME NEW s \in Roles, i \in DeletionIds(s), st = "attempted" \/ deleted PROVE i \in Attempts(s)'
  BY <1>1, <1>3, <1>5 DEF Attempts, DeletionIds
<1> QED BY <1>1, <1>3, <1>4, <1>5

(* A call that has returned.                                               *)
LEMMA AtRest == NoCall \in CallRecords /\ NoCall.pc = "idle" /\ ~InActor(NoCall)
BY DEF NoCall, CallRecords, InActor

(* What a replacement has derived stays derived.                           *)
LEMMA DerivesStill ==
  ASSUME CleanInv, NEW r \in CleanRequests, call[r].pc # "idle",
         \A i \in Ids : receipt[i] # Absent => receipt'[i] # Absent,
         r \in Replacements => receipt'[r] = receipt[r]
  PROVE  Derives(r)'
<1> SUFFICES ASSUME r \in Replacements, receipt'[r] # Absent PROVE receipt'[Derived(r, Target[r])] # Absent
  BY DEF Derives
<1>1. receipt[Derived(r, Target[r])] # Absent
  BY DEF CleanInv, Fine, Derives
<1>2. Derived(r, Target[r]) \in Ids
  BY Targets DEF Ids
<1> QED BY <1>1, <1>2

(* A deletion returns, with a receipt that says what became of it or with  *)
(* nothing new.                                                            *)
LEMMA DeletionOver ==
  ASSUME CleanInv, NEW r \in CleanRequests, call[r].pc \in {"deleting"} \cup Inside, DeletionReturns(r),
         UNCHANGED <<patched, refused, successors, work>>,
         \/ UNCHANGED receipt
         \/ /\ InActor(call[r])
            /\ \E i \in DeletionIds(call[r].of), deleted \in BOOLEAN, error \in {"none", "rejected"} :
                 /\ Recorded(i, "complete", deleted, error)
                 /\ deleted \/ patched[call[r].of] <= refused[call[r].of]
  PROVE  CleanInv'
<1>0. PICK s \in Roles : s = call[r].of
  BY DEF CleanInv, Fine, AboutIts
<1> DEFINE pc == After(r)
           c == IF r \in Deletes THEN NoCall ELSE [call[r] EXCEPT !.pc = pc]
<1>1. AboutIts(r) /\ Derives(r) /\ Noticed(s) /\ CleanTyped
  BY DEF CleanInv, Fine
<1>2. /\ pc \in {"idle", "replacing", "swept"} /\ (r \notin Deletes /\ pc = "replacing" => r \in Replacements)
      /\ (pc = "swept" => r \in TeamDeletions)
  BY DEF After, CleanRequests
<1>3. c \in CallRecords /\ c.pc \in {"idle", "replacing", "swept"} /\ ~InActor(c)
      /\ (c.pc = "replacing" => r \in Replacements) /\ (c.pc = "swept" => r \in TeamDeletions)
  <2>1. CASE r \in Deletes
    BY <2>1, AtRest
  <2>2. CASE r \notin Deletes
    <3>1. c = [call[r] EXCEPT !.pc = pc]
      BY <2>2
    <3> HIDE DEF c, pc
    <3>2. call[r] \in CallRecords
      BY <1>1 DEF CleanTyped
    <3>3. c \in CallRecords /\ c.pc = pc
      BY <1>2, <3>1, <3>2 DEF CallRecords
    <3> QED BY <1>2, <2>2, <3>3 DEF InActor
  <2> QED BY <2>1, <2>2
<1>4. call' = [call EXCEPT ![r] = c]
  BY DEF DeletionReturns
<1> HIDE DEF c, pc
<1>5. call'[r] = c
  BY <1>1, <1>4 DEF CleanTyped
<1>6. /\ receipt' \in [Ids -> Receipts \cup {Absent}] /\ \A i \in Ids : receipt[i] # Absent => receipt'[i] # Absent
      /\ \A q \in Replacements : receipt'[q] = receipt[q]
      /\ \A t \in Roles \ {s} : Attempts(t)' = Attempts(t)
      /\ UNCHANGED receipt \/ (InActor(call[r]) /\ (Attempts(s)' # {} \/ patched[s] <= refused[s]))
  <2>1. CASE UNCHANGED receipt
    BY <1>1, <2>1 DEF CleanTyped, Attempts, DeletionIds
  <2>2. CASE /\ InActor(call[r])
             /\ \E i \in DeletionIds(s), deleted \in BOOLEAN, error \in {"none", "rejected"} :
                  /\ Recorded(i, "complete", deleted, error)
                  /\ deleted \/ patched[s] <= refused[s]
    <3>1. PICK i \in DeletionIds(s), deleted \in BOOLEAN, error \in {"none", "rejected"} :
            Recorded(i, "complete", deleted, error) /\ (deleted \/ patched[s] <= refused[s])
      BY <2>2
    <3>2. i \in Ids /\ i \notin Replacements /\ \A t \in Roles \ {s} : i \notin DeletionIds(t)
      BY <1>1, <3>1, DeletionIdentities
    <3>3. /\ receipt' \in [Ids -> Receipts \cup {Absent}] /\ receipt'[i] # Absent
          /\ \A j \in Ids \ {i} : receipt'[j] = receipt[j]
          /\ \A t \in Roles \ {s} : Attempts(t)' = Attempts(t)
          /\ deleted => i \in Attempts(s)'
      BY <1>1, <3>1, <3>2, RecordedOne
    <3> QED BY <2>2, <3>1, <3>2, <3>3 DEF Ids, CleanRequests
  <2> QED BY <1>0, <2>1, <2>2
<1>7. \A t \in Roles : Same(t) \/ (InActor(call[r]) /\ call[r].of = t /\ Noticed(t)')
  <2>1. Noticed(s)' \/ UNCHANGED receipt
    BY <1>1, <1>6 DEF Noticed
  <2> QED BY <1>0, <1>1, <1>6, <2>1 DEF Same, Attempts, DeletionIds
<1>8. Fine(r)'
  <2>1. Derives(r)'
    BY <1>6, DerivesStill DEF Inside
  <2> QED BY <1>3, <1>5, <2>1 DEF Fine, AboutIts, MayAsk, Settled, Inside
<1>9. r \in Replacements => MadeOnce(r)'
  BY <1>6 DEF CleanInv, MadeOnce
<1> QED BY <1>1, <1>3, <1>4, <1>6, <1>7, <1>8, <1>9, CallMoves DEF CleanTyped

(* In the actor, with nothing attempted or an attempt to look into.        *)
LEMMA BeginsKeeps == ASSUME CleanInv, NEW r \in CleanRequests, DeletionBegins(r) PROVE CleanInv'
<1>0. PICK s \in Roles : s = call[r].of /\ call[r].id \in DeletionIds(s)
  BY DEF CleanInv, Fine, AboutIts, DeletionBegins
<1>1. /\ call[r].pc = "deleting" /\ ActorFree(s) /\ UNCHANGED <<receipt, patched, refused, successors, work>>
      /\ CleanTyped /\ Fine(r)
  BY <1>0 DEF DeletionBegins, provider, roleVars, CleanInv
<1>2. CASE DeletionReturns(r)
  BY <1>1, <1>2, DeletionOver
<1>3. ASSUME ~DeletionReturns(r) PROVE CleanInv'
  <2>1. PICK p \in IF receipt[call[r].id] # Absent THEN {call[r].id} ELSE IF Attempts(s) = {} THEN {Absent} ELSE Attempts(s) :
          /\ ~(p # Absent /\ Status(p) = "complete")
          /\ ~((p = Absent \/ Status(p) = "attempted") /\ (team = "deleted" \/ (r \in Deletes /\ s \in work)))
          /\ call' = [call EXCEPT ![r].pc = "opening", ![r].prior = p]
    BY <1>0, <1>3 DEF DeletionBegins
  <2>2. p \in DeletionIds(s) \cup {Absent} /\ (p = Absent => Attempts(s) = {}) /\ (p # Absent => receipt[p] \in Receipts)
    <3>1. DeletionIds(s) \subseteq Ids /\ Absent \notin Ids
      BY DeletionIdentities, AbsentIsNothing
    <3> QED BY <1>0, <1>1, <2>1, <3>1 DEF Attempts, CleanTyped
  <2>3. r \in Deletes => s \notin work
    BY <2>1, <2>2, AbsentIsNothing DEF Status, Receipts
  <2> DEFINE c == [call[r] EXCEPT !.pc = "opening", !.prior = p]
  <2>4. /\ c \in CallRecords /\ c.pc = "opening" /\ c.prior = p /\ c.of = s /\ c.id = call[r].id
        /\ call' = [call EXCEPT ![r] = c]
    <3>1. call[r] \in CallRecords /\ p \in Ids \cup {Absent}
      BY <1>1, <2>2, DeletionIdentities DEF CleanTyped
    <3> QED BY <1>0, <2>1, <3>1 DEF CallRecords, Inside
  <2> HIDE DEF c
  <2>5. call'[r] = c
    BY <1>1, <2>4 DEF CleanTyped
  <2>6. \A t \in Roles : Same(t)
    BY <1>1 DEF Same, Attempts, DeletionIds
  <2>7. Fine(r)'
    <3>1. Derives(r)'
      BY <1>1, DerivesStill
    <3>2. AboutIts(r)' /\ MayAsk(r)' /\ Settled(r)'
      BY <1>0, <1>1, <2>2, <2>3, <2>4, <2>5, <2>6 DEF AboutIts, MayAsk, Settled, Same, DeletionIds, Inside
    <3> QED BY <3>1, <3>2 DEF Fine
  <2>8. r \in Replacements => MadeOnce(r)'
    BY <1>1 DEF CleanInv, MadeOnce
  <2> QED BY <1>1, <2>4, <2>6, <2>7, <2>8, CallMoves DEF CleanTyped
<1> QED BY <1>2, <1>3

(* The attempt is recorded before the provider is asked.                   *)
LEMMA OpenedKeeps == ASSUME CleanInv, NEW r \in CleanRequests, Opened(r) \/ OpeningFails(r) PROVE CleanInv'
<1>0. PICK s \in Roles : s = call[r].of /\ call[r].id \in DeletionIds(s) /\ call[r].prior \in DeletionIds(s) \cup {Absent}
  BY DEF CleanInv, Fine, AboutIts, Opened, OpeningFails, Inside
<1>1. call[r].pc = "opening" /\ InActor(call[r]) /\ UNCHANGED <<patched, refused, successors, work>> /\ CleanTyped /\ Fine(r)
  BY DEF Opened, OpeningFails, provider, roleVars, CleanInv, InActor
<1>2. CASE UNCHANGED receipt /\ DeletionReturns(r)
  BY <1>1, <1>2, DeletionOver DEF Inside
<1>3. CASE Confirms(r) /\ DeletionReturns(r)
  <2>1. \E i \in DeletionIds(s) : Recorded(i, "complete", TRUE, "none")
    BY <1>0, <1>3 DEF Confirms
  <2> QED BY <1>0, <1>1, <1>3, <2>1, DeletionOver DEF Inside
<1>4. CASE /\ call[r].prior = Absent /\ Recorded(call[r].id, "attempted", FALSE, "unknown")
           /\ Goes(r, "patching")
  <2> DEFINE c == [call[r] EXCEPT !.pc = "patching"]
  <2>2. /\ c \in CallRecords /\ c.pc = "patching" /\ c.of = s /\ c.id = call[r].id /\ c.prior = Absent
        /\ call' = [call EXCEPT ![r] = c]
    <3>1. call[r] \in CallRecords
      BY <1>1 DEF CleanTyped
    <3> QED BY <1>0, <1>4, <3>1 DEF Goes, CallRecords, Inside
  <2> HIDE DEF c
  <2>3. call'[r] = c
    BY <1>1, <2>2 DEF CleanTyped
  <2>4. PICK i \in DeletionIds(s) : i = call[r].id
    BY <1>0
  <2>5. i \in Ids /\ i \notin Replacements /\ \A t \in Roles \ {s} : i \notin DeletionIds(t)
    BY DeletionIdentities
  <2>6. /\ receipt' \in [Ids -> Receipts \cup {Absent}] /\ receipt'[i] # Absent
        /\ \A j \in Ids \ {i} : receipt'[j] = receipt[j]
        /\ \A t \in Roles \ {s} : Attempts(t)' = Attempts(t)
        /\ i \in Attempts(s)'
    BY <1>1, <1>4, <2>4, <2>5, RecordedOne
  <2>7. patched[s] <= refused[s]
    BY <1>0, <1>1, <1>4 DEF Fine, MayAsk, CleanInv, Noticed
  <2>8. \A q \in Replacements : receipt'[q] = receipt[q]
    BY <2>5, <2>6 DEF Ids, CleanRequests
  <2>9. \A t \in Roles : Same(t) \/ (InActor(call[r]) /\ call[r].of = t /\ Noticed(t)')
    BY <1>0, <1>1, <2>6 DEF Same, CleanInv, Noticed
  <2>10. Fine(r)'
    <3>1. Derives(r)'
      BY <1>1, <2>6, <2>8, DerivesStill
    <3>2. Settled(r)'
      BY <1>0, <1>1, <2>2, <2>3 DEF Fine, Settled
    <3>3. AboutIts(r)' /\ MayAsk(r)'
      BY <1>0, <1>1, <2>2, <2>3, <2>4, <2>6, <2>7 DEF AboutIts, MayAsk, DeletionIds, Inside
    <3> QED BY <3>1, <3>2, <3>3 DEF Fine
  <2>11. r \in Replacements => MadeOnce(r)'
    BY <1>1, <2>8 DEF CleanInv, MadeOnce
  <2> QED BY <1>0, <1>1, <2>2, <2>6, <2>8, <2>9, <2>10, <2>11, CallMoves DEF CleanTyped
<1> QED BY <1>1, <1>2, <1>3, <1>4 DEF Opened, OpeningFails

(* The provider is asked.                                                  *)
LEMMA AskedKeeps == ASSUME CleanInv, NEW r \in CleanRequests, DeletesOnce(r) PROVE CleanInv'
<1>0. PICK s \in Roles : s = call[r].of /\ call[r].id \in DeletionIds(s) /\ call[r].prior \in DeletionIds(s) \cup {Absent}
  BY DEF CleanInv, Fine, AboutIts, DeletesOnce, Inside
<1>1. /\ call[r].pc = "patching" /\ InActor(call[r]) /\ UNCHANGED <<receipt, successors, work>> /\ CleanTyped /\ Fine(r)
      /\ patched[s] <= refused[s] /\ call[r].id \in Attempts(s)
  BY <1>0 DEF DeletesOnce, roleVars, CleanInv, InActor, Fine, MayAsk
<1>2. PICK pc \in {"landed", "refused", "unknown"} :
        /\ Goes(r, pc) /\ patched' = [patched EXCEPT ![s] = @ + 1]
        /\ refused' = IF pc = "refused" THEN [refused EXCEPT ![s] = @ + 1] ELSE refused
  BY <1>0 DEF DeletesOnce
<1> DEFINE c == [call[r] EXCEPT !.pc = pc]
<1>3. /\ c \in CallRecords /\ c.pc = pc /\ c.of = s /\ c.id = call[r].id /\ c.prior = call[r].prior
      /\ call' = [call EXCEPT ![r] = c]
  <2>1. call[r] \in CallRecords
    BY <1>1 DEF CleanTyped
  <2> QED BY <1>0, <1>2, <2>1 DEF Goes, CallRecords, Inside
<1> HIDE DEF c
<1>4. call'[r] = c
  BY <1>1, <1>3 DEF CleanTyped
<1>5. /\ patched' \in [Roles -> Nat] /\ refused' \in [Roles -> Nat]
      /\ \A t \in Roles \ {s} : patched'[t] = patched[t] /\ refused'[t] = refused[t]
      /\ patched'[s] = patched[s] + 1 /\ refused'[s] >= refused[s]
      /\ pc = "refused" => patched'[s] <= refused'[s]
  BY <1>1, <1>2 DEF CleanTyped
<1>6. \A t \in Roles : Attempts(t)' = Attempts(t)
  BY <1>1 DEF Attempts, DeletionIds
<1>7. Noticed(s)'
  BY <1>1, <1>5, <1>6 DEF Noticed, CleanTyped
<1>8. \A t \in Roles : Same(t) \/ (InActor(call[r]) /\ call[r].of = t /\ Noticed(t)')
  BY <1>0, <1>1, <1>5, <1>6, <1>7 DEF Same
<1>9. Fine(r)'
  <2>1. Derives(r)'
    BY <1>1, DerivesStill
  <2>2. AboutIts(r)' /\ Settled(r)'
    BY <1>0, <1>2, <1>3, <1>4 DEF AboutIts, Settled, DeletionIds, Inside
  <2>3. MayAsk(r)'
    BY <1>1, <1>2, <1>3, <1>4, <1>5, <1>6 DEF MayAsk
  <2> QED BY <2>1, <2>2, <2>3 DEF Fine
<1>10. r \in Replacements => MadeOnce(r)'
  BY <1>1 DEF CleanInv, MadeOnce
<1> QED BY <1>0, <1>1, <1>3, <1>5, <1>8, <1>9, <1>10, CallMoves DEF CleanTyped

LEMMA EndsKeeps == ASSUME CleanInv, NEW r \in CleanRequests, DeletionEnds(r) PROVE CleanInv'
<1>0. PICK s \in Roles : s = call[r].of /\ call[r].id \in DeletionIds(s) /\ call[r].prior \in DeletionIds(s) \cup {Absent}
  BY DEF CleanInv, Fine, AboutIts, DeletionEnds, Inside
<1>1. /\ call[r].pc \in {"landed", "refused", "unknown"} /\ InActor(call[r]) /\ DeletionReturns(r)
      /\ UNCHANGED <<patched, refused, successors, work>> /\ Fine(r)
  BY DEF DeletionEnds, provider, CleanInv, InActor
<1>2. CASE call[r].pc = "landed"
  <2>1. \E i \in DeletionIds(s) : Recorded(i, "complete", TRUE, "none")
    BY <1>0, <1>2 DEF DeletionEnds, Confirms
  <2> QED BY <1>0, <1>1, <2>1, DeletionOver DEF Inside
<1>3. CASE call[r].pc = "refused"
  <2>1. Recorded(call[r].id, "complete", FALSE, "rejected") /\ patched[s] <= refused[s]
    BY <1>0, <1>1, <1>3 DEF DeletionEnds, Fine, MayAsk
  <2> QED BY <1>0, <1>1, <2>1, DeletionOver DEF Inside
<1>4. CASE call[r].pc = "unknown"
  BY <1>1, <1>4, DeletionOver DEF DeletionEnds, Inside
<1> QED BY <1>1, <1>2, <1>3, <1>4

-----------------------------------------------------------------------------
(* Replacements and team deletions.                                        *)

(* A step outside the actor, which writes at most the request's own        *)
(* receipt and that of no deletion.                                        *)
LEMMA OutsideMoves ==
  ASSUME CleanInv, NEW r \in CleanRequests, NEW c \in CallRecords, call' = [call EXCEPT ![r] = c], ~InActor(c),
         UNCHANGED <<patched, refused, work>>, successors' \in [Replacements -> Nat],
         \A q \in Replacements \ {r} : successors'[q] = successors[q],
         \/ UNCHANGED receipt
         \/ /\ r \in Replacements \cup TeamDeletions
            /\ \E st \in {"attempted", "complete"}, deleted \in BOOLEAN,
                  error \in {"none", "unknown", "preserved", "confirmed", "rejected", "refused", "uncertain", "not-attempted"} :
                 Recorded(r, st, deleted, error),
         c.pc = "deleting" => c.of \in Roles /\ c.id \in DeletionIds(c.of) /\ c.prior \in DeletionIds(c.of) \cup {Absent},
         c.pc = "replacing" => r \in Replacements, c.pc \in {"swept", "next"} => r \in TeamDeletions,
         Derives(r)', r \in Replacements => MadeOnce(r)'
  PROVE  CleanInv'
<1>1. CleanTyped /\ call'[r] = c
  BY DEF CleanInv, CleanTyped
<1>2. /\ receipt' \in [Ids -> Receipts \cup {Absent}] /\ \A i \in Ids : receipt[i] # Absent => receipt'[i] # Absent
      /\ \A q \in Replacements \ {r} : receipt'[q] = receipt[q]
      /\ \A s \in Roles : Attempts(s)' = Attempts(s)
  <2>1. CASE UNCHANGED receipt
    BY <1>1, <2>1 DEF CleanTyped, Attempts, DeletionIds
  <2>2. CASE /\ r \in Replacements \cup TeamDeletions
             /\ \E st \in {"attempted", "complete"}, deleted \in BOOLEAN,
                   error \in {"none", "unknown", "preserved", "confirmed", "rejected", "refused", "uncertain", "not-attempted"} :
                  Recorded(r, st, deleted, error)
    <3>1. r \in Ids /\ (\A q \in Replacements : q \in Ids) /\ \A s \in Roles : r \notin DeletionIds(s)
      BY <2>2, DeletionIdentities DEF Ids, CleanRequests
    <3> QED BY <1>1, <2>2, <3>1, RecordedOne
  <2> QED BY <2>1, <2>2
<1>3. \A s \in Roles : Same(s)
  BY <1>2 DEF Same
<1>4. Fine(r)'
  BY <1>1 DEF Fine, AboutIts, MayAsk, Settled, InActor, Inside, DeletionIds, CallRecords
<1> QED BY <1>1, <1>2, <1>3, <1>4, CallMoves DEF CleanTyped

LEMMA CallsKeep == ASSUME CleanInv, NEW r \in CleanRequests, CallsDelete(r) \/ CallsReplace(r) PROVE CleanInv'
<1>1. PICK s \in Roles, i \in Ids :
        /\ i \in DeletionIds(s)
        /\ call' = [call EXCEPT ![r] = [NoCall EXCEPT !.pc = "deleting", !.of = s, !.id = i]]
        /\ r \in Replacements => s = Target[r] /\ i = Derived(r, s) /\ (receipt[r] # Absent => receipt[i] # Absent)
        /\ UNCHANGED <<receipt, patched, refused, work, successors>>
  <2>1. CASE CallsDelete(r)
    <3>1. Target[r] \in Roles /\ r \in DeletionIds(Target[r]) /\ r \in Ids /\ r \notin Replacements
      BY <2>1, Targets, Identities DEF CallsDelete, DeletionIds, Ids
    <3> QED BY <2>1, <3>1 DEF CallsDelete, provider, roleVars
  <2>2. CASE CallsReplace(r)
    <3>1. /\ Target[r] \in Roles /\ Derived(r, Target[r]) \in DeletionIds(Target[r]) /\ r \in Replacements
          /\ Derived(r, Target[r]) \in Ids
      BY <2>2, Targets, DeletionIdentities DEF CallsReplace
    <3>2. receipt[r] # Absent => receipt[Derived(r, Target[r])] # Absent
      BY <2>2, <3>1 DEF CallsReplace, Status, CleanInv, MadeOnce
    <3> QED BY <2>2, <3>1, <3>2 DEF CallsReplace, provider, roleVars
  <2> QED BY <2>1, <2>2
<1> DEFINE c == [NoCall EXCEPT !.pc = "deleting", !.of = s, !.id = i]
<1>2. /\ c \in CallRecords /\ c.pc = "deleting" /\ c.of = s /\ c.id = i /\ c.prior = Absent
      /\ call' = [call EXCEPT ![r] = c]
  <2> QED BY <1>1 DEF NoCall, CallRecords
<1> HIDE DEF c
<1>3. Derives(r)'
  BY <1>1, <1>2 DEF Derives
<1>4. r \in Replacements => MadeOnce(r)'
  BY <1>1 DEF CleanInv, MadeOnce
<1> QED BY <1>1, <1>2, <1>3, <1>4, OutsideMoves DEF InActor, CleanInv, CleanTyped

(* A successor is made, the receipt in the same transaction.               *)
LEMMA MadeWithReceipt ==
  ASSUME CleanInv, NEW r \in Replacements, receipt[r] = Absent,
         NEW c \in CallRecords, c.pc = "idle", call' = [call EXCEPT ![r] = c], UNCHANGED <<patched, refused, work>>,
         successors' = [successors EXCEPT ![r] = @ + 1],
         NEW deleted \in BOOLEAN, NEW error \in {"preserved", "confirmed", "refused", "uncertain", "not-attempted"},
         Recorded(r, "complete", deleted, error)
  PROVE  CleanInv'
<1>1. r \in CleanRequests /\ r \in Ids /\ CleanTyped /\ MadeOnce(r)
  BY DEF CleanRequests, Ids, CleanInv
<1>2. successors[r] = 0 /\ successors' \in [Replacements -> Nat] /\ successors'[r] = 1
      /\ \A q \in Replacements \ {r} : successors'[q] = successors[q]
  BY <1>1 DEF MadeOnce, CleanTyped
<1>3. receipt'[r] # Absent /\ receipt'[r].status = "complete"
  BY <1>1, RecordedOne
<1>4. call'[r] = c
  BY <1>1 DEF CleanTyped
<1>5. Derives(r)' /\ MadeOnce(r)'
  BY <1>2, <1>3, <1>4 DEF Derives, MadeOnce
<1>6. ~InActor(c)
  BY DEF InActor
<1> QED BY <1>1, <1>2, <1>5, <1>6, OutsideMoves

LEMMA PreserveKeeps == ASSUME CleanInv, NEW r \in CleanRequests, CallsPreserve(r) PROVE CleanInv'
<1>1. r \in Replacements /\ call[r] \in CallRecords /\ call[r].pc = "idle" /\ call' = [call EXCEPT ![r] = call[r]]
      /\ UNCHANGED <<patched, refused, work>>
  BY DEF CallsPreserve, CleanInv, CleanTyped, provider
<1>2. receipt[r] = Absent
  BY <1>1, AbsentIsNothing DEF CallsPreserve, Status, CleanInv, MadeOnce
<1> QED BY <1>1, <1>2, MadeWithReceipt DEF CallsPreserve

(* What a replacement says of its deletion.                                *)
LEMMA OutcomeIsKnown ==
  ASSUME NEW r \in Replacements
  PROVE  Outcome(r) \subseteq {"not-attempted", "confirmed", "refused", "uncertain"}
BY DEF Outcome

LEMMA ReplacedKeeps == ASSUME CleanInv, NEW r \in CleanRequests, Reconfirms(r) \/ Creates(r) PROVE CleanInv'
<1>1. /\ call[r].pc = "replacing" /\ r \in Replacements /\ r \in Ids /\ call' = [call EXCEPT ![r] = NoCall]
      /\ UNCHANGED <<patched, refused, work>> /\ CleanTyped /\ MadeOnce(r) /\ Derives(r)
  BY DEF Reconfirms, Creates, Returns, provider, CleanInv, Fine, AboutIts, Ids, CleanRequests
<1>2. call'[r] = NoCall /\ Derives(r)'
  BY <1>1, AtRest DEF CleanTyped, Derives
<1>3. CASE Reconfirms(r)
  <2> DEFINE d == Gone(Derived(r, Target[r]))
             e == IF d THEN "confirmed" ELSE receipt[r].error
  <2>1. receipt[r] \in Receipts /\ receipt[Derived(r, Target[r])] \in Receipts
    <3>1. receipt[r] # Absent
      BY <1>3 DEF Reconfirms, Status
    <3>2. receipt[Derived(r, Target[r])] # Absent /\ Derived(r, Target[r]) \in Ids
      BY <1>1, <3>1, Targets DEF Derives, Ids
    <3> QED BY <1>1, <3>1, <3>2 DEF CleanTyped
  <2>2. d \in BOOLEAN /\ e \in {"none", "unknown", "rejected", "preserved", "confirmed", "refused", "uncertain", "not-attempted"}
    BY <2>1 DEF Gone, Receipts
  <2>3. Recorded(r, "complete", d, e) /\ UNCHANGED successors
    BY <1>3 DEF Reconfirms, roleVars
  <2> HIDE DEF d, e
  <2>4. MadeOnce(r)'
    <3>1. receipt'[r] # Absent /\ receipt'[r].status = "complete"
      BY <1>1, <2>2, <2>3, RecordedOne
    <3> QED BY <1>1, <2>3, <3>1 DEF MadeOnce
  <2> QED BY <1>1, <1>2, <2>2, <2>3, <2>4, AtRest, OutsideMoves DEF CleanTyped
<1>4. CASE Creates(r)
  <2>1. CASE UNCHANGED <<successors, receipt>>
    <3>1. MadeOnce(r)'
      BY <1>1, <2>1 DEF MadeOnce
    <3> QED BY <1>1, <1>2, <2>1, <3>1, AtRest, OutsideMoves DEF CleanTyped
  <2>2. CASE /\ successors' = [successors EXCEPT ![r] = @ + 1]
             /\ \E o \in Outcome(r) : Recorded(r, "complete", o = "confirmed", o)
    <3>1. PICK o \in {"not-attempted", "confirmed", "refused", "uncertain"} : Recorded(r, "complete", o = "confirmed", o)
      BY <1>1, <2>2, OutcomeIsKnown
    <3>2. receipt[r] = Absent
      BY <1>1, <1>4 DEF Creates, Status, MadeOnce
    <3> DEFINE d == o = "confirmed"
    <3>3. d \in BOOLEAN /\ Recorded(r, "complete", d, o)
      BY <3>1
    <3> HIDE DEF d
    <3> QED BY <1>1, <2>2, <3>1, <3>2, <3>3, AtRest, MadeWithReceipt
  <2> QED BY <1>4, <2>1, <2>2 DEF Creates
<1> QED BY <1>3, <1>4

LEMMA TeamKeeps ==
  ASSUME CleanInv, NEW r \in CleanRequests, CallsDeleteTeam(r) \/ RetiresSession(r) \/ SessionSwept(r) \/ TeamDeleted(r)
  PROVE  CleanInv'
<1>1. r \in TeamDeletions /\ r \notin Replacements /\ CleanTyped /\ call[r] \in CallRecords
  BY Identities DEF CallsDeleteTeam, RetiresSession, SessionSwept, TeamDeleted, CleanInv, CleanTyped, Fine, AboutIts
<1>2. UNCHANGED <<patched, refused, work, successors>> /\ Derives(r)'
  BY <1>1 DEF CallsDeleteTeam, RetiresSession, SessionSwept, TeamDeleted, provider, roleVars, Derives
<1>3. CASE CallsDeleteTeam(r)
  <2> DEFINE c == [NoCall EXCEPT !.pc = "next", !.todo = Roles]
  <2>1. c \in CallRecords /\ c.pc = "next" /\ call' = [call EXCEPT ![r] = c]
    BY <1>3 DEF CallsDeleteTeam, NoCall, CallRecords
  <2>2. Recorded(r, "attempted", FALSE, "unknown")
    BY <1>3 DEF CallsDeleteTeam
  <2> HIDE DEF c
  <2> QED BY <1>1, <1>2, <2>1, <2>2, OutsideMoves DEF InActor, CleanTyped
<1>4. CASE RetiresSession(r)
  <2>1. PICK s \in call[r].todo :
          call' = [call EXCEPT ![r] = [NoCall EXCEPT !.pc = "deleting", !.of = s, !.id = Derived(r, s),
                                                      !.todo = call[r].todo \ {s}]]
    BY <1>4 DEF RetiresSession
  <2> DEFINE i == Derived(r, s)
             t == call[r].todo \ {s}
             c == [NoCall EXCEPT !.pc = "deleting", !.of = s, !.id = i, !.todo = t]
  <2>2. s \in Roles /\ i \in DeletionIds(s) /\ i \in Ids /\ t \in SUBSET Roles
    BY <1>1, DeletionIdentities DEF CallRecords
  <2>3. call' = [call EXCEPT ![r] = c] /\ UNCHANGED receipt
    BY <1>4, <2>1 DEF RetiresSession
  <2> HIDE DEF i, t
  <2>4. c \in CallRecords /\ c.pc = "deleting" /\ c.of = s /\ c.id = i /\ c.prior = Absent
    BY <2>2 DEF NoCall, CallRecords
  <2> HIDE DEF c
  <2> QED BY <1>1, <1>2, <2>2, <2>3, <2>4, OutsideMoves DEF InActor, CleanTyped
<1>5. CASE SessionSwept(r)
  <2> DEFINE c == [call[r] EXCEPT !.pc = "next"]
  <2>1. c \in CallRecords /\ c.pc = "next" /\ call' = [call EXCEPT ![r] = c] /\ UNCHANGED receipt
    BY <1>1, <1>5 DEF SessionSwept, Goes, CallRecords
  <2> HIDE DEF c
  <2> QED BY <1>1, <1>2, <2>1, OutsideMoves DEF InActor, CleanTyped
<1>6. CASE TeamDeleted(r)
  BY <1>1, <1>2, <1>6, AtRest, OutsideMoves DEF TeamDeleted, Returns, CleanTyped
<1> QED BY <1>3, <1>4, <1>5, <1>6

(* Open work, and a core that stops.                                       *)
LEMMA WorkKeeps == ASSUME CleanInv, NEW s \in Roles, WorkBegins(s) \/ WorkSettles(s) PROVE CleanInv'
<1>1. /\ UNCHANGED <<receipt, hidden, patched, refused, successors, call>>
      /\ work' \subseteq work \cup {s} /\ ActorFree(s)
  BY DEF WorkBegins, WorkSettles, provider, roleVars
<1>2. \A r \in CleanRequests : Settled(r)'
  BY <1>1 DEF CleanInv, Fine, Settled, ActorFree, InActor
<1>3. \A t \in Roles : Attempts(t)' = Attempts(t)
  BY <1>1 DEF Attempts, DeletionIds
<1>4. ASSUME NEW r \in CleanRequests PROVE Fine(r)'
  <2>1. Fine(r) /\ call'[r] = call[r]
    BY <1>1 DEF CleanInv
  <2>2. AboutIts(r)' /\ Derives(r)'
    BY <1>1, <2>1 DEF Fine, AboutIts, Derives, DeletionIds
  <2>3. MayAsk(r)'
    BY <1>1, <1>3, <2>1 DEF Fine, MayAsk, AboutIts, Inside
  <2> QED BY <1>2, <2>2, <2>3 DEF Fine
<1>5. CleanTyped' /\ OneInside' /\ (\A t \in Roles : Noticed(t)') /\ \A r \in Replacements : MadeOnce(r)'
  BY <1>1, <1>3 DEF CleanInv, CleanTyped, OneInside, InActor, Noticed, MadeOnce
<1> QED BY <1>4, <1>5 DEF CleanInv

LEMMA CrashKeeps == ASSUME CleanInv, CoreCrashes PROVE CleanInv'
<1>1. UNCHANGED <<receipt, patched, refused, successors>> /\ call' = [r \in CleanRequests |-> NoCall]
  BY DEF CoreCrashes, provider, roleVars
<1>2. CleanTyped' /\ \A r \in CleanRequests : call'[r].pc = "idle"
  BY <1>1, AtRest DEF CleanInv, CleanTyped
<1>3. OneInside' /\ \A r \in CleanRequests : Fine(r)'
  BY <1>2 DEF OneInside, InActor, Fine, AboutIts, Derives, MayAsk, Settled, Inside
<1>4. (\A t \in Roles : Noticed(t)') /\ \A r \in Replacements : MadeOnce(r)'
  BY <1>1 DEF CleanInv, Noticed, MadeOnce, Attempts, DeletionIds
<1> QED BY <1>2, <1>3, <1>4 DEF CleanInv

LEMMA CleanStep == ASSUME CleanInv, [CleanNext]_cleanVars PROVE CleanInv'
<1>1. CASE UNCHANGED cleanVars
  <2>1. UNCHANGED <<receipt, patched, refused, successors, work, call>>
    BY <1>1 DEF cleanVars
  <2>2. \A t \in Roles : Attempts(t)' = Attempts(t)
    BY <2>1 DEF Attempts, DeletionIds
  <2>3. \A r \in CleanRequests : Fine(r)'
    BY <2>1, <2>2 DEF CleanInv, Fine, AboutIts, Derives, MayAsk, Settled, DeletionIds, Inside
  <2>4. CleanTyped' /\ OneInside' /\ (\A t \in Roles : Noticed(t)') /\ \A r \in Replacements : MadeOnce(r)'
    BY <2>1, <2>2 DEF CleanInv, CleanTyped, OneInside, InActor, Noticed, MadeOnce
  <2> QED BY <2>3, <2>4 DEF CleanInv
<1>2. ASSUME NEW r \in CleanRequests,
             CallsDelete(r) \/ CallsReplace(r) \/ CallsPreserve(r) \/ CallsDeleteTeam(r) \/ Proceeds(r)
      PROVE  CleanInv'
  BY <1>2, CallsKeep, PreserveKeeps, TeamKeeps, BeginsKeeps, OpenedKeeps, AskedKeeps, EndsKeeps, ReplacedKeeps
     DEF Proceeds
<1> QED BY <1>1, <1>2, WorkKeeps, CrashKeeps DEF CleanNext

(* One call at a time is inside an actor, an attempt is recorded before    *)
(* the provider is asked, and every other request finds it: inductive, for *)
(* any sets of roles and requests.                                         *)
THEOREM CleanInvariant == CleanSpec => []CleanInv
<1> QED BY CleanStarts, CleanStep, PTL DEF CleanSpec

(* A deletion whose outcome is unknown is never sent again.                *)
THEOREM DeletionsAreNotRepeated == CleanSpec => []UnknownDeletionIsNotRepeated
<1>1. CleanInv => UnknownDeletionIsNotRepeated
  BY DEF CleanInv, Noticed, UnknownDeletionIsNotRepeated
<1> QED BY <1>1, CleanInvariant, PTL

(* A replacement makes one successor.                                      *)
THEOREM SuccessorsAreSingle == CleanSpec => []OneSuccessor
<1>1. CleanInv => OneSuccessor
  BY DEF CleanInv, MadeOnce, OneSuccessor
<1> QED BY <1>1, CleanInvariant, PTL

(* session.delete asks the provider only about conversations without open  *)
(* work.                                                                   *)
THEOREM DeletionsAreSettled == CleanSpec => SettledBeforeDeleted
<1>1. CleanInv /\ [CleanNext]_cleanVars
        => [\A r \in Deletes : call[r].pc = "patching" /\ call'[r].pc \in {"landed", "refused", "unknown"}
              => call[r].of \notin work]_cleanVars
  BY DEF CleanInv, Fine, Settled, CleanRequests
<1> QED BY <1>1, CleanInvariant, PTL DEF CleanSpec, SettledBeforeDeleted

(* How far a call is from its return: the sessions a team deletion has     *)
(* still to take, and the stage of the one at hand.                        *)
Stage(pc) ==
  CASE pc = "idle" -> 0
    [] pc = "next" -> 1
    [] pc \in {"replacing", "swept"} -> 2
    [] pc \in {"landed", "refused", "unknown"} -> 3
    [] pc = "patching" -> 4
    [] pc = "opening" -> 5
    [] pc = "deleting" -> 6

Distance(c) == IF c.pc = "idle" THEN 0 ELSE 6 * Cardinality(c.todo) + Stage(c.pc)
Nearer(r) == call[r].pc # "idle" => call'[r] = call[r] \/ Distance(call'[r]) < Distance(call[r])

LEMMA Distances ==
  ASSUME IsFiniteSet(Roles), NEW c \in CallRecords
  PROVE  /\ IsFiniteSet(c.todo) /\ Cardinality(c.todo) \in Nat /\ Stage(c.pc) \in 0..6
         /\ Distance(c) \in Nat /\ (c.pc # "idle" => Distance(c) > 0)
<1>1. IsFiniteSet(c.todo) /\ Cardinality(c.todo) \in Nat
  BY FS_Subset, FS_CardinalityType DEF CallRecords
<1>2. Stage(c.pc) \in 0..6 /\ (c.pc # "idle" => Stage(c.pc) \in 1..6)
  BY DEF CallRecords, Inside, Stage
<1> QED BY <1>1, <1>2 DEF Distance

(* A step of one call, to its end or to a later stage.                     *)
LEMMA StageFalls ==
  ASSUME CleanInv, IsFiniteSet(Roles), NEW r \in CleanRequests, call[r].pc # "idle",
         NEW c \in CallRecords, call' = [call EXCEPT ![r] = c],
         c.pc = "idle" \/ (c.todo = call[r].todo /\ Stage(c.pc) < Stage(call[r].pc))
  PROVE  \A q \in CleanRequests : Nearer(q)
<1>1. call[r] \in CallRecords /\ call'[r] = c /\ \A q \in CleanRequests \ {r} : call'[q] = call[q]
  BY DEF CleanInv, CleanTyped
<1>2. Distance(c) < Distance(call[r])
  <2>1. CASE c.pc = "idle"
    <3>1. Distance(c) = 0 /\ Distance(call[r]) > 0 /\ Distance(call[r]) \in Nat
      BY <1>1, <2>1, Distances DEF Distance
    <3> QED BY <3>1
  <2>2. CASE c.pc # "idle"
    <3>1. Cardinality(c.todo) \in Nat /\ Stage(c.pc) \in 0..6 /\ Stage(call[r].pc) \in 0..6
      BY <1>1, Distances
    <3> QED BY <2>2, <3>1 DEF Distance
  <2> QED BY <2>1, <2>2
<1> QED BY <1>1, <1>2 DEF Nearer

LEMMA ReturnsNearer ==
  ASSUME CleanInv, IsFiniteSet(Roles), NEW r \in CleanRequests,
         call[r].pc \in {"deleting", "replacing", "next"} \cup Inside, Returns(r) \/ DeletionReturns(r)
  PROVE  (call[r].pc \in {"replacing", "next"} => Returns(r)) => \A q \in CleanRequests : Nearer(q)
<1> SUFFICES ASSUME call[r].pc \in {"replacing", "next"} => Returns(r) PROVE \A q \in CleanRequests : Nearer(q)
  OBVIOUS
<1>1. call[r] \in CallRecords /\ call[r].pc # "idle"
  BY DEF CleanInv, CleanTyped, Inside
<1>2. CASE Returns(r) \/ r \in Deletes
  <2>1. call' = [call EXCEPT ![r] = NoCall]
    BY <1>2 DEF Returns, DeletionReturns
  <2> QED BY <1>1, <2>1, AtRest, StageFalls
<1>3. CASE ~Returns(r) /\ r \notin Deletes
  <2> DEFINE c == [call[r] EXCEPT !.pc = After(r)]
  <2>1. call' = [call EXCEPT ![r] = c]
    BY <1>3 DEF DeletionReturns
  <2>2. c.pc = After(r) /\ After(r) \in {"replacing", "swept"} /\ c.todo = call[r].todo
    BY <1>1, <1>3 DEF CallRecords, After
  <2>3. c \in CallRecords
    BY <1>1, <2>2 DEF CallRecords
  <2>4. call[r].pc \in {"deleting"} \cup Inside
    BY <1>3
  <2>5. Stage(c.pc) < Stage(call[r].pc)
    BY <2>2, <2>4 DEF Stage, Inside
  <2> QED BY <1>1, <2>1, <2>2, <2>3, <2>5, StageFalls
<1> QED BY <1>2, <1>3

LEMMA ProceedsNearer ==
  ASSUME CleanInv, IsFiniteSet(Roles), NEW r \in CleanRequests, Proceeds(r)
  PROVE  \A q \in CleanRequests : Nearer(q)
<1>0. call[r] \in CallRecords /\ call \in [CleanRequests -> CallRecords]
  BY DEF CleanInv, CleanTyped
<1>1. CASE DeletionBegins(r)
  <2>1. call[r].pc = "deleting"
    BY <1>1 DEF DeletionBegins
  <2>2. \/ DeletionReturns(r)
        \/ \E p \in Ids \cup {Absent} : call' = [call EXCEPT ![r].pc = "opening", ![r].prior = p]
    <3>1. call[r].id \in Ids \cup {Absent} /\ Attempts(call[r].of) \subseteq Ids
      BY <1>0, <2>1 DEF CallRecords, Attempts, CleanInv, Fine, AboutIts, Ids, DeletionIds, CleanRequests
    <3> QED BY <1>1, <3>1 DEF DeletionBegins
  <2>3. ASSUME NEW p \in Ids \cup {Absent}, call' = [call EXCEPT ![r].pc = "opening", ![r].prior = p]
        PROVE  \A q \in CleanRequests : Nearer(q)
    <3> DEFINE c == [call[r] EXCEPT !.pc = "opening", !.prior = p]
    <3>1. call' = [call EXCEPT ![r] = c] /\ c \in CallRecords /\ c.pc = "opening" /\ c.todo = call[r].todo
      BY <1>0, <2>3 DEF CallRecords, Inside
    <3>2. Stage(c.pc) < Stage(call[r].pc)
      BY <2>1, <3>1 DEF Stage
    <3> QED BY <2>1, <3>1, <3>2, StageFalls
  <2> QED BY <2>1, <2>2, <2>3, ReturnsNearer
<1>2. CASE OpeningFails(r) \/ DeletionEnds(r)
  <2>1. call[r].pc \in Inside /\ DeletionReturns(r)
    BY <1>2 DEF OpeningFails, DeletionEnds, Inside
  <2> QED BY <2>1, ReturnsNearer DEF Inside
<1>3. ASSUME NEW pc \in Inside, Goes(r, pc), call[r].pc # "idle", Stage(pc) < Stage(call[r].pc)
      PROVE  \A q \in CleanRequests : Nearer(q)
  <2> DEFINE c == [call[r] EXCEPT !.pc = pc]
  <2>1. call' = [call EXCEPT ![r] = c] /\ c \in CallRecords /\ c.pc = pc /\ c.todo = call[r].todo
    BY <1>0, <1>3 DEF CallRecords, Goes
  <2> QED BY <1>3, <2>1, StageFalls
<1>4. CASE Opened(r)
  <2>1. call[r].pc = "opening" /\ (DeletionReturns(r) \/ Goes(r, "patching"))
    BY <1>4 DEF Opened
  <2> QED BY <2>1, <1>3, ReturnsNearer DEF Inside, Stage
<1>5. CASE DeletesOnce(r)
  <2>1. call[r].pc = "patching" /\ \E pc \in {"landed", "refused", "unknown"} : Goes(r, pc)
    BY <1>5 DEF DeletesOnce
  <2> QED BY <2>1, <1>3 DEF Inside, Stage
<1>6. CASE Reconfirms(r) \/ Creates(r) \/ TeamDeleted(r)
  <2>1. call[r].pc \in {"replacing", "next"} /\ Returns(r)
    BY <1>6 DEF Reconfirms, Creates, TeamDeleted
  <2> QED BY <2>1, ReturnsNearer
<1>7. CASE SessionSwept(r)
  <2> DEFINE c == [call[r] EXCEPT !.pc = "next"]
  <2>1. call[r].pc = "swept" /\ call' = [call EXCEPT ![r] = c] /\ c \in CallRecords /\ c.pc = "next" /\ c.todo = call[r].todo
    BY <1>0, <1>7 DEF SessionSwept, CallRecords, Goes
  <2>2. Stage(c.pc) < Stage(call[r].pc)
    BY <2>1 DEF Stage
  <2> QED BY <2>1, <2>2, StageFalls
<1>8. CASE RetiresSession(r)
  <2>1. PICK s \in call[r].todo :
          call' = [call EXCEPT ![r] = [NoCall EXCEPT !.pc = "deleting", !.of = s, !.id = Derived(r, s),
                                                     !.todo = call[r].todo \ {s}]]
    BY <1>8 DEF RetiresSession
  <2> DEFINE T == call[r].todo
             c == [NoCall EXCEPT !.pc = "deleting", !.of = s, !.id = Derived(r, s), !.todo = T \ {s}]
  <2>2. call[r].pc = "next" /\ IsFiniteSet(T) /\ Cardinality(T) \in Nat
    BY <1>0, <1>8, Distances DEF RetiresSession
  <2>3. Cardinality(T \ {s}) = Cardinality(T) - 1
    BY <2>1, <2>2, FS_RemoveElement
  <2>4. c.pc = "deleting" /\ c.todo = T \ {s}
    BY DEF NoCall
  <2>5. call'[r] = c /\ \A q \in CleanRequests \ {r} : call'[q] = call[q]
    BY <1>0, <2>1
  <2> HIDE DEF c
  <2>6. Distance(c) < Distance(call[r])
    BY <2>2, <2>3, <2>4 DEF Distance, Stage
  <2> QED BY <2>5, <2>6 DEF Nearer
<1> QED BY <1>1, <1>2, <1>4, <1>5, <1>6, <1>7, <1>8 DEF Proceeds

(* Every step of a deletion, a replacement or a team deletion brings it    *)
(* nearer to its return, no step of another takes it back, and a crash     *)
(* ends it: nothing is gone through twice.                                 *)
THEOREM CleanupsComeNearer ==
  ASSUME IsFiniteSet(Roles)
  PROVE  CleanSpec => [][\A r \in CleanRequests : Nearer(r)]_cleanVars
<1>1. ASSUME CleanInv, CleanNext PROVE \A r \in CleanRequests : Nearer(r)
  <2>0. call \in [CleanRequests -> CallRecords]
    BY <1>1 DEF CleanInv, CleanTyped
  <2>1. ASSUME NEW q \in CleanRequests, CallsDelete(q) \/ CallsReplace(q) \/ CallsPreserve(q) \/ CallsDeleteTeam(q)
        PROVE  \A r \in CleanRequests : Nearer(r)
    <3>1. call[q].pc = "idle" /\ (call' = call \/ \E c : call' = [call EXCEPT ![q] = c])
      BY <2>1 DEF CallsDelete, CallsReplace, CallsPreserve, CallsDeleteTeam
    <3>2. \A r \in CleanRequests \ {q} : call'[r] = call[r]
      BY <2>0, <3>1
    <3> QED BY <3>1, <3>2 DEF Nearer
  <2>2. ASSUME NEW s \in Roles, WorkBegins(s) \/ WorkSettles(s) PROVE \A r \in CleanRequests : Nearer(r)
    BY <2>2 DEF WorkBegins, WorkSettles, Nearer
  <2>3. CASE CoreCrashes
    <3> SUFFICES ASSUME NEW r \in CleanRequests, call[r].pc # "idle" PROVE Distance(call'[r]) < Distance(call[r])
      BY DEF Nearer
    <3>1. Distance(call'[r]) = 0
      BY <2>3, AtRest DEF CoreCrashes, Distance
    <3>2. Distance(call[r]) \in Nat /\ Distance(call[r]) > 0
      BY <2>0, Distances
    <3> QED BY <3>1, <3>2
  <2> QED BY <1>1, <2>1, <2>2, <2>3, ProceedsNearer DEF CleanNext
<1>2. CleanInv /\ [CleanNext]_cleanVars => [\A r \in CleanRequests : Nearer(r)]_cleanVars
  BY <1>1
<1> QED BY <1>2, CleanInvariant, PTL DEF CleanSpec
=============================================================================
