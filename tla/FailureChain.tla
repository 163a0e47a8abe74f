---------------------------- MODULE FailureChain ----------------------------
(***************************************************************************)
(* src/core/thinking-failure-recovery.ts: a request that opted in is       *)
(* continued by the core itself when its provider run fails, once per      *)
(* failed generation, after a growing pause that survives a restart, and   *)
(* only over a page on which nobody has done anything else.  One session;  *)
(* a step is what happens between two awaits.                              *)
(***************************************************************************)
EXTENDS Integers, Sequences

CONSTANTS
  MaxChainGens,   \* bound: generations of the session
  MaxChainMoves,  \* bound: acts of people, recovery sweeps and crashes
  Backoff,        \* by attempt: the pause before a continuation
  Deadline        \* of the first request, never reset

ASSUME ChainBounds == MaxChainGens \in Nat \ {0} /\ MaxChainMoves \in Nat
ASSUME BackoffGrows == Backoff \in [1..MaxChainGens -> Nat \ {0}]
ASSUME DeadlineIsLater == Deadline \in Nat

VARIABLES
  gens,        \* durable: the generations of the session
  halted,      \* durable: the receipt thinking-failure-paused of the chain
  clock,
  shows,       \* the page: "working", "failed" or "answered"
  trouble,     \* the page: what a person has done to it
  chain,       \* the operation #mutex admits, if any
  bound,       \* the page is owned: a restarted browser's pages are nobody's at first
  sweep,       \* the browser's recovery and the generation it read as unfinished
  restoring,   \* the core has just started
  clicks,      \* history: continuations sent, by generation
  late,        \* history: trouble that came after the last look
  chainMoves   \* bound: moves made so far

chainVars == <<gens, halted, clock, shows, trouble, bound, chain, sweep, restoring, clicks, late, chainMoves>>
pageVars == <<shows, trouble, bound>>
outVars == <<clock, sweep, chainMoves>>

Current == Len(gens)
Last == gens[Current]
NoChain == [pc |-> "idle", gen |-> 0, watched |-> FALSE, aborted |-> FALSE]
Generation(ours, attempt, sub) ==
  [ours |-> ours, attempt |-> attempt, sub |-> sub, end |-> "active", done |-> 0, made |-> clock]

ChainInit ==
  /\ clock = 0
  /\ gens = <<[ours |-> TRUE, attempt |-> 0, sub |-> "submitted", end |-> "active", done |-> 0, made |-> 0]>>
  /\ halted = FALSE /\ shows = "working" /\ trouble = {} /\ bound = TRUE
  /\ chain = NoChain /\ sweep = 0 /\ restoring = FALSE
  /\ clicks = [g \in 1..MaxChainGens |-> 0] /\ late = FALSE /\ chainMoves = 0

Step(pc) == chain' = [chain EXCEPT !.pc = pc]
Ended == chain' = NoChain
Expired == clock >= Deadline
\* The last instant of the bounded clock stands for all that follow.
Horizon == Deadline + 1
\* verifyFailureContinuation: the failure is what the page shows, and all else as it was left.
LooksRight == bound /\ shows = "failed" /\ trouble = {}

\* The catch of observe: any doubt pauses the whole chain, for good.
Pauses == halted' = TRUE /\ Ended

-----------------------------------------------------------------------------
(* Into #continue: from an observer that sees the alert, or from restore.  *)

\* Mutant: the receipt is looked for under the request, not under the chain's root.
AdmittedByRequest(g) == gens[g].ours /\ (halted => gens[g].attempt > 0)

Admitted(g) == gens[g].ours /\ ~halted

\* Mutant: a failure found after a restart has waited long enough.
FirstInHaste(g) ==
  IF gens[g].sub = "prepared" THEN "again"
  ELSE IF gens[g].end = "alert" THEN "reconcile" ELSE "inspect"

FirstStep(g) ==
  IF gens[g].sub = "prepared" THEN "again"
  ELSE IF gens[g].end = "alert" THEN "reconcile" ELSE "backoff"

Enters(g, watched) ==
  IF ~Admitted(g) THEN UNCHANGED <<chain, halted>>
  ELSE IF gens[g].sub = "submitted" /\ gens[g].end \notin {"alert", "failed"} THEN UNCHANGED <<chain, halted>>
  ELSE IF Expired THEN halted' = TRUE /\ UNCHANGED chain
  ELSE /\ chain' = [pc |-> FirstStep(g), gen |-> g, watched |-> watched, aborted |-> FALSE]
       /\ UNCHANGED halted

\* The observer records the alert, then hands it over unless the chain is busy;
\* it looks again as long as the generation is not over.
ObserverSees ==
  /\ Last.sub = "submitted" /\ Last.end = "active" /\ bound /\ ~restoring
  /\ \/ /\ shows = "failed" /\ gens' = [gens EXCEPT ![Current].end = "alert"]
     \/ shows = "answered" /\ trouble = {} /\ gens' = [gens EXCEPT ![Current].end = "complete"]
  /\ UNCHANGED <<halted, pageVars, chain, restoring, clicks, late, outVars>>

ObserverHandsOver ==
  /\ Last.sub = "submitted" /\ Last.end = "alert" /\ bound /\ Admitted(Current) /\ ~restoring
  /\ chain.pc = "idle" /\ Enters(Current, TRUE)
  /\ UNCHANGED <<gens, pageVars, restoring, clicks, late, outVars>>

Restores ==
  /\ restoring /\ restoring' = FALSE
  /\ IF Last.sub \in {"submitted", "prepared"} THEN Enters(Current, FALSE) ELSE UNCHANGED <<chain, halted>>
  /\ UNCHANGED <<gens, pageVars, clicks, late, outVars>>

-----------------------------------------------------------------------------
(* #continue, await by await.                                              *)

\* reconcileFailure, in the session's queue and on its page.
Reconciles ==
  /\ chain.pc = "reconcile"
  /\ IF chain.gen = Current /\ Last.end = "alert" /\ bound /\ shows = "failed" /\ "followup" \notin trouble
       THEN /\ gens' = [gens EXCEPT ![Current] = [@ EXCEPT !.end = "failed", !.done = clock]]
            /\ Step("backoff") /\ UNCHANGED halted
       ELSE Pauses /\ UNCHANGED gens
  /\ UNCHANGED <<pageVars, restoring, clicks, late, outVars>>

Due(g) == gens[g].done + Backoff[gens[g].attempt + 1]

BackoffEnds ==
  /\ chain.pc = "backoff" /\ ~chain.aborted /\ (clock >= Due(chain.gen) \/ clock = Horizon)
  /\ IF chain.gen # Current THEN Ended /\ UNCHANGED halted
     ELSE IF Expired THEN Pauses
     ELSE Step("inspect") /\ UNCHANGED halted
  /\ UNCHANGED <<gens, pageVars, restoring, clicks, late, outVars>>

\* An AbortError is swallowed: no receipt, and nobody is told.
BackoffAborted ==
  /\ chain.pc = "backoff" /\ chain.aborted /\ Ended
  /\ UNCHANGED <<gens, halted, pageVars, restoring, clicks, late, outVars>>

Inspects ==
  /\ chain.pc = "inspect"
  /\ IF chain.gen = Current /\ LooksRight THEN Step("send") /\ UNCHANGED halted ELSE Pauses
  /\ UNCHANGED <<gens, pageVars, restoring, clicks, late, outVars>>

\* session.send with the failed generation expected and its deadline kept.
Sends ==
  /\ chain.pc = "send" /\ Current < MaxChainGens
  /\ IF chain.gen = Current /\ ~Expired
       THEN /\ gens' = Append(gens, Generation(TRUE, Last.attempt + 1, "prepared"))
            /\ chain' = [chain EXCEPT !.pc = "verify", !.gen = Current + 1] /\ UNCHANGED halted
       ELSE Pauses /\ UNCHANGED gens
  /\ UNCHANGED <<pageVars, restoring, clicks, late, outVars>>

\* validateContinuation before the composer is filled, which keeps the child
\* prepared and tries once more by #prepare, where a refusal pauses.
Valid == gens[chain.gen - 1].end = "failed" /\ ~Expired /\ LooksRight

Verifies ==
  /\ chain.pc \in {"verify", "again"}
  /\ IF chain.gen = Current /\ Valid THEN Step("fill") /\ UNCHANGED halted
     ELSE IF chain.pc = "verify" THEN Step("again") /\ UNCHANGED halted
     ELSE Pauses
  /\ UNCHANGED <<gens, pageVars, restoring, clicks, late, outVars>>

\* Mutant: what was verified before the composer was filled still holds.
FillsBlindly ==
  /\ chain.pc = "fill" /\ late' = FALSE
  /\ gens' = [gens EXCEPT ![chain.gen].sub = "attempted"] /\ Step("click") /\ UNCHANGED halted
  /\ UNCHANGED <<pageVars, restoring, clicks, outVars>>

\* The composer is filled, everything is verified again, the attempt recorded.
Fills ==
  /\ chain.pc = "fill" /\ late' = FALSE
  /\ \/ /\ Valid
        /\ gens' = [gens EXCEPT ![chain.gen].sub = "attempted"] /\ Step("click") /\ UNCHANGED halted
     \/ Step("again") /\ UNCHANGED <<gens, halted>>
     \/ ~Valid /\ Pauses /\ UNCHANGED gens
  /\ UNCHANGED <<pageVars, restoring, clicks, outVars>>

Clicked == clicks' = [clicks EXCEPT ![chain.gen] = @ + 1] /\ shows' = "working"

\* submitOnce and the acknowledgement; anything but a confirmed one pauses.
Clicks ==
  /\ chain.pc = "click" /\ Clicked
  /\ \/ gens' = [gens EXCEPT ![chain.gen].sub = "submitted"] /\ Ended /\ UNCHANGED halted
     \/ gens' = [gens EXCEPT ![chain.gen].sub = "unknown"] /\ Pauses
  /\ UNCHANGED <<trouble, bound, restoring, late, outVars>>

-----------------------------------------------------------------------------
(* The provider, time, and the acknowledgement recovery of other modules.  *)

ProviderAnswers ==
  /\ shows = "working" /\ shows' \in {"failed", "answered"}
  /\ UNCHANGED <<gens, halted, clock, trouble, bound, chain, sweep, restoring, clicks, late, chainMoves>>

AcknowledgementFound ==
  /\ Last.sub = "unknown" /\ clicks[Current] > 0
  /\ gens' = [gens EXCEPT ![Current].sub = "submitted"]
  /\ UNCHANGED <<halted, pageVars, chain, restoring, clicks, late, outVars>>

Tick ==
  /\ clock < Horizon /\ clock' = clock + 1
  /\ UNCHANGED <<gens, halted, pageVars, chain, sweep, restoring, clicks, late, chainMoves>>

(* Moves: each uses up one of the bounded ones.                            *)

PersonActs(what) ==
  /\ trouble' = trouble \cup {what} /\ late' = (late \/ chain.pc = "click")
  /\ UNCHANGED <<gens, halted, clock, shows, bound, chain, sweep, restoring, clicks>>

\* Another sender starts the next generation; a failed one lets it.
OtherSends ==
  /\ Last.end \in {"failed", "complete"} /\ Current < MaxChainGens
  /\ gens' = Append(gens, Generation(FALSE, 0, "submitted")) /\ shows' = "working"
  /\ UNCHANGED <<halted, clock, trouble, bound, chain, sweep, restoring, clicks, late>>

\* restoreBrowser: restore reads what is unfinished, and when a session's turn
\* comes, after the awaits of those before it, stops the observer it read of
\* and gives the page back.  A failed generation's page is not brought back.
BrowserRestarts ==
  /\ sweep = 0 /\ bound' = FALSE
  /\ sweep' = IF Last.end \in {"active", "alert"} THEN Current ELSE 0
  /\ UNCHANGED <<gens, halted, clock, shows, trouble, chain, restoring, clicks, late>>

SweepStops ==
  /\ sweep # 0 /\ sweep' = 0 /\ bound' = (Last.end \in {"active", "alert"})
  /\ chain' = [chain EXCEPT !.aborted = @ \/ (chain.watched /\ chain.gen = sweep)]
  /\ UNCHANGED <<gens, halted, clock, shows, trouble, restoring, clicks, late, chainMoves>>

\* ensurePage for a caller of another operation.
PageReturns ==
  /\ ~bound /\ sweep = 0 /\ bound' = TRUE
  /\ UNCHANGED <<gens, halted, clock, shows, trouble, chain, sweep, restoring, clicks, late, chainMoves>>

\* The core stops and starts: an attempt whose end was not recorded is unknown.
ChainCrash ==
  /\ gens' = [g \in DOMAIN gens |-> [gens[g] EXCEPT !.sub = IF @ = "attempted" THEN "unknown" ELSE @]]
  /\ chain' = NoChain /\ sweep' = 0 /\ restoring' = TRUE /\ bound' = (Last.end \in {"active", "alert"})
  /\ \/ UNCHANGED <<clicks, shows>>
     \/ chain.pc = "click" /\ Clicked
  /\ UNCHANGED <<halted, clock, trouble, late>>

ChainMove ==
  /\ chainMoves < MaxChainMoves /\ chainMoves' = chainMoves + 1
  /\ \/ \E what \in {"followup", "draft", "model"} \ trouble : PersonActs(what)
     \/ OtherSends \/ BrowserRestarts \/ ChainCrash

Continuing ==
  \/ ObserverHandsOver \/ Restores
  \/ Reconciles \/ BackoffEnds \/ BackoffAborted \/ Inspects \/ Sends \/ Verifies \/ Fills \/ Clicks

ChainNext ==
  \/ ObserverSees \/ Continuing
  \/ ProviderAnswers \/ AcknowledgementFound \/ Tick
  \/ SweepStops \/ PageReturns \/ ChainMove

ChainSpec == ChainInit /\ [][ChainNext]_chainVars

-----------------------------------------------------------------------------

\* A chain that was paused sends nothing any more by itself, through restarts,
\* later acknowledgements and further failures.
PausedIsForGood == [][halted => clicks' = clicks]_chainVars

\* No continuation is made before the pause its failed predecessor earned is
\* over, counted from the failure's durable completion, restart or not.
BackoffIsKept ==
  \A g \in 2..Current : gens[g].ours => gens[g].made >= Due(g - 1)

\* A continuation is never sent over a follow-up, a draft or a changed model
\* that was there when it was last verified, after the composer was filled.
NotOverAPerson == [][clicks' # clicks => trouble = {} \/ late]_chainVars
=============================================================================
