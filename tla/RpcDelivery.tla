----------------------------- MODULE RpcDelivery -----------------------------
(***************************************************************************)
(* src/cli/client.ts and src/rpc: a client sends one line over a socket,   *)
(* its own or the relay's on another computer, to the core that listens;   *)
(* the core admits it or defers it for a handover.  Cores come and go,     *)
(* connections break while the line is under way, answers are late: the    *)
(* client sends again what has not been started, and reads.                *)
(***************************************************************************)
EXTENDS Naturals, FiniteSets

CONSTANTS
  Mutations,  \* calls that change something
  Reads,      \* waits: workflow.wait, session.wait, team.wait
  MaxTries,   \* bound: attempts of a call
  MaxCores    \* bound: core processes, one after the other

ASSUME MutationsAreNoReads == Mutations \cap Reads = {}
ASSUME DeliveryBounds == MaxTries \in Nat \ {0} /\ MaxCores \in Nat \ {0}

VARIABLES
  calls,    \* the client's side of the calls
  lines,    \* requests written to a socket, and what the core made of them
  serving,  \* the core that listens, 0 for none
  cores,    \* cores started so far
  drains,   \* the serving core prepares a handover
  ran       \* history: operations started, by call

deliveryVars == <<calls, lines, serving, cores, drains, ran>>

Calls == Mutations \cup Reads
NoCall == [pc |-> "idle", try |-> 0, deferred |-> FALSE, late |-> FALSE,
           relayed |-> FALSE, at |-> 0, outcome |-> "none", dispatched |-> FALSE]

DeliveryInit ==
  /\ calls = [k \in Calls |-> NoCall] /\ lines = {} /\ ran = [k \in Calls |-> 0]
  /\ serving = 1 /\ cores = 1 /\ drains = FALSE

coreVars == <<serving, cores, drains, ran>>
Line(k) == [of |-> k, try |-> calls[k].try, at |-> serving, state |-> "sent"]
Become(r, state) == lines' = (lines \ {r}) \cup {[r EXCEPT !.state = state]}

-----------------------------------------------------------------------------
(* callTransportOnce, and callTransport around it.                         *)

Ends(k, outcome, dispatched) ==
  calls' = [calls EXCEPT ![k] = [@ EXCEPT !.pc = "done", !.outcome = outcome, !.dispatched = dispatched]]

\* Mutant: once deferred, a call is sent again whatever became of its line.
AgainIfDeferred(k, error, dispatched) ==
  \/ error = "maintenance"
  \/ error \in {"unavailable", "lost"} /\ (calls[k].deferred \/ k \in Reads)

\* What is sent again: what the core says it has not started; from then on, and
\* for reads, what was not dispatched; and reads that lost their connection.
Again(k, error, dispatched) ==
  \/ error = "maintenance"
  \/ error = "unavailable" /\ ~dispatched /\ (calls[k].deferred \/ k \in Reads)
  \/ error = "lost" /\ k \in Reads

\* The deadline of the reconnect gap starts with the first such error, and anew
\* with every deferral; the timer may pass it at any later one.
Handles(k, error, dispatched, at) ==
  \/ /\ Again(k, error, dispatched) /\ calls[k].try < MaxTries
     /\ calls' = [calls EXCEPT ![k] =
          [@ EXCEPT !.pc = "connect", !.try = calls[k].try + 1, !.late = TRUE, !.at = at,
                    !.deferred = calls[k].deferred \/ error = "maintenance"]]
  \/ /\ Again(k, error, dispatched) => (calls[k].late /\ error # "maintenance")
     /\ Ends(k, error, dispatched)

\* By a socket of this computer, or over ssh, on one connection for all attempts.
Begins(k, relayed) ==
  /\ calls[k].pc = "idle"
  /\ calls' = [calls EXCEPT ![k] = [@ EXCEPT !.pc = "connect", !.try = 1, !.relayed = relayed]]
  /\ UNCHANGED <<lines, coreVars>>

Writes(k) ==
  /\ lines' = lines \cup {Line(k)}
  /\ calls' = [calls EXCEPT ![k] = [@ EXCEPT !.pc = "waiting", !.at = IF calls[k].relayed THEN serving ELSE 0]]
  /\ UNCHANGED coreVars

\* A new connection, by the socket or through a relay that says it has one; and
\* the one kept by a relayed call whose core still lives.
Dispatches(k) ==
  /\ calls[k].pc = "connect" /\ calls[k].at \in {0, serving} /\ serving # 0
  /\ Writes(k)

\* Nobody listens.
NobodyListens(k) ==
  /\ calls[k].pc = "connect" /\ calls[k].at = 0 /\ serving = 0
  /\ Handles(k, "unavailable", FALSE, 0)
  /\ UNCHANGED <<lines, coreVars>>

\* The kept connection has ended with its core: known already, or found out by
\* writing into it.
KeptIsGone(k) ==
  /\ calls[k].pc = "connect" /\ calls[k].at \notin {0, serving}
  /\ \/ Handles(k, "unavailable", FALSE, 0)
     \/ Handles(k, "lost", TRUE, 0)
  /\ UNCHANGED <<lines, coreVars>>

\* A result; workflow.wait with untilResult goes on to its next round.
Answered(k, r) ==
  /\ calls[k].pc = "waiting" /\ r.of = k /\ r.try = calls[k].try /\ r.state = "answered" /\ lines' = lines \ {r}
  /\ \/ Ends(k, "ok", TRUE)
     \/ /\ k \in Reads /\ calls[k].try < MaxTries
        /\ calls' = [calls EXCEPT ![k] =
             [@ EXCEPT !.pc = "connect", !.try = calls[k].try + 1, !.deferred = FALSE, !.late = FALSE]]
  /\ UNCHANGED coreVars

Deferred(k, r) ==
  /\ calls[k].pc = "waiting" /\ r.of = k /\ r.try = calls[k].try /\ r.state = "deferred" /\ lines' = lines \ {r}
  /\ Handles(k, "maintenance", TRUE, calls[k].at)
  /\ UNCHANGED coreVars

\* Mutant: the line is not counted as dispatched before something answers it.
BreaksUncounted(k) ==
  /\ calls[k].pc = "waiting" /\ Handles(k, "unavailable", FALSE, 0)
  /\ UNCHANGED <<lines, coreVars>>

\* What nobody waits for and nothing will start is forgotten.
Unread(k) == {r \in lines : r.of = k /\ r.state \in {"answered", "deferred"}}

\* The connection breaks, with its core or alone; the line may have been read.
Breaks(k) ==
  /\ calls[k].pc = "waiting" /\ Handles(k, "lost", TRUE, 0) /\ lines' = lines \ Unread(k)
  /\ UNCHANGED coreVars

TimesOut(k) ==
  /\ calls[k].pc \in {"connect", "waiting"} /\ Ends(k, "timeout", calls[k].pc = "waiting")
  /\ lines' = lines \ Unread(k)
  /\ UNCHANGED coreVars

-----------------------------------------------------------------------------
(* The server, the router and the maintenance gate; and the cores.         *)

\* A line that was written is read and queued, though its client has gone; its
\* answer is then written to nobody.
Awaited(r) == calls[r.of].pc = "waiting" /\ calls[r.of].try = r.try
Answers(r, state) == IF Awaited(r) THEN Become(r, state) ELSE lines' = lines \ {r}

Admits(r) ==
  /\ r.state = "sent" /\ r.at = serving
  /\ IF drains THEN Answers(r, "deferred") /\ UNCHANGED ran
     ELSE Become(r, "running") /\ ran' = [ran EXCEPT ![r.of] = @ + 1]
  /\ UNCHANGED <<calls, serving, cores, drains>>

Completes(r) ==
  /\ r.state = "running" /\ r.at = serving /\ Answers(r, "answered")
  /\ UNCHANGED <<calls, coreVars>>

\* quiesce, and the end of its lease.
PausesOrResumes ==
  /\ serving # 0 /\ drains' = ~drains
  /\ UNCHANGED <<calls, lines, serving, cores, ran>>

\* A commit ends a core in which nothing runs; a kill ends any.  Lines it had
\* not answered are gone with it.
Exits ==
  /\ serving # 0 /\ serving' = 0 /\ drains' = FALSE
  /\ lines' = {r \in lines : r.state \in {"answered", "deferred"}}
  /\ UNCHANGED <<calls, cores, ran>>

\* listen: a socket that nobody answers is removed, one that lives is refused.
Listens ==
  /\ serving = 0 /\ cores < MaxCores /\ cores' = cores + 1 /\ serving' = cores' /\ drains' = FALSE
  /\ UNCHANGED <<calls, lines, ran>>

DeliveryNext ==
  \/ \E k \in Calls, relayed \in BOOLEAN : Begins(k, relayed)
  \/ \E k \in Calls : Dispatches(k) \/ NobodyListens(k) \/ KeptIsGone(k) \/ Breaks(k) \/ TimesOut(k)
  \/ \E k \in Calls, r \in lines : Answered(k, r) \/ Deferred(k, r)
  \/ \E r \in lines : Admits(r) \/ Completes(r)
  \/ PausesOrResumes \/ Exits \/ Listens

DeliverySpec == DeliveryInit /\ [][DeliveryNext]_deliveryVars

-----------------------------------------------------------------------------

\* "A dispatched mutation is never replayed automatically": one call of the
\* client starts its operation at most once, over breaks, deferrals and cores.
StartedOnce == \A k \in Mutations : ran[k] <= 1

\* "Pre-connection failures report requestDispatched:false", and only those: a
\* mutation that is told so, also after it was deferred and sent again, has not
\* run and never will.
UndispatchedNeverRuns ==
  \A k \in Mutations :
    calls[k].pc = "done" /\ ~calls[k].dispatched
      => ran[k] = 0 /\ \A r \in lines : r.of = k => r.state \notin {"sent", "running"}
=============================================================================
