--------------------------- MODULE AtMostOnceSend ---------------------------
(***************************************************************************)
(* What session.send promises a caller, with no actor, page lock, timeout  *)
(* or restart in sight.  A request is accepted once, may be refused and    *)
(* re-opened while nothing has reached the provider, is attempted once,    *)
(* and from the attempt on can only become doubtful or confirmed: it is    *)
(* never offered to the provider again, and a provider message confirms    *)
(* at most one request.                                                    *)
(***************************************************************************)
EXTENDS Naturals

CONSTANTS
    Requests,       \* caller-owned requests, one (clientId, requestId) each
    NoRequest       \* the absence of a request

VARIABLES
    phase,          \* what the caller may be told about a request
    sent,           \* how often the provider's Send control was clicked for it
    proof           \* the request whose delivered message confirms it

vars == <<phase, sent, proof>>

Init ==
    /\ phase = [r \in Requests |-> "idle"]
    /\ sent = [r \in Requests |-> 0]
    /\ proof = [r \in Requests |-> NoRequest]

Become(r, from, to) ==
    /\ phase[r] \in from
    /\ phase' = [phase EXCEPT ![r] = to]

Accept(r) == Become(r, {"idle"}, "open") /\ UNCHANGED <<sent, proof>>

Refuse(r) == Become(r, {"open"}, "refused") /\ UNCHANGED <<sent, proof>>

Reopen(r) == Become(r, {"refused"}, "open") /\ UNCHANGED <<sent, proof>>

Attempt(r) == Become(r, {"open"}, "attempted") /\ UNCHANGED <<sent, proof>>

\* The click may land at any time after the attempt was made durable, even
\* when its outcome was given up on.
Click(r) ==
    /\ phase[r] \in {"attempted", "doubtful", "confirmed"}
    /\ sent[r] = 0
    /\ sent' = [sent EXCEPT ![r] = 1]
    /\ UNCHANGED <<phase, proof>>

Doubt(r) == Become(r, {"attempted"}, "doubtful") /\ UNCHANGED <<sent, proof>>

Confirm(r, m) ==
    /\ Become(r, {"attempted", "doubtful"}, "confirmed")
    /\ sent[m] = 1
    /\ \A other \in Requests : proof[other] # m
    /\ proof' = [proof EXCEPT ![r] = m]
    /\ UNCHANGED sent

Next ==
    \E r \in Requests :
        \/ Accept(r) \/ Refuse(r) \/ Reopen(r) \/ Attempt(r)
        \/ Click(r) \/ Doubt(r)
        \/ \E m \in Requests : Confirm(r, m)

Spec == Init /\ [][Next]_vars

=============================================================================
