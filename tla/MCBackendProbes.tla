-------------------------- MODULE MCBackendProbes --------------------------
(* Model checking of BackendProbes. *)
EXTENDS BackendProbes, TLC

CONSTANTS s1, s2, web, lasting, shared, account

Both == {s1, s2}
AllScopes == {web, lasting, shared, account}

\* A ChatGPT session whose conversation first has a WEB: id, or two sessions of
\* a provider with one scope.
Lone == [s \in Both |-> IF s = s1 THEN web ELSE None]
Paired == [s \in Both |-> shared]
LoneOrPaired == {Lone, Paired}
Replaced == [c \in AllScopes |-> IF c = web THEN lasting ELSE c]

Symmetric == Permutations(Loops)
=============================================================================
