---------------------------- MODULE ServerAnswer ----------------------------
(***************************************************************************)
(* What a conversation read from the provider's server says of a submitted *)
(* message: recoverExactServerFinal and recoverExactServerAcknowledgement  *)
(* in src/providers/chatgpt/backend-recovery.ts.                           *)
(*                                                                         *)
(* The document is a tree that only grows.  A message that is edited or an *)
(* answer that is asked for again becomes a new branch beside the old one, *)
(* and the provider names the node it shows.  Both functions are pure, so  *)
(* they are asked about every document the provider's steps lead to.       *)
(***************************************************************************)
EXTENDS Integers, Sequences, FiniteSets

CONSTANTS MaxNodes   \* bound: the nodes of a document

ASSUME NodeBound == MaxNodes \in Nat \ {0}

VARIABLES
  doc,          \* mapping: for each node its parent and what its message is
  current       \* current_node

answerVars == <<doc, current>>

(***************************************************************************)
(* Messages, as far as the functions tell them apart.  "asked" is a user   *)
(* message with the text of the prompt, "user" one with another.  "final"  *)
(* is a public answer that ended well; "hidden" is one that ended well and *)
(* is not public; "live" is any other assistant message: unfinished, empty *)
(* or in another channel.  "other" is a tool's or no message at all.       *)
(***************************************************************************)
Kinds == {"asked", "user", "live", "final", "hidden", "other"}
Top == 0        \* parent: null
Gone == -1      \* the parent is not in the mapping

Nodes == DOMAIN doc
IsUser(n) == doc[n].is \in {"asked", "user"}
IsAssistant(n) == doc[n].is \in {"live", "final", "hidden"}

----------------------------------------------------------------------------
(* The functions.                                                          *)

NotRead == [kind |-> "unavailable", answer |-> Top]
NotShown == [kind |-> "unverified", answer |-> Top]

\* The nodes from the root to n.
Branch[n \in Nodes] ==
  IF doc[n].parent \in Nodes THEN Append(Branch[doc[n].parent], n) ELSE <<n>>

\* Mutant: whatever comes after the message belongs to it.
TurnOrLater(b, u) == SubSeq(b, u + 1, Len(b))

\* What follows the message at place u, up to the next user message.
Turn(b, u) ==
  LET after == {i \in u + 1..Len(b) : IsUser(b[i])}
  IN SubSeq(b, u + 1, IF after = {} THEN Len(b) ELSE (CHOOSE i \in after : \A j \in after : i <= j) - 1)

\* The last assistant message decides; a finished hidden one is passed over.
Final(turn) ==
  LET said == {i \in DOMAIN turn : doc[turn[i]].is \in {"live", "final"}}
      last == turn[CHOOSE i \in said : \A j \in said : j <= i]
  IN IF said # {} /\ doc[last].is = "final" THEN last ELSE Top

\* recoverExactServerFinal for the user message n.
ServerFinal(n) ==
  LET b == Branch[current]
      at == {i \in DOMAIN b : b[i] = n}
      answer == Final(Turn(b, CHOOSE i \in at : TRUE))
  IN CASE doc[b[1]].parent = Gone -> NotRead
       [] doc[b[1]].parent # Gone /\ at = {} -> NotShown
       [] OTHER -> [kind |-> IF answer = Top THEN "pending" ELSE "complete", answer |-> answer]

\* recoverExactServerAcknowledgement by the prompt's text: the one message
\* with it, when the branch that is shown holds it.
Acknowledged ==
  LET matches == {n \in Nodes : doc[n].is = "asked"}
  IN {n \in matches : Cardinality(matches) = 1 /\ ServerFinal(n).kind \in {"complete", "pending"}}

----------------------------------------------------------------------------
(* The provider.                                                           *)

AnswerInit == doc \in {<<[parent |-> p, is |-> "other"]>> : p \in {Top, Gone}} /\ current = 1

\* A message follows another, at the end or as a new branch, and is shown.
Adds(p, k) ==
  /\ Len(doc) < MaxNodes
  /\ doc' = Append(doc, [parent |-> p, is |-> k]) /\ current' = Len(doc) + 1

\* An answer that was being written ends.
Settles(n, k) ==
  /\ doc[n].is = "live" /\ k \in {"final", "hidden"}
  /\ doc' = [doc EXCEPT ![n].is = k] /\ UNCHANGED current

\* A person turns to another branch.
Selects(n) ==
  /\ n # current /\ \A c \in Nodes : doc[c].parent # n
  /\ current' = n /\ UNCHANGED doc

AnswerNext ==
  \/ \E n \in Nodes, k \in Kinds : Adds(n, k) \/ Settles(n, k)
  \/ \E n \in Nodes : Selects(n)

AnswerSpec == AnswerInit /\ [][AnswerNext]_answerVars

----------------------------------------------------------------------------
(* Properties.                                                             *)

\* Whose turn a node is in: the nearest user message at or above it.
TurnOf[n \in Nodes] == IF IsUser(n) \/ doc[n].parent \notin Nodes THEN n ELSE TurnOf[doc[n].parent]

Shown == LET b == Branch[current] IN {b[i] : i \in DOMAIN b}

AnsweredBy(u, r) == ServerFinal(u) = [kind |-> "complete", answer |-> r]

\* No user message follows u on the branch that is shown.
Latest(u) == \A n \in Shown : IsUser(n) => n <= u

\* An answer is only ever attributed to the message it was written for: a
\* reading completes a message only with the last assistant message of its own
\* turn on the branch that is shown, finished hidden ones apart, and only if
\* that is a public answer; never with that of a later message or of a branch
\* that was left.  The message that nothing follows is completed by such an
\* answer.  A message acknowledged by its text is on that branch, and no edit
\* of it or repetition could be meant instead.
ReadsItsOwnTurn ==
  /\ \A u \in Nodes : IsUser(u) =>
       LET own == {n \in Shown : IsAssistant(n) /\ TurnOf[n] = u /\ doc[n].is # "hidden"}
           ends == {n \in own : doc[n].is = "final" /\ \A m \in own : m <= n}
       IN /\ \A r \in Nodes : AnsweredBy(u, r) => r \in ends
          /\ doc[1].parent # Gone /\ Latest(u) => \A r \in ends : AnsweredBy(u, r)
  /\ \A u \in Acknowledged : u \in Shown /\ \A n \in Nodes \ {u} : doc[n].is # "asked"
============================================================================
