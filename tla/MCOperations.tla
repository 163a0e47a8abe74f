---------------------------- MODULE MCOperations ----------------------------
(***************************************************************************)
(* Model checking of six operations that share no state: stop requests,    *)
(* failure chains, artifact capture, the browser's owner, the delivery of  *)
(* calls and the reading of a conversation from the server.  A behaviour   *)
(* is one of one of them, and part says of which.                          *)
(***************************************************************************)
EXTENDS StopRequest, FailureChain, ArtifactCapture, BrowserOwner, RpcDelivery, ServerAnswer, TLC

CONSTANTS f1, sa, sb
VARIABLE part

MCOwner == [a \in Artifacts |-> IF a = f1 THEN sa ELSE sb]
MCBackoff == [a \in 1..MaxChainGens |-> a]

opsVars == <<vars, chainVars, artVars, ownVars, deliveryVars, answerVars, part>>

\* The links of files start alike where no file is looked at, and the
\* document whole where none is read.
OpsInit ==
  /\ part \in {"stop", "chain", "files", "browser", "delivery", "answer"}
  /\ Init /\ ChainInit /\ ArtInit /\ OwnInit /\ DeliveryInit /\ AnswerInit
  /\ part # "files" => \A a, b \in Artifacts : offered[a] = offered[b]
  /\ part # "answer" => doc[1].parent = Top

OfStop(A) == part = "stop" /\ A /\ UNCHANGED <<chainVars, artVars, ownVars, deliveryVars, answerVars, part>>
OfChain(A) == part = "chain" /\ A /\ UNCHANGED <<vars, artVars, ownVars, deliveryVars, answerVars, part>>
OfFiles(A) == part = "files" /\ A /\ UNCHANGED <<vars, chainVars, ownVars, deliveryVars, answerVars, part>>
OfBrowser(A) == part = "browser" /\ A /\ UNCHANGED <<vars, chainVars, artVars, deliveryVars, answerVars, part>>
OfDelivery(A) == part = "delivery" /\ A /\ UNCHANGED <<vars, chainVars, artVars, ownVars, answerVars, part>>
OfAnswer(A) == part = "answer" /\ A /\ UNCHANGED <<vars, chainVars, artVars, ownVars, deliveryVars, part>>

OpsNext ==
  \/ OfStop(Next) \/ OfChain(ChainNext) \/ OfFiles(ArtNext)
  \/ OfBrowser(OwnNext) \/ OfDelivery(DeliveryNext) \/ OfAnswer(AnswerNext)

OpsSpec == OpsInit /\ [][OpsNext]_opsVars

Symmetric == Permutations(Contents) \cup Permutations(Captures)
=============================================================================
