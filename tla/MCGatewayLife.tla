--------------------------- MODULE MCGatewayLife ---------------------------
(***************************************************************************)
(* Migration directories for the run of GatewayLife: one version, the next *)
(* one, one whose first file was edited, one with a gap.  The turns are of  *)
(* one Conversation.                                                       *)
(***************************************************************************)
EXTENDS GatewayLife

CONSTANTS m1, m2, edited

Releases == {<<m1>>, <<m1, m2>>, <<edited, m2>>, [v \in {1, 3} |-> m1]}

OneConversation == [t \in Turns |-> 1]
=============================================================================
