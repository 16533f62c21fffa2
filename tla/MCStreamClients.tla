-------------------------- MODULE MCStreamClients --------------------------
(***************************************************************************)
(* The constraints on the environment in the run of StreamClients, in      *)
(* place of a symmetry set, for it checks liveness: of slots, ids and URLs *)
(* that are alike the first free one is taken.  A client that uses tools   *)
(* or a retained Page is alone, and so from the second request on at the   *)
(* latest.  While a turn waits for its client there is one other request,  *)
(* in progress or to come; with a crash there are two text requests.       *)
(***************************************************************************)
EXTENDS MCConversationEngine, StreamClients

InProgress == {r \in Requests : pc[r] # "idle"}

ToolsUsed ==
  \/ UsedCalls # {}
  \/ \E r \in Requests : job[r].messages \in ToolTranscripts \/ turn[r].plan.mode = "APPEND"

FirstOf(S, old, new) == new \ old # {} => (CHOOSE x \in S \ old : TRUE) \in new

ConversationsUsed == Conversations \ FreshIds
UrlsUsed == {u \in Urls : web[u] # <<>>}

Environment ==
  /\ ToolsUsed' => Cardinality(InProgress') <= 1 /\ (ToolsUsed \/ submits' <= 2)
  /\ stuck' # {} => submits' <= 2
  /\ crashes' # 0 => ~ToolsUsed' /\ submits' <= 2
  /\ FirstOf(Requests, InProgress, InProgress')
  /\ FirstOf(Conversations, ConversationsUsed, ConversationsUsed')
  /\ FirstOf(Urls, UrlsUsed, UrlsUsed')
=============================================================================
