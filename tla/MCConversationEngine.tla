------------------------ MODULE MCConversationEngine ------------------------
(***************************************************************************)
(* Constants of the runs of ConversationEngine.                            *)
(***************************************************************************)
EXTENDS ConversationEngine, FiniteSets, TLC

CONSTANTS q, a, b, k1, k2

(* Two clients whose text transcripts agree, continue each other or fork.  *)
TextTranscripts ==
  {<<UserMessage(q)>>,
   <<UserMessage(q), AssistantText(a), UserMessage(q)>>}

(* The last one has no turn to answer, and is refused.                     *)
ForkedTranscripts ==
  TextTranscripts \cup {<<UserMessage(q), AssistantText(b), UserMessage(q)>>, <<AssistantText(a)>>}

(* A client that makes use of tools: it answers calls in the right and in  *)
(* the wrong place, twice, before they are made or not at all, and comes   *)
(* back with several turns the gateway has not seen.                       *)
ToolTranscripts ==
  {<<ToolResult(q, k1)>>,
   <<ToolResult(q, k1), ToolResult(q, k2)>>,
   <<UserMessage(q), AssistantCalls(a, {k1}), ToolResult(q, k1)>>,
   <<UserMessage(q), AssistantCalls(a, {k1}), UserMessage(q)>>,
   <<UserMessage(q), AssistantText(a), UserMessage(q), AssistantText(a), UserMessage(q)>>}

MixedTranscripts == TextTranscripts \cup ToolTranscripts

EngineSymmetry == Permutations(Requests) \cup Permutations(Conversations) \cup Permutations(Urls)
=============================================================================
