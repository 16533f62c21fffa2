--------------------------- MODULE ContextPlanner ---------------------------
(***************************************************************************)
(* The pure part of Context Sync: how a request's transcript is split into *)
(* history and pending turn, and which of FRESH, APPEND, RESTORE and       *)
(* REBUILD brings the ChatGPT Web conversation up to date with it          *)
(* (src/context/planner.ts, src/conversations/request-context.ts).         *)
(*                                                                         *)
(* A canonical message is a record: its role, a body standing for the text *)
(* and attachments (messages are compared by fingerprint, that is by all   *)
(* of these fields), the ids of the tool calls an assistant message makes  *)
(* and the id of the call a tool message answers.                          *)
(***************************************************************************)
EXTENDS Naturals, Sequences, FiniteSets

CONSTANTS
  Bodies,    \* the texts messages can carry
  CallIds,   \* external tool call ids
  Urls,      \* ChatGPT conversation URLs
  Contexts   \* the values of instructions + tool fingerprint of a request

NoCall == "no call"
NoUrl  == "no url"

Roles == {"user", "assistant", "tool"}

Message ==
  [role : Roles, body : Bodies, calls : SUBSET CallIds, answers : CallIds \cup {NoCall}]

UserMessage(b)       == [role |-> "user", body |-> b, calls |-> {}, answers |-> NoCall]
AssistantText(b)     == [role |-> "assistant", body |-> b, calls |-> {}, answers |-> NoCall]
AssistantCalls(b, C) == [role |-> "assistant", body |-> b, calls |-> C, answers |-> NoCall]
ToolResult(b, c)     == [role |-> "tool", body |-> b, calls |-> {}, answers |-> c]

(* What the planner reads of a stored Conversation aggregate.              *)
StoredConversation ==
  [context : Contexts, messages : Seq(Message), url : Urls \cup {NoUrl},
   status : {"clean", "in_flight"}, synced : Nat]

(* A request without stored state is planned against NoStored.             *)
NoStored == [status |-> "absent"]

PlanModes == {"FRESH", "REBUILD", "APPEND", "RESTORE"}

Plan == [mode : PlanModes, history : Seq(Message), pending : Seq(Message)]

-----------------------------------------------------------------------------
(* Requests.                                                               *)

ToolOnly(messages) == \A i \in 1..Len(messages) : messages[i].role = "tool"

RequestMode(messages) ==
  IF Len(messages) = 1 \/ ToolOnly(messages) THEN "incremental" ELSE "full"

CanonicalRequest(context, messages) ==
  [context |-> context, messages |-> messages, mode |-> RequestMode(messages)]

(* Both request formats let assistant messages only make calls.            *)
OnlyAssistantsCall(messages) ==
  \A i \in 1..Len(messages) : messages[i].role # "assistant" => messages[i].calls = {}

CallsMade(messages)     == UNION {messages[i].calls : i \in 1..Len(messages)}
CallsAnswered(messages) == {messages[i].answers : i \in 1..Len(messages)} \ {NoCall}

(* The checks made on a whole transcript before it is planned, and that it *)
(* ends with a user message or a tool result.                              *)
ValidTranscript(messages) ==
  LET n == Len(messages) IN
  /\ n > 0
  /\ messages[n].role \in {"user", "tool"}
  /\ \A i, j \in 1..n : i # j => messages[i].calls \cap messages[j].calls = {}
  /\ \A i \in 1..n : messages[i].role = "tool" =>
       /\ \A j \in 1..(i - 1) : messages[j].answers # messages[i].answers
       /\ ~ToolOnly(messages) =>
            \E j \in 1..(i - 1) : messages[i].answers \in messages[j].calls
  /\ \A i \in 2..n : ~(messages[i].role = "user" /\ messages[i - 1].role = "tool")

(* The pending turn is the last user message, or the trailing run of tool  *)
(* results; ToolTail is where such a run stands in a valid transcript.     *)
ToolTail(messages) ==
  {i \in 1..Len(messages) : \A j \in i..Len(messages) : messages[j].role = "tool"}

PendingStart(messages) ==
  IF messages[Len(messages)].role = "user"
  THEN Len(messages)
  ELSE Len(messages) + 1 - Cardinality(ToolTail(messages))

PendingTurn(messages)    == SubSeq(messages, PendingStart(messages), Len(messages))
RequestHistory(messages) == SubSeq(messages, 1, PendingStart(messages) - 1)

-----------------------------------------------------------------------------
(* Planning.                                                               *)

HasPrefix(messages, prefix) ==
  /\ Len(prefix) <= Len(messages)
  /\ \A i \in 1..Len(prefix) : messages[i] = prefix[i]

ConfirmedPrefix(stored) == SubSeq(stored.messages, 1, stored.synced)

(* Mutant of ValidPending: a call that has its result is not looked for.   *)
ValidPendingAgain(pending, prior) ==
  \/ Len(pending) = 1 /\ pending[1].role = "user"
  \/ /\ pending # <<>>
     /\ \A i \in 1..Len(pending) :
          /\ pending[i].role = "tool"
          /\ pending[i].answers \in CallsMade(prior)
          /\ \A j \in 1..(i - 1) : pending[j].answers # pending[i].answers

ValidPending(pending, prior) ==
  \/ Len(pending) = 1 /\ pending[1].role = "user"
  \/ /\ pending # <<>>
     /\ \A i \in 1..Len(pending) :
          /\ pending[i].role = "tool"
          /\ pending[i].answers \in CallsMade(prior) \ CallsAnswered(prior)
          /\ \A j \in 1..(i - 1) : pending[j].answers # pending[i].answers

(* A planned turn, or the planning error when the pending turn is invalid  *)
(* against the messages it is to follow.                                   *)
PlanningError == [mode |-> "ERROR", history |-> <<>>, pending |-> <<>>]

Planned(mode, history, pending, prior) ==
  IF ValidPending(pending, prior)
  THEN [mode |-> mode, history |-> history, pending |-> pending]
  ELSE PlanningError

(* Mutant of MustRebuild: the in_flight checkpoint is not looked at.       *)
MustRebuildIfChanged(stored, request) ==
  \/ stored.synced # Len(stored.messages)
  \/ stored.url = NoUrl
  \/ stored.context # request.context
  \/ /\ request.mode = "full"
     /\ \/ ~HasPrefix(request.messages, stored.messages)
        \/ SubSeq(request.messages, Len(stored.messages) + 1, Len(request.messages))
             # PendingTurn(request.messages)

(* Everything that makes the web conversation unusable for this request.   *)
(* Past the first two disjuncts all stored messages are confirmed, so the  *)
(* history REBUILD starts from is ConfirmedPrefix(stored) in every case.   *)
MustRebuild(stored, request) ==
  \/ stored.status = "in_flight"                          \* checkpoint_uncertain
  \/ stored.synced # Len(stored.messages)                 \* checkpoint_mismatch
  \/ stored.url = NoUrl                                   \* conversation_url_missing
  \/ stored.context # request.context                     \* instructions or tools changed
  \/ /\ request.mode = "full"
     /\ \/ ~HasPrefix(request.messages, stored.messages)  \* history_diverged
        \/ SubSeq(request.messages, Len(stored.messages) + 1, Len(request.messages))
             # PendingTurn(request.messages)              \* multiple_unsynced_turns

(* Mutant of PlanContextSync: a rebuild checks the pending turn against    *)
(* what is stored, also when the request brings its own history.           *)
PlanContextSyncStored(stored, request, hasAffinityPage) ==
  LET pending == PendingTurn(request.messages)
      history == IF request.mode = "full" \/ stored = NoStored
                 THEN RequestHistory(request.messages)
                 ELSE ConfirmedPrefix(stored)
  IN
  IF stored = NoStored THEN Planned("FRESH", history, pending, history)
  ELSE IF MustRebuild(stored, request)
  THEN Planned("REBUILD", history, pending, ConfirmedPrefix(stored))
  ELSE Planned(IF hasAffinityPage THEN "APPEND" ELSE "RESTORE",
               <<>>, pending, stored.messages)

PlanContextSync(stored, request, hasAffinityPage) ==
  LET pending == PendingTurn(request.messages)
      history == IF request.mode = "full" \/ stored = NoStored
                 THEN RequestHistory(request.messages)
                 ELSE ConfirmedPrefix(stored)
  IN
  IF stored = NoStored THEN Planned("FRESH", history, pending, history)
  ELSE IF MustRebuild(stored, request) THEN Planned("REBUILD", history, pending, history)
  ELSE Planned(IF hasAffinityPage THEN "APPEND" ELSE "RESTORE",
               <<>>, pending, stored.messages)

Rebuilds(plan) == plan.mode \in {"FRESH", "REBUILD"}

(* The transcript the turn is meant to leave the conversation with, before *)
(* the assistant's answer.                                                 *)
AuthoritativeMessages(stored, request, plan) ==
  IF Rebuilds(plan) THEN plan.history \o plan.pending
  ELSE IF request.mode = "full" THEN request.messages
  ELSE ConfirmedPrefix(stored) \o plan.pending

(* Mutant of ContextHistory: the fallback of a failed restore carries only *)
(* what the request itself has.                                            *)
ContextHistoryOfRequest(stored, request, plan) ==
  IF Rebuilds(plan) THEN plan.history
  ELSE SubSeq(request.messages, 1, Len(request.messages) - Len(plan.pending))

(* The history a Context Prompt carries in front of the pending turn.      *)
ContextHistory(stored, request, plan) ==
  IF Rebuilds(plan) THEN plan.history
  ELSE IF request.mode = "full"
       THEN SubSeq(request.messages, 1, Len(request.messages) - Len(plan.pending))
       ELSE ConfirmedPrefix(stored)
=============================================================================
