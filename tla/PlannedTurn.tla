---------------------------- MODULE PlannedTurn -----------------------------
(***************************************************************************)
(* A turn of a saved Conversation, from the request the engine is given to *)
(* the records it saves: planned, uploaded and prompted, saved.  The plan  *)
(* is compared with a reference definition of its result.                  *)
(*                                                                         *)
(* A saved log is empty or ends with an answer, its tool results answer    *)
(* earlier calls once (ConversationEngine's ToolCallsSound), it is one the *)
(* store accepted (Filed), and all of it is confirmed.                     *)
(***************************************************************************)
EXTENDS Attachments

CONSTANTS
  Families,      \* saved logs, and the requests that are made of them
  Checkpoints,   \* the context and the status a Conversation is stored with
  Answers        \* what a turn can be answered: a text, or calls of tools

VARIABLES
  api,      \* the API the client uses
  log,      \* what was saved before: its aggregate, and what it was made of
  client,   \* the client's transcript, as the engine is given it
  stored,   \* the Conversation as the planner sees it, or NoStored
  plan,     \* what the planner makes of them
  sent,     \* the uploads and the prompt
  answer,   \* what ChatGPT answered, as assistantCanonical has it
  saved     \* the aggregate the turn leaves behind

vars == <<api, log, client, stored, plan, sent, answer, saved>>

Nothing == [mode |-> "nothing yet"]

StoredMessages(record) == CanonicalStored(record.aggregate, RetainStored(record.aggregate))

(* Calls are made once, and answered later and once.                       *)
SoundLog(m) ==
  /\ \A i, j \in 1..Len(m) : i # j => m[i].calls \cap m[j].calls = {}
  /\ \A i \in 1..Len(m) : m[i].role = "tool" =>
       /\ \E j \in 1..(i - 1) : m[i].answers \in m[j].calls
       /\ \A j \in 1..(i - 1) : m[j].answers # m[i].answers

(* Both request formats give every tool result the id of a call.           *)
ResultsAnswer(messages) ==
  \A i \in 1..Len(messages) : messages[i].role = "tool" => messages[i].answers # NoCall

IsSequence(s) == Len(s) \in Nat /\ s = [i \in 1..Len(s) |-> s[i]]

IsLines(part) == part = Text(part.text) /\ IsSequence(part.text)

IsName(name) == IsSequence(name) /\ name # <<>>

(* The content of a saved message: what it encloses, it encloses once.     *)
IsContent(content) ==
  /\ IsSequence(content)
  /\ \A j \in DOMAIN content :
       IF IsText(content[j]) THEN IsLines(content[j])
       ELSE content[j] = [type |-> "attachment", attachmentId |-> content[j].attachmentId]
  /\ \A j, k \in DOMAIN content :
       ~IsText(content[j]) /\ ~IsText(content[k]) /\ content[j] = content[k] => j = k

(* The aggregates the store accepts: every message has an id of its own,   *)
(* as has every attachment record, and the records are just those of the   *)
(* places where messages enclose something, one for each.                  *)
Filed(aggregate) ==
  LET messages == aggregate.messages
      records  == aggregate.attachments
      Key(n)   == <<records[n].message, records[n].local>>
  IN
  /\ IsSequence(messages) /\ IsSequence(records)
  /\ \A i \in DOMAIN messages :
       /\ IsContent(messages[i].content)
       /\ messages[i].role = "tool" \/ messages[i].calls # {} => IdsIn(messages[i].content) = {}
  /\ \A i, k \in DOMAIN messages : messages[i].id = messages[k].id => i = k
  /\ \A n, m \in DOMAIN records : records[n].id = records[m].id \/ Key(n) = Key(m) => n = m
  /\ \A n \in DOMAIN records :
       \E i \in DOMAIN messages : /\ records[n].message = messages[i].id
                                 /\ records[n].local \in IdsIn(messages[i].content)
  /\ \A i \in DOMAIN messages : \A id \in IdsIn(messages[i].content) :
       \E n \in DOMAIN records : Key(n) = <<messages[i].id, id>>
  /\ \A n \in DOMAIN records : IsName(records[n].file.name)

NoIdsOf(turn, aggregate) ==
  /\ \A i \in DOMAIN aggregate.messages : aggregate.messages[i].id[1] # turn
  /\ \A n \in DOMAIN aggregate.attachments : aggregate.attachments[n].id[1] # turn

(* Items as both APIs accept them: texts, and Files by id or by content.   *)
WellFormed(item) ==
  /\ IsSequence(item.content) /\ IsSequence(item.calls)
  /\ \A part \in ToSet(item.content) :
       IF IsText(part) THEN IsLines(part)
       ELSE LET byId == part.type \in {"image_file", "file_id"}
            IN  /\ byId \/ part.type \in {"image_url", "file_data"}
                /\ "file" \in DOMAIN part.value <=> byId
                /\ IsName(IF byId THEN part.value.file.name ELSE part.value.name)

(* What the engine is given was made of the client's items.                *)
WellMade(c) ==
  LET normalized == Normalized(c.items, <<>>)
  IN  /\ IsSequence(c.items) /\ \A item \in ToSet(c.items) : WellFormed(item)
      /\ c.resolved = ResolveAll("turn", normalized.attachments)
      /\ c.request.messages = CanonicalMessages(normalized, c.resolved)

(* The requests that get to be planned.                                    *)
Plannable(request) ==
  /\ request = CanonicalRequest(request.context, request.messages)
  /\ request.messages \in Seq(Message)
  /\ ValidTranscript(request.messages)
  /\ OnlyAssistantsCall(request.messages) /\ ResultsAnswer(request.messages)

(* A text, or calls without one, under ids that nobody has seen before.    *)
IsAnswer(message) ==
  LET body == message.body
  IN  /\ message = AssistantCalls(body, message.calls)
      /\ Len(body) = 1 /\ IsSequence(body) /\ IsLines(body[1]) /\ body[1].text # <<>>
      /\ message.calls # {} => body = <<Text(<<EmptyLine>>)>>
      /\ \A family \in Families :
           /\ \A record \in family.logs :
                message.calls \cap CallsMade(StoredMessages(record)) = {}
           /\ \A c \in family.clients : message.calls \cap CallsMade(c.request.messages) = {}

ASSUME PlannedTurnAssumption ==
  /\ NoCall \notin CallIds
  /\ \A body \in Bodies : WithoutReferences(body) \in Bodies
  /\ Checkpoints \subseteq Contexts \X {"clean", "in_flight"}
  /\ \A family \in Families :
       /\ \A record \in family.logs :
            /\ StoredMessages(record) \in Seq(Message) /\ SoundLog(StoredMessages(record))
            /\ Filed(record.aggregate) /\ NoIdsOf("turn", record.aggregate)
       /\ \A c \in family.clients : Plannable(c.request) /\ WellMade(c)
  /\ \A message \in Answers : IsAnswer(message)

-----------------------------------------------------------------------------
(* A row without messages was never saved as clean and has no URL.         *)
StoredAs(context, status, url, record) ==
  LET messages == StoredMessages(record)
  IN  [context |-> context, messages |-> messages,
       url     |-> IF messages = <<>> THEN NoUrl ELSE url,
       status  |-> IF messages = <<>> THEN "in_flight" ELSE status,
       synced  |-> Len(messages)]

Init ==
  /\ \E family \in Families : api = family.api /\ log \in family.logs /\ client \in family.clients
  /\ \/ stored = NoStored /\ log.said = <<>>
     \/ \E checkpoint \in Checkpoints, url \in Urls :
          stored = StoredAs(checkpoint[1], checkpoint[2], url, log)
  /\ plan = Nothing /\ sent = Nothing /\ answer = Nothing /\ saved = Nothing

PlanIt ==
  /\ plan = Nothing
  /\ \E affinity \in BOOLEAN : plan' = PlanWithAttachments(stored, client.request, affinity)
  /\ UNCHANGED <<api, log, client, stored, sent, answer, saved>>

(* What the turn keeps of the attachments that were saved.                 *)
Retained == RetainStored(log.aggregate)

(* The transcript and the answer, once it is there.                        *)
Final == Append(AuthoritativeMessages(stored, client.request, plan), answer)

(* A Conversation that cannot be restored gets a Context Prompt.           *)
RunIt ==
  /\ plan \notin {Nothing, PlanningError} /\ sent = Nothing
  /\ UNCHANGED <<api, log, client, stored, plan>>
  /\ \E restored \in IF Rebuilds(plan) THEN {FALSE} ELSE BOOLEAN :
       LET uploads  == Staged(client.resolved \o Retained, UploadReferences(plan))
           messages == IF restored THEN plan.pending
                       ELSE ContextHistory(stored, client.request, plan) \o plan.pending
       IN  sent' = [mode    |-> IF restored THEN "append" ELSE "context",
                    uploads |-> uploads,
                    names   |-> NamedIn(messages, uploads)]
  /\ answer' \in Answers
  /\ LET bindings == AttachmentBindings(client.resolved, log.aggregate, Retained)
     IN  saved' = FinalAggregate("turn", log.aggregate,
                                 IF stored = NoStored THEN <<>> ELSE stored.messages, Final', bindings)

Next == PlanIt \/ RunIt

Spec == Init /\ [][Next]_vars

-----------------------------------------------------------------------------
(* The reference: what the request asks the Conversation to become, said   *)
(* without plans or pending turns.                                         *)
Confirmed == IF stored = NoStored THEN <<>> ELSE stored.messages

Target ==
  IF client.request.mode = "full" THEN client.request.messages
  ELSE Confirmed \o client.request.messages

Accepted == plan \notin {Nothing, PlanningError}

SameMessages(m, n) == Fingerprints(m) = Fingerprints(n)

(* Every plan aims at the target: it is what will be saved, what a Context *)
(* Prompt tells a new chat, and what an Append Prompt adds up to in the    *)
(* chat the Conversation already has, which only APPEND and RESTORE use.   *)
PlanReachesTarget ==
  Accepted =>
    /\ AuthoritativeMessages(stored, client.request, plan) = Target
    /\ ContextHistory(stored, client.request, plan) \o plan.pending = Target
    /\ ~Rebuilds(plan) =>
         stored.status = "clean" /\ SameMessages(Confirmed \o plan.pending, Target)

(* What is saved stays sound, by whatever way the request got there.       *)
TargetIsSound == Accepted => SoundLog(AuthoritativeMessages(stored, client.request, plan))

(* No stored state, an in_flight one in particular, makes the planner      *)
(* refuse a valid request, except tool results alone that do not answer    *)
(* open calls of the confirmed log.                                        *)
RefusesOnlyForeignResults ==
  plan # Nothing =>
    (plan = PlanningError <=>
       /\ ToolOnly(client.request.messages)
       /\ ~(CallsAnswered(client.request.messages) \subseteq
              CallsMade(Confirmed) \ CallsAnswered(Confirmed)))

-----------------------------------------------------------------------------
(* What a client encloses in its last message is uploaded, by whatever way *)
(* through numbers, references and Files (not so what is enclosed in the   *)
(* output of a function); and the prompt and the uploads agree: every      *)
(* attachment it names is there, under that name alone, and nothing else   *)
(* is.  Two cases are excused.  When a Conversation could not be restored  *)
(* the attachments of the history are named and not there; and a file that *)
(* is itself called "notes (2)" can meet the second "notes".               *)
FellBack == sent.mode = "context" /\ ~Rebuilds(plan)

NumberedByClient ==
  \E n \in DOMAIN client.resolved \cup DOMAIN Retained :
    \/ n \in DOMAIN client.resolved /\ Len(client.resolved[n].name) > 1
    \/ n \in DOMAIN Retained /\ Len(Retained[n].name) > 1

IsThere(name) ==
  \E n \in DOMAIN sent.uploads :
    /\ sent.uploads[n].content = name.content
    /\ \A m \in DOMAIN sent.uploads : sent.uploads[m].uploadName = name.uploadName <=> m = n

ContentOf(value) == IF "file" \in DOMAIN value THEN value.file.content ELSE value.content

PromptMatchesUploads ==
  sent # Nothing =>
    LET last     == Last(Picked(client.items, IsTurnItem))
        uploaded == {sent.uploads[n].content : n \in DOMAIN sent.uploads}
    IN
    /\ last.role # "tool" =>
         \A part \in ToSet(last.content) : IsEnclosure(part) => ContentOf(part.value) \in uploaded
    /\ \A name \in IF FellBack THEN NamedIn(plan.pending, sent.uploads) ELSE sent.names :
         NumberedByClient \/ IsThere(name)
    /\ \A n \in DOMAIN sent.uploads :
         \E name \in sent.names : /\ name.content = sent.uploads[n].content
                                  /\ name.uploadName = sent.uploads[n].uploadName

(* What is saved is accepted by the store and reads back, for the next     *)
(* turn, as the transcript of this one and its answer, but for the type of *)
(* an image; every attachment of that transcript has its own record.       *)
WithoutTypes(messages) ==
  [i \in DOMAIN messages |->
     [Fingerprint(messages[i]) EXCEPT !.body = [j \in DOMAIN @ |->
        IF IsAttachment(@[j]) /\ @[j].kind = "image" THEN [@[j] EXCEPT !.mime = NoType] ELSE @[j]]]]

SavedReadsBack ==
  saved # Nothing =>
    /\ WithoutTypes(CanonicalStored(saved, RetainStored(saved))) = WithoutTypes(Final)
    /\ Len(saved.attachments) = Len(AttachmentsIn(Final))
    /\ Filed(saved)
=============================================================================
