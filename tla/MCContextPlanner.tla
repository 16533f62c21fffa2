-------------------------- MODULE MCContextPlanner --------------------------
(***************************************************************************)
(* The turns of PlannedTurn, for every saved log and every valid           *)
(* transcript up to a length, from the client's items on: normalized and   *)
(* resolved.  Transcripts and logs make use of tools or enclose files,     *)
(* which have nothing to do with each other in this code.                  *)
(***************************************************************************)
EXTENDS PlannedTurn

CONSTANTS
  i1, i2, u1,
  MaxLog, MaxRequest,           \* bounds: messages of a log, of a request
  MaxFileLog, MaxFileRequest,   \* the same where files are enclosed
  MaxName                       \* bound: characters of a tool's name, namespace

-----------------------------------------------------------------------------
(* What the client and the assistant say.                                  *)
Said(role, content, calls, answers) ==
  [role |-> role, content |-> content, calls |-> calls, answers |-> answers]

Question        == Said("user", <<Text(<<"q">>), Text(<<"r">>)>>, <<>>, NoCall)
Answer          == Said("assistant", <<Text(<<"a">>)>>, <<>>, NoCall)
Calls(calls)    == Said("assistant", <<>>, calls, NoCall)
Result(call)    == Said("tool", <<Text(<<"q">>)>>, <<>>, call)
Enclosing(parts) == Said("user", <<Text(<<"q">>)>> \o parts, <<>>, NoCall)

(* A text file in the request, a public File with the same name, an image  *)
(* uploaded under another type than its bytes have, which only Responses   *)
(* can enclose as an image, and a file named as staging would name it.     *)
Notes    == [type |-> "file_data", value |-> [content |-> "s1", name |-> <<"notes">>]]
Numbered == [type |-> "file_data", value |-> [content |-> "s2", name |-> <<"notes", 2>>]]
Picture  == [type |-> "image_url", value |-> [inline |-> TRUE, content |-> "s3",
                                              name |-> <<"image">>, detected |-> "png"]]
Upload(enclosedIn) ==
  [type  |-> IF enclosedIn = "chat" THEN "file_id" ELSE "image_file",
   value |-> [file     |-> [id |-> <<"public", 1>>, content |-> "s4", name |-> <<"notes">>,
                            mime |-> "declared"],
              detected |-> "png"]]

ToolAlphabet ==
  {Question, Answer, Calls(<<"k1">>), Calls(<<"k2">>), Calls(<<"k1", "k2">>),
   Result("k1"), Result("k2")}

FileAlphabet(in) ==
  {Question, Answer, Enclosing(<<Notes>>), Enclosing(<<Upload(in)>>),
   Enclosing(<<Picture, Text(<<"q">>), Text(<<"r">>), Numbered>>)}

-----------------------------------------------------------------------------
(* The client repeats answers in the items it was given for them.  Without *)
(* files the APIs only differ in answers of several calls.                 *)
ItemsOf(in, said) ==
  IF said.role = "assistant"
  THEN IF in = "chat"
       THEN EncodeChatCompletion(<<"a">>, said.calls)
       ELSE EncodeResponse(<<"a">>, said.calls)
  ELSE <<Item(IF in = "chat" \/ said.role = "user" THEN "message" ELSE "function_call_output",
              said.role, said.content, <<>>, said.answers)>>

ItemsOfAll(in, transcript) ==
  FlattenSeq([i \in DOMAIN transcript |-> ItemsOf(in, transcript[i])])

Prepared(in, turn, transcript) ==
  LET items      == ItemsOfAll(in, transcript)
      normalized == IF in = "chat" THEN NormalizeChatCompletions(items)
                    ELSE NormalizeResponses(items, <<>>)
      resolved   == ResolveAll(turn, normalized.attachments)
  IN  [said     |-> transcript,
       items    |-> items,
       resolved |-> resolved,
       request  |-> CanonicalRequest(i1, CanonicalMessages(normalized, resolved))]

(* Chat Completions has an item for every message: so logs are made of it. *)
LogOf(in, transcript) ==
  LET items      == FlattenSeq([i \in DOMAIN transcript |-> 
                      IF transcript[i].role = "assistant" THEN ItemsOf("chat", transcript[i])
                      ELSE ItemsOf(in, transcript[i])])
      normalized == NormalizeChatCompletions(items)
      resolved   == ResolveAll("log", normalized.attachments)
      messages   == CanonicalMessages(normalized, resolved)
      bindings   == AttachmentBindings(resolved, NoAggregate, <<>>)
  IN  [said      |-> transcript,
       aggregate |-> IF messages = <<>> THEN NoAggregate
                     ELSE FinalAggregate("log", NoAggregate, <<>>, messages, bindings)]

CanBeLog(transcript) == transcript # <<>> => Last(transcript).role = "assistant"

SoundTranscript(t) ==
  SoundLog([i \in DOMAIN t |-> [role |-> t[i].role, calls |-> ToSet(t[i].calls),
                                answers |-> t[i].answers]])

ToolLogs ==
  [in \in Apis |-> {LogOf(in, t) : t \in {s \in SeqOf(ToolAlphabet, MaxLog) :
                                            CanBeLog(s) /\ SoundTranscript(s)}}]
FileLogs ==
  [in \in Apis |-> {LogOf(in, t) : t \in {s \in SeqOf(FileAlphabet(in), MaxFileLog) : CanBeLog(s)}}]

ValidPrepared(S) ==
  {p \in S : ValidTranscript(p.request.messages) /\ Resolvable(AttachmentsOf(p.items))}

ToolRequests ==
  [in \in Apis |-> ValidPrepared({Prepared(in, "turn", t) : 
      t \in {s \in SeqOf(ToolAlphabet, MaxRequest) :
               /\ s # <<>> /\ Last(s).role # "assistant"
               /\ in = "responses" => \E i \in DOMAIN s : Len(s[i].calls) > 1}})]
FileRequests ==
  [in \in Apis |-> ValidPrepared({Prepared(in, "turn", t) :
      t \in {s \in SeqOf(FileAlphabet(in), MaxFileRequest) : s # <<>> /\ Last(s).role # "assistant"}})]

MCFamilies ==
  UNION {{[api |-> in, logs |-> ToolLogs[in], clients |-> ToolRequests[in]],
          [api |-> in, logs |-> FileLogs[in], clients |-> FileRequests[in]]} : in \in Apis}

MCCheckpoints == {<<i1, "clean">>, <<i2, "clean">>, <<i1, "in_flight">>}

MCAnswers == {AssistantText(<<Text(<<"a">>)>>), AssistantCalls(<<Text(<<EmptyLine>>)>>, {"k3"})}

(* What their messages carry, with and without the references.             *)
MCBodies ==
  LET Carried(messages) == {messages[i].body : i \in DOMAIN messages}
      bodies == UNION {UNION {Carried(StoredMessages(record)) : record \in family.logs}
                         \cup UNION {Carried(c.request.messages) : c \in family.clients} :
                       family \in MCFamilies}
  IN  bodies \cup {WithoutReferences(body) : body \in bodies}

-----------------------------------------------------------------------------
(* What the Gateway answered comes back as it was saved: tools under the   *)
(* names they were declared with, transcripts so that the web conversation *)
(* is continued.  Not so: a function in a namespace called like the marker *)
(* of custom tools; answers of several calls, which Responses clients send *)
(* back one by one; images uploaded under another type than they have.     *)
NamesComeBack ==
  LET Names  == SeqOf({"x", "P"}, MaxName) \ {<<>>}
      Values == SeqOf({"x", "P", ":"}, 3 * MaxName) \ {<<>>}
  IN
  /\ \A kind \in {"function", "custom"}, namespace \in Names \cup {NoNamespace}, name \in Names :
       LET tool == Tool(kind, namespace, name)
       IN  \/ kind = "function" /\ namespace = <<"P">>
           \/ NormalizedTools(<<Tool("server", NoNamespace, name), tool>>) = <<EncodeToolName(tool)>>
             /\ DecodeToolName(EncodeToolName(tool)) = tool
  /\ \A value \in Values : EncodeToolName(DecodeToolName(value)) = value

Repeats ==
  /\ log.said # <<>> /\ IsStrictPrefix(log.said, client.said)
  /\ LET turn == SubSeq(client.said, Len(log.said) + 1, Len(client.said))
     IN  Len(turn) = 1 \/ \A i \in DOMAIN turn : turn[i].role = "tool"

AnswersSplit == api = "responses" /\ \E i \in DOMAIN log.said : Len(log.said[i].calls) > 1

ImageRetyped ==
  api = "responses" /\ \E i \in DOMAIN log.said : Upload(api) \in ToSet(log.said[i].content)

AnswersComeBack ==
  /\ NamesComeBack
  /\ plan # Nothing /\ stored # NoStored =>
       (stored.status = "clean" /\ stored.context = i1 /\ Repeats =>
          (Rebuilds(plan) <=> AnswersSplit \/ ImageRetyped))
=============================================================================
