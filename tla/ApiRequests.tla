---------------------------- MODULE ApiRequests -----------------------------
(***************************************************************************)
(* The two public APIs in front of the engine: how a request of either one *)
(* becomes the normalized request (src/api/normalize/), how an answer goes *)
(* out as items of either one (src/api/encode/), and how Responses tools   *)
(* get one flat name each (src/api/tool-namespace.ts).                     *)
(*                                                                         *)
(* A text is the sequence of its lines, so that joining texts with newline *)
(* is concatenation.  A part of a message is a text or one of the forms in *)
(* which the APIs enclose a file, with its value.  An item of a request is *)
(* a record of its type, role, parts, the calls it makes and the call it   *)
(* answers; Chat Completions has items of type "message" only.             *)
(***************************************************************************)
EXTENDS Naturals, SequencesExt

Apis == {"chat", "responses"}

NoAnswer == "no call"   \* ContextPlanner's NoCall
EmptyLine == ""

(* The elements that pass a test in their order, like SelectSeq, in a form  *)
(* that proofs can unfold.                                                 *)
Picked(s, Test(_)) ==
  FlattenSeq([j \in DOMAIN s |-> IF Test(s[j]) THEN <<s[j]>> ELSE <<>>])

Text(lines) == [type |-> "text", text |-> lines]

IsText(part)      == part.type = "text"
IsEnclosure(part) == ~IsText(part)

Item(type, role, content, calls, answers) ==
  [type |-> type, role |-> role, content |-> content, calls |-> calls, answers |-> answers]

IsInstruction(item) == item.role \in {"system", "developer"}
IsTurnItem(item)    == ~IsInstruction(item)

-----------------------------------------------------------------------------
(* Attachments are numbered in the order in which they stand in a request. *)

AttachmentId(n) == <<"attachment", n>>

Descriptor(n, part) ==
  [id     |-> AttachmentId(n),
   kind   |-> IF part.type \in {"image_url", "image_file"} THEN "image" ELSE "file",
   source |-> IF part.type = "image_url"
              THEN IF part.value.inline THEN "data_url" ELSE "url"
              ELSE IF part.type = "file_data" THEN "base64" ELSE "file_id",
   value  |-> part.value]

EnclosuresOf(items) ==
  FlattenSeq([i \in DOMAIN items |-> Picked(items[i].content, IsEnclosure)])

AttachmentsOf(items) ==
  LET enclosures == EnclosuresOf(items)
  IN  [n \in DOMAIN enclosures |-> Descriptor(n, enclosures[n])]

(* Mutant of AttachmentNumber: the number starts again in every message.   *)
AttachmentNumberInMessage(items, i, j) ==
  Len(Picked(SubSeq(items[i].content, 1, j), IsEnclosure))

AttachmentNumber(items, i, j) ==
  Len(EnclosuresOf(SubSeq(items, 1, i - 1)))
    + Len(Picked(SubSeq(items[i].content, 1, j), IsEnclosure))

NormalizedContent(items, i) ==
  [j \in DOMAIN items[i].content |->
     IF IsText(items[i].content[j])
     THEN items[i].content[j]
     ELSE [type |-> "attachment", attachmentId |-> AttachmentId(AttachmentNumber(items, i, j))]]

(* Instructions are taken out of the transcript wherever they stand; every *)
(* other item is a message of its own.  The instructions field that only   *)
(* Responses has comes first, as a developer message.                      *)
Normalized(items, instructions) ==
  LET turns == Picked(items, IsTurnItem)
      ruled == Picked(items, IsInstruction)
  IN
  [instructions |-> instructions
                      \o [n \in DOMAIN ruled |->
                            [role |-> ruled[n].role,
                             text |-> FlattenSeq([j \in DOMAIN ruled[n].content |->
                                                    ruled[n].content[j].text])]],
   messages     |-> [i \in DOMAIN turns |->
                       [role    |-> turns[i].role,
                        content |-> NormalizedContent(turns, i),
                        calls   |-> turns[i].calls,
                        answers |-> turns[i].answers]],
   attachments  |-> AttachmentsOf(turns)]

NormalizeChatCompletions(items) == Normalized(items, <<>>)

NormalizeResponses(items, instructions) ==
  Normalized(items, [n \in DOMAIN instructions |->
                       [role |-> "developer", text |-> instructions[n]]])

-----------------------------------------------------------------------------
(* Answers: a text, or tool calls without a text.                          *)

EncodeChatCompletion(text, calls) ==
  <<Item("message", "assistant", IF calls = <<>> THEN <<Text(text)>> ELSE <<>>, calls, NoAnswer)>>

EncodeResponse(text, calls) ==
  IF calls = <<>>
  THEN <<Item("message", "assistant", <<Text(text)>>, <<>>, NoAnswer)>>
  ELSE [n \in DOMAIN calls |->
          Item("function_call", "assistant", <<>>, <<calls[n]>>, NoAnswer)]

-----------------------------------------------------------------------------
(* Names of tools, as sequences of characters: ":" is half a separator, "P" *)
(* stands for the whole marker of custom tools.  A declaration is a record  *)
(* of kind, namespace (NoNamespace without one) and name.                  *)

Separator    == <<":", ":">>
CustomPrefix == <<"P">> \o Separator
NoNamespace  == <<>>

Tool(kind, namespace, name) == [kind |-> kind, namespace |-> namespace, name |-> name]

Qualified(namespace, name) ==
  IF namespace = NoNamespace THEN name ELSE namespace \o Separator \o name

EncodeToolName(tool) ==
  IF tool.kind = "custom"
  THEN CustomPrefix \o Qualified(tool.namespace, tool.name)
  ELSE Qualified(tool.namespace, tool.name)

SeparatorsIn(value) ==
  {i \in 1..(Len(value) - 1) : SubSeq(value, i, i + 1) = Separator}

(* The first separator splits a name, unless nothing stands before or      *)
(* behind it.                                                              *)
Unqualified(kind, value) ==
  LET first == CHOOSE i \in SeparatorsIn(value) : \A j \in SeparatorsIn(value) : i <= j
  IN  IF SeparatorsIn(value) # {} /\ first > 1 /\ first + 1 < Len(value)
      THEN Tool(kind, SubSeq(value, 1, first - 1), SubSeq(value, first + 2, Len(value)))
      ELSE Tool(kind, NoNamespace, value)

(* Mutant of DecodeToolName: custom tools are never in a namespace.        *)
DecodeToolNameFlat(value) ==
  IF IsPrefix(CustomPrefix, value)
  THEN Tool("custom", NoNamespace, SubSeq(value, Len(CustomPrefix) + 1, Len(value)))
  ELSE Unqualified("function", value)

DecodeToolName(value) ==
  IF IsPrefix(CustomPrefix, value)
  THEN Unqualified("custom", SubSeq(value, Len(CustomPrefix) + 1, Len(value)))
  ELSE Unqualified("function", value)

(* The flat tools of a Responses request: functions and custom tools, in a *)
(* namespace or not; tools of the server are left out.                     *)
NormalizedTools(tools) ==
  LET IsClientTool(tool) == tool.kind \in {"function", "custom"}
  IN  [n \in DOMAIN SelectSeq(tools, IsClientTool) |->
         EncodeToolName(SelectSeq(tools, IsClientTool)[n])]
=============================================================================
