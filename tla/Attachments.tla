---------------------------- MODULE Attachments -----------------------------
(***************************************************************************)
(* What becomes of the files a request encloses: resolved before the turn  *)
(* (src/attachments/resolver.ts), compared and planned with the messages   *)
(* that carry them (src/context/multimodal.ts, conversation-engine.ts),    *)
(* staged under upload names (src/attachments/staging.ts), named in the    *)
(* prompt, saved with the Conversation (aggregate-builder.ts) and read     *)
(* back for the next turn.                                                 *)
(*                                                                         *)
(* A canonical message is ContextPlanner's, its body a sequence of parts:  *)
(* texts, and attachments by reference with what the resolver found out    *)
(* about them.  A File is a record: its id, content, logical name and the  *)
(* MIME type its row has.                                                  *)
(***************************************************************************)
EXTENDS ContextPlanner, ApiRequests

CONSTANT MaxAttachments   \* attachments of one request (policy.ts)

NoType      == "no type"
NoReference == <<"no reference">>

-----------------------------------------------------------------------------
(* Resolving.  The value of a descriptor is what the resolver gets to see: *)
(* the public File and what its bytes are, or bytes from which it makes a  *)
(* private File.                                                           *)

PrivateFile(request, id, value, mime) ==
  [id |-> <<request, id>>, content |-> value.content, name |-> value.name, mime |-> mime]

FileOf(request, att) ==
  CASE att.source = "file_id"                -> att.value.file
    [] att.source \in {"data_url", "url"}    -> PrivateFile(request, att.id, att.value, att.value.detected)
    [] att.source = "base64"                 -> PrivateFile(request, att.id, att.value, NoType)

Resolved(request, att) ==
  LET file == FileOf(request, att)
  IN  [local |-> att.id, kind |-> att.kind, source |-> att.source, file |-> file,
       name  |-> file.name,
       mime  |-> IF att.kind = "image" THEN att.value.detected ELSE file.mime]

ResolveAll(request, attachments) ==
  [n \in DOMAIN attachments |-> Resolved(request, attachments[n])]

(* Everything is there or the request is refused before its turn begins.   *)
Resolvable(attachments) ==
  /\ Len(attachments) <= MaxAttachments
  /\ \A n \in DOMAIN attachments :
       attachments[n].kind = "image" => attachments[n].value.detected # NoType

StoredReference(id) == <<"stored", id>>

RetainStored(aggregate) ==
  [n \in DOMAIN aggregate.attachments |->
     LET record == aggregate.attachments[n]
     IN  [local |-> StoredReference(record.id), kind |-> record.kind,
          source |-> record.source, file |-> record.file,
          name |-> record.file.name, mime |-> record.file.mime]]

-----------------------------------------------------------------------------
(* Canonical messages.                                                     *)

JoinedText(content) ==
  LET lines == FlattenSeq([j \in DOMAIN content |->
                             IF IsText(content[j]) THEN content[j].text ELSE <<EmptyLine>>])
  IN  <<Text(IF lines = <<>> THEN <<EmptyLine>> ELSE lines)>>

(* Neighbouring texts are joined; attachments keep their places.           *)
Joining(parts, part) ==
  IF IsText(part) /\ parts # <<>> /\ IsText(Last(parts))
  THEN Append(Front(parts), Text(Last(parts).text \o part.text))
  ELSE Append(parts, part)

Coalesced(content) ==
  LET parts[n \in 0..Len(content)] ==
        IF n = 0 THEN <<>> ELSE Joining(parts[n - 1], content[n])
  IN  parts[Len(content)]

(* attached is the canonical part of every attachment of a message.        *)
CanonicalBody(content, attached) ==
  IF \A j \in DOMAIN content : IsText(content[j])
  THEN JoinedText(content)
  ELSE LET parts == Coalesced(content)
       IN  [j \in DOMAIN parts |-> 
              IF IsText(parts[j]) THEN parts[j] ELSE attached[parts[j].attachmentId]]

AttachmentPart(reference, kind, item) ==
  [type |-> "attachment", reference |-> reference, kind |-> kind,
   content |-> item.file.content, name |-> item.name, mime |-> item.mime]

IdsIn(content) == {content[j].attachmentId : j \in {k \in DOMAIN content : ~IsText(content[k])}}

ItemFor(items, local) == SelectLastInSeq(items, LAMBDA item : item.local = local)

(* A message of a request, its attachments looked up among the resolved.   *)
CanonicalMessage(message, resolved) ==
  LET attached == [id \in IdsIn(message.content) |->
                     LET item == resolved[ItemFor(resolved, id)]
                     IN  AttachmentPart(id, item.kind, item)]
  IN
  [role    |-> message.role,
   body    |-> IF message.role = "tool" \/ message.calls # <<>>
               THEN JoinedText(message.content)
               ELSE CanonicalBody(message.content, attached),
   calls   |-> ToSet(message.calls),
   answers |-> message.answers]

CanonicalMessages(normalized, resolved) ==
  [i \in DOMAIN normalized.messages |-> CanonicalMessage(normalized.messages[i], resolved)]

(* A saved message read back, its attachments looked up by their names in  *)
(* that message.                                                           *)
CanonicalStoredMessage(aggregate, retained, i) ==
  LET record == aggregate.messages[i]
      attached == [id \in IdsIn(record.content) |->
                     LET n == CHOOSE n \in DOMAIN aggregate.attachments :
                                /\ aggregate.attachments[n].message = record.id
                                /\ aggregate.attachments[n].local = id
                     IN  AttachmentPart(StoredReference(aggregate.attachments[n].id),
                                        aggregate.attachments[n].kind, retained[n])]
  IN
  [role    |-> record.role,
   body    |-> IF record.role = "tool" \/ record.calls # {}
               THEN JoinedText(record.content)
               ELSE CanonicalBody(record.content, attached),
   calls   |-> record.calls,
   answers |-> record.answers]

CanonicalStored(aggregate, retained) ==
  [i \in DOMAIN aggregate.messages |-> CanonicalStoredMessage(aggregate, retained, i)]

(* Messages are compared without the references of their attachments.      *)
WithoutReferences(body) ==
  [j \in DOMAIN body |-> IF IsText(body[j]) THEN body[j]
                         ELSE [body[j] EXCEPT !.reference = NoReference]]

Fingerprint(message) == [message EXCEPT !.body = WithoutReferences(message.body)]

Fingerprints(messages) == [i \in DOMAIN messages |-> Fingerprint(messages[i])]

(* The plan is made on fingerprints; its messages are the ones of the      *)
(* request or the stored ones, references and all.                         *)
PlanWithAttachments(stored, request, hasAffinityPage) ==
  LET Seen(x) == [x EXCEPT !.messages = Fingerprints(x.messages)]
      plan == PlanContextSync(IF stored = NoStored THEN NoStored ELSE Seen(stored),
                              Seen(request), hasAffinityPage)
  IN
  IF plan = PlanningError THEN plan
  ELSE [mode    |-> plan.mode,
        history |-> IF ~Rebuilds(plan) THEN <<>>
                    ELSE IF request.mode = "full" \/ stored = NoStored
                    THEN RequestHistory(request.messages)
                    ELSE ConfirmedPrefix(stored),
        pending |-> PendingTurn(request.messages)]

-----------------------------------------------------------------------------
(* Uploads.                                                                *)

IsAttachment(part) == part.type = "attachment"

AttachmentsIn(messages) ==
  FlattenSeq([i \in DOMAIN messages |-> Picked(messages[i].body, IsAttachment)])

(* Mutant of UploadReferences: a rebuild uploads its pending turn only.    *)
UploadReferencesPending(plan) ==
  LET parts == AttachmentsIn(plan.pending)
  IN  [n \in DOMAIN parts |-> parts[n].reference]

UploadReferences(plan) ==
  LET parts == AttachmentsIn(IF Rebuilds(plan) THEN plan.history \o plan.pending ELSE plan.pending)
  IN  [n \in DOMAIN parts |-> parts[n].reference]

(* A logical name is a sequence: a stem and the numbers put behind it.     *)
UploadName(names, n) ==
  LET count == Cardinality({m \in 1..n : names[m] = names[n]})
  IN  IF count = 1 THEN names[n] ELSE Append(names[n], count)

Staged(items, references) ==
  LET chosen == [n \in DOMAIN references |-> items[ItemFor(items, references[n])]]
      names  == [n \in DOMAIN references |-> chosen[n].name]
  IN  [n \in DOMAIN references |->
         [reference |-> references[n], content |-> chosen[n].file.content,
          uploadName |-> UploadName(names, n)]]

(* What a prompt says about the attachments of its messages: the name each *)
(* of them was uploaded under, or its logical name when it was not.        *)
UploadNameIn(uploads, part) ==
  LET n == SelectInSeq(uploads, LAMBDA upload : upload.reference = part.reference)
  IN  IF n = 0 THEN part.name ELSE uploads[n].uploadName

NamedIn(messages, uploads) ==
  LET parts == AttachmentsIn(messages)
  IN  {[content |-> parts[n].content, uploadName |-> UploadNameIn(uploads, parts[n])] :
         n \in DOMAIN parts}

-----------------------------------------------------------------------------
(* Saving.                                                                 *)

NoAggregate == [messages |-> <<>>, attachments |-> <<>>]

Binding(local, item) ==
  [local |-> local, kind |-> item.kind, source |-> item.source, file |-> item.file]

(* How every reference of a turn is to be saved: one of this request under *)
(* its own name, a stored one as the record has it.                        *)
AttachmentBindings(resolved, aggregate, retained) ==
  LET Locals(items) == {items[n].local : n \in DOMAIN items}
  IN  [reference \in Locals(resolved) \cup Locals(retained) |->
         LET n == SelectInSeq(retained, LAMBDA item : item.local = reference)
         IN  IF n # 0
             THEN Binding(aggregate.attachments[n].local, retained[n])
             ELSE Binding(reference, resolved[ItemFor(resolved, reference)])]

(* Mutant of CommonPrefix: attachments are not compared.                   *)
CommonPrefixOfTexts(stored, authoritative) ==
  LET Texts(message) == Picked(message.body, IsText)
      Same(n) == \A i \in 1..n :
                   /\ Texts(stored[i]) = Texts(authoritative[i])
                   /\ stored[i].role = authoritative[i].role
                   /\ stored[i].calls = authoritative[i].calls
                   /\ stored[i].answers = authoritative[i].answers
      common  == {n \in 0..Len(authoritative) : n <= Len(stored) /\ Same(n)}
  IN  CHOOSE n \in common : \A m \in common : m <= n

CommonPrefix(stored, authoritative) ==
  LET Same(n) == \A i \in 1..n : Fingerprint(stored[i]) = Fingerprint(authoritative[i])
      common  == {n \in 0..Len(authoritative) : n <= Len(stored) /\ Same(n)}
  IN  CHOOSE n \in common : \A m \in common : m <= n

(* Record ids are new in every turn.                                       *)
NewRecordId(turn, i, j) == <<turn, i, j>>

CreatedMessage(turn, i, message, bindings) ==
  [id      |-> NewRecordId(turn, i, 0),
   role    |-> message.role,
   content |-> IF message.calls # {} /\ message.body = <<Text(<<EmptyLine>>)>>
               THEN <<>>
               ELSE [j \in DOMAIN message.body |->
                       IF IsText(message.body[j]) THEN message.body[j]
                       ELSE [type |-> "attachment",
                             attachmentId |-> bindings[message.body[j].reference].local]],
   calls   |-> message.calls,
   answers |-> message.answers]

CreatedAttachments(turn, i, message, bindings) ==
  LET Record(j) == [id      |-> NewRecordId(turn, i, j),
                    message |-> NewRecordId(turn, i, 0),
                    local   |-> bindings[message.body[j].reference].local,
                    kind    |-> bindings[message.body[j].reference].kind,
                    source  |-> bindings[message.body[j].reference].source,
                    file    |-> bindings[message.body[j].reference].file]
      places == Picked([j \in DOMAIN message.body |-> j],
                       LAMBDA j : IsAttachment(message.body[j]))
  IN  [n \in DOMAIN places |-> Record(places[n])]

(* The messages that have not changed keep their records, whatever prefix  *)
(* of the saved ones that is; the rest is created.  The last message is    *)
(* the answer.                                                             *)
FinalAggregate(turn, aggregate, stored, final, bindings) ==
  LET kept == CommonPrefix(stored, Front(final))
      RecordsOf(i) == Picked(aggregate.attachments,
                             LAMBDA record : record.message = aggregate.messages[i].id)
  IN
  [messages    |-> [i \in DOMAIN final |->
                      IF i <= kept THEN aggregate.messages[i]
                      ELSE CreatedMessage(turn, i, final[i], bindings)],
   attachments |-> FlattenSeq([i \in DOMAIN final |->
                      IF i <= kept THEN RecordsOf(i)
                      ELSE CreatedAttachments(turn, i, final[i], bindings)])]
=============================================================================
