---------------------------- MODULE AnswerStream ----------------------------
(***************************************************************************)
(* One streamed answer, from the website's Page to the client.             *)
(*                                                                         *)
(* The gateway polls the text of the Assistant turn while ChatGPT writes   *)
(* it.  The text may be rendered again between two polls, and what a       *)
(* client was sent cannot be taken back.  So a stable prefix is found      *)
(* (stream/), what may be the private tool marker is held back (tools/),   *)
(* the rest is sent as SSE frames (api/), and when the answer stands still *)
(* it is parsed and saved, and then the client is told.  The client may go *)
(* away at any moment.                                                     *)
(*                                                                         *)
(* A text is a sequence of symbols.  A frame is its kind; the text of a    *)
(* delta is kept beside it.                                                *)
(***************************************************************************)
EXTENDS Naturals, FiniteSets, SequencesExt

CONSTANTS
  Alphabet,       \* the symbols of a text
  Space,          \* the one that is white space
  Start, End,     \* TOOL_PROTOCOL_START and TOOL_PROTOCOL_END
  Requests,       \* the payloads the parser accepts: one symbol per tool call
  Chunks,         \* what can be written between two polls
  StableSamples,  \* samples that must agree (3 in the code)
  Holdback,       \* symbols kept back at the tail (64 in the code)
  MaxRewrite,     \* bound: symbols rendered again between two polls
  MaxLength,      \* bound: length of a text
  MaxPolls        \* the timeout, in polls

Texts == Seq(Alphabet)

ASSUME StreamAssumption ==
  /\ Space \in Alphabet
  /\ Start \in Texts \ {<<>>} /\ End \in Texts \ {<<>>}
  /\ Requests \subseteq Texts \ {<<>>}
  /\ Chunks \subseteq Texts
  /\ StableSamples \in Nat \ {0}
  /\ {Holdback, MaxRewrite, MaxLength, MaxPolls} \subseteq Nat

VARIABLES
  api,       \* "chat" (Chat Completions) or "responses"
  tools,     \* the request has tools
  pc,        \* where the handler is
  closed,    \* the client's connection is closed, and so the signal aborted
  deaf,      \* it was closed before the writer listened
  polls,     \* polls so far
  samples,   \* StablePrefixState.samples
  emitted,   \* StablePrefixState.emitted
  waiter,    \* stableText and consecutiveStable of the completion loop
  detector,  \* classification and buffer of the ToolDetectionBuffer
  item,      \* textItemStarted of the Responses encoder
  outbox,    \* frames of the sink call that is being awaited
  delta,     \* the text of the delta frame in outbox
  wire,      \* frames written
  seen,      \* text of the deltas written
  saved,     \* the answer in the final aggregate
  failure,   \* the error that ended the turn
  calm,      \* history: what rewrites of at most Holdback symbols leave alone
  deep,      \* history: a rewrite went into that
  quiet      \* history: polls in a row that showed one text as complete

request    == <<api, tools>>
connection == <<closed, deaf>>
historyVars == <<calm, deep, quiet>>
loopVars   == <<samples, emitted, waiter, polls, historyVars>>
answerVars == <<detector, item, outbox, delta>>
wireVars   == <<wire, seen>>
vars == <<request, pc, connection, loopVars, answerVars, wireVars, saved, failure>>

NoAnswer      == [type |-> "none", text |-> <<>>, calls |-> 0]
TextAnswer(t) == [type |-> "text", text |-> t, calls |-> 0]
ToolAnswer(n) == [type |-> "tool_calls", text |-> <<>>, calls |-> n]
IsAnswer(a)   == a.type # "none"

Init ==
  /\ api \in {"chat", "responses"}
  /\ tools \in BOOLEAN
  /\ pc = "preparing" /\ closed = FALSE /\ deaf = FALSE /\ polls = 0
  /\ samples = <<>> /\ emitted = <<>> /\ calm = <<>> /\ deep = FALSE /\ quiet = 0
  /\ waiter = [stable |-> <<>>, count |-> 0]
  /\ detector = [class |-> IF tools THEN "pending" ELSE "text", buffer |-> <<>>]
  /\ item = FALSE
  /\ outbox = <<>> /\ delta = <<>> /\ wire = <<>> /\ seen = <<>>
  /\ saved = NoAnswer /\ failure = "none"

-----------------------------------------------------------------------------
(* Texts.                                                                  *)

From(t, n) == SubSeq(t, n, Len(t))

Includes(t, m) == \E n \in 1..(Len(t) + 1 - Len(m)) : SubSeq(t, n, n + Len(m) - 1) = m

Words(t) == {n \in 1..Len(t) : t[n] # Space}

TrimStart(t) == IF Words(t) = {} THEN <<>> ELSE From(t, Min(Words(t)))

Trim(t) == IF Words(t) = {} THEN <<>> ELSE SubSeq(t, Min(Words(t)), Max(Words(t)))

-----------------------------------------------------------------------------
(* tools/detection-buffer.ts.                                              *)

(* Mutant of Held: nothing is held back.                                   *)
HeldNothing(t) == 0

(* How much of the end of t may be the beginning of a marker.              *)
Held(t) ==
  Max({n \in 0..(Len(Start) - 1) : n <= Len(t) /\ From(t, Len(t) - n + 1) = SubSeq(Start, 1, n)})

(* A text that begins with the marker, and one that may come to.           *)
Opens(t)   == IsPrefix(Start, TrimStart(t))
MayOpen(t) == IsPrefix(TrimStart(t), Start)

(* The outcomes of push and finish: what is kept, and what may be sent.    *)
Detected(class, buffer, emit) == [ok |-> TRUE, class |-> class, buffer |-> buffer, emit |-> emit]

Undetected == [ok |-> FALSE, class |-> "text", buffer |-> <<>>, emit |-> <<>>]

(* push(d).                                                                *)
Push(det, d) ==
  LET buffer == det.buffer \o d
      cut    == Len(buffer) - Held(buffer)
  IN IF ~tools \/ d = <<>> THEN Detected(det.class, det.buffer, d)
     ELSE IF det.class = "tool" \/ (det.class = "pending" /\ Opens(buffer)) THEN
       Detected("tool", buffer, <<>>)
     ELSE IF det.class = "pending" /\ MayOpen(buffer) THEN Detected("pending", buffer, <<>>)
     ELSE IF Includes(buffer, Start) THEN Undetected
     ELSE Detected("text", From(buffer, cut + 1), SubSeq(buffer, 1, cut))

(* finish().                                                               *)
FinishDetection(det) ==
  LET pending == det.class = "pending"
  IN IF ~tools \/ det.class = "tool" THEN Detected(det.class, det.buffer, <<>>)
     ELSE IF pending /\ Opens(det.buffer) THEN Detected("tool", det.buffer, <<>>)
     ELSE IF \/ pending /\ Words(det.buffer) # {} /\ MayOpen(det.buffer)
             \/ Includes(det.buffer, Start) THEN Undetected
     ELSE Detected("text", <<>>, det.buffer)

-----------------------------------------------------------------------------
(* tools/parser.ts: the answer, or none when the output is rejected.       *)

ToolChoices == {"auto", "required", "none"}

Parse(t, choice) ==
  LET body    == Trim(t)
      payload == Trim(SubSeq(body, Len(Start) + 1, Len(body) - Len(End)))
      marked  == Includes(t, Start) \/ Includes(t, End)
  IN IF ~tools \/ (~marked /\ choice # "required") THEN TextAnswer(t)
     ELSE IF /\ marked /\ choice # "none"
             /\ IsPrefix(Start, body) /\ IsSuffix(End, body) /\ payload \in Requests
          THEN ToolAnswer(Len(payload))
     ELSE NoAnswer

-----------------------------------------------------------------------------
(* api/encode: the frames of an event.                                     *)

StartedFrames == IF api = "chat" THEN <<"role">> ELSE <<"created", "in_progress">>

(* Mutant of ItemFrames: the item is started again with every delta.       *)
ItemFramesAgain == IF api = "chat" THEN <<>> ELSE <<"item", "part">>

(* textStartFrames()                                                       *)
ItemFrames == IF api = "chat" \/ item THEN <<>> ELSE <<"item", "part">>

CallFrames == <<"item", "call_delta", "call_done", "item_done">>

(* One frame for all calls, or those of one call after the other.          *)
ToolFrames(n) ==
  IF api = "chat" THEN <<"calls">>
  ELSE [m \in 1..(4 * n) |-> CallFrames[((m - 1) % 4) + 1]]

CompletedFrames(answer) ==
  IF api = "chat" THEN <<"finish", "[DONE]">>
  ELSE IF answer.type = "tool_calls" THEN <<"completed">>
  ELSE ItemFrames \o <<"text_done", "part_done", "item_done", "completed">>

(* The sink is given the text d, when there is any.                        *)
Emit(d) ==
  /\ delta' = d
  /\ IF d = <<>> THEN UNCHANGED <<item, outbox>>
     ELSE /\ outbox' = ItemFrames \o <<"delta">>
          /\ item' = (api = "responses")

(* The handler takes over what a call of the detector returned.            *)
Detects(outcome) ==
  /\ detector' = [class |-> outcome.class, buffer |-> outcome.buffer]
  /\ Emit(outcome.emit)

-----------------------------------------------------------------------------
(* How a turn ends (streaming-response.ts, the catch blocks).              *)

Goes(place) == pc' = place

(* The locals of the handler are gone.                                     *)
Forget ==
  /\ samples' = <<>> /\ emitted' = <<>> /\ calm' = <<>> /\ quiet' = 0 /\ polls' = 0
  /\ waiter' = [stable |-> <<>>, count |-> 0]
  /\ detector' = [class |-> "text", buffer |-> <<>>]
  /\ item' = FALSE
  /\ delta' = <<>>

(* The handler throws: the client is told, unless it is gone.  Stopping    *)
(* the generation on the website, discarding the Page and keeping the      *)
(* checkpoint are ConversationEngine's Fail.                               *)
Throw(code) ==
  /\ failure' = code
  /\ outbox' = IF closed THEN <<>> ELSE <<"error">>
  /\ Goes("ending")
  /\ Forget
  /\ UNCHANGED <<request, connection, wireVars, saved>>

(* The session and the prompt are ready: the sink gets "started", and the  *)
(* SSE writer begins to listen to the connection.                          *)
Prepare ==
  /\ pc = "preparing"
  /\ outbox' = StartedFrames
  /\ deaf' = closed
  /\ Goes("started")
  /\ UNCHANGED <<request, closed, loopVars, detector, item, delta, wireVars, saved, failure>>

(* Nothing has been sent yet: an ordinary HTTP error.                      *)
PrepareFails ==
  /\ pc = "preparing"
  /\ failure' = "rejected"
  /\ Goes("done")
  /\ UNCHANGED <<request, connection, loopVars, answerVars, wireVars, saved>>

(* The handler goes on when its sink call has returned.                    *)
At(place) == pc = place /\ outbox = <<>>

(* The prompt is sent (ConversationEngine's Checkpoint and Send).          *)
StartText ==
  /\ At("started") /\ ~closed
  /\ Goes("polling")
  /\ UNCHANGED <<request, connection, loopVars, answerVars, wireVars, saved, failure>>

Rereading == waiter.count >= StableSamples

(* The signal is seen before the prompt is sent, before a poll and before  *)
(* the final reread.                                                       *)
Abort ==
  /\ At("started") \/ At("polling")
  /\ closed
  /\ Throw("stream_aborted")
  /\ UNCHANGED deep

(* The driver fails, or the generation times out.                          *)
Interrupt ==
  /\ At("started") \/ At("polling")
  /\ Throw("driver")
  /\ UNCHANGED deep

-----------------------------------------------------------------------------
(* stream/: one poll.                                                      *)

(* The turn has been seen, with this text.                                 *)
Visible == samples # <<>>
Shown   == IF Visible THEN Last(samples) ELSE <<>>

(* What the website may show at the next poll: the end of the text is      *)
(* rendered again, and more is written.                                    *)
Rerendered ==
  {t \in {SubSeq(Shown, 1, n) \o c : n \in {k \in 0..Len(Shown) : k + MaxRewrite >= Len(Shown)},
                                     c \in Chunks} : Len(t) <= MaxLength}

Sampled(t) == From(Append(samples, t), Max({1, Len(samples) + 2 - StableSamples}))

Stable(t) == LongestCommonPrefix(ToSet(Sampled(t)))

Full(t) == Len(Sampled(t)) = StableSamples

(* Mutant of Committable: the tail is not kept back.                       *)
CommittableWhole(t) == Stable(t)

Committable(t) == SubSeq(Stable(t), 1, Len(Stable(t)) - Holdback)

(* observeStablePrefix(t): what has been given out after it, and when it   *)
(* throws.                                                                 *)
Committed(t) == IF Full(t) /\ IsPrefix(emitted, Committable(t)) THEN Committable(t) ELSE emitted

Diverged(t) == ~IsPrefix(emitted, t) \/ (Full(t) /\ ~IsPrefix(emitted, Stable(t)))

Fresh(t) == Push(detector, From(t, Len(emitted) + 1))

Settled(t, marker) == Rereading /\ marker /\ t = waiter.stable

(* Mutant of Waited: a text without the completion marker counts as well.  *)
WaitedAnyway(t, marker) ==
  IF Settled(t, marker) THEN waiter
  ELSE IF Rereading \/ Words(t) = {} THEN [stable |-> t, count |-> 0]
  ELSE [stable |-> t, count |-> waiter.count + 1]

(* The completion loop: the same text with the completion marker in        *)
(* StableSamples polls, and once more.                                     *)
Waited(t, marker) ==
  IF Settled(t, marker) THEN waiter
  ELSE IF Rereading \/ ~marker \/ Words(t) = {} THEN [stable |-> t, count |-> 0]
  ELSE [stable |-> t, count |-> IF t = waiter.stable THEN waiter.count + 1 ELSE 1]

(* The timeout does not keep the final reread from happening.              *)
CanPoll == At("polling") /\ ~closed /\ (polls < MaxPolls \/ Rereading)

Polled == polls' = IF Rereading THEN polls ELSE polls + 1

(* The turn is not there: it has not come yet, or it is gone.              *)
SeeNothing ==
  /\ CanPoll /\ Polled /\ ~Visible
  /\ UNCHANGED <<request, pc, connection, samples, emitted, waiter, historyVars, answerVars, wireVars,
                 saved, failure>>

Vanish ==
  /\ CanPoll /\ Visible
  /\ Throw("vanished")
  /\ UNCHANGED deep

(* History: the text seen before, less Holdback symbols, is to stay.       *)
Calmed(t) ==
  LET rest == SubSeq(t, 1, Len(t) - Holdback) IN IF Len(rest) > Len(calm) THEN rest ELSE calm

Deepened(t) == deep \/ ~IsPrefix(calm, t)

See(t, marker) ==
  /\ CanPoll /\ Polled
  /\ ~Diverged(t) /\ Fresh(Committed(t)).ok
  /\ samples' = Sampled(t)
  /\ emitted' = Committed(t)
  /\ waiter' = Waited(t, marker)
  /\ calm' = Calmed(t) /\ deep' = Deepened(t)
  /\ quiet' = IF ~marker THEN 0 ELSE IF t = Shown THEN quiet + 1 ELSE 1
  /\ Detects(Fresh(Committed(t)))
  /\ Goes(IF Settled(t, marker) THEN "flushing" ELSE "polling")
  /\ UNCHANGED <<request, connection, wireVars, saved, failure>>

Diverge(t) ==
  /\ CanPoll
  /\ Diverged(t)
  /\ Throw("chatgpt_stream_diverged")
  /\ deep' = Deepened(t)

SeeMarker(t) ==
  /\ CanPoll
  /\ ~Diverged(t) /\ ~Fresh(Committed(t)).ok
  /\ Throw("chatgpt_tool_protocol_invalid")
  /\ UNCHANGED deep

-----------------------------------------------------------------------------
(* The answer stands still: flush, parse, save, tell the client.           *)

(* Mutant of Flush: the tail that was kept back is forgotten.              *)
FlushNothing ==
  /\ At("flushing")
  /\ Goes("finishing")
  /\ UNCHANGED <<request, connection, loopVars, answerVars, wireVars, saved, failure>>

(* flushStablePrefix(finalText)                                            *)
Flush ==
  /\ At("flushing")
  /\ IsPrefix(emitted, waiter.stable) /\ Fresh(waiter.stable).ok
  /\ emitted' = waiter.stable
  /\ samples' = Sampled(waiter.stable)
  /\ Detects(Fresh(waiter.stable))
  /\ Goes("finishing")
  /\ UNCHANGED <<request, connection, waiter, polls, historyVars, wireVars, saved, failure>>

FlushFails ==
  /\ At("flushing")
  /\ ~IsPrefix(emitted, waiter.stable) \/ ~Fresh(waiter.stable).ok
  /\ Throw("chatgpt_tool_protocol_invalid")
  /\ UNCHANGED deep

Finish ==
  /\ At("finishing")
  /\ FinishDetection(detector).ok
  /\ Detects(FinishDetection(detector))
  /\ Goes("saving")
  /\ UNCHANGED <<request, connection, loopVars, wireVars, saved, failure>>

FinishFails ==
  /\ At("finishing")
  /\ ~FinishDetection(detector).ok
  /\ Throw("chatgpt_tool_protocol_invalid")
  /\ UNCHANGED deep

(* parseAssistantResult and buildFinalResult; the signal is not looked at. *)
(* The request's tool_choice is read here only, and so it is chosen here.  *)
Save ==
  /\ At("saving")
  /\ \E choice \in ToolChoices :
       IsAnswer(Parse(waiter.stable, choice)) /\ saved' = Parse(waiter.stable, choice)
  /\ Goes("saved")
  /\ UNCHANGED <<request, connection, loopVars, answerVars, wireVars, failure>>

(* The parser or the structured output check rejects the answer, or it     *)
(* cannot be saved.                                                        *)
SaveFails ==
  /\ At("saving")
  /\ Throw("rejected")
  /\ UNCHANGED deep

(* The two last events, tool_calls and completed.                          *)
Announce ==
  /\ At("saved")
  /\ outbox' = (IF saved.calls > 0 THEN ToolFrames(saved.calls) ELSE <<>>) \o CompletedFrames(saved)
  /\ Goes("ending")
  /\ Forget
  /\ UNCHANGED <<request, connection, deep, wireVars, saved, failure>>

-----------------------------------------------------------------------------
(* api/sse.ts.                                                             *)

(* A frame is written, and drained when the socket was full.               *)
Write ==
  /\ outbox # <<>> /\ ~closed
  /\ outbox' = Tail(outbox)
  /\ wire' = Append(wire, Head(outbox))
  /\ IF Head(outbox) = "delta" THEN seen' = seen \o delta /\ delta' = <<>>
     ELSE UNCHANGED <<seen, delta>>
  /\ UNCHANGED <<request, pc, connection, loopVars, detector, item, saved, failure>>

(* Mutant of WriteFails: a write that waits for drain ignores the close.   *)
WriteWaits ==
  /\ outbox # <<>> /\ closed
  /\ UNCHANGED vars

(* The write is rejected.  An answer that was saved stays saved, and the   *)
(* error frame is given up.  A writer that has missed the close waits for  *)
(* a drain that never comes.                                               *)
WriteFails ==
  /\ outbox # <<>> /\ closed /\ ~deaf
  /\ IF pc # "ending" THEN Throw("stream_aborted") /\ UNCHANGED deep
     ELSE /\ outbox' = <<>>
          /\ UNCHANGED <<request, pc, connection, loopVars, detector, item, delta, wireVars, saved,
                         failure>>

(* writer.end()                                                            *)
EndResponse ==
  /\ At("ending")
  /\ Goes("done")
  /\ UNCHANGED <<request, connection, loopVars, answerVars, wireVars, saved, failure>>

ClientCloses ==
  /\ pc # "done" /\ ~closed
  /\ closed' = TRUE
  /\ UNCHANGED <<request, pc, deaf, loopVars, answerVars, wireVars, saved, failure>>

PollNext ==
  \/ SeeNothing \/ Vanish
  \/ \E t \in Rerendered : Diverge(t) \/ SeeMarker(t) \/ \E marker \in BOOLEAN : See(t, marker)

Proceed ==
  \/ Write \/ WriteFails \/ EndResponse
  \/ Prepare \/ PrepareFails \/ StartText \/ Abort \/ Interrupt
  \/ Flush \/ FlushFails \/ Finish \/ FinishFails
  \/ Save \/ SaveFails \/ Announce

Next == PollNext \/ Proceed \/ ClientCloses

Spec == Init /\ [][Next]_vars

(* Every await of the handler is bounded by a timeout of the driver, and   *)
(* polling by the generation timeout, an Interrupt.  A write is not: it    *)
(* ends because the client reads or because its connection closes.         *)
FairSpec == Spec /\ WF_vars(Proceed)

-----------------------------------------------------------------------------
(* Properties.                                                             *)

Places == {"preparing", "started", "polling", "flushing", "finishing", "saving", "saved",
           "ending", "done"}

Terminal == {"[DONE]", "completed", "error"}

FrameKinds == Terminal \cup {"role", "created", "in_progress", "item", "part", "delta", "calls",
  "call_delta", "call_done", "text_done", "part_done", "item_done", "finish"}

(* What the variables hold; of the samples never more than are compared.   *)
TypeOK ==
  /\ api \in {"chat", "responses"}
  /\ tools \in BOOLEAN
  /\ pc \in Places /\ closed \in BOOLEAN /\ deaf \in BOOLEAN /\ item \in BOOLEAN /\ deep \in BOOLEAN
  /\ polls \in 0..MaxPolls
  /\ samples \in Seq(Texts) /\ Len(samples) <= StableSamples
  /\ emitted \in Texts /\ calm \in Texts /\ quiet \in Nat /\ delta \in Texts /\ seen \in Texts
  /\ waiter \in [stable : Texts, count : 0..StableSamples]
  /\ detector \in [class : {"pending", "text", "tool"}, buffer : Texts]
  /\ outbox \in Seq(FrameKinds) /\ wire \in Seq(FrameKinds)
  /\ saved \in [type : {"none", "text", "tool_calls"}, text : Texts, calls : Nat]

(* The client and the database agree: the deltas a client was sent are     *)
(* together the text that is saved, with nothing for an answer of tool     *)
(* calls; and success is announced for a saved answer only.  Three         *)
(* mechanisms hold text back, and it must all come out again exactly once. *)
SavedIsSeen ==
  /\ IsAnswer(saved) => seen = saved.text
  /\ ToSet(wire) \cap {"finish", "completed"} # {} => IsAnswer(saved)

(* No part of the wire ever shows the private start marker to a client     *)
(* that uses tools, however it is cut into polls and deltas.               *)
PrivateMarkerHidden == tools => ~Includes(seen, Start)

(* The number of frames of a kind before position n of the wire.           *)
Before(n, kind) == Cardinality({m \in 1..(n - 1) : wire[m] = kind})

(* The event protocol of both APIs: nothing follows a terminal event, text *)
(* comes inside the one open text part, items are opened and closed in     *)
(* turn, and a completed response has none open and at least one.          *)
WireFollowsProtocol ==
  \A n \in 1..Len(wire) :
    LET open == Before(n, "item") - Before(n, "item_done") IN
    /\ wire[n] \in Terminal => n = Len(wire)
    /\ wire[n] = "item" => open = 0
    /\ wire[n] \in {"part", "call_delta", "call_done", "text_done", "item_done"} => open = 1
    /\ wire[n] = "delta" /\ api = "responses" =>
         open = 1 /\ Before(n, "part") = 1 /\ Before(n, "text_done") = 0
    /\ wire[n] = "completed" => open = 0 /\ Before(n, "item") > 0
    /\ wire[n] = "finish" => Before(n, "calls") = 0 \/ Before(n, "delta") = 0

(* The holdback is there for a website that renders the end of a text      *)
(* again: as long as all but the last Holdback symbols of every text that  *)
(* was shown stay, the stream does not break.                              *)
ShallowRewritesSurvive == failure = "chatgpt_stream_diverged" => deep

(* Only a complete answer is saved: the website showed it, with its        *)
(* completion marker, in StableSamples polls in a row and in the reread.   *)
SavedWhenQuiet == pc \in {"flushing", "finishing", "saving"} => quiet > StableSamples

(* Whatever the website does, and whenever the client leaves once the      *)
(* response has begun, the response ends.                                  *)
ResponseEnds == <>(pc = "done" \/ deaf)

(* docs/superpowers/specs/2026-08-16-phase-5-true-streaming-design.md:81:  *)
(* a client that goes away after completion was confirmed does not keep    *)
(* the turn from being saved.                                              *)
CompletedTurnIsSaved ==
  [][failure' = "stream_aborted" => failure = failure' \/ pc \notin {"finishing", "saving"}]_vars

=============================================================================
