----------------------------- MODULE DriverTurn -----------------------------
(***************************************************************************)
(* The turns of one Conversation as the ChatGPT driver                     *)
(* (src/chatgpt/driver.ts) carries them out: open a chat in a Page, count  *)
(* the answers it shows, enter and send the prompt, and read the answer at *)
(* that position until it is complete.                                     *)
(*                                                                         *)
(* The website is external.  A Page has its own view of it: after a        *)
(* navigation or a reload the composer comes first and the old turns are   *)
(* mounted later, all at once.  The turns of a Conversation come one after *)
(* the other (ConversationEngine), on a Page that is retained between them *)
(* or taken from the pool, where other users leave their Pages.            *)
(***************************************************************************)
EXTENDS Integers, SequencesExt

CONSTANTS
  Pages,       \* the Pages of the browser
  Chats,       \* conversations of the website, named by their URLs
  MaxTurns,    \* bound: turns in a behaviour
  MaxText,     \* bound: chunks of an answer
  MaxReloads,  \* bound: reloads of a completed source Page
  FileCounts   \* the numbers of attachments of a turn

NoPage == "no page"
NoChat == "no chat"
Blank  == "about:blank"
Root   == "https://chatgpt.com/"
Bootstrap == "/c/WEB:"       \* the provisional route of a chat that begins
Elsewhere == "another chat"  \* any other page of the website

ASSUME DriverAssumption ==
  /\ IsFiniteSet(Pages) /\ Cardinality(Pages) > 1 /\ NoPage \notin Pages
  /\ Chats \cap {NoChat, Blank, Root, Bootstrap, Elsewhere} = {}
  /\ MaxTurns \in Nat /\ MaxText \in Nat \ {0} /\ MaxReloads \in Nat
  /\ FileCounts \subseteq Nat

Turns == 1..MaxTurns
Ghost == 0            \* the provisional Assistant node of a chat that begins
NoText == [turn |-> -1, len |-> 0]

VARIABLES
  web,      \* the turns of every chat, as the website has them
  text,     \* how much of its answer the website has written
  writing,  \* the turns whose answers are being written
  page,     \* what every Page shows: where it is, and the turns it has mounted
  idle,     \* the idle Pages of the pool, in the order they are handed out
  bound,    \* the Page retained for the Conversation
  other,    \* a Page some other user of the pool has
  saved,    \* the URL saved for the Conversation
  turn,     \* the turn in progress
  answers,  \* what every turn has returned
  begun,    \* turns begun so far
  reloads   \* reloads so far

site    == <<web, text, writing>>
pool    == <<idle, bound, other>>
bounds  == <<begun, reloads>>
vars    == <<web, text, writing, page, idle, bound, other, saved, turn, answers,
             begun, reloads>>

Text == [turn : Turns \cup {Ghost}, len : 0..MaxText]

(* at is the Page's URL, dest the chat behind a provisional route.  past   *)
(* is history for the properties: since the Page mounted its chat, it was  *)
(* reloaded in a turn, or the chat has grown from another Page.            *)
PageView ==
  [at : Chats \cup {Blank, Root, Bootstrap, Elsewhere}, dest : Chats \cup {NoChat},
   shown : Seq(Turns \cup {Ghost}), past : {"opened", "reloaded", "behind"}]
BlankPage == [at |-> Blank, dest |-> NoChat, shown |-> <<>>, past |-> "opened"]

Phases ==
  {"none", "opening", "hydrating", "opened", "uploading", "composing", "clicking",
   "click failed", "observing", "looked", "verifying", "completed beside stop", "reloaded"}

TurnState ==
  [step : Phases, page : Pages \cup {NoPage}, fresh : BOOLEAN,
   samples : 0..2,          \* stableSamples of the restored history
   baseline : Nat, torn : BOOLEAN, gated : BOOLEAN,
   files : Nat, mounted : Nat, ready : Nat,   \* attachments, their tiles, those uploaded
   lapsed : BOOLEAN,        \* they are not ready any more, since the last look
   modal : BOOLEAN,         \* the rate limit modal covers the Page
   composed : BOOLEAN, retried : BOOLEAN,
   marker : BOOLEAN, sawStop : BOOLEAN, stable : Text \cup {NoText},
   aborted : BOOLEAN]
NoTurn ==
  [step |-> "none", page |-> NoPage, fresh |-> FALSE, samples |-> 0,
   baseline |-> 0, torn |-> FALSE, gated |-> FALSE,
   files |-> 0, mounted |-> 0, ready |-> 0, lapsed |-> FALSE, modal |-> FALSE,
   composed |-> FALSE, retried |-> FALSE, marker |-> FALSE, sawStop |-> FALSE,
   stable |-> NoText, aborted |-> FALSE]

Answer == [text : Text, torn : BOOLEAN]
NoAnswer == [text |-> NoText, torn |-> FALSE]

Init ==
  /\ web = [c \in Chats |-> <<>>]
  /\ text = [t \in Turns |-> 0]
  /\ writing = {}
  /\ page = [p \in Pages |-> BlankPage]
  /\ idle \in SetToSeqs(Pages)
  /\ bound = NoPage
  /\ other = NoPage
  /\ saved = NoChat
  /\ turn = NoTurn
  /\ answers = [t \in Turns |-> NoAnswer]
  /\ begun = 0
  /\ reloads = 0

(* The Page of the turn, and the Page after a navigation.                  *)
View == page[turn.page]
Shows(v) == page' = [page EXCEPT ![turn.page] = v]
Goto(url) == [BlankPage EXCEPT !.at = url]

(* The website: what it has written of an answer, and whether all of it.   *)
Written(t)  == IF t = Ghost THEN 1 ELSE text[t]
Finished(t) == t \in Turns /\ t \notin writing /\ text[t] > 0

At(step) == turn.step = step
Proceed(next) == turn' = next
To(step) == Proceed([turn EXCEPT !.step = step])

-----------------------------------------------------------------------------
(* Opening a chat.                                                         *)

(* A request gets its turn: it takes the retained Page, or the first idle  *)
(* one, for a fresh chat or for the saved one.                             *)
Begin ==
  /\ At("none") /\ begun < MaxTurns
  /\ \E fresh \in {TRUE} \cup {saved = NoChat}, files \in FileCounts :
       \/ /\ bound # NoPage
          /\ Proceed([NoTurn EXCEPT !.step = "opening", !.page = bound, !.fresh = fresh,
                                    !.files = files])
          /\ UNCHANGED idle
       \/ /\ bound = NoPage /\ idle # <<>>
          /\ Proceed([NoTurn EXCEPT !.step = "opening", !.page = Head(idle), !.fresh = fresh,
                                    !.files = files])
          /\ idle' = Tail(idle)
  /\ bound' = NoPage
  /\ begun' = begun + 1
  /\ UNCHANGED <<site, page, other, saved, answers, reloads>>

OpenFresh ==
  /\ At("opening") /\ turn.fresh
  /\ Shows(Goto(Root))
  /\ To("opened")
  /\ UNCHANGED <<site, pool, saved, answers, bounds>>

(* The saved chat is only navigated to when the Page is not there yet; a   *)
(* navigation that ends somewhere else makes the chat not restorable.      *)
OpenConversation ==
  /\ At("opening") /\ ~turn.fresh
  /\ \/ View.at = saved /\ To("opened") /\ UNCHANGED page
     \/ View.at # saved /\ To("hydrating") /\ Shows(Goto(saved))
     \/ View.at # saved /\ Shows(Goto(Root)) /\ Proceed([turn EXCEPT !.fresh = TRUE])
  /\ UNCHANGED <<site, pool, saved, answers, bounds>>

(* Mutant of HistoryShown: the composer alone counts as a restored chat.   *)
HistoryShownAtOnce == TRUE

(* The restored history is there when as many answers as prompts are shown *)
(* and the last one is complete, in two samples in a row.                  *)
HistoryShown ==
  /\ View.shown # <<>> /\ Finished(Last(View.shown))
  /\ \A t \in Range(View.shown) : Written(t) > 0

Hydrated ==
  /\ At("hydrating") /\ HistoryShown
  /\ IF turn.samples = 0 THEN Proceed([turn EXCEPT !.samples = 1]) ELSE To("opened")
  /\ UNCHANGED <<site, page, pool, saved, answers, bounds>>

HydrationFails ==
  /\ At("hydrating")
  /\ Proceed([turn EXCEPT !.step = "opening", !.fresh = TRUE, !.samples = 0])
  /\ UNCHANGED <<site, page, pool, saved, answers, bounds>>

-----------------------------------------------------------------------------
(* Sending the prompt.                                                     *)

(* startText counts the answers before it does anything else: the one it   *)
(* will own comes next.  A chat without a URL of its own has to get one    *)
(* before the answer is looked at.                                         *)
StartText ==
  /\ At("opened") /\ ~turn.aborted
  /\ Proceed([turn EXCEPT !.step = IF turn.files > 0 THEN "uploading" ELSE "composing",
                          !.baseline = Len(View.shown), !.torn = View.past # "opened",
                          !.gated = View.at \notin Chats])
  /\ UNCHANGED <<site, page, pool, saved, answers, bounds>>

(* Mutant of UploadReady: tiles count as soon as they are there.           *)
UploadReadyMounted == turn.mounted = turn.files

(* inspectOwnedAttachmentState: every tile of this turn is there and none  *)
(* is pending.                                                             *)
UploadReady == turn.mounted = turn.files /\ turn.ready = turn.files

Uploaded ==
  /\ At("uploading") /\ ~turn.aborted /\ UploadReady
  /\ To("composing")
  /\ UNCHANGED <<site, page, pool, saved, answers, bounds>>

(* Mutant of Compose: no look at the attachments after they were ready.    *)
ComposeUnchecked ==
  /\ At("composing") /\ ~turn.aborted
  /\ Proceed([turn EXCEPT !.step = "clicking", !.composed = TRUE, !.modal = FALSE])
  /\ UNCHANGED <<site, page, pool, saved, answers, bounds>>

(* The prompt is entered, the rate limit modal acknowledged, and the state *)
(* of the attachments looked at once more: when they are not ready now,    *)
(* the turn fails.  Nothing looks again, not before a second click either. *)
Compose ==
  /\ At("composing") /\ ~turn.aborted /\ UploadReady
  /\ Proceed([turn EXCEPT !.step = "clicking", !.composed = TRUE, !.modal = FALSE])
  /\ UNCHANGED <<site, page, pool, saved, answers, bounds>>

(* The website takes the prompt: from a chat that is open it is appended   *)
(* to that chat, whatever of it the Page shows; from the root it begins a  *)
(* new one, on a provisional route with a provisional Assistant node.  Its *)
(* composer is empty then, and a Page elsewhere that is at the chat knows  *)
(* nothing of it.                                                          *)
Grown(c, v) ==
  [p \in Pages |-> IF p = turn.page THEN v
                   ELSE IF page[p].at = c THEN [page[p] EXCEPT !.past = "behind"] ELSE page[p]]

Delivered(next) ==
  /\ \E c \in Chats :
       /\ IF View.at \in Chats THEN c = View.at ELSE web[c] = <<>>
       /\ web' = [web EXCEPT ![c] = Append(@, begun)]
       /\ page' = Grown(c, IF View.at \in Chats THEN [View EXCEPT !.shown = Append(@, begun)]
                           ELSE [Goto(Bootstrap) EXCEPT !.dest = c, !.shown = <<Ghost>>])
  /\ writing' = writing \cup {begun}
  /\ UNCHANGED text
  /\ Proceed([next EXCEPT !.composed = FALSE, !.mounted = 0, !.ready = 0, !.lapsed = FALSE])

(* A composer shows the Send control while there is a prompt in it.        *)
SendShown == turn.composed

(* The Send control is clicked.  The click can fail under the modal, or    *)
(* report a failure after all.                                             *)
Click ==
  /\ At("clicking") /\ ~turn.aborted /\ SendShown
  /\ \/ ~turn.modal /\ Delivered([turn EXCEPT !.step = "observing"])
     \/ ~turn.modal /\ Delivered([turn EXCEPT !.step = "click failed"])
     \/ turn.modal /\ To("click failed") /\ UNCHANGED <<site, page>>
  /\ UNCHANGED <<pool, saved, answers, bounds>>

(* Mutant of RetryClick: the prompt is entered again for the second click. *)
RetryClickEntering ==
  /\ At("click failed") /\ ~turn.aborted /\ turn.modal /\ ~turn.retried
  /\ Proceed([turn EXCEPT !.step = "clicking", !.modal = FALSE, !.retried = TRUE,
                          !.composed = TRUE])
  /\ UNCHANGED <<site, page, pool, saved, answers, bounds>>

(* Only a click that failed beside the modal is tried again, once.         *)
RetryClick ==
  /\ At("click failed") /\ ~turn.aborted /\ turn.modal /\ ~turn.retried
  /\ Proceed([turn EXCEPT !.step = "clicking", !.modal = FALSE, !.retried = TRUE])
  /\ UNCHANGED <<site, page, pool, saved, answers, bounds>>

-----------------------------------------------------------------------------
(* Observing the answer.                                                   *)

(* The turn at the position counted before is the target, when it is       *)
(* there and has text; its completion marker is read first.                *)
Target == View.shown[turn.baseline + 1]
TargetShown ==
  /\ turn.gated => View.at \in Chats
  /\ Len(View.shown) > turn.baseline
  /\ Written(Target) > 0

Look ==
  /\ At("observing") /\ ~turn.aborted /\ TargetShown
  /\ \E marker \in BOOLEAN :
       /\ marker => Target = Ghost \/ Finished(Target)
       /\ Proceed([turn EXCEPT !.step = "looked", !.marker = marker, !.gated = FALSE])
  /\ UNCHANGED <<site, page, pool, saved, answers, bounds>>

(* What innerText can be by then: a Page may lag behind the website, but   *)
(* shows all of an answer beside its marker.                               *)
TextShown ==
  {[turn |-> Target, len |-> n] : n \in IF turn.marker /\ Finished(Target) THEN {Written(Target)}
                                        ELSE 1..Written(Target)}

(* The Stop control is there while the Page knows of an answer that is     *)
(* being written; it may stay behind.                                      *)
StopShown ==
  IF \E t \in writing : t \in Range(View.shown) THEN {TRUE} ELSE BOOLEAN

(* The turn returns: its Page is retained, its chat is saved.              *)
Return(answer) ==
  /\ View.at \in Chats
  /\ answers' = [answers EXCEPT ![begun] = [text |-> answer, torn |-> turn.torn]]
  /\ saved' = View.at
  /\ bound' = turn.page
  /\ turn' = NoTurn
  /\ UNCHANGED <<site, idle, other, begun>>

(* A marker without a Stop control: the answer is complete.                *)
Complete ==
  /\ At("looked") /\ ~turn.aborted /\ turn.marker
  /\ Len(View.shown) > turn.baseline
  /\ FALSE \in StopShown
  /\ \E answer \in TextShown : Return(answer)
  /\ UNCHANGED <<page, reloads>>

(* A marker beside a Stop control: the Page is brought up to date first.   *)
CompleteBesideStop ==
  /\ At("looked") /\ ~turn.aborted /\ turn.marker
  /\ Len(View.shown) > turn.baseline
  /\ View.at \in Chats /\ TRUE \in StopShown
  /\ \E answer \in TextShown :
       Proceed([turn EXCEPT !.step = "completed beside stop", !.sawStop = TRUE, !.stable = answer])
  /\ UNCHANGED <<site, page, pool, saved, answers, bounds>>

(* No marker: another poll, or, when the same text has been there for long *)
(* enough in a turn that was seen generating, a look from a second Page.   *)
KeepObserving ==
  /\ At("looked") /\ ~turn.aborted /\ ~turn.marker
  /\ Len(View.shown) > turn.baseline
  /\ \E answer \in TextShown, stop \in StopShown :
       LET seen == [turn EXCEPT !.step = "observing", !.sawStop = @ \/ stop] IN
       \/ Proceed([seen EXCEPT !.stable = answer])
       \/ /\ answer = turn.stable /\ seen.sawStop /\ View.at \in Chats
          /\ Proceed([seen EXCEPT !.step = "verifying"])
  /\ UNCHANGED <<site, page, pool, saved, answers, bounds>>

(* Mutant of Verified: the same text is enough, whether complete or not.   *)
VerifiedText ==
  LET c == View.at IN
  /\ Len(web[c]) > turn.baseline
  /\ LET t == web[c][turn.baseline + 1] IN turn.stable = [turn |-> t, len |-> text[t]]

(* verifyCompletedConversation: a Page of its own shows the same text,     *)
(* complete, at the same position of the chat.                             *)
Verified ==
  LET c == View.at IN
  /\ Len(web[c]) > turn.baseline
  /\ LET t == web[c][turn.baseline + 1] IN Finished(t) /\ turn.stable = [turn |-> t, len |-> text[t]]

Verify ==
  /\ At("verifying") /\ ~turn.aborted
  /\ \/ Verified /\ To("completed beside stop")
     \/ To("observing")
  /\ UNCHANGED <<site, page, pool, saved, answers, bounds>>

(* resynchronizeCompletedSourcePage: the Page is loaded again; the old     *)
(* turns are mounted later.                                                *)
Reload ==
  /\ At("completed beside stop") /\ ~turn.aborted /\ reloads < MaxReloads
  /\ reloads' = reloads + 1
  /\ \/ Shows([View EXCEPT !.shown = <<>>, !.past = "reloaded"]) /\ To("reloaded")
     \/ Shows(Goto(Root)) /\ To("observing")
  /\ UNCHANGED <<site, pool, saved, answers, begun>>

(* It counts as completed when no Stop control is left.                    *)
Resynchronized ==
  /\ At("reloaded") /\ ~turn.aborted
  /\ \/ FALSE \in StopShown /\ Return(turn.stable)
     \/ /\ TRUE \in StopShown
        /\ Proceed([turn EXCEPT !.step = "observing", !.stable = NoText])
        /\ UNCHANGED <<site, pool, saved, answers, begun>>
  /\ UNCHANGED <<page, reloads>>

-----------------------------------------------------------------------------
(* Ends that are no answer.                                                *)

(* Mutant of Fail: the URL is kept, whatever may have been sent there.     *)
FailKeepingUrl ==
  /\ ~At("none")
  /\ Shows(BlankPage)
  /\ idle' = Append(idle, turn.page)
  /\ turn' = NoTurn
  /\ UNCHANGED <<saved, bound, other, answers, bounds>>

(* Anything thrown: a timeout, a selector, an abort.  The Page is closed   *)
(* (a blank one takes its place); from the checkpoint on the row stays     *)
(* in_flight and its URL is not used again.                                *)
Fail ==
  /\ ~At("none")
  /\ Shows(BlankPage)
  /\ idle' = Append(idle, turn.page)
  /\ saved' = IF turn.step \in {"opening", "hydrating"} THEN saved ELSE NoChat
  /\ turn' = NoTurn
  /\ UNCHANGED <<bound, other, answers, bounds>>

Fails == Fail /\ UNCHANGED site

(* stop() clicks the Stop control of an aborted turn, then the turn fails. *)
StopTurn ==
  /\ turn.aborted /\ At("observing") /\ TRUE \in StopShown
  /\ writing' = writing \ Range(View.shown)
  /\ Fail
  /\ UNCHANGED <<web, text>>

Abort ==
  /\ ~At("none") /\ ~turn.aborted
  /\ Proceed([turn EXCEPT !.aborted = TRUE])
  /\ UNCHANGED <<site, page, pool, saved, answers, bounds>>

-----------------------------------------------------------------------------
(* The website.                                                            *)

WriteAnswer(t) ==
  /\ t \in writing
  /\ \/ text[t] < MaxText /\ text' = [text EXCEPT ![t] = @ + 1] /\ UNCHANGED writing
     \/ text[t] > 0 /\ writing' = writing \ {t} /\ UNCHANGED text
  /\ UNCHANGED <<web, page, pool, saved, turn, answers, bounds>>

(* A chat that begins gets its URL.                                        *)
Settle(p) ==
  /\ page[p].at = Bootstrap
  /\ page' = [page EXCEPT ![p] = [Goto(@.dest) EXCEPT !.shown = web[page[p].dest]]]
  /\ UNCHANGED <<site, pool, saved, turn, answers, bounds>>

(* The turns of the chat a Page has open are mounted, all at once.         *)
Mount(p) ==
  /\ page[p].at \in Chats /\ page[p].shown # web[page[p].at]
  /\ page' = [page EXCEPT ![p].shown = web[page[p].at], ![p].past = "opened"]
  /\ UNCHANGED <<site, pool, saved, turn, answers, bounds>>

(* Tiles appear and go, uploads end and are taken back, as long as the     *)
(* prompt is not sent; the modal comes up.                                 *)
ComposerChanges ==
  /\ \/ /\ turn.step \in {"uploading", "composing"} \/ turn.composed
        /\ \E mounted \in 0..turn.files : \E ready \in 0..mounted :
             Proceed([turn EXCEPT !.mounted = mounted, !.ready = ready,
                                  !.lapsed = turn.composed /\ ready < turn.files])
     \/ /\ turn.step \in {"composing", "clicking", "click failed"} /\ ~turn.modal
        /\ Proceed([turn EXCEPT !.modal = TRUE])
  /\ UNCHANGED <<site, page, pool, saved, answers, bounds>>

-----------------------------------------------------------------------------
(* The pool between turns (PageRegistry has it in full).                   *)

(* The retained Page is given up: to the pool, when another user needs     *)
(* one and none is idle, or closed, when it has expired.                   *)
Evict ==
  /\ bound # NoPage
  /\ \/ idle = <<>> /\ UNCHANGED page
     \/ page' = [page EXCEPT ![bound] = BlankPage]
  /\ idle' = Append(idle, bound)
  /\ bound' = NoPage
  /\ UNCHANGED <<site, other, saved, turn, answers, bounds>>

OtherAcquires ==
  /\ other = NoPage /\ idle # <<>>
  /\ other' = Head(idle)
  /\ idle' = Tail(idle)
  /\ UNCHANGED <<site, page, bound, saved, turn, answers, bounds>>

(* Other users take their Page somewhere else, or close it when they fail; *)
(* a probe of the diagnostics gives it back even when it could not         *)
(* navigate.                                                               *)
OtherEnds ==
  /\ other # NoPage
  /\ \E v \in {BlankPage, Goto(Root), Goto(Elsewhere), page[other]} :
       page' = [page EXCEPT ![other] = v]
  /\ idle' = Append(idle, other)
  /\ other' = NoPage
  /\ UNCHANGED <<site, bound, saved, turn, answers, bounds>>

Driver ==
  \/ OpenFresh \/ OpenConversation \/ Hydrated \/ HydrationFails
  \/ StartText \/ Uploaded \/ Compose \/ Click \/ RetryClick
  \/ Look \/ Complete \/ CompleteBesideStop \/ KeepObserving
  \/ Verify \/ Reload \/ Resynchronized \/ Fails \/ StopTurn

Website ==
  \/ \E t \in Turns : WriteAnswer(t)
  \/ \E p \in Pages : Settle(p) \/ Mount(p)
  \/ ComposerChanges

Next ==
  \/ Begin \/ Abort \/ Driver \/ Website
  \/ Evict \/ OtherAcquires \/ OtherEnds

Spec == Init /\ [][Next]_vars

-----------------------------------------------------------------------------
(* Types of all variables.                                                 *)
TypeOK ==
  /\ web \in [Chats -> Seq(Turns)]
  /\ text \in [Turns -> 0..MaxText] /\ writing \subseteq Turns
  /\ page \in [Pages -> PageView]
  /\ idle \in Seq(Pages)
  /\ bound \in Pages \cup {NoPage} /\ other \in Pages \cup {NoPage}
  /\ saved \in Chats \cup {NoChat}
  /\ turn \in TurnState
  /\ answers \in [Turns -> Answer \cup {NoAnswer}]
  /\ begun \in 0..MaxTurns /\ reloads \in 0..MaxReloads

(* The answer a turn returns is the answer to its own prompt (baseline     *)
(* ownership, docs/superpowers/specs/2026-08-16-phase-5-true-streaming-    *)
(* design.md:285-299).                                                     *)
OwnAnswer ==
  \A t \in Turns : answers[t] # NoAnswer => answers[t].text.turn = t

(* It is, whatever the website renders and wherever the Page has been,     *)
(* unless its answers were counted on a Page that had been reloaded by the *)
(* turn before, or whose chat had grown from another Page, and that had    *)
(* not mounted the chat again.                                             *)
OwnAnswerUnlessTorn ==
  \A t \in Turns : answers[t] # NoAnswer /\ ~answers[t].torn => answers[t].text.turn = t

(* A returned text is all the website is ever going to write of an answer. *)
(* It takes a second torn turn to return less: the first one can return an *)
(* older answer while its own is still being written, and only then can a  *)
(* later one take the unfinished answer for its own finished one.          *)
WholeAnswerUnlessTornAgain ==
  \A t \in Turns :
    answers[t] # NoAnswer /\ ~(answers[t].torn /\ \E s \in 1..(t - 1) : answers[s].torn) =>
      Finished(answers[t].text.turn) /\ answers[t].text.len = text[answers[t].text.turn]

(* However often the click is reported to have failed, a turn delivers its *)
(* prompt at most once.                                                    *)
PromptSentOnce ==
  \A t \in Turns :
    \A c, d \in Chats : \A i \in DOMAIN web[c], j \in DOMAIN web[d] :
      web[c][i] = t /\ web[d][j] = t => c = d /\ i = j

(* The saved chat consists of turns that have returned: a turn that failed *)
(* after its prompt may have been delivered leaves no chat behind that a   *)
(* later turn could be appended to.                                        *)
SavedChatAnswered ==
  At("none") /\ saved # NoChat =>
    /\ web[saved] # <<>>
    /\ \A t \in Range(web[saved]) : answers[t] # NoAnswer

(* A prompt is delivered with all of its attachments uploaded, although    *)
(* tiles go and uploads are taken back before it is: what is missing then  *)
(* was there at the look after the prompt had been entered (driver.ts:641) *)
(* and has gone since, before the click or the second click.               *)
PromptCarriesFiles ==
  [][turn.composed /\ web' # web => turn.ready = turn.files \/ turn.lapsed]_vars
=============================================================================
