-------------------------- MODULE DriverTurn_proofs --------------------------
(***************************************************************************)
(* Invariants of the driver's turns, for any number of Pages, chats,       *)
(* turns, attachments, chunks and reloads.                                 *)
(*                                                                         *)
(* The argument: a Page is in one place at a time (Owned), and a chat only *)
(* grows from the turn's own, so one that has mounted its chat since it    *)
(* last grew shows all of it (Views), also when the answers are counted    *)
(* (Counted).  The prompt becomes the next turn there (Positioned), and    *)
(* what is read at that position is its answer (Read).  Whatever becomes   *)
(* of the turn, the chat that stays saved consists of turns that have      *)
(* returned (Kept, Continued), and the prompt of a turn is entered beside  *)
(* attachments that are ready (Prompts).                                   *)
(***************************************************************************)
EXTENDS DriverTurn, SequenceTheorems, FiniteSetTheorems, TLAPS

-----------------------------------------------------------------------------
(* Before the prompt of the turn is delivered, and after.                  *)
Unsent ==
  \/ turn.step \in {"opening", "hydrating", "opened", "uploading", "composing"}
  \/ turn.composed
Sent == ~At("none") /\ ~Unsent

(* Every Page is in one place: with the turn, retained, with another user  *)
(* or, once, among the idle ones.                                          *)
Owned ==
  /\ At("none") => turn = NoTurn
  /\ ~At("none") =>
       /\ turn.page \in Pages /\ bound = NoPage /\ other # turn.page
       /\ \A i \in 1..Len(idle) : idle[i] # turn.page
  /\ bound # NoPage => bound # other /\ \A i \in 1..Len(idle) : idle[i] # bound
  /\ other # NoPage => \A i \in 1..Len(idle) : idle[i] # other
  /\ \A i, j \in 1..Len(idle) : idle[i] = idle[j] => i = j

(* A turn's prompt is on the website once, from its delivery on, and only  *)
(* what is there is answered.                                              *)
In(w, t) == \E c \in Chats : \E i \in 1..Len(w[c]) : w[c][i] = t
UpTo(w, n) == \A c \in Chats : \A i \in 1..Len(w[c]) : w[c][i] <= n
Once(w) ==
  \A c, d \in Chats : \A i \in 1..Len(w[c]), j \in 1..Len(w[d]) :
    w[c][i] = w[d][j] => c = d /\ i = j

(* The attachments were ready at the last look at them.                     *)
Loaded(t) == t.ready = t.files \/ t.lapsed

Prompts ==
  /\ ~At("none") => begun \in Turns
  /\ turn.composed => turn.step \in {"clicking", "click failed"} /\ Loaded(turn)
  /\ UpTo(web, begun) /\ Once(web)
  /\ Unsent => ~In(web, begun)
  /\ \A t \in Turns : t \in writing \/ text[t] > 0 => In(web, t)

(* What a Page shows of a chat lags behind the website: the turn at a      *)
(* position is the one that stands there on the website, or a later one.   *)
Lags(shown, chat) ==
  /\ Len(shown) <= Len(chat)
  /\ \A i \in 1..Len(shown) :
       shown[i] >= chat[i] /\ \E j \in 1..Len(chat) : shown[i] = chat[j]

(* A Page that counts as having mounted its chat shows all of it, but for  *)
(* one that is restoring its history or has failed to: whenever a chat     *)
(* grows, the other Pages that are at it no longer count.                  *)
Views ==
  \A p \in Pages :
    /\ page[p].at \in Chats => Lags(page[p].shown, web[page[p].at])
    /\ page[p].at \in {Blank, Root, Elsewhere} => page[p].shown = <<>>
    /\ page[p].at = Bootstrap =>
         /\ p = turn.page /\ Sent /\ turn.gated
         /\ turn.step \in {"clicking", "click failed", "observing"}
         /\ page[p].dest \in Chats /\ web[page[p].dest] = <<begun>>
    /\ page[p].at \in Chats /\ page[p].past = "opened" =>
         \/ page[p].shown = web[page[p].at]
         \/ /\ p = turn.page /\ page[p].shown = <<>>
            /\ turn.step = "hydrating" \/ (turn.step = "opening" /\ turn.fresh)

(* The turns of a chat that can be continued have returned, and their      *)
(* answers are finished unless a torn turn has returned another one.       *)
NoTorn == \A t \in Turns : ~answers[t].torn
Past == {t \in Turns : answers[t] # NoAnswer /\ (NoTorn => Finished(t))}

Kept ==
  saved # NoChat /\ ~Sent =>
    /\ web[saved] # <<>>
    /\ \A i \in 1..Len(web[saved]) : web[saved][i] \in Past

Continued ==
  /\ turn.step = "opening" /\ ~turn.fresh => saved # NoChat
  /\ turn.step = "hydrating" => saved # NoChat /\ View.at = saved
  /\ turn.step \in {"opened", "uploading", "composing"} \/ turn.composed =>
       View.at = Root \/ (saved # NoChat /\ View.at = saved)

(* An untorn turn counts all answers of its chat.                          *)
Counted ==
  turn.step \in {"uploading", "composing"} \/ turn.composed =>
    /\ turn.gated <=> View.at \notin Chats
    /\ ~turn.torn =>
         /\ View.past = "opened"
         /\ turn.baseline = IF View.at \in Chats THEN Len(web[View.at]) ELSE 0

(* Its prompt is then the last of the chat, at the position it counted.    *)
Positioned ==
  Sent =>
    /\ View.at \in Chats \cup {Root, Bootstrap}
    /\ View.at = Root => turn.step = "observing"
    /\ View.at = Bootstrap /\ ~turn.torn => turn.baseline = 0
    /\ View.at \in Chats =>
         /\ web[View.at] # <<>>
         /\ \A i \in 1..Len(web[View.at]) : web[View.at][i] \in Past \cup {begun}
         /\ ~turn.torn =>
              /\ Len(web[View.at]) = turn.baseline + 1
              /\ web[View.at][turn.baseline + 1] = begun
              /\ View.shown \in {<<>>, web[View.at]}

(* What is being read: the answer under a marker is finished, and so is    *)
(* the text kept over a reload; in an untorn turn they are its own.        *)
TornAgain == turn.torn /\ ~NoTorn
Whole == {a \in Text : Finished(a.turn) /\ a.len = text[a.turn]}

Read ==
  /\ Unsent => turn.stable = NoText
  /\ turn.step = "looked" =>
       /\ turn.baseline < Len(View.shown)
       /\ turn.marker /\ ~TornAgain => Finished(View.shown[turn.baseline + 1])
  /\ ~At("none") /\ ~turn.torn /\ turn.stable # NoText => turn.stable.turn = begun
  /\ turn.step \in {"completed beside stop", "reloaded"} =>
       turn.stable # NoText /\ (~TornAgain => turn.stable \in Whole)

Returned ==
  \A t \in Turns : answers[t] # NoAnswer =>
    /\ t < begun \/ (t = begun /\ At("none"))
    /\ answers[t].text # NoText
    /\ ~answers[t].torn => answers[t].text.turn = t
    /\ ~(answers[t].torn /\ \E s \in 1..(t - 1) : answers[s].torn) => answers[t].text \in Whole

DInv ==
  /\ TypeOK /\ Owned /\ Prompts /\ Views /\ Kept /\ Continued /\ Counted
  /\ Positioned /\ Read /\ Returned

-----------------------------------------------------------------------------
(* Steps that change nothing but the turn's own state.                     *)

Beginning(t) == t.step = "hydrating" \/ (t.step = "opening" /\ t.fresh)

LEMMA TurnOnly ==
  ASSUME DInv, UNCHANGED <<site, page, pool, saved, answers, bounds>>,
         turn' \in TurnState, turn'.page = turn.page, ~At("none"), turn'.step # "none",
         Unsent' <=> Unsent,
         View.at = Bootstrap => turn'.gated /\ turn'.step \in {"clicking", "click failed", "observing"},
         Beginning(turn) => Beginning(turn') \/ View.shown # <<>>,
         turn'.composed => turn'.step \in {"clicking", "click failed"} /\ Loaded(turn')
  PROVE  TypeOK' /\ Owned' /\ Prompts' /\ Views' /\ Returned'
<1>1. /\ web' = web /\ text' = text /\ writing' = writing /\ page' = page /\ idle' = idle
      /\ bound' = bound /\ other' = other /\ saved' = saved /\ answers' = answers
      /\ begun' = begun /\ reloads' = reloads
  BY DEF site, pool, bounds
<1>2. ~At("none")'
  BY DEF At
<1>3. Sent' <=> Sent
  BY <1>2 DEF Sent
<1>4. TypeOK'
  BY <1>1 DEF DInv, TypeOK
<1>5. Owned'
  BY <1>1, <1>2 DEF DInv, Owned
<1>6. Prompts'
  BY <1>1 DEF DInv, Prompts
<1>7. Views'
  BY <1>1, <1>2, <1>3 DEF DInv, Views, View, Beginning
<1>8. Returned'
  BY <1>1, <1>2 DEF DInv, Returned, Whole, Finished
<1> QED
  BY <1>4, <1>5, <1>6, <1>7, <1>8

(* What the other parts of DInv say is about the turn's own Page.          *)
LEMMA TurnFrame ==
  ASSUME DInv, UNCHANGED <<site, page, pool, saved, answers, bounds>>,
         turn'.page = turn.page, ~At("none"), turn'.step # "none", Unsent' <=> Unsent
  PROVE  /\ web' = web /\ text' = text /\ writing' = writing /\ saved' = saved
         /\ answers' = answers /\ begun' = begun /\ View' = View
         /\ Sent' <=> Sent
         /\ Past' = Past /\ Whole' = Whole
         /\ turn'.torn = turn.torn => (TornAgain' <=> TornAgain)
         /\ \A t : Finished(t)' <=> Finished(t)
         /\ Kept'
<1>1. /\ web' = web /\ text' = text /\ writing' = writing /\ page' = page
      /\ saved' = saved /\ answers' = answers /\ begun' = begun
  BY DEF site, pool, bounds
<1>2. Sent' <=> Sent
  BY DEF Sent, At
<1> QED
  <2>1. Past' = Past /\ Whole' = Whole
    BY <1>1 DEF Past, Whole, NoTorn, Finished
  <2>2. /\ turn'.torn = turn.torn => (TornAgain' <=> TornAgain)
        /\ View' = View /\ \A t : Finished(t)' <=> Finished(t)
    BY <1>1 DEF TornAgain, NoTorn, View, Finished
  <2> QED
    BY <1>1, <1>2, <2>1, <2>2 DEF DInv, Kept

(* Steps that leave the turn where it is before or after its delivery.      *)
Alike(v, t) ==
  /\ v.page = t.page /\ v.files = t.files /\ v.torn = t.torn /\ v.baseline = t.baseline
Counts(v, t) == v.gated = t.gated /\ v.ready = t.ready /\ v.lapsed = t.lapsed
Reads(v, t) == v.stable = t.stable /\ v.marker = t.marker
Counting == turn.step \in {"uploading", "composing"} \/ turn.composed

LEMMA SameControl ==
  ASSUME DInv, UNCHANGED <<site, page, pool, saved, answers, bounds>>,
         turn' \in TurnState, Alike(turn', turn), ~At("none"), turn'.step # "none",
         Unsent' <=> Unsent, turn'.gated = turn.gated \/ Sent,
         turn'.composed => turn'.step \in {"clicking", "click failed"} /\ Loaded(turn'),
         Sent /\ View.at = Bootstrap =>
           turn'.gated /\ turn'.step \in {"clicking", "click failed", "observing"},
         Sent /\ View.at = Root => turn'.step = "observing",
         Counting' => Counting,
         turn'.step \in {"opening", "hydrating", "opened"} =>
           turn'.step = turn.step /\ turn'.fresh = turn.fresh,
         Beginning(turn) => Beginning(turn')
  PROVE  /\ TypeOK' /\ Owned' /\ Prompts' /\ Views' /\ Kept' /\ Continued' /\ Counted'
         /\ Positioned' /\ Returned'
<1>1. turn'.page = turn.page /\ turn'.torn = turn.torn /\ turn'.baseline = turn.baseline
  BY DEF Alike
<1>2. View.at = Bootstrap => Sent
  BY DEF DInv, Views, View, Owned, TypeOK
<1>3. TypeOK' /\ Owned' /\ Prompts' /\ Views' /\ Returned'
  BY <1>1, <1>2, TurnOnly
<1>4. /\ web' = web /\ saved' = saved /\ answers' = answers /\ begun' = begun /\ View' = View
      /\ Sent' <=> Sent
      /\ Past' = Past /\ Kept'
  BY <1>1, TurnFrame
<1>5. Continued'
  BY <1>1, <1>4 DEF DInv, Continued, Counting
<1>6. Counted'
  BY <1>1, <1>4 DEF DInv, Counted, Counting, Sent, Unsent
<1>7. Positioned'
  BY <1>1, <1>4 DEF DInv, Positioned
<1> QED
  BY <1>3, <1>4, <1>5, <1>6, <1>7

(* The fields of a turn's state that a change of the others leaves alone.   *)
LEMMA PhaseNames ==
  /\ "opening" \in Phases /\ "hydrating" \in Phases /\ "opened" \in Phases
  /\ "uploading" \in Phases /\ "composing" \in Phases /\ "clicking" \in Phases
  /\ "click failed" \in Phases /\ "observing" \in Phases /\ "looked" \in Phases
  /\ "verifying" \in Phases /\ "completed beside stop" \in Phases /\ "reloaded" \in Phases
BY DEF Phases

LEMMA StepFields ==
  ASSUME NEW t \in TurnState, NEW s \in Phases
  PROVE  LET v == [t EXCEPT !.step = s] IN
         /\ v \in TurnState /\ v.step = s /\ v.fresh = t.fresh /\ v.composed = t.composed
         /\ Alike(v, t) /\ Counts(v, t) /\ Reads(v, t)
BY DEF TurnState, Alike, Counts, Reads

LEMMA SampledFields ==
  ASSUME NEW t \in TurnState
  PROVE  LET v == [t EXCEPT !.samples = 1] IN
         /\ v \in TurnState /\ v.step = t.step /\ v.fresh = t.fresh /\ v.composed = t.composed
         /\ Alike(v, t) /\ Counts(v, t) /\ Reads(v, t)
BY DEF TurnState, Alike, Counts, Reads

LEMMA FreshFields ==
  ASSUME NEW t \in TurnState, NEW s \in Phases, NEW n \in 0..2
  PROVE  LET v == [t EXCEPT !.step = s, !.fresh = TRUE, !.samples = n] IN
         /\ v \in TurnState /\ v.step = s /\ v.fresh /\ v.composed = t.composed
         /\ Alike(v, t) /\ Counts(v, t) /\ Reads(v, t)
BY DEF TurnState, Alike, Counts, Reads

LEMMA RenewedFields ==
  ASSUME NEW t \in TurnState
  PROVE  LET v == [t EXCEPT !.step = "opening", !.fresh = TRUE, !.samples = 0] IN
         /\ v \in TurnState /\ v.step = "opening" /\ v.fresh /\ v.composed = t.composed
         /\ Alike(v, t) /\ Counts(v, t) /\ Reads(v, t)
<1>1. 0 \in 0..2
  OBVIOUS
<1> QED
  BY <1>1, PhaseNames, FreshFields

LEMMA EnteringFields ==
  ASSUME NEW t \in TurnState, NEW s \in Phases, NEW b \in BOOLEAN, NEW c \in BOOLEAN
  PROVE  LET v == [t EXCEPT !.step = s, !.composed = b, !.modal = c] IN
         /\ v \in TurnState /\ v.step = s /\ v.composed = b
         /\ Alike(v, t) /\ Counts(v, t) /\ Reads(v, t)
BY DEF TurnState, Alike, Counts, Reads

LEMMA HydratedStep ==
  ASSUME DInv, Hydrated \/ HydrationFails
  PROVE  DInv'
<1>1. /\ turn.step = "hydrating" /\ turn \in TurnState
      /\ UNCHANGED <<site, page, pool, saved, answers, bounds>>
  BY DEF Hydrated, HydrationFails, At, DInv, TypeOK
<1>2. \/ turn' = [turn EXCEPT !.samples = 1]
      \/ turn' = [turn EXCEPT !.step = "opened"] /\ View.shown # <<>>
      \/ turn' = [turn EXCEPT !.step = "opening", !.fresh = TRUE, !.samples = 0]
  BY DEF Hydrated, HydrationFails, To, Proceed, HistoryShown
<1>3. /\ turn' \in TurnState /\ turn'.composed = turn.composed
      /\ Alike(turn', turn) /\ Counts(turn', turn) /\ Reads(turn', turn)
      /\ \/ turn'.step = "hydrating"
         \/ turn'.step = "opened" /\ View.shown # <<>>
         \/ turn'.step = "opening" /\ turn'.fresh
  <2>1. LET v == [turn EXCEPT !.samples = 1] IN
        /\ v \in TurnState /\ v.step = turn.step
        /\ v.composed = turn.composed /\ Alike(v, turn) /\ Counts(v, turn) /\ Reads(v, turn)
    BY <1>1, SampledFields
  <2>2. LET v == [turn EXCEPT !.step = "opening", !.fresh = TRUE, !.samples = 0] IN
        /\ v \in TurnState /\ v.step = "opening" /\ v.fresh
        /\ v.composed = turn.composed /\ Alike(v, turn) /\ Counts(v, turn) /\ Reads(v, turn)
    BY <1>1, RenewedFields
  <2>3. LET v == [turn EXCEPT !.step = "opened"] IN
        /\ v \in TurnState /\ v.step = "opened"
        /\ v.composed = turn.composed /\ Alike(v, turn) /\ Counts(v, turn) /\ Reads(v, turn)
    BY <1>1, PhaseNames, StepFields
  <2> QED
    BY <1>1, <1>2, <2>1, <2>2, <2>3
<1>4. Unsent /\ Unsent' /\ ~turn.composed /\ ~At("none") /\ turn'.step # "none"
  BY <1>1, <1>3 DEF Unsent, DInv, Prompts, At
<1>5. TypeOK' /\ Owned' /\ Prompts' /\ Views' /\ Returned'
  BY <1>1, <1>3, <1>4, TurnOnly DEF Beginning, DInv, Views, View, Owned, Alike
<1>6. saved' = saved /\ View' = View /\ begun' = begun /\ ~Sent /\ ~Sent' /\ Kept'
  BY <1>1, <1>3, <1>4, TurnFrame DEF Sent, Alike, Counts
<1>7. Continued'
  BY <1>1, <1>3, <1>4, <1>6 DEF DInv, Continued, Alike
<1>8. Counted'
  BY <1>3, <1>4 DEF Counted, Alike
<1>9. Positioned' /\ Read'
  BY <1>1, <1>3, <1>4, <1>6 DEF DInv, Positioned, Read, At, Alike, Reads
<1> QED
  BY <1>5, <1>6, <1>7, <1>8, <1>9 DEF DInv

(* The answers are counted: all of them, when the turn is untorn.           *)
LEMMA StartTextStep ==
  ASSUME DInv, StartText
  PROVE  DInv'
<1> DEFINE phase == IF turn.files > 0 THEN "uploading" ELSE "composing"
           n == Len(View.shown)
           away == View.past # "opened"
           gated == View.at \notin Chats
<1>1. /\ turn.step = "opened" /\ turn \in TurnState /\ turn.page \in Pages
      /\ UNCHANGED <<site, page, pool, saved, answers, bounds>>
      /\ turn' = [turn EXCEPT !.step = phase, !.baseline = n, !.torn = away, !.gated = gated]
  BY DEF StartText, At, DInv, TypeOK, Owned, Proceed
<1>2. View \in PageView /\ n \in Nat /\ phase \in Phases
  <2>1. View \in PageView /\ n = Len(View.shown)
    BY <1>1 DEF DInv, TypeOK, View
  <2>2. View.shown \in Seq(Turns \cup {Ghost})
    BY <2>1 DEF PageView
  <2>3. n \in Nat
    BY <2>2, LenProperties
  <2> QED
    BY <2>1, <2>3, PhaseNames
<1> HIDE DEF phase, n, away, gated
<1>3. /\ turn' \in TurnState /\ turn'.page = turn.page /\ turn'.step = phase
      /\ turn'.baseline = n /\ turn'.torn = away /\ turn'.gated = gated
      /\ turn'.composed = turn.composed /\ turn'.ready = turn.ready
      /\ turn'.files = turn.files /\ turn'.stable = turn.stable
  <2>1. gated \in BOOLEAN /\ away \in BOOLEAN
    BY DEF gated, away
  <2>2. turn \in TurnState /\ n \in Nat /\ phase \in Phases
    BY <1>1, <1>2
  <2> DEFINE v == [turn EXCEPT !.step = phase, !.baseline = n, !.torn = away, !.gated = gated]
  <2>3. /\ v \in TurnState /\ v.step = phase /\ v.page = turn.page /\ v.baseline = n
        /\ v.torn = away /\ v.gated = gated /\ v.composed = turn.composed
        /\ v.ready = turn.ready /\ v.files = turn.files /\ v.stable = turn.stable
    BY <2>1, <2>2 DEF TurnState
  <2>4. turn' = v
    BY <1>1
  <2> QED
    BY <2>3, <2>4
<1>4. /\ Unsent /\ Unsent' /\ ~At("none") /\ ~turn.composed /\ phase \in {"uploading", "composing"}
      /\ turn'.step # "none"
  BY <1>1, <1>3 DEF Unsent, At, phase, DInv, Prompts
<1>5. View.at # Bootstrap
  BY <1>1 DEF DInv, Views, View
<1>6. TypeOK' /\ Owned' /\ Prompts' /\ Views' /\ Returned'
  BY <1>1, <1>3, <1>4, <1>5, TurnOnly DEF Beginning
<1>7. /\ saved' = saved /\ View' = View /\ web' = web /\ begun' = begun /\ ~Sent /\ ~Sent'
      /\ Kept'
  BY <1>1, <1>3, <1>4, TurnFrame DEF Sent
<1>8. Continued'
  BY <1>1, <1>3, <1>4, <1>7 DEF DInv, Continued
<1>9. Counted'
  <2>1. View.at \in Chats \cup {Root} /\ (View.at \in Chats /\ View.past = "opened" => View.shown = web[View.at])
    BY <1>1, <1>4, <1>7 DEF DInv, Continued, Views, View, TypeOK, Owned
  <2>2. View.at = Root => View.shown = <<>>
    BY <1>1 DEF DInv, Views, View
  <2>3. Root \notin Chats
    BY DriverAssumption
  <2> QED
    BY <1>3, <1>4, <1>7, <2>1, <2>2, <2>3 DEF Counted, n, away, gated
<1>10. Positioned' /\ Read'
  BY <1>1, <1>3, <1>4, <1>7 DEF DInv, Positioned, Read, At
<1> QED
  BY <1>6, <1>7, <1>8, <1>9, <1>10 DEF DInv

LEMMA UploadedStep ==
  ASSUME DInv, Uploaded
  PROVE  DInv'
<1>1. /\ turn.step = "uploading" /\ turn \in TurnState /\ ~turn.composed
      /\ UNCHANGED <<site, page, pool, saved, answers, bounds>>
      /\ turn' = [turn EXCEPT !.step = "composing"]
  BY DEF Uploaded, At, DInv, TypeOK, Prompts, To, Proceed
<1>2. /\ turn' \in TurnState /\ turn'.step = "composing" /\ turn'.fresh = turn.fresh
      /\ turn'.composed = turn.composed
      /\ Alike(turn', turn) /\ Counts(turn', turn) /\ Reads(turn', turn)
  BY <1>1, PhaseNames, StepFields
<1>3. Unsent /\ Unsent' /\ ~At("none") /\ ~Sent
  BY <1>1, <1>2 DEF Unsent, At, Sent
<1>4. /\ TypeOK' /\ Owned' /\ Prompts' /\ Views' /\ Kept' /\ Continued' /\ Counted'
      /\ Positioned' /\ Returned'
  BY <1>1, <1>2, <1>3, SameControl DEF Counting, Beginning, Counts
<1>5. Read'
  BY <1>1, <1>2, <1>3 DEF DInv, Read, Alike, Reads, At, bounds
<1> QED
  BY <1>4, <1>5 DEF DInv

LEMMA ComposeStep ==
  ASSUME DInv, Compose
  PROVE  DInv'
<1>1. /\ turn.step = "composing" /\ turn \in TurnState /\ Loaded(turn)
      /\ UNCHANGED <<site, page, pool, saved, answers, bounds>>
      /\ turn' = [turn EXCEPT !.step = "clicking", !.composed = TRUE, !.modal = FALSE]
  BY DEF Compose, At, DInv, TypeOK, UploadReady, Proceed, Loaded
<1>2. /\ turn' \in TurnState /\ turn'.step = "clicking" /\ turn'.composed
      /\ Alike(turn', turn) /\ Counts(turn', turn) /\ Reads(turn', turn)
  <2>1. "clicking" \in Phases /\ TRUE \in BOOLEAN /\ FALSE \in BOOLEAN
    BY PhaseNames
  <2>2. LET v == [turn EXCEPT !.step = "clicking", !.composed = TRUE, !.modal = FALSE] IN
        /\ v \in TurnState /\ v.step = "clicking" /\ v.composed = TRUE
        /\ Alike(v, turn) /\ Counts(v, turn) /\ Reads(v, turn)
    BY <1>1, <2>1, EnteringFields, Zenon
  <2> QED
    BY <1>1, <2>2
<1>3. Unsent /\ Unsent' /\ ~At("none") /\ ~Sent
  BY <1>1, <1>2 DEF Unsent, At, Sent
<1>4. /\ TypeOK' /\ Owned' /\ Prompts' /\ Views' /\ Kept' /\ Continued' /\ Counted'
      /\ Positioned' /\ Returned'
  BY <1>1, <1>2, <1>3, SameControl DEF Counting, Beginning, Counts, Alike, Loaded
<1>5. Read'
  BY <1>1, <1>2, <1>3 DEF DInv, Read, Alike, Reads, At, bounds
<1> QED
  BY <1>4, <1>5 DEF DInv

LEMMA RetryClickStep ==
  ASSUME DInv, RetryClick
  PROVE  DInv'
<1>1. /\ turn.step = "click failed" /\ turn \in TurnState
      /\ UNCHANGED <<site, page, pool, saved, answers, bounds>>
      /\ turn' = [turn EXCEPT !.step = "clicking", !.modal = FALSE, !.retried = TRUE]
  BY DEF RetryClick, At, DInv, TypeOK, Proceed
<1>2. /\ turn' \in TurnState /\ turn'.step = "clicking" /\ turn'.composed = turn.composed
      /\ Alike(turn', turn) /\ Counts(turn', turn) /\ Reads(turn', turn)
  BY <1>1, PhaseNames DEF TurnState, Alike, Counts, Reads
<1>3. /\ Unsent' <=> Unsent
      /\ ~At("none")
  BY <1>1, <1>2 DEF Unsent, At
<1>4. View.at # Root \/ ~Sent
  BY <1>1 DEF DInv, Positioned
<1>5. /\ View.at = Bootstrap => turn.gated
      /\ turn.composed => Loaded(turn)
  BY <1>1 DEF DInv, Views, View, Prompts, TypeOK, Owned, At
<1>6. /\ TypeOK' /\ Owned' /\ Prompts' /\ Views' /\ Kept' /\ Continued' /\ Counted'
      /\ Positioned' /\ Returned'
  BY <1>1, <1>2, <1>3, <1>4, <1>5, SameControl DEF Counting, Beginning, Counts, Alike, Loaded
<1>7. Read'
  BY <1>1, <1>2, <1>3 DEF DInv, Read, Alike, Reads, At, bounds
<1> QED
  BY <1>6, <1>7 DEF DInv

LEMMA ModalClickStep ==
  ASSUME DInv, turn.step = "clicking", To("click failed"), turn.composed,
         UNCHANGED <<site, page, pool, saved, answers, bounds>>
  PROVE  DInv'
<1>1. turn \in TurnState /\ turn' = [turn EXCEPT !.step = "click failed"]
  BY DEF DInv, TypeOK, To, Proceed
<1>2. /\ turn' \in TurnState /\ turn'.step = "click failed" /\ turn'.composed = turn.composed
      /\ Alike(turn', turn) /\ Counts(turn', turn) /\ Reads(turn', turn)
  BY <1>1, PhaseNames, StepFields
<1>3. Unsent /\ Unsent' /\ ~At("none") /\ ~Sent /\ Loaded(turn)
  BY <1>1, <1>2 DEF Unsent, At, Sent, DInv, Prompts
<1>4. /\ TypeOK' /\ Owned' /\ Prompts' /\ Views' /\ Kept' /\ Continued' /\ Counted'
      /\ Positioned' /\ Returned'
  BY <1>1, <1>2, <1>3, SameControl DEF Counting, Beginning, Counts, Alike, Loaded
<1>5. Read'
  BY <1>1, <1>2, <1>3 DEF DInv, Read, Alike, Reads, At, bounds
<1> QED
  BY <1>4, <1>5 DEF DInv

(* A turn that observes has delivered its prompt; past its first look its   *)
(* Page is in a chat, and what it reads there is the target.                *)
LEMMA Observing ==
  ASSUME DInv,
         turn.step \in {"observing", "looked", "verifying", "completed beside stop", "reloaded"}
  PROVE  /\ Sent /\ ~At("none") /\ ~turn.composed /\ turn \in TurnState /\ turn.page \in Pages
         /\ View \in PageView /\ Len(View.shown) \in Nat
         /\ View.at \in Chats \cup {Root, Bootstrap}
         /\ View.at \in Chats => Lags(View.shown, web[View.at]) /\ web[View.at] \in Seq(Turns)
         /\ View.at = Root => View.shown = <<>>
         /\ View.at = Bootstrap => turn.gated
         /\ turn.step # "observing" => View.at \in Chats
<1>1. ~At("none") /\ ~turn.composed /\ turn \in TurnState /\ turn.page \in Pages
  BY DEF DInv, Prompts, At, TypeOK, Owned
<1>2. Sent
  BY <1>1 DEF Sent, Unsent
<1>3. View \in PageView
  BY <1>1 DEF DInv, TypeOK, View
<1>4. Len(View.shown) \in Nat
  <2>1. View.shown \in Seq(Turns \cup {Ghost})
    BY <1>3 DEF PageView
  <2> QED
    BY <2>1, LenProperties
<1>5. View.at \in Chats \cup {Root, Bootstrap}
  BY <1>2 DEF DInv, Positioned
<1>6. /\ View.at \in Chats => Lags(View.shown, web[View.at]) /\ web[View.at] \in Seq(Turns)
      /\ View.at = Root => View.shown = <<>>
      /\ View.at = Bootstrap => turn.gated /\ turn.step \in {"clicking", "click failed", "observing"}
  BY <1>1 DEF DInv, Views, View, TypeOK
<1>7. View.at = Root => turn.step = "observing"
  BY <1>2 DEF DInv, Positioned
<1> QED
  BY <1>1, <1>2, <1>3, <1>4, <1>5, <1>6, <1>7

LEMMA TargetIs ==
  ASSUME DInv, Sent, View.at \in Chats, Lags(View.shown, web[View.at]),
         web[View.at] \in Seq(Turns), Len(View.shown) \in Nat, turn.baseline \in Nat,
         turn.baseline < Len(View.shown)
  PROVE  Target \in Turns /\ (~turn.torn => Target = begun)
<1>1. turn.baseline + 1 \in 1..Len(View.shown)
  OBVIOUS
<1>2. PICK j \in 1..Len(web[View.at]) : View.shown[turn.baseline + 1] = web[View.at][j]
  BY <1>1 DEF Lags
<1>3. web[View.at][j] \in Turns
  BY <1>2, ElementOfSeq
<1>4. ASSUME ~turn.torn PROVE Target = begun
  <2>1. View.shown \in {<<>>, web[View.at]} /\ web[View.at][turn.baseline + 1] = begun
    BY <1>4 DEF DInv, Positioned
  <2>2. View.shown # <<>>
    <3>1. Len(<<>>) = 0
      OBVIOUS
    <3> QED
      BY <3>1
  <2> QED
    BY <2>1, <2>2 DEF Target
<1> QED
  BY <1>2, <1>3, <1>4 DEF Target

(* What can be read of the target is text of it, all of it under a marker.  *)
LEMMA ReadIs ==
  ASSUME DInv, At("looked"), Len(View.shown) > turn.baseline, NEW answer \in TextShown
  PROVE  /\ answer \in Text /\ answer # NoText
         /\ ~turn.torn => answer.turn = begun
         /\ turn.marker /\ ~TornAgain => answer \in Whole
<1>1. /\ Sent /\ View.at \in Chats /\ Lags(View.shown, web[View.at]) /\ turn \in TurnState
      /\ web[View.at] \in Seq(Turns) /\ Len(View.shown) \in Nat
  BY Observing DEF At
<1>2. turn.baseline \in Nat /\ turn.baseline < Len(View.shown)
  BY <1>1 DEF TurnState
<1>3. Target \in Turns /\ (~turn.torn => Target = begun)
  BY <1>1, <1>2, TargetIs
<1>4. Turns \subseteq Nat \ {0} /\ text \in [Turns -> 0..MaxText] /\ MaxText \in Nat
  BY DriverAssumption DEF Turns, DInv, TypeOK
<1>5. Written(Target) = text[Target] /\ text[Target] \in 0..MaxText
  BY <1>3, <1>4 DEF Written, Ghost
<1>6. PICK n \in (IF turn.marker /\ Finished(Target) THEN {Written(Target)}
                  ELSE 1..Written(Target)) :
        answer = [turn |-> Target, len |-> n]
  BY DEF TextShown
<1>7. n \in 0..MaxText
  BY <1>4, <1>5, <1>6
<1>8. answer.turn = Target /\ answer.len = n /\ answer \in Text
  BY <1>3, <1>6, <1>7 DEF Text
<1>9. answer # NoText
  <2>1. NoText.turn = -1
    BY DEF NoText
  <2> QED
    BY <1>3, <1>4, <1>8, <2>1
<1>10. ASSUME turn.marker, ~TornAgain PROVE answer \in Whole
  <2>1. Finished(Target)
    BY <1>10 DEF DInv, Read, At, Target
  <2> QED
    BY <1>5, <1>6, <1>8, <1>10, <2>1 DEF Whole
<1> QED
  BY <1>3, <1>8, <1>9, <1>10

LEMMA LookStep ==
  ASSUME DInv, Look
  PROVE  DInv'
<1>1. /\ turn.step = "observing" /\ TargetShown /\ At("observing")
      /\ UNCHANGED <<site, page, pool, saved, answers, bounds>>
  BY DEF Look, At
<1>2. PICK marker \in BOOLEAN :
        /\ marker => Target = Ghost \/ Finished(Target)
        /\ turn' = [turn EXCEPT !.step = "looked", !.marker = marker, !.gated = FALSE]
  BY DEF Look, Proceed
<1>3. /\ Sent /\ ~At("none") /\ ~turn.composed /\ turn \in TurnState
      /\ View.at \in Chats \cup {Root, Bootstrap} /\ Len(View.shown) \in Nat
      /\ View.at \in Chats => Lags(View.shown, web[View.at]) /\ web[View.at] \in Seq(Turns)
      /\ View.at = Root => View.shown = <<>>
      /\ View.at = Bootstrap => turn.gated
  BY <1>1, Observing
<1>4. turn.baseline \in Nat /\ turn.gated \in BOOLEAN
  BY <1>3 DEF TurnState
<1>5. View.at \in Chats /\ turn.baseline < Len(View.shown)
  <2>1. Len(View.shown) > turn.baseline /\ (turn.gated => View.at \in Chats)
    BY <1>1 DEF TargetShown
  <2>2. Len(<<>>) = 0
    OBVIOUS
  <2> QED
    BY <1>3, <1>4, <2>1, <2>2
<1>6. Target \in Turns
  BY <1>3, <1>4, <1>5, TargetIs
<1>7. marker => Finished(Target)
  BY <1>2, <1>6, DriverAssumption DEF Turns, Ghost
<1>8. /\ turn' \in TurnState /\ turn'.step = "looked" /\ turn'.marker = marker
      /\ turn'.gated = FALSE /\ turn'.ready = turn.ready
      /\ turn'.stable = turn.stable /\ turn'.composed = turn.composed /\ Alike(turn', turn)
  BY <1>2, <1>3, PhaseNames DEF TurnState, Alike
<1>9. /\ Unsent' <=> Unsent
      /\ View.at # Root /\ View.at # Bootstrap
  BY <1>1, <1>3, <1>5, <1>8, DriverAssumption DEF Unsent
<1>10. /\ TypeOK' /\ Owned' /\ Prompts' /\ Views' /\ Kept' /\ Continued' /\ Counted'
       /\ Positioned' /\ Returned'
  BY <1>1, <1>3, <1>8, <1>9, SameControl DEF Counting, Beginning
<1>11. View' = View /\ begun' = begun /\ \A t : Finished(t)' <=> Finished(t)
  BY <1>1, <1>3, <1>8, <1>9, TurnFrame DEF Alike
<1>12. Read'
  BY <1>1, <1>3, <1>5, <1>7, <1>8, <1>9, <1>11 DEF DInv, Read, At, Alike, Target
<1> QED
  BY <1>10, <1>12 DEF DInv

(* From one step of the observation to another, with what it has read.      *)
LEMMA ObservedStep ==
  ASSUME DInv, UNCHANGED <<site, page, pool, saved, answers, bounds>>,
         turn.step \in {"looked", "verifying", "completed beside stop", "reloaded"},
         turn' \in TurnState, Alike(turn', turn), turn'.composed = turn.composed,
         turn'.gated = turn.gated,
         turn'.step \in {"observing", "verifying", "completed beside stop"},
         ~turn.torn /\ turn'.stable # NoText => turn'.stable.turn = begun,
         turn'.step = "completed beside stop" =>
           turn'.stable # NoText /\ (~TornAgain => turn'.stable \in Whole)
  PROVE  DInv'
<1>1. /\ Sent /\ ~At("none") /\ ~turn.composed /\ View.at \in Chats
  BY Observing
<1>2. /\ Unsent' <=> Unsent
      /\ View.at # Root /\ View.at # Bootstrap /\ ~Unsent'
  BY <1>1, DriverAssumption DEF Unsent, Sent
<1>3. /\ TypeOK' /\ Owned' /\ Prompts' /\ Views' /\ Kept' /\ Continued' /\ Counted'
      /\ Positioned' /\ Returned'
  BY <1>1, <1>2, SameControl DEF Counting, Beginning
<1>4. /\ begun' = begun /\ Whole' = Whole
      /\ TornAgain' <=> TornAgain
  BY <1>1, <1>2, TurnFrame DEF Alike
<1>5. Read'
  BY <1>2, <1>4 DEF Read, At, Alike
<1> QED
  BY <1>3, <1>5 DEF DInv

LEMMA CompleteBesideStopStep ==
  ASSUME DInv, CompleteBesideStop
  PROVE  DInv'
<1>1. /\ At("looked") /\ turn.marker /\ Len(View.shown) > turn.baseline
      /\ UNCHANGED <<site, page, pool, saved, answers, bounds>>
  BY DEF CompleteBesideStop
<1>2. PICK answer \in TextShown :
        turn' = [turn EXCEPT !.step = "completed beside stop", !.sawStop = TRUE, !.stable = answer]
  BY DEF CompleteBesideStop, Proceed
<1>3. /\ answer \in Text /\ answer # NoText /\ (~turn.torn => answer.turn = begun)
      /\ ~TornAgain => answer \in Whole
  BY <1>1, ReadIs
<1>4. turn \in TurnState /\ turn.step = "looked"
  BY <1>1 DEF DInv, TypeOK, At
<1>5. /\ turn' \in TurnState /\ turn'.step = "completed beside stop" /\ turn'.stable = answer
      /\ turn'.gated = turn.gated /\ turn'.composed = turn.composed /\ Alike(turn', turn)
  BY <1>2, <1>3, <1>4, PhaseNames DEF TurnState, Alike
<1> QED
  BY <1>1, <1>3, <1>4, <1>5, ObservedStep

LEMMA KeepObservingStep ==
  ASSUME DInv, KeepObserving
  PROVE  DInv'
<1>1. /\ At("looked") /\ Len(View.shown) > turn.baseline
      /\ UNCHANGED <<site, page, pool, saved, answers, bounds>>
  BY DEF KeepObserving
<1>2. PICK answer \in TextShown, stop \in StopShown :
        LET seen == [turn EXCEPT !.step = "observing", !.sawStop = @ \/ stop] IN
        \/ turn' = [seen EXCEPT !.stable = answer]
        \/ turn' = [seen EXCEPT !.step = "verifying"]
  BY DEF KeepObserving, Proceed
<1>3. answer \in Text /\ (~turn.torn => answer.turn = begun)
  BY <1>1, ReadIs
<1>4. turn \in TurnState /\ turn.step = "looked"
  BY <1>1 DEF DInv, TypeOK, At
<1> DEFINE b == turn.sawStop \/ stop
           seen == [turn EXCEPT !.step = "observing", !.sawStop = b]
<1>5. b \in BOOLEAN
  BY <1>4 DEF TurnState
<1> HIDE DEF b
<1>6. /\ seen \in TurnState /\ seen.stable = turn.stable /\ seen.step = "observing"
      /\ seen.gated = turn.gated /\ seen.composed = turn.composed /\ Alike(seen, turn)
  BY <1>4, <1>5, PhaseNames DEF TurnState, Alike
<1>7. seen = [turn EXCEPT !.step = "observing", !.sawStop = @ \/ stop]
  BY <1>4 DEF TurnState, b
<1>8. \/ turn' = [seen EXCEPT !.stable = answer]
      \/ turn' = [seen EXCEPT !.step = "verifying"]
  BY <1>2, <1>7
<1> HIDE DEF seen
<1>9. /\ turn' \in TurnState /\ turn'.step \in {"observing", "verifying"}
      /\ turn'.stable \in {answer, turn.stable}
      /\ turn'.gated = turn.gated /\ turn'.composed = turn.composed /\ Alike(turn', turn)
  <2>1. CASE turn' = [seen EXCEPT !.stable = answer]
    BY <1>3, <1>6, <2>1 DEF TurnState, Alike
  <2>2. CASE turn' = [seen EXCEPT !.step = "verifying"]
    BY <1>6, <2>2, PhaseNames DEF TurnState, Alike
  <2> QED
    BY <1>8, <2>1, <2>2
<1>10. ~turn.torn /\ turn'.stable # NoText => turn'.stable.turn = begun
  BY <1>3, <1>4, <1>9 DEF DInv, Read, At
<1> QED
  BY <1>1, <1>4, <1>9, <1>10, ObservedStep

LEMMA VerifyStep ==
  ASSUME DInv, Verify
  PROVE  DInv'
<1>1. /\ turn.step = "verifying" /\ ~At("none") /\ turn \in TurnState
      /\ UNCHANGED <<site, page, pool, saved, answers, bounds>>
      /\ \/ Verified /\ turn' = [turn EXCEPT !.step = "completed beside stop"]
         \/ turn' = [turn EXCEPT !.step = "observing"]
  BY DEF Verify, At, To, Proceed, DInv, TypeOK
<1>2. /\ turn' \in TurnState /\ turn'.stable = turn.stable
      /\ turn'.gated = turn.gated /\ turn'.composed = turn.composed /\ Alike(turn', turn)
      /\ turn'.step \in {"completed beside stop", "observing"}
      /\ turn'.step = "completed beside stop" => Verified
  <2>1. CASE Verified /\ turn' = [turn EXCEPT !.step = "completed beside stop"]
    BY <1>1, <2>1, PhaseNames DEF TurnState, Alike
  <2>2. CASE turn' = [turn EXCEPT !.step = "observing"]
    BY <1>1, <2>2, PhaseNames DEF TurnState, Alike
  <2> QED
    BY <1>1, <2>1, <2>2
<1>3. ~turn.torn /\ turn'.stable # NoText => turn'.stable.turn = begun
  BY <1>1, <1>2 DEF DInv, Read
<1>4. ASSUME Verified PROVE turn.stable # NoText /\ turn.stable \in Whole
  <2> DEFINE t == web[View.at][turn.baseline + 1]
  <2>1. Finished(t) /\ turn.stable = [turn |-> t, len |-> text[t]]
    BY <1>4 DEF Verified
  <2>2. t \in Turns /\ text[t] \in 0..MaxText
    BY <2>1 DEF Finished, DInv, TypeOK
  <2> HIDE DEF t
  <2>3. turn.stable.turn = t /\ turn.stable.len = text[t] /\ turn.stable \in Text
    BY <2>1, <2>2 DEF Text
  <2>4. NoText.turn = -1 /\ t # -1
    BY <2>2, DriverAssumption DEF NoText, Turns
  <2> QED
    BY <2>1, <2>3, <2>4 DEF Whole
<1> QED
  BY <1>1, <1>2, <1>3, <1>4, ObservedStep

LEMMA ResynchronizedStep ==
  ASSUME DInv, At("reloaded"),
         Proceed([turn EXCEPT !.step = "observing", !.stable = NoText]),
         UNCHANGED <<site, page, pool, saved, answers, bounds>>
  PROVE  DInv'
<1>1. /\ turn.step = "reloaded" /\ turn \in TurnState
      /\ turn' = [turn EXCEPT !.step = "observing", !.stable = NoText]
  BY DEF At, Proceed, DInv, TypeOK
<1>2. /\ turn' \in TurnState /\ turn'.step = "observing" /\ turn'.stable = NoText
      /\ turn'.gated = turn.gated /\ turn'.composed = turn.composed /\ Alike(turn', turn)
  BY <1>1, PhaseNames DEF TurnState, Alike
<1> QED
  BY <1>1, <1>2, ObservedStep

(* An abort, and what happens in the composer, are not seen by the rest.    *)
LEMMA AsideStep ==
  ASSUME DInv, Abort \/ ComposerChanges
  PROVE  DInv'
<1>1. /\ ~At("none") /\ turn \in TurnState
      /\ UNCHANGED <<site, page, pool, saved, answers, bounds>>
  BY DEF Abort, ComposerChanges, At, DInv, TypeOK, Prompts
<1>2. \/ turn' = [turn EXCEPT !.aborted = TRUE]
      \/ turn' = [turn EXCEPT !.modal = TRUE]
      \/ \E m, n \in Nat :
           /\ n <= turn.files
           /\ turn' = [turn EXCEPT !.mounted = m, !.ready = n,
                                   !.lapsed = turn.composed /\ n < turn.files]
  <2>1. turn.files \in Nat
    BY <1>1 DEF TurnState
  <2>2. CASE Abort
    BY <2>2 DEF Abort, Proceed
  <2>3. CASE ComposerChanges
    <3>1. ASSUME NEW m \in 0..turn.files, NEW n \in 0..m
          PROVE  m \in Nat /\ n \in Nat /\ n <= turn.files
      BY <2>1
    <3>2. \/ turn' = [turn EXCEPT !.modal = TRUE]
          \/ \E m \in 0..turn.files : \E n \in 0..m :
               turn' = [turn EXCEPT !.mounted = m, !.ready = n,
                                    !.lapsed = turn.composed /\ n < turn.files]
      BY <2>3, Zenon DEF ComposerChanges, Proceed
    <3> QED
      BY <3>1, <3>2
  <2> QED
    BY <2>2, <2>3
<1> DEFINE Same ==
      /\ turn' \in TurnState /\ turn'.step = turn.step /\ turn'.fresh = turn.fresh
      /\ turn'.composed = turn.composed /\ turn'.gated = turn.gated
      /\ Alike(turn', turn) /\ Reads(turn', turn)
      /\ turn.composed => Loaded(turn')
<1>3. turn.composed => turn.step \in {"clicking", "click failed"} /\ Loaded(turn)
  BY DEF DInv, Prompts
<1>4. Same
  <2>1. CASE turn' = [turn EXCEPT !.aborted = TRUE]
    BY <1>1, <1>3, <2>1 DEF TurnState, Alike, Reads, Loaded
  <2>2. CASE turn' = [turn EXCEPT !.modal = TRUE]
    BY <1>1, <1>3, <2>2 DEF TurnState, Alike, Reads, Loaded
  <2>3. ASSUME NEW m \in Nat, NEW n \in Nat, n <= turn.files,
               turn' = [turn EXCEPT !.mounted = m, !.ready = n,
                                    !.lapsed = turn.composed /\ n < turn.files]
        PROVE  Same
    <3> DEFINE lapsed == turn.composed /\ n < turn.files
    <3>1. lapsed \in BOOLEAN
      OBVIOUS
    <3>2. turn' = [turn EXCEPT !.mounted = m, !.ready = n, !.lapsed = lapsed]
      BY <2>3
    <3> HIDE DEF lapsed
    <3>3. /\ turn' \in TurnState /\ turn'.step = turn.step /\ turn'.fresh = turn.fresh
          /\ turn'.composed = turn.composed /\ turn'.gated = turn.gated
          /\ Alike(turn', turn) /\ Reads(turn', turn)
          /\ turn'.ready = n /\ turn'.lapsed = lapsed /\ turn'.files = turn.files
      BY <1>1, <3>1, <3>2 DEF TurnState, Alike, Reads
    <3>4. turn.files \in Nat
      BY <1>1 DEF TurnState
    <3>5. n = turn.files \/ n < turn.files
      BY <2>3, <3>4
    <3>6. turn.composed /\ n < turn.files => turn'.lapsed
      BY <3>3, Zenon DEF lapsed
    <3>7. turn.composed => Loaded(turn')
      BY <3>3, <3>5, <3>6, Zenon DEF Loaded
    <3> QED
      BY <3>3, <3>7
  <2> QED
    BY <1>2, <2>1, <2>2, <2>3
<1>5. /\ Unsent' <=> Unsent
      /\ turn.step # "none"
  BY <1>1, <1>4 DEF Unsent, At
<1>7. /\ Sent /\ View.at = Bootstrap =>
           turn.gated /\ turn.step \in {"clicking", "click failed", "observing"}
      /\ Sent /\ View.at = Root => turn.step = "observing"
  BY <1>1 DEF DInv, Views, View, Positioned, Owned
<1>8. /\ TypeOK' /\ Owned' /\ Prompts' /\ Views' /\ Kept' /\ Continued' /\ Counted'
      /\ Positioned' /\ Returned'
  BY <1>1, <1>3, <1>4, <1>5, <1>7, SameControl DEF Counting, Beginning, Alike
<1>9. /\ View' = View /\ begun' = begun /\ Whole' = Whole /\ \A t : Finished(t)' <=> Finished(t)
      /\ TornAgain' <=> TornAgain
  BY <1>1, <1>4, <1>5, TurnFrame DEF Alike
<1>10. Read'
  BY <1>4, <1>5, <1>9 DEF DInv, Read, At, Alike, Reads
<1> QED
  BY <1>8, <1>10 DEF DInv

-----------------------------------------------------------------------------
LEMMA EmptyLags ==
  ASSUME NEW chat \in Seq(Turns)
  PROVE  Lags(<<>>, chat)
<1>1. Len(chat) \in Nat
  BY LenProperties
<1>2. Len(<<>>) = 0
  OBVIOUS
<1>3. \A i \in 1..Len(<<>>) : FALSE
  BY <1>2
<1> QED
  BY <1>1, <1>2, <1>3 DEF Lags

(* Steps that take the turn's Page somewhere, or load it again.             *)
LEMMA OwnPage ==
  ASSUME DInv, NEW v \in PageView, page' = [page EXCEPT ![turn.page] = v],
         UNCHANGED <<site, pool, saved, answers, begun>>, reloads' \in 0..MaxReloads,
         turn' \in TurnState, ~At("none"), turn'.step # "none", turn'.page = turn.page,
         Unsent' <=> Unsent, turn'.composed = turn.composed, turn'.ready = turn.ready,
         turn'.lapsed = turn.lapsed, turn'.files = turn.files, turn'.torn = turn.torn,
         turn'.composed => turn'.step \in {"clicking", "click failed"},
         v.at # Bootstrap, v.shown = <<>>,
         v.at \in Chats /\ v.past = "opened" => Beginning(turn')
  PROVE  /\ TypeOK' /\ Owned' /\ Prompts' /\ Views' /\ Kept' /\ Returned'
         /\ web' = web /\ saved' = saved /\ begun' = begun
         /\ View' = v /\ Past' = Past /\ Whole' = Whole
         /\ TornAgain' <=> TornAgain
         /\ Sent' <=> Sent
<1>1. /\ web' = web /\ text' = text /\ writing' = writing /\ idle' = idle
      /\ bound' = bound /\ other' = other /\ saved' = saved /\ answers' = answers
      /\ begun' = begun
  BY DEF site, pool
<1>2. turn.page \in Pages /\ page \in [Pages -> PageView] /\ ~At("none")'
  BY DEF DInv, TypeOK, Owned, At
<1>3. /\ page' \in [Pages -> PageView] /\ page'[turn.page] = v
      /\ \A p \in Pages : p # turn.page => page'[p] = page[p]
  BY <1>2
<1>4. Sent' <=> Sent
  BY <1>2 DEF Sent
<1>5. TypeOK'
  BY <1>1, <1>3 DEF DInv, TypeOK
<1>6. Owned'
  BY <1>1, <1>2 DEF DInv, Owned
<1>7. Prompts'
  BY <1>1 DEF DInv, Prompts, Loaded
<1>8. Views'
  <2> SUFFICES ASSUME NEW p \in Pages
               PROVE
    /\ page'[p].at \in Chats => Lags(page'[p].shown, web[page'[p].at])
    /\ page'[p].at \in {Blank, Root, Elsewhere} => page'[p].shown = <<>>
    /\ page'[p].at = Bootstrap =>
         /\ p = turn'.page /\ Sent' /\ turn'.gated
         /\ turn'.step \in {"clicking", "click failed", "observing"}
         /\ page'[p].dest \in Chats /\ web[page'[p].dest] = <<begun>>
    /\ page'[p].at \in Chats /\ page'[p].past = "opened" =>
         \/ page'[p].shown = web[page'[p].at]
         \/ /\ p = turn'.page /\ page'[p].shown = <<>>
            /\ turn'.step = "hydrating" \/ (turn'.step = "opening" /\ turn'.fresh)
    BY <1>1 DEF Views
  <2>1. CASE p = turn.page
    <3>1. v.at \in Chats => Lags(v.shown, web[v.at])
      <4>1. ASSUME v.at \in Chats PROVE web[v.at] \in Seq(Turns)
        BY <4>1 DEF DInv, TypeOK
      <4> QED
        BY <4>1, EmptyLags
    <3> QED
      BY <1>3, <2>1, <3>1 DEF Beginning
  <2>2. CASE p # turn.page
    <3>1. page'[p] = page[p]
      BY <1>3, <2>2
    <3>2. page[p].at # Bootstrap
      BY <2>2 DEF DInv, Views
    <3> QED
      BY <1>1, <1>2, <2>2, <3>1, <3>2 DEF DInv, Views
  <2> QED
    BY <2>1, <2>2
<1>9. Past' = Past /\ Whole' = Whole
  BY <1>1 DEF Past, Whole, NoTorn, Finished
<1>10. TornAgain' <=> TornAgain
  BY <1>1 DEF TornAgain, NoTorn
<1>11. Kept'
  BY <1>1, <1>4, <1>9 DEF DInv, Kept
<1>12. Returned'
  BY <1>1, <1>2, <1>9 DEF DInv, Returned
<1>13. View' = v
  BY <1>3 DEF View
<1> QED
  BY <1>1, <1>4, <1>5, <1>6, <1>7, <1>8, <1>9, <1>10, <1>11, <1>12, <1>13

LEMMA Navigated ==
  ASSUME NEW url \in Chats \cup {Blank, Root, Elsewhere}
  PROVE  /\ Goto(url) \in PageView /\ Goto(url).at = url /\ Goto(url).shown = <<>>
         /\ Goto(url).past = "opened" /\ Goto(url).at # Bootstrap
<1>1. <<>> \in Seq(Turns \cup {Ghost})
  OBVIOUS
<1>2. url # Bootstrap
  BY DriverAssumption DEF Blank, Root, Elsewhere, Bootstrap
<1> QED
  BY <1>1, <1>2 DEF Goto, BlankPage, PageView

(* A step of the opening that navigates.                                    *)
LEMMA OpeningStep ==
  ASSUME DInv, turn.step = "opening", NEW url \in Chats \cup {Root},
         Shows(Goto(url)), UNCHANGED <<site, pool, saved, answers, bounds>>,
         turn' \in TurnState, Alike(turn', turn), Counts(turn', turn), Reads(turn', turn),
         turn'.composed = turn.composed,
         \/ turn'.step = "opened" /\ url = Root
         \/ turn'.step = "opening" /\ turn'.fresh
         \/ turn'.step = "hydrating" /\ url = saved /\ saved # NoChat
  PROVE  DInv'
<1>1. /\ Goto(url) \in PageView /\ Goto(url).at = url /\ Goto(url).shown = <<>>
      /\ Goto(url).past = "opened" /\ Goto(url).at # Bootstrap
  BY Navigated
<1>2. /\ ~At("none") /\ Unsent /\ Unsent' /\ ~turn.composed /\ ~Sent /\ turn'.step # "none"
  BY DEF At, Unsent, Sent, DInv, Prompts
<1>3. reloads' \in 0..MaxReloads /\ begun' = begun
  BY DEF bounds, DInv, TypeOK
<1>4. url \in Chats => Beginning(turn')
  BY DriverAssumption DEF Beginning
<1>5. /\ TypeOK' /\ Owned' /\ Prompts' /\ Views' /\ Kept' /\ Returned'
      /\ saved' = saved /\ begun' = begun /\ View' = Goto(url)
      /\ Sent' <=> Sent
  BY <1>1, <1>2, <1>3, <1>4, OwnPage DEF Shows, Alike, Counts
<1>6. Continued'
  BY <1>1, <1>2, <1>5 DEF Continued
<1>7. Counted' /\ Positioned'
  BY <1>2, <1>5 DEF Counted, Positioned
<1>8. Read'
  BY <1>2, <1>5 DEF Read, Reads, DInv
<1> QED
  BY <1>5, <1>6, <1>7, <1>8 DEF DInv

LEMMA OpenFreshStep ==
  ASSUME DInv, OpenFresh
  PROVE  DInv'
<1>1. /\ turn.step = "opening" /\ turn \in TurnState /\ turn' = [turn EXCEPT !.step = "opened"]
      /\ Shows(Goto(Root)) /\ UNCHANGED <<site, pool, saved, answers, bounds>>
  BY DEF OpenFresh, At, DInv, TypeOK, To, Proceed
<1>2. /\ turn' \in TurnState /\ turn'.step = "opened" /\ turn'.composed = turn.composed
      /\ Alike(turn', turn) /\ Counts(turn', turn) /\ Reads(turn', turn)
  BY <1>1, PhaseNames DEF TurnState, Alike, Counts, Reads
<1> QED
  BY <1>1, <1>2, OpeningStep

LEMMA OpenConversationStep ==
  ASSUME DInv, OpenConversation
  PROVE  DInv'
<1>1. /\ turn.step = "opening" /\ turn \in TurnState /\ ~turn.fresh
      /\ UNCHANGED <<site, pool, saved, answers, bounds>>
      /\ saved # NoChat /\ saved \in Chats
  BY DEF OpenConversation, At, DInv, TypeOK, Continued
<1>2. CASE View.at = saved /\ To("opened") /\ UNCHANGED page
  <2>1. /\ turn' = [turn EXCEPT !.step = "opened"]
        /\ UNCHANGED <<site, page, pool, saved, answers, bounds>>
    BY <1>1, <1>2 DEF To, Proceed
  <2>2. /\ turn' \in TurnState /\ turn'.step = "opened" /\ turn'.composed = turn.composed
        /\ Alike(turn', turn) /\ Counts(turn', turn) /\ Reads(turn', turn)
    BY <1>1, <2>1, PhaseNames DEF TurnState, Alike, Counts, Reads
  <2>3. /\ ~At("none") /\ Unsent /\ Unsent' /\ ~turn.composed /\ ~Sent /\ turn'.step # "none"
        /\ ~Beginning(turn) /\ View.at # Bootstrap
    BY <1>1, <1>2, <2>2, DriverAssumption DEF At, Unsent, Sent, DInv, Prompts, Beginning
  <2>4. TypeOK' /\ Owned' /\ Prompts' /\ Views' /\ Returned'
    BY <2>1, <2>2, <2>3, TurnOnly DEF Alike
  <2>5. saved' = saved /\ View' = View /\ begun' = begun /\ ~Sent' /\ Kept'
    BY <2>1, <2>2, <2>3, TurnFrame DEF Sent, Alike
  <2>6. Continued'
    BY <1>1, <1>2, <2>2, <2>3, <2>5 DEF Continued
  <2>7. Counted' /\ Positioned' /\ Read'
    BY <2>2, <2>3, <2>5 DEF Counted, Positioned, DInv, Read, Reads
  <2> QED
    BY <2>4, <2>5, <2>6, <2>7 DEF DInv
<1>3. CASE View.at # saved /\ To("hydrating") /\ Shows(Goto(saved))
  <2>1. turn' = [turn EXCEPT !.step = "hydrating"]
    BY <1>3 DEF To, Proceed
  <2>2. /\ turn' \in TurnState /\ turn'.step = "hydrating" /\ turn'.composed = turn.composed
        /\ Alike(turn', turn) /\ Counts(turn', turn) /\ Reads(turn', turn)
    BY <1>1, <2>1, PhaseNames DEF TurnState, Alike, Counts, Reads
  <2> QED
    BY <1>1, <1>3, <2>2, OpeningStep
<1>4. CASE View.at # saved /\ Shows(Goto(Root)) /\ Proceed([turn EXCEPT !.fresh = TRUE])
  <2>1. turn' = [turn EXCEPT !.fresh = TRUE]
    BY <1>4 DEF Proceed
  <2>2. /\ turn' \in TurnState /\ turn'.step = "opening" /\ turn'.fresh
        /\ turn'.composed = turn.composed
        /\ Alike(turn', turn) /\ Counts(turn', turn) /\ Reads(turn', turn)
    BY <1>1, <2>1, PhaseNames DEF TurnState, Alike, Counts, Reads
  <2> QED
    BY <1>1, <1>4, <2>2, OpeningStep
<1> QED
  BY <1>2, <1>3, <1>4 DEF OpenConversation

LEMMA ReloadStep ==
  ASSUME DInv, Reload
  PROVE  DInv'
<1>1. /\ turn.step = "completed beside stop" /\ turn \in TurnState
      /\ UNCHANGED <<site, pool, saved, answers, begun>>
      /\ reloads' \in 0..MaxReloads
  <2>1. reloads \in 0..MaxReloads /\ reloads < MaxReloads /\ reloads' = reloads + 1
    BY DEF Reload, DInv, TypeOK
  <2>2. reloads' \in 0..MaxReloads
    BY <2>1, DriverAssumption
  <2> QED
    BY <2>2 DEF Reload, At, DInv, TypeOK
<1>2. /\ Sent /\ ~At("none") /\ ~turn.composed /\ View.at \in Chats /\ View \in PageView
  BY <1>1, Observing
<1> DEFINE v == [View EXCEPT !.shown = <<>>, !.past = "reloaded"]
<1>3. CASE Shows(v) /\ To("reloaded")
  <2>1. v \in PageView /\ v.at = View.at /\ v.shown = <<>> /\ v.past = "reloaded"
    <3> DEFINE w == View
    <3>1. <<>> \in Seq(Turns \cup {Ghost}) /\ w \in PageView
      BY <1>2
    <3> HIDE DEF w
    <3>2. LET x == [w EXCEPT !.shown = <<>>, !.past = "reloaded"] IN
          x \in PageView /\ x.at = w.at /\ x.shown = <<>> /\ x.past = "reloaded"
      BY <3>1 DEF PageView
    <3> QED
      BY <3>2 DEF w
  <2>2. turn' = [turn EXCEPT !.step = "reloaded"]
    BY <1>3 DEF To, Proceed
  <2>3. /\ turn' \in TurnState /\ turn'.step = "reloaded" /\ turn'.composed = turn.composed
        /\ Alike(turn', turn) /\ Counts(turn', turn) /\ Reads(turn', turn)
    BY <1>1, <2>2, PhaseNames DEF TurnState, Alike, Counts, Reads
  <2>4. /\ ~Unsent /\ ~Unsent' /\ View.at # Bootstrap /\ View.at # Root
    BY <1>2, <2>3, DriverAssumption DEF Unsent, Sent
  <2> HIDE DEF v
  <2>5. /\ TypeOK' /\ Owned' /\ Prompts' /\ Views' /\ Kept' /\ Returned'
        /\ web' = web /\ saved' = saved /\ begun' = begun
        /\ View' = v /\ Past' = Past /\ Whole' = Whole
        /\ TornAgain' <=> TornAgain
        /\ Sent' <=> Sent
    BY <1>1, <1>2, <1>3, <2>1, <2>3, <2>4, OwnPage DEF Shows, Alike, Counts
  <2>6. Continued' /\ Counted'
    BY <1>2, <2>3 DEF Continued, Counted
  <2>7. Positioned'
    BY <1>2, <2>1, <2>3, <2>4, <2>5 DEF DInv, Positioned, Alike
  <2>8. Read'
    BY <1>1, <1>2, <2>3, <2>4, <2>5 DEF DInv, Read, Alike, Reads, At
  <2> QED
    BY <2>5, <2>6, <2>7, <2>8 DEF DInv
<1>4. CASE Shows(Goto(Root)) /\ To("observing")
  <2>1. Goto(Root) \in PageView /\ Goto(Root).at = Root /\ Goto(Root).shown = <<>>
    BY Navigated
  <2>2. turn' = [turn EXCEPT !.step = "observing"]
    BY <1>4 DEF To, Proceed
  <2>3. /\ turn' \in TurnState /\ turn'.step = "observing" /\ turn'.composed = turn.composed
        /\ Alike(turn', turn) /\ Counts(turn', turn) /\ Reads(turn', turn)
    BY <1>1, <2>2, PhaseNames DEF TurnState, Alike, Counts, Reads
  <2>4. /\ ~Unsent /\ ~Unsent' /\ Root # Bootstrap /\ Root \notin Chats
    BY <1>2, <2>3, DriverAssumption DEF Unsent, Sent, Root, Bootstrap
  <2>5. /\ TypeOK' /\ Owned' /\ Prompts' /\ Views' /\ Kept' /\ Returned'
        /\ web' = web /\ saved' = saved /\ begun' = begun
        /\ View' = Goto(Root) /\ Past' = Past /\ Whole' = Whole
        /\ TornAgain' <=> TornAgain
        /\ Sent' <=> Sent
    BY <1>1, <1>2, <1>4, <2>1, <2>3, <2>4, OwnPage DEF Shows, Alike, Counts
  <2>6. Continued' /\ Counted'
    BY <1>2, <2>3 DEF Continued, Counted
  <2>7. Positioned'
    BY <2>1, <2>3, <2>4, <2>5 DEF Positioned
  <2>8. Read'
    BY <1>1, <1>2, <2>3, <2>4, <2>5 DEF DInv, Read, Alike, Reads, At
  <2> QED
    BY <2>5, <2>6, <2>7, <2>8 DEF DInv
<1> QED
  BY <1>3, <1>4 DEF Reload

-----------------------------------------------------------------------------
(* The website: what it writes of an answer only makes more of it true.     *)
LEMMA TextGrows ==
  ASSUME DInv, web' = web, page' = page, turn' = turn, answers' = answers, begun' = begun,
         saved' = saved, UNCHANGED <<pool, reloads>>,
         text' \in [Turns -> 0..MaxText], writing' \subseteq writing,
         \A t \in Turns : text[t] > 0 => text'[t] > 0,
         \A t \in Turns : text'[t] > 0 => text[t] > 0 \/ t \in writing,
         \A t \in Turns : t \notin writing => text'[t] = text[t]
  PROVE  DInv'
<1>0. text \in [Turns -> 0..MaxText] /\ writing \subseteq Turns
  BY DEF DInv, TypeOK
<1>1. \A t : Finished(t) => Finished(t)'
  BY <1>0 DEF Finished
<1>2. Past \subseteq Past'
  BY <1>1 DEF Past, NoTorn
<1>3. Whole \subseteq Whole'
  <2> SUFFICES ASSUME NEW a \in Whole PROVE a \in Whole'
    OBVIOUS
  <2>1. a \in Text /\ Finished(a.turn) /\ a.len = text[a.turn]
    BY DEF Whole
  <2>2. text'[a.turn] = text[a.turn]
    BY <2>1 DEF Finished
  <2> QED
    BY <1>1, <2>1, <2>2 DEF Whole
<1>4. /\ View' = View /\ (At("none")' <=> At("none")) /\ (Unsent' <=> Unsent) /\ (Sent' <=> Sent)
      /\ TornAgain' <=> TornAgain
  BY DEF View, At, Unsent, Sent, TornAgain, NoTorn
<1>5. idle' = idle /\ bound' = bound /\ other' = other /\ reloads' = reloads
  BY DEF pool
<1>6. TypeOK'
  BY <1>0, <1>5 DEF DInv, TypeOK
<1>7. Owned'
  BY <1>4, <1>5 DEF DInv, Owned
<1>8. Prompts'
  BY <1>4 DEF DInv, Prompts
<1>9. Views'
  BY <1>4, <1>5 DEF DInv, Views
<1>10. Kept'
  BY <1>2, <1>4 DEF DInv, Kept
<1>11. Continued' /\ Counted'
  BY <1>4 DEF DInv, Continued, Counted
<1>12. Positioned'
  BY <1>2, <1>4 DEF DInv, Positioned
<1>13. Read'
  BY <1>1, <1>3, <1>4 DEF DInv, Read
<1>14. Returned'
  BY <1>3, <1>4 DEF DInv, Returned
<1> QED
  BY <1>6, <1>7, <1>8, <1>9, <1>10, <1>11, <1>12, <1>13, <1>14 DEF DInv

LEMMA WriteAnswerStep ==
  ASSUME DInv, NEW x \in Turns, WriteAnswer(x)
  PROVE  DInv'
<1>1. /\ text \in [Turns -> 0..MaxText] /\ writing \subseteq Turns /\ x \in writing
      /\ web' = web /\ page' = page /\ turn' = turn /\ answers' = answers /\ begun' = begun
      /\ saved' = saved /\ UNCHANGED <<pool, reloads>>
      /\ MaxText \in Nat
  BY DriverAssumption DEF DInv, TypeOK, WriteAnswer, bounds
<1>2. CASE text[x] < MaxText /\ text' = [text EXCEPT ![x] = @ + 1] /\ UNCHANGED writing
  <2>1. text'[x] = text[x] + 1 /\ \A t \in Turns : t # x => text'[t] = text[t]
    BY <1>1, <1>2
  <2>2. text[x] \in 0..MaxText /\ text[x] + 1 \in 0..MaxText
    BY <1>1, <1>2
  <2>3. text' \in [Turns -> 0..MaxText]
    BY <1>1, <1>2, <2>2
  <2> QED
    BY <1>1, <1>2, <2>1, <2>2, <2>3, TextGrows
<1>3. CASE text[x] > 0 /\ writing' = writing \ {x} /\ UNCHANGED text
  BY <1>1, <1>3, TextGrows
<1> QED
  BY <1>2, <1>3 DEF WriteAnswer

(* The turns of a chat are mounted: a Page shows all of it.                 *)
LEMMA FullLags ==
  ASSUME NEW chat \in Seq(Turns)
  PROVE  Lags(chat, chat)
<1>1. Len(chat) \in Nat
  BY LenProperties
<1>2. ASSUME NEW i \in 1..Len(chat) PROVE chat[i] \in Nat
  BY ElementOfSeq, DriverAssumption DEF Turns
<1> QED
  BY <1>1, <1>2 DEF Lags

LEMMA SiteFrame ==
  ASSUME DInv, UNCHANGED <<site, pool, saved, turn, answers, bounds>>
  PROVE  /\ web' = web /\ text' = text /\ writing' = writing /\ idle' = idle
         /\ bound' = bound /\ other' = other /\ saved' = saved /\ turn' = turn
         /\ answers' = answers /\ begun' = begun /\ reloads' = reloads
         /\ Owned' /\ Prompts' /\ Kept' /\ Returned'
         /\ Past' = Past /\ Whole' = Whole /\ NoTorn' = NoTorn
         /\ Sent' = Sent /\ Unsent' = Unsent /\ At("none")' = At("none")
         /\ TornAgain' <=> TornAgain
         /\ \A t : Finished(t)' <=> Finished(t)
<1>1. /\ web' = web /\ text' = text /\ writing' = writing /\ idle' = idle
      /\ bound' = bound /\ other' = other /\ saved' = saved /\ turn' = turn
      /\ answers' = answers /\ begun' = begun /\ reloads' = reloads
  BY DEF site, pool, bounds
<1>2. Past' = Past /\ Whole' = Whole
  BY <1>1 DEF Past, Whole, NoTorn, Finished
<1>3. /\ NoTorn' = NoTorn /\ Sent' = Sent /\ Unsent' = Unsent /\ At("none")' = At("none")
      /\ TornAgain' <=> TornAgain
  BY <1>1 DEF NoTorn, Sent, Unsent, At, TornAgain
<1>4. \A t : Finished(t)' <=> Finished(t)
  BY <1>1 DEF Finished
<1>5. Owned' /\ Prompts'
  BY <1>1, <1>3 DEF DInv, Owned, Prompts
<1>6. Kept' /\ Returned'
  BY <1>1, <1>2, <1>3 DEF DInv, Kept, Returned
<1> QED
  BY <1>1, <1>2, <1>3, <1>4, <1>5, <1>6

LEMMA MountStep ==
  ASSUME DInv, NEW p \in Pages, Mount(p)
  PROVE  DInv'
<1>1. /\ page[p].at \in Chats /\ page \in [Pages -> PageView] /\ web \in [Chats -> Seq(Turns)]
      /\ UNCHANGED <<site, pool, saved, turn, answers, bounds>>
  BY DEF Mount, DInv, TypeOK
<1> DEFINE chat == web[page[p].at]
           v == [page[p] EXCEPT !.shown = chat, !.past = "opened"]
<1>2. page' = [page EXCEPT ![p] = v]
  BY <1>1 DEF Mount
<1>3. chat \in Seq(Turns) /\ chat \in Seq(Turns \cup {Ghost}) /\ Len(chat) \in Nat
  <2>1. chat \in Seq(Turns)
    BY <1>1
  <2> HIDE DEF chat
  <2> QED
    BY <2>1, LenProperties
<1>4. /\ v \in PageView /\ v.at = page[p].at /\ v.dest = page[p].dest /\ v.shown = chat
      /\ v.past = "opened"
  <2> DEFINE w == page[p]
  <2>1. w \in PageView /\ chat \in Seq(Turns \cup {Ghost})
    BY <1>1, <1>3 DEF PageView
  <2> HIDE DEF chat, w
  <2>2. LET x == [w EXCEPT !.shown = chat, !.past = "opened"] IN
        x \in PageView /\ x.at = w.at /\ x.dest = w.dest /\ x.shown = chat /\ x.past = "opened"
    BY <2>1 DEF PageView
  <2> QED
    BY <2>2 DEF w
<1> HIDE DEF v
<1>5. /\ page' \in [Pages -> PageView] /\ page'[p] = v
      /\ \A q \in Pages : q # p => page'[q] = page[q]
  BY <1>1, <1>2, <1>4
<1>6. /\ web' = web /\ text' = text /\ writing' = writing /\ idle' = idle
      /\ bound' = bound /\ other' = other /\ saved' = saved /\ turn' = turn
      /\ answers' = answers /\ begun' = begun /\ reloads' = reloads
      /\ Owned' /\ Prompts' /\ Kept' /\ Returned'
      /\ Past' = Past /\ Sent' = Sent /\ Unsent' = Unsent /\ At("none")' = At("none")
  BY <1>1, SiteFrame
<1>7. /\ Whole' = Whole
      /\ TornAgain' <=> TornAgain
      /\ \A t : Finished(t)' <=> Finished(t)
  BY <1>1, SiteFrame
<1>8. TypeOK'
  BY <1>5, <1>6 DEF DInv, TypeOK
<1>9. Lags(chat, chat) /\ Bootstrap \notin Chats /\ Chats \cap {Blank, Root, Elsewhere} = {}
  BY <1>3, FullLags, DriverAssumption
<1>10. Views'
  <2> SUFFICES ASSUME NEW q \in Pages
               PROVE
    /\ page'[q].at \in Chats => Lags(page'[q].shown, web[page'[q].at])
    /\ page'[q].at \in {Blank, Root, Elsewhere} => page'[q].shown = <<>>
    /\ page'[q].at = Bootstrap =>
         /\ q = turn.page /\ Sent /\ turn.gated
         /\ turn.step \in {"clicking", "click failed", "observing"}
         /\ page'[q].dest \in Chats /\ web[page'[q].dest] = <<begun>>
    /\ page'[q].at \in Chats /\ page'[q].past = "opened" =>
         \/ page'[q].shown = web[page'[q].at]
         \/ /\ q = turn.page /\ page'[q].shown = <<>>
            /\ turn.step = "hydrating" \/ (turn.step = "opening" /\ turn.fresh)
    BY <1>6 DEF Views
  <2>1. CASE q = p
    <3>1. page'[p].at = page[p].at /\ page'[p].shown = web[page[p].at]
      BY <1>4, <1>5
    <3> QED
      BY <1>1, <1>9, <2>1, <3>1 DEF DInv, Views
  <2>2. CASE q # p
    <3>1. page'[q] = page[q]
      BY <1>5, <2>2
    <3> QED
      BY <3>1 DEF DInv, Views
  <2> QED
    BY <2>1, <2>2
<1>11. CASE p # turn.page
  <2>1. turn.page \in Pages => View' = View
    BY <1>5, <1>6, <1>11 DEF View
  <2>2. ~At("none") => turn.page \in Pages
    BY DEF DInv, Owned
  <2>3. CASE At("none")
    <3>1. turn = NoTurn /\ ~Sent
      BY <2>3 DEF DInv, Owned, Sent
    <3> QED
      BY <1>6, <1>8, <1>10, <3>1 DEF DInv, Continued, Counted, Positioned, Read, NoTurn, At
  <2>4. CASE ~At("none")
    <3>1. View' = View
      BY <2>1, <2>2, <2>4
    <3>2. Continued' /\ Counted'
      BY <1>6, <3>1 DEF DInv, Continued, Counted
    <3>3. Positioned'
      BY <1>6, <3>1 DEF DInv, Positioned
    <3>4. Read'
      BY <1>6, <1>7, <3>1 DEF DInv, Read
    <3> QED
      BY <1>6, <1>8, <1>10, <3>2, <3>3, <3>4 DEF DInv
  <2> QED
    BY <2>3, <2>4
<1>12. CASE p = turn.page
  <2>1. /\ View'.at = View.at /\ View'.shown = web[View.at] /\ View.at \in Chats
        /\ View.past = "opened" => View'.past = "opened"
    BY <1>1, <1>4, <1>5, <1>6, <1>12 DEF View
  <2>2. Continued' /\ Counted'
    BY <1>6, <2>1 DEF DInv, Continued, Counted
  <2>3. Positioned'
    BY <1>6, <2>1 DEF DInv, Positioned
  <2>4. Read'
    <3>1. ASSUME turn.step = "looked"
          PROVE  /\ turn.baseline < Len(web[View.at])
                 /\ turn.marker /\ ~TornAgain => Finished(web[View.at][turn.baseline + 1])
      <4>1. /\ Sent /\ turn \in TurnState /\ Lags(View.shown, web[View.at])
            /\ web[View.at] \in Seq(Turns) /\ Len(View.shown) \in Nat
        BY <2>1, <3>1, Observing
      <4> DEFINE i == turn.baseline + 1
                 x == View.shown[i]
                 y == web[View.at][i]
      <4>2. turn.baseline \in Nat /\ turn.baseline < Len(View.shown)
        BY <3>1, <4>1 DEF TurnState, DInv, Read
      <4>3. Len(web[View.at]) \in Nat
        BY <4>1, LenProperties
      <4>4. turn.baseline < Len(web[View.at])
        BY <4>1, <4>2, <4>3 DEF Lags
      <4>5. i \in 1..Len(View.shown) /\ i \in 1..Len(web[View.at])
        BY <4>1, <4>2, <4>3, <4>4
      <4>6. x >= y /\ \E j \in 1..Len(web[View.at]) : x = web[View.at][j]
        BY <4>1, <4>5 DEF Lags
      <4>7. x \in Turns /\ y \in Turns /\ x <= begun
        BY <2>1, <4>1, <4>5, <4>6, ElementOfSeq DEF DInv, Prompts, UpTo
      <4>8. y \in Past \cup {begun} /\ (~turn.torn => y = begun)
        BY <2>1, <4>1, <4>5 DEF DInv, Positioned
      <4>9. ASSUME turn.marker, ~TornAgain PROVE Finished(y)
        <5>1. Finished(x)
          BY <3>1, <4>9 DEF DInv, Read
        <5>2. CASE y = begun
          <6>1. x = y
            BY <4>6, <4>7, <5>2, DriverAssumption, SMTT(30) DEF Turns, DInv, TypeOK
          <6> QED
            BY <5>1, <6>1
        <5>3. CASE y # begun
          <6>1. NoTorn /\ y \in Past
            BY <4>8, <4>9, <5>3 DEF TornAgain
          <6> QED
            BY <6>1 DEF Past
        <5> QED
          BY <5>2, <5>3
      <4> QED
        BY <4>4, <4>9
    <3> QED
      BY <1>6, <1>7, <2>1, <3>1 DEF DInv, Read
  <2> QED
    BY <1>6, <1>8, <1>10, <2>2, <2>3, <2>4 DEF DInv
<1> QED
  BY <1>11, <1>12

(* A chat that begins gets its URL, and its only turn is the one in         *)
(* progress.                                                                *)
LEMMA SettleStep ==
  ASSUME DInv, NEW p \in Pages, Settle(p)
  PROVE  DInv'
<1> DEFINE c == page[p].dest
           v == [Goto(c) EXCEPT !.shown = web[c]]
<1>1. /\ page[p].at = Bootstrap /\ page \in [Pages -> PageView] /\ web \in [Chats -> Seq(Turns)]
      /\ UNCHANGED <<site, pool, saved, turn, answers, bounds>>
      /\ page' = [page EXCEPT ![p] = v]
  BY DEF Settle, DInv, TypeOK
<1>2. /\ p = turn.page /\ Sent /\ turn.step \in {"clicking", "click failed", "observing"}
      /\ c \in Chats /\ web[c] = <<begun>>
  BY <1>1 DEF DInv, Views
<1>3. /\ web[c] \in Seq(Turns) /\ web[c] \in Seq(Turns \cup {Ghost})
      /\ Len(web[c]) = 1 /\ web[c][1] = begun /\ web[c] # <<>>
  <2>1. Len(<<begun>>) = 1 /\ <<begun>>[1] = begun /\ <<begun>> # <<>>
    OBVIOUS
  <2>2. web[c] \in Seq(Turns)
    BY <1>1, <1>2
  <2>3. web[c] \in Seq(Turns \cup {Ghost})
    <3> DEFINE s == web[c]
    <3>1. s \in Seq(Turns)
      BY <2>2
    <3> HIDE DEF s
    <3>2. s \in Seq(Turns \cup {Ghost})
      BY <3>1
    <3> QED
      BY <3>2 DEF s
  <2> QED
    BY <1>2, <2>1, <2>2, <2>3
<1>4. v \in PageView /\ v.at = c /\ v.shown = web[c] /\ v.past = "opened"
  <2> DEFINE s == web[c]
             w == Goto(c)
  <2>1. w \in PageView /\ w.at = c /\ w.past = "opened" /\ s \in Seq(Turns \cup {Ghost})
    BY <1>2, <1>3, Navigated
  <2> HIDE DEF s, w
  <2>2. LET x == [w EXCEPT !.shown = s] IN
        x \in PageView /\ x.at = w.at /\ x.shown = s /\ x.past = w.past
    BY <2>1 DEF PageView
  <2> QED
    BY <2>1, <2>2 DEF s, w
<1> HIDE DEF v, c
<1>5. /\ page' \in [Pages -> PageView] /\ page'[p] = v
      /\ \A q \in Pages : q # p => page'[q] = page[q]
  BY <1>1, <1>4
<1>6. /\ web' = web /\ text' = text /\ writing' = writing /\ idle' = idle
      /\ bound' = bound /\ other' = other /\ saved' = saved /\ turn' = turn
      /\ answers' = answers /\ begun' = begun /\ reloads' = reloads
      /\ Owned' /\ Prompts' /\ Kept' /\ Returned'
      /\ Past' = Past /\ Sent' = Sent /\ Unsent' = Unsent /\ At("none")' = At("none")
  BY <1>1, SiteFrame
<1>7. Whole' = Whole
  BY <1>1, SiteFrame
<1>8. TypeOK'
  BY <1>5, <1>6 DEF DInv, TypeOK
<1>9. Lags(web[c], web[c]) /\ c # Bootstrap /\ c \notin {Blank, Root, Elsewhere}
  BY <1>2, <1>3, FullLags, DriverAssumption
<1>10. Views'
  <2> SUFFICES ASSUME NEW q \in Pages
               PROVE
    /\ page'[q].at \in Chats => Lags(page'[q].shown, web[page'[q].at])
    /\ page'[q].at \in {Blank, Root, Elsewhere} => page'[q].shown = <<>>
    /\ page'[q].at = Bootstrap =>
         /\ q = turn.page /\ Sent /\ turn.gated
         /\ turn.step \in {"clicking", "click failed", "observing"}
         /\ page'[q].dest \in Chats /\ web[page'[q].dest] = <<begun>>
    /\ page'[q].at \in Chats /\ page'[q].past = "opened" =>
         \/ page'[q].shown = web[page'[q].at]
         \/ /\ q = turn.page /\ page'[q].shown = <<>>
            /\ turn.step = "hydrating" \/ (turn.step = "opening" /\ turn.fresh)
    BY <1>6 DEF Views
  <2>1. CASE q = p
    BY <1>2, <1>4, <1>5, <1>9, <2>1
  <2>2. CASE q # p
    <3>1. page'[q] = page[q]
      BY <1>5, <2>2
    <3> QED
      BY <3>1 DEF DInv, Views
  <2> QED
    BY <2>1, <2>2
<1>11. View' = v /\ View.at = Bootstrap
  BY <1>1, <1>2, <1>5, <1>6 DEF View
<1>12. ~Unsent /\ ~At("none")
  BY <1>2 DEF Sent
<1>13. Continued' /\ Counted'
  BY <1>2, <1>6, <1>12 DEF Continued, Counted, Unsent
<1>14. Positioned'
  <2>1. ~turn.torn => turn.baseline = 0
    BY <1>2, <1>11 DEF DInv, Positioned
  <2>2. /\ View'.at = c /\ View'.shown = web'[View'.at] /\ web'[View'.at] = web[c]
        /\ View'.at \in Chats /\ View'.at # Root /\ View'.at # Bootstrap
    BY <1>2, <1>4, <1>6, <1>9, <1>11
  <2>3. web[c] # <<>> /\ \A i \in 1..Len(web[c]) : web[c][i] = begun
    BY <1>3
  <2>4. ~turn.torn => Len(web[c]) = turn.baseline + 1 /\ web[c][turn.baseline + 1] = begun
    BY <1>3, <2>1
  <2> QED
    BY <1>6, <2>2, <2>3, <2>4 DEF Positioned
<1>15. Read'
  BY <1>2, <1>6, <1>7, <1>12 DEF DInv, Read
<1> QED
  BY <1>6, <1>8, <1>10, <1>13, <1>14, <1>15 DEF DInv

-----------------------------------------------------------------------------
(* A turn ends, and the Pages change hands.                                 *)
LEMMA NoTurnFrame ==
  ASSUME turn' = NoTurn
  PROVE  /\ Continued' /\ Counted' /\ Positioned' /\ Read' /\ ~Sent' /\ ~Unsent'
         /\ At("none")' /\ turn'.page = NoPage /\ turn' \in TurnState
<1>1. turn' \in TurnState /\ turn'.stable = NoText
  BY DEF NoTurn, TurnState, Phases
<1>2. turn'.step = "none" /\ ~turn'.composed /\ turn'.page = NoPage
  BY DEF NoTurn
<1>3. ~Unsent' /\ ~Sent' /\ At("none")'
  BY <1>2 DEF Unsent, Sent, At
<1> QED
  BY <1>1, <1>2, <1>3 DEF Continued, Counted, Positioned, Read

LEMMA AppendIdle ==
  ASSUME NEW q \in Seq(Pages), NEW p \in Pages
  PROVE  /\ Append(q, p) \in Seq(Pages) /\ Len(q) \in Nat /\ Len(Append(q, p)) = Len(q) + 1
         /\ \A i \in 1..Len(q) : Append(q, p)[i] = q[i]
         /\ Append(q, p)[Len(q) + 1] = p
BY AppendProperties, LenProperties

LEMMA FailStep ==
  ASSUME DInv, Fail, web' = web, text' = text, writing' \subseteq writing
  PROVE  DInv'
<1>1. /\ ~At("none") /\ turn' = NoTurn /\ idle' = Append(idle, turn.page)
      /\ page' = [page EXCEPT ![turn.page] = BlankPage]
      /\ saved' = IF turn.step \in {"opening", "hydrating"} THEN saved ELSE NoChat
      /\ bound' = bound /\ other' = other /\ answers' = answers
      /\ begun' = begun /\ reloads' = reloads
  BY DEF Fail, Shows, bounds
<1>2. /\ turn.page \in Pages /\ bound = NoPage /\ other # turn.page /\ idle \in Seq(Pages)
      /\ page \in [Pages -> PageView] /\ writing \subseteq Turns
      /\ \A i \in 1..Len(idle) : idle[i] # turn.page
  BY <1>1 DEF DInv, Owned, TypeOK
<1>3. BlankPage \in PageView /\ BlankPage.at = Blank /\ BlankPage.shown = <<>>
  <2>1. <<>> \in Seq(Turns \cup {Ghost})
    OBVIOUS
  <2> QED
    BY <2>1 DEF BlankPage, PageView
<1>4. /\ page' \in [Pages -> PageView] /\ page'[turn.page] = BlankPage
      /\ \A q \in Pages : q # turn.page => page'[q] = page[q]
  BY <1>1, <1>2, <1>3
<1>5. /\ idle' \in Seq(Pages) /\ Len(idle) \in Nat /\ Len(idle') = Len(idle) + 1
      /\ \A i \in 1..Len(idle) : idle'[i] = idle[i]
      /\ idle'[Len(idle) + 1] = turn.page
  BY <1>1, <1>2, AppendIdle
<1>6. /\ Continued' /\ Counted' /\ Positioned' /\ Read' /\ ~Sent' /\ ~Unsent'
      /\ At("none")' /\ turn'.page = NoPage /\ turn' \in TurnState
  BY <1>1, NoTurnFrame
<1>7. TypeOK'
  <2>1. saved' \in Chats \cup {NoChat} /\ writing' \subseteq Turns
    BY <1>1, <1>2 DEF DInv, TypeOK
  <2> QED
    BY <1>1, <1>4, <1>5, <1>6, <2>1 DEF DInv, TypeOK
<1>8. Owned'
  <2>1. \A i \in 1..Len(idle') : i \in 1..Len(idle) \/ i = Len(idle) + 1
    BY <1>5
  <2>2. \A i, j \in 1..Len(idle') : idle'[i] = idle'[j] => i = j
    BY <1>2, <1>5, <2>1 DEF DInv, Owned
  <2>3. other' # NoPage => \A i \in 1..Len(idle') : idle'[i] # other'
    BY <1>1, <1>2, <1>5, <2>1 DEF DInv, Owned
  <2> QED
    BY <1>1, <1>2, <1>6, <2>2, <2>3 DEF Owned
<1>9. Prompts'
  <2>1. ~turn'.composed
    BY <1>1 DEF NoTurn
  <2> QED
    BY <1>1, <1>6, <2>1 DEF DInv, Prompts
<1>10. Views'
  <2> SUFFICES ASSUME NEW q \in Pages
               PROVE
    /\ page'[q].at \in Chats => Lags(page'[q].shown, web[page'[q].at])
    /\ page'[q].at \in {Blank, Root, Elsewhere} => page'[q].shown = <<>>
    /\ page'[q].at # Bootstrap
    /\ page'[q].at \in Chats /\ page'[q].past = "opened" =>
         page'[q].shown = web[page'[q].at]
    BY <1>1 DEF Views
  <2>1. CASE q = turn.page
    <3>1. Blank \notin Chats \cup {Bootstrap}
      BY DriverAssumption DEF Blank, Bootstrap
    <3> QED
      BY <1>3, <1>4, <2>1, <3>1
  <2>2. CASE q # turn.page
    <3>1. page'[q] = page[q]
      BY <1>4, <2>2
    <3>2. q # NoPage
      BY DriverAssumption
    <3> QED
      BY <1>1, <1>2, <2>2, <3>1, <3>2 DEF DInv, Views
  <2> QED
    BY <2>1, <2>2
<1>11. Past \subseteq Past' /\ Whole \subseteq Whole'
  BY <1>1, <1>2 DEF Past, Whole, Finished, NoTorn
<1>12. Kept'
  <2> SUFFICES ASSUME saved' # NoChat
               PROVE  /\ web[saved] # <<>> /\ saved' = saved
                      /\ \A i \in 1..Len(web[saved]) : web[saved][i] \in Past'
    BY DEF Kept
  <2>1. saved' = saved /\ ~Sent
    BY <1>1 DEF Sent, Unsent
  <2> QED
    BY <1>11, <2>1 DEF DInv, Kept
<1>13. Returned'
  BY <1>1, <1>6, <1>11 DEF DInv, Returned
<1> QED
  BY <1>6, <1>7, <1>8, <1>9, <1>10, <1>12, <1>13 DEF DInv

(* What a turn returns is its own answer, all of it, or the turn is torn.   *)
LEMMA ReturnStep ==
  ASSUME DInv, turn.step \in {"looked", "reloaded"}, NEW answer \in Text, Return(answer),
         UNCHANGED <<page, reloads>>, answer # NoText, ~turn.torn => answer.turn = begun,
         ~TornAgain => answer \in Whole
  PROVE  DInv'
<1> DEFINE new == [text |-> answer, torn |-> turn.torn]
<1>1. /\ View.at \in Chats /\ answers' = [answers EXCEPT ![begun] = new]
      /\ saved' = View.at /\ bound' = turn.page /\ turn' = NoTurn /\ page' = page
      /\ web' = web /\ text' = text /\ writing' = writing /\ idle' = idle
      /\ other' = other /\ begun' = begun /\ reloads' = reloads
  BY DEF Return, site
<1>2. /\ Sent /\ ~At("none") /\ turn \in TurnState /\ turn.page \in Pages
      /\ bound = NoPage /\ other # turn.page
      /\ begun \in Turns /\ answers \in [Turns -> Answer \cup {NoAnswer}]
      /\ turn.torn \in BOOLEAN
  <2>1. Sent /\ ~At("none") /\ turn \in TurnState
    BY Observing
  <2> QED
    BY <2>1 DEF DInv, Prompts, Owned, TypeOK, TurnState
<1>3. /\ new \in Answer /\ new.text = answer /\ new.torn = turn.torn /\ new # NoAnswer
  <2>1. NoAnswer.text = NoText
    BY DEF NoAnswer
  <2> QED
    BY <1>2, <2>1 DEF Answer
<1> HIDE DEF new
<1>4. /\ answers' \in [Turns -> Answer \cup {NoAnswer}] /\ answers'[begun] = new
      /\ \A t \in Turns : t # begun => answers'[t] = answers[t]
  BY <1>1, <1>2, <1>3
<1>5. answers[begun] = NoAnswer /\ NoAnswer.torn = FALSE
  BY <1>2, DriverAssumption DEF DInv, Returned, NoAnswer, Turns
<1>6. NoTorn' => NoTorn /\ ~turn.torn
  BY <1>2, <1>3, <1>4, <1>5 DEF NoTorn
<1>7. Whole' = Whole /\ \A t : Finished(t)' <=> Finished(t)
  BY <1>1 DEF Whole, Finished
<1>8. Past \subseteq Past' /\ begun \in Past'
  <2>1. Past \subseteq Past'
    BY <1>4, <1>5, <1>6, <1>7 DEF Past
  <2>2. ASSUME NoTorn' PROVE Finished(begun)
    <3>1. answer \in Whole /\ answer.turn = begun
      BY <1>6, <2>2 DEF TornAgain
    <3> QED
      BY <3>1 DEF Whole
  <2> QED
    BY <1>2, <1>3, <1>4, <1>7, <2>1, <2>2 DEF Past
<1>9. /\ Continued' /\ Counted' /\ Positioned' /\ Read' /\ ~Sent' /\ ~Unsent'
      /\ At("none")' /\ turn'.page = NoPage /\ turn' \in TurnState
  BY <1>1, NoTurnFrame
<1>10. TypeOK'
  BY <1>1, <1>2, <1>4, <1>9 DEF DInv, TypeOK
<1>11. Owned'
  BY <1>1, <1>2, <1>9 DEF DInv, Owned
<1>12. Prompts'
  <2>1. ~turn'.composed
    BY <1>1 DEF NoTurn
  <2> QED
    BY <1>1, <1>9, <2>1 DEF DInv, Prompts
<1>13. Views'
  <2>1. ASSUME NEW q \in Pages PROVE page[q].at # Bootstrap
    BY <1>1, DriverAssumption DEF DInv, Views, View
  <2>2. turn.page # NoPage /\ bound' = turn.page
    BY <1>1, <1>2, DriverAssumption
  <2> SUFFICES ASSUME NEW q \in Pages
               PROVE
    /\ page[q].at \in Chats => Lags(page[q].shown, web[page[q].at])
    /\ page[q].at \in {Blank, Root, Elsewhere} => page[q].shown = <<>>
    /\ page[q].at # Bootstrap
    /\ page[q].at \in Chats /\ page[q].past = "opened" =>
         page[q].shown = web[page[q].at]
    BY <1>1, <2>1, <2>2 DEF Views
  <2>3. turn.step \notin {"opening", "hydrating"} /\ q # NoPage
    BY DriverAssumption
  <2> QED
    BY <1>2, <2>1, <2>3 DEF DInv, Views
<1>14. Kept'
  <2>1. /\ web[View.at] # <<>>
        /\ \A i \in 1..Len(web[View.at]) : web[View.at][i] \in Past \cup {begun}
    BY <1>1, <1>2 DEF DInv, Positioned
  <2> QED
    BY <1>1, <1>8, <2>1 DEF Kept
<1>15. Returned'
  <2> SUFFICES ASSUME NEW t \in Turns, answers'[t] # NoAnswer
               PROVE  /\ t < begun \/ t = begun
                      /\ answers'[t].text # NoText
                      /\ ~answers'[t].torn => answers'[t].text.turn = t
                      /\ ~(answers'[t].torn /\ \E s \in 1..(t - 1) : answers'[s].torn) =>
                           answers'[t].text \in Whole
    BY <1>1, <1>7, <1>9 DEF Returned
  <2>1. \A s \in Turns : answers[s] # NoAnswer => s < begun
    BY <1>2 DEF DInv, Returned
  <2>2. CASE t = begun
    <3>1. ASSUME TornAgain PROVE \E s \in 1..(t - 1) : answers'[s].torn
      <4>1. PICK s \in Turns : answers[s].torn
        BY <3>1 DEF TornAgain, NoTorn
      <4>2. s < begun
        BY <1>5, <2>1, <4>1
      <4>3. s \in 1..(t - 1) /\ answers'[s] = answers[s]
        BY <1>2, <1>4, <2>2, <4>2, DriverAssumption DEF Turns
      <4> QED
        BY <4>1, <4>3
    <3>2. TornAgain => turn.torn
      BY DEF TornAgain
    <3> QED
      BY <1>3, <1>4, <2>2, <3>1, <3>2
  <2>3. CASE t # begun
    <3>1. answers'[t] = answers[t] /\ t < begun
      BY <1>4, <2>1, <2>3
    <3>2. \A s \in 1..(t - 1) : answers'[s] = answers[s]
      BY <1>2, <1>4, <3>1, DriverAssumption DEF Turns
    <3> QED
      BY <3>1, <3>2 DEF DInv, Returned
  <2> QED
    BY <2>2, <2>3
<1> QED
  BY <1>9, <1>10, <1>11, <1>12, <1>13, <1>14, <1>15 DEF DInv

LEMMA CompleteStep ==
  ASSUME DInv, Complete
  PROVE  DInv'
<1>1. /\ At("looked") /\ turn.marker /\ Len(View.shown) > turn.baseline
      /\ UNCHANGED <<page, reloads>>
  BY DEF Complete
<1>2. PICK answer \in TextShown : Return(answer)
  BY DEF Complete
<1>3. /\ answer \in Text /\ answer # NoText /\ (~turn.torn => answer.turn = begun)
      /\ ~TornAgain => answer \in Whole
  BY <1>1, ReadIs
<1> QED
  BY <1>1, <1>2, <1>3, ReturnStep DEF At

LEMMA ResynchronizedAnyStep ==
  ASSUME DInv, Resynchronized
  PROVE  DInv'
<1>1. At("reloaded") /\ UNCHANGED <<page, reloads>>
  BY DEF Resynchronized
<1>2. CASE Return(turn.stable)
  <2>1. turn.stable # NoText /\ (~TornAgain => turn.stable \in Whole)
    BY <1>1 DEF At, DInv, Read
  <2>2. turn.stable \in Text
    BY <2>1 DEF DInv, TypeOK, TurnState
  <2>3. ~turn.torn => turn.stable.turn = begun
    BY <1>1, <2>1 DEF At, DInv, Read
  <2> QED
    BY <1>1, <1>2, <2>1, <2>2, <2>3, ReturnStep DEF At
<1>3. CASE /\ Proceed([turn EXCEPT !.step = "observing", !.stable = NoText])
           /\ UNCHANGED <<site, pool, saved, answers, begun>>
  BY <1>1, <1>3, ResynchronizedStep DEF bounds
<1> QED
  BY <1>2, <1>3 DEF Resynchronized

(* No Page is on the provisional route of a chat between two turns.         *)
LEMMA Idling ==
  ASSUME DInv, At("none")
  PROVE  /\ turn = NoTurn /\ turn.page = NoPage /\ ~Sent /\ ~Unsent
         /\ \A p \in Pages :
              /\ page[p].at # Bootstrap /\ p # turn.page
              /\ page[p].at \in Chats /\ page[p].past = "opened" =>
                   page[p].shown = web[page[p].at]
<1>1. turn = NoTurn /\ turn.page = NoPage /\ ~turn.composed /\ turn.step = "none"
  BY DEF DInv, Owned, NoTurn
<1>2. ~Sent /\ ~Unsent
  BY <1>1 DEF Sent, Unsent, At
<1>3. NoPage \notin Pages
  BY DriverAssumption
<1> QED
  BY <1>1, <1>2, <1>3 DEF DInv, Views

LEMMA EvictStep ==
  ASSUME DInv, Evict
  PROVE  DInv'
<1>1. /\ bound \in Pages /\ bound # NoPage /\ idle' = Append(idle, bound) /\ bound' = NoPage
      /\ web' = web /\ text' = text /\ writing' = writing /\ other' = other /\ saved' = saved
      /\ turn' = turn /\ answers' = answers /\ begun' = begun /\ reloads' = reloads
      /\ idle \in Seq(Pages) /\ page \in [Pages -> PageView]
  BY DEF Evict, site, bounds, DInv, TypeOK
<1>2. At("none")
  BY <1>1 DEF DInv, Owned
<1>3. /\ turn = NoTurn /\ turn.page = NoPage /\ ~Sent /\ ~Unsent
      /\ \A p \in Pages :
           /\ page[p].at # Bootstrap /\ p # turn.page
           /\ page[p].at \in Chats /\ page[p].past = "opened" =>
                page[p].shown = web[page[p].at]
  BY <1>2, Idling
<1>4. /\ Continued' /\ Counted' /\ Positioned' /\ Read' /\ ~Sent' /\ ~Unsent'
      /\ At("none")' /\ turn'.page = NoPage /\ turn' \in TurnState
  BY <1>1, <1>3, NoTurnFrame
<1>5. /\ idle' \in Seq(Pages) /\ Len(idle) \in Nat /\ Len(idle') = Len(idle) + 1
      /\ \A i \in 1..Len(idle) : idle'[i] = idle[i]
      /\ idle'[Len(idle) + 1] = bound
  BY <1>1, AppendIdle
<1>6. BlankPage \in PageView /\ BlankPage.at = Blank /\ BlankPage.shown = <<>>
  <2>1. <<>> \in Seq(Turns \cup {Ghost})
    OBVIOUS
  <2> QED
    BY <2>1 DEF BlankPage, PageView
<1>7. /\ page' \in [Pages -> PageView]
      /\ \A q \in Pages : page'[q] = page[q] \/ (q = bound /\ page'[q] = BlankPage)
      /\ page'[bound] = BlankPage \/ (Len(idle) = 0 /\ page' = page)
  <2>1. CASE idle = <<>> /\ UNCHANGED page
    <3>1. Len(<<>>) = 0
      OBVIOUS
    <3> QED
      BY <1>1, <2>1, <3>1
  <2>2. CASE page' = [page EXCEPT ![bound] = BlankPage]
    BY <1>1, <1>6, <2>2
  <2> QED
    BY <2>1, <2>2 DEF Evict
<1>8. TypeOK'
  BY <1>1, <1>4, <1>5, <1>7 DEF DInv, TypeOK
<1>9. Owned'
  <2>1. \A i \in 1..Len(idle') : i \in 1..Len(idle) \/ i = Len(idle) + 1
    BY <1>5
  <2>2. \A i \in 1..Len(idle) : idle[i] # bound
    BY <1>1 DEF DInv, Owned
  <2>3. \A i, j \in 1..Len(idle') : idle'[i] = idle'[j] => i = j
    BY <1>5, <2>1, <2>2 DEF DInv, Owned
  <2>4. other' # NoPage => \A i \in 1..Len(idle') : idle'[i] # other'
    BY <1>1, <1>5, <2>1 DEF DInv, Owned
  <2> QED
    BY <1>1, <1>3, <1>4, <2>3, <2>4 DEF Owned
<1>10. Prompts'
  <2>1. ~turn'.composed
    BY <1>1, <1>3 DEF NoTurn
  <2> QED
    BY <1>1, <1>4, <2>1 DEF DInv, Prompts
<1>11. Views'
  <2> SUFFICES ASSUME NEW q \in Pages
               PROVE
    /\ page'[q].at \in Chats => Lags(page'[q].shown, web[page'[q].at])
    /\ page'[q].at \in {Blank, Root, Elsewhere} => page'[q].shown = <<>>
    /\ page'[q].at # Bootstrap
    /\ page'[q].at \in Chats /\ page'[q].past = "opened" =>
         page'[q].shown = web[page'[q].at]
    BY <1>1, <1>4 DEF Views
  <2>1. Blank \notin Chats \cup {Bootstrap}
    BY DriverAssumption DEF Blank, Bootstrap
  <2>2. CASE page'[q] = BlankPage
    BY <1>6, <2>1, <2>2
  <2>3. CASE page'[q] = page[q] /\ page'[q] # BlankPage
    BY <1>3, <2>3 DEF DInv, Views
  <2> QED
    BY <1>7, <2>2, <2>3
<1>12. Past' = Past /\ Whole' = Whole
  BY <1>1 DEF Past, Whole, NoTorn, Finished
<1>13. Kept' /\ Returned'
  BY <1>1, <1>2, <1>3, <1>4, <1>12 DEF DInv, Kept, Returned
<1> QED
  BY <1>4, <1>8, <1>9, <1>10, <1>11, <1>13 DEF DInv

LEMMA HeadIdle ==
  ASSUME NEW q \in Seq(Pages), q # <<>>
  PROVE  /\ Head(q) \in Pages /\ Head(q) = q[1] /\ Len(q) \in Nat /\ Len(q) > 0
         /\ Tail(q) \in Seq(Pages) /\ Len(Tail(q)) = Len(q) - 1
         /\ \A i \in 1..Len(Tail(q)) : Tail(q)[i] = q[i + 1] /\ i + 1 \in 1..Len(q)
<1>1. Len(q) \in Nat /\ Len(q) > 0 /\ Tail(q) \in Seq(Pages) /\ Len(Tail(q)) = Len(q) - 1
  BY HeadTailProperties, LenProperties
<1>2. Head(q) \in Pages /\ Head(q) = q[1]
  BY HeadTailProperties
<1>3. \A i \in 1..Len(Tail(q)) : Tail(q)[i] = q[i + 1] /\ i + 1 \in 1..Len(q)
  BY <1>1, HeadTailProperties
<1> QED
  BY <1>1, <1>2, <1>3

LEMMA OtherAcquiresStep ==
  ASSUME DInv, OtherAcquires
  PROVE  DInv'
<1>1. /\ other = NoPage /\ idle # <<>> /\ other' = Head(idle) /\ idle' = Tail(idle)
      /\ web' = web /\ text' = text /\ writing' = writing /\ page' = page /\ bound' = bound
      /\ saved' = saved /\ turn' = turn /\ answers' = answers /\ begun' = begun
      /\ reloads' = reloads /\ idle \in Seq(Pages)
  BY DEF OtherAcquires, site, bounds, DInv, TypeOK
<1>2. /\ other' \in Pages /\ other' = idle[1] /\ Len(idle) \in Nat /\ Len(idle) > 0
      /\ idle' \in Seq(Pages) /\ Len(idle') = Len(idle) - 1
      /\ \A i \in 1..Len(idle') : idle'[i] = idle[i + 1] /\ i + 1 \in 1..Len(idle)
  BY <1>1, HeadIdle
<1>3. /\ View' = View /\ (At("none")' <=> At("none")) /\ (Unsent' <=> Unsent) /\ (Sent' <=> Sent)
      /\ TornAgain' <=> TornAgain
      /\ Past' = Past /\ Whole' = Whole /\ \A t : Finished(t)' <=> Finished(t)
  BY <1>1 DEF View, At, Unsent, Sent, TornAgain, NoTorn, Past, Whole, Finished
<1>4. TypeOK'
  BY <1>1, <1>2 DEF DInv, TypeOK
<1>5. Owned'
  <2>1. 1 \in 1..Len(idle) /\ \A i \in 1..Len(idle') : i # 0 /\ i \in Int /\ i + 1 # 1
    BY <1>2
  <2>2. \A i \in 1..Len(idle') : idle'[i] # other'
    BY <1>2, <2>1 DEF DInv, Owned
  <2>3. \A i, j \in 1..Len(idle') : idle'[i] = idle'[j] => i = j
    <3> SUFFICES ASSUME NEW i \in 1..Len(idle'), NEW j \in 1..Len(idle'), idle'[i] = idle'[j]
                 PROVE  i = j
      OBVIOUS
    <3>1. i + 1 = j + 1
      BY <1>2, SMTT(30) DEF DInv, Owned
    <3> QED
      BY <1>2, <3>1
  <2>4. ~At("none") => other' # turn.page /\ \A i \in 1..Len(idle') : idle'[i] # turn.page
    BY <1>2, <2>1 DEF DInv, Owned
  <2>5. bound # NoPage => bound # other' /\ \A i \in 1..Len(idle') : idle'[i] # bound
    BY <1>2, <2>1 DEF DInv, Owned
  <2> QED
    BY <1>1, <1>3, <2>2, <2>3, <2>4, <2>5 DEF DInv, Owned
<1>6. Prompts'
  BY <1>1, <1>3 DEF DInv, Prompts
<1>7. Views'
  <2> SUFFICES ASSUME NEW p \in Pages
               PROVE
    /\ page[p].at \in Chats => Lags(page[p].shown, web[page[p].at])
    /\ page[p].at \in {Blank, Root, Elsewhere} => page[p].shown = <<>>
    /\ page[p].at = Bootstrap =>
         /\ p = turn.page /\ Sent /\ turn.gated
         /\ turn.step \in {"clicking", "click failed", "observing"}
         /\ page[p].dest \in Chats /\ web[page[p].dest] = <<begun>>
    /\ page[p].at \in Chats /\ page[p].past = "opened" =>
         \/ page[p].shown = web[page[p].at]
         \/ /\ p = turn.page /\ page[p].shown = <<>>
            /\ turn.step = "hydrating" \/ (turn.step = "opening" /\ turn.fresh)
    BY <1>1, <1>3 DEF Views
  <2> QED
    BY <1>1, <1>2 DEF DInv, Views
<1>8. Kept' /\ Continued'
  BY <1>1, <1>3 DEF DInv, Kept, Continued
<1>9. Counted' /\ Positioned'
  BY <1>1, <1>3 DEF DInv, Counted, Positioned
<1>10. Read' /\ Returned'
  BY <1>1, <1>3 DEF DInv, Read, Returned
<1> QED
  BY <1>4, <1>5, <1>6, <1>7, <1>8, <1>9, <1>10 DEF DInv

LEMMA OtherEndsStep ==
  ASSUME DInv, OtherEnds
  PROVE  DInv'
<1>1. /\ other \in Pages /\ other # NoPage /\ other' = NoPage /\ idle' = Append(idle, other)
      /\ web' = web /\ text' = text /\ writing' = writing /\ bound' = bound
      /\ saved' = saved /\ turn' = turn /\ answers' = answers /\ begun' = begun
      /\ reloads' = reloads /\ idle \in Seq(Pages) /\ page \in [Pages -> PageView]
  BY DEF OtherEnds, site, bounds, DInv, TypeOK
<1>2. PICK v \in {BlankPage, Goto(Root), Goto(Elsewhere), page[other]} :
        page' = [page EXCEPT ![other] = v]
  BY DEF OtherEnds
<1>3. other # turn.page /\ page[other].at # Bootstrap
  <2>1. other # turn.page
    BY <1>1 DEF DInv, Owned, NoTurn
  <2> QED
    BY <1>1, <2>1 DEF DInv, Views
<1>4. /\ v \in PageView /\ v.at # Bootstrap
      /\ v.at \in {Blank, Root, Elsewhere} => v.shown = <<>>
      /\ v.at \in Chats => Lags(v.shown, web[v.at])
      /\ v.at \in Chats /\ v.past = "opened" => v.shown = web[v.at]
  <2>1. /\ Goto(Root) \in PageView /\ Goto(Root).at = Root /\ Goto(Root).shown = <<>>
        /\ Goto(Elsewhere) \in PageView /\ Goto(Elsewhere).at = Elsewhere
        /\ Goto(Elsewhere).shown = <<>>
    BY Navigated
  <2>2. BlankPage \in PageView /\ BlankPage.at = Blank /\ BlankPage.shown = <<>>
    <3>1. <<>> \in Seq(Turns \cup {Ghost})
      OBVIOUS
    <3> QED
      BY <3>1 DEF BlankPage, PageView
  <2>3. /\ page[other] \in PageView
        /\ page[other].at \in Chats => Lags(page[other].shown, web[page[other].at])
        /\ page[other].at \in {Blank, Root, Elsewhere} => page[other].shown = <<>>
        /\ page[other].at \in Chats /\ page[other].past = "opened" =>
             page[other].shown = web[page[other].at]
    BY <1>1, <1>3 DEF DInv, Views
  <2>4. /\ Chats \cap {Blank, Root, Elsewhere} = {}
        /\ Bootstrap \notin {Blank, Root, Elsewhere}
    BY DriverAssumption DEF Blank, Root, Elsewhere, Bootstrap
  <2>5. CASE v = page[other]
    BY <1>3, <2>3, <2>5
  <2>6. CASE v # page[other]
    BY <2>1, <2>2, <2>4, <2>6
  <2> QED
    BY <2>5, <2>6
<1>5. /\ page' \in [Pages -> PageView] /\ page'[other] = v
      /\ \A q \in Pages : q # other => page'[q] = page[q]
  BY <1>1, <1>2, <1>4
<1>6. /\ idle' \in Seq(Pages) /\ Len(idle) \in Nat /\ Len(idle') = Len(idle) + 1
      /\ \A i \in 1..Len(idle) : idle'[i] = idle[i]
      /\ idle'[Len(idle) + 1] = other
  BY <1>1, AppendIdle
<1>7. /\ (At("none")' <=> At("none")) /\ (Unsent' <=> Unsent) /\ (Sent' <=> Sent)
      /\ TornAgain' <=> TornAgain
      /\ Past' = Past /\ Whole' = Whole /\ \A t : Finished(t)' <=> Finished(t)
  BY <1>1 DEF At, Unsent, Sent, TornAgain, NoTorn, Past, Whole, Finished
<1>8. TypeOK'
  BY <1>1, <1>5, <1>6 DEF DInv, TypeOK
<1>9. Owned'
  <2>1. \A i \in 1..Len(idle') : i \in 1..Len(idle) \/ i = Len(idle) + 1
    BY <1>6
  <2>2. \A i \in 1..Len(idle) : idle[i] # other
    BY <1>1 DEF DInv, Owned
  <2>3. \A i, j \in 1..Len(idle') : idle'[i] = idle'[j] => i = j
    BY <1>6, <2>1, <2>2 DEF DInv, Owned
  <2>4. ~At("none") => \A i \in 1..Len(idle') : idle'[i] # turn.page
    BY <1>3, <1>6, <2>1 DEF DInv, Owned
  <2>5. bound # NoPage => \A i \in 1..Len(idle') : idle'[i] # bound
    BY <1>1, <1>6, <2>1 DEF DInv, Owned
  <2>6. ~At("none") => turn.page # NoPage
    BY DriverAssumption DEF DInv, Owned
  <2> QED
    BY <1>1, <1>7, <2>3, <2>4, <2>5, <2>6 DEF DInv, Owned
<1>10. Prompts'
  BY <1>1, <1>7 DEF DInv, Prompts
<1>11. Views'
  <2> SUFFICES ASSUME NEW p \in Pages
               PROVE
    /\ page'[p].at \in Chats => Lags(page'[p].shown, web[page'[p].at])
    /\ page'[p].at \in {Blank, Root, Elsewhere} => page'[p].shown = <<>>
    /\ page'[p].at = Bootstrap =>
         /\ p = turn.page /\ Sent /\ turn.gated
         /\ turn.step \in {"clicking", "click failed", "observing"}
         /\ page'[p].dest \in Chats /\ web[page'[p].dest] = <<begun>>
    /\ page'[p].at \in Chats /\ page'[p].past = "opened" =>
         \/ page'[p].shown = web[page'[p].at]
         \/ /\ p = turn.page /\ page'[p].shown = <<>>
            /\ turn.step = "hydrating" \/ (turn.step = "opening" /\ turn.fresh)
    BY <1>1, <1>7 DEF Views
  <2>1. CASE p = other
    BY <1>4, <1>5, <2>1
  <2>2. CASE p # other
    <3>1. page'[p] = page[p]
      BY <1>5, <2>2
    <3>2. Len(idle) > 0 => Len(idle') > 0 /\ idle'[1] = idle[1]
      BY <1>6
    <3> QED
      BY <2>2, <3>1, <3>2 DEF DInv, Views
  <2> QED
    BY <2>1, <2>2
<1>12. Kept' /\ Returned'
  BY <1>1, <1>7 DEF DInv, Kept, Returned
<1>13. CASE At("none")
  <2>1. turn' = NoTurn
    BY <1>1, <1>13 DEF DInv, Owned
  <2>2. Continued' /\ Counted' /\ Positioned' /\ Read'
    BY <2>1, NoTurnFrame
  <2> QED
    BY <1>8, <1>9, <1>10, <1>11, <1>12, <2>2 DEF DInv
<1>14. CASE ~At("none")
  <2>1. View' = View
    BY <1>1, <1>3, <1>5, <1>14 DEF View, DInv, Owned
  <2>2. Continued' /\ Counted' /\ Positioned' /\ Read'
    <3>1. Continued' /\ Counted'
      BY <1>1, <1>7, <2>1 DEF DInv, Continued, Counted
    <3>2. Positioned'
      BY <1>1, <1>7, <2>1 DEF DInv, Positioned
    <3>3. Read'
      BY <1>1, <1>7, <2>1 DEF DInv, Read
    <3> QED
      BY <3>1, <3>2, <3>3
  <2> QED
    BY <1>8, <1>9, <1>10, <1>11, <1>12, <2>2 DEF DInv
<1> QED
  BY <1>13, <1>14

LEMMA BeginStep ==
  ASSUME DInv, Begin
  PROVE  DInv'
<1>1. /\ At("none") /\ begun < MaxTurns /\ bound' = NoPage /\ begun' = begun + 1
      /\ web' = web /\ text' = text /\ writing' = writing /\ page' = page /\ other' = other
      /\ saved' = saved /\ answers' = answers /\ reloads' = reloads
      /\ idle \in Seq(Pages) /\ begun \in 0..MaxTurns
  BY DEF Begin, site, DInv, TypeOK
<1>2. PICK fresh \in {TRUE} \cup {saved = NoChat}, files \in FileCounts,
           p \in {bound} \cup {Head(idle)} :
        /\ turn' = [NoTurn EXCEPT !.step = "opening", !.page = p, !.fresh = fresh, !.files = files]
        /\ \/ bound # NoPage /\ p = bound /\ idle' = idle
           \/ bound = NoPage /\ idle # <<>> /\ p = Head(idle) /\ idle' = Tail(idle)
  BY DEF Begin, Proceed
<1>3. /\ fresh \in BOOLEAN /\ (~fresh => saved # NoChat) /\ files \in Nat
  BY <1>2, DriverAssumption
<1>4. /\ turn = NoTurn /\ turn.page = NoPage /\ ~Sent /\ ~Unsent
      /\ \A q \in Pages :
           /\ page[q].at # Bootstrap /\ q # turn.page
           /\ page[q].at \in Chats /\ page[q].past = "opened" =>
                page[q].shown = web[page[q].at]
  BY <1>1, Idling
<1>5. /\ p \in Pages /\ p # NoPage /\ p # other /\ idle' \in Seq(Pages)
      /\ \A i \in 1..Len(idle') : idle'[i] # p
      /\ \A i, j \in 1..Len(idle') : idle'[i] = idle'[j] => i = j
      /\ other # NoPage => \A i \in 1..Len(idle') : idle'[i] # other
      /\ bound # NoPage => p = bound
      /\ bound = NoPage => p = idle[1]
  <2>1. CASE bound # NoPage /\ p = bound /\ idle' = idle
    BY <1>1, <2>1, DriverAssumption DEF DInv, TypeOK, Owned
  <2>2. CASE bound = NoPage /\ idle # <<>> /\ p = Head(idle) /\ idle' = Tail(idle)
    <3>1. /\ p \in Pages /\ p = idle[1] /\ Len(idle) \in Nat /\ Len(idle) > 0
          /\ idle' \in Seq(Pages) /\ Len(idle') = Len(idle) - 1
          /\ \A i \in 1..Len(idle') : idle'[i] = idle[i + 1] /\ i + 1 \in 1..Len(idle)
      BY <1>1, <2>2, HeadIdle
    <3>2. 1 \in 1..Len(idle) /\ \A i \in 1..Len(idle') : i \in Int /\ i # 0 /\ i + 1 # 1
      BY <3>1
    <3>3. \A i \in 1..Len(idle') : idle'[i] # p
      BY <3>1, <3>2 DEF DInv, Owned
    <3>4. \A i, j \in 1..Len(idle') : idle'[i] = idle'[j] => i = j
      <4> SUFFICES ASSUME NEW i \in 1..Len(idle'), NEW j \in 1..Len(idle'), idle'[i] = idle'[j]
                   PROVE  i = j
        OBVIOUS
      <4>1. i + 1 = j + 1
        BY <3>1 DEF DInv, Owned
      <4> QED
        BY <3>2, <4>1
    <3>5. /\ p # other
          /\ other # NoPage => \A i \in 1..Len(idle') : idle'[i] # other
      BY <3>1, <3>2, DriverAssumption DEF DInv, Owned
    <3> QED
      BY <2>2, <3>1, <3>3, <3>4, <3>5, DriverAssumption
  <2> QED
    BY <1>2, <2>1, <2>2
<1>6. /\ turn' \in TurnState /\ turn'.step = "opening" /\ turn'.page = p /\ turn'.fresh = fresh
      /\ turn'.composed = FALSE /\ turn'.stable = NoText
  <2>1. /\ NoTurn \in TurnState /\ NoTurn.composed = FALSE /\ NoTurn.stable = NoText
    BY DEF NoTurn, TurnState, Phases
  <2> DEFINE n == NoTurn
  <2> HIDE DEF n
  <2>2. turn' = [n EXCEPT !.step = "opening", !.page = p, !.fresh = fresh, !.files = files]
    BY <1>2 DEF n
  <2>3. n \in TurnState /\ n.composed = FALSE /\ n.stable = NoText
    BY <2>1 DEF n
  <2> QED
    BY <1>3, <1>5, <2>2, <2>3, PhaseNames DEF TurnState
<1>7. ~At("none")' /\ Unsent' /\ ~Sent'
  BY <1>6 DEF At, Unsent, Sent
<1>8. begun' \in 0..MaxTurns /\ begun' \in Turns
  BY <1>1, DriverAssumption DEF Turns
<1>9. TypeOK'
  <2>1. bound' \in Pages \cup {NoPage}
    BY <1>1
  <2> QED
    BY <1>1, <1>5, <1>6, <1>8, <2>1 DEF DInv, TypeOK
<1>10. Owned'
  BY <1>1, <1>5, <1>6, <1>7 DEF Owned
<1>11. Prompts'
  <2>1. ASSUME NEW c \in Chats, NEW i \in 1..Len(web[c])
        PROVE  web[c][i] <= begun' /\ web[c][i] # begun'
    <3>1. web[c] \in Seq(Turns)
      BY DEF DInv, TypeOK
    <3>2. web[c][i] \in Turns /\ web[c][i] <= begun
      BY <3>1, ElementOfSeq DEF DInv, Prompts, UpTo
    <3> QED
      BY <1>1, <3>2, DriverAssumption DEF Turns
  <2>2. UpTo(web, begun') /\ ~In(web, begun')
    BY <2>1 DEF UpTo, In
  <2> QED
    BY <1>1, <1>6, <1>8, <2>2 DEF DInv, Prompts
<1>12. Views'
  <2> SUFFICES ASSUME NEW q \in Pages
               PROVE
    /\ page[q].at \in Chats => Lags(page[q].shown, web[page[q].at])
    /\ page[q].at \in {Blank, Root, Elsewhere} => page[q].shown = <<>>
    /\ page[q].at # Bootstrap
    /\ page[q].at \in Chats /\ page[q].past = "opened" =>
         page[q].shown = web[page[q].at]
    BY <1>1, <1>6 DEF Views
  <2>1. q # NoPage
    BY DriverAssumption
  <2> QED
    BY <1>4, <1>5, <2>1 DEF DInv, Views
<1>13. Past' = Past /\ Whole' = Whole
  BY <1>1 DEF Past, Whole, NoTorn, Finished
<1>14. Kept' /\ Continued'
  <2>1. Kept'
    BY <1>1, <1>4, <1>7, <1>13 DEF DInv, Kept
  <2>2. Continued'
    BY <1>1, <1>3, <1>6 DEF Continued
  <2> QED
    BY <2>1, <2>2
<1>15. Counted' /\ Positioned' /\ Read'
  BY <1>6, <1>7 DEF Counted, Positioned, Read
<1>16. Returned'
  BY <1>1, <1>13, DriverAssumption DEF DInv, Returned, Turns
<1> QED
  BY <1>9, <1>10, <1>11, <1>12, <1>14, <1>15, <1>16 DEF DInv

-----------------------------------------------------------------------------
(* The prompt is delivered.                                                 *)
LEMMA AppendTurn ==
  ASSUME NEW S, NEW q \in Seq(S), NEW t \in S
  PROVE  /\ Append(q, t) \in Seq(S) /\ Len(q) \in Nat /\ Len(Append(q, t)) = Len(q) + 1
         /\ \A i \in 1..Len(q) : Append(q, t)[i] = q[i]
         /\ Append(q, t)[Len(q) + 1] = t
         /\ Append(q, t) # <<>>
         /\ \A i \in 1..Len(Append(q, t)) : i \in 1..Len(q) \/ i = Len(q) + 1
<1>1. /\ Append(q, t) \in Seq(S) /\ Len(q) \in Nat /\ Len(Append(q, t)) = Len(q) + 1
      /\ \A i \in 1..Len(q) : Append(q, t)[i] = q[i]
      /\ Append(q, t)[Len(q) + 1] = t
  BY AppendProperties, LenProperties
<1>2. Append(q, t) # <<>>
  <2>1. Len(<<>>) = 0
    OBVIOUS
  <2> QED
    BY <1>1, <2>1
<1> QED
  BY <1>1, <1>2

(* A chat that grows by a new turn still has every turn once.               *)
LEMMA OnceMore ==
  ASSUME NEW w \in [Chats -> Seq(Turns)], NEW c \in Chats, NEW t \in Turns,
         NEW x \in [Chats -> Seq(Turns)], x[c] = Append(w[c], t),
         \A d \in Chats : d # c => x[d] = w[d],
         Once(w), UpTo(w, t), ~In(w, t)
  PROVE  Once(x) /\ UpTo(x, t) /\ In(x, t) /\ \A s : In(w, s) => In(x, s)
<1>1. /\ x[c] = Append(w[c], t)
      /\ \A d \in Chats : d # c => x[d] = w[d]
  OBVIOUS
<1>2. /\ Len(w[c]) \in Nat /\ Len(x[c]) = Len(w[c]) + 1
      /\ \A i \in 1..Len(w[c]) : x[c][i] = w[c][i]
      /\ x[c][Len(w[c]) + 1] = t
      /\ \A i \in 1..Len(x[c]) : i \in 1..Len(w[c]) \/ i = Len(w[c]) + 1
  BY <1>1, AppendTurn
<1>3. \A d \in Chats : \A i \in 1..Len(x[d]) :
        \/ i \in 1..Len(w[d]) /\ x[d][i] = w[d][i]
        \/ d = c /\ i = Len(w[c]) + 1 /\ x[d][i] = t
  BY <1>1, <1>2
<1>4. Once(x)
  <2> SUFFICES ASSUME NEW d \in Chats, NEW e \in Chats, NEW i \in 1..Len(x[d]),
                      NEW j \in 1..Len(x[e]), x[d][i] = x[e][j]
               PROVE  d = e /\ i = j
    BY DEF Once
  <2>1. CASE i \in 1..Len(w[d]) /\ x[d][i] = w[d][i]
    <3>1. w[d][i] # t
      BY <2>1 DEF In
    <3>2. j \in 1..Len(w[e]) /\ x[e][j] = w[e][j]
      BY <1>3, <2>1, <3>1
    <3>3. w[d][i] = w[e][j] /\ i \in 1..Len(w[d]) /\ j \in 1..Len(w[e])
      BY <2>1, <3>2
    <3> QED
      BY <3>3 DEF Once
  <2>2. CASE d = c /\ i = Len(w[c]) + 1 /\ x[d][i] = t
    <3>1. ~(j \in 1..Len(w[e]) /\ x[e][j] = w[e][j])
      BY <2>2 DEF In
    <3> QED
      BY <1>3, <2>2, <3>1
  <2> QED
    BY <1>3, <2>1, <2>2
<1>5. UpTo(x, t)
  <2>1. t <= t
    BY DriverAssumption DEF Turns
  <2>2. \A d \in Chats : \A i \in 1..Len(w[d]) : w[d][i] <= t
    BY DEF UpTo
  <2> QED
    BY <1>3, <2>1, <2>2 DEF UpTo
<1>6. In(x, t)
  <2>1. Len(w[c]) + 1 \in 1..Len(x[c])
    BY <1>2
  <2> QED
    BY <1>2, <2>1 DEF In
<1>7. ASSUME NEW s, In(w, s) PROVE In(x, s)
  <2>1. PICK d \in Chats : \E i \in 1..Len(w[d]) : w[d][i] = s
    BY <1>7 DEF In
  <2>2. PICK i \in 1..Len(w[d]) : w[d][i] = s
    BY <2>1
  <2>3. i \in 1..Len(x[d]) /\ x[d][i] = s
    <3>1. ASSUME d = c PROVE i \in 1..Len(x[d]) /\ x[d][i] = s
      <4>1. i \in 1..Len(w[c]) /\ w[c][i] = s
        BY <2>2, <3>1
      <4>2. i \in 1..Len(x[c]) /\ x[c][i] = w[c][i]
        BY <1>2, <4>1
      <4> QED
        BY <3>1, <4>1, <4>2, Zenon
    <3>2. ASSUME d # c PROVE i \in 1..Len(x[d]) /\ x[d][i] = s
      <4>1. x[d] = w[d]
        BY <3>2
      <4> QED
        BY <2>2, <4>1, Zenon
    <3> QED
      BY <3>1, <3>2, Zenon
  <2> QED
    BY <2>3 DEF In
<1> QED
  BY <1>4, <1>5, <1>6, <1>7

LEMMA GrownLags ==
  ASSUME NEW shown \in Seq(Turns \cup {Ghost}), NEW chat \in Seq(Turns), NEW t \in Turns,
         Lags(shown, chat), \A i \in 1..Len(chat) : chat[i] <= t
  PROVE  /\ Lags(shown, Append(chat, t))
         /\ Lags(Append(shown, t), Append(chat, t))
<1> DEFINE s == Append(shown, t)
           c == Append(chat, t)
<1>1. /\ Len(chat) \in Nat /\ Len(c) = Len(chat) + 1 /\ c[Len(chat) + 1] = t
      /\ \A i \in 1..Len(chat) : c[i] = chat[i]
      /\ \A i \in 1..Len(c) : i \in 1..Len(chat) \/ i = Len(chat) + 1
  BY AppendTurn
<1>2. /\ Len(shown) \in Nat /\ Len(s) = Len(shown) + 1 /\ s[Len(shown) + 1] = t
      /\ \A i \in 1..Len(shown) : s[i] = shown[i]
      /\ \A i \in 1..Len(s) : i \in 1..Len(shown) \/ i = Len(shown) + 1
  BY AppendTurn
<1> HIDE DEF s, c
<1>3. Len(shown) <= Len(chat)
  BY DEF Lags
<1>4. \A i \in 1..Len(c) : c[i] <= t
  BY <1>1, DriverAssumption DEF Turns
<1>5. ASSUME NEW i \in 1..Len(shown)
      PROVE  shown[i] >= c[i] /\ \E j \in 1..Len(c) : shown[i] = c[j]
  <2>1. shown[i] >= chat[i] /\ i \in 1..Len(chat)
    BY <1>1, <1>2, <1>3 DEF Lags
  <2>2. PICK j \in 1..Len(chat) : shown[i] = chat[j]
    BY DEF Lags
  <2>3. j \in 1..Len(c) /\ c[j] = chat[j] /\ c[i] = chat[i]
    BY <1>1, <2>1, <2>2
  <2> QED
    BY <2>1, <2>2, <2>3
<1>6. Lags(shown, c)
  BY <1>1, <1>2, <1>3, <1>5 DEF Lags
<1>7. Lags(s, c)
  <2>1. Len(s) <= Len(c)
    BY <1>1, <1>2, <1>3
  <2>2. ASSUME NEW i \in 1..Len(s)
        PROVE  s[i] >= c[i] /\ \E j \in 1..Len(c) : s[i] = c[j]
    <3>1. CASE i \in 1..Len(shown)
      BY <1>2, <1>5, <3>1
    <3>2. CASE i = Len(shown) + 1
      <4>1. s[i] = t /\ i \in 1..Len(c) /\ Len(chat) + 1 \in 1..Len(c)
        BY <1>1, <1>2, <2>1, <3>2
      <4>2. c[i] \in Turns
        <5>1. c \in Seq(Turns)
          BY AppendTurn DEF c
        <5> QED
          BY <4>1, <5>1, ElementOfSeq
      <4> QED
        BY <1>1, <1>4, <4>1, <4>2, DriverAssumption DEF Turns
    <3> QED
      BY <1>2, <3>1, <3>2
  <2> QED
    BY <2>1, <2>2 DEF Lags
<1> QED
  BY <1>6, <1>7 DEF s, c

(* No Page but the turn's own counts as having mounted the chat that grows. *)
LEMMA ViewsGrown ==
  ASSUME DInv, NEW c \in Chats, NEW v,
         text' = text /\ idle' = idle /\ bound' = bound /\ other' = other /\ begun' = begun,
         turn.step = "clicking", bound = NoPage, turn.page \in Pages, begun \in Turns,
         page \in [Pages -> PageView], web \in [Chats -> Seq(Turns)], UpTo(web, begun),
         turn'.page = turn.page, turn'.step \in {"observing", "click failed"}, Sent',
         web'[c] = Append(web[c], begun), \A d \in Chats : d # c => web'[d] = web[d],
         page'[turn.page] = v,
         \A q \in Pages : q # turn.page =>
           IF page[q].at = c THEN page'[q] = [page[q] EXCEPT !.past = "behind"]
           ELSE page'[q] = page[q],
         \/ /\ v.at = c /\ Lags(v.shown, web'[c])
            /\ v.past = "opened" => v.shown = web'[c]
         \/ v.at = Bootstrap /\ v.dest = c /\ web'[c] = <<begun>> /\ turn'.gated
  PROVE  Views'
<1> SUFFICES ASSUME NEW p \in Pages
             PROVE
    /\ page'[p].at \in Chats => Lags(page'[p].shown, web'[page'[p].at])
    /\ page'[p].at \in {Blank, Root, Elsewhere} => page'[p].shown = <<>>
    /\ page'[p].at = Bootstrap =>
         /\ p = turn.page /\ turn'.gated
         /\ page'[p].dest \in Chats /\ web'[page'[p].dest] = <<begun>>
    /\ page'[p].at \in Chats /\ page'[p].past = "opened" =>
         page'[p].shown = web'[page'[p].at]
  BY DEF Views
<1>1. /\ Bootstrap \notin Chats /\ Bootstrap \notin {Blank, Root, Elsewhere}
      /\ Chats \cap {Blank, Root, Elsewhere} = {}
  BY DriverAssumption DEF Blank, Root, Elsewhere, Bootstrap
<1>2. CASE p = turn.page
  BY <1>1, <1>2
<1>3. CASE p # turn.page
  <2>1. /\ page'[p].at = page[p].at /\ page'[p].shown = page[p].shown
        /\ page'[p].past = "opened" => page[p].at # c /\ page[p].past = "opened"
    <3> DEFINE w == page[p]
    <3>1. w \in PageView
      OBVIOUS
    <3> HIDE DEF w
    <3>2. LET x == [w EXCEPT !.past = "behind"] IN
          x.at = w.at /\ x.shown = w.shown /\ x.past = "behind"
      BY <3>1 DEF PageView
    <3> QED
      BY <1>3, <3>2 DEF w
  <2>2. /\ page[p].at # Bootstrap
        /\ page[p].at \in {Blank, Root, Elsewhere} => page[p].shown = <<>>
        /\ page[p].at \in Chats => Lags(page[p].shown, web[page[p].at])
        /\ page[p].at \in Chats /\ page[p].past = "opened" =>
             page[p].shown = web[page[p].at]
    BY <1>3 DEF DInv, Views
  <2>3. page[p].at = c => Lags(page[p].shown, web'[c])
    <3>1. page[p].shown \in Seq(Turns \cup {Ghost})
      BY DEF PageView
    <3>2. \A i \in 1..Len(web[c]) : web[c][i] <= begun
      BY DEF UpTo
    <3>3. web[c] \in Seq(Turns)
      OBVIOUS
    <3> QED
      BY <2>2, <3>1, <3>2, <3>3, GrownLags
  <2> QED
    BY <1>3, <2>1, <2>2, <2>3
<1> QED
  BY <1>2, <1>3

LEMMA ProvisionalView ==
  ASSUME NEW c \in Chats
  PROVE  LET v == [Goto(Bootstrap) EXCEPT !.dest = c, !.shown = <<Ghost>>] IN
         v \in PageView /\ v.at = Bootstrap /\ v.dest = c /\ v.past = "opened"
<1>1. <<Ghost>> \in Seq(Turns \cup {Ghost})
  OBVIOUS
<1> QED
  BY <1>1 DEF Goto, BlankPage, PageView

LEMMA AppendToEmpty ==
  ASSUME NEW t
  PROVE  Append(<<>>, t) = <<t>>
OBVIOUS

LEMMA DeliveredRest ==
  ASSUME DInv, Views', Positioned',
         /\ text' = text /\ writing' = writing \cup {begun}
         /\ idle' = idle /\ bound' = bound /\ other' = other /\ saved' = saved
         /\ answers' = answers /\ begun' = begun /\ reloads' = reloads,
         turn.step = "clicking", Unsent, ~At("none"), begun \in Turns,
         turn' \in TurnState, turn'.step \in {"observing", "click failed"},
         turn'.composed = FALSE, turn'.page = turn.page, turn'.stable = turn.stable,
         ~At("none")', ~Unsent', Sent', page' \in [Pages -> PageView],
         web' \in [Chats -> Seq(Turns)], Once(web'), UpTo(web', begun), In(web', begun),
         \A t : In(web, t) => In(web', t), Whole \subseteq Whole'
  PROVE  DInv'
<1>1. TypeOK'
  BY DEF DInv, TypeOK
<1>2. Owned'
  BY DEF DInv, Owned
<1>3. Prompts'
  BY DEF DInv, Prompts
<1>4. Kept' /\ Continued' /\ Counted'
  BY DEF Kept, Continued, Counted
<1>5. Read'
  BY DEF DInv, Read
<1>6. Returned'
  BY DEF DInv, Returned
<1> QED
  BY <1>1, <1>2, <1>3, <1>4, <1>5, <1>6 DEF DInv

(* The click reports a success or, after all, a failure.                     *)
Outcomes == {"observing", "click failed"}
Emptied(t) == [t EXCEPT !.composed = FALSE, !.mounted = 0, !.ready = 0, !.lapsed = FALSE]

(* What every Page shows when a chat has grown from the turn's own.         *)
LEMMA GrownPages ==
  ASSUME page \in [Pages -> PageView], turn.page \in Pages, NEW c \in Chats,
         NEW v \in PageView, page' = Grown(c, v)
  PROVE  /\ page' \in [Pages -> PageView] /\ page'[turn.page] = v
         /\ \A q \in Pages : q # turn.page =>
              IF page[q].at = c THEN page'[q] = [page[q] EXCEPT !.past = "behind"]
              ELSE page'[q] = page[q]
<1>1. \A w \in PageView : [w EXCEPT !.past = "behind"] \in PageView
  BY DEF PageView
<1> QED
  BY <1>1 DEF Grown

LEMMA DeliveredStep ==
  ASSUME DInv, At("clicking"), turn.composed, NEW next \in Outcomes,
         turn' = Emptied([turn EXCEPT !.step = next]),
         text' = text, writing' = writing \cup {begun}, NEW c \in Chats,
         IF View.at \in Chats THEN c = View.at ELSE web[c] = <<>>,
         web' = [web EXCEPT ![c] = Append(@, begun)],
         page' = Grown(c, IF View.at \in Chats THEN [View EXCEPT !.shown = Append(@, begun)]
                          ELSE [Goto(Bootstrap) EXCEPT !.dest = c, !.shown = <<Ghost>>]),
         UNCHANGED <<pool, saved, answers, bounds>>
  PROVE  DInv'
<1>1. /\ IF View.at \in Chats THEN c = View.at ELSE web[c] = <<>>
      /\ web' = [web EXCEPT ![c] = Append(@, begun)]
  OBVIOUS
<1>2. /\ text' = text /\ writing' = writing \cup {begun}
      /\ idle' = idle /\ bound' = bound /\ other' = other /\ saved' = saved
      /\ answers' = answers /\ begun' = begun /\ reloads' = reloads
  BY DEF pool, bounds
<1>3. /\ turn.step = "clicking" /\ ~At("none") /\ Unsent /\ ~Sent /\ turn \in TurnState /\ turn.page \in Pages
      /\ begun \in Turns /\ ~In(web, begun) /\ bound = NoPage
      /\ page \in [Pages -> PageView] /\ web \in [Chats -> Seq(Turns)]
      /\ Once(web) /\ UpTo(web, begun) /\ text \in [Turns -> 0..MaxText]
  BY DEF At, Unsent, Sent, DInv, TypeOK, Owned, Prompts
<1>4. /\ turn' \in TurnState /\ turn'.step = next /\ turn'.composed = FALSE /\ turn'.page = turn.page
      /\ turn'.gated = turn.gated /\ turn'.stable = turn.stable /\ turn'.torn = turn.torn
      /\ turn'.baseline = turn.baseline
  <2> DEFINE n == [turn EXCEPT !.step = next]
  <2>1. turn' = Emptied(n)
    OBVIOUS
  <2>2. next \in Phases
    BY DEF Phases, Outcomes
  <2>3. /\ n \in TurnState /\ n.step = next /\ n.page = turn.page /\ n.gated = turn.gated
        /\ n.stable = turn.stable /\ n.torn = turn.torn /\ n.baseline = turn.baseline
    BY <1>3, <2>2 DEF TurnState
  <2> HIDE DEF n
  <2>4. LET e == Emptied(n) IN
        /\ e \in TurnState /\ e.step = n.step /\ e.composed = FALSE /\ e.page = n.page
        /\ e.gated = n.gated /\ e.stable = n.stable /\ e.torn = n.torn
        /\ e.baseline = n.baseline
    BY <2>3 DEF TurnState, Emptied
  <2> QED
    BY <2>1, <2>3, <2>4
<1>5. ~At("none")' /\ ~Unsent' /\ Sent' /\ turn'.step \in {"observing", "click failed"}
  BY <1>4 DEF At, Unsent, Sent, Outcomes
<1>6. /\ web' \in [Chats -> Seq(Turns)] /\ Once(web') /\ UpTo(web', begun) /\ In(web', begun)
      /\ \A t : In(web, t) => In(web', t)
      /\ web'[c] = Append(web[c], begun) /\ \A d \in Chats : d # c => web'[d] = web[d]
  <2>1. /\ web'[c] = Append(web[c], begun) /\ \A d \in Chats : d # c => web'[d] = web[d]
        /\ web' \in [Chats -> Seq(Turns)]
    <3> DEFINE q == Append(web[c], begun)
    <3>1. web[c] \in Seq(Turns)
      BY <1>3
    <3>2. q \in Seq(Turns)
      BY <1>3, <3>1, AppendProperties
    <3>3. web' = [web EXCEPT ![c] = q]
      BY <1>1
    <3> HIDE DEF q
    <3>4. web'[c] = q /\ (\A d \in Chats : d # c => web'[d] = web[d]) /\ web' \in [Chats -> Seq(Turns)]
      BY <1>3, <3>2, <3>3
    <3> QED
      BY <3>4 DEF q
  <2> QED
    <3> DEFINE w == web
               x == web'
    <3>1. /\ w \in [Chats -> Seq(Turns)] /\ x \in [Chats -> Seq(Turns)]
          /\ x[c] = Append(w[c], begun) /\ \A d \in Chats : d # c => x[d] = w[d]
          /\ begun \in Turns /\ Once(w) /\ UpTo(w, begun) /\ ~In(w, begun)
      BY <1>3, <2>1
    <3> HIDE DEF w, x
    <3>2. Once(x) /\ UpTo(x, begun) /\ In(x, begun) /\ \A t : In(w, t) => In(x, t)
      BY <3>1, OnceMore
    <3> QED
      BY <2>1, <3>2 DEF w, x
<1>7. /\ Len(web[c]) \in Nat /\ Len(web'[c]) = Len(web[c]) + 1
      /\ \A i \in 1..Len(web[c]) : web'[c][i] = web[c][i]
      /\ web'[c][Len(web[c]) + 1] = begun /\ web'[c] # <<>>
      /\ \A i \in 1..Len(web'[c]) : i \in 1..Len(web[c]) \/ i = Len(web[c]) + 1
  <2> DEFINE q == web[c]
  <2>1. q \in Seq(Turns) /\ web'[c] = Append(q, begun)
    BY <1>3, <1>6
  <2> HIDE DEF q
  <2>2. /\ Len(q) \in Nat /\ Len(web'[c]) = Len(q) + 1
        /\ \A i \in 1..Len(q) : web'[c][i] = q[i]
        /\ web'[c][Len(q) + 1] = begun /\ web'[c] # <<>>
        /\ \A i \in 1..Len(web'[c]) : i \in 1..Len(q) \/ i = Len(q) + 1
    BY <1>3, <2>1, AppendTurn, SMTT(30)
  <2> QED
    BY <2>2 DEF q
<1>8. begun \notin writing /\ text[begun] = 0
  <2>1. begun \notin writing /\ ~(text[begun] > 0)
    BY <1>3 DEF DInv, Prompts
  <2>2. text[begun] \in 0..MaxText
    BY <1>3
  <2> QED
    BY <2>1, <2>2, DriverAssumption
<1>9. \A t \in Turns : Finished(t) => Finished(t)'
  <2> SUFFICES ASSUME NEW t \in Turns, Finished(t) PROVE Finished(t)'
    OBVIOUS
  <2>1. t \notin writing /\ text[t] > 0 /\ t # begun
    BY <1>8 DEF Finished
  <2> QED
    BY <1>2, <2>1 DEF Finished
<1>10. Past \subseteq Past'
  BY <1>2, <1>9 DEF Past, NoTorn
<1>11. Whole \subseteq Whole'
  <2> SUFFICES ASSUME NEW a \in Whole PROVE a \in Whole'
    OBVIOUS
  <2>1. a \in Text /\ Finished(a.turn) /\ a.len = text[a.turn] /\ a.turn \in Turns
    BY DEF Whole, Finished
  <2> QED
    BY <1>2, <1>9, <2>1 DEF Whole
(* Where the Page is, and what the chat was before.                         *)
<1>12. /\ View \in PageView /\ View.shown \in Seq(Turns \cup {Ghost})
       /\ View.at = Root \/ (saved # NoChat /\ View.at = saved)
       /\ (turn.gated <=> View.at \notin Chats)
       /\ ~turn.torn =>
            /\ View.past = "opened"
            /\ turn.baseline = IF View.at \in Chats THEN Len(web[View.at]) ELSE 0
  <2>1. View \in PageView
    BY <1>3 DEF View
  <2> QED
    BY <2>1 DEF DInv, Continued, Counted, PageView
<1>13. CASE View.at \in Chats
  <2> DEFINE v == [View EXCEPT !.shown = Append(View.shown, begun)]
  <2>1. c = View.at /\ page' = Grown(c, v)
    BY <1>1, <1>13
  <2>2. /\ v \in PageView /\ v.at = c /\ v.shown = Append(View.shown, begun)
        /\ v.past = View.past
    <3> DEFINE w == View
               q == Append(View.shown, begun)
    <3>1. w \in PageView /\ q \in Seq(Turns \cup {Ghost})
      BY <1>3, <1>12, AppendTurn
    <3> HIDE DEF w, q
    <3>2. LET x == [w EXCEPT !.shown = q] IN
          x \in PageView /\ x.at = w.at /\ x.shown = q /\ x.past = w.past
      BY <3>1 DEF PageView
    <3> QED
      BY <2>1, <3>2 DEF w, q
  <2> HIDE DEF v
  <2>3. /\ page' \in [Pages -> PageView] /\ page'[turn.page] = v /\ View' = v
        /\ \A q \in Pages : q # turn.page =>
             IF page[q].at = c THEN page'[q] = [page[q] EXCEPT !.past = "behind"]
             ELSE page'[q] = page[q]
    <3>1. /\ page' \in [Pages -> PageView] /\ page'[turn.page] = v
          /\ \A q \in Pages : q # turn.page =>
               IF page[q].at = c THEN page'[q] = [page[q] EXCEPT !.past = "behind"]
               ELSE page'[q] = page[q]
      BY <1>3, <2>1, <2>2, GrownPages
    <3>2. View' = page'[turn.page]
      BY <1>4 DEF View
    <3> QED
      BY <3>1, <3>2, Zenon
  <2>4. Lags(View.shown, web[c]) /\ (View.past = "opened" => View.shown = web[c])
    BY <1>3, <1>13, <2>1 DEF DInv, Views, View
  <2>5. Lags(v.shown, web'[c]) /\ (v.past = "opened" => v.shown = web'[c])
    <3>1. \A i \in 1..Len(web[c]) : web[c][i] <= begun
      BY <1>3 DEF UpTo
    <3>2. Lags(Append(View.shown, begun), Append(web[c], begun))
      BY <1>3, <1>12, <2>4, <3>1, GrownLags
    <3> QED
      BY <1>6, <2>2, <2>4, <3>2
  <2>6. Bootstrap \notin Chats /\ Root \notin Chats /\ Chats \cap {Blank, Root, Elsewhere} = {}
    BY DriverAssumption
  <2>7. Views'
    BY <1>2, <1>3, <1>4, <1>5, <1>6, <1>13, <2>1, <2>2, <2>3, <2>5, <2>6, ViewsGrown, ZenonT(30)
  <2>8. Positioned'
    <3>1. View'.at = c /\ View'.shown = v.shown /\ c # Root /\ c # Bootstrap /\ c \in Chats
      BY <2>2, <2>3, <2>6
    <3>2. \A i \in 1..Len(web'[c]) : web'[c][i] \in Past' \cup {begun}
      <4>1. \A i \in 1..Len(web[c]) : web[c][i] \in Past
        BY <1>3, <1>12, <1>13, <2>1, <2>6 DEF DInv, Kept
      <4> QED
        BY <1>7, <1>10, <4>1
    <3>3. ~turn.torn =>
            /\ Len(web'[c]) = turn.baseline + 1
            /\ web'[c][turn.baseline + 1] = begun
            /\ v.shown = web'[c]
      BY <1>7, <1>12, <1>13, <2>1, <2>2, <2>5
    <3> QED
      BY <1>2, <1>4, <1>7, <3>1, <3>2, <3>3 DEF Positioned
  <2> QED
    BY <1>2, <1>3, <1>4, <1>5, <1>6, <1>8, <1>11, <2>3, <2>7, <2>8, DeliveredRest
<1>14. CASE View.at \notin Chats
  <2> DEFINE v == [Goto(Bootstrap) EXCEPT !.dest = c, !.shown = <<Ghost>>]
  <2>1. web[c] = <<>> /\ page' = Grown(c, v)
    BY <1>1, <1>14
  <2>2. v \in PageView /\ v.at = Bootstrap /\ v.dest = c /\ v.past = "opened"
    BY ProvisionalView
  <2> HIDE DEF v
  <2>3. /\ page' \in [Pages -> PageView] /\ page'[turn.page] = v /\ View' = v
        /\ \A q \in Pages : q # turn.page =>
             IF page[q].at = c THEN page'[q] = [page[q] EXCEPT !.past = "behind"]
             ELSE page'[q] = page[q]
    <3>1. /\ page' \in [Pages -> PageView] /\ page'[turn.page] = v
          /\ \A q \in Pages : q # turn.page =>
               IF page[q].at = c THEN page'[q] = [page[q] EXCEPT !.past = "behind"]
               ELSE page'[q] = page[q]
      BY <1>3, <2>1, <2>2, GrownPages
    <3>2. View' = page'[turn.page]
      BY <1>4 DEF View
    <3> QED
      BY <3>1, <3>2, Zenon
  <2>4. web'[c] = <<begun>>
    BY <1>6, <2>1, AppendToEmpty
  <2>5. Bootstrap \notin Chats /\ Bootstrap \notin {Blank, Root, Elsewhere}
    BY DriverAssumption DEF Blank, Root, Elsewhere, Bootstrap
  <2>6. Views'
    BY <1>2, <1>3, <1>4, <1>5, <1>6, <1>12, <1>14, <2>2, <2>3, <2>4, <2>5, ViewsGrown
  <2>7. Positioned'
    BY <1>2, <1>4, <1>12, <1>14, <2>2, <2>3, <2>5 DEF Positioned
  <2> QED
    BY <1>2, <1>3, <1>4, <1>5, <1>6, <1>8, <1>11, <2>3, <2>6, <2>7, DeliveredRest
<1> QED
  BY <1>13, <1>14

LEMMA ClickStep ==
  ASSUME DInv, Click
  PROVE  DInv'
<1>1. At("clicking") /\ turn.composed /\ UNCHANGED <<pool, saved, answers, bounds>>
  BY DEF Click, SendShown
<1>2. ASSUME NEW next \in Outcomes, Delivered([turn EXCEPT !.step = next])
      PROVE  DInv'
  <2>1. PICK c \in Chats :
          /\ IF View.at \in Chats THEN c = View.at ELSE web[c] = <<>>
          /\ web' = [web EXCEPT ![c] = Append(@, begun)]
          /\ page' = Grown(c, IF View.at \in Chats THEN [View EXCEPT !.shown = Append(@, begun)]
                              ELSE [Goto(Bootstrap) EXCEPT !.dest = c, !.shown = <<Ghost>>])
    BY <1>2 DEF Delivered
  <2>2. /\ text' = text /\ writing' = writing \cup {begun}
        /\ turn' = Emptied([turn EXCEPT !.step = next])
    BY <1>2 DEF Delivered, Proceed, Emptied
  <2> QED
    BY <1>1, <2>1, <2>2, DeliveredStep
<1>3. CASE To("click failed") /\ UNCHANGED <<site, page>>
  BY <1>1, <1>3, ModalClickStep DEF At
<1>4. "observing" \in Outcomes /\ "click failed" \in Outcomes
  BY DEF Outcomes
<1> QED
  BY <1>2, <1>3, <1>4 DEF Click

-----------------------------------------------------------------------------
LEMMA InitDInv ==
  ASSUME Init
  PROVE  DInv
<1>1. turn = NoTurn /\ ~Sent /\ ~Unsent /\ At("none") /\ turn.page = NoPage /\ ~turn.composed
  BY DEF Init, NoTurn, Sent, Unsent, At
<1>2. /\ idle \in Seq(Pages)
      /\ \A i, j \in 1..Len(idle) : idle[i] = idle[j] => i = j
  <2> DEFINE n == Cardinality(Pages)
  <2>1. n \in Nat
    BY FS_CardinalityType, DriverAssumption
  <2>2. idle \in [1..n -> Pages] /\ \A i, j \in 1..n : i # j => idle[i] # idle[j]
    BY DEF Init, SetToSeqs, IsInjective
  <2> HIDE DEF n
  <2>3. idle \in Seq(Pages) /\ Len(idle) = n
    BY <2>1, <2>2, LenProperties
  <2> QED
    BY <2>2, <2>3
<1>3. BlankPage \in PageView /\ BlankPage.at = Blank /\ BlankPage.shown = <<>>
  <2>1. <<>> \in Seq(Turns \cup {Ghost})
    OBVIOUS
  <2> QED
    BY <2>1 DEF BlankPage, PageView
<1>4. TypeOK
  <2>1. /\ web \in [Chats -> Seq(Turns)] /\ text \in [Turns -> 0..MaxText] /\ writing \subseteq Turns
        /\ page \in [Pages -> PageView] /\ bound \in Pages \cup {NoPage}
        /\ other \in Pages \cup {NoPage} /\ saved \in Chats \cup {NoChat}
        /\ answers \in [Turns -> Answer \cup {NoAnswer}]
        /\ begun \in 0..MaxTurns /\ reloads \in 0..MaxReloads
    BY <1>3, DriverAssumption DEF Init
  <2>2. turn \in TurnState
    BY <1>1 DEF NoTurn, TurnState, Phases
  <2> QED
    BY <1>2, <2>1, <2>2 DEF TypeOK
<1>5. Owned
  BY <1>1, <1>2 DEF Init, Owned
<1>6. Prompts
  <2>1. \A c \in Chats : web[c] = <<>>
    BY DEF Init
  <2>2. \A c \in Chats : \A i \in 1..Len(web[c]) : FALSE
    <3>1. Len(<<>>) = 0
      OBVIOUS
    <3> QED
      BY <2>1, <3>1
  <2>3. \A t \in Turns : ~(t \in writing \/ text[t] > 0)
    BY DEF Init
  <2> QED
    BY <1>1, <2>2, <2>3 DEF Prompts, UpTo, Once
<1>7. Views
  <2>1. \A p \in Pages : page[p] = BlankPage
    BY DEF Init
  <2>2. Blank \notin Chats \cup {Bootstrap}
    BY DriverAssumption DEF Blank, Bootstrap
  <2> QED
    BY <1>3, <2>1, <2>2 DEF Views
<1>8. Kept /\ Returned
  BY DEF Init, Kept, Returned
<1>9. Continued /\ Counted /\ Positioned /\ Read
  <2>1. turn.step = "none" /\ turn.stable = NoText
    BY <1>1 DEF NoTurn
  <2> QED
    BY <1>1, <2>1 DEF Continued, Counted, Positioned, Read
<1> QED
  BY <1>4, <1>5, <1>6, <1>7, <1>8, <1>9 DEF DInv

LEMMA Stutter ==
  ASSUME DInv, UNCHANGED <<site, pool, saved, turn, answers, bounds>>, page' = page
  PROVE  DInv'
<1>1. /\ web' = web /\ text' = text /\ writing' = writing /\ idle' = idle
      /\ bound' = bound /\ other' = other /\ saved' = saved /\ turn' = turn
      /\ answers' = answers /\ begun' = begun /\ reloads' = reloads
  BY DEF site, pool, bounds
<1>2. /\ View' = View /\ (At("none")' <=> At("none")) /\ (Unsent' <=> Unsent) /\ (Sent' <=> Sent)
      /\ TornAgain' <=> TornAgain
      /\ Past' = Past /\ Whole' = Whole /\ \A t : Finished(t)' <=> Finished(t)
  BY <1>1 DEF View, At, Unsent, Sent, TornAgain, NoTorn, Past, Whole, Finished
<1>3. TypeOK' /\ Owned'
  BY <1>1, <1>2 DEF DInv, TypeOK, Owned
<1>4. Prompts' /\ Kept'
  BY <1>1, <1>2 DEF DInv, Prompts, Kept
<1>5. Views'
  BY <1>1, <1>2 DEF DInv, Views
<1>6. Continued' /\ Counted'
  BY <1>1, <1>2 DEF DInv, Continued, Counted
<1>7. Positioned' /\ Read'
  BY <1>1, <1>2 DEF DInv, Positioned, Read
<1>8. Returned'
  BY <1>1, <1>2 DEF DInv, Returned
<1> QED
  BY <1>3, <1>4, <1>5, <1>6, <1>7, <1>8 DEF DInv

LEMMA NextDInv ==
  ASSUME DInv, [Next]_vars
  PROVE  DInv'
<1>1. ASSUME Driver PROVE DInv'
  <2>1. CASE OpenFresh \/ OpenConversation \/ Hydrated \/ HydrationFails
    BY <2>1, OpenFreshStep, OpenConversationStep, HydratedStep
  <2>2. CASE StartText \/ Uploaded \/ Compose \/ Click \/ RetryClick
    BY <2>2, StartTextStep, UploadedStep, ComposeStep, ClickStep, RetryClickStep
  <2>3. CASE Look \/ Complete \/ CompleteBesideStop \/ KeepObserving
    BY <2>3, LookStep, CompleteStep, CompleteBesideStopStep, KeepObservingStep
  <2>4. CASE Verify \/ Reload \/ Resynchronized
    BY <2>4, VerifyStep, ReloadStep, ResynchronizedAnyStep
  <2>5. CASE Fails
    BY <2>5, FailStep DEF Fails, site
  <2>6. CASE StopTurn
    <3>1. Fail /\ web' = web /\ text' = text /\ writing' \subseteq writing
      BY <2>6 DEF StopTurn
    <3> QED
      BY <3>1, FailStep
  <2> QED
    BY <1>1, <2>1, <2>2, <2>3, <2>4, <2>5, <2>6 DEF Driver
<1>2. ASSUME Website PROVE DInv'
  <2>1. CASE \E t \in Turns : WriteAnswer(t)
    BY <2>1, WriteAnswerStep
  <2>2. CASE \E p \in Pages : Settle(p) \/ Mount(p)
    BY <2>2, SettleStep, MountStep
  <2>3. CASE ComposerChanges
    BY <2>3, AsideStep
  <2> QED
    BY <1>2, <2>1, <2>2, <2>3 DEF Website
<1>3. ASSUME Begin \/ Abort PROVE DInv'
  BY <1>3, BeginStep, AsideStep
<1>4. ASSUME Evict \/ OtherAcquires \/ OtherEnds PROVE DInv'
  BY <1>4, EvictStep, OtherAcquiresStep, OtherEndsStep
<1>5. ASSUME UNCHANGED vars PROVE DInv'
  <2>1. UNCHANGED <<site, pool, saved, turn, answers, bounds>> /\ page' = page
    BY <1>5 DEF vars, site, pool, bounds
  <2> QED
    BY <2>1, Stutter
<1> QED
  BY <1>1, <1>2, <1>3, <1>4, <1>5 DEF Next

LEMMA Inductive == Spec => []DInv
<1>1. Init => DInv
  BY InitDInv
<1>2. DInv /\ [Next]_vars => DInv'
  BY NextDInv
<1> QED
  BY <1>1, <1>2, PTL DEF Spec


-----------------------------------------------------------------------------
(* The theorems.                                                           *)

(* Every variable keeps its type: in particular the Page of a turn is one  *)
(* of the pool, and chats consist of the turns that were started.          *)
THEOREM TypesAreRight == Spec => []TypeOK
<1>1. DInv => TypeOK
  BY DEF DInv
<1> QED
  BY <1>1, Inductive, PTL

(* A driver that counted the answers of its chat on a Page that had        *)
(* mounted it returns the answer of its own prompt, whatever the website   *)
(* renders afterwards and however often the Page is reloaded.              *)
THEOREM OwnAnswerReturned == Spec => []OwnAnswerUnlessTorn
<1>1. DInv => OwnAnswerUnlessTorn
  BY DEF DInv, Returned, OwnAnswerUnlessTorn
<1> QED
  BY <1>1, Inductive, PTL

(* The first torn turn still returns a finished answer, and every untorn   *)
(* turn does: a short text takes two torn turns.                           *)
THEOREM WholeAnswerReturned == Spec => []WholeAnswerUnlessTornAgain
<1>1. DInv => WholeAnswerUnlessTornAgain
  BY DEF DInv, Returned, Whole, WholeAnswerUnlessTornAgain
<1> QED
  BY <1>1, Inductive, PTL

(* Clicks that are retried, hidden behind a modal or reported to have      *)
(* failed never put a prompt on the website twice.                         *)
THEOREM DeliveredOnce == Spec => []PromptSentOnce
<1>1. ASSUME DInv PROVE PromptSentOnce
  <2>1. \A c \in Chats : web[c] \in Seq(Turns)
    BY <1>1 DEF DInv, TypeOK
  <2>2. \A c \in Chats : DOMAIN web[c] = 1..Len(web[c])
    BY <2>1, LenProperties
  <2>3. Once(web)
    BY <1>1 DEF DInv, Prompts
  <2> QED
    BY <2>2, <2>3 DEF Once, PromptSentOnce
<1> QED
  BY <1>1, Inductive, PTL

(* A chat that a later turn can continue holds no prompt that is still     *)
(* waiting for its answer or was given up.                                 *)
THEOREM SavedIsAnswered == Spec => []SavedChatAnswered
<1>1. ASSUME DInv PROVE SavedChatAnswered
  <2> SUFFICES ASSUME At("none"), saved # NoChat
               PROVE  web[saved] # <<>> /\ \A t \in Range(web[saved]) : answers[t] # NoAnswer
    BY DEF SavedChatAnswered
  <2>1. web[saved] \in Seq(Turns)
    BY <1>1 DEF DInv, TypeOK
  <2>2. DOMAIN web[saved] = 1..Len(web[saved])
    BY <2>1, LenProperties
  <2>3. web[saved] # <<>> /\ \A i \in 1..Len(web[saved]) : web[saved][i] \in Past
    BY <1>1 DEF DInv, Kept, Sent
  <2> QED
    BY <2>2, <2>3 DEF Range, Past
<1> QED
  BY <1>1, Inductive, PTL

(* A prompt reaches the website with all of its attachments, or they were  *)
(* ready when the prompt had been entered and one has gone since: no order *)
(* of tiles, modal, clicks and aborts takes it there past a look that      *)
(* found them not ready.                                                   *)
THEOREM FilesComeFirst == Spec => PromptCarriesFiles
<1>1. DInv /\ [Next]_vars => [turn.composed /\ web' # web => turn.ready = turn.files \/ turn.lapsed]_vars
  BY DEF DInv, Prompts, Loaded
<1>2. [][turn.composed /\ web' # web => turn.ready = turn.files \/ turn.lapsed]_vars
      <=> PromptCarriesFiles
  BY DEF PromptCarriesFiles
<1> QED
  BY <1>1, <1>2, Inductive, PTL DEF Spec
=============================================================================
