----------------------- MODULE ContextPlanner_proofs -----------------------
(***************************************************************************)
(* What the operators of ContextPlanner return, for every request and      *)
(* every stored Conversation.                                              *)
(***************************************************************************)
EXTENDS ContextPlanner, SequenceTheorems, FiniteSetTheorems, TLAPS

(* The requests that are planned: canonical ones of valid transcripts.     *)
PlannableRequest(request) ==
  /\ request.messages \in Seq(Message)
  /\ request.messages # <<>>
  /\ request.messages[Len(request.messages)].role \in {"user", "tool"}

(* The pending turn starts inside the transcript.                          *)
LEMMA PendingStartRange ==
  ASSUME NEW messages \in Seq(Message), messages # <<>>,
         messages[Len(messages)].role \in {"user", "tool"}
  PROVE  PendingStart(messages) \in 1..Len(messages)
<1>1. Len(messages) \in Nat \ {0}
  BY EmptySeq
<1>2. CASE messages[Len(messages)].role = "user"
  BY <1>1, <1>2 DEF PendingStart
<1>3. CASE messages[Len(messages)].role = "tool"
  <2>1. /\ IsFiniteSet(1..Len(messages))
        /\ Cardinality(1..Len(messages)) = Len(messages)
    BY <1>1, FS_Interval
  <2>2. ToolTail(messages) \in SUBSET (1..Len(messages))
    BY DEF ToolTail
  <2>3. Len(messages) \in ToolTail(messages)
    BY <1>1, <1>3 DEF ToolTail
  <2>4. IsFiniteSet(ToolTail(messages)) /\ Cardinality(ToolTail(messages)) <= Len(messages)
    BY <2>1, <2>2, FS_Subset
  <2>5. Cardinality(ToolTail(messages)) \in Nat
    BY <2>4, FS_CardinalityType
  <2>6. Cardinality(ToolTail(messages)) # 0
    BY <2>3, <2>4, FS_EmptySet
  <2> QED
    BY <1>1, <1>3, <2>4, <2>5, <2>6 DEF PendingStart
<1> QED
  BY <1>2, <1>3

(* A transcript is its history followed by its pending turn.               *)
LEMMA RequestSplit ==
  ASSUME NEW messages \in Seq(Message), messages # <<>>,
         messages[Len(messages)].role \in {"user", "tool"}
  PROVE  /\ RequestHistory(messages) \in Seq(Message)
         /\ PendingTurn(messages) \in Seq(Message)
         /\ Len(PendingTurn(messages)) = Len(messages) + 1 - PendingStart(messages)
         /\ RequestHistory(messages) \o PendingTurn(messages) = messages
<1> DEFINE n == Len(messages)
           p == PendingStart(messages)
<1>1. n \in Nat \ {0} /\ p \in 1..n
  BY EmptySeq, PendingStartRange
<1>2. \A i \in 1..n : messages[i] \in Message
  BY ElementOfSeq
<1>3. RequestHistory(messages) \in Seq(Message)
  <2>1. \A i \in 1..(p - 1) : messages[i] \in Message
    BY <1>1, <1>2
  <2> QED
    BY <1>1, <2>1, SubSeqProperties DEF RequestHistory
<1>4. /\ PendingTurn(messages) \in Seq(Message)
      /\ Len(PendingTurn(messages)) = n + 1 - p
  <2>1. \A i \in p..n : messages[i] \in Message
    BY <1>1, <1>2
  <2> QED
    BY <1>1, <2>1, SubSeqProperties DEF PendingTurn
<1>5. SubSeq(messages, 1, p - 1) \o SubSeq(messages, (p - 1) + 1, n) = SubSeq(messages, 1, n)
  <2>1. 1 \in 1..(n + 1) /\ p - 1 \in (1 - 1)..n /\ n \in (p - 1)..n
    BY <1>1
  <2> HIDE DEF p
  <2> QED
    BY <2>1, ConcatAdjacentSubSeq
<1>6. RequestHistory(messages) \o PendingTurn(messages) = messages
  <2>1. (p - 1) + 1 = p
    BY <1>1
  <2>2. RequestHistory(messages) \o PendingTurn(messages) = SubSeq(messages, 1, n)
    BY <1>5, <2>1 DEF RequestHistory, PendingTurn
  <2> QED
    BY <2>2, SubSeqFull
<1> QED
  BY <1>3, <1>4, <1>6

-----------------------------------------------------------------------------
(* Stored state: absent, or messages of which a prefix is confirmed.       *)
LoadedConversation(stored) ==
  stored # NoStored =>
    stored.messages \in Seq(Message) /\ stored.synced \in 0..Len(stored.messages)

LEMMA ConfirmedPrefixType ==
  ASSUME NEW stored, stored # NoStored, LoadedConversation(stored)
  PROVE  /\ ConfirmedPrefix(stored) \in Seq(Message)
         /\ stored.synced = Len(stored.messages) => ConfirmedPrefix(stored) = stored.messages
<1> DEFINE m == stored.messages
           k == stored.synced
<1>1. m \in Seq(Message) /\ k \in 0..Len(m) /\ Len(m) \in Nat
  BY EmptySeq DEF LoadedConversation
<1>2. \A i \in 1..k : m[i] \in Message
  BY <1>1, ElementOfSeq
<1>3. ConfirmedPrefix(stored) \in Seq(Message)
  BY <1>1, <1>2, SubSeqProperties DEF ConfirmedPrefix
<1>4. SubSeq(m, 1, Len(m)) = m
  BY <1>1, SubSeqFull
<1> QED
  BY <1>3, <1>4 DEF ConfirmedPrefix

(* A message sequence that extends another one is that one followed by     *)
(* what comes after it.                                                    *)
LEMMA PrefixSplit ==
  ASSUME NEW messages \in Seq(Message), NEW prefix \in Seq(Message),
         HasPrefix(messages, prefix)
  PROVE  messages = prefix \o SubSeq(messages, Len(prefix) + 1, Len(messages))
<1> DEFINE n == Len(messages)
           k == Len(prefix)
           rest == SubSeq(messages, k + 1, n)
<1>1. n \in Nat /\ k \in Nat /\ k <= n
  BY LenProperties DEF HasPrefix
<1>2. \A i \in (k + 1)..n : messages[i] \in Message
  BY <1>1, ElementOfSeq
<1>3. /\ rest \in Seq(Message)
      /\ Len(rest) = n - k
      /\ \A i \in 1..(n - k) : rest[i] = messages[k + i]
  <2>1. k + 1 \in Int /\ n \in Int
    BY <1>1
  <2>2. /\ rest \in Seq(Message)
        /\ Len(rest) = IF k + 1 <= n THEN n - (k + 1) + 1 ELSE 0
        /\ \A i \in 1..(n - (k + 1) + 1) : rest[i] = messages[(k + 1) + i - 1]
    <3> HIDE DEF n, k
    <3> QED
      BY <1>2, <2>1, SubSeqProperties
  <2> HIDE DEF rest, n, k
  <2> QED
    BY <1>1, <2>2
<1>4. /\ prefix \o rest \in Seq(Message)
      /\ Len(prefix \o rest) = k + (n - k)
      /\ \A i \in 1..(k + (n - k)) :
           (prefix \o rest)[i] = IF i <= k THEN prefix[i] ELSE rest[i - k]
  <2> HIDE DEF rest
  <2> QED
    BY <1>3, ConcatProperties
<1>5. \A i \in 1..k : messages[i] = prefix[i]
  BY DEF HasPrefix
<1>6. \A i \in 1..n : messages[i] = (prefix \o rest)[i]
  <2> HIDE DEF rest, n, k
  <2> QED
    BY <1>1, <1>3, <1>4, <1>5
<1>7. Len(prefix \o rest) = n
  <2> HIDE DEF rest, n, k
  <2> QED
    BY <1>1, <1>4
<1>8. messages = prefix \o rest
  <2> HIDE DEF rest
  <2>1. Len(messages) = Len(prefix \o rest)
    BY <1>7
  <2>2. \A i \in 1..Len(messages) : messages[i] = (prefix \o rest)[i]
    BY <1>6
  <2> QED
    BY <1>4, <2>1, <2>2, SeqEqual
<1> QED
  BY <1>8

(* What a successful plan consists of.                                     *)
LEMMA PlanShape ==
  ASSUME NEW stored, NEW request, NEW affinity,
         LoadedConversation(stored), PlannableRequest(request),
         NEW plan, plan = PlanContextSync(stored, request, affinity), plan # PlanningError
  PROVE  /\ plan \in Plan
         /\ plan.pending = PendingTurn(request.messages)
         /\ Rebuilds(plan) =>
              plan.history = IF request.mode = "full" \/ stored = NoStored
                             THEN RequestHistory(request.messages) ELSE ConfirmedPrefix(stored)
         /\ ~Rebuilds(plan) => stored # NoStored /\ ~MustRebuild(stored, request)
<1> DEFINE pending == PendingTurn(request.messages)
           history == IF request.mode = "full" \/ stored = NoStored
                      THEN RequestHistory(request.messages) ELSE ConfirmedPrefix(stored)
<1>1. pending \in Seq(Message) /\ RequestHistory(request.messages) \in Seq(Message)
  BY RequestSplit DEF PlannableRequest
<1>2. history \in Seq(Message)
  BY <1>1, ConfirmedPrefixType
<1>3. <<>> \in Seq(Message)
  BY EmptySeq
<1>4. CASE stored = NoStored
  <2>1. plan = [mode |-> "FRESH", history |-> history, pending |-> pending]
    BY <1>4, PlanContextSync(stored, request, affinity) = plan DEF PlanContextSync, Planned
  <2> HIDE DEF history, pending
  <2>2. plan \in Plan /\ plan.history = history /\ plan.pending = pending /\ Rebuilds(plan)
    BY <1>1, <1>2, <2>1 DEF Plan, PlanModes, Rebuilds
  <2> QED
    BY <2>2 DEF history, pending
<1>5. CASE stored # NoStored /\ MustRebuild(stored, request)
  <2>1. plan = [mode |-> "REBUILD", history |-> history, pending |-> pending]
    BY <1>5, PlanContextSync(stored, request, affinity) = plan DEF PlanContextSync, Planned
  <2> HIDE DEF history, pending
  <2>2. plan \in Plan /\ plan.history = history /\ plan.pending = pending /\ Rebuilds(plan)
    BY <1>1, <1>2, <2>1 DEF Plan, PlanModes, Rebuilds
  <2> QED
    BY <2>2 DEF history, pending
<1>6. CASE stored # NoStored /\ ~MustRebuild(stored, request)
  <2>1. plan = [mode |-> IF affinity THEN "APPEND" ELSE "RESTORE",
                history |-> <<>>, pending |-> pending]
    BY <1>6, PlanContextSync(stored, request, affinity) = plan DEF PlanContextSync, Planned
  <2> HIDE DEF pending
  <2>2. plan \in Plan /\ plan.pending = pending /\ ~Rebuilds(plan)
    BY <1>1, <1>3, <2>1 DEF Plan, PlanModes, Rebuilds
  <2> QED
    BY <1>6, <2>2 DEF pending
<1> QED
  BY <1>4, <1>5, <1>6

(* Every prompt a plan can lead to brings the website to the transcript    *)
(* that will be saved: a Context Prompt by its history and the pending     *)
(* turn, an Append Prompt by adding the pending turn to what is stored;    *)
(* and a web conversation is only appended to when it is not in doubt.     *)
THEOREM PromptsReachAuthoritative ==
  ASSUME NEW stored, NEW request, NEW affinity,
         LoadedConversation(stored), PlannableRequest(request),
         NEW plan, plan = PlanContextSync(stored, request, affinity), plan # PlanningError
  PROVE  /\ AuthoritativeMessages(stored, request, plan) \in Seq(Message)
         /\ ContextHistory(stored, request, plan) \in Seq(Message)
         /\ ContextHistory(stored, request, plan) \o plan.pending
              = AuthoritativeMessages(stored, request, plan)
         /\ ~Rebuilds(plan) =>
              /\ stored # NoStored /\ stored.status # "in_flight" /\ stored.url # NoUrl
              /\ stored.synced = Len(stored.messages)
              /\ stored.messages \o plan.pending = AuthoritativeMessages(stored, request, plan)
<1> DEFINE m == request.messages
           pending == PendingTurn(m)
<1>1. /\ m \in Seq(Message) /\ pending \in Seq(Message)
      /\ RequestHistory(m) \in Seq(Message)
      /\ Len(pending) = Len(m) + 1 - PendingStart(m)
      /\ RequestHistory(m) \o pending = m
      /\ PendingStart(m) \in 1..Len(m) /\ Len(m) \in Nat
  BY RequestSplit, PendingStartRange, EmptySeq DEF PlannableRequest
<1>2. /\ plan \in Plan /\ plan.pending = pending
      /\ Rebuilds(plan) => plan.history \in Seq(Message)
      /\ ~Rebuilds(plan) => stored # NoStored /\ ~MustRebuild(stored, request)
  BY PlanShape DEF Plan
<1>3. CASE Rebuilds(plan)
  <2>1. plan.history \o plan.pending \in Seq(Message)
    BY <1>1, <1>2, <1>3, ConcatProperties
  <2> QED
    BY <1>2, <1>3, <2>1 DEF AuthoritativeMessages, ContextHistory
<1>4. CASE ~Rebuilds(plan)
  <2>1. /\ stored # NoStored /\ stored.status # "in_flight" /\ stored.url # NoUrl
        /\ stored.synced = Len(stored.messages)
        /\ request.mode = "full" =>
             /\ HasPrefix(m, stored.messages)
             /\ SubSeq(m, Len(stored.messages) + 1, Len(m)) = pending
    BY <1>2, <1>4 DEF MustRebuild
  <2>2. stored.messages \in Seq(Message) /\ ConfirmedPrefix(stored) = stored.messages
    BY <2>1, ConfirmedPrefixType DEF LoadedConversation
  <2>3. stored.messages \o pending \in Seq(Message)
    BY <1>1, <2>2, ConcatProperties
  <2>4. CASE request.mode = "full"
    <3>1. stored.messages \o pending = m
      BY <1>1, <2>1, <2>2, <2>4, PrefixSplit
    <3>2. Len(m) - Len(pending) = PendingStart(m) - 1
      <4> HIDE DEF m, pending
      <4> QED
        BY <1>1
    <3>3. SubSeq(m, 1, Len(m) - Len(plan.pending)) = RequestHistory(m)
      BY <1>2, <3>2 DEF RequestHistory
    <3>4. AuthoritativeMessages(stored, request, plan) = m
      BY <1>4, <2>4 DEF AuthoritativeMessages
    <3>5. ContextHistory(stored, request, plan) = RequestHistory(m)
      BY <1>4, <2>4, <3>3 DEF ContextHistory
    <3> QED
      BY <1>1, <1>2, <2>1, <3>1, <3>4, <3>5
  <2>5. CASE request.mode # "full"
    <3>1. /\ AuthoritativeMessages(stored, request, plan) = stored.messages \o pending
          /\ ContextHistory(stored, request, plan) = stored.messages
      BY <1>2, <1>4, <2>2, <2>5 DEF AuthoritativeMessages, ContextHistory
    <3> QED
      BY <1>2, <2>1, <2>2, <2>3, <3>1
  <2> QED
    BY <2>4, <2>5
<1> QED
  BY <1>3, <1>4

-----------------------------------------------------------------------------
(* Transcripts in which no call is made twice, and every result follows    *)
(* its call and is the only one.                                           *)
CallsMatch(m) ==
  /\ \A i, j \in 1..Len(m) : i # j => m[i].calls \cap m[j].calls = {}
  /\ \A i \in 1..Len(m) : m[i].role = "tool" =>
       /\ \E j \in 1..(i - 1) : m[i].answers \in m[j].calls
       /\ \A j \in 1..(i - 1) : m[j].answers # m[i].answers

(* So does the beginning of such a transcript.                             *)
LEMMA PrefixMatches ==
  ASSUME NEW m \in Seq(Message), CallsMatch(m), NEW k \in 0..Len(m)
  PROVE  CallsMatch(SubSeq(m, 1, k))
<1> DEFINE s == SubSeq(m, 1, k)
<1>1. Len(m) \in Nat /\ k \in Nat /\ k <= Len(m)
  BY LenProperties
<1>2. \A i \in 1..k : m[i] \in Message
  BY <1>1, ElementOfSeq
<1>3. Len(s) = k /\ \A i \in 1..k : s[i] = m[i]
  BY <1>1, <1>2, SubSeqProperties
<1> HIDE DEF s
<1>4. \A i \in 1..k : i \in 1..Len(m) /\ \A j \in 1..(i - 1) : j \in 1..k
  BY <1>1
<1>5. CallsMatch(s)
  BY <1>3, <1>4 DEF CallsMatch
<1> QED
  BY <1>5 DEF s

(* One more message that makes new calls at most, and is no result.        *)
LEMMA AppendMatches ==
  ASSUME NEW m \in Seq(Message), CallsMatch(m),
         NEW x \in Message, x.role # "tool", x.calls \cap CallsMade(m) = {}
  PROVE  CallsMatch(Append(m, x))
<1> DEFINE s == Append(m, x)
           n == Len(m)
<1>1. /\ n \in Nat /\ Len(s) = n + 1 /\ s[n + 1] = x
      /\ \A i \in 1..n : s[i] = m[i]
  BY LenProperties, AppendProperties
<1>2. \A i \in 1..n : m[i].calls \subseteq CallsMade(m)
  BY DEF CallsMade
<1> HIDE DEF s, n
<1>3. \A i \in 1..Len(s) : i \in 1..n \/ i = n + 1
  BY <1>1
<1>4. ASSUME NEW i \in 1..Len(s), NEW j \in 1..Len(s), i # j
      PROVE  s[i].calls \cap s[j].calls = {}
  <2>1. CASE i \in 1..n /\ j \in 1..n
    BY <1>1, <1>4, <2>1 DEF CallsMatch, n
  <2>2. CASE i = n + 1 \/ j = n + 1
    BY <1>1, <1>2, <1>3, <1>4, <2>2
  <2> QED
    BY <1>3, <2>1, <2>2
<1>5. ASSUME NEW i \in 1..Len(s), s[i].role = "tool"
      PROVE  /\ \E j \in 1..(i - 1) : s[i].answers \in s[j].calls
             /\ \A j \in 1..(i - 1) : s[j].answers # s[i].answers
  <2>1. i \in 1..n /\ \A j \in 1..(i - 1) : j \in 1..n
    BY <1>1, <1>3, <1>5
  <2> QED
    BY <1>1, <1>5, <2>1 DEF CallsMatch, n
<1>6. CallsMatch(s)
  BY <1>4, <1>5 DEF CallsMatch
<1> QED
  BY <1>6 DEF s

(* What validatePending lets through keeps calls and results in order.     *)
LEMMA PendingMatches ==
  ASSUME NEW prior \in Seq(Message), NEW pending \in Seq(Message),
         CallsMatch(prior), ValidPending(pending, prior), OnlyAssistantsCall(pending),
         NoCall \notin CallIds
  PROVE  CallsMatch(prior \o pending)
<1> DEFINE s == prior \o pending
           n == Len(prior)
           k == Len(pending)
<1>1. /\ n \in Nat /\ k \in Nat /\ Len(s) = n + k
      /\ \A i \in 1..Len(s) : s[i] = IF i <= n THEN prior[i] ELSE pending[i - n]
  BY LenProperties, ConcatProperties
<1>2. \A i \in 1..n : prior[i].calls \subseteq CallsMade(prior)
  BY DEF CallsMade
<1>3. \A i \in 1..k : pending[i].role # "assistant" /\ pending[i].calls = {}
  BY <1>1 DEF ValidPending, OnlyAssistantsCall
<1>4. ASSUME NEW i \in 1..k, pending[i].role = "tool"
      PROVE  /\ \E j \in 1..n : pending[i].answers \in prior[j].calls
             /\ \A j \in 1..n : prior[j].answers # pending[i].answers
             /\ \A j \in 1..(i - 1) : pending[j].answers # pending[i].answers
  <2>1. k = 1 /\ pending[1].role = "user" => i = 1
    BY <1>4
  <2>2. /\ pending[i].answers \in CallsMade(prior) \ CallsAnswered(prior)
        /\ \A j \in 1..(i - 1) : pending[j].answers # pending[i].answers
    BY <1>4, <2>1 DEF ValidPending
  <2>3. PICK j \in 1..n : pending[i].answers \in prior[j].calls
    BY <2>2 DEF CallsMade
  <2>4. prior[j].calls \subseteq CallIds
    <3>1. prior[j] \in Message
      BY <2>3, ElementOfSeq
    <3> QED
      BY <3>1 DEF Message
  <2>5. pending[i].answers # NoCall
    BY <2>3, <2>4
  <2> QED
    BY <2>2, <2>3, <2>5 DEF CallsAnswered
<1> HIDE DEF s, n, k
<1>5. \A i \in 1..Len(s) :
        \/ i \in 1..n /\ s[i] = prior[i]
        \/ i > n /\ i - n \in 1..k /\ s[i] = pending[i - n]
  BY <1>1
<1>6. ASSUME NEW i \in 1..Len(s), NEW j \in 1..Len(s), i # j
      PROVE  s[i].calls \cap s[j].calls = {}
  <2>1. CASE i \in 1..n /\ s[i] = prior[i] /\ j \in 1..n /\ s[j] = prior[j]
    BY <1>6, <2>1 DEF CallsMatch, n
  <2>2. CASE s[i].calls = {} \/ s[j].calls = {}
    BY <2>2
  <2> QED
    BY <1>3, <1>5, <2>1, <2>2
<1>7. ASSUME NEW i \in 1..Len(s), s[i].role = "tool"
      PROVE  /\ \E j \in 1..(i - 1) : s[i].answers \in s[j].calls
             /\ \A j \in 1..(i - 1) : s[j].answers # s[i].answers
  <2>1. CASE i \in 1..n /\ s[i] = prior[i]
    <3>1. \A j \in 1..(i - 1) : j \in 1..n /\ s[j] = prior[j]
      BY <1>1, <2>1
    <3> QED
      BY <1>7, <2>1, <3>1 DEF CallsMatch, n
  <2>2. CASE i > n /\ i - n \in 1..k /\ s[i] = pending[i - n]
    <3>1. \A j \in 1..n : j \in 1..(i - 1) /\ s[j] = prior[j]
      BY <1>1, <2>2
    <3>2. \A j \in 1..(i - 1) : (j \in 1..n /\ s[j] = prior[j])
                              \/ (j - n \in 1..((i - n) - 1) /\ s[j] = pending[j - n])
      BY <1>1, <2>2
    <3> DEFINE e == i - n
    <3>3. e \in 1..k /\ pending[e].role = "tool" /\ s[i] = pending[e]
      BY <1>7, <2>2
    <3>4. \A j \in 1..(i - 1) : (j \in 1..n /\ s[j] = prior[j])
                              \/ (j - n \in 1..(e - 1) /\ s[j] = pending[j - n])
      BY <3>2
    <3> HIDE DEF e
    <3>5. /\ \E j \in 1..n : pending[e].answers \in prior[j].calls
          /\ \A j \in 1..n : prior[j].answers # pending[e].answers
          /\ \A j \in 1..(e - 1) : pending[j].answers # pending[e].answers
      BY <1>4, <3>3
    <3>6. \E j \in 1..(i - 1) : s[i].answers \in s[j].calls
      BY <3>1, <3>3, <3>5
    <3>7. \A j \in 1..(i - 1) : s[j].answers # s[i].answers
      BY <3>3, <3>4, <3>5
    <3> QED
      BY <3>6, <3>7
  <2> QED
    BY <1>5, <2>1, <2>2
<1>8. CallsMatch(s)
  BY <1>6, <1>7 DEF CallsMatch
<1> QED
  BY <1>8 DEF s

(* A plan that is carried out has a pending turn that fits what it follows.*)
LEMMA PlanIsValid ==
  ASSUME NEW stored, NEW request, NEW affinity,
         NEW plan, plan = PlanContextSync(stored, request, affinity), plan # PlanningError
  PROVE  ValidPending(plan.pending, IF Rebuilds(plan) THEN plan.history ELSE stored.messages)
<1> DEFINE pending == PendingTurn(request.messages)
           history == IF request.mode = "full" \/ stored = NoStored
                      THEN RequestHistory(request.messages) ELSE ConfirmedPrefix(stored)
<1>1. CASE stored = NoStored
  <2>1. /\ plan = [mode |-> "FRESH", history |-> history, pending |-> pending]
        /\ ValidPending(pending, history)
    BY <1>1, PlanContextSync(stored, request, affinity) = plan DEF PlanContextSync, Planned
  <2> HIDE DEF pending, history
  <2> QED
    BY <2>1 DEF Rebuilds
<1>2. CASE stored # NoStored /\ MustRebuild(stored, request)
  <2>1. /\ plan = [mode |-> "REBUILD", history |-> history, pending |-> pending]
        /\ ValidPending(pending, history)
    BY <1>2, PlanContextSync(stored, request, affinity) = plan DEF PlanContextSync, Planned
  <2> HIDE DEF pending, history
  <2> QED
    BY <2>1 DEF Rebuilds
<1>3. CASE stored # NoStored /\ ~MustRebuild(stored, request)
  <2>1. /\ plan = [mode |-> IF affinity THEN "APPEND" ELSE "RESTORE",
                   history |-> <<>>, pending |-> pending]
        /\ ValidPending(pending, stored.messages)
    BY <1>3, PlanContextSync(stored, request, affinity) = plan DEF PlanContextSync, Planned
  <2> HIDE DEF pending
  <2> QED
    BY <2>1 DEF Rebuilds
<1> QED
  BY <1>1, <1>2, <1>3

(* An incremental request is its pending turn.                             *)
LEMMA IncrementalHasNoHistory ==
  ASSUME NEW m \in Seq(Message), ValidTranscript(m), RequestMode(m) # "full"
  PROVE  RequestHistory(m) = <<>>
<1>1. /\ m # <<>> /\ Len(m) \in Nat \ {0}
      /\ m[Len(m)].role \in {"user", "tool"}
  BY EmptySeq, LenProperties DEF ValidTranscript
<1>2. PendingStart(m) \in 1..Len(m)
  BY <1>1, PendingStartRange
<1>3. PendingStart(m) = 1
  <2>1. CASE Len(m) = 1
    BY <1>2, <2>1
  <2>2. CASE ToolOnly(m)
    <3>1. ToolTail(m) = 1..Len(m) /\ m[Len(m)].role = "tool"
      BY <1>1, <2>2 DEF ToolOnly, ToolTail
    <3>2. Cardinality(1..Len(m)) = Len(m)
      BY <1>1, FS_Interval
    <3>3. PendingStart(m) = Len(m) + 1 - Len(m)
      BY <3>1, <3>2 DEF PendingStart
    <3> QED
      BY <1>1, <3>3
  <2> QED
    BY <2>1, <2>2 DEF RequestMode
<1>4. RequestHistory(m) \in Seq(Message) /\ Len(RequestHistory(m)) = 0
  <2>1. /\ RequestHistory(m) \in Seq(Message)
        /\ Len(PendingTurn(m)) = Len(m) + 1 - PendingStart(m)
        /\ PendingTurn(m) \in Seq(Message)
        /\ RequestHistory(m) \o PendingTurn(m) = m
    BY <1>1, RequestSplit
  <2>2. Len(m) = Len(RequestHistory(m)) + Len(PendingTurn(m)) /\ Len(RequestHistory(m)) \in Nat
    BY <2>1, ConcatProperties, LenProperties
  <2> QED
    BY <1>1, <1>3, <2>1, <2>2
<1> QED
  BY <1>4, EmptySeq

(* Whatever the plan, the transcript a turn is meant to leave behind keeps *)
(* calls and results in order: each result follows its call, once.         *)
LEMMA AuthoritativeMatches ==
  ASSUME NEW stored, NEW context, NEW affinity, NEW m \in Seq(Message),
         ValidTranscript(m), OnlyAssistantsCall(m), NoCall \notin CallIds,
         LoadedConversation(stored),
         stored # NoStored => CallsMatch(stored.messages),
         NEW plan, plan = PlanContextSync(stored, CanonicalRequest(context, m), affinity),
         plan # PlanningError
  PROVE  CallsMatch(AuthoritativeMessages(stored, CanonicalRequest(context, m), plan))
<1> DEFINE request == CanonicalRequest(context, m)
           pending == PendingTurn(m)
           n == Len(m)
<1>1. /\ request.messages = m /\ request.mode = RequestMode(m)
      /\ request.mode \in {"incremental", "full"}
  BY DEF CanonicalRequest, RequestMode
<1>2. /\ n \in Nat \ {0} /\ m # <<>> /\ m[n].role \in {"user", "tool"}
      /\ PlannableRequest(request)
  BY <1>1, EmptySeq, LenProperties DEF ValidTranscript, PlannableRequest
<1>3. /\ pending \in Seq(Message) /\ RequestHistory(m) \in Seq(Message)
      /\ Len(pending) = n + 1 - PendingStart(m) /\ PendingStart(m) \in 1..n
      /\ RequestHistory(m) \o pending = m
  BY <1>2, RequestSplit, PendingStartRange
<1> HIDE DEF request
<1>4. /\ plan \in Plan /\ plan.pending = pending
      /\ Rebuilds(plan) =>
           plan.history = IF request.mode = "full" \/ stored = NoStored
                          THEN RequestHistory(m) ELSE ConfirmedPrefix(stored)
      /\ ~Rebuilds(plan) => stored # NoStored /\ ~MustRebuild(stored, request)
  BY <1>1, <1>2, PlanShape DEF request
<1>5. ValidPending(pending, IF Rebuilds(plan) THEN plan.history ELSE stored.messages)
  BY <1>4, PlanIsValid DEF request
<1>6. OnlyAssistantsCall(pending)
  <2>1. \A i \in 1..Len(pending) :
          i + (PendingStart(m) - 1) \in 1..n /\ pending[i] = m[i + (PendingStart(m) - 1)]
    <3> DEFINE p == PendingStart(m)
    <3>1. \A i \in p..n : m[i] \in Message
      BY <1>3, ElementOfSeq
    <3>2. p \in Int /\ n \in Int /\ p \in 1..n
      BY <1>3
    <3>3. \A i \in 1..(n - p + 1) : pending[i] = m[p + i - 1]
      <4> HIDE DEF p, n
      <4>1. \A i \in 1..(n - p + 1) : SubSeq(m, p, n)[i] = m[p + i - 1]
        BY <3>1, <3>2, SubSeqProperties
      <4> QED
        BY <4>1 DEF PendingTurn, p, n
    <3>4. Len(pending) = n + 1 - p
      BY <1>3
    <3> HIDE DEF p, n, pending
    <3>5. \A i \in 1..Len(pending) :
            i \in 1..(n - p + 1) /\ i + (p - 1) = p + i - 1 /\ i + (p - 1) \in 1..n
      BY <3>2, <3>4
    <3>6. \A i \in 1..Len(pending) : i + (p - 1) \in 1..n /\ pending[i] = m[i + (p - 1)]
      BY <3>3, <3>5
    <3> QED
      BY <3>6 DEF p
  <2> QED
    BY <2>1 DEF OnlyAssistantsCall
<1>7. CASE request.mode = "full"
  <2>1. ~ToolOnly(m) /\ CallsMatch(m)
    BY <1>1, <1>7 DEF RequestMode, ValidTranscript, CallsMatch
  <2>2. AuthoritativeMessages(stored, request, plan) = m
    BY <1>3, <1>4, <1>1, <1>7 DEF AuthoritativeMessages
  <2> QED
    BY <2>1, <2>2 DEF request
<1>8. CASE request.mode # "full" /\ stored = NoStored
  <2>1. RequestHistory(m) = <<>>
    BY <1>1, <1>8, IncrementalHasNoHistory
  <2>2. CallsMatch(<<>>)
    BY DEF CallsMatch
  <2>3. Rebuilds(plan) /\ plan.history = <<>>
    BY <1>4, <1>8, <2>1
  <2>4. CallsMatch(<<>> \o pending)
    BY <1>3, <1>5, <1>6, <2>1, <2>2, <2>3, PendingMatches
  <2> QED
    BY <1>4, <2>3, <2>4 DEF AuthoritativeMessages, request
<1>9. CASE request.mode # "full" /\ stored # NoStored
  <2>1. /\ stored.messages \in Seq(Message) /\ stored.synced \in 0..Len(stored.messages)
        /\ ConfirmedPrefix(stored) \in Seq(Message)
        /\ stored.synced = Len(stored.messages) => ConfirmedPrefix(stored) = stored.messages
    BY <1>9, ConfirmedPrefixType DEF LoadedConversation
  <2>2. CallsMatch(ConfirmedPrefix(stored))
    BY <1>9, <2>1, PrefixMatches DEF ConfirmedPrefix
  <2>3. ValidPending(pending, ConfirmedPrefix(stored))
    <3>1. CASE Rebuilds(plan)
      BY <1>4, <1>5, <1>9, <3>1
    <3>2. CASE ~Rebuilds(plan)
      BY <1>4, <1>5, <2>1, <3>2 DEF MustRebuild
    <3> QED
      BY <3>1, <3>2
  <2>4. CallsMatch(ConfirmedPrefix(stored) \o pending)
    BY <1>3, <1>6, <2>1, <2>2, <2>3, PendingMatches
  <2>5. AuthoritativeMessages(stored, request, plan) = ConfirmedPrefix(stored) \o pending
    BY <1>4, <1>9 DEF AuthoritativeMessages
  <2> QED
    BY <2>4, <2>5 DEF request
<1> QED
  BY <1>7, <1>8, <1>9
=============================================================================
