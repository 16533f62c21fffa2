------------------------ MODULE PlannedTurn_proofs -------------------------
(***************************************************************************)
(* What becomes of a request, for logs and transcripts of any length, any  *)
(* messages, attachments, stored checkpoints and contexts.                 *)
(*                                                                         *)
(* The argument: a message and its fingerprint agree in everything a plan  *)
(* depends on but the body (PrintsType), so the plan made of fingerprints  *)
(* splits the request where the plan of the messages does (PrintsSplit);   *)
(* and a full request brings the history its pending turn fits (FullFits), *)
(* an incremental one is its pending turn (IncrementalFits).               *)
(* The names of tools in items of Responses have a section of their own.   *)
(*                                                                         *)
(* Then come the attachments.  FlatAt and FlatOnce say where an element of *)
(* a list is when the lists are put one behind the other; so an attachment *)
(* has one number in the request (ResolvedAre), one item, and one place in *)
(* the messages (RequestIs for those of the client, StoredIs for those of  *)
(* the log).  SavedIsFiled and SavedAgain follow them into the records of  *)
(* the saved aggregate and back into the messages that are read from it,   *)
(* NamesAre and NamesDiffer into the uploads and into the prompt.  Last,   *)
(* what a turn leaves is again a log of the kind that was assumed, and a   *)
(* request that repeats it continues its chat.                             *)
(***************************************************************************)
EXTENDS PlannedTurn, ContextPlanner_proofs, WellFoundedInduction

LEMMA NoCallIsNone == NoCall \notin CallIds
  BY PlannedTurnAssumption

-----------------------------------------------------------------------------
(* Fingerprints.                                                           *)
LEMMA PrintType ==
  ASSUME NEW x \in Message
  PROVE  /\ Fingerprint(x) \in Message /\ Fingerprint(x).role = x.role
         /\ Fingerprint(x).calls = x.calls /\ Fingerprint(x).answers = x.answers
<1> DEFINE b == WithoutReferences(x.body)
<1>1. b \in Bodies
  BY PlannedTurnAssumption DEF Message
<1>2. Fingerprint(x) = [x EXCEPT !.body = b]
  BY DEF Fingerprint
<1> HIDE DEF b
<1> QED
  BY <1>1, <1>2 DEF Message

LEMMA PrintsType ==
  ASSUME NEW m \in Seq(Message)
  PROVE  /\ Fingerprints(m) \in Seq(Message) /\ Len(Fingerprints(m)) = Len(m) /\ Len(m) \in Nat
         /\ \A i \in 1..Len(m) :
              /\ Fingerprints(m)[i] = Fingerprint(m[i])
              /\ Fingerprints(m)[i].role = m[i].role
              /\ Fingerprints(m)[i].calls = m[i].calls
              /\ Fingerprints(m)[i].answers = m[i].answers
<1>1. Len(m) \in Nat /\ DOMAIN m = 1..Len(m) /\ \A i \in 1..Len(m) : m[i] \in Message
  BY LenProperties, ElementOfSeq
<1>2. Fingerprints(m) = [i \in 1..Len(m) |-> Fingerprint(m[i])]
  BY <1>1 DEF Fingerprints
<1>3. \A i \in 1..Len(m) :
        /\ Fingerprint(m[i]) \in Message /\ Fingerprint(m[i]).role = m[i].role
        /\ Fingerprint(m[i]).calls = m[i].calls /\ Fingerprint(m[i]).answers = m[i].answers
  BY <1>1, PrintType
<1>4. /\ [i \in 1..Len(m) |-> Fingerprint(m[i])] \in Seq(Message)
      /\ Len([i \in 1..Len(m) |-> Fingerprint(m[i])]) = Len(m)
  BY <1>1, <1>3, IsASeq
<1> QED
  BY <1>1, <1>2, <1>3, <1>4

LEMMA PrintsCat ==
  ASSUME NEW s \in Seq(Message), NEW t \in Seq(Message)
  PROVE  Fingerprints(s \o t) = Fingerprints(s) \o Fingerprints(t)
<1> DEFINE u == s \o t
           w == Fingerprints(u)
           f == Fingerprints(s)
           g == Fingerprints(t)
           v == f \o g
           n == Len(s)
           k == Len(t)
<1>1. /\ u \in Seq(Message) /\ Len(u) = n + k
      /\ \A i \in 1..(n + k) : u[i] = IF i <= n THEN s[i] ELSE t[i - n]
  BY ConcatProperties
<1>2. /\ f \in Seq(Message) /\ Len(f) = n /\ n \in Nat
      /\ g \in Seq(Message) /\ Len(g) = k /\ k \in Nat
      /\ \A i \in 1..n : f[i] = Fingerprint(s[i])
      /\ \A i \in 1..k : g[i] = Fingerprint(t[i])
  BY PrintsType
<1> HIDE DEF u, n, k
<1>3. w \in Seq(Message) /\ Len(w) = n + k /\ \A i \in 1..(n + k) : w[i] = Fingerprint(u[i])
  BY <1>1, PrintsType
<1> HIDE DEF f, g
<1>4. /\ v \in Seq(Message) /\ Len(v) = Len(f) + Len(g)
      /\ \A i \in 1..(Len(f) + Len(g)) : v[i] = IF i <= Len(f) THEN f[i] ELSE g[i - Len(f)]
  BY <1>2, ConcatProperties
<1> HIDE DEF v, w
<1>5. ASSUME NEW i \in 1..(n + k) PROVE w[i] = v[i]
  <2>1. v[i] = IF i <= n THEN f[i] ELSE g[i - n]
    BY <1>2, <1>4
  <2>2. CASE i <= n
    <3>1. i \in 1..n /\ u[i] = s[i]
      BY <1>1, <1>2, <2>2
    <3> QED
      BY <1>2, <1>3, <2>1, <2>2, <3>1
  <2>3. CASE ~(i <= n)
    <3>1. i - n \in 1..k /\ u[i] = t[i - n]
      BY <1>1, <1>2, <2>3
    <3> QED
      BY <1>2, <1>3, <2>1, <2>3, <3>1
  <2> QED
    BY <2>2, <2>3
<1>6. w = v
  <2>1. Len(v) = n + k
    BY <1>2, <1>4
  <2> QED
    BY <1>3, <1>4, <1>5, <2>1, SeqEqual
<1> QED
  BY <1>6 DEF u, v, w, f, g

LEMMA PrintsSub ==
  ASSUME NEW m \in Seq(Message), NEW a \in 1..(Len(m) + 1), NEW b \in 0..Len(m)
  PROVE  Fingerprints(SubSeq(m, a, b)) = SubSeq(Fingerprints(m), a, b)
<1> DEFINE F(x) == Fingerprints(x)
           s == SubSeq(m, a, b)
           t == SubSeq(F(m), a, b)
           k == IF a <= b THEN b - a + 1 ELSE 0
<1>1. /\ F(m) \in Seq(Message) /\ Len(F(m)) = Len(m) /\ Len(m) \in Nat
      /\ \A i \in 1..Len(m) : F(m)[i] = Fingerprint(m[i])
  BY PrintsType
<1>2. /\ a \in Int /\ b \in Int /\ k \in Nat /\ 1..k = 1..(b - a + 1)
      /\ \A i \in a..b : i \in 1..Len(m)
      /\ \A i \in 1..k : a + i - 1 \in 1..Len(m)
  BY <1>1
<1>3. /\ s \in Seq(Message) /\ Len(s) = k /\ \A i \in 1..k : s[i] = m[a + i - 1]
  <2>1. \A i \in a..b : m[i] \in Message
    BY <1>2, ElementOfSeq
  <2>2. /\ s \in Seq(Message) /\ Len(s) = IF a <= b THEN b - a + 1 ELSE 0
        /\ \A i \in 1..(b - a + 1) : s[i] = m[a + i - 1]
    BY <1>2, <2>1, SubSeqProperties
  <2> HIDE DEF s
  <2> QED
    BY <1>2, <2>2
<1> HIDE DEF F
<1>4. /\ t \in Seq(Message) /\ Len(t) = k /\ \A i \in 1..k : t[i] = F(m)[a + i - 1]
  <2>1. \A i \in a..b : F(m)[i] \in Message
    BY <1>1, <1>2, ElementOfSeq
  <2>2. /\ t \in Seq(Message) /\ Len(t) = IF a <= b THEN b - a + 1 ELSE 0
        /\ \A i \in 1..(b - a + 1) : t[i] = F(m)[a + i - 1]
    BY <1>2, <2>1, SubSeqProperties, SMTT(30)
  <2> HIDE DEF t
  <2> QED
    BY <1>2, <2>2
<1> HIDE DEF s, t, k
<1>5. /\ F(s) \in Seq(Message) /\ Len(F(s)) = k /\ \A i \in 1..k : F(s)[i] = Fingerprint(s[i])
  BY <1>3, PrintsType DEF F
<1>6. \A i \in 1..k : F(s)[i] = t[i]
  BY <1>1, <1>2, <1>3, <1>4, <1>5
<1>7. F(s) = t
  BY <1>4, <1>5, <1>6, SeqEqual
<1> QED
  BY <1>7 DEF F, s, t

(* A plan sees the same in fingerprints as in messages.                    *)
LEMMA PrintsCalls ==
  ASSUME NEW m \in Seq(Message)
  PROVE  /\ CallsMade(Fingerprints(m)) = CallsMade(m)
         /\ CallsAnswered(Fingerprints(m)) = CallsAnswered(m)
<1> DEFINE f == Fingerprints(m)
<1>1. /\ Len(f) = Len(m)
      /\ \A i \in 1..Len(m) : f[i].calls = m[i].calls /\ f[i].answers = m[i].answers
  BY PrintsType
<1> HIDE DEF f
<1>2. {f[i].calls : i \in 1..Len(f)} = {m[i].calls : i \in 1..Len(m)}
  BY <1>1
<1>3. {f[i].answers : i \in 1..Len(f)} = {m[i].answers : i \in 1..Len(m)}
  BY <1>1
<1> QED
  BY <1>2, <1>3 DEF CallsMade, CallsAnswered, f

LEMMA PrintsFit ==
  ASSUME NEW pending \in Seq(Message), NEW prior \in Seq(Message)
  PROVE  ValidPending(Fingerprints(pending), Fingerprints(prior)) <=> ValidPending(pending, prior)
<1> DEFINE f == Fingerprints(pending)
<1>1. /\ f \in Seq(Message) /\ Len(f) = Len(pending) /\ Len(pending) \in Nat
      /\ \A i \in 1..Len(pending) : f[i].role = pending[i].role /\ f[i].answers = pending[i].answers
  BY PrintsType
<1>2. f = <<>> <=> pending = <<>>
  BY <1>1, EmptySeq
<1>3. /\ CallsMade(Fingerprints(prior)) = CallsMade(prior)
      /\ CallsAnswered(Fingerprints(prior)) = CallsAnswered(prior)
  BY PrintsCalls
<1> HIDE DEF f
<1>4. \A i \in 1..Len(pending) : \A j \in 1..(i - 1) : j \in 1..Len(pending)
  BY <1>1
<1>5. ValidPending(f, Fingerprints(prior)) <=> ValidPending(pending, prior)
  BY <1>1, <1>2, <1>3, <1>4, SMTT(30) DEF ValidPending
<1> QED
  BY <1>5 DEF f

LEMMA PrintsSplit ==
  ASSUME NEW m \in Seq(Message), m # <<>>, m[Len(m)].role \in {"user", "tool"}
  PROVE  /\ PendingTurn(Fingerprints(m)) = Fingerprints(PendingTurn(m))
         /\ RequestHistory(Fingerprints(m)) = Fingerprints(RequestHistory(m))
         /\ PendingStart(Fingerprints(m)) = PendingStart(m)
         /\ Fingerprints(m) # <<>> /\ Fingerprints(m)[Len(Fingerprints(m))].role \in {"user", "tool"}
<1> DEFINE f == Fingerprints(m)
           p == PendingStart(m)
<1>1. /\ f \in Seq(Message) /\ Len(f) = Len(m) /\ Len(m) \in Nat \ {0}
      /\ \A i \in 1..Len(m) : f[i].role = m[i].role
  BY PrintsType, EmptySeq
<1>2. p \in 1..Len(m)
  BY PendingStartRange
<1> HIDE DEF f
<1>3. ToolTail(f) = ToolTail(m)
  <2>1. \A i \in 1..Len(m) : \A j \in i..Len(m) : j \in 1..Len(m)
    BY <1>1
  <2> QED
    BY <1>1, <2>1 DEF ToolTail
<1>4. Len(m) \in 1..Len(m)
  BY <1>1
<1>5. PendingStart(f) = p /\ f # <<>> /\ f[Len(f)].role \in {"user", "tool"}
  BY <1>1, <1>3, <1>4, EmptySeq DEF PendingStart
<1> HIDE DEF p
<1>6. SubSeq(f, p, Len(m)) = Fingerprints(SubSeq(m, p, Len(m)))
  <2>1. p \in 1..(Len(m) + 1) /\ Len(m) \in 0..Len(m)
    BY <1>1, <1>2
  <2> QED
    BY <2>1, PrintsSub DEF f
<1>7. SubSeq(f, 1, p - 1) = Fingerprints(SubSeq(m, 1, p - 1))
  <2>1. 1 \in 1..(Len(m) + 1) /\ p - 1 \in 0..Len(m)
    BY <1>1, <1>2
  <2> QED
    BY <2>1, PrintsSub DEF f
<1> QED
  BY <1>1, <1>5, <1>6, <1>7 DEF PendingTurn, RequestHistory, p, f

-----------------------------------------------------------------------------
(* Pending turns.                                                          *)
LEMMA LeastExists ==
  ASSUME NEW S \in SUBSET Nat, S # {}
  PROVE  \E x \in S : \A y \in S : x <= y
<1> DEFINE R == OpToRel(<, Nat)
<1>1. IsWellFoundedOn(R, Nat)
  BY NatLessThanWellFounded
<1>2. \A j, k \in Nat : <<j, k>> \in R <=> j < k
  BY DEF OpToRel
<1> HIDE DEF R
<1>3. PICK x \in S : \A y \in S : <<y, x>> \notin R
  BY <1>1, WFMin
<1>4. ASSUME NEW y \in S PROVE x <= y
  <2>1. x \in Nat /\ y \in Nat /\ ~(y < x)
    BY <1>2, <1>3
  <2> QED
    BY <2>1
<1> QED
  BY <1>4

(* A transcript that ends with a result ends with a run of results, and    *)
(* that run is the pending turn.                                           *)
LEMMA ResultsArePending ==
  ASSUME NEW m \in Seq(Message), m # <<>>, m[Len(m)].role = "tool"
  PROVE  \A i \in PendingStart(m)..Len(m) : m[i].role = "tool"
<1> DEFINE n == Len(m)
           T == ToolTail(m)
<1>1. n \in Nat \ {0}
  BY EmptySeq
<1>2. n \in T /\ T \in SUBSET (1..n) /\ T \in SUBSET Nat
  BY <1>1 DEF ToolTail
<1>3. PICK q \in T : \A i \in T : q <= i
  BY <1>2, LeastExists
<1>4. q \in 1..n /\ \A i \in q..n : m[i].role = "tool"
  BY <1>3 DEF ToolTail
<1>5. \A i \in q..n : i \in T
  <2>1. \A i \in q..n : i \in 1..n /\ \A j \in i..n : j \in q..n
    BY <1>1, <1>4
  <2> QED
    BY <1>4, <2>1 DEF ToolTail
<1> HIDE DEF T, n
<1>6. T = q..n
  <2>1. \A i \in T : i \in q..n
    BY <1>1, <1>2, <1>3, <1>4
  <2> QED
    BY <1>5, <2>1
<1>7. q \in Int /\ n \in Int /\ q <= n
  BY <1>1, <1>4
<1>8. Cardinality(q..n) = n - q + 1
  <2>1. Cardinality(q..n) = IF q > n THEN 0 ELSE n - q + 1
    BY <1>7, FS_Interval
  <2> QED
    BY <1>7, <2>1
<1>9. PendingStart(m) = n + 1 - Cardinality(T)
  BY DEF PendingStart, n, T
<1>10. PendingStart(m) = q
  BY <1>6, <1>7, <1>8, <1>9
<1> QED
  BY <1>4, <1>10 DEF n

(* The messages of the two parts of a transcript.                          *)
LEMMA RequestParts ==
  ASSUME NEW m \in Seq(Message), m # <<>>, m[Len(m)].role \in {"user", "tool"}
  PROVE  LET n == Len(m)
             p == PendingStart(m)
         IN  /\ n \in Nat \ {0} /\ p \in 1..n
             /\ Len(RequestHistory(m)) = p - 1
             /\ \A i \in 1..(p - 1) : RequestHistory(m)[i] = m[i]
             /\ Len(PendingTurn(m)) = n + 1 - p
             /\ \A i \in 1..(n + 1 - p) : PendingTurn(m)[i] = m[i + (p - 1)]
<1> DEFINE n == Len(m)
           p == PendingStart(m)
<1>1. n \in Nat \ {0} /\ p \in 1..n
  BY EmptySeq, PendingStartRange
<1>2. \A i \in 1..n : m[i] \in Message
  BY ElementOfSeq
<1> HIDE DEF n, p
<1>3. Len(SubSeq(m, 1, p - 1)) = p - 1 /\ \A i \in 1..(p - 1) : SubSeq(m, 1, p - 1)[i] = m[i]
  <2>1. 1 \in Int /\ p - 1 \in Int /\ \A i \in 1..(p - 1) : m[i] \in Message
    BY <1>1, <1>2
  <2>2. /\ Len(SubSeq(m, 1, p - 1)) = IF 1 <= p - 1 THEN (p - 1) - 1 + 1 ELSE 0
        /\ \A i \in 1..((p - 1) - 1 + 1) : SubSeq(m, 1, p - 1)[i] = m[1 + i - 1]
    BY <2>1, SubSeqProperties
  <2>3. (p - 1) - 1 + 1 = p - 1 /\ \A i \in 1..(p - 1) : 1 + i - 1 = i
    BY <1>1
  <2> QED
    BY <1>1, <2>2, <2>3
<1>4. /\ Len(SubSeq(m, p, n)) = n + 1 - p
      /\ \A i \in 1..(n + 1 - p) : SubSeq(m, p, n)[i] = m[i + (p - 1)]
  <2>1. p \in Int /\ n \in Int /\ \A i \in p..n : m[i] \in Message
    BY <1>1, <1>2
  <2>2. /\ Len(SubSeq(m, p, n)) = IF p <= n THEN n - p + 1 ELSE 0
        /\ \A i \in 1..(n - p + 1) : SubSeq(m, p, n)[i] = m[p + i - 1]
    BY <2>1, SubSeqProperties
  <2>3. n - p + 1 = n + 1 - p /\ p <= n /\ \A i \in 1..(n + 1 - p) : p + i - 1 = i + (p - 1)
    BY <1>1
  <2> QED
    BY <2>2, <2>3
<1> QED
  BY <1>1, <1>3, <1>4 DEF RequestHistory, PendingTurn, n, p

(* A full request brings the calls its results answer.                     *)
LEMMA FullFits ==
  ASSUME NEW m \in Seq(Message), ValidTranscript(m), OnlyAssistantsCall(m), ~ToolOnly(m)
  PROVE  ValidPending(PendingTurn(m), RequestHistory(m))
<1> DEFINE n == Len(m)
           p == PendingStart(m)
           h == RequestHistory(m)
           t == PendingTurn(m)
<1>1. m # <<>> /\ m[n].role \in {"user", "tool"} /\ n \in Nat
  BY EmptySeq, LenProperties DEF ValidTranscript
<1>2. /\ n \in Nat \ {0} /\ p \in 1..n
      /\ Len(h) = p - 1 /\ \A i \in 1..(p - 1) : h[i] = m[i]
      /\ Len(t) = n + 1 - p /\ \A i \in 1..(n + 1 - p) : t[i] = m[i + (p - 1)]
  BY <1>1, RequestParts
<1>3. /\ \A i \in 1..n : m[i].role = "tool" =>
           /\ \A j \in 1..(i - 1) : m[j].answers # m[i].answers
           /\ \E j \in 1..(i - 1) : m[i].answers \in m[j].calls
      /\ \A i \in 1..n : m[i].calls # {} => m[i].role # "tool"
  BY DEF ValidTranscript, OnlyAssistantsCall
<1>4. m[n].role = "user" => p = n
  BY DEF PendingStart
<1>5. m[n].role = "tool" => \A i \in p..n : m[i].role = "tool"
  BY <1>1, ResultsArePending
<1>6. CallsMade(h) = UNION {h[i].calls : i \in 1..Len(h)}
  BY DEF CallsMade
<1>7. CallsAnswered(h) = {h[i].answers : i \in 1..Len(h)} \ {NoCall}
  BY DEF CallsAnswered
<1>8. t # <<>>
  <2> HIDE DEF t, p, n
  <2>1. Len(t) # 0
    BY <1>2
  <2> QED
    BY <2>1
<1> HIDE DEF t, h, p, n
<1>9. CASE m[n].role = "user"
  <2>1. Len(t) = 1 /\ t[1] = m[n]
    BY <1>2, <1>4, <1>9
  <2> QED
    BY <1>9, <2>1 DEF ValidPending, t
<1>10. CASE m[n].role = "tool"
  <2>1. ASSUME NEW i \in 1..Len(t)
        PROVE  /\ t[i].role = "tool"
               /\ t[i].answers \in CallsMade(h) \ CallsAnswered(h)
               /\ \A j \in 1..(i - 1) : t[j].answers # t[i].answers
    <3> DEFINE k == i + (p - 1)
    <3>1. k \in 1..n /\ k \in p..n /\ i \in 1..(n + 1 - p) /\ i \in Nat /\ p \in Nat
      BY <1>2
    <3>2. t[i] = m[k] /\ m[k].role = "tool"
      BY <1>2, <1>5, <1>10, <3>1
    <3>3. \A j \in 1..(i - 1) : t[j] = m[j + (p - 1)] /\ j + (p - 1) \in 1..(k - 1)
      BY <1>2, <3>1
    <3>4. \A j \in 1..(p - 1) : j \in 1..(k - 1) /\ j \in 1..Len(h)
      BY <1>2, <3>1
    <3>5. \A j \in 1..(k - 1) : j \in 1..n /\ (j \in p..n \/ j \in 1..(p - 1))
      BY <1>2, <3>1
    <3>6. \A j \in 1..Len(h) : j \in 1..(p - 1)
      BY <1>2
    <3> HIDE DEF k
    <3>7. PICK j \in 1..(k - 1) : m[k].answers \in m[j].calls
      BY <1>3, <3>1, <3>2
    <3>8. j \in 1..(p - 1)
      BY <1>3, <1>5, <1>10, <3>5, <3>7
    <3>9. m[k].answers \in CallsMade(h)
      BY <1>2, <1>6, <3>4, <3>7, <3>8
    <3>10. m[k].answers \notin CallsAnswered(h)
      <4>1. \A e \in 1..(k - 1) : m[e].answers # m[k].answers
        BY <1>3, <3>1, <3>2
      <4>2. \A e \in 1..Len(h) : h[e].answers # m[k].answers
        BY <1>2, <3>4, <3>6, <4>1
      <4> QED
        BY <1>7, <4>2
    <3>11. \A e \in 1..(i - 1) : t[e].answers # t[i].answers
      BY <1>3, <3>1, <3>2, <3>3
    <3> QED
      BY <3>2, <3>9, <3>10, <3>11
  <2>2. ValidPending(t, h)
    BY <1>8, <2>1 DEF ValidPending
  <2> QED
    BY <2>2 DEF t, h
<1> QED
  BY <1>1, <1>9, <1>10

(* An incremental request is its pending turn, and is refused only for     *)
(* results of calls that are not open.                                     *)
LEMMA IncrementalFits ==
  ASSUME NEW m \in Seq(Message), ValidTranscript(m), ResultsAnswer(m), RequestMode(m) # "full",
         NEW prior \in Seq(Message)
  PROVE  /\ RequestHistory(m) = <<>> /\ PendingTurn(m) = m
         /\ ValidPending(m, prior) <=>
              ~(/\ ToolOnly(m)
                /\ ~(CallsAnswered(m) \subseteq CallsMade(prior) \ CallsAnswered(prior)))
<1> DEFINE n == Len(m)
<1>1. /\ m # <<>> /\ n \in Nat \ {0} /\ m[n].role \in {"user", "tool"}
      /\ \A i \in 1..n : m[i].role = "tool" => \A j \in 1..(i - 1) : m[j].answers # m[i].answers
  BY EmptySeq, LenProperties DEF ValidTranscript
<1>2. RequestHistory(m) = <<>>
  BY IncrementalHasNoHistory
<1>3. PendingTurn(m) = m
  <2>1. PendingTurn(m) \in Seq(Message) /\ <<>> \o PendingTurn(m) = m
    BY <1>1, <1>2, RequestSplit
  <2> QED
    BY <2>1, ConcatEmptySeq
<1>4. n = 1 \/ ToolOnly(m)
  BY DEF RequestMode
<1>5. CASE ~ToolOnly(m)
  <2>1. n = 1 /\ m[1].role = "user"
    BY <1>1, <1>4, <1>5 DEF ToolOnly
  <2> QED
    BY <1>2, <1>3, <1>5, <2>1 DEF ValidPending
<1>6. CASE ToolOnly(m)
  <2>1. \A i \in 1..n : m[i].role = "tool" /\ m[i].answers # NoCall
    BY <1>6 DEF ToolOnly, ResultsAnswer
  <2>2. CallsAnswered(m) = {m[i].answers : i \in 1..n}
    BY <2>1 DEF CallsAnswered
  <2>3. 1 \in 1..n /\ m[1].role # "user"
    BY <1>1, <2>1
  <2>4. ValidPending(m, prior) <=>
          \A i \in 1..n : m[i].answers \in CallsMade(prior) \ CallsAnswered(prior)
    BY <1>1, <2>1, <2>3 DEF ValidPending
  <2>5. ValidPending(m, prior) <=>
          CallsAnswered(m) \subseteq CallsMade(prior) \ CallsAnswered(prior)
    BY <2>2, <2>4
  <2> QED
    BY <1>2, <1>3, <1>6, <2>5
<1> QED
  BY <1>5, <1>6

-----------------------------------------------------------------------------
(* Plans.                                                                  *)

(* The stored Conversations the planner is given.                          *)
Loaded(s) ==
  s # NoStored =>
    /\ s = [context |-> s.context, messages |-> s.messages, url |-> s.url,
            status |-> s.status, synced |-> Len(s.messages)]
    /\ s.messages \in Seq(Message) /\ SoundLog(s.messages)
    /\ s.status \in {"clean", "in_flight"}

ConfirmedIn(s) == IF s = NoStored THEN <<>> ELSE s.messages

LEMMA LoadedType ==
  ASSUME NEW s, Loaded(s)
  PROVE  /\ LoadedConversation(s)
         /\ ConfirmedIn(s) \in Seq(Message)
         /\ SoundLog(ConfirmedIn(s))
         /\ s # NoStored => ConfirmedPrefix(s) = s.messages
<1>1. CASE s = NoStored
  <2>1. <<>> \in Seq(Message) /\ Len(<<>>) = 0
    BY EmptySeq
  <2>2. SoundLog(<<>>)
    BY <2>1 DEF SoundLog
  <2> QED
    BY <1>1, <2>1, <2>2 DEF LoadedConversation, ConfirmedIn
<1>2. CASE s # NoStored
  <2>1. /\ s = [context |-> s.context, messages |-> s.messages, url |-> s.url,
                status |-> s.status, synced |-> Len(s.messages)]
        /\ s.messages \in Seq(Message) /\ SoundLog(s.messages)
    BY <1>2 DEF Loaded
  <2>2. s.synced = Len(s.messages)
    BY <2>1
  <2>3. Len(s.messages) \in 0..Len(s.messages)
    BY <2>1, LenProperties
  <2>4. LoadedConversation(s)
    BY <2>1, <2>2, <2>3 DEF LoadedConversation
  <2> QED
    BY <1>2, <2>1, <2>2, <2>4, ConfirmedPrefixType DEF ConfirmedIn
<1> QED
  BY <1>1, <1>2

LEMMA PlannedIs ==
  ASSUME NEW mode \in PlanModes, NEW h, NEW t, NEW prior
  PROVE  /\ Planned(mode, h, t, prior) = PlanningError <=> ~ValidPending(t, prior)
         /\ Planned(mode, h, t, prior) # PlanningError => Planned(mode, h, t, prior).mode = mode
<1>1. [mode |-> mode, history |-> h, pending |-> t] # PlanningError
  <2>1. [mode |-> mode, history |-> h, pending |-> t].mode # PlanningError.mode
    BY DEF PlanModes, PlanningError
  <2> QED
    BY <2>1
<1> QED
  BY <1>1 DEF Planned

(* A web conversation in step with a full request has seen its history.    *)
LEMMA InStepWithHistory ==
  ASSUME NEW m \in Seq(Message), m # <<>>, m[Len(m)].role \in {"user", "tool"},
         NEW q \in Seq(Message),
         HasPrefix(Fingerprints(m), Fingerprints(q)),
         SubSeq(Fingerprints(m), Len(Fingerprints(q)) + 1, Len(Fingerprints(m)))
           = PendingTurn(Fingerprints(m))
  PROVE  Fingerprints(q) = Fingerprints(RequestHistory(m))
<1> DEFINE a == Fingerprints(m)
           b == Fingerprints(q)
           h == RequestHistory(a)
           t == PendingTurn(a)
           p == PendingStart(a)
<1>1. /\ a \in Seq(Message) /\ b \in Seq(Message)
      /\ a # <<>> /\ a[Len(a)].role \in {"user", "tool"}
      /\ h = Fingerprints(RequestHistory(m))
  BY PrintsType, PrintsSplit
<1>2. a = b \o t
  BY <1>1, PrefixSplit
<1>3. \A i \in 1..Len(b) : a[i] = b[i]
  BY DEF HasPrefix
<1> HIDE DEF a, b
<1>4. /\ Len(a) \in Nat \ {0} /\ p \in 1..Len(a)
      /\ Len(h) = p - 1 /\ \A i \in 1..(p - 1) : h[i] = a[i]
      /\ Len(t) = Len(a) + 1 - p
  BY <1>1, RequestParts
<1>5. h \in Seq(Message) /\ t \in Seq(Message)
  BY <1>1, RequestSplit
<1> HIDE DEF h, t, p
<1>6. Len(a) = Len(b) + Len(t) /\ Len(b) \in Nat
  BY <1>1, <1>2, <1>5, ConcatProperties, LenProperties
<1>7. Len(b) = p - 1
  BY <1>4, <1>6
<1>8. b = h
  <2>1. Len(b) = Len(h) /\ \A i \in 1..Len(b) : b[i] = h[i]
    BY <1>3, <1>4, <1>7
  <2> QED
    BY <1>1, <1>5, <2>1, SeqEqual
<1> QED
  BY <1>1, <1>8 DEF b

(* What a plan is, said with the messages instead of their fingerprints.   *)
LEMMA PlanOf ==
  ASSUME NEW s, Loaded(s), NEW x, Plannable(x), NEW affinity,
         NEW p, p = PlanWithAttachments(s, x, affinity)
  PROVE  /\ p = PlanningError <=>
              x.mode # "full" /\ ~ValidPending(x.messages, ConfirmedIn(s))
         /\ p # PlanningError =>
              /\ p.pending = PendingTurn(x.messages)
              /\ Rebuilds(p) =>
                   p.history = IF x.mode = "full" \/ s = NoStored
                               THEN RequestHistory(x.messages) ELSE s.messages
              /\ ~Rebuilds(p) =>
                   /\ s # NoStored /\ s.status = "clean"
                   /\ x.mode = "full" =>
                        Fingerprints(s.messages) = Fingerprints(RequestHistory(x.messages))
<1> DEFINE m == x.messages
           full == x.mode = "full"
           r == [x EXCEPT !.messages = Fingerprints(m)]
           e == IF s = NoStored THEN NoStored ELSE [s EXCEPT !.messages = Fingerprints(s.messages)]
           q == PlanContextSync(e, r, affinity)
           t == PendingTurn(m)
           h == RequestHistory(m)
           whole == IF full \/ s = NoStored THEN h ELSE s.messages
<1>1. /\ m \in Seq(Message) /\ ValidTranscript(m) /\ OnlyAssistantsCall(m) /\ ResultsAnswer(m)
      /\ x = [context |-> x.context, messages |-> m, mode |-> RequestMode(m)]
  BY DEF Plannable, CanonicalRequest
<1>2. /\ m # <<>> /\ m[Len(m)].role \in {"user", "tool"}
      /\ t \in Seq(Message) /\ h \in Seq(Message)
  BY <1>1, EmptySeq, RequestSplit DEF ValidTranscript
<1>3. r.messages = Fingerprints(m) /\ r.mode = x.mode /\ r.context = x.context
  BY <1>1
<1>4. PendingTurn(Fingerprints(m)) = Fingerprints(t) /\ RequestHistory(Fingerprints(m)) = Fingerprints(h)
  BY <1>1, <1>2, PrintsSplit
<1>5. s # NoStored =>
        /\ s.messages \in Seq(Message) /\ ConfirmedPrefix(s) = s.messages
        /\ e # NoStored /\ e.messages = Fingerprints(s.messages) /\ e.status = s.status
        /\ e.synced = Len(e.messages) /\ e.synced = Len(s.messages)
        /\ s.status \in {"clean", "in_flight"}
        /\ ConfirmedPrefix(e) = e.messages /\ e.messages \in Seq(Message)
  <2> SUFFICES ASSUME s # NoStored
               PROVE  /\ s.messages \in Seq(Message) /\ ConfirmedPrefix(s) = s.messages
                      /\ e # NoStored /\ e.messages = Fingerprints(s.messages)
                      /\ e.status = s.status
                      /\ e.synced = Len(e.messages) /\ e.synced = Len(s.messages)
                      /\ s.status \in {"clean", "in_flight"}
                      /\ ConfirmedPrefix(e) = e.messages /\ e.messages \in Seq(Message)
    OBVIOUS
  <2>1. /\ s = [context |-> s.context, messages |-> s.messages, url |-> s.url,
                status |-> s.status, synced |-> Len(s.messages)]
        /\ s.messages \in Seq(Message) /\ s.status \in {"clean", "in_flight"}
    BY DEF Loaded
  <2>2. /\ Fingerprints(s.messages) \in Seq(Message)
        /\ Len(Fingerprints(s.messages)) = Len(s.messages)
    BY <2>1, PrintsType
  <2>3. e = [s EXCEPT !.messages = Fingerprints(s.messages)]
    OBVIOUS
  <2>4. /\ e.messages = Fingerprints(s.messages) /\ e.status = s.status
        /\ e.synced = Len(s.messages)
    BY <2>1, <2>3
  <2>5. e # NoStored
    <3>1. NoStored.status = "absent"
      BY DEF NoStored
    <3> HIDE DEF e
    <3> QED
      BY <2>1, <2>4, <3>1
  <2> HIDE DEF e
  <2>6. SubSeq(e.messages, 1, Len(e.messages)) = e.messages
    BY <2>2, <2>4, SubSeqFull
  <2> QED
    BY <2>1, <2>2, <2>4, <2>5, <2>6, LoadedType DEF ConfirmedPrefix
<1>6. s = NoStored => e = NoStored
  OBVIOUS
<1> HIDE DEF r, e
<1>7. Fingerprints(whole) = IF r.mode = "full" \/ e = NoStored
                            THEN RequestHistory(r.messages) ELSE ConfirmedPrefix(e)
  BY <1>3, <1>4, <1>5, <1>6
<1>8. whole \in Seq(Message)
  BY <1>2, <1>5
<1> DEFINE keeps == s # NoStored /\ ~MustRebuild(e, r)
           prior == IF keeps THEN s.messages ELSE whole
           mode  == IF s = NoStored THEN "FRESH"
                    ELSE IF ~keeps THEN "REBUILD"
                    ELSE IF affinity THEN "APPEND" ELSE "RESTORE"
           kept  == IF keeps THEN <<>> ELSE Fingerprints(whole)
<1>9. prior \in Seq(Message)
  BY <1>5, <1>8
<1>10. q = Planned(mode, kept, Fingerprints(t), Fingerprints(prior))
  <2> HIDE DEF whole
  <2> QED
    BY <1>3, <1>4, <1>5, <1>6, <1>7 DEF PlanContextSync
<1>11. mode \in PlanModes /\ (mode \in {"FRESH", "REBUILD"} <=> ~keeps)
  BY DEF PlanModes
<1>12. keeps /\ full => Fingerprints(s.messages) = Fingerprints(h)
  <2> SUFFICES ASSUME keeps, full PROVE Fingerprints(s.messages) = Fingerprints(h)
    OBVIOUS
  <2>1. /\ HasPrefix(r.messages, e.messages)
        /\ SubSeq(r.messages, Len(e.messages) + 1, Len(r.messages)) = PendingTurn(r.messages)
    BY <1>3 DEF MustRebuild
  <2>2. r.messages = Fingerprints(m) /\ e.messages = Fingerprints(s.messages)
    BY <1>3, <1>5
  <2>3. /\ HasPrefix(Fingerprints(m), Fingerprints(s.messages))
        /\ SubSeq(Fingerprints(m), Len(Fingerprints(s.messages)) + 1, Len(Fingerprints(m)))
              = PendingTurn(Fingerprints(m))
    BY <2>1, <2>2
  <2>4. s.messages \in Seq(Message)
    BY <1>5
  <2> QED
    BY <1>1, <1>2, <2>3, <2>4, InStepWithHistory
<1>13. keeps => s.status = "clean"
  BY <1>5 DEF MustRebuild
<1> HIDE DEF q
<1>14. ValidPending(Fingerprints(t), Fingerprints(prior)) <=>
         full \/ ValidPending(m, ConfirmedIn(s))
  <2>1. CASE full
    <3>1. ~ToolOnly(m)
      BY <1>1, <2>1 DEF RequestMode
    <3>2. ValidPending(t, h)
      BY <1>1, <3>1, FullFits
    <3>3. ValidPending(Fingerprints(t), Fingerprints(h))
      BY <1>2, <3>2, PrintsFit
    <3>4. Fingerprints(prior) = Fingerprints(h)
      BY <1>12, <2>1
    <3> QED
      BY <2>1, <3>3, <3>4
  <2>2. CASE ~full
    <3>1. h = <<>> /\ t = m
      BY <1>1, <2>2, EmptySeq, IncrementalFits
    <3>2. prior = ConfirmedIn(s)
      BY <2>2, <3>1 DEF ConfirmedIn
    <3> HIDE DEF prior
    <3>3. ValidPending(Fingerprints(t), Fingerprints(prior)) <=> ValidPending(t, prior)
      BY <1>2, <1>9, PrintsFit
    <3> QED
      BY <2>2, <3>1, <3>2, <3>3
  <2> QED
    BY <2>1, <2>2
<1> HIDE DEF prior, kept
<1>15. /\ q = PlanningError <=> ~(full \/ ValidPending(m, ConfirmedIn(s)))
       /\ q # PlanningError => q.mode = mode
  <2> HIDE DEF mode
  <2> QED
    BY <1>10, <1>11, <1>14, PlannedIs
<1>16. p = IF q = PlanningError THEN q
           ELSE [mode    |-> q.mode,
                 history |-> IF ~Rebuilds(q) THEN <<>>
                             ELSE IF full \/ s = NoStored THEN h ELSE ConfirmedPrefix(s),
                 pending |-> t]
  BY DEF PlanWithAttachments, q, e, r
<1> HIDE DEF mode, keeps, t, h, whole
<1>17. ASSUME q # PlanningError
       PROVE  /\ p # PlanningError /\ p.pending = t
              /\ Rebuilds(p) <=> ~keeps
              /\ ~keeps => p.history = IF full \/ s = NoStored THEN h ELSE s.messages
  <2>1. p.mode = mode /\ p.pending = t /\ (Rebuilds(q) <=> ~keeps) /\ (Rebuilds(p) <=> ~keeps)
    BY <1>11, <1>15, <1>16, <1>17 DEF Rebuilds
  <2>2. PlanningError.mode = "ERROR" /\ mode # "ERROR"
    BY <1>11 DEF PlanningError, PlanModes
  <2>3. ~keeps => p.history = IF full \/ s = NoStored THEN h ELSE ConfirmedPrefix(s)
    BY <1>16, <1>17, <2>1
  <2> QED
    BY <1>5, <2>1, <2>2, <2>3
<1>18. keeps => s # NoStored
  BY DEF keeps
<1>19. p = PlanningError <=> q = PlanningError
  BY <1>16, <1>17
<1> QED
  BY <1>12, <1>13, <1>15, <1>17, <1>18, <1>19 DEF t, h

-----------------------------------------------------------------------------
(* The turn.                                                               *)
TurnInv ==
  /\ \E family \in Families : log \in family.logs /\ client \in family.clients
  /\ \/ stored = NoStored
     \/ \E checkpoint \in Checkpoints, url \in Urls :
          stored = StoredAs(checkpoint[1], checkpoint[2], url, log)
  /\ \/ plan = Nothing
     \/ \E affinity \in BOOLEAN : plan = PlanWithAttachments(stored, client.request, affinity)

LEMMA TurnStarts == Init => TurnInv
  BY DEF Init, TurnInv

LEMMA TurnGoesOn == TurnInv /\ [Next]_vars => TurnInv'
<1> SUFFICES ASSUME TurnInv, [Next]_vars PROVE TurnInv'
  OBVIOUS
<1>1. CASE PlanIt
  BY <1>1 DEF PlanIt, TurnInv
<1>2. CASE RunIt
  BY <1>2 DEF RunIt, TurnInv
<1>3. CASE UNCHANGED vars
  BY <1>3 DEF vars, TurnInv
<1> QED
  BY <1>1, <1>2, <1>3 DEF Next

LEMMA TurnIsPlannable ==
  ASSUME TurnInv
  PROVE  Loaded(stored) /\ Plannable(client.request) /\ Confirmed = ConfirmedIn(stored)
<1>1. PICK family \in Families : log \in family.logs /\ client \in family.clients
  BY DEF TurnInv
<1>2. Plannable(client.request)
  BY <1>1, PlannedTurnAssumption
<1>3. StoredMessages(log) \in Seq(Message) /\ SoundLog(StoredMessages(log))
  BY <1>1, PlannedTurnAssumption
<1>4. ASSUME NEW checkpoint \in Checkpoints, NEW url \in Urls,
             stored = StoredAs(checkpoint[1], checkpoint[2], url, log)
      PROVE  Loaded(stored)
  <2> DEFINE ms == StoredMessages(log)
             st == IF ms = <<>> THEN "in_flight" ELSE checkpoint[2]
             ur == IF ms = <<>> THEN NoUrl ELSE url
  <2>1. checkpoint[2] \in {"clean", "in_flight"}
    BY PlannedTurnAssumption
  <2>2. stored = [context |-> checkpoint[1], messages |-> ms, url |-> ur, status |-> st,
                  synced |-> Len(ms)]
    BY <1>4 DEF StoredAs
  <2>3. ms \in Seq(Message) /\ SoundLog(ms) /\ st \in {"clean", "in_flight"}
    BY <1>3, <2>1
  <2> HIDE DEF ms, st, ur
  <2> QED
    BY <2>2, <2>3 DEF Loaded
<1>5. Loaded(stored)
  BY <1>4 DEF TurnInv, Loaded
<1> QED
  BY <1>2, <1>5 DEF Confirmed, ConfirmedIn

(* What the three theorems need of a request that was planned.             *)
LEMMA PlannedRequest ==
  ASSUME TurnInv, plan # Nothing
  PROVE  LET x == client.request
             m == x.messages
         IN  /\ m \in Seq(Message) /\ ValidTranscript(m) /\ m # <<>>
             /\ OnlyAssistantsCall(m) /\ ResultsAnswer(m) /\ x.mode = RequestMode(m)
             /\ RequestHistory(m) \in Seq(Message) /\ PendingTurn(m) \in Seq(Message)
             /\ RequestHistory(m) \o PendingTurn(m) = m
             /\ Confirmed \in Seq(Message) /\ SoundLog(Confirmed)
             /\ x.mode # "full" => RequestHistory(m) = <<>> /\ PendingTurn(m) = m
             /\ plan = PlanningError <=> x.mode # "full" /\ ~ValidPending(m, Confirmed)
             /\ plan # PlanningError =>
                  /\ plan.pending = PendingTurn(m)
                  /\ Rebuilds(plan) =>
                       plan.history = IF x.mode = "full" THEN RequestHistory(m) ELSE Confirmed
                  /\ ~Rebuilds(plan) =>
                       /\ stored # NoStored /\ stored.status = "clean"
                       /\ ConfirmedPrefix(stored) = Confirmed
                       /\ x.mode = "full" =>
                            Fingerprints(Confirmed) = Fingerprints(RequestHistory(m))
<1> DEFINE x == client.request
           m == x.messages
<1>1. Loaded(stored) /\ Plannable(x) /\ Confirmed = ConfirmedIn(stored)
  BY TurnIsPlannable
<1>2. PICK affinity \in BOOLEAN : plan = PlanWithAttachments(stored, x, affinity)
  BY DEF TurnInv
<1>3. /\ m \in Seq(Message) /\ ValidTranscript(m) /\ OnlyAssistantsCall(m) /\ ResultsAnswer(m)
      /\ x.mode = RequestMode(m)
  BY <1>1 DEF Plannable, CanonicalRequest
<1>4. m # <<>> /\ m[Len(m)].role \in {"user", "tool"}
  BY <1>3, EmptySeq DEF ValidTranscript
<1>5. /\ RequestHistory(m) \in Seq(Message) /\ PendingTurn(m) \in Seq(Message)
      /\ RequestHistory(m) \o PendingTurn(m) = m
  BY <1>3, <1>4, RequestSplit
<1>6. Confirmed \in Seq(Message) /\ SoundLog(Confirmed)
  BY <1>1, LoadedType
<1>7. x.mode # "full" => RequestHistory(m) = <<>> /\ PendingTurn(m) = m
  BY <1>3, <1>6, IncrementalFits
<1>8. /\ stored # NoStored => ConfirmedPrefix(stored) = stored.messages
      /\ Confirmed = IF stored = NoStored THEN <<>> ELSE stored.messages
  BY <1>1, LoadedType DEF Confirmed
<1>9. /\ plan = PlanningError <=> x.mode # "full" /\ ~ValidPending(m, ConfirmedIn(stored))
      /\ plan # PlanningError =>
           /\ plan.pending = PendingTurn(m)
           /\ Rebuilds(plan) =>
                plan.history = IF x.mode = "full" \/ stored = NoStored
                               THEN RequestHistory(m) ELSE stored.messages
           /\ ~Rebuilds(plan) =>
                /\ stored # NoStored /\ stored.status = "clean"
                /\ x.mode = "full" =>
                     Fingerprints(stored.messages) = Fingerprints(RequestHistory(m))
  <2> HIDE DEF x
  <2> QED
    BY <1>1, <1>2, PlanOf
<1> HIDE DEF x
<1> QED
  BY <1>1, <1>3, <1>4, <1>5, <1>6, <1>7, <1>8, <1>9 DEF x

LEMMA TurnReaches == TurnInv => PlanReachesTarget
<1> SUFFICES ASSUME TurnInv, Accepted
             PROVE  /\ AuthoritativeMessages(stored, client.request, plan) = Target
                    /\ ContextHistory(stored, client.request, plan) \o plan.pending = Target
                    /\ ~Rebuilds(plan) =>
                         /\ stored.status = "clean"
                         /\ SameMessages(Confirmed \o plan.pending, Target)
  BY DEF PlanReachesTarget
<1> DEFINE x == client.request
           m == x.messages
           h == RequestHistory(m)
           t == PendingTurn(m)
<1>1. /\ m \in Seq(Message)
      /\ h \in Seq(Message) /\ t \in Seq(Message) /\ h \o t = m
      /\ Confirmed \in Seq(Message)
      /\ x.mode # "full" => h = <<>> /\ t = m
      /\ plan.pending = t
      /\ Rebuilds(plan) => plan.history = IF x.mode = "full" THEN h ELSE Confirmed
      /\ ~Rebuilds(plan) =>
           /\ stored.status = "clean" /\ ConfirmedPrefix(stored) = Confirmed
           /\ x.mode = "full" => Fingerprints(Confirmed) = Fingerprints(h)
  BY PlannedRequest DEF Accepted
<1>2. Target = IF x.mode = "full" THEN m ELSE Confirmed \o m
  BY DEF Target
<1>3. SubSeq(m, 1, Len(m) - Len(t)) = h
  <2>1. m # <<>> /\ m[Len(m)].role \in {"user", "tool"}
    BY PlannedRequest DEF Accepted, ValidTranscript
  <2>2. /\ Len(m) \in Nat /\ PendingStart(m) \in 1..Len(m)
        /\ Len(t) = Len(m) + 1 - PendingStart(m)
    BY <1>1, <2>1, RequestParts
  <2> HIDE DEF m, t
  <2>3. Len(m) - Len(t) = PendingStart(m) - 1
    BY <2>2
  <2> QED
    BY <2>3 DEF RequestHistory
<1>4. Fingerprints(h \o t) = Fingerprints(h) \o Fingerprints(t)
  <2> HIDE DEF h, t
  <2> QED
    BY <1>1, PrintsCat
<1>5. Fingerprints(Confirmed \o t) = Fingerprints(Confirmed) \o Fingerprints(t)
  <2> HIDE DEF t
  <2> QED
    BY <1>1, PrintsCat
<1>6. AuthoritativeMessages(stored, x, plan)
        = IF Rebuilds(plan) THEN plan.history \o plan.pending
          ELSE IF x.mode = "full" THEN m ELSE ConfirmedPrefix(stored) \o plan.pending
  BY DEF AuthoritativeMessages
<1>7. ContextHistory(stored, x, plan)
        = IF Rebuilds(plan) THEN plan.history
          ELSE IF x.mode = "full" THEN SubSeq(m, 1, Len(m) - Len(plan.pending))
          ELSE ConfirmedPrefix(stored)
  BY DEF ContextHistory
<1> HIDE DEF h, t, m
<1>8. AuthoritativeMessages(stored, x, plan) = Target
  BY <1>1, <1>2, <1>6
<1>9. ContextHistory(stored, x, plan) \o plan.pending = Target
  BY <1>1, <1>2, <1>3, <1>7
<1>10. ~Rebuilds(plan) => SameMessages(Confirmed \o plan.pending, Target)
  BY <1>1, <1>2, <1>4, <1>5 DEF SameMessages
<1> QED
  BY <1>1, <1>8, <1>9, <1>10

LEMMA TurnIsSound == TurnInv => TargetIsSound
<1> SUFFICES ASSUME TurnInv, Accepted
             PROVE  SoundLog(AuthoritativeMessages(stored, client.request, plan))
  BY DEF TargetIsSound
<1> DEFINE x == client.request
           m == x.messages
<1>1. /\ m \in Seq(Message) /\ ValidTranscript(m) /\ OnlyAssistantsCall(m)
      /\ x.mode = RequestMode(m)
      /\ Confirmed \in Seq(Message) /\ SoundLog(Confirmed)
      /\ x.mode # "full" => ValidPending(m, Confirmed)
  BY PlannedRequest DEF Accepted
<1>2. AuthoritativeMessages(stored, x, plan) = IF x.mode = "full" THEN m ELSE Confirmed \o m
  BY TurnReaches DEF PlanReachesTarget, Target
<1>3. CASE x.mode = "full"
  <2>1. ~ToolOnly(m)
    BY <1>1, <1>3 DEF RequestMode
  <2>2. SoundLog(m)
    BY <1>1, <2>1 DEF ValidTranscript, SoundLog
  <2> QED
    BY <1>2, <1>3, <2>2
<1>4. CASE x.mode # "full"
  <2>1. CallsMatch(Confirmed)
    BY <1>1 DEF SoundLog, CallsMatch
  <2>2. CallsMatch(Confirmed \o m)
    <3> HIDE DEF m
    <3> QED
      BY <1>1, <1>4, <2>1, NoCallIsNone, PendingMatches
  <2>3. SoundLog(Confirmed \o m)
    BY <2>2 DEF SoundLog, CallsMatch
  <2> QED
    BY <1>2, <1>4, <2>3
<1> QED
  BY <1>3, <1>4

LEMMA TurnRefuses == TurnInv => RefusesOnlyForeignResults
<1> DEFINE x == client.request
           m == x.messages
<1> SUFFICES ASSUME TurnInv, plan # Nothing
             PROVE  plan = PlanningError <=>
                      /\ ToolOnly(m)
                      /\ ~(CallsAnswered(m) \subseteq CallsMade(Confirmed) \ CallsAnswered(Confirmed))
  BY DEF RefusesOnlyForeignResults
<1>1. /\ m \in Seq(Message) /\ ValidTranscript(m) /\ ResultsAnswer(m)
      /\ x.mode = RequestMode(m) /\ Confirmed \in Seq(Message)
      /\ plan = PlanningError <=> x.mode # "full" /\ ~ValidPending(m, Confirmed)
  BY PlannedRequest
<1>2. ToolOnly(m) => x.mode # "full"
  BY <1>1 DEF RequestMode
<1>3. x.mode # "full" =>
        (ValidPending(m, Confirmed) <=>
           ~(/\ ToolOnly(m)
             /\ ~(CallsAnswered(m) \subseteq CallsMade(Confirmed) \ CallsAnswered(Confirmed))))
  <2> HIDE DEF m
  <2> QED
    BY <1>1, IncrementalFits
<1> HIDE DEF m, x
<1> QED
  BY <1>1, <1>2, <1>3

(* Every plan aims at the target, by whatever way the prompt gets there,   *)
(* and only a clean chat in step with the request is continued.            *)
THEOREM PlansReachTheirTarget == Spec => []PlanReachesTarget
  BY TurnStarts, TurnGoesOn, TurnReaches, PTL DEF Spec

(* What is going to be saved keeps calls and results in order.             *)
THEOREM TargetsAreSound == Spec => []TargetIsSound
  BY TurnStarts, TurnGoesOn, TurnIsSound, PTL DEF Spec

(* Nothing but results of calls that are not open is refused.              *)
THEOREM OnlyForeignResultsRefused == Spec => []RefusesOnlyForeignResults
  BY TurnStarts, TurnGoesOn, TurnRefuses, PTL DEF Spec

-----------------------------------------------------------------------------
(* Names of tools, over any alphabet.                                      *)

LEMMA SubSeqIs ==
  ASSUME NEW S, NEW v \in Seq(S), NEW a \in 1..(Len(v) + 1), NEW b \in (a - 1)..Len(v)
  PROVE  /\ SubSeq(v, a, b) \in Seq(S) /\ Len(SubSeq(v, a, b)) = b - a + 1
         /\ \A i \in 1..(b - a + 1) : SubSeq(v, a, b)[i] = v[a + i - 1]
<1>1. Len(v) \in Nat
  BY LenProperties
<1>2. a \in Int /\ b \in Int /\ \A i \in a..b : i \in 1..Len(v)
  BY <1>1
<1>3. \A i \in a..b : v[i] \in S
  BY <1>2, ElementOfSeq
<1>4. /\ SubSeq(v, a, b) \in Seq(S)
      /\ Len(SubSeq(v, a, b)) = IF a <= b THEN b - a + 1 ELSE 0
      /\ \A i \in 1..(b - a + 1) : SubSeq(v, a, b)[i] = v[a + i - 1]
  BY <1>2, <1>3, SubSeqProperties
<1>5. (IF a <= b THEN b - a + 1 ELSE 0) = b - a + 1
  BY <1>1
<1> QED
  BY <1>4, <1>5

(* Where separators are.                                                   *)
LEMMA SeparatorAt ==
  ASSUME NEW S, NEW v \in Seq(S), ":" \in S
  PROVE  \A i : i \in SeparatorsIn(v) <=> i \in 1..(Len(v) - 1) /\ v[i] = ":" /\ v[i + 1] = ":"
<1>1. Len(v) \in Nat
  BY LenProperties
<1>2. ASSUME NEW i \in 1..(Len(v) - 1)
      PROVE  SubSeq(v, i, i + 1) = Separator <=> v[i] = ":" /\ v[i + 1] = ":"
  <2> DEFINE s == SubSeq(v, i, i + 1)
  <2>1. i \in 1..(Len(v) + 1) /\ i + 1 \in (i - 1)..Len(v) /\ i + 1 - i + 1 = 2
    BY <1>1
  <2>2. /\ s \in Seq(S) /\ Len(s) = i + 1 - i + 1
        /\ \A j \in 1..(i + 1 - i + 1) : s[j] = v[i + j - 1]
    BY <2>1, SubSeqIs
  <2>3. i + 1 - 1 = i /\ i + 2 - 1 = i + 1 /\ 1 \in 1..2 /\ 2 \in 1..2 /\ \A j \in 1..2 : j = 1 \/ j = 2
    OBVIOUS
  <2> HIDE DEF s
  <2>4. Len(s) = 2 /\ s[1] = v[i] /\ s[2] = v[i + 1]
    BY <2>1, <2>2, <2>3
  <2>5. /\ <<":", ":">> \in Seq(S) /\ Len(<<":", ":">>) = 2
        /\ <<":", ":">>[1] = ":" /\ <<":", ":">>[2] = ":"
    OBVIOUS
  <2>6. s = <<":", ":">> => v[i] = ":" /\ v[i + 1] = ":"
    BY <2>4, <2>5
  <2>7. ASSUME v[i] = ":", v[i + 1] = ":" PROVE s = <<":", ":">>
    <3>1. \A j \in 1..Len(s) : s[j] = <<":", ":">>[j]
      BY <2>3, <2>4, <2>5, <2>7
    <3> QED
      BY <2>2, <2>4, <2>5, <3>1, SeqEqual
  <2> QED
    BY <2>6, <2>7 DEF Separator, s
<1> QED
  BY <1>2 DEF SeparatorsIn

(* A sequence falls apart at any place into what can be put together again. *)
LEMMA CutInTwo ==
  ASSUME NEW S, NEW v \in Seq(S), NEW k \in 0..Len(v)
  PROVE  v = SubSeq(v, 1, k) \o SubSeq(v, k + 1, Len(v))
<1>1. Len(v) \in Nat
  BY LenProperties
<1>2. 1 \in 1..(Len(v) + 1) /\ k \in (1 - 1)..Len(v) /\ Len(v) \in k..Len(v)
  BY <1>1
<1>3. SubSeq(v, 1, k) \o SubSeq(v, k + 1, Len(v)) = SubSeq(v, 1, Len(v))
  BY <1>2, ConcatAdjacentSubSeq
<1> QED
  BY <1>3, SubSeqFull

LEMMA PutTogether ==
  ASSUME NEW S, NEW s \in Seq(S), NEW t \in Seq(S)
  PROVE  /\ SubSeq(s \o t, 1, Len(s)) = s
         /\ SubSeq(s \o t, Len(s) + 1, Len(s \o t)) = t
<1> DEFINE v == s \o t
           n == Len(s)
           k == Len(t)
<1>1. /\ v \in Seq(S) /\ Len(v) = n + k /\ n \in Nat /\ k \in Nat
      /\ \A i \in 1..(n + k) : v[i] = IF i <= n THEN s[i] ELSE t[i - n]
  BY ConcatProperties, LenProperties
<1> HIDE DEF v, n, k
<1>2. SubSeq(v, 1, n) = s
  <2> DEFINE a == SubSeq(v, 1, n)
  <2>1. 1 \in 1..(Len(v) + 1) /\ n \in (1 - 1)..Len(v) /\ n - 1 + 1 = n
    BY <1>1
  <2>2. a \in Seq(S) /\ Len(a) = n /\ \A i \in 1..n : a[i] = v[1 + i - 1]
    BY <1>1, <2>1, SubSeqIs
  <2>3. \A i \in 1..n : 1 + i - 1 = i /\ i \in 1..(n + k) /\ i <= n
    BY <1>1
  <2> HIDE DEF a
  <2>4. \A i \in 1..n : a[i] = s[i]
    BY <1>1, <2>2, <2>3
  <2>5. a = s
    BY <2>2, <2>4, SeqEqual DEF n
  <2> QED
    BY <2>5 DEF a
<1>3. SubSeq(v, n + 1, n + k) = t
  <2> DEFINE a == SubSeq(v, n + 1, n + k)
  <2>1. n + 1 \in 1..(Len(v) + 1) /\ n + k \in (n + 1 - 1)..Len(v) /\ n + k - (n + 1) + 1 = k
    BY <1>1
  <2>2. a \in Seq(S) /\ Len(a) = k /\ \A i \in 1..k : a[i] = v[n + 1 + i - 1]
    BY <1>1, <2>1, SubSeqIs
  <2>3. \A i \in 1..k : n + 1 + i - 1 = n + i /\ n + i \in 1..(n + k) /\ ~(n + i <= n) /\ n + i - n = i
    BY <1>1
  <2> HIDE DEF a
  <2>4. \A i \in 1..k : a[i] = t[i]
    BY <1>1, <2>2, <2>3
  <2>5. a = t
    BY <2>2, <2>4, SeqEqual DEF k
  <2> QED
    BY <2>5 DEF a
<1> QED
  BY <1>1, <1>2, <1>3 DEF v, n

(* What a name without its marker is taken for is written as that name.    *)
LEMMA UnqualifiedIs ==
  ASSUME NEW S, NEW v \in Seq(S), ":" \in S, NEW kind
  PROVE  LET tool == Unqualified(kind, v)
         IN  /\ tool.kind = kind
             /\ Qualified(tool.namespace, tool.name) = v
<1> DEFINE first == CHOOSE i \in SeparatorsIn(v) : \A j \in SeparatorsIn(v) : i <= j
           splits == SeparatorsIn(v) # {} /\ first > 1 /\ first + 1 < Len(v)
<1>1. Len(v) \in Nat
  BY LenProperties
<1>2. Unqualified(kind, v)
        = IF splits THEN Tool(kind, SubSeq(v, 1, first - 1), SubSeq(v, first + 2, Len(v)))
          ELSE Tool(kind, NoNamespace, v)
  BY DEF Unqualified
<1>3. CASE ~splits
  <2>1. Unqualified(kind, v) = [kind |-> kind, namespace |-> NoNamespace, name |-> v]
    BY <1>2, <1>3 DEF Tool
  <2> QED
    BY <2>1 DEF Qualified
<1>4. CASE splits
  <2>1. SeparatorsIn(v) \in SUBSET Nat
    BY <1>1 DEF SeparatorsIn
  <2>2. first \in SeparatorsIn(v)
    BY <1>4, <2>1, LeastExists
  <2>3. /\ first \in 1..(Len(v) - 1) /\ SubSeq(v, first, first + 1) = Separator
        /\ first > 1 /\ first + 1 < Len(v)
    BY <1>4, <2>2 DEF SeparatorsIn
  <2> HIDE DEF first
  <2> DEFINE ns == SubSeq(v, 1, first - 1)
             nm == SubSeq(v, first + 2, Len(v))
  <2>4. /\ 1 \in 1..(Len(v) + 1) /\ first - 1 \in (1 - 1)..Len(v) /\ first - 1 - 1 + 1 = first - 1
        /\ first + 1 \in (first - 1)..Len(v) /\ first - 1 + 1 = first
        /\ first + 1 + 1 = first + 2 /\ first + 1 \in 0..Len(v) /\ first + 1 \in (1 - 1)..Len(v)
    BY <1>1, <2>3
  <2>5. ns \in Seq(S) /\ Len(ns) = first - 1
    BY <2>4, SubSeqIs
  <2>6. ns # NoNamespace
    <3> HIDE DEF ns
    <3>1. Len(ns) # 0
      BY <2>3, <2>5
    <3> QED
      BY <3>1 DEF NoNamespace
  <2>7. ns \o Separator = SubSeq(v, 1, first + 1)
    <3>1. SubSeq(v, 1, first - 1) \o SubSeq(v, first - 1 + 1, first + 1) = SubSeq(v, 1, first + 1)
      BY <2>4, ConcatAdjacentSubSeq
    <3> QED
      BY <2>3, <2>4, <3>1
  <2>8. SubSeq(v, 1, first + 1) \o nm = v
    BY <2>4, CutInTwo
  <2> HIDE DEF ns, nm
  <2>9. Unqualified(kind, v) = [kind |-> kind, namespace |-> ns, name |-> nm]
    BY <1>2, <1>4 DEF Tool, ns, nm
  <2>10. (ns \o Separator) \o nm = v
    BY <2>7, <2>8
  <2> QED
    BY <2>6, <2>9, <2>10 DEF Qualified
<1> QED
  BY <1>3, <1>4

LEMMA PrefixIs ==
  ASSUME NEW S, NEW v \in Seq(S), {":", "P"} \subseteq S, IsPrefix(CustomPrefix, v)
  PROVE  /\ SubSeq(v, Len(CustomPrefix) + 1, Len(v)) \in Seq(S)
         /\ v = CustomPrefix \o SubSeq(v, Len(CustomPrefix) + 1, Len(v))
<1>1. /\ CustomPrefix \in Seq(S) /\ Len(CustomPrefix) = 3 /\ Len(v) \in Nat
  BY LenProperties DEF CustomPrefix, Separator
<1> HIDE DEF CustomPrefix
<1>2. Len(v) >= 3 /\ SubSeq(v, 1, 3) = CustomPrefix
  <2>1. SubSeq(CustomPrefix, 1, Len(CustomPrefix)) = CustomPrefix
    BY <1>1, SubSeqFull
  <2> QED
    BY <1>1, <2>1 DEF IsPrefix
<1>3. 3 \in 0..Len(v) /\ 3 + 1 \in 1..(Len(v) + 1) /\ Len(v) \in (3 + 1 - 1)..Len(v)
  BY <1>1, <1>2
<1>4. SubSeq(v, 3 + 1, Len(v)) \in Seq(S)
  BY <1>3, SubSeqIs
<1>5. v = SubSeq(v, 1, 3) \o SubSeq(v, 3 + 1, Len(v))
  BY <1>3, CutInTwo
<1> QED
  BY <1>1, <1>2, <1>4, <1>5

(* Whatever name ChatGPT calls a tool by: the item a Responses client is   *)
(* sent, and sends back, stands for that very name.                        *)
THEOREM CalledNamesComeBack ==
  ASSUME NEW S, {":", "P"} \subseteq S, NEW value \in Seq(S)
  PROVE  EncodeToolName(DecodeToolName(value)) = value
<1> DEFINE rest == SubSeq(value, Len(CustomPrefix) + 1, Len(value))
<1>1. CASE IsPrefix(CustomPrefix, value)
  <2>1. DecodeToolName(value) = Unqualified("custom", rest)
    BY <1>1 DEF DecodeToolName
  <2>2. rest \in Seq(S) /\ value = CustomPrefix \o rest
    BY <1>1, PrefixIs
  <2> HIDE DEF rest
  <2> DEFINE tool == Unqualified("custom", rest)
  <2>3. tool.kind = "custom" /\ Qualified(tool.namespace, tool.name) = rest
    BY <2>2, UnqualifiedIs
  <2> HIDE DEF tool
  <2>4. EncodeToolName(tool) = CustomPrefix \o rest
    BY <2>3 DEF EncodeToolName
  <2> QED
    BY <2>1, <2>2, <2>4 DEF tool
<1>2. CASE ~IsPrefix(CustomPrefix, value)
  <2> DEFINE tool == Unqualified("function", value)
  <2>1. DecodeToolName(value) = tool
    BY <1>2 DEF DecodeToolName
  <2>2. tool.kind = "function" /\ Qualified(tool.namespace, tool.name) = value
    BY UnqualifiedIs
  <2> HIDE DEF tool
  <2>3. EncodeToolName(tool) = value
    BY <2>2 DEF EncodeToolName
  <2> QED
    BY <2>1, <2>3
<1> QED
  BY <1>1, <1>2

(* Names that can be told from their namespace: no separator is in the     *)
(* namespace or reaches into the one behind it, or in a name without one.  *)
Separable(namespace, name) ==
  IF namespace = NoNamespace THEN SeparatorsIn(name) = {}
  ELSE SeparatorsIn(namespace \o <<":">>) = {}

LEMMA SplitsWhereJoined ==
  ASSUME NEW S, ":" \in S, NEW namespace \in Seq(S), NEW name \in Seq(S), name # <<>>,
         Separable(namespace, name), NEW kind
  PROVE  Unqualified(kind, Qualified(namespace, name)) = Tool(kind, namespace, name)
<1>1. CASE namespace = NoNamespace
  BY <1>1 DEF Separable, Qualified, Unqualified
<1>2. CASE namespace # NoNamespace
  <2> DEFINE head == namespace \o Separator
             v == head \o name
             short == namespace \o <<":">>
             n == Len(namespace)
             k == Len(name)
             first == CHOOSE i \in SeparatorsIn(v) : \A j \in SeparatorsIn(v) : i <= j
  <2>1. n \in Nat \ {0} /\ k \in Nat \ {0}
    BY <1>2, EmptySeq DEF NoNamespace
  <2>2. /\ Separator \in Seq(S) /\ Len(Separator) = 2
        /\ Separator[1] = ":" /\ Separator[2] = ":"
        /\ <<":">> \in Seq(S) /\ Len(<<":">>) = 1 /\ <<":">>[1] = ":"
    BY DEF Separator
  <2>3. /\ head \in Seq(S) /\ Len(head) = n + 2
        /\ \A i \in 1..(n + 2) : head[i] = IF i <= n THEN namespace[i] ELSE Separator[i - n]
    <3> HIDE DEF Separator
    <3>1. /\ head \in Seq(S) /\ Len(head) = n + Len(Separator)
          /\ \A i \in 1..(n + Len(Separator)) :
               head[i] = IF i <= n THEN namespace[i] ELSE Separator[i - n]
      BY <2>2, ConcatProperties
    <3> HIDE DEF head, n
    <3> QED
      BY <2>2, <3>1
  <2>4. /\ short \in Seq(S) /\ Len(short) = n + 1
        /\ \A i \in 1..(n + 1) : short[i] = IF i <= n THEN namespace[i] ELSE <<":">>[i - n]
    BY <2>2, ConcatProperties
  <2>5. SubSeq(v, 1, Len(head)) = head /\ SubSeq(v, Len(head) + 1, Len(v)) = name
    BY <2>3, PutTogether
  <2>6. SubSeq(head, 1, n) = namespace
    BY <2>2, PutTogether
  <2> HIDE DEF head, short
  <2>7. /\ v \in Seq(S) /\ Len(v) = Len(head) + k
        /\ \A i \in 1..(Len(head) + k) : v[i] = IF i <= Len(head) THEN head[i] ELSE name[i - Len(head)]
    <3>1. head \in Seq(S)
      BY <2>3
    <3> QED
      BY <3>1, ConcatProperties
  <2> HIDE DEF v, n, k
  <2>8. /\ Len(v) = n + 2 + k
        /\ \A i \in 1..n : v[i] = namespace[i] /\ short[i] = namespace[i]
        /\ short[n + 1] = ":" /\ v[n + 1] = ":" /\ v[n + 2] = ":"
    <3>1. Len(v) = n + 2 + k
      BY <2>3, <2>7
    <3>2. \A i \in 1..(n + 2) : v[i] = head[i]
      BY <2>1, <2>3, <2>7
    <3>3. \A i \in 1..n : head[i] = namespace[i] /\ short[i] = namespace[i]
      BY <2>1, <2>3, <2>4
    <3>4. n + 1 - n = 1 /\ n + 2 - n = 2 /\ ~(n + 1 <= n) /\ ~(n + 2 <= n)
      BY <2>1
    <3>5. short[n + 1] = ":" /\ head[n + 1] = ":" /\ head[n + 2] = ":"
      BY <2>1, <2>2, <2>3, <2>4, <3>4
    <3> QED
      BY <2>1, <3>1, <3>2, <3>3, <3>5
  <2>9. n + 1 \in SeparatorsIn(v)
    <3>1. n + 1 \in 1..(Len(v) - 1) /\ n + 1 + 1 = n + 2
      BY <2>1, <2>8
    <3> QED
      BY <2>7, <2>8, <3>1, SeparatorAt
  <2>10. \A i \in SeparatorsIn(v) : n + 1 <= i
    <3> SUFFICES ASSUME NEW i \in SeparatorsIn(v), ~(n + 1 <= i) PROVE FALSE
      OBVIOUS
    <3>1. i \in 1..(Len(v) - 1) /\ v[i] = ":" /\ v[i + 1] = ":"
      BY <2>7, SeparatorAt
    <3>2. i \in 1..n /\ (i + 1 \in 1..n \/ i + 1 = n + 1) /\ i \in 1..(Len(short) - 1)
      BY <2>1, <2>4, <3>1
    <3>3. short[i] = ":" /\ short[i + 1] = ":"
      BY <2>8, <3>1, <3>2
    <3>4. i \in SeparatorsIn(short)
      BY <2>4, <3>2, <3>3, SeparatorAt
    <3>5. SeparatorsIn(short) = {}
      BY <1>2 DEF Separable, short
    <3> QED
      BY <3>4, <3>5
  <2>11. first = n + 1
    <3>1. SeparatorsIn(v) \in SUBSET Nat
      BY <2>1, <2>8 DEF SeparatorsIn
    <3>2. first \in SeparatorsIn(v) /\ \A j \in SeparatorsIn(v) : first <= j
      BY <2>9, <2>10
    <3> HIDE DEF first
    <3>3. first \in Nat /\ first <= n + 1 /\ n + 1 <= first
      BY <2>9, <2>10, <3>1, <3>2
    <3> QED
      BY <2>1, <3>3
  <2>12. Unqualified(kind, v)
           = IF SeparatorsIn(v) # {} /\ first > 1 /\ first + 1 < Len(v)
             THEN Tool(kind, SubSeq(v, 1, first - 1), SubSeq(v, first + 2, Len(v)))
             ELSE Tool(kind, NoNamespace, v)
    BY DEF Unqualified
  <2> HIDE DEF first
  <2>13. /\ SubSeq(v, 1, first - 1) = namespace
         /\ SubSeq(v, first + 2, Len(v)) = name
         /\ first > 1 /\ first + 1 < Len(v)
    <3>1. first - 1 = n /\ first + 2 = Len(head) + 1 /\ first > 1 /\ first + 1 < Len(v)
      BY <2>1, <2>3, <2>8, <2>11
    <3>2. SubSeq(v, 1, n) = namespace
      <4> DEFINE a == SubSeq(v, 1, n)
      <4>1. 1 \in 1..(Len(v) + 1) /\ n \in (1 - 1)..Len(v) /\ n - 1 + 1 = n
        BY <2>1, <2>8
      <4>2. a \in Seq(S) /\ Len(a) = n /\ \A i \in 1..n : a[i] = v[1 + i - 1]
        BY <2>7, <4>1, SubSeqIs
      <4>3. \A i \in 1..n : 1 + i - 1 = i
        BY <2>1
      <4> HIDE DEF a
      <4>4. a = namespace
        BY <2>8, <4>2, <4>3, SeqEqual DEF n
      <4> QED
        BY <4>4 DEF a
    <3> QED
      BY <2>5, <3>1, <3>2 DEF v
  <2>14. Qualified(namespace, name) = v
    BY <1>2 DEF Qualified, v, head
  <2> QED
    BY <2>9, <2>12, <2>13, <2>14
<1> QED
  BY <1>1, <1>2

(* A tool is called back under the kind, namespace and name it was         *)
(* declared with, unless a function is called like a custom tool.          *)
THEOREM DeclaredToolsComeBack ==
  ASSUME NEW S, {":", "P"} \subseteq S,
         NEW kind \in {"function", "custom"}, NEW namespace \in Seq(S), NEW name \in Seq(S),
         name # <<>>, Separable(namespace, name),
         kind = "function" => ~IsPrefix(CustomPrefix, Qualified(namespace, name))
  PROVE  DecodeToolName(EncodeToolName(Tool(kind, namespace, name))) = Tool(kind, namespace, name)
<1> DEFINE q == Qualified(namespace, name)
<1>1. Unqualified(kind, q) = Tool(kind, namespace, name)
  BY SplitsWhereJoined
<1>2. EncodeToolName(Tool(kind, namespace, name)) = IF kind = "custom" THEN CustomPrefix \o q ELSE q
  BY DEF EncodeToolName, Tool
<1>3. q \in Seq(S)
  <2>1. Separator \in Seq(S)
    BY DEF Separator
  <2>2. (namespace \o Separator) \o name \in Seq(S)
    BY <2>1, ConcatProperties
  <2> QED
    BY <2>2 DEF Qualified
<1> HIDE DEF q
<1>4. CASE kind = "function"
  BY <1>1, <1>2, <1>4 DEF DecodeToolName, q
<1>5. CASE kind = "custom"
  <2> DEFINE v == CustomPrefix \o q
  <2>1. CustomPrefix \in Seq(S)
    BY DEF CustomPrefix, Separator
  <2>2. /\ SubSeq(v, 1, Len(CustomPrefix)) = CustomPrefix
        /\ SubSeq(v, Len(CustomPrefix) + 1, Len(v)) = q
    BY <1>3, <2>1, PutTogether
  <2>3. Len(CustomPrefix) <= Len(v)
    BY <1>3, <2>1, ConcatProperties, LenProperties
  <2>4. SubSeq(CustomPrefix, 1, Len(CustomPrefix)) = CustomPrefix
    BY <2>1, SubSeqFull
  <2> HIDE DEF v
  <2>5. IsPrefix(CustomPrefix, v)
    BY <2>2, <2>3, <2>4 DEF IsPrefix
  <2>6. DecodeToolName(v) = Unqualified("custom", q)
    BY <2>2, <2>5 DEF DecodeToolName
  <2> QED
    BY <1>1, <1>2, <1>5, <2>6 DEF v
<1> QED
  BY <1>4, <1>5

-----------------------------------------------------------------------------
(* Sequences of sequences, one behind the other.                           *)

LEMMA EveryNat ==
  ASSUME NEW S, 0 \in S, \A n \in Nat : n \in S => n + 1 \in S
  PROVE  \A n \in Nat : n \in S
<1> SUFFICES ASSUME NEW m \in Nat, m \notin S PROVE FALSE
  OBVIOUS
<1>1. PICK x \in Nat \ S : \A y \in Nat \ S : x <= y
  <2>1. Nat \ S \in SUBSET Nat /\ Nat \ S # {}
    OBVIOUS
  <2> QED
    BY <2>1, LeastExists
<1>2. x - 1 \in Nat /\ ~(x <= x - 1)
  BY <1>1
<1> QED
  BY <1>1, <1>2

(* Sequences put one behind the other, as far as the n-th.                 *)
Runs(f, ss, n) == f = [i \in 1..n |-> IF i = 1 THEN ss[i] ELSE f[i - 1] \o ss[i]]

LEMMA RunsExist ==
  ASSUME NEW ss, NEW n \in Nat
  PROVE  \E f : Runs(f, ss, n)
<1> DEFINE S == {m \in Nat : \E f : Runs(f, ss, m)}
<1>1. 0 \in S
  <2>1. Runs([i \in 1..0 |-> 0], ss, 0)
    BY DEF Runs
  <2> QED
    BY <2>1
<1>2. ASSUME NEW m \in Nat, m \in S PROVE m + 1 \in S
  <2>1. PICK f : Runs(f, ss, m)
    BY <1>2
  <2> DEFINE g == [i \in 1..(m + 1) |->
                     IF i <= m THEN f[i] ELSE IF i = 1 THEN ss[i] ELSE f[i - 1] \o ss[i]]
  <2>2. \A i \in 1..m : f[i] = IF i = 1 THEN ss[i] ELSE f[i - 1] \o ss[i]
    BY <2>1 DEF Runs
  <2>3. \A i \in 1..(m + 1) : g[i] = IF i = 1 THEN ss[i] ELSE g[i - 1] \o ss[i]
    <3> SUFFICES ASSUME NEW i \in 1..(m + 1) PROVE g[i] = IF i = 1 THEN ss[i] ELSE g[i - 1] \o ss[i]
      OBVIOUS
    <3>1. i # 1 => i - 1 \in 1..(m + 1) /\ i - 1 <= m /\ i - 1 \in 1..m
      OBVIOUS
    <3>2. i # 1 => g[i - 1] = f[i - 1]
      BY <3>1
    <3>3. i <= m => i \in 1..m
      OBVIOUS
    <3> QED
      BY <2>2, <3>2, <3>3
  <2>4. Runs(g, ss, m + 1)
    <3> DEFINE h == [i \in 1..(m + 1) |-> IF i = 1 THEN ss[i] ELSE g[i - 1] \o ss[i]]
    <3>1. DOMAIN g = 1..(m + 1) /\ DOMAIN h = 1..(m + 1)
      OBVIOUS
    <3>2. \A i \in 1..(m + 1) : g[i] = h[i]
      BY <2>3
    <3>3. g = [i \in 1..(m + 1) |-> g[i]] /\ h = [i \in 1..(m + 1) |-> h[i]]
      OBVIOUS
    <3> HIDE DEF g, h
    <3>4. g = h
      BY <3>2, <3>3
    <3> QED
      BY <3>4 DEF h, Runs
  <2> QED
    BY <2>4
<1>3. n \in S
  <2> HIDE DEF S
  <2> QED
    BY <1>1, <1>2, EveryNat
<1> QED
  BY <1>3

LEMMA RunsType ==
  ASSUME NEW V, NEW ss \in Seq(Seq(V)), NEW n \in 0..Len(ss), NEW f, Runs(f, ss, n)
  PROVE  \A i \in 1..n : f[i] \in Seq(V)
<1> DEFINE S == {m \in Nat : m \in 1..n => f[m] \in Seq(V)}
<1>1. 0 \in S
  OBVIOUS
<1>2. ASSUME NEW m \in Nat, m \in S PROVE m + 1 \in S
  <2> SUFFICES ASSUME m + 1 \in 1..n PROVE f[m + 1] \in Seq(V)
    OBVIOUS
  <2>1. m + 1 \in 1..Len(ss) /\ ss[m + 1] \in Seq(V)
    BY ElementOfSeq
  <2>2. f[m + 1] = IF m + 1 = 1 THEN ss[m + 1] ELSE f[(m + 1) - 1] \o ss[m + 1]
    BY DEF Runs
  <2>3. CASE m = 0
    BY <2>1, <2>2, <2>3
  <2>4. CASE m # 0
    <3>1. m \in 1..n /\ (m + 1) - 1 = m
      BY <2>4
    <3> QED
      BY <1>2, <2>1, <2>2, <2>4, <3>1
  <2> QED
    BY <2>3, <2>4
<1>3. \A m \in Nat : m \in S
  <2> HIDE DEF S
  <2> QED
    BY <1>1, <1>2, EveryNat
<1> QED
  BY <1>3

LEMMA RunsAgree ==
  ASSUME NEW ss, NEW tt, NEW n \in Nat, NEW k \in Nat, k <= n,
         \A i \in 1..k : tt[i] = ss[i],
         NEW f, Runs(f, ss, n), NEW g, Runs(g, tt, k)
  PROVE  \A i \in 1..k : g[i] = f[i]
<1> DEFINE S == {m \in Nat : m \in 1..k => g[m] = f[m]}
<1>1. 0 \in S
  OBVIOUS
<1>2. ASSUME NEW m \in Nat, m \in S PROVE m + 1 \in S
  <2> SUFFICES ASSUME m + 1 \in 1..k PROVE g[m + 1] = f[m + 1]
    OBVIOUS
  <2>1. m + 1 \in 1..n /\ (m + 1) - 1 = m
    OBVIOUS
  <2>2. f[m + 1] = IF m + 1 = 1 THEN ss[m + 1] ELSE f[m] \o ss[m + 1]
    BY <2>1 DEF Runs
  <2>3. g[m + 1] = IF m + 1 = 1 THEN tt[m + 1] ELSE g[m] \o tt[m + 1]
    BY <2>1 DEF Runs
  <2>4. m # 0 => m \in 1..k
    OBVIOUS
  <2> QED
    BY <1>2, <2>2, <2>3, <2>4
<1>3. \A m \in Nat : m \in S
  <2> HIDE DEF S
  <2> QED
    BY <1>1, <1>2, EveryNat
<1> QED
  BY <1>3

LEMMA FlatIs ==
  ASSUME NEW V, NEW ss \in Seq(Seq(V)), NEW f, Runs(f, ss, Len(ss))
  PROVE  FlattenSeq(ss) = IF Len(ss) = 0 THEN <<>> ELSE f[Len(ss)]
<1> DEFINE n == Len(ss)
           flatten == CHOOSE g : g = [i \in 1..n |-> IF i = 1 THEN ss[i] ELSE g[i - 1] \o ss[i]]
<1>1. n \in Nat /\ (n = 0 => ss = <<>>)
  BY EmptySeq
<1>2. FlattenSeq(ss) = IF n = 0 THEN ss ELSE flatten[n]
  BY DEF FlattenSeq
<1>3. Runs(flatten, ss, n)
  BY DEF Runs
<1> HIDE DEF n, flatten
<1>4. n # 0 => flatten[n] = f[n]
  <2>1. \A i \in 1..n : flatten[i] = f[i]
    BY <1>1, <1>3, RunsAgree DEF n
  <2> QED
    BY <1>1, <2>1
<1> QED
  BY <1>1, <1>2, <1>4 DEF n

(* The first k of them put together.                                       *)
FlatOf(ss, k) == FlattenSeq(SubSeq(ss, 1, k))

LEMMA FlatSteps ==
  ASSUME NEW V, NEW ss \in Seq(Seq(V))
  PROVE  /\ \A k \in 0..Len(ss) : FlatOf(ss, k) \in Seq(V)
         /\ FlatOf(ss, 0) = <<>>
         /\ \A k \in 1..Len(ss) : FlatOf(ss, k) = FlatOf(ss, k - 1) \o ss[k]
         /\ FlatOf(ss, Len(ss)) = FlattenSeq(ss)
         /\ FlattenSeq(ss) \in Seq(V)
<1> DEFINE N == Len(ss)
           F(k) == FlatOf(ss, k)
<1>1. N \in Nat
  OBVIOUS
<1>2. PICK f : Runs(f, ss, N)
  BY <1>1, RunsExist
<1>3. \A i \in 1..N : f[i] \in Seq(V)
  <2>1. N \in 0..Len(ss)
    BY <1>1
  <2> QED
    BY <1>2, <2>1, RunsType
<1> HIDE DEF N
<1>4. ASSUME NEW k \in 0..N PROVE F(k) = IF k = 0 THEN <<>> ELSE f[k]
  <2> DEFINE tt == SubSeq(ss, 1, k)
  <2>1. tt \in Seq(Seq(V)) /\ Len(tt) = k /\ \A i \in 1..k : tt[i] = ss[i]
    <3>1. 1 \in Int /\ k \in Int /\ \A i \in 1..k : ss[i] \in Seq(V)
      BY <1>1, ElementOfSeq DEF N
    <3>2. /\ tt \in Seq(Seq(V)) /\ Len(tt) = IF 1 <= k THEN k - 1 + 1 ELSE 0
          /\ \A i \in 1..(k - 1 + 1) : tt[i] = ss[1 + i - 1]
      BY <3>1, SubSeqProperties
    <3>3. k - 1 + 1 = k /\ \A i \in 1..k : 1 + i - 1 = i
      OBVIOUS
    <3> HIDE DEF tt
    <3> QED
      BY <1>1, <3>2, <3>3
  <2> HIDE DEF tt
  <2>2. PICK g : Runs(g, tt, k)
    <3>1. k \in Nat
      BY <1>1
    <3> QED
      BY <3>1, RunsExist
  <2>3. \A i \in 1..k : g[i] = f[i]
    <3>1. k \in Nat /\ k <= N
      BY <1>1
    <3>2. \A i \in 1..k : tt[i] = ss[i]
      BY <2>1
    <3> QED
      BY ONLY <1>1, <1>2, <2>2, <3>1, <3>2, RunsAgree
  <2>4. FlattenSeq(tt) = IF k = 0 THEN <<>> ELSE g[k]
    BY <2>1, <2>2, FlatIs
  <2>5. k # 0 => k \in 1..k
    BY <1>1
  <2>6. FlattenSeq(tt) = IF k = 0 THEN <<>> ELSE f[k]
    BY <2>3, <2>4, <2>5
  <2> QED
    BY <2>6 DEF tt, FlatOf
<1> HIDE DEF F
<1>5. \A k \in 1..N : F(k) = F(k - 1) \o ss[k]
  <2> SUFFICES ASSUME NEW k \in 1..N PROVE F(k) = F(k - 1) \o ss[k]
    OBVIOUS
  <2>1. F(k) = f[k] /\ F(k - 1) = IF k - 1 = 0 THEN <<>> ELSE f[k - 1]
    BY <1>1, <1>4
  <2>2. f[k] = IF k = 1 THEN ss[k] ELSE f[k - 1] \o ss[k]
    BY <1>2 DEF Runs
  <2>3. ss[k] \in Seq(V)
    BY ElementOfSeq DEF N
  <2>4. <<>> \o ss[k] = ss[k]
    BY <2>3
  <2>5. CASE k = 1
    <3>1. F(k - 1) = <<>> /\ F(k) = ss[k]
      BY <2>1, <2>2, <2>5
    <3> QED
      BY <2>4, <3>1
  <2>6. CASE k # 1
    <3>1. k - 1 # 0
      BY <1>1, <2>6
    <3> QED
      BY <2>1, <2>2, <2>6, <3>1
  <2> QED
    BY <2>5, <2>6
<1>6. FlattenSeq(ss) = F(N)
  <2>1. FlattenSeq(ss) = IF N = 0 THEN <<>> ELSE f[N]
    BY <1>2, FlatIs DEF N
  <2> QED
    BY <1>1, <1>4, <2>1
<1>7. \A k \in 0..N : F(k) \in Seq(V)
  <2> SUFFICES ASSUME NEW k \in 0..N PROVE F(k) \in Seq(V)
    OBVIOUS
  <2>1. <<>> \in Seq(V)
    OBVIOUS
  <2> QED
    <3>1. k = 0 \/ k \in 1..N
      BY <1>1
    <3>2. F(k) = IF k = 0 THEN <<>> ELSE f[k]
      BY <1>4
    <3> QED
      BY <1>3, <2>1, <3>1, <3>2
<1>8. F(0) = <<>>
  BY <1>1, <1>4
<1> QED
  <2>1. 0 \in 0..N /\ N \in 0..N
    BY <1>1
  <2> QED
    BY <1>5, <1>6, <1>7, <1>8, <2>1 DEF F, N

(* Where the i-th of them starts in the whole.                             *)
Start(ss, i) == Len(FlatOf(ss, i - 1))

LEMMA Starts ==
  ASSUME NEW V, NEW ss \in Seq(Seq(V))
  PROVE  /\ \A i \in 1..(Len(ss) + 1) : Start(ss, i) \in Nat
         /\ Start(ss, 1) = 0
         /\ \A i \in 1..Len(ss) : Start(ss, i + 1) = Start(ss, i) + Len(ss[i])
         /\ Start(ss, Len(ss) + 1) = Len(FlattenSeq(ss))
<1> DEFINE F(k) == FlatOf(ss, k)
<1>1. /\ \A k \in 0..Len(ss) : F(k) \in Seq(V)
      /\ F(0) = <<>> /\ F(Len(ss)) = FlattenSeq(ss)
      /\ \A k \in 1..Len(ss) : F(k) = F(k - 1) \o ss[k]
  BY FlatSteps
<1>2. \A i : Start(ss, i) = Len(F(i - 1))
  BY DEF Start
<1> HIDE DEF F
<1>3. \A i \in 1..(Len(ss) + 1) : i - 1 \in 0..Len(ss) /\ Start(ss, i) \in Nat
  BY <1>1, <1>2
<1>4. Start(ss, 1) = 0
  BY <1>1, <1>2
<1>5. ASSUME NEW i \in 1..Len(ss) PROVE Start(ss, i + 1) = Start(ss, i) + Len(ss[i])
  <2>1. (i + 1) - 1 = i /\ F(i) = F(i - 1) \o ss[i] /\ F(i - 1) \in Seq(V) /\ ss[i] \in Seq(V)
    <3>1. (i + 1) - 1 = i /\ i - 1 \in 0..Len(ss)
      OBVIOUS
    <3>2. ss[i] \in Seq(V)
      BY ElementOfSeq
    <3> QED
      BY <1>1, <3>1, <3>2
  <2>2. Len(F(i)) = Len(F(i - 1)) + Len(ss[i])
    BY <2>1
  <2> QED
    BY <1>2, <2>1, <2>2
<1>6. Start(ss, Len(ss) + 1) = Len(FlattenSeq(ss))
  <2>1. (Len(ss) + 1) - 1 = Len(ss)
    OBVIOUS
  <2> QED
    BY <1>1, <1>2, <2>1
<1> QED
  BY <1>3, <1>4, <1>5, <1>6

LEMMA StartsGrow ==
  ASSUME NEW V, NEW ss \in Seq(Seq(V))
  PROVE  \A i \in 1..Len(ss), k \in 1..(Len(ss) + 1) : i < k => Start(ss, i) + Len(ss[i]) <= Start(ss, k)
<1> SUFFICES ASSUME NEW i \in 1..Len(ss)
             PROVE  \A k \in 1..(Len(ss) + 1) : i < k => Start(ss, i) + Len(ss[i]) <= Start(ss, k)
  OBVIOUS
<1> DEFINE S == {m \in Nat : i < m /\ m <= Len(ss) + 1 => Start(ss, i) + Len(ss[i]) <= Start(ss, m)}
<1>1. /\ \A j \in 1..(Len(ss) + 1) : Start(ss, j) \in Nat
      /\ \A j \in 1..Len(ss) : Start(ss, j + 1) = Start(ss, j) + Len(ss[j])
  BY Starts
<1>2. \A j \in 1..Len(ss) : Len(ss[j]) \in Nat
  BY ElementOfSeq
<1>3. 0 \in S
  OBVIOUS
<1>4. ASSUME NEW m \in Nat, m \in S PROVE m + 1 \in S
  <2> SUFFICES ASSUME i < m + 1, m + 1 <= Len(ss) + 1
               PROVE  Start(ss, i) + Len(ss[i]) <= Start(ss, m + 1)
    OBVIOUS
  <2>1. m \in 1..Len(ss) /\ i \in 1..(Len(ss) + 1) /\ m \in 1..(Len(ss) + 1)
    OBVIOUS
  <2>2. /\ Start(ss, m + 1) = Start(ss, m) + Len(ss[m])
        /\ Len(ss[m]) \in Nat /\ Len(ss[i]) \in Nat /\ Start(ss, m) \in Nat /\ Start(ss, i) \in Nat
    BY <1>1, <1>2, <2>1
  <2>3. CASE i = m
    BY <2>2, <2>3
  <2>4. CASE i # m
    <3>1. i < m /\ m <= Len(ss) + 1
      BY <2>1, <2>4
    <3>2. Start(ss, i) + Len(ss[i]) <= Start(ss, m)
      BY <1>4, <3>1
    <3> QED
      BY <2>2, <3>2
  <2> QED
    BY <2>3, <2>4
<1>5. \A m \in Nat : m \in S
  <2> HIDE DEF S
  <2> QED
    BY <1>3, <1>4, EveryNat
<1> QED
  BY <1>5

(* The element of the i-th at r stands in the whole at Start + r, and      *)
(* every element of the whole is one of them, once.                        *)
LEMMA FlatAt ==
  ASSUME NEW V, NEW ss \in Seq(Seq(V)), NEW i \in 1..Len(ss), NEW r \in 1..Len(ss[i])
  PROVE  /\ Start(ss, i) + r \in 1..Len(FlattenSeq(ss))
         /\ FlattenSeq(ss)[Start(ss, i) + r] = ss[i][r]
<1> DEFINE F(k) == FlatOf(ss, k)
           a == Start(ss, i)
           S == {m \in Nat : i <= m /\ m <= Len(ss) => a + r <= Len(F(m)) /\ F(m)[a + r] = ss[i][r]}
<1>1. /\ \A k \in 0..Len(ss) : F(k) \in Seq(V) /\ Len(F(k)) \in Nat
      /\ F(Len(ss)) = FlattenSeq(ss)
      /\ \A k \in 1..Len(ss) : F(k) = F(k - 1) \o ss[k]
  <2>1. /\ \A k \in 0..Len(ss) : F(k) \in Seq(V)
        /\ F(Len(ss)) = FlattenSeq(ss)
        /\ \A k \in 1..Len(ss) : F(k) = F(k - 1) \o ss[k]
    BY FlatSteps
  <2> HIDE DEF F
  <2>2. \A k \in 0..Len(ss) : Len(F(k)) \in Nat
    BY <2>1, LenProperties
  <2> QED
    BY <2>1, <2>2
<1>2. a = Len(F(i - 1))
  BY DEF Start
<1>3. ss[i] \in Seq(V) /\ Len(ss[i]) \in Nat /\ r \in Nat \ {0} /\ r <= Len(ss[i])
  BY ElementOfSeq
<1>4. a \in Nat
  BY <1>1, <1>2
<1> HIDE DEF F, a
<1>5. 0 \in S
  OBVIOUS
<1>6. ASSUME NEW m \in Nat, m \in S PROVE m + 1 \in S
  <2> SUFFICES ASSUME i <= m + 1, m + 1 <= Len(ss)
               PROVE  a + r <= Len(F(m + 1)) /\ F(m + 1)[a + r] = ss[i][r]
    OBVIOUS
  <2>1. /\ m + 1 \in 1..Len(ss) /\ m \in 0..Len(ss) /\ (m + 1) - 1 = m
        /\ F(m + 1) = F(m) \o ss[m + 1] /\ ss[m + 1] \in Seq(V) /\ F(m) \in Seq(V)
    <3>1. m + 1 \in 1..Len(ss) /\ m \in 0..Len(ss) /\ (m + 1) - 1 = m
      OBVIOUS
    <3> QED
      BY <1>1, <3>1, ElementOfSeq
  <2>2. /\ Len(F(m + 1)) = Len(F(m)) + Len(ss[m + 1])
        /\ \A n \in 1..(Len(F(m)) + Len(ss[m + 1])) :
             F(m + 1)[n] = IF n <= Len(F(m)) THEN F(m)[n] ELSE ss[m + 1][n - Len(F(m))]
    BY <2>1, ConcatProperties
  <2>3. Len(F(m)) \in Nat /\ Len(ss[m + 1]) \in Nat
    BY <2>1
  <2>4. CASE i = m + 1
    <3>1. a = Len(F(m)) /\ a + r <= Len(F(m)) + Len(ss[m + 1])
      BY <1>2, <1>3, <1>4, <2>1, <2>3, <2>4
    <3>2. a + r \in 1..(Len(F(m)) + Len(ss[m + 1])) /\ ~(a + r <= Len(F(m))) /\ (a + r) - Len(F(m)) = r
      BY <1>3, <1>4, <2>3, <3>1
    <3> QED
      BY <2>2, <2>4, <3>1, <3>2
  <2>5. CASE i # m + 1
    <3>1. a + r <= Len(F(m)) /\ F(m)[a + r] = ss[i][r]
      <4>1. i <= m /\ m <= Len(ss)
        BY <2>1, <2>5
      <4> QED
        BY <1>6, <4>1
    <3>2. a + r \in 1..(Len(F(m)) + Len(ss[m + 1]))
      BY <1>3, <1>4, <2>3, <3>1
    <3> QED
      BY <1>3, <1>4, <2>2, <2>3, <3>1, <3>2
  <2> QED
    BY <2>4, <2>5
<1>7. Len(ss) \in S
  <2> HIDE DEF S
  <2>1. Len(ss) \in Nat
    OBVIOUS
  <2> QED
    BY <1>5, <1>6, <2>1, EveryNat
<1>8. a + r <= Len(F(Len(ss))) /\ F(Len(ss))[a + r] = ss[i][r]
  BY <1>7
<1>9. a + r \in 1..Len(F(Len(ss)))
  BY <1>1, <1>3, <1>4, <1>8
<1> QED
  BY <1>1, <1>8, <1>9 DEF a

LEMMA FlatOnto ==
  ASSUME NEW V, NEW ss \in Seq(Seq(V)), NEW n \in 1..Len(FlattenSeq(ss))
  PROVE  \E i \in 1..Len(ss) : \E r \in 1..Len(ss[i]) : n = Start(ss, i) + r
<1> DEFINE S == {i \in Nat : i \in 1..Len(ss) /\ n <= Start(ss, i + 1)}
<1>1. /\ \A i \in 1..(Len(ss) + 1) : Start(ss, i) \in Nat
      /\ Start(ss, 1) = 0
      /\ \A i \in 1..Len(ss) : Start(ss, i + 1) = Start(ss, i) + Len(ss[i])
      /\ Start(ss, Len(ss) + 1) = Len(FlattenSeq(ss))
  BY Starts
<1>2. Len(ss) \in Nat /\ n \in Nat /\ 1 <= n /\ \A i \in 1..Len(ss) : Len(ss[i]) \in Nat
  BY ElementOfSeq
<1>3. Len(ss) # 0
  <2>1. Len(ss) = 0 => Len(ss) + 1 = 1
    OBVIOUS
  <2>2. Len(ss) = 0 => Len(FlattenSeq(ss)) = 0
    BY <1>1, <2>1
  <2> QED
    BY <1>2, <2>2
<1>4. Len(ss) \in S
  BY <1>1, <1>2, <1>3
<1>5. PICK i \in S : \A j \in S : i <= j
  <2>1. S \in SUBSET Nat /\ S # {}
    BY <1>4
  <2> QED
    BY <2>1, LeastExists
<1>6. i \in 1..Len(ss) /\ n <= Start(ss, i) + Len(ss[i])
  BY <1>1, <1>5
<1>7. Start(ss, i) < n
  <2>1. CASE i = 1
    BY <1>1, <1>2, <2>1
  <2>2. CASE i # 1
    <3>1. i - 1 \in 1..Len(ss) /\ (i - 1) + 1 = i /\ ~(i <= i - 1)
      BY <1>6, <2>2
    <3>2. i - 1 \notin S
      BY <1>5, <3>1
    <3>3. ~(n <= Start(ss, i))
      BY <3>1, <3>2
    <3>4. Start(ss, i) \in Nat
      BY <1>1, <1>6
    <3> QED
      BY <1>2, <3>3, <3>4
  <2> QED
    BY <2>1, <2>2
<1>8. n - Start(ss, i) \in 1..Len(ss[i]) /\ n = Start(ss, i) + (n - Start(ss, i))
  <2>1. Start(ss, i) \in Nat /\ Len(ss[i]) \in Nat
    BY <1>1, <1>2, <1>6
  <2> QED
    BY <1>2, <1>6, <1>7, <2>1
<1> QED
  BY <1>6, <1>8

LEMMA FlatOnce ==
  ASSUME NEW V, NEW ss \in Seq(Seq(V)),
         NEW i \in 1..Len(ss), NEW r \in 1..Len(ss[i]),
         NEW k \in 1..Len(ss), NEW q \in 1..Len(ss[k]),
         Start(ss, i) + r = Start(ss, k) + q
  PROVE  i = k /\ r = q
<1>1. /\ Start(ss, i) \in Nat /\ Start(ss, k) \in Nat
      /\ Len(ss[i]) \in Nat /\ Len(ss[k]) \in Nat
  <2>1. \A j \in 1..(Len(ss) + 1) : Start(ss, j) \in Nat
    BY Starts
  <2> QED
    BY <2>1, ElementOfSeq
<1>2. /\ i < k => Start(ss, i) + Len(ss[i]) <= Start(ss, k)
      /\ k < i => Start(ss, k) + Len(ss[k]) <= Start(ss, i)
  <2>1. k \in 1..(Len(ss) + 1) /\ i \in 1..(Len(ss) + 1)
    OBVIOUS
  <2> QED
    BY <2>1, StartsGrow
<1>3. i = k
  BY <1>1, <1>2, SMTT(30)
<1> QED
  BY <1>1, <1>3

-----------------------------------------------------------------------------
(* Sequences, and where the elements of a kind are in lists of lists.      *)

LEMMA SequenceType ==
  ASSUME NEW s, IsSequence(s)
  PROVE  s \in Seq(ToSet(s)) /\ Len(s) \in Nat /\ DOMAIN s = 1..Len(s)
<1>1. Len(s) \in Nat /\ s = [i \in 1..Len(s) |-> s[i]] /\ DOMAIN s = 1..Len(s)
  BY DEF IsSequence
<1>2. \A i \in 1..Len(s) : s[i] \in ToSet(s)
  BY <1>1 DEF ToSet
<1>3. [i \in 1..Len(s) |-> s[i]] \in Seq(ToSet(s))
  BY <1>1, <1>2, IsASeq
<1> QED
  BY <1>1, <1>3

LEMMA TypedSequence ==
  ASSUME NEW V, NEW s \in Seq(V)
  PROVE  IsSequence(s)
<1>1. Len(s) \in Nat /\ DOMAIN s = 1..Len(s)
  BY LenProperties
<1>2. s = [i \in DOMAIN s |-> s[i]]
  OBVIOUS
<1> QED
  BY <1>1, <1>2 DEF IsSequence

(* What stands in a sequence at some of its places.                        *)
Gaps(s, J)        == [j \in DOMAIN s |-> IF j \in J THEN <<s[j]>> ELSE <<>>]
Picks(s, J)       == FlattenSeq(Gaps(s, J))
PickedAt(s, J, j) == Start(Gaps(s, J), j) + 1

LEMMA GapsType ==
  ASSUME NEW V, NEW s \in Seq(V), NEW J
  PROVE  /\ Gaps(s, J) \in Seq(Seq(V)) /\ Len(Gaps(s, J)) = Len(s)
         /\ \A j \in 1..Len(s) : /\ Gaps(s, J)[j] = IF j \in J THEN <<s[j]>> ELSE <<>>
                                 /\ Len(Gaps(s, J)[j]) = IF j \in J THEN 1 ELSE 0
<1>1. Len(s) \in Nat /\ DOMAIN s = 1..Len(s) /\ \A j \in 1..Len(s) : s[j] \in V
  BY LenProperties, ElementOfSeq
<1>2. Gaps(s, J) = [j \in 1..Len(s) |-> IF j \in J THEN <<s[j]>> ELSE <<>>]
  BY <1>1 DEF Gaps
<1>3. ASSUME NEW j \in 1..Len(s) PROVE (IF j \in J THEN <<s[j]>> ELSE <<>>) \in Seq(V)
  <2>1. s[j] \in V
    BY <1>1
  <2> QED
    BY <2>1
<1>4. /\ [j \in 1..Len(s) |-> IF j \in J THEN <<s[j]>> ELSE <<>>] \in Seq(Seq(V))
      /\ Len([j \in 1..Len(s) |-> IF j \in J THEN <<s[j]>> ELSE <<>>]) = Len(s)
  BY <1>1, <1>3, IsASeq
<1>5. ASSUME NEW j \in 1..Len(s)
      PROVE  /\ Gaps(s, J)[j] = IF j \in J THEN <<s[j]>> ELSE <<>>
             /\ Len(Gaps(s, J)[j]) = IF j \in J THEN 1 ELSE 0
  <2>1. Gaps(s, J)[j] = IF j \in J THEN <<s[j]>> ELSE <<>>
    BY <1>2
  <2>2. Len(<<s[j]>>) = 1 /\ Len(<<>>) = 0
    OBVIOUS
  <2> QED
    BY <2>1, <2>2
<1> QED
  BY <1>2, <1>4, <1>5

LEMMA PicksAt ==
  ASSUME NEW V, NEW s \in Seq(V), NEW J \in SUBSET (1..Len(s))
  PROVE  /\ Picks(s, J) \in Seq(V)
         /\ \A j \in J : /\ PickedAt(s, J, j) \in 1..Len(Picks(s, J))
                         /\ Picks(s, J)[PickedAt(s, J, j)] = s[j]
         /\ \A n \in 1..Len(Picks(s, J)) : \E j \in J : n = PickedAt(s, J, j)
         /\ \A j, k \in J : PickedAt(s, J, j) = PickedAt(s, J, k) => j = k
<1> DEFINE g == Gaps(s, J)
<1>1. /\ g \in Seq(Seq(V)) /\ Len(g) = Len(s)
      /\ \A j \in 1..Len(s) : /\ g[j] = IF j \in J THEN <<s[j]>> ELSE <<>>
                              /\ Len(g[j]) = IF j \in J THEN 1 ELSE 0
  BY GapsType
<1> HIDE DEF g
<1>2. FlattenSeq(g) \in Seq(V)
  BY <1>1, FlatSteps
<1>3. ASSUME NEW j \in J
      PROVE  /\ j \in 1..Len(g) /\ 1 \in 1..Len(g[j])
             /\ Start(g, j) + 1 \in 1..Len(FlattenSeq(g)) /\ FlattenSeq(g)[Start(g, j) + 1] = s[j]
  <2>1. j \in 1..Len(g) /\ Len(g[j]) = 1 /\ g[j] = <<s[j]>>
    BY <1>1
  <2>2. 1 \in 1..Len(g[j])
    BY <2>1
  <2>3. g[j][1] = s[j]
    BY <2>1
  <2>4. /\ Start(g, j) + 1 \in 1..Len(FlattenSeq(g))
        /\ FlattenSeq(g)[Start(g, j) + 1] = g[j][1]
    <3>1. g \in Seq(Seq(V)) /\ j \in 1..Len(g) /\ 1 \in 1..Len(g[j])
      BY <1>1, <2>1, <2>2
    <3> QED
      BY ONLY <3>1, FlatAt
  <2> QED
    BY <2>1, <2>2, <2>3, <2>4
<1>4. ASSUME NEW n \in 1..Len(FlattenSeq(g)) PROVE \E j \in J : n = Start(g, j) + 1
  <2>1. PICK i \in 1..Len(g) : \E r \in 1..Len(g[i]) : n = Start(g, i) + r
    BY <1>1, FlatOnto
  <2>2. PICK r \in 1..Len(g[i]) : n = Start(g, i) + r
    BY <2>1
  <2>3. i \in J /\ r = 1
    <3>1. i \in 1..Len(s) /\ Len(g[i]) = IF i \in J THEN 1 ELSE 0
      BY <1>1
    <3> QED
      BY <3>1
  <2> QED
    BY <2>2, <2>3
<1>5. ASSUME NEW j \in J, NEW k \in J, Start(g, j) + 1 = Start(g, k) + 1 PROVE j = k
  <2>1. j \in 1..Len(g) /\ 1 \in 1..Len(g[j]) /\ k \in 1..Len(g) /\ 1 \in 1..Len(g[k])
    BY <1>3
  <2> QED
    BY <1>1, <1>5, <2>1, FlatOnce
<1> QED
  BY <1>2, <1>3, <1>4, <1>5 DEF Picks, PickedAt, g

(* The same in every one of several sequences.                             *)
AllPicks(parts, J)       == [i \in DOMAIN parts |-> Picks(parts[i], J[i])]
ListOf(parts, J)         == FlattenSeq(AllPicks(parts, J))
ListedAt(parts, J, i, j) == Start(AllPicks(parts, J), i) + PickedAt(parts[i], J[i], j)

Listable(parts, J) ==
  /\ \E V : parts \in Seq(Seq(V))
  /\ \A i \in 1..Len(parts) : J[i] \in SUBSET (1..Len(parts[i]))

Listed(parts, J) ==
  /\ IsSequence(ListOf(parts, J))
  /\ \A i \in 1..Len(parts) : \A j \in J[i] :
       /\ ListedAt(parts, J, i, j) \in 1..Len(ListOf(parts, J))
       /\ ListOf(parts, J)[ListedAt(parts, J, i, j)] = parts[i][j]
  /\ \A n \in 1..Len(ListOf(parts, J)) :
       \E i \in 1..Len(parts) : \E j \in J[i] : n = ListedAt(parts, J, i, j)
  /\ \A i, k \in 1..Len(parts) : \A j \in J[i], l \in J[k] :
       ListedAt(parts, J, i, j) = ListedAt(parts, J, k, l) => i = k /\ j = l

LEMMA ListAt ==
  ASSUME NEW parts, NEW J, Listable(parts, J)
  PROVE  Listed(parts, J)
<1> PICK V : parts \in Seq(Seq(V))
  BY DEF Listable
<1>0. \A i \in 1..Len(parts) : J[i] \in SUBSET (1..Len(parts[i]))
  BY DEF Listable
<1> DEFINE ss == AllPicks(parts, J)
<1>1. Len(parts) \in Nat /\ DOMAIN parts = 1..Len(parts) /\ \A i \in 1..Len(parts) : parts[i] \in Seq(V)
  BY LenProperties, ElementOfSeq
<1>2. ASSUME NEW i \in 1..Len(parts)
      PROVE  /\ Picks(parts[i], J[i]) \in Seq(V)
             /\ \A j \in J[i] : /\ PickedAt(parts[i], J[i], j) \in 1..Len(Picks(parts[i], J[i]))
                                /\ Picks(parts[i], J[i])[PickedAt(parts[i], J[i], j)] = parts[i][j]
             /\ \A n \in 1..Len(Picks(parts[i], J[i])) : \E j \in J[i] : n = PickedAt(parts[i], J[i], j)
             /\ \A j, k \in J[i] : PickedAt(parts[i], J[i], j) = PickedAt(parts[i], J[i], k) => j = k
  <2> DEFINE p == parts[i]
             K == J[i]
  <2>1. p \in Seq(V) /\ K \in SUBSET (1..Len(p))
    BY <1>0, <1>1
  <2> HIDE DEF p, K
  <2>2. /\ Picks(p, K) \in Seq(V)
        /\ \A j \in K : /\ PickedAt(p, K, j) \in 1..Len(Picks(p, K))
                        /\ Picks(p, K)[PickedAt(p, K, j)] = p[j]
        /\ \A n \in 1..Len(Picks(p, K)) : \E j \in K : n = PickedAt(p, K, j)
        /\ \A j, k \in K : PickedAt(p, K, j) = PickedAt(p, K, k) => j = k
    BY <2>1, PicksAt
  <2> QED
    BY <2>2 DEF p, K
<1>3. ss \in Seq(Seq(V)) /\ Len(ss) = Len(parts) /\ \A i \in 1..Len(parts) : ss[i] = Picks(parts[i], J[i])
  <2>1. ss = [i \in 1..Len(parts) |-> Picks(parts[i], J[i])]
    BY <1>1 DEF AllPicks
  <2>2. /\ [i \in 1..Len(parts) |-> Picks(parts[i], J[i])] \in Seq(Seq(V))
        /\ Len([i \in 1..Len(parts) |-> Picks(parts[i], J[i])]) = Len(parts)
    BY <1>1, <1>2, IsASeq
  <2> QED
    BY <2>1, <2>2
<1> HIDE DEF ss
<1>4. FlattenSeq(ss) \in Seq(V)
  BY <1>3, FlatSteps
<1>5. ASSUME NEW i \in 1..Len(parts), NEW j \in J[i]
      PROVE  /\ i \in 1..Len(ss) /\ PickedAt(parts[i], J[i], j) \in 1..Len(ss[i])
             /\ ss[i][PickedAt(parts[i], J[i], j)] = parts[i][j]
  <2>1. ss[i] = Picks(parts[i], J[i]) /\ i \in 1..Len(ss)
    BY <1>3
  <2> QED
    BY <1>2, <2>1
<1>6. ASSUME NEW i \in 1..Len(parts), NEW j \in J[i]
      PROVE  /\ Start(ss, i) + PickedAt(parts[i], J[i], j) \in 1..Len(FlattenSeq(ss))
             /\ FlattenSeq(ss)[Start(ss, i) + PickedAt(parts[i], J[i], j)] = parts[i][j]
  <2> DEFINE r == PickedAt(parts[i], J[i], j)
  <2>1. i \in 1..Len(ss) /\ r \in 1..Len(ss[i]) /\ ss[i][r] = parts[i][j]
    BY <1>5
  <2> HIDE DEF r
  <2>2. Start(ss, i) + r \in 1..Len(FlattenSeq(ss)) /\ FlattenSeq(ss)[Start(ss, i) + r] = ss[i][r]
    BY <1>3, <2>1, FlatAt
  <2> QED
    BY <2>1, <2>2 DEF r
<1>7. ASSUME NEW n \in 1..Len(FlattenSeq(ss))
      PROVE  \E i \in 1..Len(parts) : \E j \in J[i] : n = Start(ss, i) + PickedAt(parts[i], J[i], j)
  <2>1. PICK i \in 1..Len(ss) : \E r \in 1..Len(ss[i]) : n = Start(ss, i) + r
    BY <1>3, FlatOnto
  <2>2. PICK r \in 1..Len(ss[i]) : n = Start(ss, i) + r
    BY <2>1
  <2>3. i \in 1..Len(parts) /\ r \in 1..Len(Picks(parts[i], J[i]))
    BY <1>3
  <2>4. PICK j \in J[i] : r = PickedAt(parts[i], J[i], j)
    BY <1>2, <2>3
  <2> QED
    BY <2>2, <2>3, <2>4
<1>8. ASSUME NEW i \in 1..Len(parts), NEW k \in 1..Len(parts), NEW j \in J[i], NEW l \in J[k],
             Start(ss, i) + PickedAt(parts[i], J[i], j) = Start(ss, k) + PickedAt(parts[k], J[k], l)
      PROVE  i = k /\ j = l
  <2> DEFINE r == PickedAt(parts[i], J[i], j)
             q == PickedAt(parts[k], J[k], l)
  <2>1. i \in 1..Len(ss) /\ r \in 1..Len(ss[i]) /\ k \in 1..Len(ss) /\ q \in 1..Len(ss[k])
    BY <1>5
  <2>2. Start(ss, i) + r = Start(ss, k) + q
    BY <1>8
  <2> HIDE DEF r, q
  <2>3. i = k /\ r = q
    BY <1>3, <2>1, <2>2, FlatOnce
  <2> QED
    BY <1>2, <2>3 DEF r, q
<1>9. IsSequence(FlattenSeq(ss))
  BY <1>4, TypedSequence
<1> QED
  BY <1>6, <1>7, <1>8, <1>9 DEF Listed, ListOf, ListedAt, ss

OneToOne(f, S, T) ==
  /\ f \in [S -> T]
  /\ \A x, y \in S : f[x] = f[y] => x = y
  /\ \A z \in T : \E x \in S : f[x] = z

LEMMA SameLength ==
  ASSUME NEW n \in Nat, NEW m \in Nat, NEW f, OneToOne(f, 1..n, 1..m)
  PROVE  n = m
<1>1. f \in Bijection(1..n, 1..m)
  BY DEF OneToOne, Bijection, Injection, Surjection, IsInjective
<1>2. IsFiniteSet(1..n) /\ IsFiniteSet(1..m) /\ Cardinality(1..n) = n /\ Cardinality(1..m) = m
  BY FS_Interval
<1>3. Cardinality(1..n) = Cardinality(1..m)
  BY <1>1, <1>2, FS_Bijection DEF ExistsBijection
<1> QED
  BY <1>2, <1>3

-----------------------------------------------------------------------------
(* What a filter picks, and the attachments of messages.                   *)

(* Several sequences are sequences over one set.                           *)
LEMMA CommonSet ==
  ASSUME NEW n \in Nat, NEW parts, parts = [i \in 1..n |-> parts[i]],
         \A i \in 1..n : IsSequence(parts[i])
  PROVE  \E V : parts \in Seq(Seq(V)) /\ Len(parts) = n
<1> DEFINE V == UNION {ToSet(parts[i]) : i \in 1..n}
<1>1. ASSUME NEW i \in 1..n PROVE parts[i] \in Seq(V)
  <2>1. Len(parts[i]) \in Nat /\ parts[i] = [j \in 1..Len(parts[i]) |-> parts[i][j]]
    BY DEF IsSequence
  <2>2. DOMAIN parts[i] = 1..Len(parts[i])
    BY <2>1, SequenceType
  <2>3. \A j \in 1..Len(parts[i]) : parts[i][j] \in V
    BY <2>2 DEF ToSet
  <2> HIDE DEF V
  <2>4. [j \in 1..Len(parts[i]) |-> parts[i][j]] \in Seq(V)
    BY <2>1, <2>3, IsASeq
  <2> QED
    BY <2>1, <2>4
<1> HIDE DEF V
<1>2. [i \in 1..n |-> parts[i]] \in Seq(Seq(V)) /\ Len([i \in 1..n |-> parts[i]]) = n
  BY <1>1, IsASeq
<1> QED
  BY <1>2

LEMMA Firsts ==
  ASSUME NEW V, NEW s \in Seq(V), NEW k \in 0..Len(s)
  PROVE  /\ SubSeq(s, 1, k) \in Seq(V) /\ Len(SubSeq(s, 1, k)) = k
         /\ SubSeq(s, 1, k) = [i \in 1..k |-> s[i]]
<1> DEFINE t == SubSeq(s, 1, k)
<1>1. 1 \in 1..(Len(s) + 1) /\ k \in (1 - 1)..Len(s) /\ k \in Nat
  OBVIOUS
<1>2. t \in Seq(V) /\ Len(t) = k - 1 + 1 /\ \A i \in 1..(k - 1 + 1) : t[i] = s[1 + i - 1]
  BY <1>1, SubSeqIs
<1> HIDE DEF t
<1>3. k - 1 + 1 = k /\ \A i \in 1..k : 1 + i - 1 = i
  BY <1>1
<1>4. Len(t) = k /\ \A i \in 1..k : t[i] = s[i]
  BY <1>2, <1>3
<1>5. t = [i \in 1..Len(t) |-> t[i]]
  BY <1>2, TypedSequence DEF IsSequence
<1>6. t = [i \in 1..k |-> s[i]]
  BY <1>4, <1>5
<1> QED
  BY <1>2, <1>4, <1>6 DEF t

-----------------------------------------------------------------------------
LEMMA PickedIs ==
  ASSUME NEW s, IsSequence(s)
  PROVE  /\ Picked(s, IsEnclosure)  = Picks(s, {j \in 1..Len(s) : IsEnclosure(s[j])})
         /\ Picked(s, IsAttachment) = Picks(s, {j \in 1..Len(s) : IsAttachment(s[j])})
         /\ Picked(s, IsTurnItem)   = Picks(s, {j \in 1..Len(s) : IsTurnItem(s[j])})
<1>1. DOMAIN s = 1..Len(s)
  BY SequenceType
<1> DEFINE E == {j \in 1..Len(s) : IsEnclosure(s[j])}
           A == {j \in 1..Len(s) : IsAttachment(s[j])}
           T == {j \in 1..Len(s) : IsTurnItem(s[j])}
<1>2. Picked(s, IsEnclosure) = Picks(s, E)
  <2>1. \A j \in 1..Len(s) : j \in E <=> IsEnclosure(s[j])
    OBVIOUS
  <2> HIDE DEF E
  <2>2. [j \in DOMAIN s |-> IF IsEnclosure(s[j]) THEN <<s[j]>> ELSE <<>>] = Gaps(s, E)
    BY <1>1, <2>1 DEF Gaps
  <2> QED
    BY <2>2 DEF Picked, Picks
<1>3. Picked(s, IsAttachment) = Picks(s, A)
  <2>1. \A j \in 1..Len(s) : j \in A <=> IsAttachment(s[j])
    OBVIOUS
  <2> HIDE DEF A
  <2>2. [j \in DOMAIN s |-> IF IsAttachment(s[j]) THEN <<s[j]>> ELSE <<>>] = Gaps(s, A)
    BY <1>1, <2>1 DEF Gaps
  <2> QED
    BY <2>2 DEF Picked, Picks
<1>4. Picked(s, IsTurnItem) = Picks(s, T)
  <2>1. \A j \in 1..Len(s) : j \in T <=> IsTurnItem(s[j])
    OBVIOUS
  <2> HIDE DEF T
  <2>2. [j \in DOMAIN s |-> IF IsTurnItem(s[j]) THEN <<s[j]>> ELSE <<>>] = Gaps(s, T)
    BY <1>1, <2>1 DEF Gaps
  <2> QED
    BY <2>2 DEF Picked, Picks
<1> QED
  BY <1>2, <1>3, <1>4

(* Where messages have attachments, and where in AttachmentsIn they are.   *)
BodiesOf(messages)    == [i \in 1..Len(messages) |-> messages[i].body]
PlacesIn(body)        == {j \in 1..Len(body) : IsAttachment(body[j])}
PlacesOf(messages)    == [i \in 1..Len(messages) |-> PlacesIn(messages[i].body)]
AttachedAt(messages, i, j) == ListedAt(BodiesOf(messages), PlacesOf(messages), i, j)

HasBodies(messages) ==
  IsSequence(messages) /\ \A i \in 1..Len(messages) : IsSequence(messages[i].body)

LEMMA AttachmentsAre ==
  ASSUME NEW messages, HasBodies(messages)
  PROVE  LET parts == AttachmentsIn(messages)
         IN  /\ IsSequence(parts)
             /\ \A i \in 1..Len(messages) : \A j \in PlacesIn(messages[i].body) :
                  /\ AttachedAt(messages, i, j) \in 1..Len(parts)
                  /\ parts[AttachedAt(messages, i, j)] = messages[i].body[j]
             /\ \A n \in 1..Len(parts) :
                  \E i \in 1..Len(messages) : \E j \in PlacesIn(messages[i].body) :
                    n = AttachedAt(messages, i, j)
             /\ \A i, k \in 1..Len(messages) :
                  \A j \in PlacesIn(messages[i].body), l \in PlacesIn(messages[k].body) :
                    AttachedAt(messages, i, j) = AttachedAt(messages, k, l) => i = k /\ j = l
<1> DEFINE B == BodiesOf(messages)
           J == PlacesOf(messages)
<1>1. /\ Len(messages) \in Nat /\ DOMAIN messages = 1..Len(messages)
      /\ \A i \in 1..Len(messages) : IsSequence(messages[i].body)
  BY SequenceType DEF HasBodies
<1>2. /\ B = [i \in 1..Len(messages) |-> B[i]] /\ DOMAIN B = 1..Len(messages)
      /\ \A i \in 1..Len(messages) : B[i] = messages[i].body /\ IsSequence(B[i])
      /\ \A i \in 1..Len(messages) : J[i] = PlacesIn(messages[i].body) /\ J[i] \in SUBSET (1..Len(B[i]))
  BY <1>1 DEF BodiesOf, PlacesOf, PlacesIn
<1>3. AttachmentsIn(messages) = ListOf(B, J)
  <2>1. \A i \in 1..Len(messages) : Picked(messages[i].body, IsAttachment) = Picks(B[i], J[i])
    BY <1>1, <1>2, PickedIs DEF PlacesIn
  <2> HIDE DEF B, J
  <2>2. [i \in DOMAIN messages |-> Picked(messages[i].body, IsAttachment)] = AllPicks(B, J)
    BY <1>1, <1>2, <2>1 DEF AllPicks
  <2> QED
    BY <2>2 DEF AttachmentsIn, ListOf
<1>4. \A i, j : AttachedAt(messages, i, j) = ListedAt(B, J, i, j)
  BY DEF AttachedAt
<1> HIDE DEF B, J
<1>5. PICK V : B \in Seq(Seq(V)) /\ Len(B) = Len(messages)
  BY <1>1, <1>2, CommonSet
<1>6. \A i \in 1..Len(B) : J[i] \in SUBSET (1..Len(B[i]))
  BY <1>2, <1>5
<1>7. Listed(B, J)
  <2>1. Listable(B, J)
    BY <1>5, <1>6 DEF Listable
  <2> QED
    BY <2>1, ListAt
<1>8. IsSequence(ListOf(B, J))
  BY <1>7 DEF Listed
<1>9. ASSUME NEW i \in 1..Len(messages), NEW j \in PlacesIn(messages[i].body)
      PROVE  /\ i \in 1..Len(B) /\ j \in J[i] /\ B[i] = messages[i].body
             /\ AttachedAt(messages, i, j) \in 1..Len(AttachmentsIn(messages))
             /\ AttachmentsIn(messages)[AttachedAt(messages, i, j)] = messages[i].body[j]
  <2>1. i \in 1..Len(B) /\ j \in J[i] /\ B[i] = messages[i].body
    BY <1>2, <1>5
  <2> QED
    BY <1>3, <1>4, <1>7, <2>1 DEF Listed
<1>10. ASSUME NEW n \in 1..Len(AttachmentsIn(messages))
       PROVE  \E i \in 1..Len(messages) : \E j \in PlacesIn(messages[i].body) :
                n = AttachedAt(messages, i, j)
  <2>1. PICK i \in 1..Len(B) : \E j \in J[i] : n = ListedAt(B, J, i, j)
    BY <1>3, <1>7 DEF Listed
  <2>2. i \in 1..Len(messages) /\ J[i] = PlacesIn(messages[i].body)
    BY <1>2, <1>5
  <2> QED
    BY <1>4, <2>1, <2>2
<1>11. ASSUME NEW i \in 1..Len(messages), NEW k \in 1..Len(messages),
              NEW j \in PlacesIn(messages[i].body), NEW l \in PlacesIn(messages[k].body),
              AttachedAt(messages, i, j) = AttachedAt(messages, k, l)
       PROVE  i = k /\ j = l
  <2>1. i \in 1..Len(B) /\ j \in J[i] /\ k \in 1..Len(B) /\ l \in J[k]
    BY <1>9
  <2>2. ListedAt(B, J, i, j) = ListedAt(B, J, k, l)
    BY <1>4, <1>11
  <2> QED
    BY <1>7, <2>1, <2>2 DEF Listed
<1> QED
  BY <1>3, <1>8, <1>9, <1>10, <1>11

(* The number of an enclosure is its place in the list of all of them.     *)
EnclosedIn(item) == {j \in 1..Len(item.content) : IsEnclosure(item.content[j])}

LEMMA NumbersAre ==
  ASSUME NEW W, NEW items \in Seq(W), \A i \in 1..Len(items) : IsSequence(items[i].content)
  PROVE  /\ IsSequence(EnclosuresOf(items))
         /\ \A i \in 1..Len(items) : \A j \in EnclosedIn(items[i]) :
              /\ AttachmentNumber(items, i, j) \in 1..Len(EnclosuresOf(items))
              /\ EnclosuresOf(items)[AttachmentNumber(items, i, j)] = items[i].content[j]
         /\ \A i, k \in 1..Len(items) : \A j \in EnclosedIn(items[i]), l \in EnclosedIn(items[k]) :
              AttachmentNumber(items, i, j) = AttachmentNumber(items, k, l) => i = k /\ j = l
<1> DEFINE B == [i \in 1..Len(items) |-> items[i].content]
           J == [i \in 1..Len(items) |-> EnclosedIn(items[i])]
<1>1. Len(items) \in Nat /\ DOMAIN items = 1..Len(items)
  BY LenProperties
<1>2. /\ B = [i \in 1..Len(items) |-> B[i]] /\ DOMAIN B = 1..Len(items)
      /\ \A i \in 1..Len(items) : B[i] = items[i].content /\ IsSequence(B[i])
      /\ \A i \in 1..Len(items) : J[i] = EnclosedIn(items[i]) /\ J[i] \in SUBSET (1..Len(B[i]))
  BY <1>1 DEF EnclosedIn
<1>3. \A i \in 1..Len(items) : Picked(items[i].content, IsEnclosure) = Picks(B[i], J[i])
  BY <1>1, <1>2, PickedIs DEF EnclosedIn
<1> HIDE DEF B, J
<1>4. EnclosuresOf(items) = ListOf(B, J)
  <2>1. [i \in DOMAIN items |-> Picked(items[i].content, IsEnclosure)] = AllPicks(B, J)
    BY <1>1, <1>2, <1>3 DEF AllPicks
  <2> QED
    BY <2>1 DEF EnclosuresOf, ListOf
<1>5. PICK V : B \in Seq(Seq(V)) /\ Len(B) = Len(items)
  BY <1>1, <1>2, CommonSet
<1>6. \A i \in 1..Len(B) : J[i] \in SUBSET (1..Len(B[i])) /\ B[i] \in Seq(V)
  BY <1>2, <1>5, ElementOfSeq
<1>7. Listed(B, J)
  <2>1. Listable(B, J)
    BY <1>5, <1>6 DEF Listable
  <2> QED
    BY <2>1, ListAt
<1>8. AllPicks(B, J) \in Seq(Seq(V)) /\ Len(AllPicks(B, J)) = Len(items)
  <2>1. AllPicks(B, J) = [i \in 1..Len(items) |-> Picks(B[i], J[i])]
    BY <1>2 DEF AllPicks
  <2>2. ASSUME NEW i \in 1..Len(items) PROVE Picks(B[i], J[i]) \in Seq(V)
    <3> DEFINE p == B[i]
               K == J[i]
    <3>1. p \in Seq(V) /\ K \in SUBSET (1..Len(p))
      BY <1>5, <1>6
    <3> HIDE DEF p, K
    <3>2. Picks(p, K) \in Seq(V)
      BY <3>1, PicksAt
    <3> QED
      BY <3>2 DEF p, K
  <2>3. /\ [i \in 1..Len(items) |-> Picks(B[i], J[i])] \in Seq(Seq(V))
        /\ Len([i \in 1..Len(items) |-> Picks(B[i], J[i])]) = Len(items)
    BY <1>1, <2>2, IsASeq
  <2> QED
    BY <2>1, <2>3
<1>9. ASSUME NEW i \in 1..Len(items), NEW j \in EnclosedIn(items[i])
      PROVE  AttachmentNumber(items, i, j) = ListedAt(B, J, i, j)
  <2>1. Len(EnclosuresOf(SubSeq(items, 1, i - 1))) = Start(AllPicks(B, J), i)
    <3> DEFINE t == SubSeq(items, 1, i - 1)
    <3>1. i - 1 \in 0..Len(items) /\ i - 1 \in Nat /\ i - 1 \in 0..Len(AllPicks(B, J))
          /\ \A k \in 1..(i - 1) : k \in 1..Len(items)
      BY <1>1, <1>8
    <3>2. t = [k \in 1..(i - 1) |-> items[k]]
      BY <3>1, Firsts
    <3>3. SubSeq(AllPicks(B, J), 1, i - 1) = [k \in 1..(i - 1) |-> AllPicks(B, J)[k]]
      BY <1>8, <3>1, Firsts
    <3>4. \A k \in 1..(i - 1) : AllPicks(B, J)[k] = Picked(items[k].content, IsEnclosure)
      BY <1>2, <1>3, <3>1 DEF AllPicks
    <3>5. [k \in DOMAIN t |-> Picked(t[k].content, IsEnclosure)]
            = [k \in 1..(i - 1) |-> AllPicks(B, J)[k]]
      BY <3>2, <3>4
    <3> QED
      BY <3>3, <3>5 DEF EnclosuresOf, Start, FlatOf
  <2> DEFINE p == B[i]
             K == J[i]
             t == SubSeq(p, 1, j)
  <2>2. /\ p = items[i].content /\ p \in Seq(V) /\ K \in SUBSET (1..Len(p)) /\ K = EnclosedIn(items[i])
        /\ j \in K /\ j \in 1..Len(p) /\ j \in Nat /\ Len(p) \in Nat
    BY <1>2, <1>5, <1>6
  <2>3. \A k \in 1..Len(p) : k \in K <=> IsEnclosure(p[k])
    BY <2>2 DEF EnclosedIn
  <2> HIDE DEF p, K
  <2>4. Len(Picked(t, IsEnclosure)) = PickedAt(p, K, j)
    <3>1. j \in 0..Len(p) /\ \A k \in 1..j : k \in 1..Len(p)
      BY <2>2
    <3>2. t = [k \in 1..j |-> p[k]]
      BY <2>2, <3>1, Firsts
    <3>3. /\ Gaps(p, K) \in Seq(Seq(V)) /\ Len(Gaps(p, K)) = Len(p)
          /\ \A k \in 1..Len(p) : /\ Gaps(p, K)[k] = IF k \in K THEN <<p[k]>> ELSE <<>>
                                  /\ Len(Gaps(p, K)[k]) = IF k \in K THEN 1 ELSE 0
      BY <2>2, GapsType
    <3>4. SubSeq(Gaps(p, K), 1, j) = [k \in 1..j |-> Gaps(p, K)[k]]
      BY <3>1, <3>3, Firsts
    <3>5. [k \in DOMAIN t |-> IF IsEnclosure(t[k]) THEN <<t[k]>> ELSE <<>>]
            = [k \in 1..j |-> Gaps(p, K)[k]]
      BY <2>3, <3>1, <3>2, <3>3
    <3>6. Picked(t, IsEnclosure) = FlatOf(Gaps(p, K), j)
      BY <3>4, <3>5 DEF Picked, FlatOf
    <3>7. (j + 1) - 1 = j
      BY <2>2
    <3>8. Len(FlatOf(Gaps(p, K), j)) = Start(Gaps(p, K), j + 1)
      BY <3>7 DEF Start
    <3>9. Start(Gaps(p, K), j + 1) = Start(Gaps(p, K), j) + 1
      <4>1. j \in 1..Len(Gaps(p, K)) /\ Len(Gaps(p, K)[j]) = 1
        BY <2>2, <3>3
      <4> QED
        BY <3>3, <4>1, Starts
    <3> QED
      BY <3>6, <3>8, <3>9 DEF PickedAt
  <2> QED
    BY <2>1, <2>2, <2>4 DEF AttachmentNumber, ListedAt, p, K
<1>10. IsSequence(EnclosuresOf(items))
  BY <1>4, <1>7 DEF Listed
<1>11. ASSUME NEW i \in 1..Len(items), NEW j \in EnclosedIn(items[i])
       PROVE  /\ AttachmentNumber(items, i, j) \in 1..Len(EnclosuresOf(items))
              /\ EnclosuresOf(items)[AttachmentNumber(items, i, j)] = items[i].content[j]
  <2>1. i \in 1..Len(B) /\ j \in J[i] /\ B[i] = items[i].content
    BY <1>2, <1>5
  <2> QED
    BY <1>4, <1>7, <1>9, <2>1 DEF Listed
<1>12. ASSUME NEW i \in 1..Len(items), NEW k \in 1..Len(items),
              NEW j \in EnclosedIn(items[i]), NEW l \in EnclosedIn(items[k]),
              AttachmentNumber(items, i, j) = AttachmentNumber(items, k, l)
       PROVE  i = k /\ j = l
  <2>1. i \in 1..Len(B) /\ j \in J[i] /\ k \in 1..Len(B) /\ l \in J[k]
    BY <1>2, <1>5
  <2>2. ListedAt(B, J, i, j) = ListedAt(B, J, k, l)
    BY <1>9, <1>12
  <2> QED
    BY <1>7, <2>1, <2>2 DEF Listed
<1> QED
  BY <1>10, <1>11, <1>12

-----------------------------------------------------------------------------
(* Texts side by side are joined.                                          *)

LEMMA AppendIs ==
  ASSUME NEW s, IsSequence(s), NEW x
  PROVE  /\ IsSequence(Append(s, x)) /\ Len(Append(s, x)) = Len(s) + 1 /\ Len(s) \in Nat
         /\ \A i \in 1..Len(s) : Append(s, x)[i] = s[i]
         /\ Append(s, x)[Len(s) + 1] = x
<1> DEFINE V == ToSet(s) \cup {x}
<1>1. Len(s) \in Nat /\ s = [i \in 1..Len(s) |-> s[i]] /\ DOMAIN s = 1..Len(s)
  BY SequenceType DEF IsSequence
<1>2. \A i \in 1..Len(s) : s[i] \in V
  BY <1>1 DEF ToSet
<1>3. x \in V
  OBVIOUS
<1> HIDE DEF V
<1>4. s \in Seq(V)
  <2>1. [i \in 1..Len(s) |-> s[i]] \in Seq(V)
    BY <1>1, <1>2, IsASeq
  <2> QED
    BY <1>1, <2>1
<1>5. Append(s, x) \in Seq(V)
  BY <1>3, <1>4
<1>6. IsSequence(Append(s, x))
  BY <1>5, TypedSequence
<1>7. /\ Len(Append(s, x)) = Len(s) + 1
      /\ \A i \in 1..Len(s) : Append(s, x)[i] = s[i]
      /\ Append(s, x)[Len(s) + 1] = x
  BY <1>3, <1>4, AppendProperties
<1> QED
  BY <1>1, <1>6, <1>7

LEMMA FrontIs ==
  ASSUME NEW s, IsSequence(s), s # <<>>
  PROVE  /\ IsSequence(Front(s)) /\ Len(Front(s)) = Len(s) - 1 /\ Len(s) \in Nat \ {0}
         /\ \A i \in 1..(Len(s) - 1) : Front(s)[i] = s[i]
<1>1. s \in Seq(ToSet(s)) /\ Len(s) \in Nat
  BY SequenceType
<1>2. Len(s) # 0
  BY <1>1, EmptySeq
<1>3. Len(s) - 1 \in 0..Len(s)
  BY <1>1, <1>2
<1>4. /\ Front(s) \in Seq(ToSet(s)) /\ Len(Front(s)) = Len(s) - 1
      /\ Front(s) = [i \in 1..(Len(s) - 1) |-> s[i]]
  BY <1>1, <1>3, Firsts DEF Front
<1>5. IsSequence(Front(s))
  BY <1>4, TypedSequence
<1> QED
  BY <1>1, <1>2, <1>4, <1>5

LEMMA CatIs ==
  ASSUME NEW s, IsSequence(s), NEW t, IsSequence(t)
  PROVE  /\ IsSequence(s \o t) /\ Len(s \o t) = Len(s) + Len(t) /\ Len(s) \in Nat /\ Len(t) \in Nat
         /\ \A i \in 1..Len(s) : (s \o t)[i] = s[i]
         /\ \A i \in 1..Len(t) : (s \o t)[Len(s) + i] = t[i]
<1> DEFINE V == ToSet(s) \cup ToSet(t)
<1>1. /\ Len(s) \in Nat /\ s = [i \in 1..Len(s) |-> s[i]] /\ DOMAIN s = 1..Len(s)
      /\ Len(t) \in Nat /\ t = [i \in 1..Len(t) |-> t[i]] /\ DOMAIN t = 1..Len(t)
  BY SequenceType DEF IsSequence
<1>2. (\A i \in 1..Len(s) : s[i] \in V) /\ (\A i \in 1..Len(t) : t[i] \in V)
  BY <1>1 DEF ToSet
<1> HIDE DEF V
<1>3. s \in Seq(V) /\ t \in Seq(V)
  <2>1. [i \in 1..Len(s) |-> s[i]] \in Seq(V) /\ [i \in 1..Len(t) |-> t[i]] \in Seq(V)
    BY <1>1, <1>2, IsASeq
  <2> QED
    BY <1>1, <2>1
<1>4. /\ s \o t \in Seq(V) /\ Len(s \o t) = Len(s) + Len(t)
      /\ \A i \in 1..(Len(s) + Len(t)) : (s \o t)[i] = IF i <= Len(s) THEN s[i] ELSE t[i - Len(s)]
  BY <1>3, ConcatProperties
<1>5. ASSUME NEW i \in 1..Len(s) PROVE (s \o t)[i] = s[i]
  <2>1. i \in 1..(Len(s) + Len(t)) /\ i <= Len(s)
    BY <1>1
  <2> QED
    BY <1>4, <2>1
<1>6. ASSUME NEW i \in 1..Len(t) PROVE (s \o t)[Len(s) + i] = t[i]
  <2>1. Len(s) + i \in 1..(Len(s) + Len(t)) /\ ~(Len(s) + i <= Len(s)) /\ Len(s) + i - Len(s) = i
    BY <1>1
  <2> QED
    BY <1>4, <2>1
<1>7. IsSequence(s \o t)
  BY <1>4, TypedSequence
<1> QED
  BY <1>1, <1>4, <1>5, <1>6, <1>7

-----------------------------------------------------------------------------
(* The parts of a content up to the m-th, with neighbouring texts joined.  *)
Joins(f, content, n) == f = [m \in 0..n |-> IF m = 0 THEN <<>> ELSE Joining(f[m - 1], content[m])]

LEMMA JoinsExist ==
  ASSUME NEW content, NEW n \in Nat
  PROVE  \E f : Joins(f, content, n)
<1> DEFINE S == {m \in Nat : \E f : Joins(f, content, m)}
<1>1. 0 \in S
  <2> DEFINE f == [m \in 0..0 |-> <<>>]
  <2>1. f = [m \in 0..0 |-> IF m = 0 THEN <<>> ELSE Joining(f[m - 1], content[m])]
    OBVIOUS
  <2> HIDE DEF f
  <2>2. Joins(f, content, 0)
    BY <2>1 DEF Joins
  <2> QED
    BY <2>2
<1>2. ASSUME NEW n1 \in Nat, n1 \in S PROVE n1 + 1 \in S
  <2>1. PICK f : Joins(f, content, n1)
    BY <1>2
  <2> DEFINE g == [m \in 0..(n1 + 1) |->
                     IF m <= n1 THEN f[m] ELSE Joining(f[m - 1], content[m])]
  <2>2. \A m \in 0..n1 : f[m] = IF m = 0 THEN <<>> ELSE Joining(f[m - 1], content[m])
    BY <2>1 DEF Joins
  <2>3. \A m \in 0..(n1 + 1) : g[m] = IF m = 0 THEN <<>> ELSE Joining(g[m - 1], content[m])
    <3> SUFFICES ASSUME NEW m \in 0..(n1 + 1)
                 PROVE  g[m] = IF m = 0 THEN <<>> ELSE Joining(g[m - 1], content[m])
      OBVIOUS
    <3>1. m # 0 => m - 1 \in 0..(n1 + 1) /\ m - 1 <= n1
      OBVIOUS
    <3>2. m # 0 => g[m - 1] = f[m - 1]
      BY <3>1
    <3>3. (m <= n1 => m \in 0..n1) /\ (~(m <= n1) => m # 0)
      OBVIOUS
    <3> QED
      BY <2>2, <3>2, <3>3, SMTT(30)
  <2>4. Joins(g, content, n1 + 1)
    <3> DEFINE h == [m \in 0..(n1 + 1) |-> IF m = 0 THEN <<>> ELSE Joining(g[m - 1], content[m])]
    <3>1. \A m \in 0..(n1 + 1) : g[m] = h[m]
      BY <2>3
    <3>2. g = [m \in 0..(n1 + 1) |-> g[m]] /\ h = [m \in 0..(n1 + 1) |-> h[m]]
      OBVIOUS
    <3> HIDE DEF g, h
    <3>3. g = h
      BY <3>1, <3>2
    <3> QED
      BY <3>3 DEF h, Joins
  <2> QED
    BY <2>4
<1>3. n \in S
  <2> HIDE DEF S
  <2> QED
    BY <1>1, <1>2, EveryNat
<1> QED
  BY <1>3

LEMMA CoalescedJoins ==
  ASSUME NEW content, Len(content) \in Nat
  PROVE  \E f : Joins(f, content, Len(content)) /\ Coalesced(content) = f[Len(content)]
<1> DEFINE n == Len(content)
           parts == CHOOSE f : f = [m \in 0..n |-> IF m = 0 THEN <<>> ELSE Joining(f[m - 1], content[m])]
<1>1. Joins(parts, content, n)
  <2>1. \E f : Joins(f, content, n)
    BY JoinsExist
  <2> QED
    BY <2>1 DEF Joins
<1>2. Coalesced(content) = parts[n]
  BY DEF Coalesced
<1> HIDE DEF parts
<1> QED
  BY <1>1, <1>2

(* What the places of a content that are not texts become.                 *)
FilesIn(content) == {j \in 1..Len(content) : ~IsText(content[j])}

Parted(parts, content, m) ==
  /\ IsSequence(parts)
  /\ \A j \in 1..Len(parts) :
       IF IsText(parts[j]) THEN IsLines(parts[j])
       ELSE \E k \in FilesIn(content) : k <= m /\ parts[j] = content[k]
  /\ \A k \in FilesIn(content) : k <= m => \E j \in 1..Len(parts) : parts[j] = content[k]
  /\ \A i, j \in 1..Len(parts) : ~IsText(parts[i]) /\ parts[i] = parts[j] => i = j
  /\ \A j \in 1..(Len(parts) - 1) : ~(IsText(parts[j]) /\ IsText(parts[j + 1]))

LEMMA JoiningParts ==
  ASSUME NEW content, IsContent(content), NEW m \in Nat, m + 1 <= Len(content),
         NEW parts, Parted(parts, content, m)
  PROVE  Parted(Joining(parts, content[m + 1]), content, m + 1)
<1> DEFINE part == content[m + 1]
           n == Len(parts)
           P == Joining(parts, part)
<1>1. /\ IsSequence(content) /\ Len(content) \in Nat /\ m + 1 \in 1..Len(content)
      /\ DOMAIN content = 1..Len(content)
      /\ \A j \in 1..Len(content) : IsText(content[j]) => IsLines(content[j])
      /\ \A j, k \in FilesIn(content) : content[j] = content[k] => j = k
  BY SequenceType DEF IsContent, FilesIn
<1>2. /\ IsSequence(parts) /\ n \in Nat
      /\ \A j \in 1..n : IF IsText(parts[j]) THEN IsLines(parts[j])
                         ELSE \E k \in FilesIn(content) : k <= m /\ parts[j] = content[k]
      /\ \A k \in FilesIn(content) : k <= m => \E j \in 1..n : parts[j] = content[k]
      /\ \A i, j \in 1..n : ~IsText(parts[i]) /\ parts[i] = parts[j] => i = j
      /\ \A j \in 1..(n - 1) : ~(IsText(parts[j]) /\ IsText(parts[j + 1]))
  BY SequenceType DEF Parted
<1>3. FilesIn(content) \in SUBSET Nat
  BY <1>1 DEF FilesIn
<1>4. CASE IsText(part) /\ parts # <<>> /\ IsText(Last(parts))
  <2> DEFINE line == Text(Last(parts).text \o part.text)
             front == Front(parts)
  <2>1. P = Append(front, line)
    BY <1>4 DEF Joining
  <2>2. /\ IsSequence(front) /\ Len(front) = n - 1 /\ n \in Nat \ {0}
        /\ \A i \in 1..(n - 1) : front[i] = parts[i]
    BY <1>2, <1>4, FrontIs
  <2>3. Last(parts) = parts[n] /\ IsText(parts[n]) /\ IsLines(parts[n]) /\ IsLines(part)
    <3>1. n \in 1..n
      BY <2>2
    <3> QED
      BY <1>1, <1>2, <1>4, <3>1 DEF Last
  <2>4. IsText(line) /\ IsLines(line)
    <3>1. IsSequence(Last(parts).text \o part.text)
      BY <2>3, CatIs DEF IsLines
    <3> QED
      BY <3>1 DEF IsLines, IsText, Text
  <2> HIDE DEF front, line, n, P, part
  <2>5. /\ IsSequence(P) /\ Len(P) = n /\ P[n] = line
        /\ \A i \in 1..(n - 1) : P[i] = parts[i]
    <3>1. /\ IsSequence(Append(front, line)) /\ Len(Append(front, line)) = Len(front) + 1
          /\ \A i \in 1..Len(front) : Append(front, line)[i] = front[i]
          /\ Append(front, line)[Len(front) + 1] = line
      BY <2>2, AppendIs
    <3>2. (n - 1) + 1 = n
      BY <2>2
    <3> QED
      BY <2>1, <2>2, <3>1, <3>2
  <2>6. \A i \in 1..n : i = n \/ i \in 1..(n - 1)
    BY <2>2
  <2>7. \A i \in 1..n : IsText(P[i]) <=> IsText(parts[i])
    BY <2>3, <2>4, <2>5, <2>6
  <2>8. \A i \in 1..n : ~IsText(P[i]) => P[i] = parts[i]
    BY <2>4, <2>5, <2>6
  <2>9. \A k \in FilesIn(content) : k <= m + 1 => k <= m
    <3>1. m + 1 \notin FilesIn(content)
      BY <1>4 DEF FilesIn, part
    <3> QED
      BY <1>3, <3>1
  <2>10. ASSUME NEW j \in 1..n
         PROVE  IF IsText(P[j]) THEN IsLines(P[j])
                ELSE \E k \in FilesIn(content) : k <= m + 1 /\ P[j] = content[k]
    <3>1. CASE IsText(P[j])
      BY <1>2, <2>4, <2>5, <2>6, <2>7, <3>1
    <3>2. CASE ~IsText(P[j])
      <4>1. PICK k \in FilesIn(content) : k <= m /\ P[j] = content[k]
        BY <1>2, <2>7, <2>8, <3>2
      <4>2. k <= m + 1
        BY <1>3, <4>1
      <4> QED
        BY <3>2, <4>1, <4>2
    <3> QED
      BY <3>1, <3>2
  <2>11. ASSUME NEW k \in FilesIn(content), k <= m + 1 PROVE \E j \in 1..n : P[j] = content[k]
    <3>1. PICK j \in 1..n : parts[j] = content[k]
      BY <1>2, <2>9, <2>11
    <3>2. ~IsText(P[j])
      BY <2>7, <3>1 DEF FilesIn
    <3> QED
      BY <2>8, <3>1, <3>2
  <2>12. ASSUME NEW i \in 1..n, NEW j \in 1..n, ~IsText(P[i]), P[i] = P[j] PROVE i = j
    <3>1. ~IsText(P[j])
      BY <2>12
    <3> QED
      BY <1>2, <2>7, <2>8, <2>12, <3>1
  <2>13. ASSUME NEW j \in 1..(n - 1) PROVE ~(IsText(P[j]) /\ IsText(P[j + 1]))
    <3>1. j \in 1..n /\ j + 1 \in 1..n
      BY <2>2
    <3> QED
      BY <1>2, <2>7, <3>1
  <2> QED
    BY <2>5, <2>10, <2>11, <2>12, <2>13 DEF Parted, P, part
<1>5. CASE ~(IsText(part) /\ parts # <<>> /\ IsText(Last(parts)))
  <2>1. P = Append(parts, part)
    BY <1>5 DEF Joining
  <2>2. n # 0 => Last(parts) = parts[n] /\ parts # <<>>
    BY <1>2, EmptySeq DEF Last
  <2>3. IsText(part) => IsLines(part)
    BY <1>1
  <2>4. ~IsText(part) => m + 1 \in FilesIn(content)
    BY <1>1 DEF FilesIn
  <2>5. part = content[m + 1]
    OBVIOUS
  <2> HIDE DEF n, P, part
  <2>6. /\ IsSequence(P) /\ Len(P) = n + 1 /\ P[n + 1] = part
        /\ \A i \in 1..n : P[i] = parts[i]
    BY <1>2, <2>1, AppendIs DEF n
  <2>7. \A i \in 1..(n + 1) : i = n + 1 \/ i \in 1..n
    BY <1>2
  <2>8. \A i \in 1..n : i \in 1..(n + 1)
    BY <1>2
  <2>9. ASSUME NEW j \in 1..(n + 1)
        PROVE  IF IsText(P[j]) THEN IsLines(P[j])
               ELSE \E k \in FilesIn(content) : k <= m + 1 /\ P[j] = content[k]
    <3>1. CASE j = n + 1
      <4>1. m + 1 <= m + 1
        OBVIOUS
      <4> QED
        BY <2>3, <2>4, <2>5, <2>6, <3>1, <4>1
    <3>2. CASE j \in 1..n
      <4>1. \A k \in FilesIn(content) : k <= m => k <= m + 1
        BY <1>3
      <4> QED
        BY <1>2, <2>6, <3>2, <4>1
    <3> QED
      BY <2>7, <3>1, <3>2
  <2>10. ASSUME NEW k \in FilesIn(content), k <= m + 1 PROVE \E j \in 1..(n + 1) : P[j] = content[k]
    <3>1. k <= m \/ k = m + 1
      BY <1>3, <2>10
    <3>2. CASE k <= m
      <4>1. PICK j \in 1..n : parts[j] = content[k]
        BY <1>2, <3>2
      <4> QED
        BY <2>6, <2>8, <4>1
    <3>3. CASE k = m + 1
      <4>1. n + 1 \in 1..(n + 1)
        BY <1>2
      <4> QED
        BY <2>5, <2>6, <3>3, <4>1
    <3> QED
      BY <3>1, <3>2, <3>3
  <2>11. ASSUME NEW j \in 1..n, ~IsText(part) PROVE parts[j] # part
    <3> SUFFICES ASSUME parts[j] = part PROVE FALSE
      OBVIOUS
    <3>1. PICK k \in FilesIn(content) : k <= m /\ part = content[k]
      BY <1>2, <2>11
    <3>2. k = m + 1
      BY <1>1, <2>4, <2>5, <2>11, <3>1
    <3> QED
      BY <3>1, <3>2
  <2>12. ASSUME NEW i \in 1..(n + 1), NEW j \in 1..(n + 1), ~IsText(P[i]), P[i] = P[j] PROVE i = j
    <3>1. CASE i \in 1..n /\ j \in 1..n
      BY <1>2, <2>6, <2>12, <3>1
    <3>2. CASE i = n + 1 /\ j \in 1..n
      BY <2>6, <2>11, <2>12, <3>2
    <3>3. CASE j = n + 1 /\ i \in 1..n
      BY <2>6, <2>11, <2>12, <3>3
    <3> QED
      BY <2>7, <3>1, <3>2, <3>3
  <2>13. ASSUME NEW j \in 1..((n + 1) - 1) PROVE ~(IsText(P[j]) /\ IsText(P[j + 1]))
    <3>1. j \in 1..n /\ (j = n \/ j \in 1..(n - 1)) /\ n # 0
      BY <1>2
    <3>2. CASE j = n
      BY <1>5, <2>2, <2>6, <3>1, <3>2
    <3>3. CASE j \in 1..(n - 1)
      <4>1. j + 1 \in 1..n
        BY <1>2, <3>3
      <4> QED
        BY <1>2, <2>6, <3>1, <3>3, <4>1
    <3> QED
      BY <3>1, <3>2, <3>3
  <2> QED
    BY <2>6, <2>9, <2>10, <2>12, <2>13 DEF Parted, P, part
<1> QED
  BY <1>4, <1>5

LEMMA CoalescedIs ==
  ASSUME NEW content, IsContent(content)
  PROVE  Parted(Coalesced(content), content, Len(content))
<1> DEFINE N == Len(content)
<1>1. N \in Nat
  BY DEF IsContent, IsSequence
<1>2. PICK f : Joins(f, content, N) /\ Coalesced(content) = f[N]
  BY <1>1, CoalescedJoins
<1> DEFINE S == {m \in Nat : m <= N => Parted(f[m], content, m)}
<1> HIDE DEF N
<1>3. 0 \in S
  <2>1. f[0] = <<>>
    BY <1>1, <1>2 DEF Joins
  <2>2. IsSequence(<<>>) /\ Len(<<>>) = 0
    BY DEF IsSequence
  <2>3. \A k \in FilesIn(content) : ~(k <= 0)
    BY DEF FilesIn
  <2>4. 1..Len(<<>>) = {} /\ 1..(Len(<<>>) - 1) = {}
    BY <2>2
  <2>5. Parted(<<>>, content, 0)
    BY <2>2, <2>3, <2>4 DEF Parted
  <2> QED
    BY <2>1, <2>5
<1>4. ASSUME NEW m \in Nat, m \in S PROVE m + 1 \in S
  <2> SUFFICES ASSUME m + 1 <= N PROVE Parted(f[m + 1], content, m + 1)
    OBVIOUS
  <2>1. m <= N /\ m + 1 \in 0..N /\ m + 1 # 0 /\ (m + 1) - 1 = m
    BY <1>1
  <2>2. f[m + 1] = Joining(f[m], content[m + 1])
    BY <1>2, <2>1 DEF Joins
  <2>3. Parted(f[m], content, m)
    BY <1>4, <2>1
  <2>4. Parted(Joining(f[m], content[m + 1]), content, m + 1)
    BY <2>3, JoiningParts DEF N
  <2> QED
    BY <2>2, <2>4
<1>5. N \in S
  <2> HIDE DEF S
  <2> QED
    BY <1>1, <1>3, <1>4, EveryNat
<1>6. N <= N
  BY <1>1
<1> QED
  BY <1>2, <1>5, <1>6 DEF N

-----------------------------------------------------------------------------
(* Bodies: one text that is not empty, or texts and attachments, no two    *)
(* texts side by side.                                                     *)
IsOneText(body) ==
  IsSequence(body) /\ Len(body) = 1 /\ IsLines(body[1]) /\ body[1].text # <<>>

IsBody(body) ==
  /\ IsSequence(body)
  /\ \A j \in 1..Len(body) : (IsText(body[j]) /\ IsLines(body[j])) \/ IsAttachment(body[j])
  /\ PlacesIn(body) = {} => IsOneText(body)
  /\ \A j \in 1..(Len(body) - 1) : ~(IsText(body[j]) /\ IsText(body[j + 1]))

(* Its attachments are those of a content, one for each.                   *)
BodyFrom(body, content, attached) ==
  \E at \in [PlacesIn(body) -> IdsIn(content)] :
    /\ \A j \in PlacesIn(body) : body[j] = attached[at[j]]
    /\ \A j, k \in PlacesIn(body) : at[j] = at[k] => j = k
    /\ \A id \in IdsIn(content) : \E j \in PlacesIn(body) : at[j] = id

LEMMA FunctionIs ==
  ASSUME NEW n \in Nat, NEW s, s = [i \in 1..n |-> s[i]]
  PROVE  IsSequence(s) /\ Len(s) = n
<1> DEFINE V == {s[i] : i \in 1..n}
<1>1. \A i \in 1..n : s[i] \in V
  OBVIOUS
<1> HIDE DEF V
<1>2. [i \in 1..n |-> s[i]] \in Seq(V) /\ Len([i \in 1..n |-> s[i]]) = n
  BY <1>1, IsASeq
<1>3. s \in Seq(V) /\ Len(s) = n
  BY <1>2
<1> QED
  BY <1>3, TypedSequence

LEMMA KindsOfParts ==
  /\ \A part : IsLines(part) => IsText(part)
  /\ \A part : IsAttachment(part) => ~IsText(part)
<1>1. ASSUME NEW part, IsLines(part) PROVE IsText(part)
  <2>1. Text(part.text).type = "text"
    BY DEF Text
  <2>2. part = Text(part.text)
    BY <1>1 DEF IsLines
  <2> DEFINE x == Text(part.text)
  <2>3. x.type = "text" /\ part = x
    BY <2>1, <2>2
  <2> HIDE DEF x
  <2>4. part.type = "text"
    BY <2>3
  <2> QED
    BY <2>4 DEF IsText
<1>2. ASSUME NEW part, IsAttachment(part) PROVE ~IsText(part)
  BY <1>2 DEF IsAttachment, IsText
<1> QED
  BY <1>1, <1>2

LEMMA OneTextIsBody ==
  ASSUME NEW body, IsOneText(body)
  PROVE  IsBody(body) /\ PlacesIn(body) = {}
<1>1. IsSequence(body) /\ Len(body) = 1 /\ IsLines(body[1])
  BY DEF IsOneText
<1>2. IsText(body[1]) /\ ~IsAttachment(body[1])
  BY <1>1, KindsOfParts
<1>3. \A j \in 1..Len(body) : j = 1
  BY <1>1
<1>4. PlacesIn(body) = {}
  BY <1>2, <1>3 DEF PlacesIn
<1>5. 1..(Len(body) - 1) = {}
  BY <1>1
<1>6. \A j \in 1..Len(body) : IsText(body[j]) /\ IsLines(body[j])
  BY <1>1, <1>2, <1>3
<1> QED
  BY <1>1, <1>4, <1>5, <1>6 DEF IsBody

LEMMA JoinedTextIs ==
  ASSUME NEW content, IsSequence(content),
         \A j \in 1..Len(content) : IsText(content[j]) => IsLines(content[j])
  PROVE  IsOneText(JoinedText(content))
<1> DEFINE n == Len(content)
           ss == [j \in 1..n |-> IF IsText(content[j]) THEN content[j].text ELSE <<EmptyLine>>]
           lines == FlattenSeq(ss)
           text == IF lines = <<>> THEN <<EmptyLine>> ELSE lines
<1>1. n \in Nat /\ DOMAIN content = 1..n
  BY SequenceType
<1>2. IsSequence(<<EmptyLine>>) /\ <<EmptyLine>> # <<>>
  <2>1. <<EmptyLine>> \in Seq({EmptyLine})
    OBVIOUS
  <2> QED
    BY <2>1, TypedSequence
<1>3. ASSUME NEW j \in 1..n PROVE IsSequence(ss[j])
  BY <1>2 DEF IsLines
<1>4. ss = [j \in 1..n |-> ss[j]]
  OBVIOUS
<1> HIDE DEF n, ss
<1>5. PICK V : ss \in Seq(Seq(V))
  BY <1>1, <1>3, <1>4, CommonSet
<1>6. lines \in Seq(V)
  BY <1>5, FlatSteps
<1>7. IsSequence(lines)
  BY <1>6, TypedSequence
<1> HIDE DEF lines
<1>8. IsSequence(text) /\ text # <<>>
  BY <1>2, <1>7
<1>9. JoinedText(content) = <<Text(text)>>
  BY <1>1 DEF JoinedText, text, lines, ss
<1> HIDE DEF text
<1>10. IsSequence(<<Text(text)>>) /\ Len(<<Text(text)>>) = 1 /\ <<Text(text)>>[1] = Text(text)
  <2> DEFINE x == Text(text)
  <2> HIDE DEF x
  <2>1. <<x>> \in Seq({x}) /\ Len(<<x>>) = 1 /\ <<x>>[1] = x
    OBVIOUS
  <2>2. IsSequence(<<x>>)
    BY <2>1, TypedSequence
  <2> QED
    BY <2>1, <2>2 DEF x
<1>11. Text(text).text = text
  BY DEF Text
<1>12. IsLines(Text(text))
  BY <1>8, <1>11 DEF IsLines
<1> QED
  BY <1>8, <1>9, <1>10, <1>11, <1>12 DEF IsOneText

LEMMA JoinedAgain ==
  ASSUME NEW body, IsOneText(body)
  PROVE  JoinedText(body) = body
<1> DEFINE text == body[1].text
           ss == [j \in 1..1 |-> text]
<1>1. /\ IsSequence(body) /\ Len(body) = 1 /\ DOMAIN body = 1..1
      /\ body[1] = Text(text) /\ IsSequence(text) /\ text # <<>> /\ IsText(body[1])
  BY SequenceType, KindsOfParts DEF IsOneText, IsLines
<1>2. body = <<Text(text)>>
  <2>1. body = [j \in 1..1 |-> body[j]]
    BY <1>1 DEF IsSequence
  <2> QED
    BY <1>1, <2>1
<1>3. \A j \in 1..1 : j = 1
  OBVIOUS
<1>4. [j \in DOMAIN body |-> IF IsText(body[j]) THEN body[j].text ELSE <<EmptyLine>>] = ss
  BY <1>1, <1>3
<1>5. FlattenSeq(ss) = text
  <2>1. text \in Seq(ToSet(text))
    BY <1>1, SequenceType
  <2> HIDE DEF text
  <2>2. ss \in Seq(Seq(ToSet(text))) /\ Len(ss) = 1 /\ ss[1] = text
    <3>1. \A j \in 1..1 : text \in Seq(ToSet(text))
      BY <2>1
    <3>2. ss \in Seq(Seq(ToSet(text))) /\ Len(ss) = 1
      BY <3>1, IsASeq
    <3> QED
      BY <3>2
  <2> HIDE DEF ss
  <2>3. /\ FlatOf(ss, 0) = <<>> /\ FlatOf(ss, Len(ss)) = FlattenSeq(ss)
        /\ \A k \in 1..Len(ss) : FlatOf(ss, k) = FlatOf(ss, k - 1) \o ss[k]
    BY <2>2, FlatSteps
  <2>4. FlatOf(ss, 1) = <<>> \o text
    <3>1. 1 \in 1..Len(ss) /\ 1 - 1 = 0
      BY <2>2
    <3> QED
      BY <2>2, <2>3, <3>1
  <2>5. <<>> \o text = text
    BY <2>1
  <2> QED
    BY <2>2, <2>3, <2>4, <2>5
<1> HIDE DEF text, ss
<1> QED
  BY <1>1, <1>2, <1>4, <1>5 DEF JoinedText

LEMMA JoinedNothing == JoinedText(<<>>) = <<Text(<<EmptyLine>>)>>
<1>1. <<>> \in Seq(Seq({}))
  OBVIOUS
<1>2. FlattenSeq(<<>>) = <<>>
  <2>1. FlatOf(<<>>, 0) = <<>> /\ FlatOf(<<>>, Len(<<>>)) = FlattenSeq(<<>>)
    BY <1>1, FlatSteps
  <2>2. Len(<<>>) = 0
    OBVIOUS
  <2> QED
    BY <2>1, <2>2
<1> DEFINE c == <<>>
<1>3. [j \in DOMAIN c |-> IF IsText(c[j]) THEN c[j].text ELSE <<EmptyLine>>] = <<>>
  OBVIOUS
<1> QED
  BY <1>2, <1>3 DEF JoinedText

-----------------------------------------------------------------------------
LEMMA IdsAre ==
  ASSUME NEW content, IsSequence(content)
  PROVE  /\ \A k \in FilesIn(content) : content[k].attachmentId \in IdsIn(content)
         /\ \A id \in IdsIn(content) : \E k \in FilesIn(content) : content[k].attachmentId = id
<1>1. DOMAIN content = 1..Len(content)
  BY SequenceType
<1> QED
  BY <1>1 DEF IdsIn, FilesIn

LEMMA CanonicalBodyIs ==
  ASSUME NEW content, IsContent(content),
         NEW attached, \A id \in IdsIn(content) : IsAttachment(attached[id])
  PROVE  /\ IsBody(CanonicalBody(content, attached))
         /\ BodyFrom(CanonicalBody(content, attached), content, attached)
<1> DEFINE B == CanonicalBody(content, attached)
           P == Coalesced(content)
           N == Len(content)
<1>1. /\ IsSequence(content) /\ DOMAIN content = 1..N /\ N \in Nat
      /\ \A j \in 1..N : IF IsText(content[j]) THEN IsLines(content[j])
                         ELSE content[j] = [type |-> "attachment", attachmentId |-> content[j].attachmentId]
  BY SequenceType DEF IsContent
<1>2. CASE \A j \in 1..N : IsText(content[j])
  <2>1. B = JoinedText(content)
    BY <1>1, <1>2 DEF CanonicalBody
  <2>2. IsOneText(B)
    BY <1>1, <2>1, JoinedTextIs
  <2> HIDE DEF B
  <2>3. IsBody(B) /\ PlacesIn(B) = {}
    BY <2>2, OneTextIsBody
  <2>4. IdsIn(content) = {}
    BY <1>1, <1>2, IdsAre DEF FilesIn
  <2>5. BodyFrom(B, content, attached)
    <3> DEFINE at == [j \in {} |-> 0]
    <3>1. at \in [PlacesIn(B) -> IdsIn(content)]
      BY <2>3, <2>4
    <3> QED
      BY <2>3, <2>4, <3>1 DEF BodyFrom
  <2> QED
    BY <2>3, <2>5 DEF B
<1>3. CASE ~(\A j \in 1..N : IsText(content[j]))
  <2>1. Parted(P, content, N)
    BY CoalescedIs
  <2>2. DOMAIN P = 1..Len(P) /\ Len(P) \in Nat
    BY <2>1, SequenceType DEF Parted
  <2> HIDE DEF P
  <2>3. B = [j \in 1..Len(P) |-> IF IsText(P[j]) THEN P[j] ELSE attached[P[j].attachmentId]]
    BY <1>1, <1>3, <2>2 DEF CanonicalBody, P
  <2> DEFINE idAt(j) == P[j].attachmentId
  <2>4. ASSUME NEW j \in 1..Len(P), ~IsText(P[j])
        PROVE  /\ idAt(j) \in IdsIn(content)
               /\ P[j] = [type |-> "attachment", attachmentId |-> idAt(j)]
    <3>1. PICK k \in FilesIn(content) : P[j] = content[k]
      BY <2>1, <2>4 DEF Parted
    <3>2. k \in 1..N /\ ~IsText(content[k])
      BY <3>1 DEF FilesIn
    <3>3. content[k] = [type |-> "attachment", attachmentId |-> content[k].attachmentId]
      BY <1>1, <3>2
    <3>4. content[k].attachmentId \in IdsIn(content)
      BY <1>1, IdsAre
    <3> QED
      BY <3>1, <3>3, <3>4
  <2>5. IsSequence(B) /\ Len(B) = Len(P)
    <3>1. B = [j \in 1..Len(P) |-> B[j]]
      BY <2>3
    <3> HIDE DEF B
    <3> QED
      BY <2>2, <3>1, FunctionIs
  <2>6. \A j \in 1..Len(P) : B[j] = IF IsText(P[j]) THEN P[j] ELSE attached[idAt(j)]
    BY <2>3
  <2> HIDE DEF B, idAt
  <2>7. \A j \in 1..Len(P) : ~IsText(P[j]) => IsAttachment(B[j])
    BY <2>4, <2>6
  <2>8. \A j \in 1..Len(P) : IsText(P[j]) => B[j] = P[j] /\ IsText(B[j]) /\ IsLines(B[j])
    BY <2>1, <2>6 DEF Parted
  <2>9. PlacesIn(B) = {j \in 1..Len(P) : ~IsText(P[j])}
    BY <2>5, <2>7, <2>8, KindsOfParts DEF PlacesIn
  <2>10. PlacesIn(B) # {}
    <3>1. PICK k \in 1..N : ~IsText(content[k])
      BY <1>3
    <3>2. k \in FilesIn(content) /\ k <= N
      BY <1>1, <3>1 DEF FilesIn
    <3>3. PICK j \in 1..Len(P) : P[j] = content[k]
      BY <2>1, <3>2 DEF Parted
    <3> QED
      BY <2>9, <3>1, <3>3
  <2>11. ASSUME NEW j \in 1..(Len(B) - 1) PROVE ~(IsText(B[j]) /\ IsText(B[j + 1]))
    <3>1. j \in 1..Len(P) /\ j + 1 \in 1..Len(P) /\ j \in 1..(Len(P) - 1)
      BY <2>2, <2>5
    <3>2. ~(IsText(P[j]) /\ IsText(P[j + 1]))
      BY <2>1, <3>1 DEF Parted
    <3> QED
      BY <2>7, <3>1, <3>2, KindsOfParts
  <2>12. IsBody(B)
    <3>1. \A j \in 1..Len(B) : (IsText(B[j]) /\ IsLines(B[j])) \/ IsAttachment(B[j])
      BY <2>5, <2>7, <2>8
    <3> QED
      BY <2>5, <2>10, <2>11, <3>1 DEF IsBody
  <2>13. BodyFrom(B, content, attached)
    <3> DEFINE at == [j \in PlacesIn(B) |-> idAt(j)]
    <3>1. at \in [PlacesIn(B) -> IdsIn(content)]
      BY <2>4, <2>9
    <3>2. \A j \in PlacesIn(B) : B[j] = attached[at[j]]
      BY <2>6, <2>9
    <3>3. ASSUME NEW j \in PlacesIn(B), NEW k \in PlacesIn(B), at[j] = at[k] PROVE j = k
      <4>1. /\ j \in 1..Len(P) /\ ~IsText(P[j]) /\ k \in 1..Len(P) /\ ~IsText(P[k])
            /\ idAt(j) = idAt(k)
        BY <2>9, <3>3
      <4>2. P[j] = P[k]
        BY <2>4, <4>1
      <4> QED
        BY <2>1, <4>1, <4>2 DEF Parted
    <3>4. ASSUME NEW id \in IdsIn(content) PROVE \E j \in PlacesIn(B) : at[j] = id
      <4>1. PICK k \in FilesIn(content) : content[k].attachmentId = id
        BY <1>1, IdsAre
      <4>2. k <= N /\ ~IsText(content[k])
        BY <1>1 DEF FilesIn
      <4>3. PICK j \in 1..Len(P) : P[j] = content[k]
        BY <2>1, <4>2 DEF Parted
      <4>4. j \in PlacesIn(B) /\ at[j] = id
        BY <2>9, <4>1, <4>2, <4>3 DEF idAt
      <4> QED
        BY <4>4
    <3> HIDE DEF at
    <3> QED
      BY <3>1, <3>2, <3>3, <3>4 DEF BodyFrom
  <2> QED
    BY <2>12, <2>13 DEF B
<1> QED
  BY <1>2, <1>3

(* What is written of a body is read as that body again.                   *)
LEMMA CoalescedAgain ==
  ASSUME NEW content, IsSequence(content),
         \A j \in 1..(Len(content) - 1) : ~(IsText(content[j]) /\ IsText(content[j + 1]))
  PROVE  Coalesced(content) = content
<1> DEFINE N == Len(content)
           V == ToSet(content)
<1>1. content \in Seq(V) /\ N \in Nat
  BY SequenceType
<1>2. PICK f : Joins(f, content, N) /\ Coalesced(content) = f[N]
  BY <1>1, CoalescedJoins
<1>3. \A k \in 0..N : /\ SubSeq(content, 1, k) \in Seq(V) /\ Len(SubSeq(content, 1, k)) = k
                      /\ SubSeq(content, 1, k) = [i \in 1..k |-> content[i]]
  BY <1>1, Firsts
<1> DEFINE S == {m \in Nat : m <= N => f[m] = SubSeq(content, 1, m)}
<1> HIDE DEF N, V
<1>4. 0 \in S
  <2>1. f[0] = <<>>
    BY <1>1, <1>2 DEF Joins
  <2>2. 0 \in 0..N
    BY <1>1
  <2>3. SubSeq(content, 1, 0) = <<>>
    BY <1>3, <2>2, EmptySeq
  <2> QED
    BY <2>1, <2>3
<1>5. ASSUME NEW m \in Nat, m \in S PROVE m + 1 \in S
  <2> SUFFICES ASSUME m + 1 <= N PROVE f[m + 1] = SubSeq(content, 1, m + 1)
    OBVIOUS
  <2> DEFINE s == SubSeq(content, 1, m)
             t == SubSeq(content, 1, m + 1)
             part == content[m + 1]
  <2>1. m <= N /\ m \in 0..N /\ m + 1 \in 0..N /\ m + 1 # 0 /\ (m + 1) - 1 = m /\ m + 1 \in 1..N
    BY <1>1
  <2>2. f[m + 1] = Joining(f[m], part) /\ f[m] = s
    BY <1>2, <1>5, <2>1 DEF Joins
  <2>3. /\ s \in Seq(V) /\ Len(s) = m /\ s = [i \in 1..m |-> content[i]]
        /\ t \in Seq(V) /\ Len(t) = m + 1 /\ t = [i \in 1..(m + 1) |-> content[i]]
    BY <1>3, <2>1
  <2>4. part \in V
    BY <1>1, <2>1, ElementOfSeq DEF N
  <2> HIDE DEF s, t
  <2>5. ~(IsText(part) /\ s # <<>> /\ IsText(Last(s)))
    <3> SUFFICES ASSUME IsText(part), s # <<>>, IsText(Last(s)) PROVE FALSE
      OBVIOUS
    <3>1. m # 0
      BY <2>3, EmptySeq
    <3>2. m \in 1..(N - 1) /\ m \in 1..m
      BY <1>1, <2>1, <3>1
    <3>3. Last(s) = content[m]
      BY <2>3, <3>2 DEF Last
    <3> QED
      BY <3>2, <3>3 DEF N
  <2>6. f[m + 1] = Append(s, part)
    BY <2>2, <2>5 DEF Joining
  <2> HIDE DEF part
  <2>7. /\ Append(s, part) \in Seq(V) /\ Len(Append(s, part)) = m + 1
        /\ \A i \in 1..m : Append(s, part)[i] = s[i]
        /\ Append(s, part)[m + 1] = part
    BY <2>3, <2>4, AppendProperties
  <2>8. ASSUME NEW i \in 1..(m + 1) PROVE Append(s, part)[i] = t[i]
    <3>1. i = m + 1 \/ i \in 1..m
      OBVIOUS
    <3> QED
      BY <2>3, <2>7, <3>1 DEF part
  <2>9. Append(s, part) = t
    BY <2>3, <2>7, <2>8, SeqEqual
  <2> QED
    BY <2>6, <2>9 DEF t
<1>6. N \in S
  <2> HIDE DEF S
  <2> QED
    BY <1>1, <1>4, <1>5, EveryNat
<1>7. SubSeq(content, 1, N) = content
  <2>1. N \in 0..N /\ N <= N
    BY <1>1
  <2>2. content = [i \in 1..N |-> content[i]]
    BY DEF IsSequence, N
  <2> QED
    BY <1>3, <2>1, <2>2
<1>8. N <= N
  BY <1>1
<1> QED
  BY <1>2, <1>6, <1>7, <1>8

LEMMA ReadAgain ==
  ASSUME NEW body, IsBody(body), NEW locals, NEW attached,
         NEW content, content = [j \in 1..Len(body) |->
           IF IsText(body[j]) THEN body[j]
           ELSE [type |-> "attachment", attachmentId |-> locals[j]]]
  PROVE  CanonicalBody(content, attached) =
           [j \in 1..Len(body) |-> IF IsText(body[j]) THEN body[j] ELSE attached[locals[j]]]
<1> DEFINE N == Len(body)
<1>1. /\ IsSequence(body) /\ N \in Nat /\ DOMAIN body = 1..N
      /\ \A j \in 1..N : (IsText(body[j]) /\ IsLines(body[j])) \/ IsAttachment(body[j])
      /\ PlacesIn(body) = {} => IsOneText(body)
      /\ \A j \in 1..(N - 1) : ~(IsText(body[j]) /\ IsText(body[j + 1]))
  BY SequenceType DEF IsBody
<1>2. IsSequence(content) /\ Len(content) = N /\ DOMAIN content = 1..N
  <2>1. content = [j \in 1..N |-> content[j]]
    OBVIOUS
  <2>2. DOMAIN content = 1..N
    OBVIOUS
  <2> QED
    BY <1>1, <2>1, <2>2, FunctionIs
<1>3. ASSUME NEW j \in 1..N PROVE IsText(content[j]) <=> IsText(body[j])
  <2> DEFINE x == [type |-> "attachment", attachmentId |-> locals[j]]
  <2>1. x.type = "attachment"
    OBVIOUS
  <2> HIDE DEF x
  <2>2. ~IsText(x)
    BY <2>1 DEF IsText
  <2>3. content[j] = IF IsText(body[j]) THEN body[j] ELSE x
    BY DEF x
  <2> QED
    BY <2>2, <2>3
<1>4. CASE PlacesIn(body) = {}
  <2>1. \A j \in 1..N : IsText(body[j])
    BY <1>1, <1>4 DEF PlacesIn
  <2>2. body = [j \in 1..N |-> body[j]]
    BY <1>1 DEF IsSequence
  <2>3. content = body
    BY <2>1, <2>2
  <2>4. CanonicalBody(content, attached) = JoinedText(content)
    BY <1>2, <1>3, <2>1 DEF CanonicalBody
  <2>5. JoinedText(content) = body
    BY <1>1, <1>4, <2>3, JoinedAgain
  <2>6. [j \in 1..N |-> IF IsText(body[j]) THEN body[j] ELSE attached[locals[j]]] = body
    BY <2>1, <2>2
  <2> QED
    BY <2>4, <2>5, <2>6
<1>5. CASE PlacesIn(body) # {}
  <2>1. PICK k \in 1..N : ~IsText(body[k])
    BY <1>5, KindsOfParts DEF PlacesIn
  <2>2. \A j \in 1..(N - 1) : j \in 1..N /\ j + 1 \in 1..N
    BY <1>1
  <2>3. Coalesced(content) = content
    BY <1>1, <1>2, <1>3, <2>2, CoalescedAgain
  <2>4. CanonicalBody(content, attached)
          = [j \in 1..N |-> IF IsText(content[j]) THEN content[j] ELSE attached[content[j].attachmentId]]
    BY <1>2, <1>3, <2>1, <2>3 DEF CanonicalBody
  <2>5. \A j \in 1..N : /\ IsText(body[j]) => content[j] = body[j]
                        /\ ~IsText(body[j]) => content[j].attachmentId = locals[j]
    OBVIOUS
  <2>6. \A j \in 1..N : (IF IsText(content[j]) THEN content[j] ELSE attached[content[j].attachmentId])
                         = (IF IsText(body[j]) THEN body[j] ELSE attached[locals[j]])
    BY <1>3, <2>5
  <2> QED
    BY <2>4, <2>6
<1> QED
  BY <1>4, <1>5

-----------------------------------------------------------------------------
(* Every attachment of messages is one of the items, every item is one of  *)
(* them, and no two have the same reference.                               *)
PartOf(item) == AttachmentPart(item.local, item.kind, item)

Faithful(item) ==
  /\ item.name = item.file.name /\ IsName(item.name)
  /\ item.kind # "image" => item.mime = item.file.mime

Carried(messages, items) ==
  \A i \in 1..Len(messages) : \A j \in PlacesIn(messages[i].body) :
    \E n \in 1..Len(items) : messages[i].body[j] = PartOf(items[n]) /\ Faithful(items[n])

Covered(messages, items) ==
  \A n \in 1..Len(items) :
    \E i \in 1..Len(messages) : \E j \in PlacesIn(messages[i].body) :
      messages[i].body[j] = PartOf(items[n])

OneLocal(items) ==
  \A n, m \in 1..Len(items) : items[n].local = items[m].local => n = m

OneReference(messages) ==
  \A i, k \in 1..Len(messages) :
    \A j \in PlacesIn(messages[i].body), l \in PlacesIn(messages[k].body) :
      messages[i].body[j].reference = messages[k].body[l].reference => i = k /\ j = l

Bodied(messages) ==
  /\ IsSequence(messages)
  /\ \A i \in 1..Len(messages) :
       /\ IsBody(messages[i].body)
       /\ messages[i].role = "tool" \/ messages[i].calls # {} => IsOneText(messages[i].body)

LEMMA ReferenceOfPart ==
  ASSUME NEW reference, NEW kind, NEW item
  PROVE  /\ AttachmentPart(reference, kind, item).reference = reference
         /\ AttachmentPart(reference, kind, item).kind = kind
         /\ AttachmentPart(reference, kind, item).content = item.file.content
         /\ AttachmentPart(reference, kind, item).name = item.name
         /\ AttachmentPart(reference, kind, item).mime = item.mime
         /\ IsAttachment(AttachmentPart(reference, kind, item))
  BY DEF AttachmentPart, IsAttachment

LEMMA ItemFound ==
  ASSUME NEW items, Len(items) \in Nat, NEW n \in 1..Len(items),
         \A m \in 1..Len(items) : items[m].local = items[n].local => m = n
  PROVE  ItemFor(items, items[n].local) = n
<1> DEFINE I == {i \in 1..Len(items) : items[i].local = items[n].local}
<1>1. I = {n}
  OBVIOUS
<1>2. ItemFor(items, items[n].local) = IF I # {} THEN Max(I) ELSE 0
  BY DEF ItemFor, SelectLastInSeq
<1>3. n \in Int
  OBVIOUS
<1>4. Max({n}) = n
  BY <1>3 DEF Max
<1> QED
  BY <1>1, <1>2, <1>4

-----------------------------------------------------------------------------
(* What a client encloses, on its way to the canonical messages.           *)
TurnsOf(c)      == Picked(c.items, IsTurnItem)
EnclosuresIn(c) == EnclosuresOf(TurnsOf(c))

LEMMA TurnsAre ==
  ASSUME NEW c, WellMade(c)
  PROVE  /\ TurnsOf(c) \in Seq(ToSet(c.items)) /\ Len(TurnsOf(c)) \in Nat
         /\ DOMAIN TurnsOf(c) = 1..Len(TurnsOf(c))
         /\ \A i \in 1..Len(TurnsOf(c)) : WellFormed(TurnsOf(c)[i])
<1> DEFINE J == {j \in 1..Len(c.items) : IsTurnItem(c.items[j])}
<1>1. IsSequence(c.items) /\ \A item \in ToSet(c.items) : WellFormed(item)
  BY DEF WellMade
<1>2. TurnsOf(c) = Picks(c.items, J)
  BY <1>1, PickedIs DEF TurnsOf
<1>3. c.items \in Seq(ToSet(c.items))
  BY <1>1, SequenceType
<1>4. Picks(c.items, J) \in Seq(ToSet(c.items))
  BY <1>3, PicksAt
<1> QED
  BY <1>1, <1>2, <1>4, LenProperties, ElementOfSeq

LEMMA EnclosuresAre ==
  ASSUME NEW c, WellMade(c)
  PROVE  /\ IsSequence(EnclosuresIn(c)) /\ Len(EnclosuresIn(c)) \in Nat
         /\ \A i \in 1..Len(TurnsOf(c)) : \A j \in EnclosedIn(TurnsOf(c)[i]) :
              /\ AttachmentNumber(TurnsOf(c), i, j) \in 1..Len(EnclosuresIn(c))
              /\ EnclosuresIn(c)[AttachmentNumber(TurnsOf(c), i, j)] = TurnsOf(c)[i].content[j]
         /\ \A i, k \in 1..Len(TurnsOf(c)) :
              \A j \in EnclosedIn(TurnsOf(c)[i]), l \in EnclosedIn(TurnsOf(c)[k]) :
                AttachmentNumber(TurnsOf(c), i, j) = AttachmentNumber(TurnsOf(c), k, l) => i = k /\ j = l
<1> DEFINE t == TurnsOf(c)
<1>1. t \in Seq(ToSet(c.items)) /\ \A i \in 1..Len(t) : IsSequence(t[i].content)
  BY TurnsAre DEF WellFormed
<1> HIDE DEF t
<1>2. /\ IsSequence(EnclosuresOf(t))
      /\ \A i \in 1..Len(t) : \A j \in EnclosedIn(t[i]) :
           /\ AttachmentNumber(t, i, j) \in 1..Len(EnclosuresOf(t))
           /\ EnclosuresOf(t)[AttachmentNumber(t, i, j)] = t[i].content[j]
      /\ \A i, k \in 1..Len(t) : \A j \in EnclosedIn(t[i]), l \in EnclosedIn(t[k]) :
           AttachmentNumber(t, i, j) = AttachmentNumber(t, k, l) => i = k /\ j = l
  BY <1>1, NumbersAre
<1>3. Len(EnclosuresOf(t)) \in Nat
  BY <1>2 DEF IsSequence
<1> QED
  BY <1>2, <1>3 DEF t, EnclosuresIn

(* Everything that is enclosed is resolved, under its number.              *)
LEMMA ResolvedAre ==
  ASSUME NEW c, WellMade(c)
  PROVE  /\ IsSequence(c.resolved) /\ Len(c.resolved) = Len(EnclosuresIn(c))
         /\ Len(c.resolved) \in Nat /\ DOMAIN c.resolved = 1..Len(c.resolved)
         /\ \A n \in 1..Len(c.resolved) :
              c.resolved[n] = Resolved("turn", Descriptor(n, EnclosuresIn(c)[n]))
<1> DEFINE E == EnclosuresIn(c)
           a == [n \in 1..Len(E) |-> Descriptor(n, E[n])]
           R(n) == Resolved("turn", Descriptor(n, E[n]))
<1>1. IsSequence(E) /\ Len(E) \in Nat /\ DOMAIN E = 1..Len(E)
  BY EnclosuresAre, SequenceType
<1>2. Normalized(c.items, <<>>).attachments = a
  BY <1>1 DEF Normalized, AttachmentsOf, EnclosuresIn, TurnsOf
<1>3. c.resolved = ResolveAll("turn", Normalized(c.items, <<>>).attachments)
  BY DEF WellMade
<1> HIDE DEF E
<1>4. DOMAIN a = 1..Len(E) /\ \A n \in 1..Len(E) : Resolved("turn", a[n]) = R(n)
  OBVIOUS
<1>5. ResolveAll("turn", a) = [n \in 1..Len(E) |-> R(n)]
  BY <1>4 DEF ResolveAll
<1> HIDE DEF R, a
<1>6. c.resolved = [n \in 1..Len(E) |-> R(n)]
  BY <1>2, <1>3, <1>5
<1>7. c.resolved = [n \in 1..Len(E) |-> c.resolved[n]] /\ DOMAIN c.resolved = 1..Len(E)
  BY <1>6
<1>8. IsSequence(c.resolved) /\ Len(c.resolved) = Len(E)
  BY <1>1, <1>7, FunctionIs
<1> QED
  BY <1>1, <1>6, <1>7, <1>8 DEF E, R

(* What the resolver makes of an enclosure: what is in it stays.           *)
LEMMA ResolvedIs ==
  ASSUME NEW n, NEW part,
         NEW byId, byId <=> part.type \in {"image_file", "file_id"},
         byId \/ part.type \in {"image_url", "file_data"},
         "file" \in DOMAIN part.value <=> byId,
         IsName(IF byId THEN part.value.file.name ELSE part.value.name)
  PROVE  LET item == Resolved("turn", Descriptor(n, part))
         IN  /\ item.local = AttachmentId(n) /\ item.file.content = ContentOf(part.value)
             /\ item.name = item.file.name /\ IsName(item.name)
             /\ item.kind # "image" => item.mime = item.file.mime
<1> DEFINE att == Descriptor(n, part)
           item == Resolved("turn", att)
<1>1. /\ att.id = AttachmentId(n) /\ att.value = part.value
      /\ byId => att.source = "file_id"
      /\ ~byId => att.source \in {"data_url", "url", "base64"}
  BY DEF Descriptor
<1> HIDE DEF att
<1>2. /\ item.local = att.id /\ item.file = FileOf("turn", att) /\ item.name = FileOf("turn", att).name
      /\ item.kind = att.kind
      /\ item.mime = IF att.kind = "image" THEN att.value.detected ELSE FileOf("turn", att).mime
  BY DEF Resolved
<1>3. byId => FileOf("turn", att) = part.value.file
  BY <1>1 DEF FileOf
<1>4. ~byId => /\ FileOf("turn", att).content = part.value.content
               /\ FileOf("turn", att).name = part.value.name
  <2>1. CASE att.source \in {"data_url", "url"}
    <3>1. FileOf("turn", att) = PrivateFile("turn", att.id, att.value, att.value.detected)
      BY <2>1 DEF FileOf
    <3> QED
      BY <1>1, <3>1 DEF PrivateFile
  <2>2. CASE att.source = "base64"
    <3>1. FileOf("turn", att) = PrivateFile("turn", att.id, att.value, NoType)
      BY <2>2 DEF FileOf
    <3> QED
      BY <1>1, <3>1 DEF PrivateFile
  <2> QED
    BY <1>1, <2>1, <2>2
<1>5. item.file.content = ContentOf(part.value)
  BY <1>2, <1>3, <1>4 DEF ContentOf
<1>6. IsName(item.name)
  BY <1>2, <1>3, <1>4
<1> QED
  BY <1>1, <1>2, <1>5, <1>6 DEF att

LEMMA ItemsOfRequest ==
  ASSUME NEW c, WellMade(c), NEW i \in 1..Len(TurnsOf(c)), NEW j \in EnclosedIn(TurnsOf(c)[i])
  PROVE  LET n == AttachmentNumber(TurnsOf(c), i, j)
             item == c.resolved[n]
         IN  /\ n \in 1..Len(c.resolved)
             /\ item.local = AttachmentId(n)
             /\ item.file.content = ContentOf(TurnsOf(c)[i].content[j].value)
             /\ item.name = item.file.name /\ IsName(item.name)
             /\ item.kind # "image" => item.mime = item.file.mime
<1> DEFINE n == AttachmentNumber(TurnsOf(c), i, j)
           part == TurnsOf(c)[i].content[j]
           byId == part.type \in {"image_file", "file_id"}
<1>1. n \in 1..Len(EnclosuresIn(c)) /\ EnclosuresIn(c)[n] = part
  BY EnclosuresAre
<1>2. n \in 1..Len(c.resolved) /\ c.resolved[n] = Resolved("turn", Descriptor(n, part))
  BY <1>1, ResolvedAre
<1>3. part \in ToSet(TurnsOf(c)[i].content) /\ ~IsText(part) /\ WellFormed(TurnsOf(c)[i])
  <2>1. WellFormed(TurnsOf(c)[i])
    BY TurnsAre
  <2>2. DOMAIN TurnsOf(c)[i].content = 1..Len(TurnsOf(c)[i].content)
    BY <2>1, SequenceType DEF WellFormed
  <2> QED
    BY <2>1, <2>2 DEF EnclosedIn, IsEnclosure, ToSet
<1>4. /\ byId \/ part.type \in {"image_url", "file_data"}
      /\ "file" \in DOMAIN part.value <=> byId
      /\ IsName(IF byId THEN part.value.file.name ELSE part.value.name)
  BY <1>3 DEF WellFormed
<1> HIDE DEF n, part
<1>5. LET item == Resolved("turn", Descriptor(n, part))
      IN  /\ item.local = AttachmentId(n) /\ item.file.content = ContentOf(part.value)
          /\ item.name = item.file.name /\ IsName(item.name)
          /\ item.kind # "image" => item.mime = item.file.mime
  BY <1>4, ResolvedIs
<1> QED
  BY <1>2, <1>5 DEF n, part

LEMMA LocalsOfRequest ==
  ASSUME NEW c, WellMade(c)
  PROVE  /\ \A n \in 1..Len(c.resolved) : c.resolved[n].local = AttachmentId(n)
         /\ \A n, m \in 1..Len(c.resolved) : c.resolved[n].local = c.resolved[m].local => n = m
         /\ \A n \in 1..Len(c.resolved) : ItemFor(c.resolved, AttachmentId(n)) = n
<1>1. ASSUME NEW n \in 1..Len(c.resolved) PROVE c.resolved[n].local = AttachmentId(n)
  <2> DEFINE att == Descriptor(n, EnclosuresIn(c)[n])
  <2>1. c.resolved[n] = Resolved("turn", att)
    BY ResolvedAre
  <2>2. att.id = AttachmentId(n)
    BY DEF Descriptor
  <2> HIDE DEF att
  <2>3. Resolved("turn", att).local = att.id
    BY DEF Resolved
  <2> QED
    BY <2>1, <2>2, <2>3
<1>2. \A n, m \in Nat : AttachmentId(n) = AttachmentId(m) => n = m
  BY DEF AttachmentId
<1>3. Len(c.resolved) \in Nat
  BY ResolvedAre
<1>4. \A n, m \in 1..Len(c.resolved) : c.resolved[n].local = c.resolved[m].local => n = m
  BY <1>1, <1>2, <1>3
<1>5. ASSUME NEW n \in 1..Len(c.resolved) PROVE ItemFor(c.resolved, AttachmentId(n)) = n
  <2>1. ItemFor(c.resolved, c.resolved[n].local) = n
    BY <1>3, <1>4, ItemFound
  <2> QED
    BY <1>1, <2>1
<1> QED
  BY <1>1, <1>4, <1>5

(* The content of a request's message.                                     *)
LEMMA ContentsOfRequest ==
  ASSUME NEW c, WellMade(c), NEW i \in 1..Len(TurnsOf(c))
  PROVE  LET content == NormalizedContent(TurnsOf(c), i)
         IN  /\ IsContent(content)
             /\ \A id \in IdsIn(content) : \E j \in EnclosedIn(TurnsOf(c)[i]) :
                  id = AttachmentId(AttachmentNumber(TurnsOf(c), i, j))
             /\ \A j \in EnclosedIn(TurnsOf(c)[i]) :
                  AttachmentId(AttachmentNumber(TurnsOf(c), i, j)) \in IdsIn(content)
<1> DEFINE content == NormalizedContent(TurnsOf(c), i)
           said == TurnsOf(c)[i].content
           N == Len(said)
           idOf(j) == AttachmentId(AttachmentNumber(TurnsOf(c), i, j))
           E == EnclosedIn(TurnsOf(c)[i])
<1>1. WellFormed(TurnsOf(c)[i])
  BY TurnsAre
<1>2. /\ IsSequence(said) /\ N \in Nat /\ DOMAIN said = 1..N
      /\ \A j \in 1..N : said[j] \in ToSet(said)
  BY <1>1, SequenceType DEF WellFormed, ToSet
<1>3. \A j \in 1..N : IsText(said[j]) => IsLines(said[j])
  BY <1>1, <1>2 DEF WellFormed
<1>4. content = [j \in 1..N |-> IF IsText(said[j]) THEN said[j]
                                ELSE [type |-> "attachment", attachmentId |-> idOf(j)]]
  BY <1>2 DEF NormalizedContent
<1>5. E = {j \in 1..N : ~IsText(said[j])}
  BY DEF EnclosedIn, IsEnclosure
<1>6. \A j, k \in E : idOf(j) = idOf(k) => j = k
  <2> SUFFICES ASSUME NEW j \in E, NEW k \in E, idOf(j) = idOf(k) PROVE j = k
    OBVIOUS
  <2> DEFINE x == AttachmentNumber(TurnsOf(c), i, j)
             y == AttachmentNumber(TurnsOf(c), i, k)
  <2>1. x \in 1..Len(EnclosuresIn(c)) /\ y \in 1..Len(EnclosuresIn(c)) /\ AttachmentId(x) = AttachmentId(y)
    BY EnclosuresAre
  <2> HIDE DEF x, y
  <2>2. x = y
    BY <2>1 DEF AttachmentId
  <2> QED
    BY <2>2, EnclosuresAre DEF x, y
<1> HIDE DEF content, said, N, idOf, E
<1>7. \A j \in 1..N : /\ IsText(said[j]) => content[j] = said[j]
                      /\ ~IsText(said[j]) =>
                           /\ content[j] = [type |-> "attachment", attachmentId |-> idOf(j)]
                           /\ ~IsText(content[j]) /\ content[j].attachmentId = idOf(j)
  <2> SUFFICES ASSUME NEW j \in 1..N
               PROVE  /\ IsText(said[j]) => content[j] = said[j]
                      /\ ~IsText(said[j]) =>
                           /\ content[j] = [type |-> "attachment", attachmentId |-> idOf(j)]
                           /\ ~IsText(content[j]) /\ content[j].attachmentId = idOf(j)
    OBVIOUS
  <2> DEFINE x == [type |-> "attachment", attachmentId |-> idOf(j)]
  <2>1. x.type = "attachment" /\ x.attachmentId = idOf(j)
    OBVIOUS
  <2>2. content[j] = IF IsText(said[j]) THEN said[j] ELSE x
    BY <1>4
  <2> QED
    BY <2>1, <2>2 DEF IsText
<1>8. IsSequence(content) /\ Len(content) = N /\ DOMAIN content = 1..N
  <2>1. content = [j \in 1..N |-> content[j]] /\ DOMAIN content = 1..N
    BY <1>4
  <2> QED
    BY <1>2, <2>1, FunctionIs
<1>9. \A j \in 1..N : IsText(content[j]) <=> IsText(said[j])
  BY <1>7
<1>10. IsContent(content)
  <2>1. ASSUME NEW j \in 1..N
        PROVE  IF IsText(content[j]) THEN IsLines(content[j])
               ELSE content[j] = [type |-> "attachment", attachmentId |-> content[j].attachmentId]
    BY <1>3, <1>7, <1>9
  <2>2. ASSUME NEW j \in 1..N, NEW k \in 1..N, ~IsText(content[j]), ~IsText(content[k]),
               content[j] = content[k]
        PROVE  j = k
    <3>1. j \in E /\ k \in E /\ idOf(j) = idOf(k)
      BY <1>5, <1>7, <1>9, <2>2
    <3> QED
      BY <1>6, <3>1
  <2> QED
    BY <1>8, <2>1, <2>2 DEF IsContent
<1>11. FilesIn(content) = E
  BY <1>5, <1>8, <1>9 DEF FilesIn
<1>12. \A id \in IdsIn(content) : \E j \in E : id = idOf(j)
  BY <1>5, <1>7, <1>8, <1>11, IdsAre
<1>13. \A j \in E : idOf(j) \in IdsIn(content)
  BY <1>5, <1>7, <1>8, <1>11, IdsAre
<1> QED
  BY <1>10, <1>12, <1>13 DEF content, idOf, E

LEMMA MessagesOfRequest ==
  ASSUME NEW c, WellMade(c), NEW i \in 1..Len(TurnsOf(c)),
         NEW m, m = c.request.messages[i]
  PROVE  LET turn     == TurnsOf(c)[i]
             content  == NormalizedContent(TurnsOf(c), i)
             attached == [id \in IdsIn(content) |->
                            LET item == c.resolved[ItemFor(c.resolved, id)]
                            IN  AttachmentPart(id, item.kind, item)]
         IN  /\ m.role = turn.role /\ m.calls = ToSet(turn.calls) /\ m.answers = turn.answers
             /\ m.body = IF turn.role = "tool" \/ turn.calls # <<>>
                         THEN JoinedText(content) ELSE CanonicalBody(content, attached)
<1> DEFINE t == TurnsOf(c)
           norm == Normalized(c.items, <<>>)
           message(k) == [role    |-> t[k].role,
                          content |-> NormalizedContent(t, k),
                          calls   |-> t[k].calls,
                          answers |-> t[k].answers]
<1>1. norm.messages = [k \in DOMAIN t |-> message(k)]
  BY DEF Normalized, TurnsOf
<1>2. DOMAIN t = 1..Len(t)
  BY TurnsAre
<1>3. c.request.messages = CanonicalMessages(norm, c.resolved)
  BY DEF WellMade
<1> HIDE DEF t, norm
<1>4. i \in DOMAIN t
  BY <1>2 DEF t
<1>5. m = CanonicalMessage(message(i), c.resolved)
  <2> HIDE DEF message
  <2>1. CanonicalMessages(norm, c.resolved)
          = [k \in DOMAIN norm.messages |-> CanonicalMessage(norm.messages[k], c.resolved)]
    BY DEF CanonicalMessages
  <2>2. i \in DOMAIN norm.messages /\ norm.messages[i] = message(i)
    BY <1>1, <1>4
  <2> QED
    BY <1>3, <2>1, <2>2
<1> DEFINE x == message(i)
<1>6. x.role = t[i].role /\ x.content = NormalizedContent(t, i) /\ x.calls = t[i].calls /\ x.answers = t[i].answers
  OBVIOUS
<1> HIDE DEF x, message
<1>7. m = CanonicalMessage(x, c.resolved)
  BY <1>5 DEF x
<1> QED
  BY <1>6, <1>7 DEF CanonicalMessage, t

LEMMA LengthOfRequest ==
  ASSUME NEW c, WellMade(c)
  PROVE  /\ IsSequence(c.request.messages) /\ Len(c.request.messages) = Len(TurnsOf(c))
<1> DEFINE t == TurnsOf(c)
           norm == Normalized(c.items, <<>>)
           M == c.request.messages
<1>1. DOMAIN norm.messages = DOMAIN t
  BY DEF Normalized, TurnsOf
<1>2. DOMAIN t = 1..Len(t) /\ Len(t) \in Nat
  BY TurnsAre
<1>3. M = CanonicalMessages(norm, c.resolved)
  BY DEF WellMade
<1> HIDE DEF t, norm
<1>4. DOMAIN M = 1..Len(t) /\ M = [k \in DOMAIN M |-> M[k]]
  BY <1>1, <1>2, <1>3 DEF CanonicalMessages
<1> HIDE DEF M
<1>5. M = [k \in 1..Len(t) |-> M[k]]
  BY <1>4
<1>6. IsSequence(M) /\ Len(M) = Len(t)
  BY <1>2, <1>5, FunctionIs
<1> QED
  BY <1>6 DEF M, t

(* Every place of a request's message comes from an enclosure of its item, *)
(* and every enclosure gets one, but in the output of a function.          *)
IsPlain(turn) == turn.role = "tool" \/ turn.calls # <<>>

PartFor(c, i, k) ==
  LET n == AttachmentNumber(TurnsOf(c), i, k)
  IN  AttachmentPart(AttachmentId(n), c.resolved[n].kind, c.resolved[n])

PlacedFrom(c, i, body, at) ==
  /\ at \in [PlacesIn(body) -> EnclosedIn(TurnsOf(c)[i])]
  /\ \A j \in PlacesIn(body) : body[j] = PartFor(c, i, at[j])
  /\ \A j, l \in PlacesIn(body) : at[j] = at[l] => j = l
  /\ ~IsPlain(TurnsOf(c)[i]) =>
       \A k \in EnclosedIn(TurnsOf(c)[i]) : \E j \in PlacesIn(body) : at[j] = k

LEMMA PlacesOfRequest ==
  ASSUME NEW c, WellMade(c), NEW i \in 1..Len(TurnsOf(c)), NEW m, m = c.request.messages[i]
  PROVE  /\ IsBody(m.body)
         /\ IsPlain(TurnsOf(c)[i]) => IsOneText(m.body)
         /\ \E at : PlacedFrom(c, i, m.body, at)
<1> DEFINE t == TurnsOf(c)
           turn == t[i]
           plain == IsPlain(turn)
           content  == NormalizedContent(t, i)
           attached == [id \in IdsIn(content) |->
                          LET item == c.resolved[ItemFor(c.resolved, id)]
                          IN  AttachmentPart(id, item.kind, item)]
           numberOf(k) == AttachmentNumber(t, i, k)
           Part(k) == PartFor(c, i, k)
           E == EnclosedIn(turn)
           B == m.body
<1>1. B = IF plain THEN JoinedText(content) ELSE CanonicalBody(content, attached)
  BY MessagesOfRequest DEF IsPlain
<1>2. /\ IsContent(content)
      /\ \A id \in IdsIn(content) : \E k \in E : id = AttachmentId(numberOf(k))
      /\ \A k \in E : AttachmentId(numberOf(k)) \in IdsIn(content)
  BY ContentsOfRequest
<1>3. \A k \in E : numberOf(k) \in 1..Len(c.resolved) /\ ItemFor(c.resolved, AttachmentId(numberOf(k))) = numberOf(k)
  <2>1. \A k \in E : numberOf(k) \in 1..Len(c.resolved)
    BY EnclosuresAre, ResolvedAre
  <2> QED
    BY <2>1, LocalsOfRequest
<1>4. \A k \in E : attached[AttachmentId(numberOf(k))] = Part(k)
  BY <1>2, <1>3 DEF PartFor
<1>5. \A j, k \in E : AttachmentId(numberOf(j)) = AttachmentId(numberOf(k)) => j = k
  <2> SUFFICES ASSUME NEW j \in E, NEW k \in E, AttachmentId(numberOf(j)) = AttachmentId(numberOf(k)) PROVE j = k
    OBVIOUS
  <2>1. numberOf(j) \in Nat /\ numberOf(k) \in Nat
    BY <1>3
  <2>2. numberOf(j) = numberOf(k)
    BY <2>1 DEF AttachmentId
  <2> QED
    BY <2>2, EnclosuresAre
<1> HIDE DEF t, content, attached, numberOf, E, B
<1>6. CASE plain
  <2>1. IsOneText(B)
    <3>1. IsSequence(content) /\ \A j \in 1..Len(content) : IsText(content[j]) => IsLines(content[j])
      BY <1>2, SequenceType DEF IsContent
    <3> QED
      BY <1>1, <1>6, <3>1, JoinedTextIs
  <2>2. IsBody(B) /\ PlacesIn(B) = {}
    BY <2>1, OneTextIsBody
  <2> DEFINE at == [j \in {} |-> 0]
  <2>3. at \in [PlacesIn(B) -> E]
    BY <2>2
  <2>4. PlacedFrom(c, i, B, at)
    <3> HIDE DEF at
    <3> QED
      BY <1>6, <2>2, <2>3 DEF PlacedFrom, E, t
  <2> QED
    BY <2>1, <2>2, <2>4 DEF B
<1>7. CASE ~plain
  <2>1. \A id \in IdsIn(content) : IsAttachment(attached[id])
    <3>1. \A k \in E : IsAttachment(Part(k))
      BY ReferenceOfPart DEF PartFor
    <3> QED
      BY <1>2, <1>4, <3>1
  <2>2. IsBody(B) /\ BodyFrom(B, content, attached)
    BY <1>1, <1>2, <1>7, <2>1, CanonicalBodyIs
  <2>3. PICK idAt \in [PlacesIn(B) -> IdsIn(content)] :
          /\ \A j \in PlacesIn(B) : B[j] = attached[idAt[j]]
          /\ \A j, k \in PlacesIn(B) : idAt[j] = idAt[k] => j = k
          /\ \A id \in IdsIn(content) : \E j \in PlacesIn(B) : idAt[j] = id
    BY <2>2 DEF BodyFrom
  <2> DEFINE at == [j \in PlacesIn(B) |-> CHOOSE k \in E : idAt[j] = AttachmentId(numberOf(k))]
  <2>4. \A j \in PlacesIn(B) : at[j] \in E /\ idAt[j] = AttachmentId(numberOf(at[j]))
    BY <1>2, <2>3
  <2>5. at \in [PlacesIn(B) -> E]
    BY <2>4
  <2> HIDE DEF at
  <2>6. \A j \in PlacesIn(B) : B[j] = Part(at[j])
    <3> HIDE DEF Part
    <3> QED
      BY <1>4, <2>3, <2>4
  <2>7. \A j, l \in PlacesIn(B) : at[j] = at[l] => j = l
    BY <2>3, <2>4
  <2>8. ASSUME NEW k \in E PROVE \E j \in PlacesIn(B) : at[j] = k
    <3>1. PICK j \in PlacesIn(B) : idAt[j] = AttachmentId(numberOf(k))
      BY <1>2, <2>3
    <3>2. at[j] = k
      BY <1>5, <2>4, <3>1
    <3> QED
      BY <3>2
  <2>9. PlacedFrom(c, i, B, at)
    BY <2>5, <2>6, <2>7, <2>8 DEF PlacedFrom, E, t
  <2> QED
    BY <1>7, <2>2, <2>9 DEF B, t
<1> QED
  BY <1>6, <1>7

LEMMA BodiedHasBodies ==
  ASSUME NEW messages, Bodied(messages)
  PROVE  HasBodies(messages) /\ Len(messages) \in Nat /\ DOMAIN messages = 1..Len(messages)
  BY SequenceType DEF Bodied, HasBodies, IsBody

LEMMA RequestIs ==
  ASSUME NEW c, WellMade(c)
  PROVE  /\ Bodied(c.request.messages)
         /\ Carried(c.request.messages, c.resolved)
         /\ OneReference(c.request.messages)
<1> DEFINE M == c.request.messages
           t == TurnsOf(c)
           numberOf(i, k) == AttachmentNumber(t, i, k)
<1>1. IsSequence(M) /\ Len(M) = Len(t) /\ Len(t) \in Nat
  BY LengthOfRequest, TurnsAre
<1>2. ASSUME NEW i \in 1..Len(t)
      PROVE  /\ IsBody(M[i].body)
             /\ M[i].role = "tool" \/ M[i].calls # {} => IsOneText(M[i].body)
  <2>1. IsBody(M[i].body) /\ (t[i].role = "tool" \/ t[i].calls # <<>> => IsOneText(M[i].body))
    BY PlacesOfRequest DEF IsPlain
  <2>2. M[i].role = t[i].role /\ M[i].calls = ToSet(t[i].calls)
    BY MessagesOfRequest
  <2>3. t[i].calls = <<>> => ToSet(t[i].calls) = {}
    BY DEF ToSet
  <2> QED
    BY <2>1, <2>2, <2>3
<1>3. Bodied(M)
  BY <1>1, <1>2 DEF Bodied
<1>4. ASSUME NEW i \in 1..Len(t)
      PROVE  \E at \in [PlacesIn(M[i].body) -> EnclosedIn(t[i])] :
               /\ \A j \in PlacesIn(M[i].body) :
                    /\ numberOf(i, at[j]) \in 1..Len(c.resolved)
                    /\ M[i].body[j] = PartOf(c.resolved[numberOf(i, at[j])])
                    /\ Faithful(c.resolved[numberOf(i, at[j])])
                    /\ M[i].body[j].reference = AttachmentId(numberOf(i, at[j]))
               /\ \A j, l \in PlacesIn(M[i].body) : at[j] = at[l] => j = l
  <2> DEFINE m == M[i]
             Part(k) == PartFor(c, i, k)
  <2>1. PICK at : PlacedFrom(c, i, m.body, at)
    BY PlacesOfRequest
  <2>2. ASSUME NEW k \in EnclosedIn(t[i])
        PROVE  /\ numberOf(i, k) \in 1..Len(c.resolved)
               /\ Part(k) = PartOf(c.resolved[numberOf(i, k)])
               /\ Faithful(c.resolved[numberOf(i, k)])
               /\ Part(k).reference = AttachmentId(numberOf(i, k))
    <3> DEFINE n == numberOf(i, k)
    <3>1. /\ n \in 1..Len(c.resolved) /\ c.resolved[n].local = AttachmentId(n)
          /\ Faithful(c.resolved[n])
      BY ItemsOfRequest DEF Faithful
    <3>2. Part(k) = PartOf(c.resolved[n])
      BY <3>1 DEF PartOf, PartFor
    <3>3. Part(k).reference = AttachmentId(n)
      BY ReferenceOfPart DEF PartFor
    <3> QED
      BY <3>1, <3>2, <3>3
  <2> HIDE DEF numberOf
  <2>3. /\ at \in [PlacesIn(m.body) -> EnclosedIn(t[i])]
        /\ \A j \in PlacesIn(m.body) : at[j] \in EnclosedIn(t[i])
        /\ \A j \in PlacesIn(m.body) : m.body[j] = Part(at[j])
        /\ \A j, l \in PlacesIn(m.body) : at[j] = at[l] => j = l
    BY <2>1 DEF PlacedFrom
  <2> HIDE DEF Part, t, M
  <2>4. \A j \in PlacesIn(m.body) :
          /\ numberOf(i, at[j]) \in 1..Len(c.resolved)
          /\ m.body[j] = PartOf(c.resolved[numberOf(i, at[j])])
          /\ Faithful(c.resolved[numberOf(i, at[j])])
          /\ m.body[j].reference = AttachmentId(numberOf(i, at[j]))
    BY <2>2, <2>3
  <2> QED
    BY <2>3, <2>4
<1>5. Carried(M, c.resolved)
  BY <1>1, <1>4 DEF Carried
<1>6. OneReference(M)
  <2> SUFFICES ASSUME NEW i \in 1..Len(t), NEW k \in 1..Len(t),
                      NEW j \in PlacesIn(M[i].body), NEW l \in PlacesIn(M[k].body),
                      M[i].body[j].reference = M[k].body[l].reference
               PROVE  i = k /\ j = l
    BY <1>1 DEF OneReference
  <2>1. PICK at \in [PlacesIn(M[i].body) -> EnclosedIn(t[i])] :
               /\ \A q \in PlacesIn(M[i].body) :
                    /\ numberOf(i, at[q]) \in 1..Len(c.resolved)
                    /\ M[i].body[q].reference = AttachmentId(numberOf(i, at[q]))
               /\ \A q, r \in PlacesIn(M[i].body) : at[q] = at[r] => q = r
    BY <1>4
  <2>2. PICK bt \in [PlacesIn(M[k].body) -> EnclosedIn(t[k])] :
               \A q \in PlacesIn(M[k].body) :
                    /\ numberOf(k, bt[q]) \in 1..Len(c.resolved)
                    /\ M[k].body[q].reference = AttachmentId(numberOf(k, bt[q]))
    BY <1>4
  <2> DEFINE x == numberOf(i, at[j])
             y == numberOf(k, bt[l])
  <2>3. AttachmentId(x) = AttachmentId(y)
    BY <2>1, <2>2
  <2>4. at[j] \in EnclosedIn(t[i]) /\ bt[l] \in EnclosedIn(t[k])
    BY <2>1, <2>2
  <2>5. x = y
    <3> HIDE DEF x, y
    <3> QED
      BY <2>3 DEF AttachmentId
  <2>6. i = k /\ at[j] = bt[l]
    BY <2>4, <2>5, EnclosuresAre
  <2>7. CASE i = k
    <3>1. M[i].body[l].reference = AttachmentId(numberOf(i, at[l])) /\ at[l] \in EnclosedIn(t[i])
      BY <2>1, <2>7
    <3>2. AttachmentId(x) = AttachmentId(numberOf(i, at[l]))
      BY <2>1, <2>7, <3>1
    <3> DEFINE z == numberOf(i, at[l])
    <3>3. x = z
      <4>1. AttachmentId(x) = AttachmentId(z)
        BY <3>2
      <4> HIDE DEF x, z
      <4> QED
        BY <4>1 DEF AttachmentId
    <3>4. at[j] = at[l]
      BY <2>4, <3>1, <3>3, EnclosuresAre
    <3> QED
      BY <2>1, <2>7, <3>4
  <2> QED
    BY <2>6, <2>7
<1> QED
  BY <1>3, <1>5, <1>6

-----------------------------------------------------------------------------
(* Saved messages read back: every attachment with the File of its record. *)

(* Where an aggregate keeps what a message encloses under a local name.    *)
RecordOf(g, i, id) ==
  CHOOSE n \in DOMAIN g.attachments : /\ g.attachments[n].message = g.messages[i].id
                                      /\ g.attachments[n].local = id

LEMMA RecordsAre ==
  ASSUME NEW g, Filed(g)
  PROVE  /\ IsSequence(g.messages) /\ Len(g.messages) \in Nat
         /\ DOMAIN g.messages = 1..Len(g.messages)
         /\ IsSequence(g.attachments) /\ Len(g.attachments) \in Nat
         /\ DOMAIN g.attachments = 1..Len(g.attachments)
         /\ \A i \in 1..Len(g.messages) : \A id \in IdsIn(g.messages[i].content) :
              LET n == RecordOf(g, i, id)
              IN  /\ n \in 1..Len(g.attachments)
                  /\ g.attachments[n].message = g.messages[i].id /\ g.attachments[n].local = id
         /\ \A n \in 1..Len(g.attachments) :
              \E i \in 1..Len(g.messages) : \E id \in IdsIn(g.messages[i].content) :
                n = RecordOf(g, i, id)
<1> DEFINE ms == g.messages
           rs == g.attachments
<1>1. IsSequence(ms) /\ IsSequence(rs)
  BY DEF Filed
<1>2. Len(ms) \in Nat /\ DOMAIN ms = 1..Len(ms)
  <2> HIDE DEF ms
  <2> QED  BY <1>1, SequenceType
<1>3. Len(rs) \in Nat /\ DOMAIN rs = 1..Len(rs)
  <2> HIDE DEF rs
  <2> QED  BY <1>1, SequenceType
<1>4. \A n, m \in 1..Len(rs) : <<rs[n].message, rs[n].local>> = <<rs[m].message, rs[m].local>> => n = m
  BY <1>3 DEF Filed
<1>5. \A n \in 1..Len(rs) : \E i \in 1..Len(ms) :
        rs[n].message = ms[i].id /\ rs[n].local \in IdsIn(ms[i].content)
  BY <1>2, <1>3 DEF Filed
<1>6. ASSUME NEW i \in 1..Len(ms), NEW id \in IdsIn(ms[i].content)
      PROVE  \E n \in 1..Len(rs) : rs[n].message = ms[i].id /\ rs[n].local = id
  <2>1. \E n \in DOMAIN rs : <<rs[n].message, rs[n].local>> = <<ms[i].id, id>>
    BY <1>2 DEF Filed
  <2> QED  BY <1>3, <2>1
<1>7. \A i, id : RecordOf(g, i, id) = CHOOSE n \in 1..Len(rs) : rs[n].message = ms[i].id /\ rs[n].local = id
  BY <1>3 DEF RecordOf
<1> HIDE DEF ms, rs
<1>8. ASSUME NEW i \in 1..Len(ms), NEW id \in IdsIn(ms[i].content)
      PROVE  LET n == RecordOf(g, i, id)
             IN  n \in 1..Len(rs) /\ rs[n].message = ms[i].id /\ rs[n].local = id
  <2>1. \E n \in 1..Len(rs) : rs[n].message = ms[i].id /\ rs[n].local = id
    BY <1>6
  <2>2. RecordOf(g, i, id) = CHOOSE n \in 1..Len(rs) : rs[n].message = ms[i].id /\ rs[n].local = id
    BY <1>7
  <2> QED  BY <2>1, <2>2
<1>9. ASSUME NEW n \in 1..Len(rs)
      PROVE  \E i \in 1..Len(ms) : \E id \in IdsIn(ms[i].content) : n = RecordOf(g, i, id)
  <2>1. PICK i \in 1..Len(ms) : rs[n].message = ms[i].id /\ rs[n].local \in IdsIn(ms[i].content)
    BY <1>5
  <2>2. n = RecordOf(g, i, rs[n].local)
    BY <2>1, <1>8, <1>4
  <2> QED  BY <2>1, <2>2
<1> QED
  BY <1>1, <1>2, <1>3, <1>8, <1>9 DEF ms, rs

LEMMA RecordsDiffer ==
  ASSUME NEW g, Filed(g)
  PROVE  /\ \A i, k \in 1..Len(g.messages) :
              \A id \in IdsIn(g.messages[i].content), ie \in IdsIn(g.messages[k].content) :
                RecordOf(g, i, id) = RecordOf(g, k, ie) => i = k /\ id = ie
         /\ \A n, m \in 1..Len(g.attachments) : g.attachments[n].id = g.attachments[m].id => n = m
<1>1. \A i, k \in 1..Len(g.messages) : g.messages[i].id = g.messages[k].id => i = k
  BY RecordsAre DEF Filed
<1>2. \A n, m \in 1..Len(g.attachments) : g.attachments[n].id = g.attachments[m].id => n = m
  BY RecordsAre DEF Filed
<1>3. ASSUME NEW i \in 1..Len(g.messages), NEW k \in 1..Len(g.messages),
             NEW id \in IdsIn(g.messages[i].content), NEW ie \in IdsIn(g.messages[k].content),
             RecordOf(g, i, id) = RecordOf(g, k, ie)
      PROVE  i = k /\ id = ie
  <2>1. /\ g.attachments[RecordOf(g, i, id)].message = g.messages[i].id
        /\ g.attachments[RecordOf(g, i, id)].local = id
    BY RecordsAre
  <2>2. /\ g.attachments[RecordOf(g, k, ie)].message = g.messages[k].id
        /\ g.attachments[RecordOf(g, k, ie)].local = ie
    BY RecordsAre
  <2> QED  BY <1>1, <1>3, <2>1, <2>2
<1> QED
  BY <1>2, <1>3

(* What is retained of the records of an aggregate.                        *)
LEMMA RetainedAre ==
  ASSUME NEW g, Filed(g)
  PROVE  LET items == RetainStored(g)
         IN  /\ IsSequence(items) /\ Len(items) = Len(g.attachments) /\ Len(items) \in Nat
             /\ DOMAIN items = 1..Len(items)
             /\ \A n \in 1..Len(items) :
                  /\ items[n].local = StoredReference(g.attachments[n].id)
                  /\ items[n].kind = g.attachments[n].kind
                  /\ items[n].file = g.attachments[n].file
                  /\ items[n].source = g.attachments[n].source
                  /\ Faithful(items[n])
             /\ OneLocal(items)
<1> DEFINE rs == g.attachments
           items == RetainStored(g)
<1>1. IsSequence(rs) /\ Len(rs) \in Nat /\ DOMAIN rs = 1..Len(rs)
  BY RecordsAre
<1>2. items = [n \in 1..Len(rs) |->
                 [local |-> StoredReference(rs[n].id), kind |-> rs[n].kind, source |-> rs[n].source,
                  file |-> rs[n].file, name |-> rs[n].file.name, mime |-> rs[n].file.mime]]
  BY <1>1 DEF RetainStored
<1>3. \A n \in 1..Len(rs) : IsName(rs[n].file.name)
  BY <1>1 DEF Filed
<1>4. \A n, m \in 1..Len(rs) : rs[n].id = rs[m].id => n = m
  BY RecordsDiffer
<1> HIDE DEF items, rs
<1>5. IsSequence(items) /\ Len(items) = Len(rs)
  <2>1. items = [n \in 1..Len(rs) |-> items[n]]
    BY <1>2
  <2> QED  BY <1>1, <2>1, FunctionIs
<1>6. Len(items) \in Nat /\ DOMAIN items = 1..Len(items)
  BY <1>5, SequenceType
<1>7. \A n \in 1..Len(items) :
        /\ items[n].local = StoredReference(rs[n].id)
        /\ items[n].kind = rs[n].kind /\ items[n].file = rs[n].file /\ items[n].source = rs[n].source
        /\ items[n].name = rs[n].file.name /\ items[n].mime = rs[n].file.mime
  BY <1>2, <1>5
<1>8. \A n \in 1..Len(items) : Faithful(items[n])
  BY <1>3, <1>5, <1>7 DEF Faithful
<1>9. OneLocal(items)
  BY <1>4, <1>5, <1>7 DEF OneLocal, StoredReference
<1> QED
  BY <1>5, <1>6, <1>7, <1>8, <1>9 DEF items, rs

(* A stored message read back.                                             *)
ReadBack(g, i, m) ==
  LET record == g.messages[i]
      attached == [id \in IdsIn(record.content) |-> PartOf(RetainStored(g)[RecordOf(g, i, id)])]
  IN  /\ m.role = record.role /\ m.calls = record.calls /\ m.answers = record.answers
      /\ m = [role |-> m.role, body |-> m.body, calls |-> m.calls, answers |-> m.answers]
      /\ m.body = IF record.role = "tool" \/ record.calls # {}
                  THEN JoinedText(record.content) ELSE CanonicalBody(record.content, attached)

LEMMA StoredReadsBack ==
  ASSUME NEW g, Filed(g)
  PROVE  LET messages == CanonicalStored(g, RetainStored(g))
         IN  /\ IsSequence(messages) /\ Len(messages) = Len(g.messages)
             /\ \A i \in 1..Len(g.messages) : ReadBack(g, i, messages[i])
<1> DEFINE items == RetainStored(g)
           messages == CanonicalStored(g, items)
<1>1. Len(g.messages) \in Nat /\ DOMAIN g.messages = 1..Len(g.messages)
  BY RecordsAre
<1>2. messages = [i \in 1..Len(g.messages) |-> CanonicalStoredMessage(g, items, i)]
  BY <1>1 DEF CanonicalStored
<1>3. ASSUME NEW i \in 1..Len(g.messages)
      PROVE  ReadBack(g, i, CanonicalStoredMessage(g, items, i))
  <2> DEFINE record == g.messages[i]
             attached == [id \in IdsIn(record.content) |->
                            LET n == RecordOf(g, i, id)
                            IN  AttachmentPart(StoredReference(g.attachments[n].id),
                                               g.attachments[n].kind, items[n])]
             parts == [id \in IdsIn(record.content) |-> PartOf(items[RecordOf(g, i, id)])]
             body == IF record.role = "tool" \/ record.calls # {}
                     THEN JoinedText(record.content) ELSE CanonicalBody(record.content, attached)
  <2>1. CanonicalStoredMessage(g, items, i) =
          [role |-> record.role, body |-> body, calls |-> record.calls, answers |-> record.answers]
    BY DEF CanonicalStoredMessage, RecordOf
  <2>2. ASSUME NEW id \in IdsIn(record.content)
        PROVE  LET n == RecordOf(g, i, id)
               IN  AttachmentPart(StoredReference(g.attachments[n].id), g.attachments[n].kind, items[n])
                     = PartOf(items[n])
    <3>1. RecordOf(g, i, id) \in 1..Len(items)
      BY RecordsAre, RetainedAre
    <3> QED  BY <3>1, RetainedAre DEF PartOf
  <2>3. attached = parts
    BY <2>2
  <2>4. body = IF record.role = "tool" \/ record.calls # {}
               THEN JoinedText(record.content) ELSE CanonicalBody(record.content, parts)
    BY <2>3
  <2> HIDE DEF body, attached
  <2> QED  BY <2>1, <2>4 DEF ReadBack
<1> HIDE DEF messages
<1>4. IsSequence(messages) /\ Len(messages) = Len(g.messages)
  <2>1. messages = [i \in 1..Len(g.messages) |-> messages[i]]
    BY <1>2
  <2> QED  BY <1>1, <2>1, FunctionIs
<1> QED
  BY <1>2, <1>3, <1>4 DEF messages

StoredFrom(g, i, body, at) ==
  /\ at \in [PlacesIn(body) -> IdsIn(g.messages[i].content)]
  /\ \A j \in PlacesIn(body) : body[j] = PartOf(RetainStored(g)[RecordOf(g, i, at[j])])
  /\ \A j, k \in PlacesIn(body) : at[j] = at[k] => j = k
  /\ \A id \in IdsIn(g.messages[i].content) : \E j \in PlacesIn(body) : at[j] = id

LEMMA PlacesOfStored ==
  ASSUME NEW g, Filed(g), NEW i \in 1..Len(g.messages), NEW m, ReadBack(g, i, m)
  PROVE  /\ IsBody(m.body)
         /\ m.role = "tool" \/ m.calls # {} => IsOneText(m.body)
         /\ \E at : StoredFrom(g, i, m.body, at)
<1> DEFINE content  == g.messages[i].content
           attached == [id \in IdsIn(content) |-> PartOf(RetainStored(g)[RecordOf(g, i, id)])]
           body     == m.body
           plain    == m.role = "tool" \/ m.calls # {}
<1>1. IsContent(content) /\ (plain => IdsIn(content) = {})
  <2>1. i \in DOMAIN g.messages
    BY RecordsAre
  <2>2. m.role = g.messages[i].role /\ m.calls = g.messages[i].calls
    BY DEF ReadBack
  <2> QED  BY <2>1, <2>2 DEF Filed
<1>2. body = IF plain THEN JoinedText(content) ELSE CanonicalBody(content, attached)
  BY DEF ReadBack
<1>3. \A id \in IdsIn(content) : IsAttachment(attached[id])
  BY ReferenceOfPart DEF PartOf
<1>4. \A id \in IdsIn(content) : attached[id] = PartOf(RetainStored(g)[RecordOf(g, i, id)])
  OBVIOUS
<1> HIDE DEF content, attached, body, plain
<1>5. CASE plain
  <2>1. IsSequence(content) /\ \A j \in 1..Len(content) : IsText(content[j]) => IsLines(content[j])
    BY <1>1, SequenceType DEF IsContent
  <2>2. IsOneText(body)
    BY <1>2, <1>5, <2>1, JoinedTextIs
  <2>3. IsBody(body) /\ PlacesIn(body) = {}
    BY <2>2, OneTextIsBody
  <2> DEFINE at == [j \in {} |-> j]
  <2>4. StoredFrom(g, i, body, at)
    BY <1>1, <1>5, <2>3 DEF StoredFrom, content
  <2> QED  BY <2>2, <2>3, <2>4 DEF body, plain
<1>6. CASE ~plain
  <2>1. IsBody(body) /\ BodyFrom(body, content, attached)
    BY <1>1, <1>2, <1>3, <1>6, CanonicalBodyIs
  <2>2. PICK at \in [PlacesIn(body) -> IdsIn(content)] :
          /\ \A j \in PlacesIn(body) : body[j] = attached[at[j]]
          /\ \A j, k \in PlacesIn(body) : at[j] = at[k] => j = k
          /\ \A id \in IdsIn(content) : \E j \in PlacesIn(body) : at[j] = id
    BY <2>1 DEF BodyFrom
  <2>3. \A j \in PlacesIn(body) : body[j] = PartOf(RetainStored(g)[RecordOf(g, i, at[j])])
    BY <2>2, <1>4
  <2>4. StoredFrom(g, i, body, at)
    BY <2>2, <2>3 DEF StoredFrom, content
  <2> QED  BY <1>6, <2>1, <2>4 DEF body, plain
<1> QED
  BY <1>5, <1>6

LEMMA StoredIs ==
  ASSUME NEW g, Filed(g)
  PROVE  LET messages == CanonicalStored(g, RetainStored(g))
         IN  /\ Bodied(messages) /\ OneReference(messages)
             /\ Carried(messages, RetainStored(g)) /\ Covered(messages, RetainStored(g))
<1> DEFINE items == RetainStored(g)
           M == CanonicalStored(g, items)
           record(i, id) == RecordOf(g, i, id)
           content(i) == g.messages[i].content
<1>1. IsSequence(M) /\ Len(M) = Len(g.messages)
  BY StoredReadsBack
<1>2. \A i \in 1..Len(M) : i \in 1..Len(g.messages) /\ ReadBack(g, i, M[i])
  BY StoredReadsBack
<1>3. ASSUME NEW i \in 1..Len(M)
      PROVE  /\ IsBody(M[i].body)
             /\ M[i].role = "tool" \/ M[i].calls # {} => IsOneText(M[i].body)
             /\ \E at : StoredFrom(g, i, M[i].body, at)
  <2> DEFINE m == M[i]
  <2>1. i \in 1..Len(g.messages) /\ ReadBack(g, i, m)
    BY <1>2
  <2> HIDE DEF m
  <2>2. /\ IsBody(m.body)
        /\ m.role = "tool" \/ m.calls # {} => IsOneText(m.body)
        /\ \E at : StoredFrom(g, i, m.body, at)
    BY <2>1, PlacesOfStored
  <2> QED  BY <2>2 DEF m
<1>4. Bodied(M)
  BY <1>1, <1>3 DEF Bodied
<1>5. /\ Len(items) = Len(g.attachments)
      /\ \A n \in 1..Len(items) :
           /\ items[n].local = StoredReference(g.attachments[n].id) /\ Faithful(items[n])
           /\ PartOf(items[n]).reference = items[n].local
      /\ \A n, m \in 1..Len(items) : items[n].local = items[m].local => n = m
  BY RetainedAre, ReferenceOfPart DEF OneLocal, PartOf
<1>6. \A i \in 1..Len(M) : \A id \in IdsIn(content(i)) : record(i, id) \in 1..Len(items)
  BY <1>1, <1>5, RecordsAre
<1>7. \A i, k \in 1..Len(M) : \A id \in IdsIn(content(i)), ie \in IdsIn(content(k)) :
        record(i, id) = record(k, ie) => i = k /\ id = ie
  BY <1>1, RecordsDiffer
<1>8. \A n \in 1..Len(items) : \E i \in 1..Len(M) : \E id \in IdsIn(content(i)) : n = record(i, id)
  BY <1>1, <1>5, RecordsAre
<1> DEFINE Put(i, at) ==
             /\ at \in [PlacesIn(M[i].body) -> IdsIn(content(i))]
             /\ \A j \in PlacesIn(M[i].body) : M[i].body[j] = PartOf(items[record(i, at[j])])
             /\ \A j, k \in PlacesIn(M[i].body) : at[j] = at[k] => j = k
             /\ \A id \in IdsIn(content(i)) : \E j \in PlacesIn(M[i].body) : at[j] = id
<1>9. \A i \in 1..Len(M) : \E at : Put(i, at)
  BY <1>3 DEF StoredFrom
<1>13. \A n, m \in 1..Len(items) : PartOf(items[n]).reference = PartOf(items[m]).reference => n = m
  BY <1>5
<1> HIDE DEF items, M, record, content
<1>10. Carried(M, items)
  <2> SUFFICES ASSUME NEW i \in 1..Len(M), NEW j \in PlacesIn(M[i].body)
               PROVE  \E n \in 1..Len(items) : M[i].body[j] = PartOf(items[n]) /\ Faithful(items[n])
    BY DEF Carried
  <2>1. PICK at : Put(i, at)
    BY <1>9
  <2> QED  BY <1>5, <1>6, <2>1
<1>11. ASSUME NEW n \in 1..Len(items)
       PROVE  \E i \in 1..Len(M) : \E j \in PlacesIn(M[i].body) : M[i].body[j] = PartOf(items[n])
  <2>1. PICK i \in 1..Len(M) : \E id \in IdsIn(content(i)) : n = record(i, id)
    BY <1>8
  <2>2. PICK id \in IdsIn(content(i)) : n = record(i, id)
    BY <2>1
  <2>3. PICK at : Put(i, at)
    BY <1>9
  <2>4. PICK j \in PlacesIn(M[i].body) : at[j] = id
    BY <2>3
  <2> QED  BY <2>2, <2>3, <2>4
<1>12. ASSUME NEW i \in 1..Len(M), NEW k \in 1..Len(M),
              NEW j \in PlacesIn(M[i].body), NEW l \in PlacesIn(M[k].body),
              M[i].body[j].reference = M[k].body[l].reference
       PROVE  i = k /\ j = l
  <2>1. PICK at : Put(i, at)
    BY <1>9
  <2>2. PICK bt : Put(k, bt)
    BY <1>9
  <2>3. /\ M[i].body[j] = PartOf(items[record(i, at[j])]) /\ at[j] \in IdsIn(content(i))
        /\ M[k].body[l] = PartOf(items[record(k, bt[l])]) /\ bt[l] \in IdsIn(content(k))
    BY <2>1, <2>2
  <2>4. record(i, at[j]) \in 1..Len(items) /\ record(k, bt[l]) \in 1..Len(items)
    BY <1>6, <2>3
  <2>5. record(i, at[j]) = record(k, bt[l])
    BY <1>12, <1>13, <2>3, <2>4
  <2>6. i = k /\ at[j] = bt[l]
    BY <1>7, <2>3, <2>5
  <2>8. M[k].body[l] = PartOf(items[record(i, at[l])]) /\ at[l] \in IdsIn(content(i))
    BY <2>1, <2>6
  <2>9. record(i, at[l]) = record(k, bt[l])
    <3>1. record(i, at[l]) \in 1..Len(items)
      BY <1>6, <2>8
    <3> QED  BY <1>13, <2>3, <2>4, <2>8, <3>1
  <2>10. at[l] = bt[l]
    BY <1>7, <2>3, <2>8, <2>9
  <2> QED  BY <2>1, <2>6, <2>10
<1> QED
  BY <1>4, <1>10, <1>11, <1>12 DEF items, M, Covered, OneReference

(* As many attachments as items, when every item is one attachment.        *)
LEMMA CountOfItems ==
  ASSUME NEW messages, Bodied(messages), OneReference(messages),
         NEW items, Len(items) \in Nat, OneLocal(items),
         Carried(messages, items), Covered(messages, items)
  PROVE  Len(items) = Len(AttachmentsIn(messages))
<1> DEFINE parts == AttachmentsIn(messages)
           M == messages
           f == [q \in 1..Len(parts) |-> CHOOSE n \in 1..Len(items) : parts[q] = PartOf(items[n])]
<1>1. HasBodies(messages)
  BY BodiedHasBodies
<1>2. Len(parts) \in Nat
  BY <1>1, AttachmentsAre, SequenceType
<1>3. /\ \A i \in 1..Len(M) : \A j \in PlacesIn(M[i].body) :
           /\ AttachedAt(M, i, j) \in 1..Len(parts)
           /\ parts[AttachedAt(M, i, j)] = M[i].body[j]
      /\ \A n \in 1..Len(parts) :
           \E i \in 1..Len(M) : \E j \in PlacesIn(M[i].body) : n = AttachedAt(M, i, j)
  BY <1>1, AttachmentsAre
<1>4. \A n, m \in 1..Len(items) : PartOf(items[n]) = PartOf(items[m]) => n = m
  BY ReferenceOfPart DEF OneLocal, PartOf
<1>5. ASSUME NEW q \in 1..Len(parts)
      PROVE  \E n \in 1..Len(items) : parts[q] = PartOf(items[n])
  BY <1>3 DEF Carried
<1> HIDE DEF parts
<1>6. f \in [1..Len(parts) -> 1..Len(items)] /\ \A q \in 1..Len(parts) : parts[q] = PartOf(items[f[q]])
  BY <1>5
<1> HIDE DEF f
<1>7. ASSUME NEW x \in 1..Len(parts), NEW y \in 1..Len(parts), f[x] = f[y]
      PROVE  x = y
  <2>1. parts[x] = parts[y]
    BY <1>6, <1>7
  <2>2. PICK i \in 1..Len(M) : \E j \in PlacesIn(M[i].body) : x = AttachedAt(M, i, j)
    BY <1>3
  <2>3. PICK j \in PlacesIn(M[i].body) : x = AttachedAt(M, i, j)
    BY <2>2
  <2>4. PICK k \in 1..Len(M) : \E l \in PlacesIn(M[k].body) : y = AttachedAt(M, k, l)
    BY <1>3
  <2>5. PICK l \in PlacesIn(M[k].body) : y = AttachedAt(M, k, l)
    BY <2>4
  <2>6. M[i].body[j] = M[k].body[l]
    BY <1>3, <2>1, <2>3, <2>5
  <2>7. i = k /\ j = l
    BY <2>6 DEF OneReference
  <2> QED  BY <2>3, <2>5, <2>7
<1>8. ASSUME NEW z \in 1..Len(items)
      PROVE  \E x \in 1..Len(parts) : f[x] = z
  <2>1. PICK i \in 1..Len(M) : \E j \in PlacesIn(M[i].body) : M[i].body[j] = PartOf(items[z])
    BY DEF Covered
  <2>2. PICK j \in PlacesIn(M[i].body) : M[i].body[j] = PartOf(items[z])
    BY <2>1
  <2>3. AttachedAt(M, i, j) \in 1..Len(parts) /\ parts[AttachedAt(M, i, j)] = PartOf(items[z])
    BY <1>3, <2>2
  <2>4. f[AttachedAt(M, i, j)] = z
    BY <1>4, <1>6, <2>3
  <2> QED  BY <2>3, <2>4
<1> QED
  <2>1. OneToOne(f, 1..Len(parts), 1..Len(items))
    BY <1>6, <1>7, <1>8 DEF OneToOne
  <2>2. Len(parts) = Len(items)
    BY <1>2, <2>1, SameLength
  <2> QED  BY <2>2 DEF parts

-----------------------------------------------------------------------------
(* The records of an aggregate, kept and created.                          *)

(* A sequence of just these elements, each once.                           *)
Lists(s, E) ==
  /\ IsSequence(s)
  /\ \A n \in 1..Len(s) : s[n] \in E
  /\ \A x \in E : \E n \in 1..Len(s) : s[n] = x
  /\ \A n, m \in 1..Len(s) : s[n] = s[m] => n = m

LEMMA PicksList ==
  ASSUME NEW s, IsSequence(s), \A n, m \in 1..Len(s) : s[n] = s[m] => n = m,
         NEW J \in SUBSET (1..Len(s))
  PROVE  Lists(Picks(s, J), {s[j] : j \in J})
<1>1. s \in Seq(ToSet(s))
  BY SequenceType
<1>2. /\ Picks(s, J) \in Seq(ToSet(s))
      /\ \A j \in J : /\ PickedAt(s, J, j) \in 1..Len(Picks(s, J))
                      /\ Picks(s, J)[PickedAt(s, J, j)] = s[j]
      /\ \A n \in 1..Len(Picks(s, J)) : \E j \in J : n = PickedAt(s, J, j)
  BY <1>1, PicksAt
<1>3. IsSequence(Picks(s, J))
  BY <1>2, TypedSequence
<1> QED
  BY <1>2, <1>3 DEF Lists

(* Sequences of elements that no other of them has.                        *)
Listing(n, ss, E) ==
  /\ ss = [i \in 1..n |-> ss[i]]
  /\ \A i \in 1..n : Lists(ss[i], E[i])
  /\ \A i, k \in 1..n : i # k => E[i] \cap E[k] = {}

AllOf(f, n, E) ==
  /\ IsSequence(f)
  /\ \A q \in 1..Len(f) : \E i \in 1..n : f[q] \in E[i]
  /\ \A i \in 1..n : \A x \in E[i] : \E q \in 1..Len(f) : f[q] = x
  /\ \A p, q \in 1..Len(f) : f[p] = f[q] => p = q

LEMMA FlatLists ==
  ASSUME NEW n \in Nat, NEW ss, NEW E, Listing(n, ss, E)
  PROVE  AllOf(FlattenSeq(ss), n, E)
<1> USE DEF Listing
<1> DEFINE F == FlattenSeq(ss)
<1>1. \A i \in 1..n : IsSequence(ss[i])
  BY DEF Lists
<1>2. PICK V : ss \in Seq(Seq(V)) /\ Len(ss) = n
  BY <1>1, CommonSet
<1>3. F \in Seq(V)
  BY <1>2, FlatSteps
<1>4. \A i \in 1..n : \A r \in 1..Len(ss[i]) :
        Start(ss, i) + r \in 1..Len(F) /\ F[Start(ss, i) + r] = ss[i][r]
  BY <1>2, FlatAt
<1>5. \A q \in 1..Len(F) : \E i \in 1..n : \E r \in 1..Len(ss[i]) : q = Start(ss, i) + r
  BY <1>2, FlatOnto
<1> HIDE DEF F
<1>6. IsSequence(F)
  BY <1>3, TypedSequence
<1>7. ASSUME NEW q \in 1..Len(F)
      PROVE  \E i \in 1..n : F[q] \in E[i]
  BY <1>4, <1>5 DEF Lists
<1>8. ASSUME NEW i \in 1..n, NEW x \in E[i]
      PROVE  \E q \in 1..Len(F) : F[q] = x
  <2>1. PICK r \in 1..Len(ss[i]) : ss[i][r] = x
    BY DEF Lists
  <2> QED  BY <1>4, <2>1
<1>9. ASSUME NEW p \in 1..Len(F), NEW q \in 1..Len(F), F[p] = F[q]
      PROVE  p = q
  <2>1. PICK i \in 1..n : \E r \in 1..Len(ss[i]) : p = Start(ss, i) + r
    BY <1>5
  <2>2. PICK r \in 1..Len(ss[i]) : p = Start(ss, i) + r
    BY <2>1
  <2>3. PICK k \in 1..n : \E t \in 1..Len(ss[k]) : q = Start(ss, k) + t
    BY <1>5
  <2>4. PICK t \in 1..Len(ss[k]) : q = Start(ss, k) + t
    BY <2>3
  <2>5. ss[i][r] = ss[k][t]
    BY <1>4, <1>9, <2>2, <2>4
  <2>6. ss[i][r] \in E[i] /\ ss[k][t] \in E[k]
    BY DEF Lists
  <2>7. i = k
    BY <2>5, <2>6
  <2>8. r = t
    BY <2>5, <2>7 DEF Lists
  <2> QED  BY <2>2, <2>4, <2>7, <2>8
<1> QED
  BY <1>6, <1>7, <1>8, <1>9 DEF F, AllOf

(* What is being saved: the first messages are kept, the attachments of    *)
(* the others are bound to what they are.                                  *)
Bound(binding, part) ==
  /\ binding.local = part.reference /\ binding.kind = part.kind
  /\ binding.file.content = part.content /\ binding.file.name = part.name
  /\ part.kind # "image" => binding.file.mime = part.mime
  /\ IsName(binding.file.name)

Shaped(messages) ==
  \A i \in 1..Len(messages) :
    /\ messages[i] = [role |-> messages[i].role, body |-> messages[i].body,
                      calls |-> messages[i].calls, answers |-> messages[i].answers]
    /\ \A j \in PlacesIn(messages[i].body) : \E item : messages[i].body[j] = PartOf(item)

Saving(g, final, kept, bindings) ==
  /\ Filed(g) /\ NoIdsOf("turn", g)
  /\ Bodied(final) /\ Shaped(final)
  /\ kept \in 0..Len(final) /\ kept <= Len(g.messages)
  /\ \A i \in 1..kept :
       Fingerprint(CanonicalStored(g, RetainStored(g))[i]) = Fingerprint(final[i])
  /\ \A i \in (kept + 1)..Len(final) : \A j \in PlacesIn(final[i].body) :
       Bound(bindings[final[i].body[j].reference], final[i].body[j])
  /\ \A i, k \in (kept + 1)..Len(final) :
       \A j \in PlacesIn(final[i].body), l \in PlacesIn(final[k].body) :
         final[i].body[j].reference = final[k].body[l].reference => i = k /\ j = l

RecordsOfMessage(g, i) ==
  Picked(g.attachments, LAMBDA record : record.message = g.messages[i].id)

RecordFor(i, message, bindings, j) ==
  LET binding == bindings[message.body[j].reference]
  IN  [id |-> NewRecordId("turn", i, j), message |-> NewRecordId("turn", i, 0),
       local |-> binding.local, kind |-> binding.kind, source |-> binding.source,
       file |-> binding.file]

SavedMessages(g, final, kept, bindings) ==
  [i \in 1..Len(final) |-> IF i <= kept THEN g.messages[i]
                           ELSE CreatedMessage("turn", i, final[i], bindings)]

SavedRecords(g, final, kept, bindings) ==
  FlattenSeq([i \in 1..Len(final) |->
                IF i <= kept THEN RecordsOfMessage(g, i)
                ELSE CreatedAttachments("turn", i, final[i], bindings)])

(* The records of each saved message.                                      *)
KeptRecords(g, i) == {n \in 1..Len(g.attachments) : g.attachments[n].message = g.messages[i].id}

RecordsIn(g, final, kept, bindings, i) ==
  IF i <= kept THEN {g.attachments[n] : n \in KeptRecords(g, i)}
  ELSE {RecordFor(i, final[i], bindings, j) : j \in PlacesIn(final[i].body)}

LEMMA KeptRecordsAre ==
  ASSUME NEW g, Filed(g), NEW i
  PROVE  Lists(RecordsOfMessage(g, i), {g.attachments[n] : n \in KeptRecords(g, i)})
<1> DEFINE rs == g.attachments
           J  == KeptRecords(g, i)
<1>1. IsSequence(rs) /\ DOMAIN rs = 1..Len(rs)
  BY RecordsAre
<1>2. \A n, m \in 1..Len(rs) : rs[n] = rs[m] => n = m
  BY RecordsDiffer
<1>3. RecordsOfMessage(g, i) = Picks(rs, J)
  <2>1. \A n \in DOMAIN rs : n \in J <=> rs[n].message = g.messages[i].id
    BY <1>1 DEF KeptRecords
  <2>2. [n \in DOMAIN rs |-> IF rs[n].message = g.messages[i].id THEN <<rs[n]>> ELSE <<>>] = Gaps(rs, J)
    BY <2>1 DEF Gaps
  <2> QED  BY <2>2 DEF RecordsOfMessage, Picked, Picks
<1>4. J \in SUBSET (1..Len(rs))
  BY DEF KeptRecords
<1> HIDE DEF rs, J
<1>5. Lists(Picks(rs, J), {rs[n] : n \in J})
  BY <1>1, <1>2, <1>4, PicksList
<1> QED
  BY <1>3, <1>5 DEF rs, J

LEMMA CreatedRecordsAre ==
  ASSUME NEW i, NEW message, IsSequence(message.body), NEW bindings
  PROVE  Lists(CreatedAttachments("turn", i, message, bindings),
               {RecordFor(i, message, bindings, j) : j \in PlacesIn(message.body)})
<1> DEFINE body  == message.body
           s     == [j \in 1..Len(body) |-> j]
           J     == PlacesIn(body)
           P     == Picks(s, J)
           rec(j) == RecordFor(i, message, bindings, j)
           made  == [n \in DOMAIN P |-> rec(P[n])]
<1>1. Len(body) \in Nat /\ DOMAIN body = 1..Len(body)
  BY SequenceType
<1>2. s = [j \in DOMAIN body |-> j]
  BY <1>1
<1>3. Picked([j \in DOMAIN body |-> j], LAMBDA j : IsAttachment(body[j])) = P
  <2>1. \A j \in DOMAIN s : j \in J <=> IsAttachment(body[s[j]])
    BY DEF PlacesIn
  <2>2. [j \in DOMAIN s |-> IF IsAttachment(body[s[j]]) THEN <<s[j]>> ELSE <<>>] = Gaps(s, J)
    BY <2>1 DEF Gaps
  <2>3. Picked(s, LAMBDA j : IsAttachment(body[j])) = P
    BY <2>2 DEF Picked, Picks
  <2> QED  BY <1>2, <2>3
<1>4. CreatedAttachments("turn", i, message, bindings) = made
  BY <1>3 DEF CreatedAttachments, RecordFor
<1>5. s = [j \in 1..Len(body) |-> s[j]]
  OBVIOUS
<1>6. J \in SUBSET (1..Len(body))
  BY DEF PlacesIn
<1>7. \A j \in 1..Len(body) : s[j] = j
  OBVIOUS
<1>8. \A j, k \in J : rec(j) = rec(k) => j = k
  BY DEF RecordFor, NewRecordId
<1> HIDE DEF body, s, J, P, rec
<1>9. IsSequence(s) /\ Len(s) = Len(body)
  BY <1>1, <1>5, FunctionIs
<1>10. Lists(P, {s[j] : j \in J})
  <2>1. \A n, m \in 1..Len(s) : s[n] = s[m] => n = m
    BY <1>7, <1>9
  <2> QED  BY <1>6, <1>9, <2>1, PicksList DEF P
<1>11. {s[j] : j \in J} = J
  BY <1>6, <1>7
<1>12. IsSequence(P) /\ Len(P) \in Nat /\ DOMAIN P = 1..Len(P)
  BY <1>10, SequenceType DEF Lists
<1>13. /\ \A n \in 1..Len(P) : P[n] \in J
       /\ \A j \in J : \E n \in 1..Len(P) : P[n] = j
       /\ \A n, m \in 1..Len(P) : P[n] = P[m] => n = m
  BY <1>10, <1>11 DEF Lists
<1>14. made = [n \in 1..Len(P) |-> made[n]] /\ \A n \in 1..Len(P) : made[n] = rec(P[n])
  BY <1>12
<1> HIDE DEF made
<1>15. IsSequence(made) /\ Len(made) = Len(P)
  BY <1>12, <1>14, FunctionIs
<1>16. Lists(made, {rec(j) : j \in J})
  BY <1>8, <1>13, <1>14, <1>15 DEF Lists
<1> QED
  BY <1>4, <1>16 DEF rec, J, body

-----------------------------------------------------------------------------
(* Messages a turn creates, and the aggregate it leaves (Saving).          *)

(* A message as it is saved.                                               *)
Savable(message, bindings) ==
  /\ IsBody(message.body)
  /\ message.role = "tool" \/ message.calls # {} => IsOneText(message.body)
  /\ \A j \in PlacesIn(message.body) :
       bindings[message.body[j].reference].local = message.body[j].reference
  /\ \A j, l \in PlacesIn(message.body) :
       message.body[j].reference = message.body[l].reference => j = l

Writes(created, i, message) ==
  /\ created.id = <<"turn", i, 0>>
  /\ created.role = message.role /\ created.calls = message.calls
  /\ created.answers = message.answers
  /\ IsContent(created.content)
  /\ created.role = "tool" \/ created.calls # {} => IdsIn(created.content) = {}
  /\ IdsIn(created.content) = {message.body[j].reference : j \in PlacesIn(message.body)}

LEMMA CreatedContent ==
  ASSUME NEW i, NEW message, NEW bindings, Savable(message, bindings)
  PROVE  Writes(CreatedMessage("turn", i, message, bindings), i, message)
<1> USE DEF Savable, Writes
<1> DEFINE body == message.body
           Written(j) == IF IsText(body[j]) THEN body[j]
                         ELSE [type |-> "attachment", attachmentId |-> bindings[body[j].reference].local]
           written == [j \in 1..Len(body) |-> Written(j)]
           created == CreatedMessage("turn", i, message, bindings)
           content == created.content
<1>1. Len(body) \in Nat /\ DOMAIN body = 1..Len(body)
  BY SequenceType DEF IsBody
<1>2. content = IF message.calls # {} /\ body = <<Text(<<EmptyLine>>)>> THEN <<>> ELSE written
  BY <1>1 DEF CreatedMessage
<1>3. /\ created.id = <<"turn", i, 0>> /\ created.role = message.role
      /\ created.calls = message.calls /\ created.answers = message.answers
  BY DEF CreatedMessage, NewRecordId
<1> HIDE DEF created, content
<1>4. CASE message.calls # {} /\ body = <<Text(<<EmptyLine>>)>>
  <2>1. content = <<>>
    BY <1>2, <1>4
  <2>2. IsContent(<<>>) /\ IdsIn(<<>>) = {}
    BY DEF IsContent, IdsIn, IsSequence
  <2>3. PlacesIn(body) = {}
    BY <1>4, OneTextIsBody
  <2> QED  BY <1>3, <2>1, <2>2, <2>3 DEF content, created
<1>5. CASE ~(message.calls # {} /\ body = <<Text(<<EmptyLine>>)>>)
  <2>1. content = written
    BY <1>2, <1>5
  <2>2. \A j \in 1..Len(body) : IF IsText(body[j]) THEN IsLines(body[j]) ELSE IsAttachment(body[j])
    BY KindsOfParts DEF IsBody
  <2>3. \A j \in 1..Len(body) : j \in PlacesIn(body) <=> ~IsText(body[j])
    BY <2>2, KindsOfParts DEF PlacesIn
  <2>4. written = [j \in 1..Len(body) |-> written[j]]
    OBVIOUS
  <2>5. ASSUME NEW j \in 1..Len(body)
        PROVE  IF IsText(body[j]) THEN written[j] = body[j] /\ IsText(written[j]) /\ IsLines(written[j])
               ELSE /\ ~IsText(written[j])
                    /\ written[j] = [type |-> "attachment", attachmentId |-> body[j].reference]
                    /\ written[j].attachmentId = body[j].reference
    <3>1. CASE IsText(body[j])
      BY <2>2, <3>1
    <3>2. CASE ~IsText(body[j])
      <4>1. bindings[body[j].reference].local = body[j].reference
        BY <2>3, <3>2
      <4>2. written[j] = [type |-> "attachment", attachmentId |-> body[j].reference]
        BY <3>2, <4>1
      <4> QED  BY <3>2, <4>2 DEF IsText
    <3> QED  BY <3>1, <3>2
  <2> HIDE DEF written
  <2>6. IsSequence(written) /\ Len(written) = Len(body)
    BY <1>1, <2>4, FunctionIs
  <2>7. DOMAIN written = 1..Len(body)
    BY <2>6, SequenceType
  <2>8. \A j \in 1..Len(body) : IsText(written[j]) <=> IsText(body[j])
    BY <2>5
  <2>9. \A j, k \in 1..Len(body) :
          ~IsText(written[j]) /\ ~IsText(written[k]) /\ written[j] = written[k] => j = k
    <3> SUFFICES ASSUME NEW j \in 1..Len(body), NEW k \in 1..Len(body),
                        ~IsText(written[j]), ~IsText(written[k]), written[j] = written[k]
                 PROVE  j = k
      OBVIOUS
    <3>1. j \in PlacesIn(body) /\ k \in PlacesIn(body)
      BY <2>3, <2>8
    <3>2. body[j].reference = body[k].reference
      BY <2>5, <2>8
    <3> QED  BY <3>1, <3>2
  <2>10. \A j \in 1..Len(body) :
           IF IsText(written[j]) THEN IsLines(written[j])
           ELSE written[j] = [type |-> "attachment", attachmentId |-> written[j].attachmentId]
    BY <2>5
  <2>11. IsContent(written)
    BY <2>6, <2>7, <2>9, <2>10 DEF IsContent
  <2>12. IdsIn(written) = {body[j].reference : j \in PlacesIn(body)}
    <3>1. {k \in DOMAIN written : ~IsText(written[k])} = PlacesIn(body)
      BY <2>3, <2>7, <2>8 DEF PlacesIn
    <3>2. \A j \in PlacesIn(body) : written[j].attachmentId = body[j].reference
      BY <2>3, <2>5 DEF PlacesIn
    <3> QED  BY <3>1, <3>2 DEF IdsIn
  <2>13. message.role = "tool" \/ message.calls # {} => PlacesIn(body) = {}
    BY OneTextIsBody
  <2>14. PlacesIn(body) = {} => IdsIn(written) = {}
    BY <2>12
  <2> QED
    BY <1>3, <2>1, <2>11, <2>12, <2>13, <2>14 DEF content, created
<1> QED
  BY <1>4, <1>5

(* It is read back as the message it was.                                  *)
LEMMA CreatedReadsBack ==
  ASSUME NEW i, NEW message, NEW bindings, Savable(message, bindings), NEW attached,
         NEW created, created = CreatedMessage("turn", i, message, bindings)
  PROVE  IF message.role = "tool" \/ message.calls # {}
         THEN JoinedText(created.content) = message.body
         ELSE CanonicalBody(created.content, attached) =
                [j \in 1..Len(message.body) |->
                   IF IsText(message.body[j]) THEN message.body[j]
                   ELSE attached[message.body[j].reference]]
<1> USE DEF Savable
<1> DEFINE body == message.body
           content == created.content
           locals == [j \in 1..Len(body) |-> bindings[body[j].reference].local]
           written == [j \in 1..Len(body) |->
                         IF IsText(body[j]) THEN body[j]
                         ELSE [type |-> "attachment", attachmentId |-> locals[j]]]
<1>1. Len(body) \in Nat /\ DOMAIN body = 1..Len(body)
  BY SequenceType DEF IsBody
<1>2. content = IF message.calls # {} /\ body = <<Text(<<EmptyLine>>)>> THEN <<>> ELSE written
  BY <1>1 DEF CreatedMessage
<1>3. \A j \in 1..Len(body) : IF IsText(body[j]) THEN IsLines(body[j]) ELSE IsAttachment(body[j])
  BY KindsOfParts DEF IsBody
<1>4. \A j \in 1..Len(body) : j \in PlacesIn(body) <=> ~IsText(body[j])
  BY <1>3, KindsOfParts DEF PlacesIn
<1>5. CASE message.role = "tool" \/ message.calls # {}
  <2>1. IsOneText(body) /\ PlacesIn(body) = {}
    BY <1>5, OneTextIsBody
  <2>2. CASE message.calls # {} /\ body = <<Text(<<EmptyLine>>)>>
    BY <1>2, <1>5, <2>2, JoinedNothing
  <2>3. CASE ~(message.calls # {} /\ body = <<Text(<<EmptyLine>>)>>)
    <3>1. content = written
      BY <1>2, <2>3
    <3>2. written = [j \in 1..Len(body) |-> body[j]]
      BY <1>4, <2>1
    <3>3. written = body
      BY <2>1, <3>2 DEF IsOneText, IsSequence
    <3>4. JoinedText(body) = body
      BY <2>1, JoinedAgain
    <3> QED  BY <1>5, <3>1, <3>3, <3>4
  <2> QED  BY <2>2, <2>3
<1>6. CASE ~(message.role = "tool" \/ message.calls # {})
  <2>1. content = written
    BY <1>2, <1>6
  <2>2. CanonicalBody(content, attached) =
          [j \in 1..Len(body) |-> IF IsText(body[j]) THEN body[j] ELSE attached[locals[j]]]
    <3> HIDE DEF body, content, locals
    <3> QED  BY <2>1, ReadAgain DEF body
  <2>3. \A j \in 1..Len(body) : ~IsText(body[j]) => locals[j] = body[j].reference
    BY <1>4
  <2>4. [j \in 1..Len(body) |-> IF IsText(body[j]) THEN body[j] ELSE attached[locals[j]]] =
          [j \in 1..Len(body) |-> IF IsText(body[j]) THEN body[j] ELSE attached[body[j].reference]]
    BY <2>3
  <2> QED  BY <1>6, <2>2, <2>4
<1> QED
  BY <1>5, <1>6

SavedOf(g, final, kept, bindings) ==
  [messages |-> SavedMessages(g, final, kept, bindings),
   attachments |-> SavedRecords(g, final, kept, bindings)]

(* What Saving says of the messages that are new.                          *)
LEMMA NewMessages ==
  ASSUME NEW g, NEW final, NEW kept, NEW bindings, Saving(g, final, kept, bindings)
  PROVE  /\ Len(final) \in Nat /\ DOMAIN final = 1..Len(final) /\ kept \in Nat /\ kept <= Len(final)
         /\ \A i \in 1..Len(final) : ~(i <= kept) =>
              /\ Savable(final[i], bindings)
              /\ Writes(CreatedMessage("turn", i, final[i], bindings), i, final[i])
              /\ \A j \in PlacesIn(final[i].body) :
                   Bound(bindings[final[i].body[j].reference], final[i].body[j])
         /\ \A i, k \in 1..Len(final) : ~(i <= kept) /\ ~(k <= kept) =>
              \A j \in PlacesIn(final[i].body), l \in PlacesIn(final[k].body) :
                final[i].body[j].reference = final[k].body[l].reference => i = k /\ j = l
<1>1. Bodied(final)
  BY DEF Saving
<1>2. Len(final) \in Nat /\ DOMAIN final = 1..Len(final)
  BY <1>1, BodiedHasBodies
<1>3. kept \in Nat /\ kept <= Len(final)
  BY <1>2 DEF Saving
<1>4. \A i \in 1..Len(final) : ~(i <= kept) => i \in (kept + 1)..Len(final)
  BY <1>2, <1>3
<1>5. \A i, k \in 1..Len(final) : ~(i <= kept) /\ ~(k <= kept) =>
        \A j \in PlacesIn(final[i].body), l \in PlacesIn(final[k].body) :
          final[i].body[j].reference = final[k].body[l].reference => i = k /\ j = l
  BY <1>4 DEF Saving
<1>6. ASSUME NEW i \in 1..Len(final), ~(i <= kept)
      PROVE  /\ Savable(final[i], bindings)
             /\ Writes(CreatedMessage("turn", i, final[i], bindings), i, final[i])
             /\ \A j \in PlacesIn(final[i].body) :
                  Bound(bindings[final[i].body[j].reference], final[i].body[j])
  <2> DEFINE m == final[i]
  <2>1. IsBody(m.body) /\ (m.role = "tool" \/ m.calls # {} => IsOneText(m.body))
    BY <1>1 DEF Bodied
  <2>2. \A j \in PlacesIn(m.body) : Bound(bindings[m.body[j].reference], m.body[j])
    BY <1>4, <1>6 DEF Saving
  <2>3. \A j \in PlacesIn(m.body) : bindings[m.body[j].reference].local = m.body[j].reference
    BY <2>2 DEF Bound
  <2>4. \A j, l \in PlacesIn(m.body) : m.body[j].reference = m.body[l].reference => j = l
    BY <1>5, <1>6
  <2> HIDE DEF m
  <2>5. Savable(m, bindings)
    BY <2>1, <2>3, <2>4 DEF Savable
  <2>6. Writes(CreatedMessage("turn", i, m, bindings), i, m)
    BY <2>5, CreatedContent
  <2> QED  BY <2>2, <2>5, <2>6 DEF m
<1> QED
  BY <1>2, <1>3, <1>5, <1>6

LEMMA RecordIs ==
  ASSUME NEW i, NEW message, NEW bindings, NEW j \in PlacesIn(message.body),
         Bound(bindings[message.body[j].reference], message.body[j])
  PROVE  LET record == RecordFor(i, message, bindings, j)
             part   == message.body[j]
         IN  /\ record.id = <<"turn", i, j>> /\ record.message = <<"turn", i, 0>>
             /\ record.local = part.reference /\ record.kind = part.kind
             /\ record.file.content = part.content /\ record.file.name = part.name
             /\ part.kind # "image" => record.file.mime = part.mime
             /\ IsName(record.file.name)
             /\ record.id[1] = "turn" /\ record.message[1] = "turn"
  BY DEF RecordFor, NewRecordId, Bound

(* Whose the records are, and that none is another's.                      *)
OwnedBy(g, final, kept, bindings, i, record) ==
  IF i <= kept
  THEN \E n \in 1..Len(g.attachments) :
         record = g.attachments[n] /\ record.message = g.messages[i].id
  ELSE \E j \in PlacesIn(final[i].body) : record = RecordFor(i, final[i], bindings, j)

LEMMA RecordsOwned ==
  ASSUME NEW g, NEW final, NEW kept, NEW bindings, Saving(g, final, kept, bindings),
         NEW i \in 1..Len(final), NEW record
  PROVE  record \in RecordsIn(g, final, kept, bindings, i) <=> OwnedBy(g, final, kept, bindings, i, record)
  BY DEF RecordsIn, OwnedBy, KeptRecords

LEMMA OwnersDiffer ==
  ASSUME NEW g, NEW final, NEW kept, NEW bindings, Saving(g, final, kept, bindings),
         NEW i \in 1..Len(final), NEW k \in 1..Len(final), NEW x, NEW y,
         OwnedBy(g, final, kept, bindings, i, x), OwnedBy(g, final, kept, bindings, k, y),
         x.id = y.id \/ <<x.message, x.local>> = <<y.message, y.local>>
  PROVE  i = k /\ x = y
<1>1. Filed(g) /\ NoIdsOf("turn", g) /\ kept <= Len(g.messages)
  BY DEF Saving
<1>2. /\ DOMAIN g.attachments = 1..Len(g.attachments)
      /\ DOMAIN g.messages = 1..Len(g.messages) /\ Len(g.messages) \in Nat
  BY <1>1, RecordsAre
<1>3. kept \in Nat /\ Len(final) \in Nat
  BY NewMessages
<1>4. ASSUME NEW p \in 1..Len(final), p <= kept, NEW z, OwnedBy(g, final, kept, bindings, p, z)
      PROVE  /\ p \in DOMAIN g.messages /\ z.message = g.messages[p].id
             /\ z.id[1] # "turn" /\ z.message[1] # "turn"
             /\ \E n \in DOMAIN g.attachments : z = g.attachments[n]
  <2>1. PICK n \in 1..Len(g.attachments) : z = g.attachments[n] /\ z.message = g.messages[p].id
    BY <1>4 DEF OwnedBy
  <2>2. p \in DOMAIN g.messages
    BY <1>1, <1>2, <1>3, <1>4
  <2> QED  BY <1>1, <1>2, <2>1, <2>2 DEF NoIdsOf
<1>5. ASSUME NEW p \in 1..Len(final), ~(p <= kept), NEW z, OwnedBy(g, final, kept, bindings, p, z)
      PROVE  /\ z.id[1] = "turn" /\ z.message[1] = "turn" /\ z.message = <<"turn", p, 0>>
             /\ \E j \in PlacesIn(final[p].body) :
                  /\ z = RecordFor(p, final[p], bindings, j) /\ z.id = <<"turn", p, j>>
                  /\ z.local = final[p].body[j].reference
  <2>1. PICK j \in PlacesIn(final[p].body) : z = RecordFor(p, final[p], bindings, j)
    BY <1>5 DEF OwnedBy
  <2> DEFINE m == final[p]
  <2>2. Bound(bindings[m.body[j].reference], m.body[j])
    BY <1>5, NewMessages
  <2>3. j \in PlacesIn(m.body) /\ z = RecordFor(p, m, bindings, j)
    BY <2>1
  <2> HIDE DEF m
  <2>4. /\ z.id = <<"turn", p, j>> /\ z.message = <<"turn", p, 0>> /\ z.local = m.body[j].reference
        /\ z.id[1] = "turn" /\ z.message[1] = "turn"
    BY <2>2, <2>3, RecordIs
  <2> QED  BY <2>1, <2>4 DEF m
<1>6. CASE i <= kept /\ k <= kept
  <2>1. PICK n \in DOMAIN g.attachments : x = g.attachments[n]
    BY <1>4, <1>6
  <2>2. PICK m \in DOMAIN g.attachments : y = g.attachments[m]
    BY <1>4, <1>6
  <2>3. n = m
    BY <1>1, <2>1, <2>2 DEF Filed
  <2>4. g.messages[i].id = g.messages[k].id /\ i \in DOMAIN g.messages /\ k \in DOMAIN g.messages
    BY <1>4, <1>6, <2>1, <2>2, <2>3
  <2>5. i = k
    BY <1>1, <2>4 DEF Filed
  <2> QED  BY <2>1, <2>2, <2>3, <2>5
<1>7. CASE i <= kept /\ ~(k <= kept)
  <2>1. x.id # y.id /\ x.message # y.message
    BY <1>4, <1>5, <1>7
  <2> QED  BY <2>1
<1>8. CASE ~(i <= kept) /\ k <= kept
  <2>1. x.id # y.id /\ x.message # y.message
    BY <1>4, <1>5, <1>8
  <2> QED  BY <2>1
<1>9. CASE ~(i <= kept) /\ ~(k <= kept)
  <2>1. PICK j \in PlacesIn(final[i].body) :
          /\ x = RecordFor(i, final[i], bindings, j) /\ x.id = <<"turn", i, j>>
          /\ x.local = final[i].body[j].reference
    BY <1>5, <1>9
  <2>2. PICK l \in PlacesIn(final[k].body) :
          /\ y = RecordFor(k, final[k], bindings, l) /\ y.id = <<"turn", k, l>>
          /\ y.local = final[k].body[l].reference
    BY <1>5, <1>9
  <2>3. i = k /\ j = l
    <3>1. CASE x.id = y.id
      BY <2>1, <2>2, <3>1
    <3>2. CASE <<x.message, x.local>> = <<y.message, y.local>>
      <4>1. x.message = <<"turn", i, 0>> /\ y.message = <<"turn", k, 0>>
        BY <1>5, <1>9
      <4>2. x.message = y.message /\ x.local = y.local
        BY <3>2
      <4>3. final[i].body[j].reference = final[k].body[l].reference
        BY <2>1, <2>2, <4>2
      <4> QED  BY <1>9, <4>3, NewMessages
    <3> QED  BY <3>1, <3>2
  <2> QED  BY <2>1, <2>2, <2>3
<1> QED
  BY <1>6, <1>7, <1>8, <1>9

LEMMA SavedRecordsAre ==
  ASSUME NEW g, NEW final, NEW kept, NEW bindings, Saving(g, final, kept, bindings)
  PROVE  LET records == SavedRecords(g, final, kept, bindings)
         IN  /\ IsSequence(records) /\ Len(records) \in Nat /\ DOMAIN records = 1..Len(records)
             /\ \A q \in 1..Len(records) : \E i \in 1..Len(final) :
                  OwnedBy(g, final, kept, bindings, i, records[q])
             /\ \A i \in 1..Len(final) : \A x : OwnedBy(g, final, kept, bindings, i, x) =>
                  \E q \in 1..Len(records) : records[q] = x
             /\ \A p, q \in 1..Len(records) : records[p] = records[q] => p = q
<1> DEFINE ss == [i \in 1..Len(final) |->
                    IF i <= kept THEN RecordsOfMessage(g, i)
                    ELSE CreatedAttachments("turn", i, final[i], bindings)]
           E == [i \in 1..Len(final) |-> RecordsIn(g, final, kept, bindings, i)]
<1>1. Filed(g) /\ Bodied(final) /\ Len(final) \in Nat
  BY NewMessages DEF Saving
<1>2. ASSUME NEW i \in 1..Len(final)
      PROVE  Lists(ss[i], E[i])
  <2>1. CASE i <= kept
    <3>1. Lists(RecordsOfMessage(g, i), {g.attachments[n] : n \in KeptRecords(g, i)})
      BY <1>1, KeptRecordsAre
    <3> QED  BY <2>1, <3>1 DEF RecordsIn
  <2>2. CASE ~(i <= kept)
    <3> DEFINE m == final[i]
    <3>1. IsSequence(m.body)
      BY <1>1 DEF Bodied, IsBody
    <3> HIDE DEF m
    <3>2. Lists(CreatedAttachments("turn", i, m, bindings),
                {RecordFor(i, m, bindings, j) : j \in PlacesIn(m.body)})
      BY <3>1, CreatedRecordsAre
    <3> QED  BY <2>2, <3>2 DEF RecordsIn, m
  <2> QED  BY <2>1, <2>2
<1>3. \A i \in 1..Len(final) : \A x : x \in E[i] <=> OwnedBy(g, final, kept, bindings, i, x)
  BY RecordsOwned
<1>4. \A i, k \in 1..Len(final) : i # k => E[i] \cap E[k] = {}
  <2> SUFFICES ASSUME NEW i \in 1..Len(final), NEW k \in 1..Len(final), NEW x, x \in E[i], x \in E[k]
               PROVE  i = k
    OBVIOUS
  <2>1. OwnedBy(g, final, kept, bindings, i, x) /\ OwnedBy(g, final, kept, bindings, k, x)
    BY <1>3
  <2> QED  BY <2>1, OwnersDiffer
<1>5. SavedRecords(g, final, kept, bindings) = FlattenSeq(ss)
  BY DEF SavedRecords
<1>6. ss = [i \in 1..Len(final) |-> ss[i]]
  OBVIOUS
<1> DEFINE F == FlattenSeq(ss)
<1> HIDE DEF ss, E
<1>7. AllOf(F, Len(final), E)
  <2>1. Listing(Len(final), ss, E)
    BY <1>2, <1>4, <1>6 DEF Listing
  <2> QED  BY <1>1, <2>1, FlatLists
<1> HIDE DEF F
<1>8. Len(F) \in Nat /\ DOMAIN F = 1..Len(F)
  BY <1>7, SequenceType DEF AllOf
<1> QED
  BY <1>3, <1>5, <1>7, <1>8 DEF F, AllOf

LEMMA SavedMessagesAre ==
  ASSUME NEW g, NEW final, NEW kept, NEW bindings, Saving(g, final, kept, bindings)
  PROVE  LET messages == SavedMessages(g, final, kept, bindings)
         IN  /\ IsSequence(messages) /\ Len(messages) = Len(final) /\ Len(messages) \in Nat
             /\ DOMAIN messages = 1..Len(final)
             /\ \A i \in 1..Len(final) :
                  IF i <= kept THEN messages[i] = g.messages[i] /\ i \in DOMAIN g.messages
                  ELSE messages[i] = CreatedMessage("turn", i, final[i], bindings)
<1> DEFINE M == SavedMessages(g, final, kept, bindings)
<1>1. Len(final) \in Nat /\ kept \in Nat
  BY NewMessages
<1>2. M = [i \in 1..Len(final) |-> M[i]] /\ \A i \in 1..Len(final) :
        M[i] = IF i <= kept THEN g.messages[i] ELSE CreatedMessage("turn", i, final[i], bindings)
  BY DEF SavedMessages
<1>3. \A i \in 1..Len(final) : i <= kept => i \in DOMAIN g.messages
  <2>1. Filed(g) /\ kept <= Len(g.messages)
    BY DEF Saving
  <2>2. DOMAIN g.messages = 1..Len(g.messages) /\ Len(g.messages) \in Nat
    BY <2>1, RecordsAre
  <2> QED  BY <1>1, <2>1, <2>2
<1> HIDE DEF M
<1>4. IsSequence(M) /\ Len(M) = Len(final)
  BY <1>1, <1>2, FunctionIs
<1> QED
  BY <1>1, <1>2, <1>3, <1>4, SequenceType DEF M

(* What is saved is what the store accepts.                                *)
LEMMA SavedIsFiled ==
  ASSUME NEW g, NEW final, NEW kept, NEW bindings, Saving(g, final, kept, bindings)
  PROVE  Filed(SavedOf(g, final, kept, bindings))
<1> DEFINE s == SavedOf(g, final, kept, bindings)
           M == SavedMessages(g, final, kept, bindings)
           R == SavedRecords(g, final, kept, bindings)
           owned(i, x) == OwnedBy(g, final, kept, bindings, i, x)
           N == Len(final)
<1>1. /\ IsSequence(M) /\ DOMAIN M = 1..N
      /\ \A i \in 1..N : IF i <= kept THEN M[i] = g.messages[i] /\ i \in DOMAIN g.messages
                         ELSE M[i] = CreatedMessage("turn", i, final[i], bindings)
  BY SavedMessagesAre
<1>2. /\ IsSequence(R) /\ DOMAIN R = 1..Len(R)
      /\ \A q \in 1..Len(R) : \E i \in 1..N : owned(i, R[q])
      /\ \A i \in 1..N : \A x : owned(i, x) => \E q \in 1..Len(R) : R[q] = x
      /\ \A p, q \in 1..Len(R) : R[p] = R[q] => p = q
  BY SavedRecordsAre
<1>3. Filed(g) /\ NoIdsOf("turn", g)
  BY DEF Saving
<1>4. DOMAIN g.messages = 1..Len(g.messages) /\ DOMAIN g.attachments = 1..Len(g.attachments)
  BY <1>3, RecordsAre
<1>5. \A i \in 1..N : ~(i <= kept) =>
        /\ Writes(M[i], i, final[i])
        /\ \A j \in PlacesIn(final[i].body) :
             Bound(bindings[final[i].body[j].reference], final[i].body[j])
  BY <1>1, NewMessages
<1>6. \A i \in 1..N : i <= kept => M[i].id[1] # "turn"
  BY <1>1, <1>3 DEF NoIdsOf
<1>7. \A i \in 1..N : ~(i <= kept) => M[i].id = <<"turn", i, 0>> /\ M[i].id[1] = "turn"
  BY <1>5 DEF Writes
<1>8. s.messages = M /\ s.attachments = R
  BY DEF SavedOf
<1>9. ASSUME NEW i \in 1..N
      PROVE  /\ IsContent(M[i].content)
             /\ M[i].role = "tool" \/ M[i].calls # {} => IdsIn(M[i].content) = {}
  <2>1. CASE i <= kept
    BY <1>1, <1>3, <2>1 DEF Filed
  <2>2. CASE ~(i <= kept)
    BY <1>5, <2>2 DEF Writes
  <2> QED  BY <2>1, <2>2
<1>10. ASSUME NEW i \in 1..N, NEW k \in 1..N, M[i].id = M[k].id
       PROVE  i = k
  <2>1. CASE i <= kept /\ k <= kept
    <3>1. g.messages[i].id = g.messages[k].id /\ i \in DOMAIN g.messages /\ k \in DOMAIN g.messages
      BY <1>1, <1>10, <2>1
    <3> QED  BY <1>3, <3>1 DEF Filed
  <2>2. CASE i <= kept /\ ~(k <= kept)
    BY <1>6, <1>7, <1>10, <2>2
  <2>3. CASE ~(i <= kept) /\ k <= kept
    BY <1>6, <1>7, <1>10, <2>3
  <2>4. CASE ~(i <= kept) /\ ~(k <= kept)
    BY <1>7, <1>10, <2>4
  <2> QED  BY <2>1, <2>2, <2>3, <2>4
<1>11. ASSUME NEW p \in 1..Len(R), NEW q \in 1..Len(R),
              R[p].id = R[q].id \/ <<R[p].message, R[p].local>> = <<R[q].message, R[q].local>>
       PROVE  p = q
  <2>1. PICK i \in 1..N : owned(i, R[p])
    BY <1>2
  <2>2. PICK k \in 1..N : owned(k, R[q])
    BY <1>2
  <2>3. R[p] = R[q]
    <3> DEFINE x == R[p]
               y == R[q]
    <3>1. owned(i, x) /\ owned(k, y)
          /\ (x.id = y.id \/ <<x.message, x.local>> = <<y.message, y.local>>)
      BY <1>11, <2>1, <2>2
    <3> HIDE DEF x, y
    <3>2. x = y
      BY <3>1, OwnersDiffer
    <3> QED  BY <3>2 DEF x, y
  <2> QED  BY <1>2, <2>3
<1>12. ASSUME NEW i \in 1..N, NEW x, owned(i, x)
       PROVE  /\ x.message = M[i].id /\ x.local \in IdsIn(M[i].content)
              /\ IsName(x.file.name)
  <2>1. CASE i <= kept
    <3>1. PICK n \in 1..Len(g.attachments) : x = g.attachments[n] /\ x.message = g.messages[i].id
      BY <1>12, <2>1 DEF OwnedBy
    <3>2. PICK k \in DOMAIN g.messages : /\ x.message = g.messages[k].id
                                         /\ x.local \in IdsIn(g.messages[k].content)
      BY <1>3, <1>4, <3>1 DEF Filed
    <3>3. i = k
      BY <1>1, <1>3, <2>1, <3>1, <3>2 DEF Filed
    <3>4. IsName(x.file.name)
      BY <1>3, <1>4, <3>1 DEF Filed
    <3> QED  BY <1>1, <2>1, <3>1, <3>2, <3>3, <3>4
  <2>2. CASE ~(i <= kept)
    <3>1. PICK j \in PlacesIn(final[i].body) : x = RecordFor(i, final[i], bindings, j)
      BY <1>12, <2>2 DEF OwnedBy
    <3>2. Bound(bindings[final[i].body[j].reference], final[i].body[j])
      BY <1>5, <2>2
    <3> DEFINE m == final[i]
    <3>3. /\ j \in PlacesIn(m.body) /\ x = RecordFor(i, m, bindings, j)
          /\ Bound(bindings[m.body[j].reference], m.body[j])
      BY <3>1, <3>2
    <3> HIDE DEF m
    <3>4. x.message = <<"turn", i, 0>> /\ x.local = m.body[j].reference /\ IsName(x.file.name)
      BY <3>3, RecordIs
    <3>5. IdsIn(M[i].content) = {m.body[l].reference : l \in PlacesIn(m.body)} /\ M[i].id = <<"turn", i, 0>>
      BY <1>5, <2>2 DEF Writes, m
    <3> QED  BY <3>3, <3>4, <3>5
  <2> QED  BY <2>1, <2>2
<1>13. ASSUME NEW i \in 1..N, NEW id \in IdsIn(M[i].content)
       PROVE  \E q \in 1..Len(R) : <<R[q].message, R[q].local>> = <<M[i].id, id>>
  <2>1. CASE i <= kept
    <3>1. i \in DOMAIN g.messages /\ M[i] = g.messages[i]
      BY <1>1, <2>1
    <3>2. PICK n \in DOMAIN g.attachments :
            <<g.attachments[n].message, g.attachments[n].local>> = <<g.messages[i].id, id>>
      BY <1>3, <3>1 DEF Filed
    <3>3. g.attachments[n].message = g.messages[i].id
      BY <3>2
    <3>4. owned(i, g.attachments[n])
      BY <1>4, <2>1, <3>3 DEF OwnedBy
    <3>5. PICK q \in 1..Len(R) : R[q] = g.attachments[n]
      BY <1>2, <3>4
    <3> QED  BY <3>1, <3>2, <3>5
  <2>2. CASE ~(i <= kept)
    <3>1. PICK j \in PlacesIn(final[i].body) : id = final[i].body[j].reference
      <4>1. IdsIn(M[i].content) = {final[i].body[j].reference : j \in PlacesIn(final[i].body)}
        BY <1>5, <2>2 DEF Writes
      <4> QED  BY <4>1
    <3>2. Bound(bindings[final[i].body[j].reference], final[i].body[j])
      BY <1>5, <2>2
    <3> DEFINE x == RecordFor(i, final[i], bindings, j)
    <3>3. x.message = <<"turn", i, 0>> /\ x.local = id
      BY <3>1, <3>2 DEF RecordFor, NewRecordId, Bound
    <3>4. owned(i, x)
      BY <2>2 DEF OwnedBy
    <3>5. PICK q \in 1..Len(R) : R[q] = x
      BY <1>2, <3>4
    <3> QED  BY <1>7, <2>2, <3>3, <3>5
  <2> QED  BY <2>1, <2>2
<1> HIDE DEF M, R, s, owned, N
<1>14. \A q \in 1..Len(R) : /\ IsName(R[q].file.name)
                            /\ \E i \in 1..N : R[q].message = M[i].id /\ R[q].local \in IdsIn(M[i].content)
  BY <1>2, <1>12
<1> DEFINE G == SavedOf(g, final, kept, bindings)
<1>15. G.messages = M /\ G.attachments = R
  BY <1>8 DEF s
<1> HIDE DEF G
<1>16. DOMAIN M = 1..N /\ DOMAIN R = 1..Len(R) /\ IsSequence(M) /\ IsSequence(R)
  BY <1>1, <1>2
<1>17. /\ IsSequence(G.messages) /\ IsSequence(G.attachments)
       /\ \A i \in DOMAIN G.messages :
            /\ IsContent(G.messages[i].content)
            /\ G.messages[i].role = "tool" \/ G.messages[i].calls # {} =>
                 IdsIn(G.messages[i].content) = {}
       /\ \A i, k \in DOMAIN G.messages : G.messages[i].id = G.messages[k].id => i = k
  BY ONLY <1>9, <1>10, <1>15, <1>16
<1>18. \A n, m \in DOMAIN G.attachments :
         \/ G.attachments[n].id = G.attachments[m].id
         \/ <<G.attachments[n].message, G.attachments[n].local>> =
               <<G.attachments[m].message, G.attachments[m].local>>
         => n = m
  BY ONLY <1>11, <1>15, <1>16
<1>19. \A n \in DOMAIN G.attachments :
         \E i \in DOMAIN G.messages : /\ G.attachments[n].message = G.messages[i].id
                                      /\ G.attachments[n].local \in IdsIn(G.messages[i].content)
  BY ONLY <1>14, <1>15, <1>16
<1>20. \A i \in DOMAIN G.messages : \A id \in IdsIn(G.messages[i].content) :
         \E n \in DOMAIN G.attachments :
           <<G.attachments[n].message, G.attachments[n].local>> = <<G.messages[i].id, id>>
  <2> SUFFICES ASSUME NEW i \in DOMAIN G.messages, NEW id \in IdsIn(G.messages[i].content)
               PROVE  \E n \in DOMAIN G.attachments :
                        <<G.attachments[n].message, G.attachments[n].local>> = <<G.messages[i].id, id>>
    OBVIOUS
  <2>1. i \in 1..N /\ id \in IdsIn(M[i].content)
    BY <1>15, <1>16
  <2>2. PICK q \in 1..Len(R) : <<R[q].message, R[q].local>> = <<M[i].id, id>>
    BY <1>13, <2>1
  <2> QED  BY <1>15, <1>16, <2>2
<1>21. \A n \in DOMAIN G.attachments : IsName(G.attachments[n].file.name)
  BY ONLY <1>14, <1>15, <1>16
<1>22. Filed(G)
  BY ONLY <1>17, <1>18, <1>19, <1>20, <1>21 DEF Filed
<1> QED
  BY <1>22 DEF G

-----------------------------------------------------------------------------
(* What was saved, read back by the next turn.                             *)

(* Read back, a saved message is the one that was saved, but for the type  *)
(* of its images.                                                          *)
AlikePart(a, b) ==
  IF IsText(b) THEN a = b
  ELSE /\ IsAttachment(a) /\ IsAttachment(b)
       /\ a.kind = b.kind /\ a.content = b.content /\ a.name = b.name
       /\ b.kind # "image" => a.mime = b.mime

AlikeBodies(a, b) ==
  Len(a) = Len(b) /\ \A j \in 1..Len(b) : AlikePart(a[j], b[j])

Alike(m, n) ==
  m.role = n.role /\ m.calls = n.calls /\ m.answers = n.answers /\ AlikeBodies(m.body, n.body)

(* A record of the saved aggregate that belongs to a message.              *)
LEMMA SavedRecordOf ==
  ASSUME NEW s, Filed(s), NEW i \in 1..Len(s.messages), NEW id \in IdsIn(s.messages[i].content),
         NEW q \in 1..Len(s.attachments),
         s.attachments[q].message = s.messages[i].id, s.attachments[q].local = id
  PROVE  RecordOf(s, i, id) = q
<1> DEFINE n == RecordOf(s, i, id)
<1>1. n \in 1..Len(s.attachments) /\ s.attachments[n].message = s.messages[i].id
      /\ s.attachments[n].local = id
  BY RecordsAre
<1>2. DOMAIN s.attachments = 1..Len(s.attachments)
  BY RecordsAre
<1> HIDE DEF n
<1>3. \A p, m \in DOMAIN s.attachments :
        <<s.attachments[p].message, s.attachments[p].local>> =
          <<s.attachments[m].message, s.attachments[m].local>> => p = m
  BY DEF Filed
<1>4. n = q
  BY <1>1, <1>2, <1>3
<1> QED
  BY <1>4 DEF n

LEMMA KeptReadsBack ==
  ASSUME NEW g, NEW final, NEW kept, NEW bindings, Saving(g, final, kept, bindings),
         NEW s, s = SavedOf(g, final, kept, bindings), Filed(s),
         NEW i \in 1..Len(final), i <= kept, NEW m, ReadBack(s, i, m), NEW n, ReadBack(g, i, n)
  PROVE  m = n
<1> DEFINE content == g.messages[i].content
           here == [id \in IdsIn(content) |-> PartOf(RetainStored(s)[RecordOf(s, i, id)])]
           there == [id \in IdsIn(content) |-> PartOf(RetainStored(g)[RecordOf(g, i, id)])]
<1>1. s.messages = SavedMessages(g, final, kept, bindings) /\ s.attachments = SavedRecords(g, final, kept, bindings)
  BY DEF SavedOf
<1>2. /\ s.messages[i] = g.messages[i] /\ i \in 1..Len(s.messages)
      /\ i \in 1..Len(g.messages) /\ Filed(g)
  <2>1. s.messages[i] = g.messages[i] /\ i \in DOMAIN g.messages /\ Len(s.messages) = Len(final)
    BY <1>1, SavedMessagesAre
  <2>2. Filed(g)
    BY DEF Saving
  <2> QED  BY <2>1, <2>2, RecordsAre
<1>3. ASSUME NEW id \in IdsIn(content)
      PROVE  PartOf(RetainStored(s)[RecordOf(s, i, id)]) = PartOf(RetainStored(g)[RecordOf(g, i, id)])
  <2> DEFINE k == RecordOf(g, i, id)
             x == g.attachments[k]
  <2>1. k \in 1..Len(g.attachments) /\ x.message = g.messages[i].id /\ x.local = id
    BY <1>2, RecordsAre
  <2>2. OwnedBy(g, final, kept, bindings, i, x)
    BY <2>1 DEF OwnedBy
  <2>3. PICK q \in 1..Len(s.attachments) : s.attachments[q] = x
    BY <1>1, <2>2, SavedRecordsAre
  <2>4. RecordOf(s, i, id) = q
    <3>1. s.attachments[q].message = s.messages[i].id /\ s.attachments[q].local = id
          /\ id \in IdsIn(s.messages[i].content)
      BY <1>2, <2>1, <2>3
    <3> QED  BY <1>2, <3>1, SavedRecordOf
  <2>5. q \in DOMAIN s.attachments /\ k \in DOMAIN g.attachments
    BY <1>2, <2>1, RecordsAre
  <2>6. RetainStored(s)[q] = RetainStored(g)[k]
    BY <2>3, <2>5 DEF RetainStored
  <2> QED  BY <2>4, <2>6
<1>4. here = there
  BY <1>3
<1>5. /\ m = [role |-> m.role, body |-> m.body, calls |-> m.calls, answers |-> m.answers]
      /\ m.role = g.messages[i].role /\ m.calls = g.messages[i].calls
      /\ m.answers = g.messages[i].answers
      /\ m.body = IF g.messages[i].role = "tool" \/ g.messages[i].calls # {}
                  THEN JoinedText(content) ELSE CanonicalBody(content, here)
  BY <1>2 DEF ReadBack
<1>6. /\ n = [role |-> n.role, body |-> n.body, calls |-> n.calls, answers |-> n.answers]
      /\ n.role = g.messages[i].role /\ n.calls = g.messages[i].calls
      /\ n.answers = g.messages[i].answers
      /\ n.body = IF g.messages[i].role = "tool" \/ g.messages[i].calls # {}
                  THEN JoinedText(content) ELSE CanonicalBody(content, there)
  BY <1>2 DEF ReadBack
<1> HIDE DEF here, there, content
<1> QED
  BY <1>4, <1>5, <1>6

LEMMA NewReadsBack ==
  ASSUME NEW g, NEW final, NEW kept, NEW bindings, Saving(g, final, kept, bindings),
         NEW s, s = SavedOf(g, final, kept, bindings), Filed(s),
         NEW i \in 1..Len(final), ~(i <= kept), NEW m, ReadBack(s, i, m)
  PROVE  Alike(m, final[i])
<1> DEFINE message == final[i]
           body    == message.body
           created == CreatedMessage("turn", i, message, bindings)
           attached == [id \in IdsIn(created.content) |-> PartOf(RetainStored(s)[RecordOf(s, i, id)])]
<1>1. s.messages = SavedMessages(g, final, kept, bindings) /\ s.attachments = SavedRecords(g, final, kept, bindings)
  BY DEF SavedOf
<1>2. s.messages[i] = created /\ i \in 1..Len(s.messages) /\ Len(s.messages) = Len(final)
  BY <1>1, SavedMessagesAre
<1>3. /\ Savable(message, bindings) /\ Writes(created, i, message)
      /\ \A j \in PlacesIn(body) : Bound(bindings[body[j].reference], body[j])
  BY NewMessages
<1>4. /\ m.role = message.role /\ m.calls = message.calls /\ m.answers = message.answers
      /\ m.body = IF message.role = "tool" \/ message.calls # {}
                  THEN JoinedText(created.content) ELSE CanonicalBody(created.content, attached)
  BY <1>2, <1>3 DEF ReadBack, Writes
<1>5. IF message.role = "tool" \/ message.calls # {}
      THEN JoinedText(created.content) = body
      ELSE CanonicalBody(created.content, attached) =
             [j \in 1..Len(body) |-> IF IsText(body[j]) THEN body[j] ELSE attached[body[j].reference]]
  <2>1. created = CreatedMessage("turn", i, message, bindings) /\ Savable(message, bindings)
    BY <1>3
  <2> HIDE DEF message, attached, created
  <2>2. IF message.role = "tool" \/ message.calls # {}
        THEN JoinedText(created.content) = message.body
        ELSE CanonicalBody(created.content, attached) =
               [j \in 1..Len(message.body) |->
                  IF IsText(message.body[j]) THEN message.body[j]
                  ELSE attached[message.body[j].reference]]
    BY ONLY <2>1, CreatedReadsBack
  <2> QED  BY <2>2
<1>6. IsBody(body) /\ (message.role = "tool" \/ message.calls # {} => IsOneText(body))
  BY <1>3 DEF Savable
<1>7. /\ Len(body) \in Nat
      /\ \A j \in 1..Len(body) : ~IsText(body[j]) <=> j \in PlacesIn(body)
  BY <1>6, SequenceType, KindsOfParts DEF IsBody, PlacesIn
<1>8. ASSUME NEW j \in PlacesIn(body)
      PROVE  AlikePart(attached[body[j].reference], body[j])
  <2> DEFINE id == body[j].reference
             x  == RecordFor(i, message, bindings, j)
  <2>1. id \in IdsIn(created.content) /\ created.id = <<"turn", i, 0>>
    <3>1. IdsIn(created.content) = {body[l].reference : l \in PlacesIn(body)} /\ created.id = <<"turn", i, 0>>
      BY <1>3 DEF Writes
    <3> HIDE DEF body, created
    <3> QED  BY <3>1
  <2>2. /\ x.message = <<"turn", i, 0>> /\ x.local = id /\ x.kind = body[j].kind
        /\ x.file.content = body[j].content /\ x.file.name = body[j].name
        /\ body[j].kind # "image" => x.file.mime = body[j].mime
    <3> HIDE DEF message
    <3> QED  BY <1>3, RecordIs
  <2>3. OwnedBy(g, final, kept, bindings, i, x)
    BY DEF OwnedBy
  <2> HIDE DEF x
  <2>4. PICK q \in 1..Len(s.attachments) : s.attachments[q] = x
    BY <1>1, <2>3, SavedRecordsAre
  <2>5. RecordOf(s, i, id) = q
    <3>1. s.attachments[q].message = s.messages[i].id /\ s.attachments[q].local = id
          /\ id \in IdsIn(s.messages[i].content)
      BY <1>2, <2>1, <2>2, <2>4
    <3> HIDE DEF id
    <3> QED  BY <1>2, <3>1, SavedRecordOf
  <2>6. attached[id] = PartOf(RetainStored(s)[q])
    BY <2>1, <2>5
  <2>7. q \in DOMAIN s.attachments
    BY <2>4, RecordsAre
  <2> DEFINE item == RetainStored(s)[q]
  <2>8. /\ item.kind = x.kind /\ item.file = x.file
        /\ item.name = x.file.name /\ item.mime = x.file.mime
    BY <2>4, <2>7 DEF RetainStored
  <2> HIDE DEF item, attached
  <2>9. /\ attached[id].kind = x.kind /\ attached[id].content = x.file.content
        /\ attached[id].name = x.file.name /\ attached[id].mime = x.file.mime
        /\ IsAttachment(attached[id])
    BY <2>6, <2>8, ReferenceOfPart DEF PartOf, item
  <2>10. IsAttachment(body[j]) /\ ~IsText(body[j])
    BY KindsOfParts DEF PlacesIn
  <2> HIDE DEF id, body
  <2>11. AlikePart(attached[id], body[j])
    BY <2>2, <2>9, <2>10 DEF AlikePart
  <2> QED  BY <2>11 DEF id
<1> HIDE DEF created, attached, body, message
<1>9. AlikeBodies(m.body, body)
  <2>1. CASE message.role = "tool" \/ message.calls # {}
    <3>1. m.body = body /\ PlacesIn(body) = {}
      BY <1>4, <1>5, <1>6, <2>1, OneTextIsBody
    <3> QED  BY <1>7, <3>1 DEF AlikeBodies, AlikePart
  <2>2. CASE ~(message.role = "tool" \/ message.calls # {})
    <3>1. m.body = [j \in 1..Len(body) |-> IF IsText(body[j]) THEN body[j] ELSE attached[body[j].reference]]
      BY <1>4, <1>5, <2>2
    <3>2. m.body = [j \in 1..Len(body) |-> m.body[j]]
      BY <3>1
    <3>3. Len(m.body) = Len(body)
      BY <1>7, <3>2, FunctionIs
    <3>4. ASSUME NEW j \in 1..Len(body) PROVE AlikePart(m.body[j], body[j])
      <4>1. CASE IsText(body[j])
        BY <3>1, <4>1 DEF AlikePart
      <4>2. CASE ~IsText(body[j])
        <5>1. m.body[j] = attached[body[j].reference] /\ j \in PlacesIn(body)
          BY <1>7, <3>1, <4>2
        <5> QED  BY <1>8, <5>1
      <4> QED  BY <4>1, <4>2
    <3> QED  BY <3>3, <3>4 DEF AlikeBodies
  <2> QED  BY <2>1, <2>2
<1> QED
  BY <1>4, <1>9 DEF Alike, body, message

-----------------------------------------------------------------------------
(* Transcripts that are alike but for references and the types of images.  *)

Blank(part) ==
  IF IsAttachment(part) /\ part.kind = "image" THEN [part EXCEPT !.mime = NoType] ELSE part

Unnamed(part) == IF IsText(part) THEN part ELSE [part EXCEPT !.reference = NoReference]

IsPart(part) == IF IsText(part) THEN IsLines(part) ELSE \E item : part = PartOf(item)

LEMMA PartIs ==
  ASSUME NEW item
  PROVE  LET a == PartOf(item)
         IN  /\ a = [type |-> "attachment", reference |-> item.local, kind |-> item.kind,
                     content |-> item.file.content, name |-> item.name, mime |-> item.mime]
             /\ Unnamed(a) = [type |-> "attachment", reference |-> NoReference, kind |-> item.kind,
                              content |-> item.file.content, name |-> item.name, mime |-> item.mime]
             /\ a.kind = item.kind /\ a.content = item.file.content /\ a.name = item.name
             /\ a.mime = item.mime /\ IsAttachment(a) /\ ~IsText(a)
             /\ IsAttachment(Unnamed(a)) /\ ~IsText(Unnamed(a))
  BY DEF PartOf, AttachmentPart, Unnamed, IsText, IsAttachment

LEMMA AlikeBlanked ==
  ASSUME NEW a, NEW b, IsPart(a), IsPart(b), AlikePart(a, b)
  PROVE  Blank(Unnamed(a)) = Blank(Unnamed(b))
<1>1. CASE IsText(b)
  BY <1>1 DEF AlikePart
<1>2. CASE ~IsText(b)
  <2>1. /\ IsAttachment(a) /\ a.kind = b.kind /\ a.content = b.content /\ a.name = b.name
        /\ b.kind # "image" => a.mime = b.mime
    BY <1>2 DEF AlikePart
  <2>2. PICK x : a = PartOf(x)
    BY <2>1, KindsOfParts DEF IsPart
  <2>3. PICK y : b = PartOf(y)
    BY <1>2 DEF IsPart
  <2>4. /\ Unnamed(a) = [type |-> "attachment", reference |-> NoReference, kind |-> x.kind,
                         content |-> x.file.content, name |-> x.name, mime |-> x.mime]
        /\ a.kind = x.kind /\ a.content = x.file.content /\ a.name = x.name /\ a.mime = x.mime
        /\ IsAttachment(Unnamed(a))
    BY <2>2, PartIs
  <2>5. /\ Unnamed(b) = [type |-> "attachment", reference |-> NoReference, kind |-> y.kind,
                         content |-> y.file.content, name |-> y.name, mime |-> y.mime]
        /\ b.kind = y.kind /\ b.content = y.file.content /\ b.name = y.name /\ b.mime = y.mime
        /\ IsAttachment(Unnamed(b))
    BY <2>3, PartIs
  <2> DEFINE u == Unnamed(a)
             v == Unnamed(b)
  <2>6. /\ u = [type |-> "attachment", reference |-> NoReference, kind |-> x.kind,
                content |-> x.file.content, name |-> x.name, mime |-> x.mime]
        /\ v = [type |-> "attachment", reference |-> NoReference, kind |-> y.kind,
                content |-> y.file.content, name |-> y.name, mime |-> y.mime]
        /\ IsAttachment(u) /\ IsAttachment(v)
        /\ x.kind = y.kind /\ x.file.content = y.file.content /\ x.name = y.name
        /\ x.kind # "image" => x.mime = y.mime
    BY <2>1, <2>4, <2>5
  <2> HIDE DEF u, v
  <2>7. u.kind = x.kind /\ v.kind = x.kind
    BY <2>6
  <2>8. CASE x.kind = "image"
    <3>1. [u EXCEPT !.mime = NoType] = [v EXCEPT !.mime = NoType]
      BY <2>6
    <3>2. Blank(u) = [u EXCEPT !.mime = NoType] /\ Blank(v) = [v EXCEPT !.mime = NoType]
      BY <2>6, <2>7, <2>8 DEF Blank
    <3> QED  BY <3>1, <3>2 DEF u, v
  <2>9. CASE x.kind # "image"
    <3>1. u = v
      BY <2>6, <2>9
    <3> QED  BY <3>1 DEF u, v
  <2> QED  BY <2>8, <2>9
<1> QED
  BY <1>1, <1>2

LEMMA UnnamedAlike ==
  ASSUME NEW a, NEW b, IsPart(a), IsPart(b), Unnamed(a) = Unnamed(b)
  PROVE  AlikePart(a, b)
<1>1. CASE IsText(a) /\ IsText(b)
  BY <1>1 DEF Unnamed, AlikePart
<1>2. CASE ~IsText(a) /\ IsText(b)
  <2>1. PICK x : a = PartOf(x)
    BY <1>2 DEF IsPart
  <2>2. ~IsText(Unnamed(a)) /\ Unnamed(b) = b
    BY <1>2, <2>1, PartIs DEF Unnamed
  <2> QED  BY <1>2, <2>2
<1>3. CASE IsText(a) /\ ~IsText(b)
  <2>1. PICK x : b = PartOf(x)
    BY <1>3 DEF IsPart
  <2>2. ~IsText(Unnamed(b)) /\ Unnamed(a) = a
    BY <1>3, <2>1, PartIs DEF Unnamed
  <2> QED  BY <1>3, <2>2
<1>4. CASE ~IsText(a) /\ ~IsText(b)
  <2>2. PICK x : a = PartOf(x)
    BY <1>4 DEF IsPart
  <2>3. PICK y : b = PartOf(y)
    BY <1>4 DEF IsPart
  <2>4. /\ Unnamed(a) = [type |-> "attachment", reference |-> NoReference, kind |-> x.kind,
                         content |-> x.file.content, name |-> x.name, mime |-> x.mime]
        /\ a.kind = x.kind /\ a.content = x.file.content /\ a.name = x.name /\ a.mime = x.mime
        /\ IsAttachment(a)
    BY <2>2, PartIs
  <2>5. /\ Unnamed(b) = [type |-> "attachment", reference |-> NoReference, kind |-> y.kind,
                         content |-> y.file.content, name |-> y.name, mime |-> y.mime]
        /\ b.kind = y.kind /\ b.content = y.file.content /\ b.name = y.name /\ b.mime = y.mime
        /\ IsAttachment(b)
    BY <2>3, PartIs
  <2>6. x.kind = y.kind /\ x.file.content = y.file.content /\ x.name = y.name /\ x.mime = y.mime
    <3> DEFINE u == Unnamed(a)
               v == Unnamed(b)
    <3>1. u.kind = x.kind /\ u.content = x.file.content /\ u.name = x.name /\ u.mime = x.mime
      BY <2>4
    <3>2. v.kind = y.kind /\ v.content = y.file.content /\ v.name = y.name /\ v.mime = y.mime
      BY <2>5
    <3>3. u = v
      OBVIOUS
    <3> HIDE DEF u, v
    <3> QED  BY <3>1, <3>2, <3>3
  <2> QED  BY <1>4, <2>4, <2>5, <2>6 DEF AlikePart
<1> QED
  BY <1>1, <1>2, <1>3, <1>4

(* The parts of a body are all of one of the two kinds.                    *)
LEMMA PartsOfBody ==
  ASSUME NEW messages, Bodied(messages), Shaped(messages), NEW i \in 1..Len(messages)
  PROVE  LET body == messages[i].body
         IN  /\ Len(body) \in Nat /\ DOMAIN body = 1..Len(body)
             /\ \A j \in 1..Len(body) : IsPart(body[j])
             /\ \A j \in 1..Len(body) : j \in PlacesIn(body) <=> ~IsText(body[j])
<1> DEFINE body == messages[i].body
<1>1. IsBody(body)
  BY DEF Bodied
<1>2. \A j \in PlacesIn(body) : \E item : body[j] = PartOf(item)
  BY DEF Shaped
<1> HIDE DEF body
<1>3. Len(body) \in Nat /\ DOMAIN body = 1..Len(body)
  BY <1>1, SequenceType DEF IsBody
<1>4. \A j \in 1..Len(body) : IF IsText(body[j]) THEN IsLines(body[j]) ELSE IsAttachment(body[j])
  BY <1>1, KindsOfParts DEF IsBody
<1>5. \A j \in 1..Len(body) : j \in PlacesIn(body) <=> ~IsText(body[j])
  BY <1>4, KindsOfParts DEF PlacesIn
<1>6. \A j \in 1..Len(body) : IsPart(body[j])
  BY <1>2, <1>4, <1>5 DEF IsPart
<1> QED
  BY <1>3, <1>5, <1>6 DEF body

LEMMA PrintIs ==
  ASSUME NEW m, m = [role |-> m.role, body |-> m.body, calls |-> m.calls, answers |-> m.answers]
  PROVE  Fingerprint(m) = [role |-> m.role, body |-> [j \in DOMAIN m.body |-> Unnamed(m.body[j])],
                           calls |-> m.calls, answers |-> m.answers]
<1>1. WithoutReferences(m.body) = [j \in DOMAIN m.body |-> Unnamed(m.body[j])]
  BY DEF WithoutReferences, Unnamed
<1>2. Fingerprint(m) = [m EXCEPT !.body = WithoutReferences(m.body)]
  BY DEF Fingerprint
<1> DEFINE w == WithoutReferences(m.body)
<1> HIDE DEF w
<1>3. [m EXCEPT !.body = w] = [role |-> m.role, body |-> w, calls |-> m.calls, answers |-> m.answers]
  OBVIOUS
<1> QED
  BY <1>1, <1>2, <1>3 DEF w

LEMMA PrintsAlike ==
  ASSUME NEW m, NEW n,
         m = [role |-> m.role, body |-> m.body, calls |-> m.calls, answers |-> m.answers],
         n = [role |-> n.role, body |-> n.body, calls |-> n.calls, answers |-> n.answers],
         IsSequence(m.body), \A j \in 1..Len(m.body) : IsPart(m.body[j]),
         IsSequence(n.body), \A j \in 1..Len(n.body) : IsPart(n.body[j]),
         Fingerprint(m) = Fingerprint(n)
  PROVE  Alike(m, n)
<1> DEFINE a == m.body
           b == n.body
           ua == [j \in DOMAIN a |-> Unnamed(a[j])]
           ub == [j \in DOMAIN b |-> Unnamed(b[j])]
<1>1. Len(a) \in Nat /\ DOMAIN a = 1..Len(a) /\ Len(b) \in Nat /\ DOMAIN b = 1..Len(b)
  BY SequenceType
<1>2. m.role = n.role /\ m.calls = n.calls /\ m.answers = n.answers /\ ua = ub
  <2>1. /\ Fingerprint(m) = [role |-> m.role, body |-> ua, calls |-> m.calls, answers |-> m.answers]
        /\ Fingerprint(n) = [role |-> n.role, body |-> ub, calls |-> n.calls, answers |-> n.answers]
    BY PrintIs
  <2> DEFINE p == Fingerprint(m)
             q == Fingerprint(n)
  <2>2. /\ p = [role |-> m.role, body |-> ua, calls |-> m.calls, answers |-> m.answers]
        /\ q = [role |-> n.role, body |-> ub, calls |-> n.calls, answers |-> n.answers]
        /\ p = q
    BY <2>1
  <2> HIDE DEF ua, ub, p, q
  <2>3. p.role = m.role /\ p.calls = m.calls /\ p.answers = m.answers /\ p.body = ua
    BY <2>2
  <2>4. q.role = n.role /\ q.calls = n.calls /\ q.answers = n.answers /\ q.body = ub
    BY <2>2
  <2> QED  BY <2>2, <2>3, <2>4
<1>3. DOMAIN a = DOMAIN b /\ \A j \in DOMAIN b : Unnamed(a[j]) = Unnamed(b[j])
  <2>1. DOMAIN ua = DOMAIN a /\ DOMAIN ub = DOMAIN b
    OBVIOUS
  <2>2. \A j \in DOMAIN b : ub[j] = Unnamed(b[j])
    OBVIOUS
  <2>3. \A j \in DOMAIN a : ua[j] = Unnamed(a[j])
    OBVIOUS
  <2> HIDE DEF ua, ub
  <2> QED  BY <1>2, <2>1, <2>2, <2>3
<1> HIDE DEF a, b
<1>4. Len(a) = Len(b)
  <2>1. Len(a) = 0 \/ Len(a) \in 1..Len(b)
    <3>1. Len(a) = 0 \/ Len(a) \in DOMAIN a
      BY <1>1
    <3> QED  BY <1>1, <1>3, <3>1
  <2>2. Len(b) = 0 \/ Len(b) \in 1..Len(a)
    <3>1. Len(b) = 0 \/ Len(b) \in DOMAIN b
      BY <1>1
    <3> QED  BY <1>1, <1>3, <3>1
  <2> DEFINE p == Len(a)
             q == Len(b)
  <2>3. p \in Nat /\ q \in Nat /\ (p = 0 \/ p \in 1..q) /\ (q = 0 \/ q \in 1..p)
    BY <1>1, <2>1, <2>2
  <2> HIDE DEF p, q
  <2>4. p = q
    BY ONLY <2>3
  <2> QED  BY <2>4 DEF p, q
<1>5. \A j \in 1..Len(b) : AlikePart(a[j], b[j])
  BY <1>1, <1>3, <1>4, UnnamedAlike DEF a, b
<1> QED
  BY <1>2, <1>4, <1>5 DEF Alike, AlikeBodies, a, b

LEMMA SameImage ==
  ASSUME NEW P, NEW p \in Nat, NEW q \in Nat, NEW a, NEW b,
         OneToOne(a, P, 1..p), OneToOne(b, P, 1..q)
  PROVE  p = q
<1> DEFINE at == [n \in 1..p |-> CHOOSE x \in P : a[x] = n]
           f  == [n \in 1..p |-> b[at[n]]]
<1>1. \A n \in 1..p : at[n] \in P /\ a[at[n]] = n
  BY DEF OneToOne
<1>2. \A x \in P : a[x] \in 1..p /\ at[a[x]] = x
  BY <1>1 DEF OneToOne
<1> HIDE DEF at
<1>3. f \in [1..p -> 1..q] /\ \A n \in 1..p : f[n] = b[at[n]]
  BY <1>1 DEF OneToOne
<1> HIDE DEF f
<1>4. ASSUME NEW n \in 1..p, NEW m \in 1..p, f[n] = f[m]
      PROVE  n = m
  <2>1. b[at[n]] = b[at[m]] /\ at[n] \in P /\ at[m] \in P
    BY <1>1, <1>3, <1>4
  <2>2. at[n] = at[m]
    BY <2>1 DEF OneToOne
  <2> QED  BY <1>1, <2>2
<1>5. ASSUME NEW z \in 1..q
      PROVE  \E n \in 1..p : f[n] = z
  <2>1. PICK x \in P : b[x] = z
    BY DEF OneToOne
  <2>2. a[x] \in 1..p /\ f[a[x]] = z
    BY <1>2, <1>3, <2>1
  <2> QED  BY <2>2
<1>6. OneToOne(f, 1..p, 1..q)
  BY <1>3, <1>4, <1>5 DEF OneToOne
<1> QED
  BY <1>6, SameLength

(* The places of a list of messages, as pairs.                             *)
PairsOf(messages) ==
  {e \in (1..Len(messages)) \X Nat : e[2] \in PlacesIn(messages[e[1]].body)}

PlaceOf(messages) == [e \in PairsOf(messages) |-> AttachedAt(messages, e[1], e[2])]

LEMMA PairsAre ==
  ASSUME NEW M, Bodied(M)
  PROVE  LET n == Len(AttachmentsIn(M))
         IN  n \in Nat /\ OneToOne(PlaceOf(M), PairsOf(M), 1..n)
<1> DEFINE parts == AttachmentsIn(M)
           at(i, j) == AttachedAt(M, i, j)
           P == PairsOf(M)
           f == PlaceOf(M)
<1>1. HasBodies(M)
  BY BodiedHasBodies
<1>2. /\ IsSequence(parts)
      /\ \A i \in 1..Len(M) : \A j \in PlacesIn(M[i].body) : at(i, j) \in 1..Len(parts)
      /\ \A n \in 1..Len(parts) : \E i \in 1..Len(M) : \E j \in PlacesIn(M[i].body) : n = at(i, j)
      /\ \A i, k \in 1..Len(M) : \A j \in PlacesIn(M[i].body), l \in PlacesIn(M[k].body) :
           at(i, j) = at(k, l) => i = k /\ j = l
  BY <1>1, AttachmentsAre
<1>3. Len(parts) \in Nat
  BY <1>2, SequenceType
<1>4. \A e \in P : /\ e = <<e[1], e[2]>> /\ e[1] \in 1..Len(M)
                   /\ e[2] \in PlacesIn(M[e[1]].body)
  BY DEF PairsOf
<1>5. ASSUME NEW i \in 1..Len(M), NEW j \in PlacesIn(M[i].body)
      PROVE  <<i, j>> \in P
  <2>1. j \in Nat
    <3>1. j \in 1..Len(M[i].body) /\ Len(M[i].body) \in Nat
      BY <1>1, SequenceType DEF HasBodies, PlacesIn
    <3> QED  BY <3>1
  <2> QED  BY <2>1 DEF PairsOf
<1>6. f = [e \in P |-> at(e[1], e[2])]
  BY DEF PlaceOf
<1> HIDE DEF parts, at, P, f
<1>7. f \in [P -> 1..Len(parts)] /\ \A e \in P : f[e] = at(e[1], e[2])
  BY <1>2, <1>4, <1>6
<1>8. ASSUME NEW x \in P, NEW y \in P, f[x] = f[y]
      PROVE  x = y
  <2>1. at(x[1], x[2]) = at(y[1], y[2])
    BY <1>7, <1>8
  <2>2. x[1] = y[1] /\ x[2] = y[2]
    BY <1>2, <1>4, <2>1
  <2>3. x = <<x[1], x[2]>> /\ y = <<y[1], y[2]>>
    BY <1>4
  <2> QED  BY <2>2, <2>3
<1>9. ASSUME NEW z \in 1..Len(parts)
      PROVE  \E x \in P : f[x] = z
  <2>1. PICK i \in 1..Len(M) : \E j \in PlacesIn(M[i].body) : z = at(i, j)
    BY <1>2
  <2>2. PICK j \in PlacesIn(M[i].body) : z = at(i, j)
    BY <2>1
  <2>3. <<i, j>> \in P /\ f[<<i, j>>] = at(<<i, j>>[1], <<i, j>>[2])
    BY <1>5, <1>7
  <2>4. f[<<i, j>>] = z
    BY <2>2, <2>3
  <2> QED  BY <2>3, <2>4
<1> QED
  BY <1>3, <1>7, <1>8, <1>9 DEF parts, P, f, OneToOne

LEMMA SameCount ==
  ASSUME NEW M, Bodied(M), NEW N, Bodied(N), Len(M) = Len(N),
         \A i \in 1..Len(M) : PlacesIn(M[i].body) = PlacesIn(N[i].body)
  PROVE  Len(AttachmentsIn(M)) = Len(AttachmentsIn(N))
<1> DEFINE P == PairsOf(M)
           Q == PairsOf(N)
           p == Len(AttachmentsIn(M))
           q == Len(AttachmentsIn(N))
           a == PlaceOf(M)
           b == PlaceOf(N)
<1>1. P = Q
  BY DEF PairsOf
<1>2. p \in Nat /\ OneToOne(a, P, 1..p)
  BY PairsAre
<1>3. q \in Nat /\ OneToOne(b, Q, 1..q)
  BY PairsAre
<1> HIDE DEF P, Q, p, q, a, b
<1>4. p = q
  BY <1>1, <1>2, <1>3, SameImage
<1> QED
  BY <1>4 DEF p, q

(* A message without the types of its images.                              *)
Blanked(m) ==
  [Fingerprint(m) EXCEPT !.body = [j \in DOMAIN @ |->
     IF IsAttachment(@[j]) /\ @[j].kind = "image" THEN [@[j] EXCEPT !.mime = NoType] ELSE @[j]]]

LEMMA BlankedIs ==
  ASSUME NEW m, m = [role |-> m.role, body |-> m.body, calls |-> m.calls, answers |-> m.answers],
         DOMAIN m.body = 1..Len(m.body)
  PROVE  Blanked(m) = [role |-> m.role, body |-> [j \in 1..Len(m.body) |-> Blank(Unnamed(m.body[j]))],
                       calls |-> m.calls, answers |-> m.answers]
<1> DEFINE p == Fingerprint(m)
           u == [j \in 1..Len(m.body) |-> Unnamed(m.body[j])]
           w == [j \in DOMAIN p.body |->
                   IF IsAttachment(p.body[j]) /\ p.body[j].kind = "image"
                   THEN [p.body[j] EXCEPT !.mime = NoType] ELSE p.body[j]]
<1>1. p = [role |-> m.role, body |-> u, calls |-> m.calls, answers |-> m.answers]
  BY PrintIs
<1>2. Blanked(m) = [p EXCEPT !.body = w]
  BY DEF Blanked
<1>3. w = [j \in DOMAIN p.body |-> Blank(p.body[j])]
  BY DEF Blank
<1>4. DOMAIN u = 1..Len(m.body) /\ \A j \in 1..Len(m.body) : u[j] = Unnamed(m.body[j])
  OBVIOUS
<1> HIDE DEF p, w, u
<1>5. p.body = u
  BY <1>1
<1>6. w = [j \in 1..Len(m.body) |-> Blank(Unnamed(m.body[j]))]
  BY <1>3, <1>4, <1>5
<1>7. [p EXCEPT !.body = w] = [role |-> m.role, body |-> w, calls |-> m.calls, answers |-> m.answers]
  BY <1>1
<1> QED
  BY <1>2, <1>6, <1>7

LEMMA BlankedAlike ==
  ASSUME NEW M, Bodied(M), Shaped(M), NEW N, Bodied(N), Shaped(N), Len(M) = Len(N),
         \A i \in 1..Len(M) : Alike(M[i], N[i])
  PROVE  /\ WithoutTypes(M) = WithoutTypes(N)
         /\ Len(AttachmentsIn(M)) = Len(AttachmentsIn(N))
<1>1. DOMAIN M = 1..Len(M) /\ DOMAIN N = 1..Len(M)
  BY BodiedHasBodies
<1>2. ASSUME NEW i \in 1..Len(M)
      PROVE  Blanked(M[i]) = Blanked(N[i]) /\ PlacesIn(M[i].body) = PlacesIn(N[i].body)
  <2> DEFINE m == M[i]
             n == N[i]
             a == m.body
             b == n.body
  <2>1. /\ Len(a) \in Nat /\ DOMAIN a = 1..Len(a) /\ \A j \in 1..Len(a) : IsPart(a[j])
        /\ \A j \in 1..Len(a) : j \in PlacesIn(a) <=> ~IsText(a[j])
    BY PartsOfBody
  <2>2. /\ Len(b) \in Nat /\ DOMAIN b = 1..Len(b) /\ \A j \in 1..Len(b) : IsPart(b[j])
        /\ \A j \in 1..Len(b) : j \in PlacesIn(b) <=> ~IsText(b[j])
    BY PartsOfBody
  <2>3. /\ m = [role |-> m.role, body |-> a, calls |-> m.calls, answers |-> m.answers]
        /\ n = [role |-> n.role, body |-> b, calls |-> n.calls, answers |-> n.answers]
    BY DEF Shaped
  <2>4. /\ m.role = n.role /\ m.calls = n.calls /\ m.answers = n.answers
        /\ Len(a) = Len(b) /\ \A j \in 1..Len(b) : AlikePart(a[j], b[j])
    BY DEF Alike, AlikeBodies
  <2> HIDE DEF m, n
  <2>5. /\ Blanked(m) = [role |-> m.role, body |-> [j \in 1..Len(a) |-> Blank(Unnamed(a[j]))],
                         calls |-> m.calls, answers |-> m.answers]
        /\ Blanked(n) = [role |-> n.role, body |-> [j \in 1..Len(b) |-> Blank(Unnamed(b[j]))],
                         calls |-> n.calls, answers |-> n.answers]
    BY <2>1, <2>2, <2>3, BlankedIs
  <2> HIDE DEF a, b
  <2>6. \A j \in 1..Len(b) : Blank(Unnamed(a[j])) = Blank(Unnamed(b[j]))
    BY <2>1, <2>2, <2>4, AlikeBlanked
  <2>7. [j \in 1..Len(a) |-> Blank(Unnamed(a[j]))] = [j \in 1..Len(b) |-> Blank(Unnamed(b[j]))]
    BY <2>4, <2>6
  <2>8. Blanked(m) = Blanked(n)
    BY <2>4, <2>5, <2>7
  <2>9. \A j \in 1..Len(b) : j \in PlacesIn(a) <=> j \in PlacesIn(b)
    BY <2>1, <2>2, <2>4, KindsOfParts DEF AlikePart
  <2>10. PlacesIn(a) \subseteq 1..Len(b) /\ PlacesIn(b) \subseteq 1..Len(b)
    BY <2>4 DEF PlacesIn
  <2>11. PlacesIn(a) = PlacesIn(b)
    BY <2>9, <2>10
  <2> QED  BY <2>8, <2>11 DEF m, n, a, b
<1>3. WithoutTypes(M) = [i \in 1..Len(M) |-> Blanked(M[i])] /\ WithoutTypes(N) = [i \in 1..Len(M) |-> Blanked(N[i])]
  BY <1>1 DEF WithoutTypes, Blanked
<1>4. WithoutTypes(M) = WithoutTypes(N)
  BY <1>2, <1>3
<1>5. Len(AttachmentsIn(M)) = Len(AttachmentsIn(N))
  BY <1>2, SameCount
<1> QED
  BY <1>4, <1>5

(* What is saved is filed, and read back.                                  *)
LEMMA SavedAgain ==
  ASSUME NEW g, NEW final, NEW kept, NEW bindings, Saving(g, final, kept, bindings),
         NEW s, s = SavedOf(g, final, kept, bindings)
  PROVE  /\ Filed(s)
         /\ WithoutTypes(CanonicalStored(s, RetainStored(s))) = WithoutTypes(final)
         /\ Len(s.attachments) = Len(AttachmentsIn(final))
<1> DEFINE R == CanonicalStored(s, RetainStored(s))
           O == CanonicalStored(g, RetainStored(g))
<1>1. Filed(s)
  BY SavedIsFiled
<1>2. Bodied(final) /\ Shaped(final) /\ Filed(g)
  BY DEF Saving
<1>3. /\ Bodied(R) /\ OneReference(R)
      /\ Carried(R, RetainStored(s)) /\ Covered(R, RetainStored(s))
  BY <1>1, StoredIs
<1>4. Bodied(O) /\ Carried(O, RetainStored(g))
  BY <1>2, StoredIs
<1>5. /\ Len(R) = Len(s.messages) /\ \A i \in 1..Len(s.messages) : ReadBack(s, i, R[i])
  BY <1>1, StoredReadsBack
<1>6. /\ Len(O) = Len(g.messages) /\ \A i \in 1..Len(g.messages) : ReadBack(g, i, O[i])
  BY <1>2, StoredReadsBack
<1>7. Len(s.messages) = Len(final) /\ Len(final) \in Nat
  BY SavedMessagesAre DEF SavedOf
<1>8. Shaped(R)
  <2>1. \A i \in 1..Len(R) : R[i] = [role |-> R[i].role, body |-> R[i].body,
                                    calls |-> R[i].calls, answers |-> R[i].answers]
    BY <1>5 DEF ReadBack
  <2> HIDE DEF R
  <2> QED  BY <1>3, <2>1 DEF Shaped, Carried
<1>9. Shaped(O)
  BY <1>4, <1>6 DEF Shaped, ReadBack, Carried
<1>10. ASSUME NEW i \in 1..Len(final)
       PROVE  Alike(R[i], final[i])
  <2> DEFINE m == R[i]
             n == final[i]
             o == O[i]
  <2>1. ReadBack(s, i, m)
    BY <1>5, <1>7
  <2>2. CASE i <= kept
    <3>1. i \in 1..Len(g.messages) /\ Fingerprint(o) = Fingerprint(n)
      <4>1. kept \in Nat /\ kept <= Len(g.messages) /\ Len(g.messages) \in Nat
        BY <1>2, NewMessages, RecordsAre DEF Saving
      <4>2. i \in 1..kept
        BY <2>2, <4>1
      <4> QED  BY <4>1, <4>2 DEF Saving
    <3>2. ReadBack(g, i, o)
      BY <1>6, <3>1
    <3>3. /\ o = [role |-> o.role, body |-> o.body, calls |-> o.calls, answers |-> o.answers]
          /\ n = [role |-> n.role, body |-> n.body, calls |-> n.calls, answers |-> n.answers]
      BY <1>2, <3>2 DEF ReadBack, Shaped
    <3>4. IsSequence(o.body) /\ \A j \in 1..Len(o.body) : IsPart(o.body[j])
      <4>1. i \in 1..Len(O)
        BY <1>6, <3>1
      <4> HIDE DEF O
      <4> QED  BY <1>4, <1>9, <4>1, PartsOfBody DEF Bodied, IsBody
    <3>5. IsSequence(n.body) /\ \A j \in 1..Len(n.body) : IsPart(n.body[j])
      BY <1>2, PartsOfBody DEF Bodied, IsBody
    <3> HIDE DEF m, n, o
    <3>6. m = o
      BY <1>1, <2>1, <2>2, <3>2, KeptReadsBack
    <3>7. Alike(o, n)
      BY <3>1, <3>3, <3>4, <3>5, PrintsAlike
    <3> QED  BY <3>6, <3>7 DEF m, n
  <2>3. CASE ~(i <= kept)
    <3> HIDE DEF m, n
    <3>1. Alike(m, final[i])
      BY <1>1, <2>1, <2>3, NewReadsBack
    <3> QED  BY <3>1 DEF m
  <2> QED  BY <2>2, <2>3
<1>11. WithoutTypes(R) = WithoutTypes(final) /\ Len(AttachmentsIn(R)) = Len(AttachmentsIn(final))
  <2> HIDE DEF R
  <2> QED  BY <1>2, <1>3, <1>5, <1>7, <1>8, <1>10, BlankedAlike
<1>12. Len(RetainStored(s)) = Len(AttachmentsIn(R))
  <2>1. OneLocal(RetainStored(s)) /\ Len(RetainStored(s)) \in Nat
    BY <1>1, RetainedAre
  <2> DEFINE items == RetainStored(s)
  <2> HIDE DEF R, items
  <2> QED  BY <1>3, <2>1, CountOfItems DEF items
<1>13. Len(RetainStored(s)) = Len(s.attachments)
  BY <1>1, RetainedAre
<1> QED
  BY <1>1, <1>11, <1>12, <1>13

-----------------------------------------------------------------------------
(* The turn saves what it aims at.                                         *)

LEMMA BindingIs ==
  ASSUME NEW c, WellMade(c), NEW g, Filed(g), NEW n \in 1..Len(c.resolved)
  PROVE  AttachmentBindings(c.resolved, g, RetainStored(g))[AttachmentId(n)]
           = Binding(AttachmentId(n), c.resolved[n])
<1> DEFINE items == c.resolved
           kept  == RetainStored(g)
           ref   == AttachmentId(n)
           I     == {i \in 1..Len(kept) : kept[i].local = ref}
           bindings == AttachmentBindings(items, g, kept)
<1>1. items[n].local = ref /\ ItemFor(items, ref) = n /\ n \in DOMAIN items
  BY LocalsOfRequest, ResolvedAre
<1>2. I = {}
  <2>1. \A i \in 1..Len(kept) : kept[i].local = StoredReference(g.attachments[i].id)
    BY RetainedAre
  <2> QED  BY <2>1 DEF StoredReference, AttachmentId
<1>3. SelectInSeq(kept, LAMBDA item : item.local = ref) = IF I # {} THEN Min(I) ELSE 0
  BY DEF SelectInSeq
<1>4. SelectInSeq(kept, LAMBDA item : item.local = ref) = 0
  <2> HIDE DEF I
  <2> QED  BY <1>2, <1>3
<1>5. ref \in {items[m].local : m \in DOMAIN items} \cup {kept[m].local : m \in DOMAIN kept}
  BY <1>1
<1>6. bindings[ref] = IF SelectInSeq(kept, LAMBDA item : item.local = ref) # 0
                      THEN Binding(g.attachments[SelectInSeq(kept, LAMBDA item : item.local = ref)].local,
                                   kept[SelectInSeq(kept, LAMBDA item : item.local = ref)])
                      ELSE Binding(ref, items[ItemFor(items, ref)])
  <2> HIDE DEF items, kept, ref
  <2> QED  BY <1>5 DEF AttachmentBindings
<1> QED
  BY <1>1, <1>4, <1>6

LEMMA BoundToItem ==
  ASSUME NEW c, WellMade(c), NEW g, Filed(g), NEW n \in 1..Len(c.resolved),
         Faithful(c.resolved[n])
  PROVE  LET part == PartOf(c.resolved[n])
         IN  Bound(AttachmentBindings(c.resolved, g, RetainStored(g))[part.reference], part)
<1> DEFINE item == c.resolved[n]
           part == PartOf(item)
           bindings == AttachmentBindings(c.resolved, g, RetainStored(g))
<1>1. item.local = AttachmentId(n)
  BY LocalsOfRequest
<1>2. bindings[AttachmentId(n)] = Binding(AttachmentId(n), item)
  BY BindingIs
<1>3. /\ part.reference = item.local /\ part.kind = item.kind /\ part.content = item.file.content
      /\ part.name = item.name /\ part.mime = item.mime
  BY ReferenceOfPart DEF PartOf
<1> HIDE DEF part, bindings, item
<1>4. bindings[part.reference] = Binding(AttachmentId(n), item)
  BY <1>1, <1>2, <1>3
<1>5. Faithful(item)
  BY DEF item
<1>6. Bound(Binding(AttachmentId(n), item), part)
  BY <1>1, <1>3, <1>5 DEF Bound, Binding, Faithful
<1> QED
  BY <1>4, <1>6 DEF part, bindings, item

(* What the turn aims at: what was saved so far and what is requested.     *)
Aim(target, confirmed, request, off) ==
  /\ off \in Nat /\ off <= Len(confirmed)
  /\ IsSequence(target) /\ Len(target) = off + Len(request)
  /\ \A i \in 1..off : target[i] = confirmed[i]
  /\ \A i \in 1..Len(request) : target[off + i] = request[i]

LEMMA KeptIs ==
  ASSUME NEW s, Len(s) \in Nat, NEW t, Len(t) \in Nat, NEW off \in Nat,
         off <= Len(s), off <= Len(t), \A i \in 1..off : t[i] = s[i]
  PROVE  LET kept == CommonPrefix(s, t)
         IN  /\ kept \in 0..Len(t) /\ kept <= Len(s) /\ off <= kept
             /\ \A i \in 1..kept : Fingerprint(s[i]) = Fingerprint(t[i])
<1> DEFINE Same(n) == \A i \in 1..n : Fingerprint(s[i]) = Fingerprint(t[i])
           common == {n \in 0..Len(t) : n <= Len(s) /\ Same(n)}
           gaps == {m \in Nat : \E n \in common : m = Len(t) - n}
<1>1. off \in common
  OBVIOUS
<1>2. Len(t) - off \in gaps
  <2>1. Len(t) - off \in Nat
    OBVIOUS
  <2> HIDE DEF common
  <2> QED  BY <1>1, <2>1
<1>3. \A n \in common : n \in 0..Len(t)
  OBVIOUS
<1> HIDE DEF common
<1>4. PICK m \in gaps : \A k \in gaps : m <= k
  <2>1. gaps \in SUBSET Nat /\ gaps # {}
    BY <1>2
  <2> HIDE DEF gaps
  <2> QED  BY <2>1, LeastExists
<1>5. PICK n \in common : m = Len(t) - n
  BY <1>4
<1>6. \A k \in common : k <= n
  <2> SUFFICES ASSUME NEW k \in common PROVE k <= n
    OBVIOUS
  <2>1. Len(t) - k \in gaps
    BY <1>3
  <2>2. m <= Len(t) - k
    BY <1>4, <2>1
  <2> QED  BY <1>3, <1>5, <2>2
<1>7. CommonPrefix(s, t) = CHOOSE k \in common : \A l \in common : l <= k
  BY DEF CommonPrefix, common
<1> DEFINE kept == CommonPrefix(s, t)
<1>8. kept \in common /\ \A l \in common : l <= kept
  BY <1>5, <1>6, <1>7
<1>9. off <= kept
  BY <1>1, <1>8
<1> QED
  BY <1>8, <1>9 DEF common

LEMMA MessageIs ==
  ASSUME NEW s \in Seq(Message), NEW i \in 1..Len(s)
  PROVE  s[i] = [role |-> s[i].role, body |-> s[i].body, calls |-> s[i].calls, answers |-> s[i].answers]
<1>1. s[i] \in Message
  OBVIOUS
<1> DEFINE m == s[i]
<1> HIDE DEF m
<1>2. m \in Message => m = [role |-> m.role, body |-> m.body, calls |-> m.calls, answers |-> m.answers]
  BY DEF Message
<1> QED
  BY <1>1, <1>2 DEF m

LEMMA AnswerIs ==
  ASSUME answer \in Answers
  PROVE  /\ answer = [role |-> answer.role, body |-> answer.body,
                      calls |-> answer.calls, answers |-> answer.answers]
         /\ answer.role = "assistant" /\ IsOneText(answer.body)
<1>1. IsAnswer(answer)
  BY PlannedTurnAssumption
<1> DEFINE b == answer.body
           c == answer.calls
<1>2. answer = AssistantCalls(b, c) /\ Len(b) = 1 /\ IsSequence(b) /\ IsLines(b[1]) /\ b[1].text # <<>>
  BY <1>1 DEF IsAnswer
<1>3. IsOneText(b)
  BY <1>2 DEF IsOneText
<1> HIDE DEF b, c
<1>4. /\ answer.role = "assistant" /\ answer.answers = NoCall
      /\ answer = [role |-> "assistant", body |-> b, calls |-> c, answers |-> NoCall]
  BY <1>2 DEF AssistantCalls
<1> QED
  BY <1>3, <1>4 DEF b, c

LEMMA TurnIsSaving ==
  ASSUME NEW g, Filed(g), NoIdsOf("turn", g), NEW c, WellMade(c),
         NEW stm, \/ stm = <<>>
                  \/ stm = CanonicalStored(g, RetainStored(g)),
         stm \in Seq(Message), c.request.messages \in Seq(Message),
         NEW target, NEW off, Aim(target, stm, c.request.messages, off),
         answer \in Answers, NEW final, final = Append(target, answer),
         NEW kept, kept = CommonPrefix(stm, target)
  PROVE  Saving(g, final, kept, AttachmentBindings(c.resolved, g, RetainStored(g)))
<1> DEFINE R == c.request.messages
           O == CanonicalStored(g, RetainStored(g))
           items == c.resolved
           bindings == AttachmentBindings(items, g, RetainStored(g))
           N == Len(target) + 1
<1>1. Bodied(R) /\ Carried(R, items) /\ OneReference(R)
  BY RequestIs
<1>2. Bodied(O) /\ Carried(O, RetainStored(g)) /\ Len(O) = Len(g.messages) /\ Len(g.messages) \in Nat
  BY StoredIs, StoredReadsBack, RecordsAre
<1>3. /\ off \in Nat /\ off <= Len(stm) /\ IsSequence(target) /\ Len(target) = off + Len(R)
      /\ \A i \in 1..off : target[i] = stm[i]
      /\ \A i \in 1..Len(R) : target[off + i] = R[i]
  BY DEF Aim
<1>4. Len(R) \in Nat /\ Len(stm) \in Nat /\ Len(target) \in Nat
  BY <1>3
<1>5. /\ IsSequence(final) /\ Len(final) = N
      /\ \A i \in 1..Len(target) : final[i] = target[i]
      /\ final[N] = answer
  <2>1. final = Append(target, answer) /\ IsSequence(target)
    BY <1>3
  <2> QED  BY <2>1, AppendIs
<1>6. /\ kept \in 0..Len(target) /\ kept <= Len(stm) /\ off <= kept
      /\ \A i \in 1..kept : Fingerprint(stm[i]) = Fingerprint(target[i])
  <2>1. off <= Len(target)
    BY <1>3, <1>4
  <2> QED  BY <1>3, <1>4, <2>1, KeptIs
<1>7. IsBody(answer.body) /\ IsOneText(answer.body) /\ PlacesIn(answer.body) = {}
  BY AnswerIs, OneTextIsBody
<1>8. answer = [role |-> answer.role, body |-> answer.body, calls |-> answer.calls, answers |-> answer.answers]
  BY AnswerIs
<1>9. /\ stm = <<>> \/ stm = O
      /\ stm = <<>> => Len(stm) = 0
  OBVIOUS
<1>10. \A i \in 1..Len(R) : R[i] = [role |-> R[i].role, body |-> R[i].body,
                                   calls |-> R[i].calls, answers |-> R[i].answers]
  BY MessageIs
<1>11. \A i \in 1..Len(stm) : stm[i] = [role |-> stm[i].role, body |-> stm[i].body,
                                       calls |-> stm[i].calls, answers |-> stm[i].answers]
  BY MessageIs
<1>12. Filed(g) /\ NoIdsOf("turn", g)
  OBVIOUS
<1>13. \A n \in 1..Len(items) : Faithful(items[n]) =>
         Bound(bindings[PartOf(items[n]).reference], PartOf(items[n]))
  BY BoundToItem
<1> HIDE DEF R, O, items, bindings, N
<1>14. ASSUME NEW i \in 1..N
       PROVE  \/ i \in 1..off /\ i \in 1..Len(O) /\ stm = O /\ final[i] = O[i] /\ i \in 1..Len(stm)
              \/ i - off \in 1..Len(R) /\ final[i] = R[i - off] /\ i = off + (i - off)
              \/ i = N /\ final[i] = answer
  <2>1. N = off + Len(R) + 1
    BY <1>3 DEF N
  <2>2. CASE i = N
    BY <1>5, <2>2
  <2>3. CASE i \in 1..off
    BY <1>3, <1>4, <1>5, <1>9, <2>3
  <2>4. CASE i - off \in 1..Len(R)
    <3>1. i = off + (i - off) /\ i \in 1..Len(target)
      BY <1>3, <1>4, <2>4
    <3> QED  BY <1>3, <1>5, <2>4, <3>1
  <2> QED  BY <1>3, <1>4, <2>1, <2>2, <2>3, <2>4
<1>15. Bodied(final)
  <2> SUFFICES ASSUME NEW i \in 1..N
               PROVE  /\ IsBody(final[i].body)
                      /\ final[i].role = "tool" \/ final[i].calls # {} => IsOneText(final[i].body)
    BY <1>5 DEF Bodied
  <2> QED  BY <1>1, <1>2, <1>7, <1>8, <1>14 DEF Bodied
<1>16. Shaped(final)
  <2> SUFFICES ASSUME NEW i \in 1..N
               PROVE  /\ final[i] = [role |-> final[i].role, body |-> final[i].body,
                                     calls |-> final[i].calls, answers |-> final[i].answers]
                      /\ \A j \in PlacesIn(final[i].body) : \E item : final[i].body[j] = PartOf(item)
    BY <1>5 DEF Shaped
  <2>1. CASE i \in 1..off /\ i \in 1..Len(O) /\ stm = O /\ final[i] = O[i] /\ i \in 1..Len(stm)
    <3> DEFINE m == final[i]
    <3>1. m = stm[i] /\ m = O[i] /\ i \in 1..Len(stm) /\ i \in 1..Len(O)
      BY <2>1
    <3>2. m = [role |-> m.role, body |-> m.body, calls |-> m.calls, answers |-> m.answers]
      BY <1>11, <3>1
    <3>3. \A j \in PlacesIn(O[i].body) : \E item : O[i].body[j] = PartOf(item)
      BY <1>2, <3>1 DEF Carried
    <3> QED  BY <3>1, <3>2, <3>3
  <2>2. CASE i - off \in 1..Len(R) /\ final[i] = R[i - off]
    <3> DEFINE m == final[i]
               k == i - off
    <3>1. m = R[k] /\ k \in 1..Len(R)
      BY <2>2
    <3>2. m = [role |-> m.role, body |-> m.body, calls |-> m.calls, answers |-> m.answers]
      BY <1>10, <3>1
    <3>3. \A j \in PlacesIn(R[k].body) : \E item : R[k].body[j] = PartOf(item)
      BY <1>1, <3>1 DEF Carried
    <3> QED  BY <3>1, <3>2, <3>3
  <2>3. CASE final[i] = answer
    BY <1>7, <1>8, <2>3
  <2> QED  BY <1>14, <2>1, <2>2, <2>3
<1>17. kept \in 0..Len(final) /\ kept <= Len(g.messages)
  BY <1>2, <1>4, <1>5, <1>6, <1>9 DEF N
<1>18. ASSUME NEW i \in 1..kept
       PROVE  Fingerprint(O[i]) = Fingerprint(final[i])
  <2>1. i \in 1..Len(target) /\ stm # <<>>
    BY <1>4, <1>6, <1>9
  <2> QED  BY <1>5, <1>6, <1>9, <2>1
<1>19. \A i \in (kept + 1)..Len(final) : i \in 1..N /\ ~(i \in 1..off)
  BY <1>3, <1>4, <1>5, <1>6 DEF N
<1>20. ASSUME NEW i \in (kept + 1)..Len(final), NEW j \in PlacesIn(final[i].body)
       PROVE  /\ i - off \in 1..Len(R) /\ final[i] = R[i - off]
              /\ Bound(bindings[final[i].body[j].reference], final[i].body[j])
  <2>1. i - off \in 1..Len(R) /\ final[i] = R[i - off]
    BY <1>7, <1>8, <1>14, <1>19
  <2>2. PICK n \in 1..Len(items) : final[i].body[j] = PartOf(items[n]) /\ Faithful(items[n])
    BY <1>1, <2>1 DEF Carried
  <2> QED  BY <1>13, <2>1, <2>2
<1>21. ASSUME NEW i \in (kept + 1)..Len(final), NEW k \in (kept + 1)..Len(final),
              NEW j \in PlacesIn(final[i].body), NEW l \in PlacesIn(final[k].body),
              final[i].body[j].reference = final[k].body[l].reference
       PROVE  i = k /\ j = l
  <2>1. /\ i - off \in 1..Len(R) /\ final[i] = R[i - off]
        /\ k - off \in 1..Len(R) /\ final[k] = R[k - off]
    BY <1>20
  <2>2. i - off = k - off /\ j = l
    BY <1>1, <1>21, <2>1, SMTT(30) DEF OneReference
  <2>3. i \in Int /\ k \in Int /\ off \in Nat
    BY <1>3, <1>4, <1>19 DEF N
  <2> QED  BY <2>2, <2>3
<1>22. Saving(g, final, kept, bindings)
  BY <1>12, <1>15, <1>16, <1>17, <1>18, <1>20, <1>21 DEF Saving, O
<1> QED
  BY <1>22 DEF bindings, items

(* What a turn has left behind once it ran.                                *)
SentBy(restored) ==
  LET uploads  == Staged(client.resolved \o Retained, UploadReferences(plan))
      messages == IF restored THEN plan.pending
                  ELSE ContextHistory(stored, client.request, plan) \o plan.pending
  IN  [mode    |-> IF restored THEN "append" ELSE "context",
       uploads |-> uploads,
       names   |-> NamedIn(messages, uploads)]

SavedBy ==
  FinalAggregate("turn", log.aggregate, Confirmed, Final,
                 AttachmentBindings(client.resolved, log.aggregate, Retained))

RanInv ==
  \/ sent = Nothing /\ saved = Nothing
  \/ /\ Accepted /\ answer \in Answers /\ saved = SavedBy
     /\ \E restored \in IF Rebuilds(plan) THEN {FALSE} ELSE BOOLEAN : sent = SentBy(restored)

LEMMA RanStarts == Init => RanInv
  BY DEF Init, RanInv

LEMMA RanGoesOn == TurnInv /\ RanInv /\ [Next]_vars => RanInv'
<1> SUFFICES ASSUME TurnInv, RanInv, [Next]_vars PROVE RanInv'
  OBVIOUS
<1>1. CASE PlanIt
  <2>1. sent = Nothing /\ saved = Nothing
    BY <1>1 DEF PlanIt, RanInv, Accepted
  <2> QED
    BY <1>1, <2>1 DEF PlanIt, RanInv
<1>2. CASE RunIt
  <2>1. UNCHANGED <<api, log, client, stored, plan>> /\ Accepted
    BY <1>2 DEF RunIt, Accepted
  <2>2. Accepted' /\ Rebuilds(plan)' = Rebuilds(plan)
    BY <2>1 DEF Accepted, Rebuilds
  <2>3. answer' \in Answers /\ saved' = SavedBy'
    BY <1>2, <2>1 DEF RunIt, SavedBy, Confirmed, Final, Retained
  <2>4. \E restored \in IF Rebuilds(plan) THEN {FALSE} ELSE BOOLEAN : sent' = SentBy(restored)'
    BY <1>2, <2>1 DEF RunIt, SentBy, Retained
  <2> QED
    BY <2>2, <2>3, <2>4 DEF RanInv
<1>3. CASE UNCHANGED vars
  BY <1>3 DEF vars, RanInv, Accepted, SavedBy, SentBy, Confirmed, Final, Retained
<1> QED
  BY <1>1, <1>2, <1>3 DEF Next

LEMMA TurnIsMade ==
  ASSUME TurnInv
  PROVE  /\ Filed(log.aggregate) /\ NoIdsOf("turn", log.aggregate) /\ WellMade(client)
         /\ \/ Confirmed = <<>>
            \/ Confirmed = CanonicalStored(log.aggregate, Retained)
<1>1. PICK family \in Families : log \in family.logs /\ client \in family.clients
  BY DEF TurnInv
<1>2. Filed(log.aggregate) /\ NoIdsOf("turn", log.aggregate) /\ WellMade(client)
  BY <1>1, PlannedTurnAssumption
<1>3. CASE stored = NoStored
  BY <1>2, <1>3 DEF Confirmed
<1>4. CASE stored # NoStored
  <2>1. PICK checkpoint \in Checkpoints, url \in Urls :
          stored = StoredAs(checkpoint[1], checkpoint[2], url, log)
    BY <1>4 DEF TurnInv
  <2>2. stored.messages = StoredMessages(log)
    BY <2>1 DEF StoredAs
  <2> QED
    BY <1>2, <1>4, <2>2 DEF Confirmed, StoredMessages, Retained
<1> QED
  BY <1>3, <1>4

(* Where the request starts in the target of its turn.                     *)
Offset == IF client.request.mode = "full" THEN 0 ELSE Len(Confirmed)

LEMMA TurnAims ==
  ASSUME TurnInv, Accepted
  PROVE  /\ Aim(Target, Confirmed, client.request.messages, Offset)
         /\ Target \in Seq(Message) /\ Confirmed \in Seq(Message)
         /\ client.request.messages \in Seq(Message)
         /\ AuthoritativeMessages(stored, client.request, plan) = Target
<1> DEFINE R == client.request.messages
<1>1. R \in Seq(Message) /\ Confirmed \in Seq(Message)
  BY PlannedRequest DEF Accepted
<1>2. AuthoritativeMessages(stored, client.request, plan) = Target
  BY TurnReaches DEF PlanReachesTarget
<1>3. Target = IF client.request.mode = "full" THEN R ELSE Confirmed \o R
  BY DEF Target
<1> HIDE DEF R
<1>4. IsSequence(R) /\ IsSequence(Confirmed) /\ Len(R) \in Nat /\ Len(Confirmed) \in Nat
  BY <1>1, TypedSequence
<1>5. CASE client.request.mode = "full"
  <2>1. Offset = 0 /\ Target = R
    BY <1>3, <1>5 DEF Offset
  <2>2. Aim(Target, Confirmed, R, Offset)
    BY <1>4, <2>1 DEF Aim
  <2> QED
    BY <1>1, <1>2, <2>1, <2>2 DEF R
<1>6. CASE client.request.mode # "full"
  <2>1. Offset = Len(Confirmed) /\ Target = Confirmed \o R
    BY <1>3, <1>6 DEF Offset
  <2>2. /\ IsSequence(Confirmed \o R) /\ Len(Confirmed \o R) = Len(Confirmed) + Len(R)
        /\ \A i \in 1..Len(Confirmed) : (Confirmed \o R)[i] = Confirmed[i]
        /\ \A i \in 1..Len(R) : (Confirmed \o R)[Len(Confirmed) + i] = R[i]
    BY <1>4, CatIs
  <2>3. Aim(Target, Confirmed, R, Offset)
    BY <1>4, <2>1, <2>2 DEF Aim
  <2>4. Confirmed \o R \in Seq(Message)
    BY <1>1
  <2> QED
    BY <1>1, <1>2, <2>1, <2>3, <2>4 DEF R
<1> QED
  BY <1>5, <1>6

LEMMA SavedForm ==
  ASSUME NEW g, NEW stm, NEW final, DOMAIN final = 1..Len(final), NEW bindings
  PROVE  FinalAggregate("turn", g, stm, final, bindings)
           = SavedOf(g, final, CommonPrefix(stm, Front(final)), bindings)
  BY DEF FinalAggregate, SavedOf, SavedMessages, SavedRecords, RecordsOfMessage

LEMMA TurnLeaves ==
  ASSUME TurnInv, RanInv, saved # Nothing
  PROVE  /\ Final = Append(Target, answer) /\ answer \in Answers
         /\ \E kept, bindings : /\ Saving(log.aggregate, Final, kept, bindings)
                               /\ saved = SavedOf(log.aggregate, Final, kept, bindings)
<1>1. Accepted /\ saved = SavedBy /\ answer \in Answers
  BY DEF RanInv
<1> DEFINE g == log.aggregate
           bindings == AttachmentBindings(client.resolved, g, RetainStored(g))
           kept == CommonPrefix(Confirmed, Target)
<1>2. /\ Filed(g) /\ NoIdsOf("turn", g) /\ WellMade(client)
      /\ \/ Confirmed = <<>>
         \/ Confirmed = CanonicalStored(g, RetainStored(g))
  BY TurnIsMade DEF Retained
<1>3. /\ Aim(Target, Confirmed, client.request.messages, Offset)
      /\ Confirmed \in Seq(Message) /\ client.request.messages \in Seq(Message)
      /\ AuthoritativeMessages(stored, client.request, plan) = Target
  BY <1>1, TurnAims
<1>4. Final = Append(Target, answer)
  BY <1>3 DEF Final
<1>5. IsSequence(Target)
  BY <1>3 DEF Aim
<1>6. /\ IsSequence(Final) /\ Len(Final) = Len(Target) + 1 /\ Len(Target) \in Nat
      /\ \A i \in 1..Len(Target) : Final[i] = Target[i]
  BY <1>4, <1>5, AppendIs
<1>7. Front(Final) = Target
  <2>1. /\ IsSequence(Front(Final)) /\ Len(Front(Final)) = Len(Final) - 1
        /\ \A i \in 1..(Len(Final) - 1) : Front(Final)[i] = Final[i]
    <3>1. Final # <<>>
      BY <1>6
    <3> QED  BY <1>6, <3>1, FrontIs
  <2>2. Len(Front(Final)) = Len(Target) /\ \A i \in 1..Len(Target) : Front(Final)[i] = Target[i]
    BY <1>6, <2>1
  <2> QED  BY <1>5, <2>1, <2>2 DEF IsSequence
<1>8. DOMAIN Final = 1..Len(Final)
  BY <1>6, SequenceType
<1>9. saved = SavedOf(g, Final, kept, bindings)
  <2>1. SavedBy = FinalAggregate("turn", g, Confirmed, Final, bindings)
    BY DEF SavedBy, Retained
  <2> HIDE DEF g, bindings
  <2>2. FinalAggregate("turn", g, Confirmed, Final, bindings)
          = SavedOf(g, Final, CommonPrefix(Confirmed, Front(Final)), bindings)
    BY <1>8, SavedForm
  <2> QED  BY <1>1, <1>7, <2>1, <2>2
<1> HIDE DEF kept
<1>10. Saving(g, Final, kept, bindings)
  <2> HIDE DEF g
  <2> QED  BY <1>1, <1>2, <1>3, <1>4, TurnIsSaving DEF kept
<1> HIDE DEF bindings
<1> QED
  BY <1>1, <1>4, <1>9, <1>10

LEMMA TurnSaves == TurnInv /\ RanInv => SavedReadsBack
<1> SUFFICES ASSUME TurnInv, RanInv, saved # Nothing
             PROVE  /\ WithoutTypes(CanonicalStored(saved, RetainStored(saved))) = WithoutTypes(Final)
                    /\ Len(saved.attachments) = Len(AttachmentsIn(Final))
                    /\ Filed(saved)
  BY DEF SavedReadsBack
<1>1. PICK kept, bindings : /\ Saving(log.aggregate, Final, kept, bindings)
                            /\ saved = SavedOf(log.aggregate, Final, kept, bindings)
  BY TurnLeaves
<1> QED
  BY <1>1, SavedAgain

(* Whatever is saved is accepted by the store and reads back as what the   *)
(* turn was about, every attachment with a record of its own.              *)
THEOREM SavedTurnsReadBack == Spec => []SavedReadsBack
<1>1. Init => TurnInv /\ RanInv
  BY TurnStarts, RanStarts
<1>2. (TurnInv /\ RanInv) /\ [Next]_vars => (TurnInv /\ RanInv)'
  BY TurnGoesOn, RanGoesOn
<1>3. TurnInv /\ RanInv => SavedReadsBack
  BY TurnSaves
<1> QED
  BY <1>1, <1>2, <1>3, PTL DEF Spec

-----------------------------------------------------------------------------
(* The items of a turn, its uploads and their names.                       *)

(* The items of a turn: what was resolved and what was retained.           *)
LEMMA ItemsAre ==
  ASSUME NEW g, Filed(g), NEW c, WellMade(c)
  PROVE  LET items == c.resolved \o RetainStored(g)
         IN  /\ IsSequence(items) /\ Len(items) \in Nat /\ OneLocal(items)
             /\ \A n \in 1..Len(c.resolved) :
                  n \in 1..Len(items) /\ items[n] = c.resolved[n]
             /\ \A n \in 1..Len(RetainStored(g)) :
                  Len(c.resolved) + n \in 1..Len(items) /\ items[Len(c.resolved) + n] = RetainStored(g)[n]
             /\ \A k \in 1..Len(items) :
                  \/ \E n \in 1..Len(c.resolved) : items[k] = c.resolved[n]
                  \/ \E n \in 1..Len(RetainStored(g)) : items[k] = RetainStored(g)[n]
<1> DEFINE r == c.resolved
           s == RetainStored(g)
           items == r \o s
<1>1. IsSequence(r) /\ Len(r) \in Nat /\ \A n \in 1..Len(r) : r[n].local = AttachmentId(n)
  BY ResolvedAre, LocalsOfRequest
<1>2. /\ IsSequence(s) /\ Len(s) \in Nat
      /\ \A n \in 1..Len(s) : s[n].local = StoredReference(g.attachments[n].id)
      /\ \A n, m \in 1..Len(s) : s[n].local = s[m].local => n = m
  BY RetainedAre DEF OneLocal
<1>3. \A n, m : n # m => AttachmentId(n) # AttachmentId(m)
  BY DEF AttachmentId
<1>4. \A n, id : AttachmentId(n) # StoredReference(id)
  BY DEF AttachmentId, StoredReference
<1> HIDE DEF r, s
<1>5. /\ IsSequence(items) /\ Len(items) = Len(r) + Len(s)
      /\ \A n \in 1..Len(r) : items[n] = r[n]
      /\ \A n \in 1..Len(s) : items[Len(r) + n] = s[n]
  <2>1. IsSequence(r) /\ IsSequence(s)
    BY <1>1, <1>2
  <2> QED  BY ONLY <2>1, CatIs
<1> HIDE DEF items
<1>6. /\ Len(items) \in Nat
      /\ \A n \in 1..Len(r) : n \in 1..Len(items) /\ items[n] = r[n]
      /\ \A n \in 1..Len(s) : Len(r) + n \in 1..Len(items) /\ items[Len(r) + n] = s[n]
  BY <1>1, <1>2, <1>5
<1>7. ASSUME NEW k \in 1..Len(items)
      PROVE  \/ k \in 1..Len(r) /\ items[k] = r[k]
             \/ k - Len(r) \in 1..Len(s) /\ items[k] = s[k - Len(r)] /\ k = Len(r) + (k - Len(r))
  <2>1. k \in 1..Len(r) \/ (k - Len(r) \in 1..Len(s) /\ k = Len(r) + (k - Len(r)))
    BY <1>1, <1>2, <1>5
  <2> QED  BY <1>5, <2>1
<1>8. ASSUME NEW k \in 1..Len(items), NEW m \in 1..Len(items), items[k].local = items[m].local
      PROVE  k = m
  <2>1. CASE k \in 1..Len(r) /\ m \in 1..Len(r)
    BY <1>1, <1>3, <1>5, <1>8, <2>1
  <2>2. CASE k \in 1..Len(r) /\ ~(m \in 1..Len(r))
    BY <1>1, <1>2, <1>4, <1>7, <1>8, <2>2, SMTT(30)
  <2>3. CASE ~(k \in 1..Len(r)) /\ m \in 1..Len(r)
    BY <1>1, <1>2, <1>4, <1>7, <1>8, <2>3, SMTT(30)
  <2>4. CASE ~(k \in 1..Len(r)) /\ ~(m \in 1..Len(r))
    <3> DEFINE p == k - Len(r)
               q == m - Len(r)
    <3>1. /\ p \in 1..Len(s) /\ items[k] = s[p] /\ k = Len(r) + p
          /\ q \in 1..Len(s) /\ items[m] = s[q] /\ m = Len(r) + q
      BY <1>7, <2>4
    <3> HIDE DEF p, q
    <3>2. p = q
      BY <1>2, <1>8, <3>1
    <3> QED  BY <3>1, <3>2
  <2> QED  BY <2>1, <2>2, <2>3, <2>4
<1> QED
  BY <1>5, <1>6, <1>7, <1>8 DEF OneLocal, items, r, s

LEMMA AimCarried ==
  ASSUME NEW g, Filed(g), NEW c, WellMade(c),
         NEW stm, \/ stm = <<>>
                  \/ stm = CanonicalStored(g, RetainStored(g)),
         NEW target, NEW off, Aim(target, stm, c.request.messages, off)
  PROVE  /\ Bodied(target) /\ OneReference(target)
         /\ Carried(target, c.resolved \o RetainStored(g))
<1> DEFINE R == c.request.messages
           O == CanonicalStored(g, RetainStored(g))
           r == c.resolved
           s == RetainStored(g)
           items == r \o s
           N == Len(target)
<1>1. Bodied(R) /\ Carried(R, r) /\ OneReference(R) /\ Len(R) \in Nat
  BY RequestIs, BodiedHasBodies
<1>2. Bodied(O) /\ Carried(O, s) /\ OneReference(O) /\ Len(O) \in Nat
  BY StoredIs, BodiedHasBodies
<1>3. /\ off \in Nat /\ off <= Len(stm) /\ IsSequence(target) /\ N = off + Len(R)
      /\ \A i \in 1..off : target[i] = stm[i]
      /\ \A i \in 1..Len(R) : target[off + i] = R[i]
  BY DEF Aim
<1>4. stm = <<>> \/ stm = O
  OBVIOUS
<1>5. /\ \A n \in 1..Len(r) : n \in 1..Len(items) /\ items[n] = r[n]
      /\ \A n \in 1..Len(s) : Len(r) + n \in 1..Len(items) /\ items[Len(r) + n] = s[n]
  BY ItemsAre
<1>6. \A n \in 1..Len(r) : r[n].local = AttachmentId(n)
  BY LocalsOfRequest
<1>7. \A n \in 1..Len(s) : s[n].local = StoredReference(g.attachments[n].id)
  BY RetainedAre
<1>8. \A n, id : AttachmentId(n) # StoredReference(id)
  BY DEF AttachmentId, StoredReference
<1> HIDE DEF R, O, r, s, items, N
<1>9. ASSUME NEW i \in 1..N
      PROVE  \/ i \in 1..off /\ i \in 1..Len(O) /\ target[i] = O[i]
             \/ i - off \in 1..Len(R) /\ target[i] = R[i - off]
  <2>1. CASE i \in 1..off
    <3>1. off <= Len(O) /\ stm = O
      <4>1. stm # <<>>
        BY <1>3, <2>1
      <4> QED  BY <1>3, <1>4, <4>1
    <3> QED  BY <1>2, <1>3, <2>1, <3>1
  <2>2. CASE ~(i \in 1..off)
    <3>1. i - off \in 1..Len(R) /\ i = off + (i - off)
      BY <1>1, <1>3, <2>2
    <3> QED  BY <1>3, <3>1
  <2> QED  BY <2>1, <2>2
<1>10. Bodied(target)
  BY <1>1, <1>2, <1>3, <1>9 DEF Bodied, N
<1>11. Carried(target, items)
  <2> SUFFICES ASSUME NEW i \in 1..N, NEW j \in PlacesIn(target[i].body)
               PROVE  \E n \in 1..Len(items) : target[i].body[j] = PartOf(items[n]) /\ Faithful(items[n])
    BY DEF Carried, N
  <2>1. CASE i \in 1..off /\ i \in 1..Len(O) /\ target[i] = O[i]
    <3>1. PICK n \in 1..Len(s) : O[i].body[j] = PartOf(s[n]) /\ Faithful(s[n])
      BY <1>2, <2>1 DEF Carried
    <3> QED  BY <1>5, <2>1, <3>1
  <2>2. CASE i - off \in 1..Len(R) /\ target[i] = R[i - off]
    <3>1. PICK n \in 1..Len(r) : R[i - off].body[j] = PartOf(r[n]) /\ Faithful(r[n])
      BY <1>1, <2>2 DEF Carried
    <3> QED  BY <1>5, <2>2, <3>1
  <2> QED  BY <1>9, <2>1, <2>2
<1>12. ASSUME NEW i \in 1..Len(R), NEW j \in PlacesIn(R[i].body)
       PROVE  \E n : R[i].body[j].reference = AttachmentId(n)
  <2>1. PICK n \in 1..Len(r) : R[i].body[j] = PartOf(r[n])
    BY <1>1 DEF Carried
  <2> QED  BY <1>6, <2>1, ReferenceOfPart DEF PartOf
<1>13. ASSUME NEW i \in 1..Len(O), NEW j \in PlacesIn(O[i].body)
       PROVE  \E id : O[i].body[j].reference = StoredReference(id)
  <2>1. PICK n \in 1..Len(s) : O[i].body[j] = PartOf(s[n])
    BY <1>2 DEF Carried
  <2> QED  BY <1>7, <2>1, ReferenceOfPart DEF PartOf
<1>14. ASSUME NEW i \in 1..N, NEW k \in 1..N,
              NEW j \in PlacesIn(target[i].body), NEW l \in PlacesIn(target[k].body),
              target[i].body[j].reference = target[k].body[l].reference
       PROVE  i = k /\ j = l
  <2>1. CASE i \in 1..off /\ i \in 1..Len(O) /\ target[i] = O[i]
    <3>1. CASE k \in 1..off /\ k \in 1..Len(O) /\ target[k] = O[k]
      BY <1>2, <1>14, <2>1, <3>1 DEF OneReference
    <3>2. CASE k - off \in 1..Len(R) /\ target[k] = R[k - off]
      BY <1>8, <1>12, <1>13, <1>14, <2>1, <3>2
    <3> QED  BY <1>9, <3>1, <3>2
  <2>2. CASE i - off \in 1..Len(R) /\ target[i] = R[i - off]
    <3>1. CASE k \in 1..off /\ k \in 1..Len(O) /\ target[k] = O[k]
      BY <1>8, <1>12, <1>13, <1>14, <2>2, <3>1
    <3>2. CASE k - off \in 1..Len(R) /\ target[k] = R[k - off]
      <4>1. i - off = k - off /\ j = l
        BY <1>1, <1>14, <2>2, <3>2 DEF OneReference
      <4> QED  BY <1>1, <1>3, <4>1
    <3> QED  BY <1>9, <3>1, <3>2
  <2> QED  BY <1>9, <2>1, <2>2
<1>15. OneReference(target)
  BY <1>14 DEF OneReference, N
<1> QED
  BY <1>10, <1>11, <1>15 DEF items, r, s

(* A list of messages that ends another.                                   *)
Ends(u, t, off) ==
  /\ off \in Nat /\ IsSequence(u) /\ Len(u) \in Nat /\ Len(t) = off + Len(u)
  /\ \A i \in 1..Len(u) : u[i] = t[off + i]

LEMMA EndsCarried ==
  ASSUME NEW t, Bodied(t), OneReference(t), NEW items, Carried(t, items),
         NEW u, NEW off, Ends(u, t, off)
  PROVE  Bodied(u) /\ OneReference(u) /\ Carried(u, items)
<1>1. /\ off \in Nat /\ IsSequence(u) /\ Len(u) \in Nat /\ Len(t) = off + Len(u)
      /\ \A i \in 1..Len(u) : u[i] = t[off + i]
  BY DEF Ends
<1>2. \A i \in 1..Len(u) : off + i \in 1..Len(t) /\ u[i] = t[off + i]
  BY <1>1
<1>3. Bodied(u)
  BY <1>1, <1>2 DEF Bodied
<1>4. Carried(u, items)
  <2> SUFFICES ASSUME NEW i \in 1..Len(u), NEW j \in PlacesIn(u[i].body)
               PROVE  \E n \in 1..Len(items) : u[i].body[j] = PartOf(items[n]) /\ Faithful(items[n])
    BY DEF Carried
  <2>1. off + i \in 1..Len(t) /\ j \in PlacesIn(t[off + i].body) /\ u[i] = t[off + i]
    BY <1>2
  <2> QED  BY <2>1 DEF Carried
<1>5. ASSUME NEW i \in 1..Len(u), NEW k \in 1..Len(u),
             NEW j \in PlacesIn(u[i].body), NEW l \in PlacesIn(u[k].body),
             u[i].body[j].reference = u[k].body[l].reference
      PROVE  i = k /\ j = l
  <2>1. off + i = off + k /\ j = l
    BY <1>2, <1>5 DEF OneReference
  <2> QED  BY <1>1, <2>1
<1>6. OneReference(u)
  BY <1>5 DEF OneReference
<1> QED
  BY <1>3, <1>4, <1>6

(* The attachments of a list of messages, each one an item of its own.     *)
IsListOf(parts, items) ==
  /\ IsSequence(parts) /\ Len(parts) \in Nat /\ DOMAIN parts = 1..Len(parts)
  /\ \A n \in 1..Len(parts) : \E k \in 1..Len(items) : parts[n] = PartOf(items[k]) /\ Faithful(items[k])
  /\ \A n, m \in 1..Len(parts) : parts[n].reference = parts[m].reference => n = m

LEMMA ListOfItems ==
  ASSUME NEW u, Bodied(u), OneReference(u), NEW items, Carried(u, items)
  PROVE  IsListOf(AttachmentsIn(u), items)
<1> DEFINE parts == AttachmentsIn(u)
           at(i, j) == AttachedAt(u, i, j)
<1>1. HasBodies(u)
  BY BodiedHasBodies
<1>2. /\ IsSequence(parts)
      /\ \A i \in 1..Len(u) : \A j \in PlacesIn(u[i].body) : parts[at(i, j)] = u[i].body[j]
      /\ \A n \in 1..Len(parts) : \E i \in 1..Len(u) : \E j \in PlacesIn(u[i].body) : n = at(i, j)
  BY <1>1, AttachmentsAre
<1>3. Len(parts) \in Nat /\ DOMAIN parts = 1..Len(parts)
  BY <1>2, SequenceType
<1> HIDE DEF parts, at
<1>4. ASSUME NEW n \in 1..Len(parts)
      PROVE  \E k \in 1..Len(items) : parts[n] = PartOf(items[k]) /\ Faithful(items[k])
  <2>1. PICK i \in 1..Len(u) : \E j \in PlacesIn(u[i].body) : n = at(i, j)
    BY <1>2
  <2>2. PICK j \in PlacesIn(u[i].body) : n = at(i, j)
    BY <2>1
  <2>3. parts[n] = u[i].body[j]
    BY <1>2, <2>2
  <2> QED  BY <2>3 DEF Carried
<1>5. ASSUME NEW n \in 1..Len(parts), NEW m \in 1..Len(parts), parts[n].reference = parts[m].reference
      PROVE  n = m
  <2>1. PICK i \in 1..Len(u) : \E j \in PlacesIn(u[i].body) : n = at(i, j)
    BY <1>2
  <2>2. PICK j \in PlacesIn(u[i].body) : n = at(i, j)
    BY <2>1
  <2>3. PICK k \in 1..Len(u) : \E l \in PlacesIn(u[k].body) : m = at(k, l)
    BY <1>2
  <2>4. PICK l \in PlacesIn(u[k].body) : m = at(k, l)
    BY <2>3
  <2>5. parts[n] = u[i].body[j] /\ parts[m] = u[k].body[l]
    BY <1>2, <2>2, <2>4
  <2>6. i = k /\ j = l
    BY <1>5, <2>5 DEF OneReference
  <2> QED  BY <2>2, <2>4, <2>6
<1> QED
  BY <1>2, <1>3, <1>4, <1>5 DEF IsListOf, parts

(* They are uploaded in their order, each one as the item it is.           *)
NamesOf(parts) == [n \in 1..Len(parts) |-> parts[n].name]

Uploads(parts) ==
  [n \in 1..Len(parts) |-> [reference  |-> parts[n].reference, content |-> parts[n].content,
                            uploadName |-> UploadName(NamesOf(parts), n)]]

LEMMA StagedAre ==
  ASSUME NEW items, Len(items) \in Nat, OneLocal(items), NEW parts, IsListOf(parts, items)
  PROVE  Staged(items, [n \in DOMAIN parts |-> parts[n].reference]) = Uploads(parts)
<1> DEFINE refs   == [n \in DOMAIN parts |-> parts[n].reference]
           chosen == [n \in DOMAIN refs |-> items[ItemFor(items, refs[n])]]
           names  == [n \in DOMAIN refs |-> chosen[n].name]
<1>1. DOMAIN parts = 1..Len(parts)
  BY DEF IsListOf
<1>2. DOMAIN refs = 1..Len(parts) /\ \A n \in 1..Len(parts) : refs[n] = parts[n].reference
  BY <1>1
<1>3. Staged(items, refs) =
        [n \in DOMAIN refs |-> [reference |-> refs[n], content |-> chosen[n].file.content,
                                uploadName |-> UploadName(names, n)]]
  <2> HIDE DEF refs
  <2> QED  BY DEF Staged
<1>4. ASSUME NEW n \in 1..Len(parts)
      PROVE  items[ItemFor(items, parts[n].reference)].name = parts[n].name
             /\ items[ItemFor(items, parts[n].reference)].file.content = parts[n].content
  <2>1. PICK k \in 1..Len(items) : parts[n] = PartOf(items[k])
    BY DEF IsListOf
  <2>2. /\ parts[n].reference = items[k].local /\ parts[n].name = items[k].name
        /\ parts[n].content = items[k].file.content
    BY <2>1, ReferenceOfPart DEF PartOf
  <2>3. ItemFor(items, items[k].local) = k
    <3>1. \A m \in 1..Len(items) : items[m].local = items[k].local => m = k
      BY DEF OneLocal
    <3> QED  BY <3>1, ItemFound
  <2> QED  BY <2>2, <2>3
<1> HIDE DEF refs
<1>5. \A n \in 1..Len(parts) : chosen[n].name = parts[n].name /\ chosen[n].file.content = parts[n].content
  BY <1>2, <1>4
<1> HIDE DEF chosen
<1>6. names = NamesOf(parts)
  BY <1>2, <1>5 DEF NamesOf
<1> HIDE DEF names
<1> QED
  BY <1>2, <1>3, <1>5, <1>6 DEF Uploads, refs

(* The name that a prompt gives an attachment that was uploaded.           *)
LEMMA NameInUploads ==
  ASSUME NEW items, NEW parts, IsListOf(parts, items), NEW n \in 1..Len(parts)
  PROVE  UploadNameIn(Uploads(parts), parts[n]) = UploadName(NamesOf(parts), n)
<1> DEFINE uploads == Uploads(parts)
           ref == parts[n].reference
           I == {i \in 1..Len(uploads) : uploads[i].reference = ref}
<1>1. Len(parts) \in Nat /\ uploads = [i \in 1..Len(parts) |-> uploads[i]]
      /\ \A i \in 1..Len(parts) : /\ uploads[i].reference = parts[i].reference
                                  /\ uploads[i].uploadName = UploadName(NamesOf(parts), i)
  BY DEF IsListOf, Uploads
<1>2. Len(uploads) = Len(parts)
  <2> HIDE DEF uploads
  <2> QED  BY <1>1, FunctionIs
<1>3. I = {n}
  <2> HIDE DEF uploads
  <2> QED  BY <1>1, <1>2 DEF IsListOf
<1>4. SelectInSeq(uploads, LAMBDA upload : upload.reference = ref) = IF I # {} THEN Min(I) ELSE 0
  BY DEF SelectInSeq
<1>5. Min({n}) = n
  <2>1. Min({n}) = CHOOSE x \in {n} : \A y \in {n} : x =< y
    BY DEF Min
  <2>2. n <= n
    BY <1>1
  <2> QED  BY <2>1, <2>2
<1> HIDE DEF I
<1>6. SelectInSeq(uploads, LAMBDA upload : upload.reference = ref) = n
  BY <1>3, <1>4, <1>5
<1>7. n # 0
  BY <1>1
<1>8. UploadNameIn(uploads, parts[n]) =
        IF SelectInSeq(uploads, LAMBDA upload : upload.reference = ref) = 0
        THEN parts[n].name
        ELSE uploads[SelectInSeq(uploads, LAMBDA upload : upload.reference = ref)].uploadName
  <2> HIDE DEF uploads
  <2> QED  BY DEF UploadNameIn
<1> HIDE DEF uploads
<1> QED
  BY <1>1, <1>6, <1>7, <1>8 DEF uploads

(* Files of the same name get numbers, so that no two names are the same   *)
(* when none of the files has a number already.                            *)
LEMMA NumbersGrow ==
  ASSUME NEW names, NEW n \in Nat, NEW m \in Nat, 0 < n, n < m, names[n] = names[m]
  PROVE  LET Count(k) == Cardinality({i \in 1..k : names[i] = names[k]})
         IN  Count(n) \in Nat /\ Count(m) \in Nat /\ 0 < Count(n) /\ Count(n) < Count(m)
<1> DEFINE S == {i \in 1..n : names[i] = names[n]}
           T == {i \in 1..m : names[i] = names[m]}
<1>1. IsFiniteSet(1..n) /\ IsFiniteSet(1..m)
  BY FS_Interval
<1>2. S \subseteq 1..n /\ T \subseteq 1..m
  OBVIOUS
<1>3. IsFiniteSet(S) /\ IsFiniteSet(T)
  <2> HIDE DEF S, T
  <2> QED  BY <1>1, <1>2, FS_Subset
<1>4. S \subseteq T /\ m \in T /\ m \notin S /\ n \in S
  OBVIOUS
<1> HIDE DEF S, T
<1>5. Cardinality(S) \in Nat /\ Cardinality(T) \in Nat
  BY <1>3, FS_CardinalityType
<1>6. Cardinality(S) # 0
  BY <1>3, <1>4, FS_EmptySet
<1>7. Cardinality(S) < Cardinality(T)
  <2>1. Cardinality(S) <= Cardinality(T) /\ (Cardinality(S) = Cardinality(T) => S = T)
    BY <1>3, <1>4, FS_Subset
  <2> QED  BY <1>4, <1>5, <2>1
<1> QED
  BY <1>5, <1>6, <1>7 DEF S, T

LEMMA OneAppended ==
  ASSUME NEW s, IsSequence(s), NEW t, IsSequence(t), NEW x, NEW y, Len(s) = Len(t),
         Append(s, x) = Append(t, y)
  PROVE  s = t /\ x = y
<1> DEFINE u == Append(s, x)
           v == Append(t, y)
<1>1. u = v
  OBVIOUS
<1>2. /\ Len(s) \in Nat /\ \A i \in 1..Len(s) : u[i] = s[i]
      /\ u[Len(s) + 1] = x
  BY AppendIs
<1>3. /\ \A i \in 1..Len(t) : v[i] = t[i]
      /\ v[Len(t) + 1] = y
  BY AppendIs
<1> HIDE DEF u, v
<1>4. x = y /\ \A i \in 1..Len(s) : s[i] = t[i]
  BY <1>1, <1>2, <1>3
<1>5. s = t
  BY <1>4 DEF IsSequence
<1> QED
  BY <1>4, <1>5

LEMMA NamesDiffer ==
  ASSUME NEW N \in Nat, NEW names,
         \A i \in 1..N : IsSequence(names[i]) /\ Len(names[i]) = 1,
         NEW n \in 1..N, NEW m \in 1..N, UploadName(names, n) = UploadName(names, m)
  PROVE  n = m
<1> DEFINE count(k) == Cardinality({i \in 1..k : names[i] = names[k]})
<1>1. \A k \in 1..N : UploadName(names, k) = IF count(k) = 1 THEN names[k] ELSE Append(names[k], count(k))
  BY DEF UploadName
<1>2. ASSUME NEW a \in 1..N, NEW b \in 1..N, a < b, names[a] = names[b]
      PROVE  0 < count(a) /\ count(a) < count(b) /\ count(a) \in Nat /\ count(b) \in Nat
  BY <1>2, NumbersGrow
<1>3. \A k \in 1..N : /\ IsSequence(names[k]) /\ Len(names[k]) = 1
                      /\ Len(Append(names[k], count(k))) = 2
  <2> SUFFICES ASSUME NEW k \in 1..N PROVE Len(Append(names[k], count(k))) = 2
    OBVIOUS
  <2> DEFINE s == names[k]
             x == count(k)
  <2>1. IsSequence(s) /\ Len(s) = 1
    OBVIOUS
  <2> HIDE DEF s, x
  <2>2. Len(Append(s, x)) = Len(s) + 1
    BY ONLY <2>1, AppendIs
  <2>3. Len(Append(s, x)) = 2
    BY <2>1, <2>2
  <2> QED  BY <2>3 DEF s, x
<1> HIDE DEF count
<1>4. names[n] = names[m] /\ (count(n) = 1 <=> count(m) = 1) /\ (count(n) # 1 => count(n) = count(m))
  <2> DEFINE a == UploadName(names, n)
             b == UploadName(names, m)
  <2>1. a = b
    OBVIOUS
  <2>2. /\ a = IF count(n) = 1 THEN names[n] ELSE Append(names[n], count(n))
        /\ b = IF count(m) = 1 THEN names[m] ELSE Append(names[m], count(m))
    BY <1>1
  <2> HIDE DEF a, b
  <2>5. /\ Len(a) = IF count(n) = 1 THEN 1 ELSE 2
        /\ Len(b) = IF count(m) = 1 THEN 1 ELSE 2
    BY <1>3, <2>2
  <2>6. count(n) = 1 <=> count(m) = 1
    BY <2>1, <2>5
  <2>3. CASE count(n) = 1
    BY <2>1, <2>2, <2>3, <2>6
  <2>4. CASE count(n) # 1
    <3>2. count(m) # 1
      BY <2>4, <2>6
    <3>3. Append(names[n], count(n)) = Append(names[m], count(m))
      BY <2>1, <2>2, <2>4, <3>2
    <3>4. names[n] = names[m] /\ count(n) = count(m)
      <4>1. IsSequence(names[n]) /\ IsSequence(names[m]) /\ Len(names[n]) = Len(names[m])
        OBVIOUS
      <4> QED  BY ONLY <3>3, <4>1, OneAppended
    <3> QED  BY <2>4, <3>2, <3>4
  <2> QED  BY <2>3, <2>4
<1>5. ~(n < m) /\ ~(m < n)
  BY <1>2, <1>4
<1> QED
  BY <1>5

-----------------------------------------------------------------------------
(* The prompt and its uploads.                                             *)

(* What a prompt uploads: every message it shows but those of a history    *)
(* that the chat has already, and those that fell back on it.              *)
Shown == IF Rebuilds(plan) THEN plan.history \o plan.pending ELSE plan.pending

LEMMA TurnShows ==
  ASSUME TurnInv, Accepted
  PROVE  /\ \E off : Ends(Shown, Target, off)
         /\ Rebuilds(plan) => Shown = Target
         /\ ~Rebuilds(plan) => Shown = plan.pending
         /\ ContextHistory(stored, client.request, plan) \o plan.pending = Target
         /\ LET m == client.request.messages
            IN  /\ Len(m) \in Nat \ {0} /\ Len(Shown) \in Nat \ {0}
                /\ Shown[Len(Shown)] = m[Len(m)]
                /\ m[Len(m)].role \in {"user", "tool"} /\ OnlyAssistantsCall(m)
<1> DEFINE x == client.request
           m == x.messages
           h == RequestHistory(m)
           t == PendingTurn(m)
<1>1. /\ m \in Seq(Message) /\ ValidTranscript(m) /\ m # <<>> /\ OnlyAssistantsCall(m)
      /\ h \in Seq(Message) /\ t \in Seq(Message) /\ h \o t = m
      /\ Confirmed \in Seq(Message)
      /\ x.mode # "full" => h = <<>> /\ t = m
      /\ plan.pending = t
      /\ Rebuilds(plan) => plan.history = IF x.mode = "full" THEN h ELSE Confirmed
  BY PlannedRequest DEF Accepted
<1>2. Target = IF x.mode = "full" THEN m ELSE Confirmed \o m
  BY DEF Target
<1>3. ContextHistory(stored, x, plan) \o plan.pending = Target
  BY TurnReaches DEF PlanReachesTarget
<1>4. m[Len(m)].role \in {"user", "tool"} /\ Len(m) \in Nat \ {0}
  BY <1>1, EmptySeq DEF ValidTranscript
<1>5. /\ Len(t) \in Nat \ {0} /\ t[Len(t)] = m[Len(m)]
  <2>1. /\ PendingStart(m) \in 1..Len(m) /\ Len(t) = Len(m) + 1 - PendingStart(m)
        /\ \A i \in 1..(Len(m) + 1 - PendingStart(m)) : t[i] = m[i + (PendingStart(m) - 1)]
    BY <1>1, <1>4, RequestParts
  <2> HIDE DEF m, t
  <2>2. Len(t) \in 1..Len(m) /\ t[Len(t)] = m[Len(t) + (PendingStart(m) - 1)]
    BY <1>4, <2>1
  <2>3. Len(t) + (PendingStart(m) - 1) = Len(m)
    BY <1>4, <2>1
  <2> QED  BY <2>2, <2>3
<1> HIDE DEF m, h, t
<1>6. IsSequence(h) /\ IsSequence(t) /\ IsSequence(m) /\ IsSequence(Confirmed)
  BY <1>1, TypedSequence
<1>7. /\ Rebuilds(plan) => Shown = Target
      /\ ~Rebuilds(plan) => Shown = t
  BY <1>1, <1>2 DEF Shown
<1>8. \E p : IsSequence(p) /\ Target = p \o t
  <2>1. CASE x.mode = "full"
    BY <1>1, <1>2, <1>6, <2>1
  <2>2. CASE x.mode # "full"
    BY <1>1, <1>2, <1>6, <2>2
  <2> QED  BY <2>1, <2>2
<1>9. PICK p : IsSequence(p) /\ Target = p \o t
  BY <1>8
<1>10. /\ IsSequence(p \o t) /\ Len(p \o t) = Len(p) + Len(t) /\ Len(p) \in Nat
       /\ \A i \in 1..Len(t) : (p \o t)[Len(p) + i] = t[i]
  BY ONLY <1>6, <1>9, CatIs
<1>11. CASE Rebuilds(plan)
  <2>1. IsSequence(Target) /\ Len(Target) = Len(p) + Len(t) /\ Target[Len(p) + Len(t)] = t[Len(t)]
    BY <1>5, <1>9, <1>10
  <2>2. Len(Target) \in Nat \ {0} /\ Target[Len(Target)] = m[Len(m)]
    BY <1>5, <1>10, <2>1
  <2>3. Ends(Target, Target, 0)
    BY <2>1, <2>2 DEF Ends
  <2> QED  BY <1>1, <1>3, <1>4, <1>7, <1>11, <2>2, <2>3 DEF m
<1>12. CASE ~Rebuilds(plan)
  <2>1. Ends(t, Target, Len(p))
    BY <1>5, <1>6, <1>9, <1>10 DEF Ends
  <2> QED  BY <1>1, <1>3, <1>4, <1>5, <1>7, <1>12, <2>1 DEF m
<1> QED
  BY <1>11, <1>12

-----------------------------------------------------------------------------
(* The attachments of a list of messages, their uploads, and the names.    *)
LEMMA NamesAre ==
  ASSUME NEW items, NEW parts, IsListOf(parts, items), NEW u, parts = AttachmentsIn(u)
  PROVE  /\ DOMAIN Uploads(parts) = 1..Len(parts) /\ DOMAIN parts = 1..Len(parts)
         /\ \A n \in 1..Len(parts) :
              /\ Uploads(parts)[n].content = parts[n].content
              /\ Uploads(parts)[n].uploadName = UploadName(NamesOf(parts), n)
         /\ NamedIn(u, Uploads(parts))
              = {[content |-> parts[n].content, uploadName |-> UploadName(NamesOf(parts), n)] :
                   n \in 1..Len(parts)}
<1>1. DOMAIN parts = 1..Len(parts)
  BY DEF IsListOf
<1>2. \A n \in 1..Len(parts) : UploadNameIn(Uploads(parts), parts[n]) = UploadName(NamesOf(parts), n)
  BY NameInUploads
<1>3. NamedIn(u, Uploads(parts))
        = {[content |-> parts[n].content, uploadName |-> UploadNameIn(Uploads(parts), parts[n])] :
             n \in 1..Len(parts)}
  BY <1>1 DEF NamedIn
<1>4. {[content |-> parts[n].content, uploadName |-> UploadNameIn(Uploads(parts), parts[n])] :
         n \in 1..Len(parts)}
      = {[content |-> parts[n].content, uploadName |-> UploadName(NamesOf(parts), n)] :
           n \in 1..Len(parts)}
  BY <1>2
<1> QED
  BY <1>1, <1>3, <1>4 DEF Uploads

(* Every name that is given to an attachment that was uploaded is the name *)
(* of one upload.                                                          *)
ThereIn(uploads, name) ==
  \E n \in DOMAIN uploads :
    /\ uploads[n].content = name.content
    /\ \A m \in DOMAIN uploads : uploads[m].uploadName = name.uploadName <=> m = n

LEMMA NamedAreThere ==
  ASSUME NEW items, NEW u, IsListOf(AttachmentsIn(u), items),
         \A k \in 1..Len(items) : Faithful(items[k]) => Len(items[k].name) <= 1,
         NEW name \in NamedIn(u, Uploads(AttachmentsIn(u)))
  PROVE  ThereIn(Uploads(AttachmentsIn(u)), name)
<1> DEFINE parts == AttachmentsIn(u)
           names == NamesOf(parts)
<1>1. /\ DOMAIN Uploads(parts) = 1..Len(parts)
      /\ \A n \in 1..Len(parts) : /\ Uploads(parts)[n].content = parts[n].content
                                  /\ Uploads(parts)[n].uploadName = UploadName(names, n)
      /\ NamedIn(u, Uploads(parts))
           = {[content |-> parts[n].content, uploadName |-> UploadName(names, n)] : n \in 1..Len(parts)}
  BY NamesAre
<1>2. Len(parts) \in Nat
      /\ \A n \in 1..Len(parts) : \E k \in 1..Len(items) : parts[n] = PartOf(items[k]) /\ Faithful(items[k])
  BY DEF IsListOf
<1>3. \A n \in 1..Len(parts) : names[n] = parts[n].name
  BY DEF NamesOf
<1>4. name \in NamedIn(u, Uploads(parts))
  OBVIOUS
<1> HIDE DEF parts, names
<1>5. ASSUME NEW n \in 1..Len(parts)
      PROVE  IsSequence(names[n]) /\ Len(names[n]) = 1
  <2>1. PICK k \in 1..Len(items) : parts[n] = PartOf(items[k]) /\ Faithful(items[k])
    BY <1>2
  <2>2. names[n] = items[k].name
    BY <1>3, <2>1, ReferenceOfPart DEF PartOf
  <2>3. IsSequence(items[k].name) /\ items[k].name # <<>> /\ Len(items[k].name) <= 1
    BY <2>1 DEF Faithful, IsName
  <2>4. Len(items[k].name) \in Nat /\ Len(items[k].name) # 0
    <3> DEFINE s == items[k].name
    <3>1. IsSequence(s) /\ s # <<>>
      BY <2>3
    <3> HIDE DEF s
    <3>2. s \in Seq(ToSet(s)) /\ Len(s) \in Nat
      BY <3>1, SequenceType
    <3>3. Len(s) # 0
      BY <3>1, <3>2, EmptySeq
    <3> QED  BY <3>2, <3>3 DEF s
  <2>5. Len(items[k].name) = 1
    <3> DEFINE length == Len(items[k].name)
    <3>1. length \in Nat /\ length # 0 /\ length <= 1
      BY <2>3, <2>4
    <3> HIDE DEF length
    <3>2. length = 1
      BY <3>1
    <3> QED  BY <3>2 DEF length
  <2> QED  BY <2>2, <2>3, <2>5
<1>6. \A n, m \in 1..Len(parts) : UploadName(names, n) = UploadName(names, m) => n = m
  BY <1>2, <1>5, NamesDiffer
<1>7. PICK n \in 1..Len(parts) :
        name = [content |-> parts[n].content, uploadName |-> UploadName(names, n)]
  BY <1>1, <1>4
<1>8. name.content = parts[n].content /\ name.uploadName = UploadName(names, n)
  BY <1>7
<1>9. ThereIn(Uploads(parts), name)
  BY <1>1, <1>6, <1>8 DEF ThereIn
<1> QED
  BY <1>9 DEF parts

(* Every upload is named by every list of messages that ends with those    *)
(* whose attachments were uploaded.                                        *)
LEMMA UploadsAreNamed ==
  ASSUME NEW items, NEW t, Bodied(t), OneReference(t), Carried(t, items),
         NEW u, NEW off, Ends(u, t, off), NEW n \in 1..Len(AttachmentsIn(u))
  PROVE  \E name \in NamedIn(t, Uploads(AttachmentsIn(u))) :
           /\ name.content = AttachmentsIn(u)[n].content
           /\ name.uploadName = UploadName(NamesOf(AttachmentsIn(u)), n)
<1> DEFINE parts == AttachmentsIn(u)
           all   == AttachmentsIn(t)
<1>1. Bodied(u) /\ OneReference(u) /\ Carried(u, items)
  BY EndsCarried
<1>2. IsListOf(parts, items) /\ IsListOf(all, items)
  BY <1>1, ListOfItems
<1>3. HasBodies(u) /\ HasBodies(t)
  BY <1>1, BodiedHasBodies
<1>4. \E i \in 1..Len(u) : \E j \in PlacesIn(u[i].body) : parts[n] = u[i].body[j]
  <2>1. /\ \A i \in 1..Len(u) : \A j \in PlacesIn(u[i].body) : parts[AttachedAt(u, i, j)] = u[i].body[j]
        /\ \A k \in 1..Len(parts) :
             \E i \in 1..Len(u) : \E j \in PlacesIn(u[i].body) : k = AttachedAt(u, i, j)
    BY <1>3, AttachmentsAre
  <2>2. n \in 1..Len(parts)
    OBVIOUS
  <2> HIDE DEF parts
  <2>3. PICK i \in 1..Len(u) : \E j \in PlacesIn(u[i].body) : n = AttachedAt(u, i, j)
    BY <2>1, <2>2
  <2>4. PICK j \in PlacesIn(u[i].body) : n = AttachedAt(u, i, j)
    BY <2>3
  <2>5. parts[n] = u[i].body[j]
    BY <2>1, <2>4
  <2> QED  BY <2>5
<1>5. \A i \in 1..Len(t) : \A j \in PlacesIn(t[i].body) :
        \E k \in 1..Len(all) : all[k] = t[i].body[j]
  <2>1. \A i \in 1..Len(t) : \A j \in PlacesIn(t[i].body) :
          AttachedAt(t, i, j) \in 1..Len(all) /\ all[AttachedAt(t, i, j)] = t[i].body[j]
    BY <1>3, AttachmentsAre
  <2> HIDE DEF all
  <2> QED  BY <2>1
<1>6. \A i \in 1..Len(u) : off + i \in 1..Len(t) /\ u[i] = t[off + i]
  BY DEF Ends
<1>7. n \in 1..Len(parts)
  OBVIOUS
<1>8. UploadNameIn(Uploads(parts), parts[n]) = UploadName(NamesOf(parts), n)
  BY <1>2, NameInUploads
<1>9. NamedIn(t, Uploads(parts))
        = {[content |-> all[k].content, uploadName |-> UploadNameIn(Uploads(parts), all[k])] : k \in 1..Len(all)}
  BY <1>2 DEF NamedIn, IsListOf
<1> HIDE DEF parts, all
<1>10. PICK i \in 1..Len(u) : \E j \in PlacesIn(u[i].body) : parts[n] = u[i].body[j]
  BY <1>4
<1>11. PICK j \in PlacesIn(u[i].body) : parts[n] = u[i].body[j]
  BY <1>10
<1>12. PICK k \in 1..Len(all) : all[k] = parts[n]
  BY <1>5, <1>6, <1>11
<1> DEFINE name == [content |-> all[k].content, uploadName |-> UploadNameIn(Uploads(parts), all[k])]
<1>13. name \in NamedIn(t, Uploads(parts))
  BY <1>9
<1>14. name.content = parts[n].content /\ name.uploadName = UploadName(NamesOf(parts), n)
  BY <1>8, <1>12
<1> HIDE DEF name
<1> QED
  BY <1>13, <1>14 DEF parts

(* What the last message of a request encloses is among the attachments of *)
(* every list of messages that ends with it.                               *)
LEMMA LastIsAttached ==
  ASSUME NEW c, WellMade(c), OnlyAssistantsCall(c.request.messages),
         NEW N, N = Len(c.request.messages), N \in Nat \ {0},
         c.request.messages[N].role \in {"user", "tool"},
         NEW u, Bodied(u), Len(u) \in Nat \ {0}, u[Len(u)] = c.request.messages[N],
         NEW last, last = Last(Picked(c.items, IsTurnItem)), last.role # "tool",
         NEW part \in ToSet(last.content), IsEnclosure(part)
  PROVE  \E n \in 1..Len(AttachmentsIn(u)) : AttachmentsIn(u)[n].content = ContentOf(part.value)
<1> DEFINE turns == TurnsOf(c)
           m     == c.request.messages[N]
<1>1. /\ Len(turns) = N /\ DOMAIN turns = 1..Len(turns)
      /\ \A i \in 1..Len(turns) : WellFormed(turns[i])
  BY LengthOfRequest, TurnsAre
<1>2. last = turns[N] /\ N \in 1..Len(turns)
  BY <1>1 DEF TurnsOf, Last
<1>3. m.role = turns[N].role /\ m.calls = ToSet(turns[N].calls)
  BY <1>2, MessagesOfRequest, ZenonT(30)
<1>4. m.role = "user" /\ m.calls = {}
  <2>1. m.role \in {"user", "tool"} /\ m.role # "tool"
    BY <1>2, <1>3
  <2> QED  BY <2>1 DEF OnlyAssistantsCall
<1>5. IsSequence(turns[N].content) /\ IsSequence(turns[N].calls)
  BY <1>1, <1>2 DEF WellFormed
<1>6. turns[N].calls = <<>>
  <2> DEFINE s == turns[N].calls
  <2>1. IsSequence(s) /\ ToSet(s) = {}
    BY <1>3, <1>4, <1>5
  <2> HIDE DEF s
  <2>2. s \in Seq(ToSet(s)) /\ Len(s) \in Nat /\ DOMAIN s = 1..Len(s)
    BY <2>1, SequenceType
  <2>3. DOMAIN s = {}
    BY <2>1 DEF ToSet
  <2>4. Len(s) = 0
    BY <2>2, <2>3
  <2> QED  BY <2>2, <2>4, EmptySeq DEF s
<1>7. ~IsPlain(turns[N])
  BY <1>3, <1>4, <1>6 DEF IsPlain
<1>8. PICK at : PlacedFrom(c, N, m.body, at)
  BY <1>2, PlacesOfRequest
<1>9. PICK k \in 1..Len(turns[N].content) : part = turns[N].content[k]
  <2>1. DOMAIN turns[N].content = 1..Len(turns[N].content)
    BY <1>5, SequenceType
  <2>2. part \in ToSet(turns[N].content)
    BY <1>2
  <2> QED  BY <2>1, <2>2 DEF ToSet
<1>10. k \in EnclosedIn(turns[N])
  BY <1>9 DEF EnclosedIn
<1>11. PICK j \in PlacesIn(m.body) : at[j] = k
  BY <1>7, <1>8, <1>10 DEF PlacedFrom
<1>12. m.body[j] = PartFor(c, N, k)
  BY <1>8, <1>11 DEF PlacedFrom
<1>13. PartFor(c, N, k).content = ContentOf(part.value)
  <2>1. c.resolved[AttachmentNumber(turns, N, k)].file.content = ContentOf(turns[N].content[k].value)
    <3>1. N \in 1..Len(TurnsOf(c)) /\ k \in EnclosedIn(TurnsOf(c)[N])
      BY <1>2, <1>10
    <3>2. WellMade(c)
      OBVIOUS
    <3> QED  BY ONLY <3>1, <3>2, ItemsOfRequest
  <2> QED  BY <1>9, <2>1, ReferenceOfPart DEF PartFor
<1>14. u[Len(u)].body[j].content = ContentOf(part.value) /\ j \in PlacesIn(u[Len(u)].body)
  BY <1>11, <1>12, <1>13
<1>15. HasBodies(u) /\ Len(u) \in 1..Len(u)
  BY BodiedHasBodies
<1>16. \E n \in 1..Len(AttachmentsIn(u)) : AttachmentsIn(u)[n] = u[Len(u)].body[j]
  BY <1>14, <1>15, AttachmentsAre, SMTT(30)
<1> QED
  BY <1>14, <1>16

-----------------------------------------------------------------------------
LEMMA TurnPrompts == TurnInv /\ RanInv => PromptMatchesUploads
<1> DEFINE last     == Last(Picked(client.items, IsTurnItem))
           uploaded == {sent.uploads[n].content : n \in DOMAIN sent.uploads}
<1> SUFFICES ASSUME TurnInv, RanInv, sent # Nothing
             PROVE  /\ last.role # "tool" =>
                         \A part \in ToSet(last.content) :
                           IsEnclosure(part) => ContentOf(part.value) \in uploaded
                    /\ \A name \in IF FellBack THEN NamedIn(plan.pending, sent.uploads) ELSE sent.names :
                         NumberedByClient \/ IsThere(name)
                    /\ \A n \in DOMAIN sent.uploads :
                         \E name \in sent.names : /\ name.content = sent.uploads[n].content
                                                  /\ name.uploadName = sent.uploads[n].uploadName
  BY DEF PromptMatchesUploads
<1> DEFINE g == log.aggregate
           items == client.resolved \o RetainStored(g)
           m == client.request.messages
           parts == AttachmentsIn(Shown)
<1>1. Accepted /\ \E restored \in IF Rebuilds(plan) THEN {FALSE} ELSE BOOLEAN : sent = SentBy(restored)
  BY DEF RanInv
<1>2. PICK restored \in IF Rebuilds(plan) THEN {FALSE} ELSE BOOLEAN : sent = SentBy(restored)
  BY <1>1
<1>3. /\ Filed(g) /\ WellMade(client)
      /\ \/ Confirmed = <<>>
         \/ Confirmed = CanonicalStored(g, RetainStored(g))
      /\ Retained = RetainStored(g)
  BY TurnIsMade DEF Retained
<1>4. Aim(Target, Confirmed, m, Offset)
  BY <1>1, TurnAims
<1>5. /\ \E off : Ends(Shown, Target, off)
      /\ Rebuilds(plan) => Shown = Target
      /\ ~Rebuilds(plan) => Shown = plan.pending
      /\ ContextHistory(stored, client.request, plan) \o plan.pending = Target
      /\ Len(m) \in Nat \ {0} /\ Len(Shown) \in Nat \ {0}
      /\ Shown[Len(Shown)] = m[Len(m)]
      /\ m[Len(m)].role \in {"user", "tool"} /\ OnlyAssistantsCall(m)
  BY <1>1, TurnShows
<1>6. PICK off : Ends(Shown, Target, off)
  BY <1>5
<1>7. /\ IsSequence(items) /\ Len(items) \in Nat /\ OneLocal(items)
      /\ \A k \in 1..Len(items) :
           \/ \E n \in 1..Len(client.resolved) : items[k] = client.resolved[n]
           \/ \E n \in 1..Len(RetainStored(g)) : items[k] = RetainStored(g)[n]
  <2> HIDE DEF g
  <2>1. Filed(g) /\ WellMade(client)
    BY <1>3
  <2> QED  BY ONLY <2>1, ItemsAre
<1>8. Bodied(Target) /\ OneReference(Target) /\ Carried(Target, items)
  <2> HIDE DEF g, m
  <2> QED  BY <1>3, <1>4, AimCarried DEF m
<1>9. Bodied(Shown) /\ OneReference(Shown) /\ Carried(Shown, items)
  <2> HIDE DEF items
  <2> QED  BY <1>6, <1>8, EndsCarried
<1>10. IsListOf(parts, items)
  <2> HIDE DEF items
  <2> QED  BY <1>9, ListOfItems
<1>11. sent.uploads = Uploads(parts)
  <2>1. sent.uploads = Staged(items, UploadReferences(plan))
    BY <1>2, <1>3 DEF SentBy
  <2>2. UploadReferences(plan) = [n \in DOMAIN parts |-> parts[n].reference]
    BY DEF UploadReferences, Shown
  <2> HIDE DEF items, parts
  <2> QED  BY <1>7, <1>10, <2>1, <2>2, StagedAre
<1>12. /\ sent.mode = IF restored THEN "append" ELSE "context"
       /\ sent.names = NamedIn(IF restored THEN plan.pending ELSE Target, sent.uploads)
  BY <1>2, <1>5 DEF SentBy
<1>13. Rebuilds(plan) => ~restored
  BY <1>2
<1>14. /\ DOMAIN Uploads(parts) = 1..Len(parts)
       /\ \A n \in 1..Len(parts) : /\ Uploads(parts)[n].content = parts[n].content
                                   /\ Uploads(parts)[n].uploadName = UploadName(NamesOf(parts), n)
  BY <1>10, NamesAre
<1>15. DOMAIN client.resolved = 1..Len(client.resolved) /\ DOMAIN Retained = 1..Len(RetainStored(g))
  BY <1>3, ResolvedAre, RetainedAre
<1> HIDE DEF last, uploaded, g, items, m, parts
<1>16. ASSUME last.role # "tool", NEW part \in ToSet(last.content), IsEnclosure(part)
       PROVE  ContentOf(part.value) \in uploaded
  <2>1. \E n \in 1..Len(parts) : parts[n].content = ContentOf(part.value)
    BY <1>3, <1>5, <1>9, <1>16, LastIsAttached DEF last, m, parts
  <2>2. PICK n \in 1..Len(parts) : parts[n].content = ContentOf(part.value)
    BY <2>1
  <2>3. n \in DOMAIN sent.uploads /\ sent.uploads[n].content = ContentOf(part.value)
    BY <1>11, <1>14, <2>2
  <2> QED  BY <2>3 DEF uploaded
<1>17. (IF FellBack THEN NamedIn(plan.pending, sent.uploads) ELSE sent.names)
         = NamedIn(Shown, Uploads(parts))
  <2>1. CASE FellBack
    BY <1>5, <1>11, <2>1 DEF FellBack
  <2>2. CASE ~FellBack
    <3>1. Rebuilds(plan) \/ restored
      BY <1>12, <2>2 DEF FellBack
    <3>2. (IF restored THEN plan.pending ELSE Target) = Shown
      BY <1>5, <1>13, <3>1
    <3> QED  BY <1>11, <1>12, <2>2, <3>2
  <2> QED  BY <2>1, <2>2
<1>18. ASSUME NEW name \in NamedIn(Shown, Uploads(parts)), ~NumberedByClient
       PROVE  IsThere(name)
  <2>1. ASSUME NEW k \in 1..Len(items), Faithful(items[k])
        PROVE  Len(items[k].name) <= 1
    <3>1. ~(Len(items[k].name) > 1)
      BY <1>7, <1>15, <1>18, <1>3 DEF NumberedByClient
    <3>2. Len(items[k].name) \in Nat
      BY <2>1 DEF Faithful, IsName, IsSequence
    <3> QED  BY <3>1, <3>2
  <2>2. ThereIn(Uploads(parts), name)
    <3>1. \A k \in 1..Len(items) : Faithful(items[k]) => Len(items[k].name) <= 1
      BY <2>1
    <3> QED  BY <1>10, <1>18, <3>1, NamedAreThere DEF parts
  <2> QED  BY <1>11, <2>2 DEF ThereIn, IsThere
<1>19. ASSUME NEW n \in DOMAIN sent.uploads
       PROVE  \E name \in sent.names : /\ name.content = sent.uploads[n].content
                                       /\ name.uploadName = sent.uploads[n].uploadName
  <2> DEFINE told == IF restored THEN plan.pending ELSE Target
  <2>1. n \in 1..Len(parts) /\ sent.names = NamedIn(told, Uploads(parts))
    BY <1>11, <1>12, <1>14
  <2>2. /\ Bodied(told) /\ OneReference(told) /\ Carried(told, items)
        /\ \E o : Ends(Shown, told, o)
    <3>1. CASE restored
      <4>1. told = Shown
        BY <1>5, <1>13, <3>1
      <4>2. Ends(Shown, Shown, 0)
        BY <1>6 DEF Ends
      <4> QED  BY <1>9, <4>1, <4>2
    <3>2. CASE ~restored
      BY <1>6, <1>8, <3>2
    <3> QED  BY <3>1, <3>2
  <2> HIDE DEF told
  <2>3. PICK o : Ends(Shown, told, o)
    BY <2>2
  <2>4. \E name \in NamedIn(told, Uploads(parts)) :
          name.content = parts[n].content /\ name.uploadName = UploadName(NamesOf(parts), n)
    BY <2>1, <2>2, <2>3, UploadsAreNamed DEF parts
  <2> QED  BY <1>11, <1>14, <2>1, <2>4
<1> QED
  BY <1>16, <1>17, <1>18, <1>19

(* What the client encloses in its last message is uploaded, and the       *)
(* prompt and the uploads name the same files by the same names.           *)
THEOREM PromptsNameTheirUploads == Spec => []PromptMatchesUploads
<1>1. Init => TurnInv /\ RanInv
  BY TurnStarts, RanStarts
<1>2. (TurnInv /\ RanInv) /\ [Next]_vars => (TurnInv /\ RanInv)'
  BY TurnGoesOn, RanGoesOn
<1>3. TurnInv /\ RanInv => PromptMatchesUploads
  BY TurnPrompts
<1> QED
  BY <1>1, <1>2, <1>3, PTL DEF Spec

-----------------------------------------------------------------------------
(* A chat whose log a request repeats is continued.                        *)

(* A clean chat of the request's context is continued, when a full request *)
(* repeats its messages.                                                   *)
LEMMA ContinuedInStep ==
  ASSUME NEW s, Loaded(s), s # NoStored, NEW x, Plannable(x), NEW affinity,
         s.status = "clean", s.url # NoUrl, s.context = x.context,
         x.mode = "full" => Fingerprints(RequestHistory(x.messages)) = Fingerprints(s.messages),
         NEW p, p = PlanWithAttachments(s, x, affinity), p # PlanningError
  PROVE  ~Rebuilds(p)
<1> DEFINE m == x.messages
           t == PendingTurn(m)
           h == RequestHistory(m)
           r == [x EXCEPT !.messages = Fingerprints(m)]
           e == [s EXCEPT !.messages = Fingerprints(s.messages)]
           q == PlanContextSync(e, r, affinity)
<1>1. /\ m \in Seq(Message) /\ ValidTranscript(m)
      /\ x = [context |-> x.context, messages |-> m, mode |-> RequestMode(m)]
  BY DEF Plannable, CanonicalRequest
<1>2. /\ m # <<>> /\ m[Len(m)].role \in {"user", "tool"}
      /\ t \in Seq(Message) /\ h \in Seq(Message) /\ h \o t = m
  BY <1>1, EmptySeq, RequestSplit DEF ValidTranscript
<1>3. r.messages = Fingerprints(m) /\ r.mode = x.mode /\ r.context = x.context
  BY <1>1
<1>4. /\ s = [context |-> s.context, messages |-> s.messages, url |-> s.url,
              status |-> s.status, synced |-> Len(s.messages)]
      /\ s.messages \in Seq(Message)
  BY DEF Loaded
<1>5. Fingerprints(s.messages) \in Seq(Message) /\ Len(Fingerprints(s.messages)) = Len(s.messages)
  BY <1>4, PrintsType
<1>6. /\ e.messages = Fingerprints(s.messages) /\ e.status = "clean" /\ e.url = s.url
      /\ e.context = s.context /\ e.synced = Len(s.messages)
  <2> DEFINE w == Fingerprints(s.messages)
  <2>1. e = [s EXCEPT !.messages = w]
    OBVIOUS
  <2> HIDE DEF w, e
  <2>2. e = [context |-> s.context, messages |-> w, url |-> s.url,
             status |-> s.status, synced |-> Len(s.messages)]
    BY <1>4, <2>1
  <2> QED  BY <2>2 DEF w
<1>7. e # NoStored
  <2>1. NoStored.status = "absent"
    BY DEF NoStored
  <2> HIDE DEF e
  <2> QED  BY <1>6, <2>1
<1>8. p = IF q = PlanningError THEN q
          ELSE [mode    |-> q.mode,
                history |-> IF ~Rebuilds(q) THEN <<>>
                            ELSE IF x.mode = "full" \/ s = NoStored THEN h ELSE ConfirmedPrefix(s),
                pending |-> t]
  BY DEF PlanWithAttachments
<1>9. /\ PendingTurn(Fingerprints(m)) = Fingerprints(t)
      /\ Fingerprints(m) = Fingerprints(h) \o Fingerprints(t)
  BY <1>1, <1>2, PrintsSplit, PrintsCat
<1> HIDE DEF r, e
<1>10. ~MustRebuild(e, r)
  <2>1. ASSUME x.mode = "full"
        PROVE  /\ HasPrefix(r.messages, e.messages)
               /\ SubSeq(r.messages, Len(e.messages) + 1, Len(r.messages)) = PendingTurn(r.messages)
    <3> DEFINE a == Fingerprints(h)
               b == Fingerprints(t)
    <3>1. a \in Seq(Message) /\ b \in Seq(Message) /\ e.messages = a /\ r.messages = a \o b
          /\ PendingTurn(r.messages) = b
      BY <1>2, <1>3, <1>6, <1>9, <2>1, PrintsType
    <3> HIDE DEF a, b
    <3>2. SubSeq(a \o b, Len(a) + 1, Len(a \o b)) = b
      BY <3>1, PutTogether
    <3>3. /\ Len(a \o b) = Len(a) + Len(b) /\ Len(a) \in Nat /\ Len(b) \in Nat
          /\ \A i \in 1..Len(a) : (a \o b)[i] = a[i]
      BY <3>1
    <3>4. HasPrefix(a \o b, a)
      BY <3>3 DEF HasPrefix
    <3> QED  BY <3>1, <3>2, <3>4
  <2> QED  BY <1>3, <1>5, <1>6, <2>1 DEF MustRebuild
<1>11. q = PlanningError \/ q.mode \in {"APPEND", "RESTORE"}
  BY <1>7, <1>10 DEF PlanContextSync, Planned
<1> HIDE DEF q
<1> QED
  BY <1>8, <1>11 DEF Rebuilds

-----------------------------------------------------------------------------
(* Images that are not of the type the records say.                        *)
Retyped(repeated, saying) ==
  \E i \in 1..Len(repeated) : \E j \in 1..Len(repeated[i].body) :
    /\ IsAttachment(repeated[i].body[j]) /\ repeated[i].body[j].kind = "image"
    /\ repeated[i].body[j].mime # saying[i].body[j].mime

LEMMA BlankedParts ==
  ASSUME NEW a, NEW b, IsPart(a), IsPart(b), Blank(Unnamed(a)) = Blank(Unnamed(b))
  PROVE  Unnamed(a) = Unnamed(b) <=>
           ~(IsAttachment(a) /\ a.kind = "image" /\ a.mime # b.mime)
<1>1. CASE IsText(a) /\ IsText(b)
  <2>1. ~IsAttachment(a) /\ ~IsAttachment(b)
    BY <1>1, KindsOfParts
  <2>2. Unnamed(a) = a /\ Unnamed(b) = b /\ Blank(a) = a /\ Blank(b) = b
    BY <1>1, <2>1 DEF Unnamed, Blank
  <2> QED  BY <2>1, <2>2
<1>2. CASE ~IsText(a) /\ ~IsText(b)
  <2>1. PICK x : a = PartOf(x)
    BY <1>2 DEF IsPart
  <2>2. PICK y : b = PartOf(y)
    BY <1>2 DEF IsPart
  <2> DEFINE u == Unnamed(a)
             v == Unnamed(b)
  <2>3. /\ u = [type |-> "attachment", reference |-> NoReference, kind |-> a.kind,
                content |-> a.content, name |-> a.name, mime |-> a.mime]
        /\ IsAttachment(a) /\ IsAttachment(u)
    BY <2>1, PartIs
  <2>4. /\ v = [type |-> "attachment", reference |-> NoReference, kind |-> b.kind,
                content |-> b.content, name |-> b.name, mime |-> b.mime]
        /\ IsAttachment(b) /\ IsAttachment(v)
    BY <2>2, PartIs
  <2>5. Blank(u) = Blank(v)
    OBVIOUS
  <2> HIDE DEF u, v
  <2>6. /\ u.kind = a.kind /\ u.content = a.content /\ u.name = a.name /\ u.mime = a.mime
        /\ v.kind = b.kind /\ v.content = b.content /\ v.name = b.name /\ v.mime = b.mime
    BY <2>3, <2>4
  <2>7. /\ Blank(u) = [type |-> "attachment", reference |-> NoReference, kind |-> a.kind,
                       content |-> a.content, name |-> a.name,
                       mime |-> IF a.kind = "image" THEN NoType ELSE a.mime]
        /\ Blank(v) = [type |-> "attachment", reference |-> NoReference, kind |-> b.kind,
                       content |-> b.content, name |-> b.name,
                       mime |-> IF b.kind = "image" THEN NoType ELSE b.mime]
    <3>1. Blank(u) = IF a.kind = "image" THEN [u EXCEPT !.mime = NoType] ELSE u
      BY <2>3, <2>6 DEF Blank
    <3>2. Blank(v) = IF b.kind = "image" THEN [v EXCEPT !.mime = NoType] ELSE v
      BY <2>4, <2>6 DEF Blank
    <3> QED  BY <2>3, <2>4, <3>1, <3>2
  <2> DEFINE bu == Blank(u)
             bv == Blank(v)
  <2> HIDE DEF bu, bv
  <2>8. /\ a.kind = b.kind /\ a.content = b.content /\ a.name = b.name
        /\ a.kind # "image" => a.mime = b.mime
    <3>1. /\ bu.kind = a.kind /\ bu.content = a.content /\ bu.name = a.name
          /\ bu.mime = IF a.kind = "image" THEN NoType ELSE a.mime
      BY <2>7 DEF bu
    <3>2. /\ bv.kind = b.kind /\ bv.content = b.content /\ bv.name = b.name
          /\ bv.mime = IF b.kind = "image" THEN NoType ELSE b.mime
      BY <2>7 DEF bv
    <3>3. bu = bv
      BY <2>5 DEF bu, bv
    <3> QED  BY <3>1, <3>2, <3>3
  <2>9. u = v <=> a.mime = b.mime
    BY <2>3, <2>4, <2>6, <2>8
  <2> QED  BY <2>3, <2>8, <2>9 DEF u, v
<1>3. CASE IsText(a) /\ ~IsText(b)
  <2>1. PICK y : b = PartOf(y)
    BY <1>3 DEF IsPart
  <2>2. IsAttachment(Unnamed(b))
    BY <2>1, PartIs
  <2>3. Unnamed(a) = a /\ ~IsAttachment(a)
    BY <1>3, KindsOfParts DEF Unnamed
  <2>4. Blank(Unnamed(a)) = a
    BY <2>3 DEF Blank
  <2>5. IsAttachment(Blank(Unnamed(b)))
    <3> DEFINE v == Unnamed(b)
    <3>1. v = [type |-> "attachment", reference |-> NoReference, kind |-> y.kind,
               content |-> y.file.content, name |-> y.name, mime |-> y.mime]
      BY <2>1, PartIs
    <3> HIDE DEF v
    <3>2. IsAttachment(Blank(v))
      BY <3>1 DEF Blank, IsAttachment
    <3> QED  BY <3>2 DEF v
  <2> QED  BY <2>3, <2>4, <2>5
<1>4. CASE ~IsText(a) /\ IsText(b)
  <2>1. PICK y : a = PartOf(y)
    BY <1>4 DEF IsPart
  <2>3. Unnamed(b) = b /\ ~IsAttachment(b)
    BY <1>4, KindsOfParts DEF Unnamed
  <2>4. Blank(Unnamed(b)) = b
    BY <2>3 DEF Blank
  <2>5. IsAttachment(Blank(Unnamed(a)))
    <3> DEFINE v == Unnamed(a)
    <3>1. v = [type |-> "attachment", reference |-> NoReference, kind |-> y.kind,
               content |-> y.file.content, name |-> y.name, mime |-> y.mime]
      BY <2>1, PartIs
    <3> HIDE DEF v
    <3>2. IsAttachment(Blank(v))
      BY <3>1 DEF Blank, IsAttachment
    <3> QED  BY <3>2 DEF v
  <2> QED  BY <2>3, <2>4, <2>5
<1> QED
  BY <1>1, <1>2, <1>3, <1>4

(* Two transcripts that differ in the types of images at most.             *)
AlikeButTypes(m, n) ==
  /\ m.role = n.role /\ m.calls = n.calls /\ m.answers = n.answers /\ Len(m.body) = Len(n.body)
  /\ \A j \in 1..Len(m.body) : Blank(Unnamed(m.body[j])) = Blank(Unnamed(n.body[j]))

LEMMA MessagesBlanked ==
  ASSUME NEW M, Bodied(M), Shaped(M), NEW N, Bodied(N), Shaped(N),
         WithoutTypes(M) = WithoutTypes(N)
  PROVE  Len(M) = Len(N) /\ \A i \in 1..Len(M) : AlikeButTypes(M[i], N[i])
<1>1. /\ DOMAIN M = 1..Len(M) /\ DOMAIN N = 1..Len(N) /\ Len(M) \in Nat /\ Len(N) \in Nat
  BY BodiedHasBodies
<1>2. /\ WithoutTypes(M) = [i \in 1..Len(M) |-> Blanked(M[i])]
      /\ WithoutTypes(N) = [i \in 1..Len(N) |-> Blanked(N[i])]
  BY <1>1 DEF WithoutTypes, Blanked
<1>3. 1..Len(M) = 1..Len(N) /\ \A i \in 1..Len(M) : Blanked(M[i]) = Blanked(N[i])
  <2> DEFINE f == [i \in 1..Len(M) |-> Blanked(M[i])]
             g == [i \in 1..Len(N) |-> Blanked(N[i])]
  <2>1. /\ DOMAIN f = 1..Len(M) /\ \A i \in 1..Len(M) : f[i] = Blanked(M[i])
        /\ DOMAIN g = 1..Len(N) /\ \A i \in 1..Len(N) : g[i] = Blanked(N[i])
    OBVIOUS
  <2>2. f = g
    BY <1>2
  <2> HIDE DEF f, g
  <2> QED  BY <2>1, <2>2
<1>4. Len(M) = Len(N)
  <2>1. \A i \in Nat : i \in 1..Len(M) <=> i \in 1..Len(N)
    BY <1>3
  <2>2. Len(M) <= Len(N)
    <3>1. CASE Len(M) = 0
      BY <1>1, <3>1
    <3>2. CASE Len(M) # 0
      <4>1. Len(M) \in 1..Len(M)
        BY <1>1, <3>2
      <4> QED  BY <1>1, <2>1, <4>1
    <3> QED  BY <3>1, <3>2
  <2>3. Len(N) <= Len(M)
    <3>1. CASE Len(N) = 0
      BY <1>1, <3>1
    <3>2. CASE Len(N) # 0
      <4>1. Len(N) \in 1..Len(N)
        BY <1>1, <3>2
      <4> QED  BY <1>1, <2>1, <4>1
    <3> QED  BY <3>1, <3>2
  <2> DEFINE p == Len(M)
             q == Len(N)
  <2>4. p \in Nat /\ q \in Nat /\ p <= q /\ q <= p
    BY <1>1, <2>2, <2>3
  <2> HIDE DEF p, q
  <2>5. p = q
    BY <2>4
  <2> QED  BY <2>5 DEF p, q
<1>5. ASSUME NEW i \in 1..Len(M)
      PROVE  AlikeButTypes(M[i], N[i])
  <2> DEFINE m == M[i]
             n == N[i]
             a == m.body
             b == n.body
             u == [j \in 1..Len(a) |-> Blank(Unnamed(a[j]))]
             v == [j \in 1..Len(b) |-> Blank(Unnamed(b[j]))]
  <2>1. /\ Len(a) \in Nat /\ DOMAIN a = 1..Len(a)
        /\ Len(b) \in Nat /\ DOMAIN b = 1..Len(b)
    BY <1>3, PartsOfBody
  <2>2. /\ m = [role |-> m.role, body |-> a, calls |-> m.calls, answers |-> m.answers]
        /\ n = [role |-> n.role, body |-> b, calls |-> n.calls, answers |-> n.answers]
    BY <1>3 DEF Shaped
  <2>3. Blanked(m) = Blanked(n)
    BY <1>3
  <2> HIDE DEF m, n
  <2>4. /\ Blanked(m) = [role |-> m.role, body |-> u, calls |-> m.calls, answers |-> m.answers]
        /\ Blanked(n) = [role |-> n.role, body |-> v, calls |-> n.calls, answers |-> n.answers]
    BY <2>1, <2>2, BlankedIs
  <2>5. /\ DOMAIN u = 1..Len(a) /\ \A j \in 1..Len(a) : u[j] = Blank(Unnamed(a[j]))
        /\ DOMAIN v = 1..Len(b) /\ \A j \in 1..Len(b) : v[j] = Blank(Unnamed(b[j]))
    OBVIOUS
  <2> HIDE DEF u, v, a, b
  <2>6. m.role = n.role /\ u = v /\ m.calls = n.calls /\ m.answers = n.answers
    <3> DEFINE x == Blanked(m)
               y == Blanked(n)
    <3>1. /\ x.role = m.role /\ x.body = u /\ x.calls = m.calls /\ x.answers = m.answers
      BY <2>4
    <3>2. /\ y.role = n.role /\ y.body = v /\ y.calls = n.calls /\ y.answers = n.answers
      BY <2>4
    <3> HIDE DEF x, y
    <3>3. x = y
      BY <2>3 DEF x, y
    <3> QED  BY <3>1, <3>2, <3>3
  <2>7. Len(a) = Len(b)
    <3>1. 1..Len(a) = 1..Len(b)
      BY <2>5, <2>6
    <3>2. \A j \in Nat : j \in 1..Len(a) <=> j \in 1..Len(b)
      BY <3>1
    <3>3. Len(a) <= Len(b)
      <4>1. Len(a) = 0 \/ Len(a) \in 1..Len(a)
        BY <2>1 DEF a, b
      <4> QED  BY <2>1, <3>2, <4>1 DEF a, b
    <3>4. Len(b) <= Len(a)
      <4>1. Len(b) = 0 \/ Len(b) \in 1..Len(b)
        BY <2>1 DEF a, b
      <4> QED  BY <2>1, <3>2, <4>1 DEF a, b
    <3> QED  BY <2>1, <3>3, <3>4 DEF a, b
  <2>8. \A j \in 1..Len(a) : Blank(Unnamed(a[j])) = Blank(Unnamed(b[j]))
    BY <2>5, <2>6, <2>7
  <2> QED  BY <2>6, <2>7, <2>8 DEF AlikeButTypes, m, n, a, b
<1> QED
  BY <1>4, <1>5

LEMMA BlankedPrints ==
  ASSUME NEW M, Bodied(M), Shaped(M), NEW N, Bodied(N), Shaped(N),
         WithoutTypes(M) = WithoutTypes(N)
  PROVE  Fingerprints(M) = Fingerprints(N) <=> ~Retyped(M, N)
<1>1. DOMAIN M = 1..Len(M) /\ DOMAIN N = 1..Len(N)
  BY BodiedHasBodies
<1>2. Len(M) = Len(N) /\ \A i \in 1..Len(M) : AlikeButTypes(M[i], N[i])
  BY MessagesBlanked
<1> DEFINE Same(i) == Fingerprint(M[i]) = Fingerprint(N[i])
           Moved(i, j) == /\ IsAttachment(M[i].body[j]) /\ M[i].body[j].kind = "image"
                          /\ M[i].body[j].mime # N[i].body[j].mime
<1>3. ASSUME NEW i \in 1..Len(M)
      PROVE  Same(i) <=> \A j \in 1..Len(M[i].body) : ~Moved(i, j)
  <2> DEFINE m == M[i]
             n == N[i]
             a == m.body
             b == n.body
             u == [j \in 1..Len(a) |-> Unnamed(a[j])]
             v == [j \in 1..Len(b) |-> Unnamed(b[j])]
  <2>1. /\ DOMAIN a = 1..Len(a) /\ \A j \in 1..Len(a) : IsPart(a[j])
        /\ DOMAIN b = 1..Len(b) /\ \A j \in 1..Len(b) : IsPart(b[j])
    BY <1>2, PartsOfBody
  <2>2. /\ m = [role |-> m.role, body |-> a, calls |-> m.calls, answers |-> m.answers]
        /\ n = [role |-> n.role, body |-> b, calls |-> n.calls, answers |-> n.answers]
    BY <1>2 DEF Shaped
  <2>3. AlikeButTypes(m, n)
    BY <1>2
  <2> HIDE DEF m, n
  <2>4. /\ Fingerprint(m) = [role |-> m.role, body |-> u, calls |-> m.calls, answers |-> m.answers]
        /\ Fingerprint(n) = [role |-> n.role, body |-> v, calls |-> n.calls, answers |-> n.answers]
    BY <2>1, <2>2, PrintIs
  <2>5. /\ u = [j \in 1..Len(a) |-> u[j]] /\ \A j \in 1..Len(a) : u[j] = Unnamed(a[j])
        /\ v = [j \in 1..Len(b) |-> v[j]] /\ \A j \in 1..Len(b) : v[j] = Unnamed(b[j])
    OBVIOUS
  <2>6. /\ m.role = n.role /\ m.calls = n.calls /\ m.answers = n.answers /\ Len(a) = Len(b)
        /\ \A j \in 1..Len(a) : Blank(Unnamed(a[j])) = Blank(Unnamed(b[j]))
    BY <2>3 DEF AlikeButTypes
  <2> HIDE DEF u, v, a, b
  <2>7. Fingerprint(m) = Fingerprint(n) <=> u = v
    <3> DEFINE x == Fingerprint(m)
               y == Fingerprint(n)
    <3>1. x.body = u /\ y.body = v
      BY <2>4
    <3>2. u = v => x = y
      BY <2>4, <2>6
    <3> HIDE DEF x, y
    <3>3. x = y => u = v
      BY <3>1
    <3> QED  BY <3>2, <3>3 DEF x, y
  <2>8. u = v <=> \A j \in 1..Len(a) : Unnamed(a[j]) = Unnamed(b[j])
    <3>1. u = v <=> \A j \in 1..Len(a) : u[j] = v[j]
      BY <2>5, <2>6
    <3> QED  BY <2>5, <2>6, <3>1
  <2>9. \A j \in 1..Len(a) :
          Unnamed(a[j]) = Unnamed(b[j])
            <=> ~(IsAttachment(a[j]) /\ a[j].kind = "image" /\ a[j].mime # b[j].mime)
    BY <2>1, <2>6, BlankedParts
  <2> QED  BY <2>7, <2>8, <2>9 DEF m, n, a, b
<1>4. Fingerprints(M) = Fingerprints(N) <=> \A i \in 1..Len(M) : Same(i)
  <2> DEFINE f == Fingerprints(M)
             g == Fingerprints(N)
  <2>1. /\ f = [i \in 1..Len(M) |-> f[i]] /\ \A i \in 1..Len(M) : f[i] = Fingerprint(M[i])
        /\ g = [i \in 1..Len(M) |-> g[i]] /\ \A i \in 1..Len(M) : g[i] = Fingerprint(N[i])
    BY <1>1, <1>2 DEF Fingerprints
  <2> HIDE DEF f, g
  <2>2. f = g <=> \A i \in 1..Len(M) : f[i] = g[i]
    BY <2>1
  <2> QED  BY <2>1, <2>2 DEF f, g
<1>5. Retyped(M, N) <=> \E i \in 1..Len(M) : \E j \in 1..Len(M[i].body) : Moved(i, j)
  BY DEF Retyped
<1> HIDE DEF Same, Moved
<1> QED
  BY <1>3, <1>4, <1>5

-----------------------------------------------------------------------------
(* What a turn leaves is a log again.                                      *)

(* The transcript the next turn reads.                                     *)
Read == CanonicalStored(saved, RetainStored(saved))

LEMMA StoredShaped ==
  ASSUME NEW g, Filed(g)
  PROVE  Shaped(CanonicalStored(g, RetainStored(g)))
<1> DEFINE O == CanonicalStored(g, RetainStored(g))
<1>1. Bodied(O) /\ Carried(O, RetainStored(g))
  BY StoredIs
<1>2. Len(O) = Len(g.messages) /\ \A i \in 1..Len(g.messages) : ReadBack(g, i, O[i])
  BY StoredReadsBack
<1>3. \A i \in 1..Len(O) : O[i] = [role |-> O[i].role, body |-> O[i].body,
                                  calls |-> O[i].calls, answers |-> O[i].answers]
  BY <1>2 DEF ReadBack
<1> HIDE DEF O
<1>4. Shaped(O)
  BY <1>1, <1>3 DEF Shaped, Carried
<1> QED
  BY <1>4 DEF O

LEMMA SavedRead ==
  ASSUME TurnInv, RanInv, saved # Nothing
  PROVE  /\ Bodied(Read) /\ Shaped(Read) /\ Bodied(Final) /\ Shaped(Final)
         /\ WithoutTypes(Read) = WithoutTypes(Final)
         /\ Filed(saved)
<1>1. PICK kept, bindings : /\ Saving(log.aggregate, Final, kept, bindings)
                            /\ saved = SavedOf(log.aggregate, Final, kept, bindings)
  BY TurnLeaves
<1>2. Filed(saved) /\ WithoutTypes(Read) = WithoutTypes(Final)
  BY <1>1, SavedAgain DEF Read
<1>3. Bodied(Final) /\ Shaped(Final)
  BY <1>1 DEF Saving
<1>4. Bodied(Read) /\ Shaped(Read)
  BY <1>2, StoredIs, StoredShaped DEF Read
<1> QED
  BY <1>2, <1>3, <1>4

LEMMA SoundBefore ==
  ASSUME NEW m, SoundLog(m), IsSequence(m), NEW x, x.role # "tool",
         \A i \in 1..Len(m) : x.calls \cap m[i].calls = {},
         NEW s, s = Append(m, x)
  PROVE  SoundLog(s)
<1>1. /\ Len(m) \in Nat /\ Len(s) = Len(m) + 1
      /\ \A i \in 1..Len(m) : s[i] = m[i]
      /\ s[Len(m) + 1] = x
  BY AppendIs
<1>2. ASSUME NEW i \in 1..Len(s), NEW j \in 1..Len(s), i # j
      PROVE  s[i].calls \cap s[j].calls = {}
  <2>1. CASE i \in 1..Len(m) /\ j \in 1..Len(m)
    BY <1>1, <1>2, <2>1 DEF SoundLog
  <2>2. CASE i = Len(m) + 1 /\ j \in 1..Len(m)
    BY <1>1, <2>2
  <2>3. CASE j = Len(m) + 1 /\ i \in 1..Len(m)
    <3>1. s[j].calls \cap s[i].calls = {}
      BY <1>1, <2>3
    <3> QED  BY <3>1
  <2> QED  BY <1>1, <1>2, <2>1, <2>2, <2>3
<1>3. ASSUME NEW i \in 1..Len(s), s[i].role = "tool"
      PROVE  /\ \E j \in 1..(i - 1) : s[i].answers \in s[j].calls
             /\ \A j \in 1..(i - 1) : s[j].answers # s[i].answers
  <2>1. i \in 1..Len(m) /\ s[i] = m[i]
    BY <1>1, <1>3
  <2>2. \A j \in 1..(i - 1) : s[j] = m[j]
    BY <1>1, <2>1
  <2> QED  BY <1>3, <2>1, <2>2 DEF SoundLog
<1> QED
  BY <1>2, <1>3 DEF SoundLog

LEMMA SoundAlike ==
  ASSUME NEW m, SoundLog(m), NEW s, Len(s) = Len(m), Len(m) \in Nat,
         \A i \in 1..Len(m) : s[i].role = m[i].role /\ s[i].calls = m[i].calls /\ s[i].answers = m[i].answers
  PROVE  SoundLog(s)
<1>1. ASSUME NEW i \in 1..Len(s), s[i].role = "tool"
      PROVE  /\ \E j \in 1..(i - 1) : s[i].answers \in s[j].calls
             /\ \A j \in 1..(i - 1) : s[j].answers # s[i].answers
  <2>1. \A j \in 1..(i - 1) : j \in 1..Len(m)
    OBVIOUS
  <2>2. /\ \E j \in 1..(i - 1) : m[i].answers \in m[j].calls
        /\ \A j \in 1..(i - 1) : m[j].answers # m[i].answers
    BY <1>1 DEF SoundLog
  <2> QED  BY <2>1, <2>2
<1> QED
  BY <1>1 DEF SoundLog

(* The calls of the answer are none of those in its transcript.            *)
LEMMA AnswerIsNew ==
  ASSUME TurnInv, Accepted, answer \in Answers, NEW i \in 1..Len(Target)
  PROVE  answer.calls \cap Target[i].calls = {}
<1> DEFINE R == client.request.messages
<1>1. PICK family \in Families : log \in family.logs /\ client \in family.clients
  BY DEF TurnInv
<1>2. /\ answer.calls \cap CallsMade(StoredMessages(log)) = {}
      /\ answer.calls \cap CallsMade(R) = {}
  BY <1>1, PlannedTurnAssumption DEF IsAnswer
<1>3. \A k \in 1..Len(R) : answer.calls \cap R[k].calls = {}
  BY <1>2 DEF CallsMade
<1>4. \A k \in 1..Len(Confirmed) : answer.calls \cap Confirmed[k].calls = {}
  <2>1. Confirmed = <<>> \/ Confirmed = StoredMessages(log)
    BY TurnIsMade DEF StoredMessages, Retained
  <2>2. CASE Confirmed = <<>>
    <3>1. Len(Confirmed) = 0
      BY <2>2
    <3> QED  BY <3>1
  <2>3. CASE Confirmed = StoredMessages(log)
    BY <1>2, <2>3 DEF CallsMade
  <2> QED  BY <2>1, <2>2, <2>3
<1>5. Aim(Target, Confirmed, R, Offset) /\ R \in Seq(Message)
  BY TurnAims
<1>6. CASE i \in 1..Offset
  <2>1. Target[i] = Confirmed[i] /\ i \in 1..Len(Confirmed)
    BY <1>5, <1>6 DEF Aim
  <2> QED  BY <1>4, <2>1
<1>7. CASE ~(i \in 1..Offset)
  <2>1. i - Offset \in 1..Len(R) /\ i = Offset + (i - Offset)
    BY <1>5, <1>7 DEF Aim
  <2>2. Target[i] = R[i - Offset]
    BY <1>5, <2>1 DEF Aim
  <2> QED  BY <1>3, <2>1, <2>2
<1> QED
  BY <1>6, <1>7

LEMMA SavedIsSound ==
  ASSUME TurnInv, RanInv, saved # Nothing
  PROVE  SoundLog(Read)
<1>1. Accepted
  BY DEF RanInv
<1>2. SoundLog(Target) /\ Target \in Seq(Message)
  BY <1>1, TurnAims, TurnIsSound DEF TargetIsSound
<1>3. Final = Append(Target, answer) /\ answer \in Answers
  BY TurnLeaves
<1>4. answer.role # "tool" /\ \A i \in 1..Len(Target) : answer.calls \cap Target[i].calls = {}
  BY <1>1, <1>3, AnswerIs, AnswerIsNew
<1>5. IsSequence(Target)
  BY <1>2, TypedSequence
<1>6. SoundLog(Final)
  BY <1>2, <1>3, <1>4, <1>5, SoundBefore
<1>7. /\ Bodied(Read) /\ Shaped(Read) /\ Bodied(Final) /\ Shaped(Final)
      /\ WithoutTypes(Final) = WithoutTypes(Read)
  BY SavedRead
<1> DEFINE M == Final
           N == Read
<1> HIDE DEF M, N
<1>8. Len(M) = Len(N) /\ (\A i \in 1..Len(M) : AlikeButTypes(M[i], N[i])) /\ Len(M) \in Nat
  BY <1>7, MessagesBlanked, BodiedHasBodies DEF M, N
<1>9. SoundLog(N)
  BY <1>6, <1>8, SoundAlike DEF AlikeButTypes, M
<1> QED
  BY <1>9 DEF N

LEMMA SavedIds ==
  ASSUME NEW g, NEW final, NEW kept, NEW bindings, Saving(g, final, kept, bindings),
         NEW s, s = SavedOf(g, final, kept, bindings),
         NEW next, next # "turn", NoIdsOf(next, g)
  PROVE  NoIdsOf(next, s)
<1>1. /\ s.messages = SavedMessages(g, final, kept, bindings)
      /\ s.attachments = SavedRecords(g, final, kept, bindings)
  BY DEF SavedOf
<1>2. /\ DOMAIN s.messages = 1..Len(final)
      /\ \A i \in 1..Len(final) :
           IF i <= kept THEN s.messages[i] = g.messages[i] /\ i \in DOMAIN g.messages
           ELSE s.messages[i] = CreatedMessage("turn", i, final[i], bindings)
  BY <1>1, SavedMessagesAre
<1>3. ASSUME NEW i \in DOMAIN s.messages
      PROVE  s.messages[i].id[1] # next
  <2>1. CASE i <= kept
    BY <1>2, <2>1 DEF NoIdsOf
  <2>2. CASE ~(i <= kept)
    <3>1. s.messages[i] = CreatedMessage("turn", i, final[i], bindings)
      BY <1>2, <2>2
    <3>2. CreatedMessage("turn", i, final[i], bindings).id = <<"turn", i, 0>>
      BY DEF CreatedMessage, NewRecordId
    <3> QED  BY <3>1, <3>2
  <2> QED  BY <2>1, <2>2
<1>4. /\ DOMAIN s.attachments = 1..Len(s.attachments)
      /\ \A q \in 1..Len(s.attachments) : \E i \in 1..Len(final) :
           OwnedBy(g, final, kept, bindings, i, s.attachments[q])
  BY <1>1, SavedRecordsAre
<1>5. DOMAIN g.attachments = 1..Len(g.attachments)
  BY RecordsAre DEF Saving
<1>6. ASSUME NEW q \in DOMAIN s.attachments
      PROVE  s.attachments[q].id[1] # next
  <2>1. PICK i \in 1..Len(final) : OwnedBy(g, final, kept, bindings, i, s.attachments[q])
    BY <1>4
  <2>2. CASE i <= kept
    BY <1>5, <2>1, <2>2 DEF OwnedBy, NoIdsOf
  <2>3. CASE ~(i <= kept)
    <3>1. PICK j \in PlacesIn(final[i].body) : s.attachments[q] = RecordFor(i, final[i], bindings, j)
      BY <2>1, <2>3 DEF OwnedBy
    <3> QED  BY <3>1 DEF RecordFor, NewRecordId
  <2> QED  BY <2>2, <2>3
<1> QED
  BY <1>3, <1>6 DEF NoIdsOf

(* What a turn saves is what turns are assumed to begin with: a log the    *)
(* store accepts, with every call made once and answered once at most, and *)
(* without a record of the turn that comes next.                           *)
SavedIsLog ==
  saved # Nothing =>
    /\ SoundLog(Read) /\ Filed(saved)
    /\ \A next : next # "turn" /\ NoIdsOf(next, log.aggregate) => NoIdsOf(next, saved)

(* So the assumption about logs holds again after every turn.              *)
THEOREM SavedLogsAreLogs == Spec => []SavedIsLog
<1>1. Init => TurnInv /\ RanInv
  BY TurnStarts, RanStarts
<1>2. (TurnInv /\ RanInv) /\ [Next]_vars => (TurnInv /\ RanInv)'
  BY TurnGoesOn, RanGoesOn
<1>3. TurnInv /\ RanInv => SavedIsLog
  <2> SUFFICES ASSUME TurnInv, RanInv, saved # Nothing
               PROVE  /\ SoundLog(Read) /\ Filed(saved)
                      /\ \A next : next # "turn" /\ NoIdsOf(next, log.aggregate) => NoIdsOf(next, saved)
    BY DEF SavedIsLog
  <2>1. PICK kept, bindings : /\ Saving(log.aggregate, Final, kept, bindings)
                              /\ saved = SavedOf(log.aggregate, Final, kept, bindings)
    BY TurnLeaves
  <2>2. ASSUME NEW next, next # "turn", NoIdsOf(next, log.aggregate)
        PROVE  NoIdsOf(next, saved)
    BY <2>1, <2>2, SavedIds
  <2> QED  BY <2>2, SavedIsSound, SavedRead
<1> QED
  BY <1>1, <1>2, <1>3, PTL DEF Spec

-----------------------------------------------------------------------------
(* A client that repeats the transcript of a turn and its answer, in       *)
(* whatever items, has its web conversation continued, whatever URL that   *)
(* was saved with; only an image of another type than its record has       *)
(* makes the planner rebuild it.  (Message is about the bodies in Bodies.) *)
RepeatsContinue ==
  saved # Nothing /\ Read \in Seq(Message) =>
    \A c, url, affinity :
      LET request == c.request
          history == RequestHistory(request.messages)
          again   == PlanWithAttachments(
                       [context |-> request.context, messages |-> Read, url |-> url,
                        status |-> "clean", synced |-> Len(Read)], request, affinity)
      IN  /\ WellMade(c) /\ Plannable(request) /\ url # NoUrl
          /\ request.mode = "full" /\ WithoutTypes(history) = WithoutTypes(Final)
          => /\ again # PlanningError
             /\ Rebuilds(again) <=> Retyped(history, Read)

LEMMA HistoryIs ==
  ASSUME NEW c, WellMade(c), NEW h, NEW m, m = c.request.messages, m \in Seq(Message),
         IsSequence(h), Len(h) <= Len(m), \A i \in 1..Len(h) : h[i] = m[i]
  PROVE  Bodied(h) /\ Shaped(h)
<1>1. Bodied(m) /\ Carried(m, c.resolved)
  BY RequestIs
<1>2. \A i \in 1..Len(m) : m[i] = [role |-> m[i].role, body |-> m[i].body,
                                  calls |-> m[i].calls, answers |-> m[i].answers]
  BY MessageIs
<1>3. ASSUME NEW i \in 1..Len(m), NEW j \in PlacesIn(m[i].body)
      PROVE  \E item : m[i].body[j] = PartOf(item)
  <2>1. \E n \in 1..Len(c.resolved) : m[i].body[j] = PartOf(c.resolved[n])
    BY <1>1 DEF Carried
  <2> QED  BY <2>1
<1>4. Len(h) \in Nat /\ Len(m) \in Nat
  BY <1>1, BodiedHasBodies DEF IsSequence
<1>5. \A i \in 1..Len(h) : i \in 1..Len(m) /\ h[i] = m[i]
  BY <1>4
<1>6. Bodied(h)
  BY <1>1, <1>5 DEF Bodied
<1>7. ASSUME NEW i \in 1..Len(h)
      PROVE  /\ h[i] = [role |-> h[i].role, body |-> h[i].body,
                        calls |-> h[i].calls, answers |-> h[i].answers]
             /\ \A j \in PlacesIn(h[i].body) : \E item : h[i].body[j] = PartOf(item)
  <2> DEFINE x == m[i]
  <2>1. h[i] = x /\ x = [role |-> x.role, body |-> x.body, calls |-> x.calls, answers |-> x.answers]
        /\ \A j \in PlacesIn(x.body) : \E item : x.body[j] = PartOf(item)
    BY <1>2, <1>3, <1>5
  <2> HIDE DEF x
  <2> QED  BY <2>1
<1> QED
  BY <1>6, <1>7 DEF Shaped

LEMMA TurnRepeats == TurnInv /\ RanInv => RepeatsContinue
<1> SUFFICES ASSUME TurnInv, RanInv, saved # Nothing, Read \in Seq(Message),
                    NEW c, NEW url, NEW affinity, WellMade(c), Plannable(c.request), url # NoUrl,
                    c.request.mode = "full",
                    WithoutTypes(RequestHistory(c.request.messages)) = WithoutTypes(Final),
                    NEW s, s = [context |-> c.request.context, messages |-> Read, url |-> url,
                                status |-> "clean", synced |-> Len(Read)],
                    NEW again, again = PlanWithAttachments(s, c.request, affinity)
             PROVE  /\ again # PlanningError
                    /\ Rebuilds(again) <=> Retyped(RequestHistory(c.request.messages), Read)
  BY DEF RepeatsContinue
<1> DEFINE x == c.request
           m == x.messages
           h == RequestHistory(m)
           said == Read
<1>1. m \in Seq(Message) /\ ValidTranscript(m)
  BY DEF Plannable
<1>2. m # <<>> /\ m[Len(m)].role \in {"user", "tool"}
  BY <1>1, EmptySeq DEF ValidTranscript
<1>3. /\ Len(m) \in Nat /\ PendingStart(m) \in 1..Len(m)
      /\ Len(h) = PendingStart(m) - 1 /\ \A i \in 1..(PendingStart(m) - 1) : h[i] = m[i]
      /\ h \in Seq(Message)
  BY <1>1, <1>2, RequestParts, RequestSplit
<1>4. IsSequence(h) /\ Len(h) <= Len(m) /\ \A i \in 1..Len(h) : h[i] = m[i]
  BY <1>3, TypedSequence
<1>5. Bodied(h) /\ Shaped(h)
  <2> HIDE DEF h
  <2> QED  BY <1>1, <1>4, HistoryIs
<1>6. /\ Bodied(said) /\ Shaped(said) /\ WithoutTypes(said) = WithoutTypes(Final)
      /\ SoundLog(said)
  BY SavedRead, SavedIsSound
<1> HIDE DEF said
<1>7. Fingerprints(h) = Fingerprints(said) <=> ~Retyped(h, said)
  <2>1. WithoutTypes(h) = WithoutTypes(said)
    BY <1>6
  <2> HIDE DEF h
  <2> QED  BY <1>5, <1>6, <2>1, BlankedPrints
<1>8. s = [context |-> x.context, messages |-> said, url |-> url,
           status |-> "clean", synced |-> Len(said)]
  BY DEF said
<1>9. /\ s.messages = said /\ s.status = "clean" /\ s.url = url /\ s.context = x.context
      /\ s = [context |-> s.context, messages |-> s.messages, url |-> s.url,
              status |-> s.status, synced |-> Len(s.messages)]
  BY <1>8
<1>10. Loaded(s) /\ s # NoStored
  <2>1. said \in Seq(Message)
    BY DEF said
  <2>2. NoStored.status = "absent"
    BY DEF NoStored
  <2> QED  BY <1>6, <1>9, <2>1, <2>2 DEF Loaded
<1>11. Plannable(x) /\ x.mode = "full" /\ again = PlanWithAttachments(s, x, affinity) /\ url # NoUrl
  OBVIOUS
<1> HIDE DEF x
<1>12. /\ again # PlanningError
       /\ ~Rebuilds(again) => Fingerprints(said) = Fingerprints(h)
  BY <1>9, <1>10, <1>11, PlanOf
<1>13. Fingerprints(h) = Fingerprints(said) => ~Rebuilds(again)
  BY <1>9, <1>10, <1>11, <1>12, ContinuedInStep
<1>14. Rebuilds(again) <=> Retyped(h, said)
  BY <1>7, <1>12, <1>13
<1> QED
  BY <1>12, <1>14 DEF said, x

(* What the Gateway answered comes back as what it saved.                  *)
THEOREM RepeatsAreContinued == Spec => []RepeatsContinue
<1>1. Init => TurnInv /\ RanInv
  BY TurnStarts, RanStarts
<1>2. (TurnInv /\ RanInv) /\ [Next]_vars => (TurnInv /\ RanInv)'
  BY TurnGoesOn, RanGoesOn
<1>3. TurnInv /\ RanInv => RepeatsContinue
  BY TurnRepeats
<1> QED
  BY <1>1, <1>2, <1>3, PTL DEF Spec
=============================================================================
