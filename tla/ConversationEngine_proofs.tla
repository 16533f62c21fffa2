--------------------- MODULE ConversationEngine_proofs ---------------------
(***************************************************************************)
(* Invariants of ConversationEngine, for any number of requests, keys,     *)
(* Conversations, transcripts, answers and crashes.                        *)
(*                                                                         *)
(* The argument: a request that has its turn is at the head of the queue   *)
(* it is in (QueueInv), so two turns at a time never have the same queue   *)
(* key; a turn works on the one Conversation of its key, on the anonymous  *)
(* Conversation it queued for, or on a new one that nobody else can find   *)
(* before it is saved (TurnInv); so two turns never work on the same one.  *)
(*                                                                         *)
(* A URL is used by one Conversation and by the turn that works on it, and *)
(* a prompt goes to that URL or to a chat nobody has used (Apart).  So     *)
(* only the turn's own prompt and its one answer change what the website   *)
(* shows there, between the clean row the turn was planned against         *)
(* (AppendReady) and the transcript it saves (Delivered).                  *)
(***************************************************************************)
EXTENDS StreamClients, ContextPlanner_proofs

(* The requests that have had their turn and have not left yet.            *)
Holds(r) == pc[r] \in Active \cup {"committed"}

(* A request with a queue key is in that queue, once, and in no other; the *)
(* ones that have their turn are in front.                                 *)
QueueInv ==
  /\ \A r \in Requests : pc[r] = "idle" => slot[r] = NoConv
  /\ \A r \in Requests : slot[r] # NoConv =>
       \E i \in 1..Len(queue[slot[r]]) : queue[slot[r]][i] = r
  /\ \A k \in QueueKeys : \A i \in 1..Len(queue[k]) : slot[queue[k][i]] = k
  /\ \A k \in QueueKeys : \A i, j \in 1..Len(queue[k]) : queue[k][i] = queue[k][j] => i = j
  /\ \A r \in Requests : Holds(r) /\ slot[r] # NoConv => queue[slot[r]][1] = r

(* The types the queues and requests depend on.                            *)
QueueTypes ==
  /\ queue \in [QueueKeys -> Seq(Requests)]
  /\ pc \in [Requests -> Phases]
  /\ slot \in [Requests -> QueueKeys \cup {NoConv}]

LEMMA QueueHead ==
  ASSUME QueueTypes, QueueInv, NEW r \in Requests, slot[r] # NoConv, HasTurn(r) \/ Holds(r)
  PROVE  /\ slot[r] \in QueueKeys
         /\ queue[slot[r]] \in Seq(Requests) /\ queue[slot[r]] # <<>>
         /\ Len(queue[slot[r]]) \in Nat \ {0}
         /\ queue[slot[r]][1] = r
<1>1. slot[r] \in QueueKeys /\ queue[slot[r]] \in Seq(Requests)
  BY DEF QueueTypes
<1>2. Len(queue[slot[r]]) \in Nat \ {0}
  BY <1>1, LenProperties DEF QueueInv
<1>3. queue[slot[r]] # <<>>
  BY <1>2, EmptySeq
<1>4. CASE Holds(r)
  BY <1>1, <1>2, <1>3, <1>4 DEF QueueInv
<1>5. CASE HasTurn(r)
  BY <1>1, <1>2, <1>3, <1>5 DEF HasTurn
<1> QED
  BY <1>1, <1>2, <1>3, <1>4, <1>5

LEMMA NoConvIsNoKey == NoConv \notin QueueKeys
  BY EngineAssumption DEF QueueKeys

(* Leaving the queue passes the turn on.                                   *)
LEMMA LeaveQueue ==
  ASSUME QueueTypes, QueueInv, NEW r \in Requests, HasTurn(r) \/ Holds(r), Leave(r)
  PROVE  QueueTypes' /\ QueueInv'
<1>1. /\ pc' = [pc EXCEPT ![r] = "idle"]
      /\ slot' = [slot EXCEPT ![r] = NoConv]
      /\ "idle" \in Phases /\ "idle" \notin Active \cup {"committed"}
  BY DEF Leave, Phases, Active
<1>2. CASE slot[r] = NoConv
  <2>1. queue' = queue /\ slot' = slot
    BY <1>1, <1>2 DEF Leave, QueueTypes
  <2> QED
    BY <1>1, <2>1 DEF QueueTypes, QueueInv, Holds
<1>3. CASE slot[r] # NoConv
  <2> DEFINE k == slot[r]
             s == queue[k]
  <2>1. /\ k \in QueueKeys /\ s \in Seq(Requests) /\ s # <<>>
        /\ Len(s) \in Nat \ {0} /\ s[1] = r
    BY <1>3, QueueHead
  <2>2. queue' = [queue EXCEPT ![k] = Tail(s)]
    BY <1>3 DEF Leave
  <2>3. /\ Tail(s) \in Seq(Requests) /\ Len(Tail(s)) = Len(s) - 1
        /\ \A i \in 1..Len(Tail(s)) : Tail(s)[i] = s[i + 1]
    BY <2>1, HeadTailProperties
  <2>4. QueueTypes'
    BY <1>1, <2>1, <2>2, <2>3 DEF QueueTypes
  <2>5. /\ queue'[k] = Tail(s)
        /\ \A x \in QueueKeys \ {k} : queue'[x] = queue[x]
        /\ slot'[r] = NoConv /\ \A x \in Requests \ {r} : slot'[x] = slot[x]
    BY <1>1, <2>1, <2>2 DEF QueueTypes
  <2> HIDE DEF k, s
  <2>6. \A i \in 1..Len(Tail(s)) : s[i + 1] # r /\ s[i + 1] \in Requests /\ slot[s[i + 1]] = k
    <3> SUFFICES ASSUME NEW i \in 1..Len(Tail(s))
                 PROVE  s[i + 1] # r /\ s[i + 1] \in Requests /\ slot[s[i + 1]] = k
      OBVIOUS
    <3>1. i + 1 \in 1..Len(s) /\ 1 \in 1..Len(s) /\ i + 1 # 1
      BY <2>1, <2>3
    <3> QED
      BY <2>1, <3>1, ElementOfSeq DEF QueueInv, k, s
  <2>7. \A x \in Requests : pc'[x] = "idle" => slot'[x] = NoConv
    BY <1>1, <2>5 DEF QueueTypes, QueueInv
  <2>8. \A x \in Requests : slot'[x] # NoConv =>
          \E i \in 1..Len(queue'[slot'[x]]) : queue'[slot'[x]][i] = x
    <3> SUFFICES ASSUME NEW x \in Requests, slot'[x] # NoConv
                 PROVE  \E i \in 1..Len(queue'[slot'[x]]) : queue'[slot'[x]][i] = x
      OBVIOUS
    <3>1. x # r /\ slot'[x] = slot[x] /\ slot[x] \in QueueKeys
      BY <2>5 DEF QueueTypes
    <3>2. CASE slot[x] # k
      BY <2>5, <3>1, <3>2 DEF QueueInv
    <3>3. CASE slot[x] = k
      <4>1. PICK i \in 1..Len(s) : s[i] = x
        BY <3>1, <3>3 DEF QueueInv, s
      <4>2. i # 1 /\ i - 1 \in 1..Len(Tail(s)) /\ (i - 1) + 1 = i
        BY <2>1, <2>3, <3>1, <4>1
      <4>3. Tail(s)[i - 1] = x
        BY <2>3, <4>1, <4>2
      <4>4. queue'[slot'[x]] = Tail(s)
        BY <2>5, <3>1, <3>3
      <4> QED
        BY <4>2, <4>3, <4>4
    <3> QED
      BY <3>2, <3>3
  <2>9. \A x \in QueueKeys : \A i \in 1..Len(queue'[x]) : slot'[queue'[x][i]] = x
    <3> SUFFICES ASSUME NEW x \in QueueKeys, NEW i \in 1..Len(queue'[x])
                 PROVE  slot'[queue'[x][i]] = x
      OBVIOUS
    <3>1. CASE x = k
      BY <2>3, <2>5, <2>6, <3>1
    <3>2. CASE x # k
      <4>1. queue[x][i] \in Requests /\ slot[queue[x][i]] = x
        BY <2>5, <3>2, ElementOfSeq DEF QueueTypes, QueueInv
      <4>2. queue[x][i] # r
        BY <3>2, <4>1 DEF k
      <4> QED
        BY <2>5, <3>2, <4>1, <4>2
    <3> QED
      BY <3>1, <3>2
  <2>10. \A x \in QueueKeys : \A i, j \in 1..Len(queue'[x]) : queue'[x][i] = queue'[x][j] => i = j
    <3> SUFFICES ASSUME NEW x \in QueueKeys, NEW i \in 1..Len(queue'[x]),
                        NEW j \in 1..Len(queue'[x]), queue'[x][i] = queue'[x][j]
                 PROVE  i = j
      OBVIOUS
    <3>1. CASE x = k
      <4>1. i \in 1..Len(Tail(s)) /\ j \in 1..Len(Tail(s)) /\ s[i + 1] = s[j + 1]
        BY <2>3, <2>5, <3>1
      <4>2. i + 1 \in 1..Len(s) /\ j + 1 \in 1..Len(s)
        BY <2>1, <2>3, <4>1
      <4>3. i + 1 = j + 1
        BY <2>1, <4>1, <4>2 DEF QueueInv, s
      <4> QED
        BY <4>1, <4>3
    <3>2. CASE x # k
      BY <2>5, <3>2 DEF QueueInv
    <3> QED
      BY <3>1, <3>2
  <2>11. \A x \in Requests : Holds(x)' /\ slot'[x] # NoConv => queue'[slot'[x]][1] = x
    <3> SUFFICES ASSUME NEW x \in Requests, Holds(x)', slot'[x] # NoConv
                 PROVE  queue'[slot'[x]][1] = x
      OBVIOUS
    <3>1. x # r /\ slot'[x] = slot[x] /\ Holds(x) /\ slot[x] \in QueueKeys
      BY <1>1, <2>5 DEF QueueTypes, Holds
    <3>2. queue[slot[x]][1] = x
      BY <2>5, <3>1 DEF QueueInv
    <3>3. slot[x] # k
      BY <2>1, <3>1, <3>2 DEF s
    <3> QED
      BY <2>5, <3>1, <3>2, <3>3
  <2> QED
    BY <2>4, <2>7, <2>8, <2>9, <2>10, <2>11 DEF QueueInv
<1> QED
  BY <1>2, <1>3

(* Queueing puts a request behind all others.                              *)
LEMMA QueueKeyType ==
  ASSUME NEW j \in Job
  PROVE  /\ QueueKeyOf(j) \in QueueKeys \cup {NoConv}
         /\ j.key # Anonymous => QueueKeyOf(j) = j.key
         /\ j.key = Anonymous => QueueKeyOf(j) \in Conversations \cup {NoConv}
<1>1. j.key \in Keys \cup {Anonymous}
  BY DEF Job
<1> QED
  BY <1>1 DEF QueueKeyOf, QueueKeys

LEMMA SubmitQueue ==
  ASSUME QueueTypes, QueueInv, NEW r \in Requests, Submit(r)
  PROVE  QueueTypes' /\ QueueInv'
<1>1. PICK j \in Job :
        /\ slot' = [slot EXCEPT ![r] = QueueKeyOf(j)]
        /\ queue' = IF QueueKeyOf(j) = NoConv THEN queue
                    ELSE [queue EXCEPT ![QueueKeyOf(j)] = Append(@, r)]
  BY DEF Submit
<1> DEFINE k == QueueKeyOf(j)
<1>2. /\ pc[r] = "idle" /\ pc' = [pc EXCEPT ![r] = "queued"]
      /\ "queued" \in Phases /\ "queued" # "idle" /\ "queued" \notin Active \cup {"committed"}
  BY DEF Submit, Phases, Active
<1>3. slot[r] = NoConv
  BY <1>2 DEF QueueInv
<1>4. k \in QueueKeys \cup {NoConv} /\ NoConv \notin QueueKeys
  BY QueueKeyType, NoConvIsNoKey
<1> HIDE DEF k
<1>5. CASE k = NoConv
  <2>1. queue' = queue /\ slot' = slot
    BY <1>1, <1>3, <1>5 DEF QueueTypes, k
  <2> QED
    BY <1>2, <2>1 DEF QueueTypes, QueueInv, Holds
<1>6. CASE k # NoConv
  <2> DEFINE s == queue[k]
             n == Len(s)
             t == Append(s, r)
  <2>1. k \in QueueKeys /\ s \in Seq(Requests) /\ n \in Nat
    BY <1>4, <1>6, LenProperties DEF QueueTypes
  <2>2. queue' = [queue EXCEPT ![k] = t]
    BY <1>1, <1>6 DEF k
  <2>3. /\ t \in Seq(Requests) /\ Len(t) = n + 1
        /\ \A i \in 1..n : t[i] = s[i]
        /\ t[n + 1] = r
    BY <2>1, AppendProperties
  <2>4. QueueTypes'
    BY <1>1, <1>2, <1>4, <2>1, <2>2, <2>3 DEF QueueTypes, k
  <2>5. /\ queue'[k] = t
        /\ \A x \in QueueKeys \ {k} : queue'[x] = queue[x]
        /\ slot'[r] = k /\ \A x \in Requests \ {r} : slot'[x] = slot[x]
    BY <1>1, <2>1, <2>2 DEF QueueTypes, k
  <2> HIDE DEF s, n, t
  <2>6. \A x \in QueueKeys : \A i \in 1..Len(queue[x]) :
          queue[x][i] \in Requests /\ queue[x][i] # r /\ slot[queue[x][i]] = x
    <3> SUFFICES ASSUME NEW x \in QueueKeys, NEW i \in 1..Len(queue[x])
                 PROVE  queue[x][i] \in Requests /\ queue[x][i] # r /\ slot[queue[x][i]] = x
      OBVIOUS
    <3>1. queue[x][i] \in Requests /\ slot[queue[x][i]] = x
      BY ElementOfSeq DEF QueueTypes, QueueInv
    <3> QED
      BY <1>3, <1>4, <3>1
  <2>7. \A x \in Requests : pc'[x] = "idle" => slot'[x] = NoConv
    BY <1>2, <2>5 DEF QueueTypes, QueueInv
  <2>8. \A x \in Requests : slot'[x] # NoConv =>
          \E i \in 1..Len(queue'[slot'[x]]) : queue'[slot'[x]][i] = x
    <3> SUFFICES ASSUME NEW x \in Requests, slot'[x] # NoConv
                 PROVE  \E i \in 1..Len(queue'[slot'[x]]) : queue'[slot'[x]][i] = x
      OBVIOUS
    <3>1. CASE x = r
      <4>1. n + 1 \in 1..Len(t)
        BY <2>1, <2>3
      <4> QED
        BY <2>3, <2>5, <3>1, <4>1
    <3>2. CASE x # r
      <4>1. slot'[x] = slot[x] /\ slot[x] \in QueueKeys
        BY <2>5, <3>2 DEF QueueTypes
      <4>2. PICK i \in 1..Len(queue[slot[x]]) : queue[slot[x]][i] = x
        BY <4>1, <1>4 DEF QueueInv
      <4>3. CASE slot[x] # k
        BY <2>5, <4>1, <4>2, <4>3
      <4>4. CASE slot[x] = k
        <5>1. i \in 1..n /\ s[i] = x
          BY <4>2, <4>4 DEF s, n
        <5>2. i \in 1..Len(t) /\ t[i] = x
          BY <2>1, <2>3, <5>1
        <5> QED
          BY <2>5, <4>1, <4>4, <5>2
      <4> QED
        BY <4>3, <4>4
    <3> QED
      BY <3>1, <3>2
  <2>9. \A i \in 1..Len(t) : (i \in 1..n /\ t[i] = s[i] /\ t[i] # r) \/ (i = n + 1 /\ t[i] = r)
    BY <2>1, <2>3, <2>6 DEF s, n
  <2>10. \A x \in QueueKeys : \A i \in 1..Len(queue'[x]) : slot'[queue'[x][i]] = x
    <3> SUFFICES ASSUME NEW x \in QueueKeys, NEW i \in 1..Len(queue'[x])
                 PROVE  slot'[queue'[x][i]] = x
      OBVIOUS
    <3>1. CASE x = k
      <4>1. CASE i \in 1..n /\ t[i] = s[i] /\ t[i] # r
        <5>1. s[i] \in Requests /\ slot[s[i]] = k
          BY <2>1, <2>6, <4>1 DEF s, n
        <5> QED
          BY <2>5, <3>1, <4>1, <5>1
      <4>2. CASE t[i] = r
        BY <2>5, <3>1, <4>2
      <4> QED
        BY <2>5, <2>9, <3>1, <4>1, <4>2
    <3>2. CASE x # k
      BY <2>5, <2>6, <3>2
    <3> QED
      BY <3>1, <3>2
  <2>11. \A x \in QueueKeys : \A i, j2 \in 1..Len(queue'[x]) :
           queue'[x][i] = queue'[x][j2] => i = j2
    <3> SUFFICES ASSUME NEW x \in QueueKeys, NEW i \in 1..Len(queue'[x]),
                        NEW j2 \in 1..Len(queue'[x]), queue'[x][i] = queue'[x][j2]
                 PROVE  i = j2
      OBVIOUS
    <3>1. CASE x = k
      <4>1. i \in 1..Len(t) /\ j2 \in 1..Len(t) /\ t[i] = t[j2]
        BY <2>5, <3>1
      <4>2. \A a, b \in 1..n : s[a] = s[b] => a = b
        BY <2>1 DEF QueueInv, s, n
      <4> QED
        BY <2>9, <4>1, <4>2
    <3>2. CASE x # k
      BY <2>5, <3>2 DEF QueueInv
    <3> QED
      BY <3>1, <3>2
  <2>12. \A x \in Requests : Holds(x)' /\ slot'[x] # NoConv => queue'[slot'[x]][1] = x
    <3> SUFFICES ASSUME NEW x \in Requests, Holds(x)', slot'[x] # NoConv
                 PROVE  queue'[slot'[x]][1] = x
      OBVIOUS
    <3>1. x # r /\ slot'[x] = slot[x] /\ Holds(x) /\ slot[x] \in QueueKeys
      BY <1>2, <2>5 DEF QueueTypes, Holds
    <3>2. queue[slot[x]][1] = x /\ Len(queue[slot[x]]) \in Nat \ {0}
      BY <1>4, <3>1, QueueHead
    <3>3. CASE slot[x] = k
      <4>1. 1 \in 1..n
        BY <2>1, <3>2, <3>3 DEF s, n
      <4> QED
        BY <2>3, <2>5, <3>1, <3>2, <3>3, <4>1 DEF s
    <3>4. CASE slot[x] # k
      BY <2>5, <3>1, <3>2, <3>4
    <3> QED
      BY <3>3, <3>4
  <2> QED
    BY <2>4, <2>7, <2>8, <2>10, <2>11, <2>12 DEF QueueInv
<1> QED
  BY <1>5, <1>6

LEMMA QueueStep ==
  ASSUME QueueTypes, QueueInv, [Next]_vars
  PROVE  QueueTypes' /\ QueueInv'
<1>1. ASSUME NEW r \in Requests, Submit(r) PROVE QueueTypes' /\ QueueInv'
  BY <1>1, SubmitQueue
<1>2. ASSUME NEW r \in Requests, Start(r) PROVE QueueTypes' /\ QueueInv'
  <2>1. /\ queue' = queue /\ slot' = slot /\ pc' = [pc EXCEPT ![r] = "planned"]
        /\ pc[r] = "queued" /\ HasTurn(r) /\ "planned" \in Phases
    BY <1>2 DEF Start, runVars, Phases, Active
  <2>2. slot[r] # NoConv => queue[slot[r]][1] = r
    BY <2>1, QueueHead
  <2> QED
    BY <2>1, <2>2 DEF QueueTypes, QueueInv, Holds
<1>3. ASSUME NEW r \in Requests, Refuse(r) \/ Respond(r) \/ Fail(r)
      PROVE  QueueTypes' /\ QueueInv'
  BY <1>3, LeaveQueue DEF Refuse, Respond, Fail, Holds
<1>4. ASSUME NEW r \in Requests, PreparePage(r) \/ Checkpoint(r) \/ Send(r) \/ Complete(r)
      PROVE  QueueTypes' /\ QueueInv'
  <2>1. /\ queue' = queue /\ slot' = slot /\ pc[r] \in Active
        /\ \E p \in Active \cup {"committed"} : pc' = [pc EXCEPT ![r] = p]
    BY <1>4 DEF PreparePage, Checkpoint, Send, Complete, runVars, Active
  <2>2. Active \cup {"committed"} \subseteq Phases \ {"idle"}
    BY DEF Active, Phases
  <2>3. QueueTypes'
    BY <2>1, <2>2 DEF QueueTypes
  <2>4. \A x \in Requests : (Holds(x)' => Holds(x)) /\ (pc'[x] = "idle" => pc[x] = "idle")
    BY <2>1, <2>2 DEF QueueTypes, Holds
  <2> QED
    BY <2>1, <2>3, <2>4 DEF QueueInv
<1>5. ASSUME NEW u \in Urls, WebAnswer(u) PROVE QueueTypes' /\ QueueInv'
  BY <1>5 DEF WebAnswer, runVars, QueueTypes, QueueInv, Holds
<1>6. CASE Crash
  <2>1. /\ queue' = [q \in QueueKeys |-> <<>>]
        /\ pc' = [r \in Requests |-> "idle"]
        /\ slot' = [r \in Requests |-> NoConv]
        /\ <<>> \in Seq(Requests) /\ Len(<<>>) = 0
    BY <1>6, EmptySeq DEF Crash
  <2> QED
    BY <2>1 DEF QueueTypes, QueueInv, Holds, Phases, Active
<1>7. CASE UNCHANGED vars
  BY <1>7 DEF vars, QueueTypes, QueueInv, Holds
<1> QED
  BY <1>1, <1>2, <1>3, <1>4, <1>5, <1>6, <1>7 DEF Next, Step

-----------------------------------------------------------------------------
(* A request that is not idle serves a client request and queues under its *)
(* key, if it has one.                                                     *)
JobInv ==
  \A r \in Requests : pc[r] # "idle" =>
    /\ job[r] \in Job
    /\ job[r].key # Anonymous => slot[r] = job[r].key
    /\ job[r].key = Anonymous => slot[r] \in Conversations \cup {NoConv}

(* Of every stored Conversation some prefix is confirmed.                  *)
StoreInv == \A c \in Conversations : LoadedConversation(store[c])

(* What a turn relies on: it was planned against its Conversation, which   *)
(* stays as it was until the turn marks it; the Conversation has the       *)
(* request's key, and is the one an anonymous request queued for; a new    *)
(* one is the first with its key.                                          *)
TurnOf(r) ==
  pc[r] \in Active =>
    /\ turn[r] \in Turn
    /\ ValidRequest(job[r])
    /\ LoadedConversation(turn[r].stored)
    /\ \E affinity \in Affinities :
         turn[r].plan = PlanContextSync(turn[r].stored, CanonicalOf(job[r]), affinity)
    /\ pc[r] \in {"planned", "ready"} => turn[r].stored = store[turn[r].conv]
    /\ store[turn[r].conv] # NoStored => store[turn[r].conv].key = job[r].key
    /\ turn[r].stored # NoStored =>
         /\ store[turn[r].conv] # NoStored
         /\ store[turn[r].conv].url = turn[r].stored.url
         /\ job[r].key = Anonymous => slot[r] = turn[r].conv
    /\ pc[r] \in {"planned", "ready"} /\ turn[r].stored = NoStored /\ job[r].key # Anonymous =>
         \A c \in Conversations : store[c] # NoStored => store[c].key # job[r].key
    /\ pc[r] \in {"checkpointed", "sent"} => store[turn[r].conv].status = "in_flight"

(* Which prompt a turn is going to send, and where.                        *)
PromptOf(r) ==
  pc[r] \in Active =>
    /\ pc[r] = "planned" => turn[r].prompt = "none"
    /\ turn[r].prompt = "append" =>
         ~Rebuilds(turn[r].plan) /\ turn[r].url = turn[r].stored.url
    /\ pc[r] # "sent" /\ turn[r].prompt # "append" => turn[r].url = NoUrl
    /\ pc[r] = "sent" => turn[r].url \in Urls

TurnInv == \A r \in Requests : TurnOf(r) /\ PromptOf(r)

IInv ==
  /\ TypeOK /\ QueueInv /\ JobInv /\ StoreInv /\ TurnInv
  /\ OneTurnPerConversation /\ OneConversationPerKey

LEMMA NoStoredIsNoRecord ==
  /\ NoStored \notin Record /\ NoStored.status # "in_flight" /\ NoStored.status # "clean"
  /\ PlanningError \notin Plan
BY DEF NoStored, Record, PlanningError, Plan, PlanModes

(* Two requests of the same key do not have their turn at the same time,   *)
(* nor do two that queued for the same anonymous Conversation.             *)
LEMMA HoldersDiffer ==
  ASSUME TypeOK, QueueInv, NEW r \in Requests, NEW s \in Requests,
         HasTurn(r) \/ Holds(r), HasTurn(s) \/ Holds(s),
         slot[r] # NoConv, slot[r] = slot[s]
  PROVE  r = s
<1>1. QueueTypes
  BY DEF TypeOK, QueueTypes
<1> QED
  BY <1>1, QueueHead

LEMMA CanonicalIsPlannable ==
  ASSUME NEW j \in Job, ValidRequest(j)
  PROVE  /\ PlannableRequest(CanonicalOf(j))
         /\ CanonicalOf(j).context = j.context /\ CanonicalOf(j).messages = j.messages
<1>1. j.messages \in Seq(Message) /\ j.messages # <<>>
  BY EngineAssumption DEF Job
<1>2. /\ CanonicalOf(j).messages = j.messages
      /\ CanonicalOf(j).context = j.context
  BY DEF CanonicalOf, CanonicalRequest
<1>3. j.messages[Len(j.messages)].role \in {"user", "tool"}
  BY DEF ValidRequest, ValidTranscript
<1> QED
  BY <1>1, <1>2, <1>3 DEF PlannableRequest

LEMMA ExistingType ==
  ASSUME TypeOK, JobInv, NEW r \in Requests, pc[r] = "queued", NEW c \in Existing(r)
  PROVE  /\ c \in Conversations /\ store[c] # NoStored /\ store[c].key = job[r].key
         /\ job[r].key = Anonymous => slot[r] = c /\ c \in Continuations(job[r])
<1>1. job[r] \in Job
  BY DEF JobInv
<1>2. CASE job[r].key # Anonymous
  BY <1>1, <1>2 DEF Existing, KeyOwners
<1>3. CASE job[r].key = Anonymous
  <2>1. c = slot[r] /\ c \in Continuations(job[r])
    BY <1>3 DEF Existing
  <2>2. c \in Conversations /\ store[c].status = "clean" /\ store[c].key = Anonymous
    BY <2>1 DEF Continuations
  <2> QED
    BY <1>3, <2>1, <2>2, NoStoredIsNoRecord
<1> QED
  BY <1>2, <1>3

(* The turn a request starts.                                              *)
LEMMA StartedTurn ==
  ASSUME TypeOK, JobInv, StoreInv, NEW r \in Requests, Start(r)
  PROVE  \E c \in Conversations, plan \in Plan, affinity \in Affinities :
           /\ turn' = [turn EXCEPT ![r] =
                [conv |-> c, stored |-> store[c], plan |-> plan,
                 prompt |-> "none", url |-> NoUrl, baseline |-> 0]]
           /\ plan = PlanContextSync(store[c], CanonicalOf(job[r]), affinity)
           /\ store[c] = NoStored => Rebuilds(plan)
           /\ c \in Existing(r) \/ (Existing(r) = {} /\ c \in FreshIds)
<1>1. /\ pc[r] = "queued" /\ ValidRequest(job[r])
      /\ \E c \in IF Existing(r) = {} THEN FreshIds ELSE Existing(r), affinity \in Affinities :
           /\ PlanContextSync(store[c], CanonicalOf(job[r]), affinity) # PlanningError
           /\ turn' = [turn EXCEPT ![r] =
                [conv |-> c, stored |-> store[c],
                 plan |-> PlanContextSync(store[c], CanonicalOf(job[r]), affinity),
                 prompt |-> "none", url |-> NoUrl, baseline |-> 0]]
  BY DEF Start
<1>2. PICK c \in IF Existing(r) = {} THEN FreshIds ELSE Existing(r), affinity \in Affinities :
           /\ PlanContextSync(store[c], CanonicalOf(job[r]), affinity) # PlanningError
           /\ turn' = [turn EXCEPT ![r] =
                [conv |-> c, stored |-> store[c],
                 plan |-> PlanContextSync(store[c], CanonicalOf(job[r]), affinity),
                 prompt |-> "none", url |-> NoUrl, baseline |-> 0]]
  BY <1>1
<1>3. c \in Existing(r) \/ (Existing(r) = {} /\ c \in FreshIds)
  BY <1>2
<1>4. c \in Conversations
  BY <1>1, <1>3, ExistingType DEF FreshIds
<1> DEFINE plan == PlanContextSync(store[c], CanonicalOf(job[r]), affinity)
<1>5. LoadedConversation(store[c])
  BY <1>4 DEF StoreInv
<1>6. PlannableRequest(CanonicalOf(job[r]))
  BY <1>1, CanonicalIsPlannable DEF JobInv
<1>7. plan \in Plan /\ (store[c] = NoStored => Rebuilds(plan))
  BY <1>2, <1>5, <1>6, PlanShape
<1> QED
  BY <1>2, <1>3, <1>4, <1>7

-----------------------------------------------------------------------------
(* Type correctness of each variable's update.                             *)
LEMMA MessageTypes ==
  /\ \A b \in Answers, C \in SUBSET CallIds : AssistantCalls(b, C) \in Message
  /\ \A j \in Job : InFlightRecord(j) \in Record
<1>1. \A b \in Answers, C \in SUBSET CallIds : AssistantCalls(b, C) \in Message
  BY EngineAssumption DEF AssistantCalls, Message, Roles
<1>2. \A j \in Job : InFlightRecord(j) \in Record
  BY EmptySeq DEF InFlightRecord, Record, Job
<1> QED
  BY <1>1, <1>2

(* Who leaves is idle, without job and turn.                               *)
LEMMA LeaveTypes ==
  ASSUME TypeOK, JobInv, NEW r \in Requests, Leave(r)
  PROVE  /\ job' \in [Requests -> Job \cup {NoJob}]
         /\ turn' \in [Requests -> Turn \cup {NoTurn}]
         /\ JobInv'
<1>1. /\ pc' = [pc EXCEPT ![r] = "idle"]
      /\ job' = [job EXCEPT ![r] = NoJob]
      /\ slot' = [slot EXCEPT ![r] = NoConv]
      /\ turn' = [turn EXCEPT ![r] = NoTurn]
  BY DEF Leave
<1> QED
  BY <1>1 DEF TypeOK, JobInv

LEMMA JobStep ==
  ASSUME TypeOK, JobInv, [Next]_vars
  PROVE  JobInv' /\ job' \in [Requests -> Job \cup {NoJob}]
<1>1. ASSUME NEW r \in Requests, Submit(r)
      PROVE  JobInv' /\ job' \in [Requests -> Job \cup {NoJob}]
  <2>1. PICK j \in Job :
          /\ job' = [job EXCEPT ![r] = j]
          /\ slot' = [slot EXCEPT ![r] = QueueKeyOf(j)]
    BY <1>1 DEF Submit
  <2>2. pc' = [pc EXCEPT ![r] = "queued"]
    BY <1>1 DEF Submit
  <2>3. /\ j.key # Anonymous => QueueKeyOf(j) = j.key
        /\ j.key = Anonymous => QueueKeyOf(j) \in Conversations \cup {NoConv}
    BY QueueKeyType
  <2> QED
    BY <2>1, <2>2, <2>3 DEF TypeOK, JobInv
<1>2. ASSUME NEW r \in Requests, Refuse(r) \/ Respond(r) \/ Fail(r)
      PROVE  JobInv' /\ job' \in [Requests -> Job \cup {NoJob}]
  BY <1>2, LeaveTypes DEF Refuse, Respond, Fail
<1>3. ASSUME NEW r \in Requests,
             Start(r) \/ PreparePage(r) \/ Checkpoint(r) \/ Send(r) \/ Complete(r)
      PROVE  JobInv' /\ job' \in [Requests -> Job \cup {NoJob}]
  <2>1. /\ job' = job /\ slot' = slot /\ pc[r] # "idle"
        /\ \E p \in Phases : pc' = [pc EXCEPT ![r] = p]
    BY <1>3 DEF Start, PreparePage, Checkpoint, Send, Complete, runVars, Phases, Active
  <2>2. \A x \in Requests : pc'[x] # "idle" => pc[x] # "idle"
    BY <2>1 DEF TypeOK
  <2> QED
    BY <2>1, <2>2 DEF TypeOK, JobInv
<1>4. ASSUME NEW u \in Urls, WebAnswer(u)
      PROVE  JobInv' /\ job' \in [Requests -> Job \cup {NoJob}]
  BY <1>4 DEF WebAnswer, runVars, TypeOK, JobInv
<1>5. ASSUME Crash PROVE JobInv' /\ job' \in [Requests -> Job \cup {NoJob}]
  BY <1>5 DEF Crash, JobInv
<1>6. ASSUME UNCHANGED vars PROVE JobInv' /\ job' \in [Requests -> Job \cup {NoJob}]
  BY <1>6 DEF vars, TypeOK, JobInv
<1> QED
  BY <1>1, <1>2, <1>3, <1>4, <1>5, <1>6 DEF Next, Step

(* What a turn is to save.                                                 *)
LEMMA PlannedTurn ==
  ASSUME TypeOK, JobInv, StoreInv, TurnInv, NEW r \in Requests, pc[r] \in Active
  PROVE  /\ turn[r] \in Turn /\ turn[r].conv \in Conversations
         /\ turn[r].plan \in Plan /\ turn[r].url \in Urls \cup {NoUrl}
         /\ turn[r].stored \in Record \cup {NoStored}
         /\ store[turn[r].conv] \in Record \cup {NoStored}
         /\ job[r] \in Job
<1>1. turn[r] \in Turn
  BY DEF TurnInv, TurnOf
<1>2. pc[r] # "idle"
  BY DEF Active
<1> QED
  BY <1>1, <1>2 DEF Turn, TypeOK, JobInv

(* The transcript a turn is to save and the prompts that lead to it, from  *)
(* the planner's theorem.                                                  *)
LEMMA PlannedTranscript ==
  ASSUME TypeOK, JobInv, StoreInv, TurnInv, NEW r \in Requests, pc[r] \in Active
  PROVE  /\ Authoritative(r) \in Seq(Message) /\ PromptHistory(r) \in Seq(Message)
         /\ turn[r].plan.pending \in Seq(Message)
         /\ PromptHistory(r) \o turn[r].plan.pending = Authoritative(r)
         /\ ~Rebuilds(turn[r].plan) =>
              /\ turn[r].stored \in Record /\ turn[r].stored.status = "clean"
              /\ turn[r].stored.url \in Urls
              /\ turn[r].stored.messages \o turn[r].plan.pending = Authoritative(r)
<1>1. /\ ValidRequest(job[r]) /\ LoadedConversation(turn[r].stored)
      /\ \E affinity \in Affinities :
           turn[r].plan = PlanContextSync(turn[r].stored, CanonicalOf(job[r]), affinity)
  BY DEF TurnInv, TurnOf
<1>2. PICK affinity \in Affinities :
        turn[r].plan = PlanContextSync(turn[r].stored, CanonicalOf(job[r]), affinity)
  BY <1>1
<1>3. job[r] \in Job /\ turn[r].plan \in Plan /\ turn[r].stored \in Record \cup {NoStored}
  BY PlannedTurn
<1>4. turn[r].plan # PlanningError /\ turn[r].plan.pending \in Seq(Message)
  BY <1>3, NoStoredIsNoRecord DEF Plan
<1>5. PlannableRequest(CanonicalOf(job[r]))
  BY <1>1, <1>3, CanonicalIsPlannable
<1> DEFINE stored == turn[r].stored
           request == CanonicalOf(job[r])
           plan == turn[r].plan
<1>6. /\ AuthoritativeMessages(stored, request, plan) \in Seq(Message)
      /\ ContextHistory(stored, request, plan) \in Seq(Message)
      /\ ContextHistory(stored, request, plan) \o plan.pending
           = AuthoritativeMessages(stored, request, plan)
      /\ ~Rebuilds(plan) =>
           /\ stored # NoStored /\ stored.status # "in_flight" /\ stored.url # NoUrl
           /\ stored.messages \o plan.pending = AuthoritativeMessages(stored, request, plan)
  <2> HIDE DEF stored, request, plan
  <2>1. LoadedConversation(stored) /\ PlannableRequest(request)
        /\ plan = PlanContextSync(stored, request, affinity) /\ plan # PlanningError
    BY <1>1, <1>2, <1>4, <1>5 DEF stored, request, plan
  <2> QED
    BY <2>1, PromptsReachAuthoritative
<1>7. ~Rebuilds(plan) => stored \in Record /\ stored.status = "clean" /\ stored.url \in Urls
  BY <1>3, <1>6 DEF Record
<1> QED
  BY <1>4, <1>6, <1>7 DEF Authoritative, PromptHistory

(* What marking a Conversation writes.                                     *)
LEMMA CheckpointRecord ==
  ASSUME TypeOK, JobInv, StoreInv, TurnInv, NEW r \in Requests, Checkpoint(r),
         NEW c, c = turn[r].conv
  PROVE  /\ c \in Conversations
         /\ store' = [store EXCEPT ![c] = store'[c]]
         /\ store'[c] \in Record /\ LoadedConversation(store'[c])
         /\ store'[c].status = "in_flight" /\ store'[c].key = job[r].key
         /\ store[c] # NoStored => store'[c].url = store[c].url
         /\ store[c] = NoStored => store'[c].url = NoUrl
<1>1. /\ pc[r] = "ready" /\ pc[r] \in Active
      /\ store' = [store EXCEPT ![c] =
           IF turn[r].stored = NoStored THEN InFlightRecord(job[r])
           ELSE [store[c] EXCEPT !.status = "in_flight"]]
  BY DEF Checkpoint, Active
<1>2. /\ c \in Conversations /\ store[c] \in Record \cup {NoStored} /\ job[r] \in Job
      /\ store \in [Conversations -> Record \cup {NoStored}]
  BY <1>1, PlannedTurn DEF TypeOK
<1>3. /\ turn[r].stored = store[c]
      /\ store[c] # NoStored => store[c].key = job[r].key
      /\ LoadedConversation(store[c])
  BY <1>1, <1>2 DEF TurnInv, TurnOf, StoreInv
<1>4. CASE store[c] = NoStored
  <2>1. store' = [store EXCEPT ![c] = InFlightRecord(job[r])]
    BY <1>1, <1>3, <1>4
  <2>2. store'[c] = InFlightRecord(job[r])
    BY <1>2, <2>1
  <2>3. LoadedConversation(InFlightRecord(job[r]))
    BY EmptySeq DEF InFlightRecord, LoadedConversation
  <2>4. /\ InFlightRecord(job[r]) \in Record
        /\ InFlightRecord(job[r]).status = "in_flight"
        /\ InFlightRecord(job[r]).key = job[r].key
        /\ InFlightRecord(job[r]).url = NoUrl
    BY <1>2, MessageTypes DEF InFlightRecord
  <2> QED
    BY <1>2, <1>4, <2>1, <2>2, <2>3, <2>4
<1>5. CASE store[c] # NoStored
  <2> DEFINE new == [store[c] EXCEPT !.status = "in_flight"]
  <2>1. store' = [store EXCEPT ![c] = new] /\ store[c] \in Record
    BY <1>1, <1>2, <1>3, <1>5
  <2>2. /\ new \in Record /\ new.status = "in_flight" /\ new.key = store[c].key
        /\ new.url = store[c].url /\ new.messages = store[c].messages
        /\ new.synced = store[c].synced
    BY <2>1 DEF Record
  <2>3. LoadedConversation(new)
    BY <1>3, <1>5, <2>2 DEF LoadedConversation
  <2> HIDE DEF new
  <2>4. store'[c] = new
    BY <1>2, <2>1
  <2> QED
    BY <1>2, <1>3, <1>5, <2>1, <2>2, <2>3, <2>4
<1> QED
  BY <1>4, <1>5

(* What completing a turn writes.                                          *)
LEMMA CompleteRecord ==
  ASSUME TypeOK, JobInv, StoreInv, TurnInv, NEW r \in Requests, Complete(r),
         NEW c, c = turn[r].conv
  PROVE  /\ c \in Conversations /\ turn[r].url \in Urls
         /\ store[c] \in Record
         /\ store' = [store EXCEPT ![c] = store'[c]]
         /\ store'[c] \in Record /\ LoadedConversation(store'[c])
         /\ store'[c].status = "clean" /\ store'[c].key = job[r].key
         /\ store'[c].url = turn[r].url
         /\ store'[c].messages = Final(r) /\ store'[c].synced = Len(Final(r))
<1>1. /\ pc[r] = "sent" /\ pc[r] \in Active
      /\ Len(web[turn[r].url]) > turn[r].baseline
      /\ store' = [store EXCEPT ![c] =
           [key |-> store[c].key, context |-> job[r].context, messages |-> Final(r),
            url |-> turn[r].url, status |-> "clean", synced |-> Len(Final(r))]]
  BY DEF Complete, Active
<1>2. /\ c \in Conversations /\ store[c] \in Record \cup {NoStored} /\ job[r] \in Job
      /\ store \in [Conversations -> Record \cup {NoStored}] /\ turn[r] \in Turn
  BY <1>1, PlannedTurn DEF TypeOK
<1>3. /\ turn[r].url \in Urls /\ turn[r].baseline \in Nat
      /\ store[c].status = "in_flight"
      /\ store[c] # NoStored => store[c].key = job[r].key
  BY <1>1, <1>2 DEF TurnInv, TurnOf, PromptOf, Turn
<1>4. store[c] \in Record /\ store[c].key = job[r].key
  BY <1>2, <1>3, NoStoredIsNoRecord
<1>5. web[turn[r].url][turn[r].baseline + 1] \in Message
  <2>1. web[turn[r].url] \in Seq(Message)
    BY <1>3 DEF TypeOK
  <2>2. Len(web[turn[r].url]) \in Nat
    BY <2>1, LenProperties
  <2>3. turn[r].baseline + 1 \in 1..Len(web[turn[r].url])
    BY <1>1, <1>3, <2>2
  <2> QED
    BY <2>1, <2>3, ElementOfSeq
<1>6. Authoritative(r) \in Seq(Message)
  BY <1>1, PlannedTranscript
<1>7. Final(r) \in Seq(Message) /\ Len(Final(r)) \in Nat
  BY <1>5, <1>6, AppendProperties, LenProperties DEF Final
<1> DEFINE new == [key |-> store[c].key, context |-> job[r].context, messages |-> Final(r),
                   url |-> turn[r].url, status |-> "clean", synced |-> Len(Final(r))]
<1>8. new \in Record /\ LoadedConversation(new)
  BY <1>2, <1>3, <1>4, <1>7 DEF Record, Job, LoadedConversation
<1>9. /\ new.status = "clean" /\ new.key = job[r].key /\ new.url = turn[r].url
      /\ new.messages = Final(r) /\ new.synced = Len(Final(r))
  BY <1>4
<1> HIDE DEF new
<1>10. store' = [store EXCEPT ![c] = new]
  BY <1>1 DEF new
<1>11. store'[c] = new
  BY <1>2, <1>10
<1> QED
  BY <1>2, <1>3, <1>4, <1>8, <1>9, <1>10, <1>11

-----------------------------------------------------------------------------
(* A step of one turn that writes to the store leaves the other turns      *)
(* alone, and makes no second Conversation for anyone's key.               *)
LEMMA WritesApart ==
  ASSUME IInv, NEW s \in Requests, Checkpoint(s) \/ Complete(s),
         NEW r \in Requests, r # s, pc[r] \in Active
  PROVE  /\ turn[r].conv # turn[s].conv
         /\ store'[turn[r].conv] = store[turn[r].conv]
         /\ \A c \in Conversations :
              store'[c] # NoStored /\ store'[c].key = job[r].key /\ job[r].key # Anonymous =>
                store[c] # NoStored /\ store[c].key = job[r].key
<1> DEFINE d == turn[s].conv
<1>1. pc[s] \in Active /\ Holds(s) /\ Holds(r)
  BY DEF Checkpoint, Complete, Active, Holds
<1>2. turn[r].conv # d /\ turn[r].conv \in Conversations
  BY <1>1, PlannedTurn DEF IInv, OneTurnPerConversation
<1>3. /\ d \in Conversations /\ store' = [store EXCEPT ![d] = store'[d]]
      /\ store'[d].key = job[s].key
      /\ store[d] \in Record \/ turn[s].stored = NoStored
  <2>1. CASE Checkpoint(s)
    <3>1. pc[s] = "ready" /\ store[d] \in Record \cup {NoStored}
      BY <1>1, <2>1, PlannedTurn DEF Checkpoint, IInv
    <3>2. turn[s].stored = store[d]
      BY <1>1, <3>1 DEF IInv, TurnInv, TurnOf
    <3> QED
      BY <2>1, <3>1, <3>2, CheckpointRecord DEF IInv
  <2>2. CASE Complete(s)
    BY <2>2, CompleteRecord DEF IInv
  <2> QED
    BY <2>1, <2>2
<1> HIDE DEF d
<1>4. \A c \in Conversations \ {d} : store'[c] = store[c]
  BY <1>3 DEF IInv, TypeOK
<1>5. ASSUME store'[d].key = job[r].key, job[r].key # Anonymous
      PROVE  store[d] # NoStored /\ store[d].key = job[r].key
  <2>1. /\ slot[r] = job[r].key /\ slot[s] = job[s].key /\ job[s].key # Anonymous
        /\ slot[r] # NoConv
    <3>1. pc[r] # "idle" /\ pc[s] # "idle"
      BY <1>1 DEF Active
    <3>2. job[r] \in Job
      BY <3>1 DEF IInv, JobInv
    <3>3. job[r].key \in Keys
      BY <1>5, <3>2 DEF Job
    <3> QED
      BY <1>3, <1>5, <3>1, <3>3, EngineAssumption DEF IInv, JobInv
  <2>2. r = s
    BY <1>1, <1>3, <1>5, <2>1, HoldersDiffer DEF IInv
  <2> QED
    BY <2>2
<1> QED
  BY <1>2, <1>4, <1>5 DEF d

LEMMA StoreStep ==
  ASSUME IInv, [Next]_vars
  PROVE  StoreInv' /\ store' \in [Conversations -> Record \cup {NoStored}]
<1>1. CASE store' = store
  BY <1>1 DEF IInv, TypeOK, StoreInv
<1>2. ASSUME NEW r \in Requests, Checkpoint(r) \/ Complete(r)
      PROVE  StoreInv' /\ store' \in [Conversations -> Record \cup {NoStored}]
  <2> DEFINE c == turn[r].conv
  <2>1. /\ c \in Conversations /\ store' = [store EXCEPT ![c] = store'[c]]
        /\ store'[c] \in Record /\ LoadedConversation(store'[c])
    BY <1>2, CheckpointRecord, CompleteRecord DEF IInv
  <2> HIDE DEF c
  <2>2. /\ store' \in [Conversations -> Record \cup {NoStored}]
        /\ \A d \in Conversations \ {c} : store'[d] = store[d]
    BY <2>1 DEF IInv, TypeOK
  <2>3. \A d \in Conversations : LoadedConversation(store'[d])
    BY <2>1, <2>2 DEF IInv, StoreInv
  <2> QED
    BY <2>2, <2>3 DEF StoreInv
<1>3. store' = store \/ \E r \in Requests : Checkpoint(r) \/ Complete(r)
  BY DEF Next, Step, Submit, Start, Refuse, PreparePage, Send, WebAnswer, Respond, Fail, Crash, vars
<1> QED
  BY <1>1, <1>2, <1>3

LEMMA KeyStep ==
  ASSUME IInv, [Next]_vars
  PROVE  OneConversationPerKey'
<1>1. CASE store' = store
  BY <1>1 DEF IInv, OneConversationPerKey, KeyOwners
<1>2. ASSUME NEW r \in Requests, Checkpoint(r) \/ Complete(r)
      PROVE  OneConversationPerKey'
  <2> DEFINE d == turn[r].conv
  <2>1. /\ d \in Conversations /\ store' = [store EXCEPT ![d] = store'[d]]
        /\ store'[d].key = job[r].key
    BY <1>2, CheckpointRecord, CompleteRecord DEF IInv
  <2>2. \A c \in Conversations \ {d} : store'[c] = store[c]
    BY <2>1 DEF IInv, TypeOK
  <2>3. job[r].key # Anonymous =>
          \/ store[d] # NoStored /\ store[d].key = job[r].key
          \/ \A c \in Conversations : store[c] # NoStored => store[c].key # job[r].key
    <3>1. pc[r] \in Active
      BY <1>2 DEF Checkpoint, Complete, Active
    <3>2. CASE Checkpoint(r)
      BY <3>1, <3>2 DEF Checkpoint, IInv, TurnInv, TurnOf
    <3>3. CASE Complete(r)
      <4>1. store[d] \in Record
        BY <3>3, CompleteRecord DEF IInv
      <4> QED
        BY <3>1, <4>1, NoStoredIsNoRecord DEF IInv, TurnInv, TurnOf
    <3> QED
      BY <1>2, <3>2, <3>3
  <2> HIDE DEF d
  <2> SUFFICES ASSUME NEW k \in Keys, NEW a \in KeyOwners(k)', NEW b \in KeyOwners(k)'
               PROVE  a = b
    BY DEF OneConversationPerKey
  <2>4. /\ a \in Conversations /\ store'[a] # NoStored /\ store'[a].key = k
        /\ b \in Conversations /\ store'[b] # NoStored /\ store'[b].key = k
    BY DEF KeyOwners
  <2>5. \A x, y \in Conversations :
          store[x] # NoStored /\ store[x].key = k /\ store[y] # NoStored /\ store[y].key = k =>
            x = y
    BY DEF IInv, OneConversationPerKey, KeyOwners
  <2>6. CASE job[r].key # k
    BY <2>1, <2>2, <2>4, <2>5, <2>6
  <2>7. CASE job[r].key = k
    <3>1. k # Anonymous
      BY EngineAssumption
    <3> QED
      BY <2>1, <2>2, <2>3, <2>4, <2>5, <2>7, <3>1
  <2> QED
    BY <2>6, <2>7
<1>3. store' = store \/ \E r \in Requests : Checkpoint(r) \/ Complete(r)
  BY DEF Next, Step, Submit, Start, Refuse, PreparePage, Send, WebAnswer, Respond, Fail, Crash, vars
<1> QED
  BY <1>1, <1>2, <1>3

(* A turn goes on as it was while nobody touches its Conversation or makes *)
(* another one with its key.                                               *)
LEMMA TurnFrame ==
  ASSUME NEW r \in Requests, TurnOf(r),
         pc'[r] = pc[r], job'[r] = job[r], slot'[r] = slot[r], turn'[r] = turn[r],
         store'[turn[r].conv] = store[turn[r].conv],
         \A c \in Conversations :
           store'[c] # NoStored /\ store'[c].key = job[r].key /\ job[r].key # Anonymous =>
             store[c] # NoStored /\ store[c].key = job[r].key
  PROVE  TurnOf(r)'
BY DEF TurnOf

(* The fields a step sets in a turn, and the ones it keeps.                *)
LEMMA FreshFields ==
  ASSUME NEW t \in Turn, NEW v, v = [t EXCEPT !.prompt = "context"]
  PROVE  /\ v \in Turn /\ v.conv = t.conv /\ v.stored = t.stored
         /\ v.plan = t.plan /\ v.prompt = "context" /\ v.url = t.url
BY DEF Turn

(* Steps that change one turn and nothing it or another one relies on.     *)
LEMMA TurnStep ==
  ASSUME IInv, [Next]_vars
  PROVE  /\ TurnInv'
         /\ turn' \in [Requests -> Turn \cup {NoTurn}]
<1>0. /\ turn \in [Requests -> Turn \cup {NoTurn}]
      /\ \A r \in Requests : TurnOf(r) /\ PromptOf(r)
      /\ pc \in [Requests -> Phases]
      /\ job \in [Requests -> Job \cup {NoJob}]
      /\ slot \in [Requests -> QueueKeys \cup {NoConv}]
  BY DEF IInv, TypeOK, TurnInv
<1>1. ASSUME NEW r \in Requests, Submit(r)
      PROVE  TurnInv' /\ turn' \in [Requests -> Turn \cup {NoTurn}]
  <2>1. /\ pc[r] = "idle" /\ pc' = [pc EXCEPT ![r] = "queued"] /\ "queued" \notin Active
        /\ turn' = turn /\ store' = store
        /\ \A x \in Requests \ {r} : job'[x] = job[x] /\ slot'[x] = slot[x]
    BY <1>0, <1>1 DEF Submit, Active
  <2>2. ASSUME NEW x \in Requests PROVE TurnOf(x)' /\ PromptOf(x)'
    <3>1. CASE x = r
      BY <1>0, <2>1, <3>1 DEF TurnOf, PromptOf
    <3>2. CASE x # r
      BY <1>0, <2>1, <3>2, TurnFrame DEF TurnOf, PromptOf
    <3> QED
      BY <3>1, <3>2
  <2> QED
    BY <1>0, <2>1, <2>2 DEF TurnInv
<1>2. ASSUME NEW r \in Requests, Start(r)
      PROVE  TurnInv' /\ turn' \in [Requests -> Turn \cup {NoTurn}]
  <2>1. PICK c \in Conversations, plan \in Plan, affinity \in Affinities :
          /\ turn' = [turn EXCEPT ![r] =
               [conv |-> c, stored |-> store[c], plan |-> plan,
                prompt |-> "none", url |-> NoUrl, baseline |-> 0]]
          /\ plan = PlanContextSync(store[c], CanonicalOf(job[r]), affinity)
          /\ store[c] = NoStored => Rebuilds(plan)
          /\ c \in Existing(r) \/ (Existing(r) = {} /\ c \in FreshIds)
    BY <1>2, StartedTurn DEF IInv
  <2> DEFINE new == [conv |-> c, stored |-> store[c], plan |-> plan,
                     prompt |-> "none", url |-> NoUrl, baseline |-> 0]
  <2>2. /\ pc[r] = "queued" /\ ValidRequest(job[r]) /\ pc' = [pc EXCEPT ![r] = "planned"]
        /\ job' = job /\ slot' = slot /\ store' = store
    BY <1>2 DEF Start, runVars
  <2>3. store[c] \in Record \cup {NoStored} /\ LoadedConversation(store[c])
    BY DEF IInv, TypeOK, StoreInv
  <2>4. /\ new \in Turn
        /\ new.conv = c /\ new.stored = store[c] /\ new.plan = plan
        /\ new.prompt = "none" /\ new.url = NoUrl
    BY <2>3 DEF Turn
  <2> HIDE DEF new
  <2>5. turn' = [turn EXCEPT ![r] = new] /\ turn'[r] = new /\ pc'[r] = "planned"
    BY <1>0, <2>1, <2>2 DEF new
  <2>6. /\ store[c] # NoStored => store[c].key = job[r].key
        /\ store[c] # NoStored /\ job[r].key = Anonymous => slot[r] = c
        /\ store[c] = NoStored /\ job[r].key # Anonymous =>
             \A d \in Conversations : store[d] # NoStored => store[d].key # job[r].key
    <3>1. CASE c \in Existing(r)
      BY <2>2, <3>1, ExistingType DEF IInv
    <3>2. CASE Existing(r) = {} /\ c \in FreshIds
      BY <3>2 DEF FreshIds, Existing, KeyOwners
    <3> QED
      BY <2>1, <3>1, <3>2
  <2>7. TurnOf(r)' /\ PromptOf(r)'
    BY <2>1, <2>2, <2>3, <2>4, <2>5, <2>6 DEF TurnOf, PromptOf
  <2>8. ASSUME NEW x \in Requests \ {r} PROVE TurnOf(x)' /\ PromptOf(x)'
    BY <1>0, <2>2, <2>5, TurnFrame DEF TurnOf, PromptOf
  <2> QED
    BY <1>0, <2>4, <2>5, <2>7, <2>8 DEF TurnInv
<1>3. ASSUME NEW r \in Requests, Refuse(r) \/ Respond(r) \/ Fail(r)
      PROVE  TurnInv' /\ turn' \in [Requests -> Turn \cup {NoTurn}]
  <2>1. Leave(r) /\ store' = store
    BY <1>3 DEF Refuse, Respond, Fail
  <2>2. /\ pc' = [pc EXCEPT ![r] = "idle"] /\ "idle" \notin Active
        /\ \A x \in Requests \ {r} :
             turn'[x] = turn[x] /\ job'[x] = job[x] /\ slot'[x] = slot[x]
    BY <1>0, <2>1 DEF Leave, Active
  <2>3. ASSUME NEW x \in Requests PROVE TurnOf(x)' /\ PromptOf(x)'
    <3>1. CASE x = r
      BY <1>0, <2>2, <3>1 DEF TurnOf, PromptOf
    <3>2. CASE x # r
      BY <1>0, <2>1, <2>2, <3>2, TurnFrame DEF TurnOf, PromptOf
    <3> QED
      BY <3>1, <3>2
  <2> QED
    BY <2>1, <2>3, LeaveTypes DEF IInv, TurnInv
<1>4. ASSUME NEW r \in Requests, PreparePage(r)
      PROVE  TurnInv' /\ turn' \in [Requests -> Turn \cup {NoTurn}]
  <2>1. /\ pc[r] = "planned" /\ pc[r] \in Active /\ pc' = [pc EXCEPT ![r] = "ready"]
        /\ job' = job /\ slot' = slot /\ store' = store
        /\ \/ turn' = [turn EXCEPT ![r].prompt = "context"]
           \/ /\ ~Rebuilds(turn[r].plan)
              /\ turn' = [turn EXCEPT ![r].prompt = "append", ![r].url = turn[r].stored.url]
    BY <1>4 DEF PreparePage, runVars, Active
  <2>2. turn[r] \in Turn /\ turn[r].url = NoUrl /\ turn[r].prompt = "none"
    BY <1>0, <2>1 DEF TurnOf, PromptOf
  <2>3. ~Rebuilds(turn[r].plan) => turn[r].stored.url \in Urls
    BY <2>1, PlannedTranscript DEF IInv
  <2>4. /\ turn'[r] \in Turn
        /\ turn'[r].conv = turn[r].conv /\ turn'[r].stored = turn[r].stored
        /\ turn'[r].plan = turn[r].plan
        /\ \/ turn'[r].prompt = "context" /\ turn'[r].url = NoUrl
           \/ /\ ~Rebuilds(turn[r].plan)
              /\ turn'[r].prompt = "append" /\ turn'[r].url = turn[r].stored.url
        /\ turn' = [turn EXCEPT ![r] = turn'[r]]
    <3>1. CASE turn' = [turn EXCEPT ![r].prompt = "context"]
      <4>1. turn'[r] = [turn[r] EXCEPT !.prompt = "context"]
        BY <1>0, <3>1
      <4>2. turn' = [turn EXCEPT ![r] = turn'[r]]
        BY <1>0, <3>1, <4>1
      <4> QED
        BY <2>2, <4>1, <4>2, FreshFields, SMTT(30)
    <3>2. CASE ~Rebuilds(turn[r].plan)
               /\ turn' = [turn EXCEPT ![r].prompt = "append", ![r].url = turn[r].stored.url]
      <4>1. turn'[r] = [turn[r] EXCEPT !.prompt = "append", !.url = turn[r].stored.url]
        BY <1>0, <3>2
      <4>2. turn' = [turn EXCEPT ![r] = turn'[r]]
        BY <1>0, <3>2, <4>1
      <4> DEFINE t == turn[r]
                 v == turn'[r]
                 u == turn[r].stored.url
      <4>3. t \in Turn /\ u \in Urls /\ v = [t EXCEPT !.prompt = "append", !.url = u]
        BY <2>2, <2>3, <3>2, <4>1
      <4> HIDE DEF t, v, u
      <4>4. /\ v \in Turn /\ v.conv = t.conv /\ v.stored = t.stored
            /\ v.plan = t.plan /\ v.prompt = "append" /\ v.url = u
        BY <4>3 DEF Turn
      <4> QED
        BY <3>2, <4>2, <4>4 DEF t, v, u
    <3> QED
      BY <2>1, <3>1, <3>2
  <2>5. TurnOf(r)' /\ PromptOf(r)'
    BY <1>0, <2>1, <2>4 DEF TurnOf, PromptOf
  <2>6. ASSUME NEW x \in Requests \ {r} PROVE TurnOf(x)' /\ PromptOf(x)'
    BY <1>0, <2>1, <2>4, TurnFrame DEF TurnOf, PromptOf
  <2> QED
    BY <1>0, <2>4, <2>5, <2>6 DEF TurnInv
<1>5. ASSUME NEW r \in Requests, Checkpoint(r)
      PROVE  TurnInv' /\ turn' \in [Requests -> Turn \cup {NoTurn}]
  <2>1. /\ pc[r] = "ready" /\ pc[r] \in Active /\ pc' = [pc EXCEPT ![r] = "checkpointed"]
        /\ job' = job /\ slot' = slot /\ turn' = turn
    BY <1>5 DEF Checkpoint, runVars, Active
  <2> DEFINE c == turn[r].conv
  <2>2. /\ c \in Conversations
        /\ store'[c] \in Record
        /\ store'[c].status = "in_flight" /\ store'[c].key = job[r].key
        /\ store[c] # NoStored => store'[c].url = store[c].url
    BY <1>5, CheckpointRecord DEF IInv
  <2>3. TurnOf(r)' /\ PromptOf(r)'
    BY <1>0, <2>1, <2>2, NoStoredIsNoRecord DEF TurnOf, PromptOf
  <2>4. ASSUME NEW x \in Requests \ {r} PROVE TurnOf(x)' /\ PromptOf(x)'
    <3>1. pc[x] \in Active => TurnOf(x)'
      BY <1>0, <1>5, <2>1, WritesApart, TurnFrame
    <3>2. pc'[x] = pc[x]
      BY <1>0, <2>1
    <3> QED
      BY <1>0, <2>1, <3>1, <3>2 DEF TurnOf, PromptOf
  <2> QED
    BY <1>0, <2>1, <2>3, <2>4 DEF TurnInv
<1>6. ASSUME NEW r \in Requests, Send(r)
      PROVE  TurnInv' /\ turn' \in [Requests -> Turn \cup {NoTurn}]
  <2>1. /\ pc[r] = "checkpointed" /\ pc[r] \in Active /\ pc' = [pc EXCEPT ![r] = "sent"]
        /\ job' = job /\ slot' = slot /\ store' = store
    BY <1>6 DEF Send, runVars, Active
  <2>2. PICK u \in Urls :
          /\ turn[r].prompt = "append" => u = turn[r].url
          /\ turn' = [turn EXCEPT ![r].url = u, ![r].baseline = Len(Prompted(r, u))]
    BY <1>6 DEF Send
  <2>3. turn[r] \in Turn
    BY <1>0, <2>1 DEF TurnOf
  <2>4. Prompted(r, u) \in Seq(Message)
    <3>1. turn[r].plan.pending \in Seq(Message) /\ PromptHistory(r) \in Seq(Message)
      BY <2>1, PlannedTranscript DEF IInv
    <3>2. web[u] \in Seq(Message)
      BY DEF IInv, TypeOK
    <3> QED
      BY <3>1, <3>2, ConcatProperties DEF Prompted
  <2>5. Len(Prompted(r, u)) \in Nat
    BY <2>4, LenProperties
  <2> DEFINE n == Len(Prompted(r, u))
  <2> HIDE DEF n
  <2>6. turn' = [turn EXCEPT ![r].url = u, ![r].baseline = n] /\ n \in Nat
    BY <2>2, <2>5 DEF n
  <2>7. turn'[r] = [turn[r] EXCEPT !.url = u, !.baseline = n]
    BY <1>0, <2>6
  <2>8. turn' = [turn EXCEPT ![r] = turn'[r]]
    BY <1>0, <2>6, <2>7
  <2>9. /\ turn'[r] \in Turn
        /\ turn'[r].conv = turn[r].conv /\ turn'[r].stored = turn[r].stored
        /\ turn'[r].plan = turn[r].plan /\ turn'[r].prompt = turn[r].prompt
        /\ turn'[r].url = u
    <3> DEFINE t == turn[r]
               v == turn'[r]
    <3>1. t \in Turn /\ v = [t EXCEPT !.url = u, !.baseline = n]
      BY <2>3, <2>7
    <3> HIDE DEF t, v
    <3>2. /\ v \in Turn /\ v.conv = t.conv /\ v.stored = t.stored
          /\ v.plan = t.plan /\ v.prompt = t.prompt /\ v.url = u
      BY <2>6, <3>1 DEF Turn
    <3> QED
      BY <3>2 DEF t, v
  <2>10. TurnOf(r)' /\ PromptOf(r)'
    BY <1>0, <2>1, <2>2, <2>9 DEF TurnOf, PromptOf
  <2>11. ASSUME NEW x \in Requests \ {r} PROVE TurnOf(x)' /\ PromptOf(x)'
    BY <1>0, <2>1, <2>8, TurnFrame DEF TurnOf, PromptOf
  <2> QED
    BY <1>0, <2>8, <2>9, <2>10, <2>11 DEF TurnInv
<1>7. ASSUME NEW r \in Requests, Complete(r)
      PROVE  TurnInv' /\ turn' \in [Requests -> Turn \cup {NoTurn}]
  <2>1. /\ pc' = [pc EXCEPT ![r] = "committed"] /\ "committed" \notin Active
        /\ job' = job /\ slot' = slot /\ turn' = turn
    BY <1>7 DEF Complete, runVars, Active
  <2>2. TurnOf(r)' /\ PromptOf(r)'
    BY <1>0, <2>1 DEF TurnOf, PromptOf
  <2>3. ASSUME NEW x \in Requests \ {r} PROVE TurnOf(x)' /\ PromptOf(x)'
    <3>1. pc[x] \in Active => TurnOf(x)'
      BY <1>0, <1>7, <2>1, WritesApart, TurnFrame
    <3>2. pc'[x] = pc[x]
      BY <1>0, <2>1
    <3> QED
      BY <1>0, <2>1, <3>1, <3>2 DEF TurnOf, PromptOf
  <2> QED
    BY <1>0, <2>1, <2>2, <2>3 DEF TurnInv
<1>8. CASE UNCHANGED <<store, pc, turn, job, slot>>
  BY <1>0, <1>8 DEF TurnInv, TurnOf, PromptOf
<1>9. CASE Crash
  <2>1. /\ pc' = [r \in Requests |-> "idle"] /\ "idle" \notin Active
        /\ turn' = [r \in Requests |-> NoTurn]
    BY <1>9 DEF Crash, Active
  <2> QED
    BY <2>1 DEF TurnInv, TurnOf, PromptOf
<1>10. (\E u \in Urls : WebAnswer(u)) \/ UNCHANGED vars => UNCHANGED <<store, pc, turn, job, slot>>
  BY DEF WebAnswer, runVars, vars
<1> QED
  BY <1>1, <1>2, <1>3, <1>4, <1>5, <1>6, <1>7, <1>8, <1>9, <1>10 DEF Next, Step

(* Only a Start gives a request its turn, and a turn keeps its             *)
(* Conversation.                                                           *)
LEMMA TurnsKeepConversations ==
  ASSUME IInv, [Next]_vars, ~\E r \in Requests : Start(r)
  PROVE  \A x \in Requests :
           pc'[x] \in Active => pc[x] \in Active /\ turn'[x].conv = turn[x].conv
<1>0. /\ pc \in [Requests -> Phases] /\ turn \in [Requests -> Turn \cup {NoTurn}]
      /\ "queued" \notin Active /\ "idle" \notin Active /\ "committed" \notin Active
  BY DEF IInv, TypeOK, Active
<1>2. ASSUME NEW r \in Requests, Submit(r) \/ Complete(r)
      PROVE  \A x \in Requests :
               pc'[x] \in Active => pc[x] \in Active /\ turn'[x].conv = turn[x].conv
  BY <1>0, <1>2 DEF Submit, Complete
<1>3. ASSUME NEW r \in Requests, Refuse(r) \/ Respond(r) \/ Fail(r)
      PROVE  \A x \in Requests :
               pc'[x] \in Active => pc[x] \in Active /\ turn'[x].conv = turn[x].conv
  BY <1>0, <1>3 DEF Refuse, Respond, Fail, Leave
<1>4. ASSUME NEW r \in Requests, Checkpoint(r)
      PROVE  \A x \in Requests :
               pc'[x] \in Active => pc[x] \in Active /\ turn'[x].conv = turn[x].conv
  BY <1>0, <1>4 DEF Checkpoint, Active
<1>5. ASSUME NEW r \in Requests, PreparePage(r) \/ Send(r)
      PROVE  \A x \in Requests :
               pc'[x] \in Active => pc[x] \in Active /\ turn'[x].conv = turn[x].conv
  <2>1. /\ pc[r] \in Active
        /\ \A x \in Requests \ {r} : pc'[x] = pc[x] /\ turn'[x] = turn[x]
    BY <1>0, <1>5 DEF PreparePage, Send, Active
  <2>2. turn'[r].conv = turn[r].conv
    <3>1. turn[r] \in Turn
      BY <2>1 DEF IInv, TurnInv, TurnOf
    <3>2. \/ turn'[r] = [turn[r] EXCEPT !.prompt = "context"]
          \/ \E p \in {"append"} : turn'[r] = [turn[r] EXCEPT !.prompt = p, !.url = turn[r].stored.url]
          \/ \E u \in Urls : turn'[r] = [turn[r] EXCEPT !.url = u, !.baseline = Len(Prompted(r, u))]
      BY <1>0, <1>5 DEF PreparePage, Send
    <3> QED
      BY <3>1, <3>2 DEF Turn
  <2> QED
    BY <2>1, <2>2
<1>6. ASSUME NEW u \in Urls, WebAnswer(u)
      PROVE  \A x \in Requests :
               pc'[x] \in Active => pc[x] \in Active /\ turn'[x].conv = turn[x].conv
  BY <1>6 DEF WebAnswer
<1>7. CASE Crash
  BY <1>0, <1>7 DEF Crash
<1>8. CASE UNCHANGED vars
  BY <1>8 DEF vars
<1> QED
  BY <1>2, <1>3, <1>4, <1>5, <1>6, <1>7, <1>8 DEF Next, Step

LEMMA OneTurnStep ==
  ASSUME IInv, [Next]_vars
  PROVE  OneTurnPerConversation'
<1>1. CASE ~\E r \in Requests : Start(r)
  BY <1>1, TurnsKeepConversations DEF IInv, OneTurnPerConversation
<1>2. ASSUME NEW r \in Requests, Start(r) PROVE OneTurnPerConversation'
  <2>1. PICK c \in Conversations, plan \in Plan, affinity \in Affinities :
          /\ turn' = [turn EXCEPT ![r] =
               [conv |-> c, stored |-> store[c], plan |-> plan,
                prompt |-> "none", url |-> NoUrl, baseline |-> 0]]
          /\ plan = PlanContextSync(store[c], CanonicalOf(job[r]), affinity)
          /\ store[c] = NoStored => Rebuilds(plan)
          /\ c \in Existing(r) \/ (Existing(r) = {} /\ c \in FreshIds)
    BY <1>2, StartedTurn DEF IInv
  <2>2. /\ pc[r] = "queued" /\ HasTurn(r) /\ pc' = [pc EXCEPT ![r] = "planned"]
        /\ pc[r] # "idle"
    BY <1>2 DEF Start
  <2>3. /\ turn'[r].conv = c
        /\ \A x \in Requests \ {r} : turn'[x] = turn[x] /\ pc'[x] = pc[x]
    BY <2>1, <2>2 DEF IInv, TypeOK
  <2>4. ASSUME NEW x \in Requests \ {r}, pc[x] \in Active PROVE turn[x].conv # c
    <3>1. CASE c \in FreshIds
      BY <3>1 DEF FreshIds
    <3>2. CASE c \in Existing(r)
      <4> SUFFICES ASSUME turn[x].conv = c PROVE FALSE
        OBVIOUS
      <4>1. /\ store[c] # NoStored /\ store[c].key = job[r].key
            /\ job[r].key = Anonymous => slot[r] = c /\ c \in Continuations(job[r])
        BY <2>2, <3>2, ExistingType DEF IInv
      <4>2. TurnOf(x) /\ Holds(x) /\ pc[x] # "idle"
        BY <2>4 DEF IInv, TurnInv, Holds, Active
      <4>3. job[x].key = job[r].key
        BY <2>4, <4>1, <4>2 DEF TurnOf
      <4>4. slot[r] # NoConv /\ slot[x] = slot[r]
        <5>1. CASE job[r].key # Anonymous
          <6>1. slot[r] = job[r].key /\ slot[x] = job[r].key /\ job[r].key \in Keys
            BY <2>2, <4>2, <4>3, <5>1 DEF IInv, JobInv, Job
          <6> QED
            BY <6>1, EngineAssumption
        <5>2. CASE job[r].key = Anonymous
          <6>1. slot[r] = c /\ store[c].status = "clean" /\ c # NoConv
            BY <4>1, <5>2, EngineAssumption DEF Continuations
          <6>2. turn[x].stored # NoStored
            <7> SUFFICES ASSUME turn[x].stored = NoStored PROVE FALSE
              OBVIOUS
            <7>1. CASE pc[x] \in {"planned", "ready"}
              BY <2>4, <4>1, <4>2, <7>1 DEF TurnOf
            <7>2. CASE pc[x] \in {"checkpointed", "sent"}
              BY <2>4, <4>2, <6>1, <7>2 DEF TurnOf
            <7> QED
              BY <2>4, <7>1, <7>2 DEF Active
          <6>3. slot[x] = c
            BY <2>4, <4>2, <4>3, <5>2, <6>2 DEF TurnOf
          <6> QED
            BY <6>1, <6>3
        <5> QED
          BY <5>1, <5>2
      <4> QED
        BY <2>2, <4>2, <4>4, HoldersDiffer DEF IInv
    <3> QED
      BY <2>1, <3>1, <3>2
  <2> QED
    BY <2>3, <2>4 DEF IInv, OneTurnPerConversation
<1> QED
  BY <1>1, <1>2

-----------------------------------------------------------------------------
(* What the website is told are messages, and so is what it answers.       *)
LEMMA WebStep ==
  ASSUME IInv, [Next]_vars
  PROVE  web' \in [Urls -> Seq(Message)] /\ generating' \subseteq Urls
<1>0. web \in [Urls -> Seq(Message)] /\ generating \subseteq Urls
  BY DEF IInv, TypeOK
<1>1. ASSUME NEW r \in Requests, Send(r)
      PROVE  web' \in [Urls -> Seq(Message)] /\ generating' \subseteq Urls
  <2>1. PICK u \in Urls :
          /\ web' = [web EXCEPT ![u] = Prompted(r, u)]
          /\ generating' = generating \cup {u}
    BY <1>1 DEF Send
  <2>2. turn[r].plan.pending \in Seq(Message) /\ PromptHistory(r) \in Seq(Message)
    BY <1>1, PlannedTranscript DEF IInv, Send, Active
  <2>3. Prompted(r, u) \in Seq(Message)
    BY <1>0, <2>2, ConcatProperties DEF Prompted
  <2> QED
    BY <1>0, <2>1, <2>3
<1>2. ASSUME NEW u \in Urls, WebAnswer(u)
      PROVE  web' \in [Urls -> Seq(Message)] /\ generating' \subseteq Urls
  <2>1. PICK b \in Answers, C \in SUBSET (CallIds \ UsedCalls) :
          web' = [web EXCEPT ![u] = Append(web[u], AssistantCalls(b, C))]
    BY <1>2 DEF WebAnswer
  <2>2. AssistantCalls(b, C) \in Message
    BY MessageTypes
  <2>3. Append(web[u], AssistantCalls(b, C)) \in Seq(Message)
    BY <1>0, <2>2, AppendProperties
  <2>4. generating' = generating \ {u}
    BY <1>2 DEF WebAnswer
  <2> QED
    BY <1>0, <2>1, <2>3, <2>4
<1>3. CASE UNCHANGED <<web, generating>>
  BY <1>0, <1>3
<1>4. \/ \E r \in Requests : Send(r)
      \/ \E u \in Urls : WebAnswer(u)
      \/ UNCHANGED <<web, generating>>
  BY DEF Next, Step, Submit, Start, Refuse, PreparePage, Checkpoint, Complete, Respond, Fail,
         Crash, vars
<1> QED
  BY <1>1, <1>2, <1>3, <1>4

LEMMA BoundsStep ==
  ASSUME IInv, [Next]_vars
  PROVE  submits' \in Nat /\ crashes' \in Nat
<1>1. submits \in Nat /\ crashes \in Nat
  BY DEF IInv, TypeOK
<1>2. submits' \in {submits, submits + 1} /\ crashes' \in {crashes, crashes + 1}
  BY DEF Next, Step, Submit, Start, Refuse, PreparePage, Checkpoint, Send, Complete, Respond,
         Fail, WebAnswer, Crash, vars, bounds
<1> QED
  BY <1>1, <1>2

LEMMA InvariantHoldsAtFirst == Init => IInv
<1> SUFFICES ASSUME Init PROVE IInv
  OBVIOUS
<1>1. TypeOK
  BY EmptySeq DEF Init, TypeOK, Phases
<1>2. QueueInv
  BY EmptySeq DEF Init, QueueInv, Holds, Active
<1>3. JobInv /\ TurnInv /\ OneTurnPerConversation
  BY DEF Init, JobInv, TurnInv, TurnOf, PromptOf, OneTurnPerConversation, Active
<1>4. StoreInv
  BY DEF Init, StoreInv, LoadedConversation
<1>5. OneConversationPerKey
  BY DEF Init, OneConversationPerKey, KeyOwners
<1> QED
  BY <1>1, <1>2, <1>3, <1>4, <1>5 DEF IInv

LEMMA InvariantIsKept == IInv /\ [Next]_vars => IInv'
<1> SUFFICES ASSUME IInv, [Next]_vars PROVE IInv'
  OBVIOUS
<1>1. QueueTypes /\ QueueInv
  BY DEF IInv, TypeOK, QueueTypes
<1>2. QueueTypes' /\ QueueInv'
  BY <1>1, QueueStep
<1>3. JobInv' /\ job' \in [Requests -> Job \cup {NoJob}]
  BY JobStep DEF IInv
<1>4. StoreInv' /\ store' \in [Conversations -> Record \cup {NoStored}]
  BY StoreStep
<1>5. TurnInv' /\ turn' \in [Requests -> Turn \cup {NoTurn}]
  BY TurnStep
<1>6. TypeOK'
  BY <1>2, <1>3, <1>4, <1>5, WebStep, BoundsStep DEF TypeOK, QueueTypes
<1> QED
  BY <1>2, <1>3, <1>4, <1>5, <1>6, OneTurnStep, KeyStep DEF IInv

(* The inductive invariant holds in every reachable state: the four facts  *)
(* about the engine below are read off it.                                 *)
THEOREM InvariantHolds == Spec => []IInv
  BY InvariantHoldsAtFirst, InvariantIsKept, PTL DEF Spec

(* Every variable keeps its type: in particular what is loaded, planned,   *)
(* prompted and saved are always transcripts of messages.                  *)
THEOREM TypeCorrect == Spec => []TypeOK
<1>1. IInv => TypeOK
  BY DEF IInv
<1> QED
  BY <1>1, InvariantHolds, PTL

(* At most one turn at a time works on a Conversation, whatever requests,  *)
(* failures and crashes came before: the FIFO of its key or id, and for a  *)
(* new Conversation its fresh id, keep all others out.                     *)
THEOREM OneTurnAtATime == Spec => []OneTurnPerConversation
<1>1. IInv => OneTurnPerConversation
  BY DEF IInv
<1> QED
  BY <1>1, InvariantHolds, PTL

(* The conversations table never holds two rows of one key.                *)
THEOREM KeysAreUnique == Spec => []OneConversationPerKey
<1>1. IInv => OneConversationPerKey
  BY DEF IInv
<1> QED
  BY <1>1, InvariantHolds, PTL

(* A turn that may have reached the website has its Conversation marked.   *)
THEOREM UncertainIsMarked == Spec => []InFlightWhileUncertain
<1>1. IInv => InFlightWhileUncertain
  BY DEF IInv, TurnInv, TurnOf, InFlightWhileUncertain, Active
<1> QED
  BY <1>1, InvariantHolds, PTL

-----------------------------------------------------------------------------
(* What the database and the website agree on.                             *)

(* A row that names a URL has been there, and a clean row names one.       *)
RowsOnWeb ==
  \A c \in Conversations :
    /\ store[c] # NoStored /\ store[c].url # NoUrl => web[store[c].url] # <<>>
    /\ store[c].status = "clean" => store[c].url # NoUrl

(* Two turns do not work at one URL.                                       *)
TurnsApart ==
  \A r, s \in Requests :
    r # s /\ pc[r] \in Active /\ pc[s] \in Active /\ turn[r].url # NoUrl =>
      turn[r].url # turn[s].url

(* A turn that is about to append finds the conversation it was planned    *)
(* against.                                                                *)
AppendReady(r) ==
  pc[r] = "checkpointed" /\ turn[r].prompt = "append" =>
    /\ web[turn[r].url] = turn[r].stored.messages
    /\ turn[r].url \notin generating

Replies ==
  [role : {"assistant"}, body : Bodies, calls : SUBSET CallIds, answers : {NoCall}]

(* Once the prompt is sent, the website has the transcript the turn is to  *)
(* save, and one answer after it as soon as it has stopped generating.     *)
Delivered(r) ==
  pc[r] = "sent" =>
    /\ Authoritative(r) # <<>>
    /\ turn[r].baseline = Len(Authoritative(r))
    /\ IF turn[r].url \in generating
       THEN web[turn[r].url] = Authoritative(r)
       ELSE \E m \in Replies : web[turn[r].url] = Append(Authoritative(r), m)

WebInv ==
  /\ RowsOnWeb /\ CleanMatchesWeb /\ UrlExclusive /\ TurnsApart
  /\ \A r \in Requests : AppendReady(r) /\ Delivered(r)

-----------------------------------------------------------------------------
(* What holds of the turns in a state.                                     *)

LEMMA AuthoritativeIsNotEmpty ==
  ASSUME IInv, NEW r \in Requests, pc[r] \in Active
  PROVE  Authoritative(r) \in Seq(Message) /\ Authoritative(r) # <<>>
<1> DEFINE messages == job[r].messages
           pending == turn[r].plan.pending
           history == PromptHistory(r)
<1>1. /\ history \in Seq(Message) /\ pending \in Seq(Message)
      /\ history \o pending = Authoritative(r) /\ Authoritative(r) \in Seq(Message)
  BY PlannedTranscript DEF IInv
<1>2. /\ ValidRequest(job[r]) /\ LoadedConversation(turn[r].stored) /\ job[r] \in Job
      /\ turn[r].plan \in Plan
  BY PlannedTurn DEF IInv, TurnInv, TurnOf
<1>3. PICK affinity \in Affinities :
        turn[r].plan = PlanContextSync(turn[r].stored, CanonicalOf(job[r]), affinity)
  BY DEF IInv, TurnInv, TurnOf
<1>4. PlannableRequest(CanonicalOf(job[r])) /\ CanonicalOf(job[r]).messages = messages
  BY <1>2, CanonicalIsPlannable
<1>5. pending = PendingTurn(messages)
  BY <1>2, <1>3, <1>4, PlanShape, NoStoredIsNoRecord
<1>6. /\ messages \in Seq(Message) /\ messages # <<>>
      /\ messages[Len(messages)].role \in {"user", "tool"}
  BY <1>2, EngineAssumption DEF Job, ValidRequest, ValidTranscript
<1> HIDE DEF messages, pending, history
<1>7. Len(pending) = Len(messages) + 1 - PendingStart(messages)
      /\ PendingStart(messages) \in 1..Len(messages)
  BY <1>5, <1>6, RequestSplit, PendingStartRange
<1>8. Len(messages) \in Nat /\ Len(history) \in Nat
  BY <1>1, <1>6, LenProperties
<1>9. Len(Authoritative(r)) = Len(history) + Len(pending)
  BY <1>1, ConcatProperties
<1>10. Len(Authoritative(r)) # 0
  BY <1>7, <1>8, <1>9
<1> QED
  BY <1>1, <1>10, EmptySeq

LEMMA RepliesAreMessages == Replies \subseteq Message
BY DEF Replies, Message, Roles

LEMMA AppendIsNotEmpty ==
  ASSUME NEW s \in Seq(Message), NEW m \in Message
  PROVE  Append(s, m) # <<>>
<1>1. Len(Append(s, m)) = Len(s) + 1 /\ Len(s) \in Nat
  BY AppendProperties, LenProperties
<1> QED
  BY <1>1, EmptySeq

(* The URL a turn has is one its Conversation has, or one it has sent its  *)
(* prompt to.                                                              *)
LEMMA TurnUrl ==
  ASSUME IInv, WebInv, NEW r \in Requests, pc[r] \in Active, turn[r].url # NoUrl
  PROVE  /\ turn[r].url \in Urls
         /\ web[turn[r].url] # <<>>
         /\ pc[r] # "sent" =>
              /\ turn[r].prompt = "append" /\ turn[r].conv \in Conversations
              /\ store[turn[r].conv] # NoStored
              /\ store[turn[r].conv].url = turn[r].url
<1>1. turn[r].url \in Urls
  BY PlannedTurn DEF IInv
<1>2. CASE pc[r] = "sent"
  <2>1. Authoritative(r) \in Seq(Message) /\ Authoritative(r) # <<>>
    BY AuthoritativeIsNotEmpty
  <2>2. \/ web[turn[r].url] = Authoritative(r)
        \/ \E m \in Message : web[turn[r].url] = Append(Authoritative(r), m)
    BY <1>2, RepliesAreMessages DEF WebInv, Delivered
  <2> QED
    BY <1>1, <1>2, <2>1, <2>2, AppendIsNotEmpty
<1>3. CASE pc[r] # "sent"
  <2>1. turn[r].prompt = "append" /\ ~Rebuilds(turn[r].plan) /\ turn[r].url = turn[r].stored.url
    BY <1>3 DEF IInv, TurnInv, PromptOf
  <2>2. turn[r].stored # NoStored
    BY <2>1, PlannedTranscript, NoStoredIsNoRecord DEF IInv
  <2>3. /\ turn[r].conv \in Conversations /\ store[turn[r].conv] # NoStored
        /\ store[turn[r].conv].url = turn[r].url
    BY <2>1, <2>2, PlannedTurn DEF IInv, TurnInv, TurnOf
  <2> QED
    BY <1>1, <2>1, <2>3 DEF WebInv, RowsOnWeb
<1> QED
  BY <1>2, <1>3

(* A turn keeps what it has delivered while the website stays as it is at  *)
(* the turn's URL.                                                         *)
LEMMA DeliveredFrame ==
  ASSUME NEW r \in Requests, AppendReady(r), Delivered(r),
         pc'[r] = pc[r], turn'[r] = turn[r], job'[r] = job[r],
         web'[turn[r].url] = web[turn[r].url],
         turn[r].url \in generating' <=> turn[r].url \in generating
  PROVE  AppendReady(r)' /\ Delivered(r)'
<1>1. Authoritative(r)' = Authoritative(r)
  BY DEF Authoritative
<1> QED
  BY <1>1 DEF AppendReady, Delivered

(* Steps that neither write nor prompt nor choose a URL.                   *)
LEMMA QuietStep ==
  ASSUME WebInv, store' = store, web' = web, generating' = generating,
         \A x \in Requests : pc'[x] \in Active =>
           \/ pc'[x] = pc[x] /\ turn'[x] = turn[x] /\ job'[x] = job[x]
           \/ pc'[x] \in {"planned", "ready"} /\ turn'[x].url = NoUrl
  PROVE  WebInv'
<1>1. RowsOnWeb' /\ CleanMatchesWeb'
  BY DEF WebInv, RowsOnWeb, CleanMatchesWeb
<1>2. UrlExclusive'
  BY DEF WebInv, UrlExclusive
<1>3. TurnsApart'
  BY DEF WebInv, TurnsApart
<1>4. ASSUME NEW r \in Requests PROVE AppendReady(r)' /\ Delivered(r)'
  <2>1. CASE pc'[r] \notin {"checkpointed", "sent"}
    BY <2>1 DEF AppendReady, Delivered
  <2>2. CASE pc'[r] \in {"checkpointed", "sent"}
    <3>1. pc'[r] = pc[r] /\ turn'[r] = turn[r] /\ job'[r] = job[r]
      BY <2>2 DEF Active
    <3> QED
      BY <3>1, DeliveredFrame DEF WebInv
  <2> QED
    BY <2>1, <2>2
<1> QED
  BY <1>1, <1>2, <1>3, <1>4 DEF WebInv

-----------------------------------------------------------------------------
(* The steps that prompt, write or choose a URL.                           *)

(* A turn that restores its Conversation's URL has it for itself.          *)
LEMMA PrepareStep ==
  ASSUME IInv, WebInv, NEW r \in Requests, PreparePage(r)
  PROVE  WebInv'
<1>1. /\ pc[r] = "planned" /\ pc[r] \in Active /\ pc' = [pc EXCEPT ![r] = "ready"]
      /\ store' = store /\ web' = web /\ generating' = generating /\ job' = job
  BY DEF PreparePage, runVars, Active
<1>2. /\ turn \in [Requests -> Turn \cup {NoTurn}] /\ pc \in [Requests -> Phases]
      /\ turn[r] \in Turn /\ turn[r].url = NoUrl
  BY <1>1 DEF IInv, TypeOK, TurnInv, TurnOf, PromptOf
<1>3. \A x \in Requests \ {r} : pc'[x] = pc[x] /\ turn'[x] = turn[x]
  BY <1>1, <1>2 DEF PreparePage
<1>4. CASE turn' = [turn EXCEPT ![r].prompt = "context"]
  <2>1. turn'[r] = [turn[r] EXCEPT !.prompt = "context"]
    BY <1>2, <1>4
  <2>2. turn'[r].url = NoUrl /\ pc'[r] = "ready"
    BY <1>1, <1>2, <2>1, FreshFields
  <2> QED
    BY <1>1, <1>3, <2>2, QuietStep
<1>5. CASE /\ ~Rebuilds(turn[r].plan)
           /\ turn' = [turn EXCEPT ![r].prompt = "append", ![r].url = turn[r].stored.url]
  <2> DEFINE u == turn[r].stored.url
             c == turn[r].conv
  <2>1. turn'[r] = [turn[r] EXCEPT !.prompt = "append", !.url = u]
    BY <1>2, <1>5
  <2>2. /\ u \in Urls /\ u # NoUrl /\ turn[r].stored # NoStored
        /\ c \in Conversations /\ store[c] # NoStored /\ store[c].url = u
    <3>1. turn[r].stored \in Record /\ u \in Urls
      BY <1>1, <1>5, PlannedTranscript DEF IInv
    <3>2. turn[r].stored # NoStored /\ u # NoUrl
      BY <3>1, NoStoredIsNoRecord, EngineAssumption
    <3> QED
      BY <1>1, <3>1, <3>2, PlannedTurn DEF IInv, TurnInv, TurnOf
  <2>3. turn'[r].url = u /\ turn'[r].conv = c
    BY <1>2, <2>1 DEF Turn
  <2> HIDE DEF u, c
  <2>4. \A s \in Requests \ {r} : pc[s] \in Active => turn[s].url # u
    BY <1>1, <2>2 DEF IInv, OneTurnPerConversation, WebInv, UrlExclusive, c
  <2>5. \A d \in Conversations : d # c /\ store[d] # NoStored => store[d].url # u
    BY <2>2 DEF WebInv, UrlExclusive
  <2>6. RowsOnWeb' /\ CleanMatchesWeb'
    BY <1>1 DEF WebInv, RowsOnWeb, CleanMatchesWeb
  <2>7. UrlExclusive'
    BY <1>1, <1>3, <2>3, <2>5 DEF WebInv, UrlExclusive
  <2>8. TurnsApart'
    BY <1>1, <1>3, <2>3, <2>4 DEF WebInv, TurnsApart
  <2>9. ASSUME NEW x \in Requests PROVE AppendReady(x)' /\ Delivered(x)'
    <3>1. CASE x = r
      BY <1>1, <1>2, <3>1 DEF AppendReady, Delivered
    <3>2. CASE x # r
      BY <1>1, <1>3, <3>2, DeliveredFrame DEF WebInv
    <3> QED
      BY <3>1, <3>2
  <2> QED
    BY <2>6, <2>7, <2>8, <2>9 DEF WebInv
<1> QED
  BY <1>4, <1>5 DEF PreparePage

(* Marking a Conversation keeps its URL; the row it was planned against    *)
(* was clean if the turn is going to append.                               *)
LEMMA CheckpointStep ==
  ASSUME IInv, WebInv, NEW r \in Requests, Checkpoint(r)
  PROVE  WebInv'
<1> DEFINE c == turn[r].conv
<1>1. /\ pc[r] = "ready" /\ pc[r] \in Active /\ pc' = [pc EXCEPT ![r] = "checkpointed"]
      /\ turn' = turn /\ web' = web /\ generating' = generating /\ job' = job
  BY DEF Checkpoint, runVars, Active
<1>2. /\ c \in Conversations
      /\ store'[c] \in Record /\ store'[c].status = "in_flight"
      /\ store[c] # NoStored => store'[c].url = store[c].url
      /\ store[c] = NoStored => store'[c].url = NoUrl
      /\ \A d \in Conversations \ {c} : store'[d] = store[d]
  BY CheckpointRecord DEF IInv, TypeOK
<1>3. /\ \A x \in Requests : pc'[x] \in Active <=> pc[x] \in Active
      /\ \A x \in Requests \ {r} : pc'[x] = pc[x]
      /\ pc'[r] = "checkpointed"
  BY <1>1 DEF IInv, TypeOK, Active
<1>4. turn[r].stored = store[c]
  BY <1>1 DEF IInv, TurnInv, TurnOf
<1>5. turn[r].prompt = "append" =>
        /\ turn[r].url = turn[r].stored.url /\ turn[r].stored.status = "clean"
  BY <1>1, PlannedTranscript DEF IInv, TurnInv, PromptOf
<1>6. ASSUME NEW x \in Requests, pc[x] \in Active, turn[x].url # NoUrl,
             turn[x].conv # c
      PROVE  store'[c].url # turn[x].url
  BY <1>2, <1>6 DEF WebInv, UrlExclusive
<1> HIDE DEF c
<1>7. RowsOnWeb' /\ CleanMatchesWeb'
  BY <1>1, <1>2 DEF WebInv, RowsOnWeb, CleanMatchesWeb
<1>8. UrlExclusive'
  <2>1. ASSUME NEW a \in Conversations, NEW b \in Conversations, a # b,
               store'[a] # NoStored, store'[b] # NoStored, store'[a].url # NoUrl
        PROVE  store'[a].url # store'[b].url
    BY <1>2, <2>1 DEF WebInv, UrlExclusive
  <2>2. ASSUME NEW x \in Requests, NEW a \in Conversations, pc'[x] \in Active,
               turn'[x].url # NoUrl, turn'[x].conv # a, store'[a] # NoStored
        PROVE  store'[a].url # turn'[x].url
    <3>1. pc[x] \in Active /\ turn[x].url # NoUrl /\ turn[x].conv # a
      BY <1>1, <1>3, <2>2
    <3> QED
      BY <1>1, <1>2, <1>6, <2>2, <3>1 DEF WebInv, UrlExclusive
  <2> QED
    BY <2>1, <2>2 DEF UrlExclusive
<1>9. TurnsApart'
  BY <1>1, <1>3 DEF WebInv, TurnsApart
<1>10. ASSUME NEW x \in Requests PROVE AppendReady(x)' /\ Delivered(x)'
  <2>1. CASE x = r
    BY <1>1, <1>2, <1>3, <1>4, <1>5, <2>1 DEF WebInv, CleanMatchesWeb, AppendReady, Delivered, c
  <2>2. CASE x # r
    BY <1>1, <1>3, <2>2, DeliveredFrame DEF WebInv
  <2> QED
    BY <2>1, <2>2
<1> QED
  BY <1>7, <1>8, <1>9, <1>10 DEF WebInv

(* A prompt leaves the transcript the turn is going to save, at a URL no   *)
(* other turn and no other Conversation has.                               *)
LEMMA SentPrompt ==
  ASSUME IInv, WebInv, NEW r \in Requests, pc[r] = "checkpointed", NEW u \in Urls,
         IF turn[r].prompt = "append" THEN u = turn[r].url ELSE web[u] = <<>>
  PROVE  /\ Prompted(r, u) = Authoritative(r)
         /\ \A s \in Requests \ {r} : pc[s] \in Active => turn[s].url # u
         /\ \A c \in Conversations :
              store[c] # NoStored /\ store[c].url = u =>
                c = turn[r].conv /\ store[c].status = "in_flight"
<1>1. pc[r] \in Active /\ u # NoUrl /\ store[turn[r].conv].status = "in_flight"
  BY EngineAssumption DEF Active, IInv, TurnInv, TurnOf
<1>2. CASE turn[r].prompt = "append"
  <2>1. web[u] = turn[r].stored.messages /\ ~Rebuilds(turn[r].plan) /\ u = turn[r].url
    BY <1>1, <1>2 DEF WebInv, AppendReady, IInv, TurnInv, PromptOf
  <2>2. Prompted(r, u) = Authoritative(r)
    BY <1>1, <1>2, <2>1, PlannedTranscript DEF Prompted, IInv
  <2> QED
    BY <1>1, <2>1, <2>2 DEF WebInv, TurnsApart, UrlExclusive
<1>3. CASE turn[r].prompt # "append"
  <2>1. Prompted(r, u) = Authoritative(r)
    BY <1>1, <1>3, PlannedTranscript DEF Prompted, IInv
  <2>2. web[u] = <<>>
    BY <1>3
  <2> QED
    BY <1>1, <2>1, <2>2, TurnUrl DEF WebInv, RowsOnWeb
<1> QED
  BY <1>2, <1>3

LEMMA SendStep ==
  ASSUME IInv, WebInv, NEW r \in Requests, Send(r)
  PROVE  WebInv'
<1>1. /\ pc[r] = "checkpointed" /\ pc[r] \in Active /\ pc' = [pc EXCEPT ![r] = "sent"]
      /\ store' = store /\ job' = job
  BY DEF Send, runVars, Active
<1>2. PICK u \in Urls :
        /\ IF turn[r].prompt = "append" THEN u = turn[r].url ELSE web[u] = <<>>
        /\ web' = [web EXCEPT ![u] = Prompted(r, u)]
        /\ turn' = [turn EXCEPT ![r].url = u, ![r].baseline = Len(Prompted(r, u))]
        /\ generating' = generating \cup {u}
  BY DEF Send
<1>3. /\ Prompted(r, u) = Authoritative(r)
      /\ \A s \in Requests \ {r} : pc[s] \in Active => turn[s].url # u
      /\ \A c \in Conversations :
           store[c] # NoStored /\ store[c].url = u =>
             c = turn[r].conv /\ store[c].status = "in_flight"
  BY <1>1, <1>2, SentPrompt
<1>4. Authoritative(r) \in Seq(Message) /\ Authoritative(r) # <<>>
  BY <1>1, AuthoritativeIsNotEmpty
<1> DEFINE n == Len(Authoritative(r))
<1>5. turn[r] \in Turn /\ turn \in [Requests -> Turn \cup {NoTurn}] /\ pc \in [Requests -> Phases]
  BY <1>1 DEF IInv, TypeOK, TurnInv, TurnOf
<1>6. turn' = [turn EXCEPT ![r].url = u, ![r].baseline = n]
  BY <1>2, <1>3
<1> HIDE DEF n
<1>7. turn'[r] = [turn[r] EXCEPT !.url = u, !.baseline = n]
  BY <1>5, <1>6
<1>8. /\ turn'[r].conv = turn[r].conv /\ turn'[r].stored = turn[r].stored
      /\ turn'[r].plan = turn[r].plan /\ turn'[r].url = u /\ turn'[r].baseline = n
  BY <1>5, <1>7 DEF Turn
<1>9. /\ \A x \in Requests \ {r} : pc'[x] = pc[x] /\ turn'[x] = turn[x]
      /\ pc'[r] = "sent"
  BY <1>1, <1>5, <1>6
<1>10. /\ web'[u] = Authoritative(r)
       /\ \A x \in Urls \ {u} : web'[x] = web[x] /\ (x \in generating' <=> x \in generating)
  BY <1>2, <1>3 DEF IInv, TypeOK
<1>11. \A c \in Conversations :
         store[c] # NoStored /\ store[c].url # NoUrl => store[c].url \in Urls
  BY DEF IInv, TypeOK, Record
<1>12. RowsOnWeb'
  BY <1>1, <1>4, <1>10, <1>11 DEF WebInv, RowsOnWeb
<1>13. CleanMatchesWeb'
  <2> SUFFICES ASSUME NEW c \in Conversations, store[c].status = "clean"
               PROVE  /\ web'[store[c].url] = store[c].messages
                      /\ store[c].synced = Len(store[c].messages)
                      /\ store[c].url \notin generating'
    BY <1>1 DEF CleanMatchesWeb
  <2>1. store[c] # NoStored /\ store[c].url # NoUrl
    BY NoStoredIsNoRecord DEF WebInv, RowsOnWeb
  <2>2. store[c].url \in Urls \ {u}
    BY <1>3, <1>11, <2>1
  <2> QED
    BY <1>10, <2>2 DEF WebInv, CleanMatchesWeb
<1>14. UrlExclusive'
  BY <1>1, <1>3, <1>8, <1>9 DEF WebInv, UrlExclusive
<1>15. TurnsApart'
  BY <1>3, <1>8, <1>9 DEF WebInv, TurnsApart, Active
<1>16. ASSUME NEW x \in Requests PROVE AppendReady(x)' /\ Delivered(x)'
  <2>1. CASE x = r
    <3>1. Authoritative(r)' = Authoritative(r)
      BY <1>1, <1>8 DEF Authoritative
    <3>2. u \in generating'
      BY <1>2
    <3> QED
      BY <1>4, <1>8, <1>9, <1>10, <2>1, <3>1, <3>2 DEF AppendReady, Delivered, n
  <2>2. CASE x # r
    <3>1. AppendReady(x) /\ Delivered(x) /\ pc'[x] = pc[x] /\ turn'[x] = turn[x] /\ job'[x] = job[x]
      BY <1>1, <1>9, <2>2 DEF WebInv
    <3>2. CASE pc[x] = "sent" \/ (pc[x] = "checkpointed" /\ turn[x].prompt = "append")
      <4>1. turn[x].url # u /\ pc[x] \in Active
        BY <1>3, <2>2, <3>2 DEF Active
      <4>2. turn[x].url \in Urls
        BY <3>2, <4>1, PlannedTranscript DEF IInv, TurnInv, PromptOf
      <4> QED
        BY <1>10, <3>1, <4>1, <4>2, DeliveredFrame
    <3>3. CASE ~(pc[x] = "sent" \/ (pc[x] = "checkpointed" /\ turn[x].prompt = "append"))
      BY <3>1, <3>3 DEF AppendReady, Delivered
    <3> QED
      BY <3>2, <3>3
  <2> QED
    BY <2>1, <2>2
<1> QED
  BY <1>12, <1>13, <1>14, <1>15, <1>16 DEF WebInv

(* An answer comes where one is being generated: never at the URL of a     *)
(* clean row or of a turn that is about to append.                         *)
LEMMA AnswerStep ==
  ASSUME IInv, WebInv, NEW u \in Urls, WebAnswer(u)
  PROVE  WebInv'
<1>1. /\ u \in generating /\ generating' = generating \ {u}
      /\ store' = store /\ pc' = pc /\ turn' = turn /\ job' = job
  BY DEF WebAnswer, runVars
<1>2. PICK b \in Answers, C \in SUBSET (CallIds \ UsedCalls) :
        web' = [web EXCEPT ![u] = Append(web[u], AssistantCalls(b, C))]
  BY DEF WebAnswer
<1> DEFINE m == AssistantCalls(b, C)
<1>3. m \in Message /\ m \in Replies /\ web[u] \in Seq(Message)
  BY MessageTypes, EngineAssumption DEF IInv, TypeOK, Replies, AssistantCalls
<1> HIDE DEF m
<1>4. /\ web'[u] = Append(web[u], m)
      /\ \A x \in Urls \ {u} : web'[x] = web[x] /\ (x \in generating' <=> x \in generating)
  BY <1>1, <1>2 DEF IInv, TypeOK, m
<1>5. \A c \in Conversations :
         store[c] # NoStored /\ store[c].url # NoUrl => store[c].url \in Urls
  BY DEF IInv, TypeOK, Record
<1>6. Append(web[u], m) # <<>>
  BY <1>3, AppendIsNotEmpty
<1>7. RowsOnWeb'
  BY <1>1, <1>4, <1>5, <1>6 DEF WebInv, RowsOnWeb
<1>8. CleanMatchesWeb'
  BY <1>1, <1>4, <1>5, NoStoredIsNoRecord DEF WebInv, RowsOnWeb, CleanMatchesWeb
<1>9. UrlExclusive' /\ TurnsApart'
  BY <1>1 DEF WebInv, UrlExclusive, TurnsApart
<1>10. ASSUME NEW x \in Requests PROVE AppendReady(x)' /\ Delivered(x)'
  <2>1. AppendReady(x) /\ Delivered(x)
    BY DEF WebInv
  <2>2. CASE pc[x] = "sent" \/ (pc[x] = "checkpointed" /\ turn[x].prompt = "append")
    <3>1. turn[x].url \in Urls
      BY <2>2, PlannedTranscript DEF Active, IInv, TurnInv, PromptOf
    <3>2. CASE turn[x].url # u
      BY <1>1, <1>4, <2>1, <3>1, <3>2, DeliveredFrame
    <3>3. CASE turn[x].url = u
      <4>1. pc[x] = "sent"
        BY <1>1, <2>1, <2>2, <3>3 DEF AppendReady
      <4>2. web'[u] = Append(Authoritative(x), m) /\ u \notin generating'
        BY <1>1, <1>4, <2>1, <3>3, <4>1 DEF Delivered
      <4>3. Authoritative(x)' = Authoritative(x)
        BY <1>1 DEF Authoritative
      <4> QED
        BY <1>1, <1>3, <2>1, <3>3, <4>1, <4>2, <4>3 DEF AppendReady, Delivered
    <3> QED
      BY <3>2, <3>3
  <2>3. CASE ~(pc[x] = "sent" \/ (pc[x] = "checkpointed" /\ turn[x].prompt = "append"))
    BY <1>1, <2>3 DEF AppendReady, Delivered
  <2> QED
    BY <2>2, <2>3
<1> QED
  BY <1>7, <1>8, <1>9, <1>10 DEF WebInv

(* What a turn saves is what the website shows.                            *)
LEMMA SavedIsOnTheWeb ==
  ASSUME IInv, WebInv, NEW r \in Requests, Complete(r)
  PROVE  Final(r) = web[turn[r].url]
<1> DEFINE u == turn[r].url
<1>1. pc[r] = "sent" /\ pc[r] \in Active /\ u \notin generating
  BY DEF Complete, Active
<1>2. Authoritative(r) \in Seq(Message) /\ turn[r].baseline = Len(Authoritative(r))
  BY <1>1, AuthoritativeIsNotEmpty DEF WebInv, Delivered
<1>3. PICK m \in Message : web[u] = Append(Authoritative(r), m)
  BY <1>1, RepliesAreMessages DEF WebInv, Delivered
<1>4. web[u][turn[r].baseline + 1] = m
  BY <1>2, <1>3, AppendProperties
<1> QED
  BY <1>3, <1>4 DEF Final

(* What is saved as clean is what the website shows.                       *)
LEMMA CompleteStep ==
  ASSUME IInv, WebInv, NEW r \in Requests, Complete(r)
  PROVE  WebInv'
<1> DEFINE c == turn[r].conv
           u == turn[r].url
<1>1. /\ pc[r] = "sent" /\ pc[r] \in Active /\ pc' = [pc EXCEPT ![r] = "committed"]
      /\ turn' = turn /\ web' = web /\ generating' = generating /\ job' = job
      /\ u \notin generating
  BY DEF Complete, runVars, Active
<1>2. /\ c \in Conversations /\ u \in Urls /\ store'[c] \in Record
      /\ store'[c].status = "clean" /\ store'[c].url = u
      /\ store'[c].messages = Final(r) /\ store'[c].synced = Len(Final(r))
      /\ \A d \in Conversations \ {c} : store'[d] = store[d]
  BY CompleteRecord DEF IInv, TypeOK
<1>3. /\ "committed" \notin Active /\ pc'[r] = "committed"
      /\ \A x \in Requests \ {r} : pc'[x] = pc[x]
  BY <1>1 DEF IInv, TypeOK, Active
<1>4. u # NoUrl
  BY <1>2, EngineAssumption
<1>5. Final(r) = web[u]
  BY SavedIsOnTheWeb
<1>6. web[u] # <<>>
  BY <1>1, <1>4, TurnUrl
<1>7. \A d \in Conversations \ {c} : store[d] # NoStored => store[d].url # u
  BY <1>1, <1>4 DEF WebInv, UrlExclusive
<1>8. \A x \in Requests \ {r} : pc[x] \in Active => turn[x].url # u /\ turn[x].conv # c
  BY <1>1, <1>4 DEF WebInv, TurnsApart, IInv, OneTurnPerConversation
<1> HIDE DEF c, u
<1>9. RowsOnWeb' /\ CleanMatchesWeb'
  BY <1>1, <1>2, <1>4, <1>5, <1>6 DEF WebInv, RowsOnWeb, CleanMatchesWeb
<1>10. UrlExclusive'
  <2>1. ASSUME NEW a \in Conversations, NEW b \in Conversations, a # b,
               store'[a] # NoStored, store'[b] # NoStored, store'[a].url # NoUrl
        PROVE  store'[a].url # store'[b].url
    BY <1>2, <1>7, <2>1 DEF WebInv, UrlExclusive
  <2>2. ASSUME NEW x \in Requests, NEW a \in Conversations, pc'[x] \in Active,
               turn'[x].url # NoUrl, turn'[x].conv # a, store'[a] # NoStored
        PROVE  store'[a].url # turn'[x].url
    <3>1. x # r /\ pc[x] \in Active /\ turn'[x] = turn[x]
      BY <1>1, <1>3, <2>2
    <3> QED
      BY <1>2, <1>8, <2>2, <3>1 DEF WebInv, UrlExclusive
  <2> QED
    BY <2>1, <2>2 DEF UrlExclusive
<1>11. TurnsApart'
  BY <1>1, <1>3 DEF WebInv, TurnsApart
<1>12. ASSUME NEW x \in Requests PROVE AppendReady(x)' /\ Delivered(x)'
  <2>1. CASE x = r
    BY <1>3, <2>1 DEF AppendReady, Delivered
  <2>2. CASE x # r
    BY <1>1, <1>3, <2>2, DeliveredFrame DEF WebInv
  <2> QED
    BY <2>1, <2>2
<1> QED
  BY <1>9, <1>10, <1>11, <1>12 DEF WebInv

LEMMA WebInvariantIsKept == IInv /\ WebInv /\ [Next]_vars => WebInv'
<1> SUFFICES ASSUME IInv, WebInv, [Next]_vars PROVE WebInv'
  OBVIOUS
<1>0. /\ pc \in [Requests -> Phases] /\ job \in [Requests -> Job \cup {NoJob}]
      /\ turn \in [Requests -> Turn \cup {NoTurn}]
      /\ {"idle", "queued", "committed"} \cap Active = {}
  BY DEF IInv, TypeOK, Active
<1>1. ASSUME NEW r \in Requests, Submit(r) PROVE WebInv'
  <2>1. /\ pc' = [pc EXCEPT ![r] = "queued"] /\ turn' = turn
        /\ \A x \in Requests \ {r} : job'[x] = job[x]
        /\ store' = store /\ web' = web /\ generating' = generating
    BY <1>0, <1>1 DEF Submit
  <2> QED
    BY <1>0, <2>1, QuietStep
<1>2. ASSUME NEW r \in Requests, Start(r) PROVE WebInv'
  <2>1. PICK c \in Conversations, plan \in Plan, affinity \in Affinities :
          turn' = [turn EXCEPT ![r] =
            [conv |-> c, stored |-> store[c], plan |-> plan,
             prompt |-> "none", url |-> NoUrl, baseline |-> 0]]
    BY <1>2, StartedTurn DEF IInv
  <2>2. /\ turn'[r].url = NoUrl
        /\ \A x \in Requests \ {r} : turn'[x] = turn[x]
    BY <1>0, <2>1
  <2>3. /\ pc' = [pc EXCEPT ![r] = "planned"] /\ job' = job
        /\ store' = store /\ web' = web /\ generating' = generating
    BY <1>2 DEF Start, runVars
  <2> QED
    BY <1>0, <2>2, <2>3, QuietStep
<1>3. ASSUME NEW r \in Requests, Refuse(r) \/ Respond(r) \/ Fail(r) PROVE WebInv'
  <2>1. /\ pc' = [pc EXCEPT ![r] = "idle"]
        /\ job' = [job EXCEPT ![r] = NoJob] /\ turn' = [turn EXCEPT ![r] = NoTurn]
        /\ store' = store /\ web' = web /\ generating' = generating
    BY <1>3 DEF Refuse, Respond, Fail, Leave
  <2> QED
    BY <1>0, <2>1, QuietStep
<1>4. ASSUME NEW r \in Requests, PreparePage(r) \/ Checkpoint(r) \/ Send(r) \/ Complete(r)
      PROVE  WebInv'
  BY <1>4, PrepareStep, CheckpointStep, SendStep, CompleteStep
<1>5. ASSUME NEW u \in Urls, WebAnswer(u) PROVE WebInv'
  BY <1>5, AnswerStep
<1>6. CASE Crash
  <2>1. /\ pc' = [r \in Requests |-> "idle"]
        /\ store' = store /\ web' = web /\ generating' = generating
    BY <1>6 DEF Crash
  <2> QED
    BY <1>0, <2>1, QuietStep
<1>7. CASE UNCHANGED vars
  BY <1>7, QuietStep DEF vars
<1> QED
  BY <1>1, <1>2, <1>3, <1>4, <1>5, <1>6, <1>7 DEF Next, Step

LEMMA WebInvariantHoldsAtFirst == Init => WebInv
BY NoStoredIsNoRecord DEF Init, WebInv, RowsOnWeb, CleanMatchesWeb, UrlExclusive, TurnsApart,
   AppendReady, Delivered, Active

(* What database, website and running turns have in common holds in every  *)
(* reachable state of the engine: the facts below are read off it.         *)
THEOREM WebInvariantHolds == Spec => []WebInv
BY InvariantHolds, WebInvariantHoldsAtFirst, WebInvariantIsKept, PTL DEF Spec

(* A row that is clean shows what is on the website, whatever turns were   *)
(* given up, failed or died between their prompt and its answer: the next  *)
(* append carries just the turn that is missing there.                     *)
THEOREM CleanIsOnTheWeb == Spec => []CleanMatchesWeb
<1>1. WebInv => CleanMatchesWeb
  BY DEF WebInv
<1> QED
  BY <1>1, WebInvariantHolds, PTL

(* Two Conversations never meet at one URL, in rows or in running turns.   *)
THEOREM UrlsAreApart == Spec => []UrlExclusive
<1>1. WebInv => UrlExclusive
  BY DEF WebInv
<1> QED
  BY <1>1, WebInvariantHolds, PTL

(* Every prompt that was sent leaves the website with the transcript its   *)
(* turn is going to save and at most one answer: no message of the client  *)
(* is told twice or forgotten, by any plan or by the fallback.             *)
THEOREM PromptsDelivered == Spec => []PromptDeliversTranscript
<1>1. IInv /\ WebInv => PromptDeliversTranscript
  <2> SUFFICES ASSUME IInv, WebInv, NEW r \in Requests, pc[r] = "sent"
               PROVE  /\ HasPrefix(web[turn[r].url], Authoritative(r))
                      /\ Len(web[turn[r].url]) <= Len(Authoritative(r)) + 1
    BY DEF PromptDeliversTranscript
  <2>1. Authoritative(r) \in Seq(Message) /\ Len(Authoritative(r)) \in Nat
    BY AuthoritativeIsNotEmpty, LenProperties DEF Active
  <2>2. CASE web[turn[r].url] = Authoritative(r)
    BY <2>1, <2>2 DEF HasPrefix
  <2>3. ASSUME NEW m \in Message, web[turn[r].url] = Append(Authoritative(r), m)
        PROVE  /\ HasPrefix(web[turn[r].url], Authoritative(r))
               /\ Len(web[turn[r].url]) <= Len(Authoritative(r)) + 1
    BY <2>1, <2>3, AppendProperties DEF HasPrefix
  <2> QED
    BY <2>2, <2>3, RepliesAreMessages DEF WebInv, Delivered
<1> QED
  BY <1>1, InvariantHolds, WebInvariantHolds, PTL

-----------------------------------------------------------------------------
(* The engine implements ConversationLog, for any number of requests,      *)
(* Conversations, transcripts and crashes: only the first checkpoint of a  *)
(* Conversation creates it, and only completing a turn changes a log.      *)

Owners == [c \in Conversations |-> IF store[c] = NoStored THEN NoConv ELSE store[c].key]
Logs ==
  [c \in Conversations |-> IF store[c] = NoStored THEN <<>> ELSE ConfirmedPrefix(store[c])]

(* While a turn works on a Conversation its log is the one the turn was    *)
(* planned against.  An anonymous turn never rebuilds a stored one.        *)
LogKept(r) ==
  pc[r] \in Active =>
    /\ Logs[turn[r].conv] =
         IF turn[r].stored = NoStored THEN <<>> ELSE ConfirmedPrefix(turn[r].stored)
    /\ job[r].key = Anonymous /\ turn[r].stored # NoStored => ~Rebuilds(turn[r].plan)

LogInv == \A r \in Requests : LogKept(r)

-----------------------------------------------------------------------------
(* ConversationLog shares the operators of ContextPlanner.                 *)
LEMMA SharedOperators ==
  /\ Log!Answer = Replies
  /\ \A messages : Log!PendingTurn(messages) = PendingTurn(messages)
<1>1. Log!Answer = Replies
  BY DEF Log!Answer, Replies, Log!NoCall, NoCall
<1>2. ASSUME NEW messages PROVE Log!PendingTurn(messages) = PendingTurn(messages)
  BY DEF Log!PendingTurn, PendingTurn, Log!PendingStart, PendingStart, Log!ToolTail, ToolTail,
         Log!Cardinality, Cardinality
<1> QED
  BY <1>1, <1>2

-----------------------------------------------------------------------------
(* LogInv is kept.                                                         *)

LEMMA LogFrame ==
  ASSUME IInv, NEW r \in Requests, LogKept(r),
         pc'[r] \in Active => pc[r] \in Active,
         turn'[r].conv = turn[r].conv, turn'[r].stored = turn[r].stored,
         turn'[r].plan = turn[r].plan, job'[r] = job[r],
         pc[r] \in Active => store'[turn[r].conv] = store[turn[r].conv]
  PROVE  LogKept(r)'
<1>1. pc[r] \in Active => turn[r].conv \in Conversations
  BY PlannedTurn DEF IInv
<1>2. pc[r] \in Active => Logs'[turn[r].conv] = Logs[turn[r].conv]
  BY <1>1 DEF Logs
<1> QED
  BY <1>2 DEF LogKept

(* Preparing a Page and sending the prompt keep what a turn was planned on.*)
LEMMA PlanIsKept ==
  ASSUME IInv, NEW r \in Requests, PreparePage(r) \/ Send(r)
  PROVE  /\ pc[r] \in Active
         /\ turn'[r].conv = turn[r].conv /\ turn'[r].stored = turn[r].stored
         /\ turn'[r].plan = turn[r].plan
<1>1. pc[r] \in Active /\ turn \in [Requests -> Turn \cup {NoTurn}]
  BY DEF PreparePage, Send, Active, IInv, TypeOK
<1>2. turn[r] \in Turn
  BY <1>1 DEF IInv, TurnInv, TurnOf
<1>3. \/ turn'[r] = [turn[r] EXCEPT !.prompt = "context"]
      \/ turn'[r] = [turn[r] EXCEPT !.prompt = "append", !.url = turn[r].stored.url]
      \/ \E u \in Urls : turn'[r] = [turn[r] EXCEPT !.url = u, !.baseline = Len(Prompted(r, u))]
  BY <1>1 DEF PreparePage, Send
<1> QED
  BY <1>1, <1>2, <1>3 DEF Turn

(* An anonymous request continues a Conversation it found by planning an   *)
(* append: it is planned the same way when its turn comes.                 *)
LEMMA ContinuationsAppend ==
  ASSUME NEW j \in Job, NEW c \in Continuations(j), NEW affinity
  PROVE  ~Rebuilds(PlanContextSync(store[c], CanonicalOf(j), affinity))
<1>1. /\ store[c].status = "clean"
      /\ PlanContextSync(store[c], CanonicalOf(j), FALSE).mode = "RESTORE"
  BY DEF Continuations
<1>2. store[c] # NoStored
  BY <1>1, NoStoredIsNoRecord
<1>3. ~MustRebuild(store[c], CanonicalOf(j))
  BY <1>1, <1>2 DEF PlanContextSync, Planned, PlanningError
<1> QED
  BY <1>2, <1>3 DEF PlanContextSync, Planned, PlanningError, Rebuilds

(* A checkpoint changes no log.                                            *)
LEMMA CheckpointKeepsLogs ==
  ASSUME IInv, NEW r \in Requests, Checkpoint(r), NEW c \in Conversations
  PROVE  Logs'[c] = Logs[c]
<1> DEFINE d == turn[r].conv
<1>1. /\ pc[r] = "ready" /\ pc[r] \in Active
      /\ store' = [store EXCEPT ![d] =
           IF turn[r].stored = NoStored THEN InFlightRecord(job[r])
           ELSE [store[d] EXCEPT !.status = "in_flight"]]
  BY DEF Checkpoint, Active
<1>2. /\ d \in Conversations /\ store[d] \in Record \cup {NoStored} /\ turn[r].stored = store[d]
      /\ store \in [Conversations -> Record \cup {NoStored}]
      /\ store'[d] # NoStored
  BY <1>1, PlannedTurn, CheckpointRecord, NoStoredIsNoRecord DEF IInv, TypeOK, TurnInv, TurnOf
<1> HIDE DEF d
<1>3. CASE c # d
  BY <1>1, <1>2, <1>3 DEF Logs
<1>4. CASE c = d /\ store[d] = NoStored
  <2>1. store'[d] = InFlightRecord(job[r])
    BY <1>1, <1>2, <1>4
  <2>2. store'[d].messages = <<>> /\ store'[d].synced = 0
    BY <2>1 DEF InFlightRecord
  <2>3. LoadedConversation(store'[d])
    BY CheckpointRecord DEF IInv, d
  <2>4. ConfirmedPrefix(store'[d]) = <<>>
    BY <1>2, <2>2, <2>3, ConfirmedPrefixType, EmptySeq
  <2> QED
    BY <1>2, <1>4, <2>4 DEF Logs
<1>5. CASE c = d /\ store[d] # NoStored
  <2>1. store'[d] = [store[d] EXCEPT !.status = "in_flight"] /\ store[d] \in Record
    BY <1>1, <1>2, <1>5
  <2>2. store'[d].messages = store[d].messages /\ store'[d].synced = store[d].synced
    BY <2>1 DEF Record
  <2> QED
    BY <1>2, <1>5, <2>2 DEF Logs, ConfirmedPrefix
<1> QED
  BY <1>3, <1>4, <1>5

LEMMA LogInvStep ==
  ASSUME IInv, LogInv, [Next]_vars
  PROVE  LogInv'
<1>0. /\ pc \in [Requests -> Phases] /\ job \in [Requests -> Job \cup {NoJob}]
      /\ turn \in [Requests -> Turn \cup {NoTurn}]
      /\ {"idle", "queued", "committed"} \cap Active = {}
      /\ \A r \in Requests : LogKept(r)
  BY DEF IInv, TypeOK, Active, LogInv
<1>1. ASSUME NEW r \in Requests, Submit(r) \/ Refuse(r) \/ Respond(r) \/ Fail(r), NEW x \in Requests
      PROVE  LogKept(x)'
  <2>1. /\ pc'[r] \notin Active /\ store' = store
        /\ x # r => pc'[x] = pc[x] /\ turn'[x] = turn[x] /\ job'[x] = job[x]
    BY <1>0, <1>1 DEF Submit, Refuse, Respond, Fail, Leave
  <2>2. CASE x = r
    BY <2>1, <2>2 DEF LogKept
  <2>3. CASE x # r
    BY <1>0, <2>1, <2>3, LogFrame
  <2> QED
    BY <2>2, <2>3
<1>2. ASSUME NEW r \in Requests, Start(r), NEW x \in Requests PROVE LogKept(x)'
  <2>1. PICK c \in Conversations, plan \in Plan, affinity \in Affinities :
          /\ turn' = [turn EXCEPT ![r] =
               [conv |-> c, stored |-> store[c], plan |-> plan,
                prompt |-> "none", url |-> NoUrl, baseline |-> 0]]
          /\ plan = PlanContextSync(store[c], CanonicalOf(job[r]), affinity)
          /\ c \in Existing(r) \/ (Existing(r) = {} /\ c \in FreshIds)
    BY <1>2, StartedTurn DEF IInv
  <2>2. /\ pc[r] = "queued" /\ store' = store /\ job' = job /\ job[r] \in Job
        /\ x # r => pc'[x] = pc[x] /\ turn'[x] = turn[x]
    BY <1>0, <1>2, <2>1 DEF Start, runVars, IInv, JobInv
  <2>3. CASE x = r
    <3>1. turn'[r].conv = c /\ turn'[r].stored = store[c] /\ turn'[r].plan = plan
      BY <1>0, <2>1
    <3>2. job[r].key = Anonymous /\ store[c] # NoStored => ~Rebuilds(plan)
      BY <2>1, <2>2, ExistingType, ContinuationsAppend DEF IInv, FreshIds
    <3>3. Logs'[c] = IF store[c] = NoStored THEN <<>> ELSE ConfirmedPrefix(store[c])
      BY <2>2 DEF Logs
    <3> QED
      BY <2>2, <2>3, <3>1, <3>2, <3>3 DEF LogKept
  <2>4. CASE x # r
    BY <1>0, <2>2, <2>4, LogFrame
  <2> QED
    BY <2>3, <2>4
<1>3. ASSUME NEW r \in Requests, PreparePage(r) \/ Send(r), NEW x \in Requests
      PROVE  LogKept(x)'
  <2>1. /\ store' = store /\ job' = job
        /\ x # r => pc'[x] = pc[x] /\ turn'[x] = turn[x]
    BY <1>0, <1>3 DEF PreparePage, Send, runVars
  <2> QED
    BY <1>0, <1>3, <2>1, PlanIsKept, LogFrame
<1>4. ASSUME NEW r \in Requests, Checkpoint(r), NEW x \in Requests PROVE LogKept(x)'
  <2>1. /\ turn' = turn /\ job' = job /\ pc[r] \in Active
        /\ pc'[x] \in Active => pc[x] \in Active
    BY <1>0, <1>4 DEF Checkpoint, runVars, Active
  <2>2. pc[x] \in Active => Logs'[turn[x].conv] = Logs[turn[x].conv]
    BY <1>4, CheckpointKeepsLogs, PlannedTurn DEF IInv
  <2> QED
    BY <1>0, <2>1, <2>2 DEF LogKept
<1>5. ASSUME NEW r \in Requests, Complete(r), NEW x \in Requests PROVE LogKept(x)'
  <2>1. /\ turn' = turn /\ job' = job /\ pc'[r] \notin Active
        /\ x # r => pc'[x] = pc[x]
    BY <1>0, <1>5 DEF Complete, runVars
  <2>2. CASE x = r \/ pc[x] \notin Active
    BY <2>1, <2>2 DEF LogKept
  <2>3. CASE x # r /\ pc[x] \in Active
    BY <1>0, <1>5, <2>1, <2>3, WritesApart, LogFrame
  <2> QED
    BY <2>2, <2>3
<1>6. ASSUME (\E u \in Urls : WebAnswer(u)) \/ UNCHANGED vars, NEW x \in Requests
      PROVE  LogKept(x)'
  <2>1. store' = store /\ pc' = pc /\ turn' = turn /\ job' = job
    BY <1>6 DEF WebAnswer, runVars, vars
  <2> QED
    BY <1>0, <2>1, LogFrame
<1>7. ASSUME Crash, NEW x \in Requests PROVE LogKept(x)'
  BY <1>0, <1>7 DEF Crash, LogKept
<1> QED
  BY <1>1, <1>2, <1>3, <1>4, <1>5, <1>6, <1>7 DEF Next, Step, LogInv

-----------------------------------------------------------------------------
(* Every step is one of the log, or none.                                  *)

(* The transcript a turn is going to save continues the log by the turn of *)
(* the client, or is the one the client sent.                              *)
LEMMA TranscriptForms ==
  ASSUME IInv, LogInv, NEW r \in Requests, pc[r] \in Active
  PROVE  /\ job[r].messages \in Transcripts
         /\ \/ Authoritative(r) = Logs[turn[r].conv] \o PendingTurn(job[r].messages)
            \/ /\ Authoritative(r) = job[r].messages
               /\ job[r].key = Anonymous => Logs[turn[r].conv] = <<>>
<1> DEFINE stored == turn[r].stored
           request == CanonicalOf(job[r])
           plan == turn[r].plan
           messages == job[r].messages
<1>1. /\ ValidRequest(job[r]) /\ LoadedConversation(stored) /\ job[r] \in Job /\ plan \in Plan
      /\ \E affinity \in Affinities : plan = PlanContextSync(stored, request, affinity)
      /\ LogKept(r)
  BY PlannedTurn DEF IInv, TurnInv, TurnOf, LogInv
<1>2. PICK affinity \in Affinities : plan = PlanContextSync(stored, request, affinity)
  BY <1>1
<1>3. messages \in Transcripts
  BY <1>1 DEF Job
<1>4. /\ PlannableRequest(request) /\ request.messages = messages
  BY <1>1, CanonicalIsPlannable
<1>5. /\ messages \in Seq(Message) /\ messages # <<>>
      /\ messages[Len(messages)].role \in {"user", "tool"}
  BY <1>1, <1>3, EngineAssumption DEF ValidRequest, ValidTranscript
<1>6. /\ Logs[turn[r].conv] = IF stored = NoStored THEN <<>> ELSE ConfirmedPrefix(stored)
      /\ job[r].key = Anonymous /\ stored # NoStored => ~Rebuilds(plan)
  BY <1>1 DEF LogKept
<1>7. Rebuilds(plan) => Authoritative(r) = plan.history \o plan.pending
  BY DEF Authoritative, AuthoritativeMessages
<1>8. ~Rebuilds(plan) => stored.messages \o plan.pending = Authoritative(r)
  BY PlannedTranscript DEF IInv
<1> HIDE DEF stored, request, plan, messages
<1>9. /\ plan.pending = PendingTurn(messages)
      /\ Rebuilds(plan) =>
           plan.history = IF request.mode = "full" \/ stored = NoStored
                          THEN RequestHistory(messages) ELSE ConfirmedPrefix(stored)
      /\ ~Rebuilds(plan) => stored # NoStored /\ ~MustRebuild(stored, request)
  BY <1>1, <1>2, <1>4, PlanShape, NoStoredIsNoRecord
<1>10. CASE ~Rebuilds(plan)
  <2>1. ConfirmedPrefix(stored) = stored.messages
    BY <1>1, <1>9, <1>10, ConfirmedPrefixType DEF MustRebuild
  <2> QED
    BY <1>3, <1>6, <1>8, <1>9, <1>10, <2>1 DEF messages
<1>11. CASE Rebuilds(plan) /\ (request.mode = "full" \/ stored = NoStored)
  <2>1. Authoritative(r) = messages
    BY <1>5, <1>7, <1>9, <1>11, RequestSplit
  <2> QED
    BY <1>3, <1>6, <1>11, <2>1 DEF messages
<1>12. CASE Rebuilds(plan) /\ ~(request.mode = "full" \/ stored = NoStored)
  BY <1>3, <1>6, <1>7, <1>9, <1>12 DEF messages
<1> QED
  BY <1>10, <1>11, <1>12

(* The first checkpoint of a Conversation creates it, a later one changes  *)
(* nothing of the log.                                                     *)
LEMMA CheckpointLogStep ==
  ASSUME IInv, NEW r \in Requests, Checkpoint(r),
         NEW c, c = turn[r].conv, NEW o, o = job[r].key
  PROVE  Log!Next \/ UNCHANGED Log!logVars
<1>1. /\ c \in Conversations /\ store' = [store EXCEPT ![c] = store'[c]]
      /\ store'[c] \in Record /\ store'[c].key = o
  BY CheckpointRecord DEF IInv
<1>2. /\ store \in [Conversations -> Record \cup {NoStored}]
      /\ pc[r] = "ready" /\ pc[r] \in Active
  BY DEF Checkpoint, Active, IInv, TypeOK
<1>3. /\ job[r] \in Job /\ o \in Keys \cup {Anonymous}
      /\ store[c] # NoStored => store[c].key = o
      /\ store[c] = NoStored /\ o # Anonymous =>
           \A d \in Conversations : store[d] # NoStored => store[d].key # o
  BY <1>2, PlannedTurn DEF IInv, TurnInv, TurnOf, Job
<1>4. Logs' = Logs
  BY CheckpointKeepsLogs DEF Logs
<1>5. store'[c] # NoStored /\ \A d \in Conversations \ {c} : store'[d] = store[d]
  BY <1>1, <1>2, NoStoredIsNoRecord
<1>6. CASE store[c] # NoStored
  <2>1. Owners' = Owners
    BY <1>1, <1>3, <1>5, <1>6 DEF Owners
  <2> QED
    BY <1>4, <2>1 DEF Log!logVars, Logs, Owners
<1>7. CASE store[c] = NoStored
  <2>1. Owners' = [Owners EXCEPT ![c] = o] /\ Owners[c] = NoConv
    BY <1>1, <1>5, <1>7 DEF Owners
  <2>2. o \in Keys => \A d \in Conversations : Owners[d] # o
    <3>1. o \in Keys => o # Anonymous /\ o # NoConv
      BY EngineAssumption
    <3> QED
      BY <1>3, <1>7, <3>1 DEF Owners
  <2>3. Log!Create(c, o)
    BY <1>4, <2>1, <2>2 DEF Log!Create, Logs, Owners
  <2> QED
    BY <1>1, <1>3, <2>3 DEF Log!Next
<1> QED
  BY <1>6, <1>7

(* Completing a turn continues the log or adopts the client's transcript.  *)
LEMMA CompleteLogStep ==
  ASSUME IInv, WebInv, LogInv, NEW r \in Requests, Complete(r),
         NEW c, c = turn[r].conv, NEW t, t = job[r].messages
  PROVE  Log!Next
<1>1. /\ c \in Conversations /\ store' = [store EXCEPT ![c] = store'[c]]
      /\ store[c] \in Record /\ store'[c] \in Record /\ LoadedConversation(store'[c])
      /\ store'[c].key = job[r].key
      /\ store'[c].messages = Final(r) /\ store'[c].synced = Len(Final(r))
  BY CompleteRecord DEF IInv
<1>2. /\ store \in [Conversations -> Record \cup {NoStored}]
      /\ pc[r] = "sent" /\ pc[r] \in Active /\ turn[r].url \notin generating
  BY DEF Complete, Active, IInv, TypeOK
<1>3. /\ store[c] # NoStored /\ store'[c] # NoStored
      /\ \A d \in Conversations \ {c} : store'[d] = store[d]
  BY <1>1, <1>2, NoStoredIsNoRecord
<1>4. job[r].key \in Keys \cup {Anonymous} /\ store[c].key = job[r].key
  BY <1>2, <1>3, PlannedTurn DEF IInv, TurnInv, TurnOf, Job
<1>5. PICK m \in Replies : Final(r) = Append(Authoritative(r), m)
  <2>1. Authoritative(r) \in Seq(Message) /\ turn[r].baseline = Len(Authoritative(r))
    BY <1>2, AuthoritativeIsNotEmpty DEF WebInv, Delivered
  <2>2. PICK m \in Replies : web[turn[r].url] = Append(Authoritative(r), m)
    BY <1>2 DEF WebInv, Delivered
  <2>3. web[turn[r].url][turn[r].baseline + 1] = m
    BY <2>1, <2>2, AppendProperties, RepliesAreMessages
  <2> QED
    BY <2>3 DEF Final
<1>6. ConfirmedPrefix(store'[c]) = Final(r)
  BY <1>1, <1>3, ConfirmedPrefixType
<1>7. /\ t \in Transcripts
      /\ \/ Authoritative(r) = Logs[c] \o PendingTurn(t)
         \/ Authoritative(r) = t /\ (job[r].key = Anonymous => Logs[c] = <<>>)
  BY <1>2, TranscriptForms
<1>8. Logs' = [Logs EXCEPT ![c] = Append(Authoritative(r), m)]
  BY <1>1, <1>3, <1>5, <1>6 DEF Logs
<1>9. Owners' = Owners /\ Owners[c] = job[r].key /\ Owners[c] # NoConv
  <2>1. job[r].key # NoConv
    BY <1>4, EngineAssumption DEF Anonymous, NoConv
  <2> QED
    BY <1>1, <1>3, <1>4, <2>1 DEF Owners
<1>10. m \in Log!Answer /\ Log!PendingTurn(t) = PendingTurn(t)
  BY SharedOperators
<1>11. CASE Authoritative(r) = Logs[c] \o PendingTurn(t)
  <2>1. Logs' = [Logs EXCEPT ![c] = Append(Logs[c] \o Log!PendingTurn(t), m)]
    BY <1>8, <1>10, <1>11
  <2>2. Log!Continue(c)
    BY <1>7, <1>9, <1>10, <2>1 DEF Log!Continue, Logs, Owners
  <2> QED
    BY <1>1, <2>2 DEF Log!Next
<1>12. CASE Authoritative(r) = t /\ (job[r].key = Anonymous => Logs[c] = <<>>)
  <2>1. Owners[c] \in Keys \/ Logs[c] = <<>>
    BY <1>4, <1>9, <1>12
  <2>2. Log!Adopt(c)
    BY <1>7, <1>8, <1>9, <1>10, <1>12, <2>1, ZenonT(30) DEF Log!Adopt, Logs, Owners
  <2> QED
    BY <1>1, <2>2 DEF Log!Next
<1> QED
  BY <1>7, <1>11, <1>12

LEMMA LogStep ==
  IInv /\ WebInv /\ LogInv /\ [Next]_vars => [Log!Next]_(Log!logVars)
<1> SUFFICES ASSUME IInv, WebInv, LogInv, [Next]_vars
             PROVE  Log!Next \/ UNCHANGED Log!logVars
  OBVIOUS
<1>1. CASE store' = store
  BY <1>1 DEF Log!logVars
<1>2. store' = store \/ \E r \in Requests : Checkpoint(r) \/ Complete(r)
  BY DEF Next, Step, Submit, Start, Refuse, PreparePage, Send, WebAnswer, Respond, Fail, Crash, vars
<1> QED
  BY <1>1, <1>2, CheckpointLogStep, CompleteLogStep

(* The engine implements the abstract log, whatever requests, failures and *)
(* crashes come: a log grows by whole turns, only the owner of a key ever  *)
(* replaces one, and an anonymous one is never overwritten.                *)
THEOREM EngineImplementsLog == Spec => ImplementsLog
<1>1. Init => LogInv /\ Log!Init
  BY DEF Init, LogInv, LogKept, Active, Log!Init
<1>2. IInv /\ LogInv /\ [Next]_vars => LogInv'
  BY LogInvStep
<1> QED
  BY <1>1, <1>2, InvariantHolds, WebInvariantHolds, LogStep, PTL
     DEF Spec, ImplementsLog, Log!Spec

-----------------------------------------------------------------------------
(* Calls and results are in order wherever messages are kept: in the rows, *)
(* on the website and in what running turns were planned against.          *)
CallsInv ==
  /\ \A c \in Conversations : store[c] # NoStored => CallsMatch(store[c].messages)
  /\ \A u \in Urls : CallsMatch(web[u])
  /\ \A r \in Requests : pc[r] \in Active /\ turn[r].stored # NoStored =>
       CallsMatch(turn[r].stored.messages)

LEMMA EmptyMatches == CallsMatch(<<>>)
BY DEF CallsMatch

LEMMA TurnMatches ==
  ASSUME IInv, CallsInv, NEW r \in Requests, pc[r] \in Active
  PROVE  CallsMatch(Authoritative(r))
<1> DEFINE m == job[r].messages
<1>1. /\ turn[r].plan \in Plan /\ job[r] \in Job
      /\ ValidRequest(job[r]) /\ LoadedConversation(turn[r].stored)
  BY PlannedTurn DEF IInv, TurnInv, TurnOf
<1>2. PICK affinity \in Affinities :
        turn[r].plan = PlanContextSync(turn[r].stored, CanonicalOf(job[r]), affinity)
  BY DEF IInv, TurnInv, TurnOf
<1>3. /\ m \in Seq(Message) /\ OnlyAssistantsCall(m) /\ NoCall \notin CallIds
      /\ ValidTranscript(m) /\ CanonicalOf(job[r]) = CanonicalRequest(job[r].context, m)
  BY <1>1, EngineAssumption DEF Job, ValidRequest, CanonicalOf
<1>4. turn[r].plan # PlanningError
  BY <1>1, NoStoredIsNoRecord
<1>5. turn[r].stored # NoStored => CallsMatch(turn[r].stored.messages)
  BY DEF CallsInv
<1> HIDE DEF m
<1> QED
  BY <1>1, <1>2, <1>3, <1>4, <1>5, AuthoritativeMatches DEF Authoritative

(* Steps that move no message.                                             *)
LEMMA CallsFrame ==
  ASSUME CallsInv, store' = store, web' = web,
         \A x \in Requests : pc'[x] \in Active =>
           pc[x] \in Active /\ turn'[x].stored = turn[x].stored
  PROVE  CallsInv'
BY DEF CallsInv

LEMMA CallsStep == IInv /\ WebInv /\ CallsInv /\ [Next]_vars => CallsInv'
<1> SUFFICES ASSUME IInv, WebInv, CallsInv, [Next]_vars PROVE CallsInv'
  OBVIOUS
<1>0. /\ pc \in [Requests -> Phases] /\ turn \in [Requests -> Turn \cup {NoTurn}]
      /\ web \in [Urls -> Seq(Message)]
      /\ store \in [Conversations -> Record \cup {NoStored}]
      /\ {"idle", "queued", "committed"} \cap Active = {}
      /\ {"planned", "ready", "checkpointed", "sent"} = Active
  BY DEF IInv, TypeOK, Active
<1>1. ASSUME NEW r \in Requests, Submit(r) PROVE CallsInv'
  <2>1. /\ pc' = [pc EXCEPT ![r] = "queued"] /\ turn' = turn
        /\ store' = store /\ web' = web
    BY <1>1 DEF Submit
  <2> QED
    BY <1>0, <2>1, CallsFrame
<1>2. ASSUME NEW r \in Requests, Start(r) PROVE CallsInv'
  <2>1. PICK c \in Conversations, plan \in Plan, affinity \in Affinities :
          turn' = [turn EXCEPT ![r] =
            [conv |-> c, stored |-> store[c], plan |-> plan,
             prompt |-> "none", url |-> NoUrl, baseline |-> 0]]
    BY <1>2, StartedTurn DEF IInv
  <2>2. turn'[r].stored = store[c] /\ \A x \in Requests \ {r} : turn'[x] = turn[x]
    BY <1>0, <2>1
  <2>3. pc' = [pc EXCEPT ![r] = "planned"] /\ store' = store /\ web' = web
    BY <1>2 DEF Start
  <2> QED
    BY <1>0, <2>2, <2>3 DEF CallsInv
<1>3. ASSUME NEW r \in Requests, Refuse(r) \/ Respond(r) \/ Fail(r) PROVE CallsInv'
  <2>1. /\ pc' = [pc EXCEPT ![r] = "idle"] /\ turn' = [turn EXCEPT ![r] = NoTurn]
        /\ store' = store /\ web' = web
    BY <1>3 DEF Refuse, Respond, Fail, Leave
  <2> QED
    BY <1>0, <2>1, CallsFrame
<1>4. ASSUME NEW r \in Requests, PreparePage(r) PROVE CallsInv'
  <2>1. pc[r] \in Active /\ turn'[r].stored = turn[r].stored
    BY <1>4, PlanIsKept
  <2>2. /\ pc' = [pc EXCEPT ![r] = "ready"] /\ store' = store /\ web' = web
        /\ \A x \in Requests \ {r} : turn'[x] = turn[x]
    BY <1>0, <1>4 DEF PreparePage
  <2> QED
    BY <1>0, <2>1, <2>2, CallsFrame
<1>5. ASSUME NEW r \in Requests, Checkpoint(r) PROVE CallsInv'
  <2> DEFINE c == turn[r].conv
  <2>1. /\ pc[r] = "ready" /\ pc' = [pc EXCEPT ![r] = "checkpointed"]
        /\ turn' = turn /\ web' = web
        /\ store' = [store EXCEPT ![c] = IF turn[r].stored = NoStored THEN InFlightRecord(job[r])
                                         ELSE [store[c] EXCEPT !.status = "in_flight"]]
    BY <1>5 DEF Checkpoint
  <2>2. c \in Conversations /\ turn[r].stored = store[c]
    BY <1>0, <2>1, PlannedTurn DEF IInv, TurnInv, TurnOf
  <2>3. store[c] # NoStored => store[c] \in Record
    BY <1>0, <2>2
  <2> HIDE DEF c
  <2>4. store'[c].messages = IF store[c] = NoStored THEN <<>> ELSE store[c].messages
    BY <1>0, <2>1, <2>2, <2>3 DEF InFlightRecord, Record
  <2>5. \A d \in Conversations \ {c} : store'[d] = store[d]
    BY <1>0, <2>1, <2>2
  <2> QED
    BY <1>0, <2>1, <2>2, <2>4, <2>5, EmptyMatches DEF CallsInv
<1>6. ASSUME NEW r \in Requests, Send(r) PROVE CallsInv'
  <2>1. pc[r] = "checkpointed" /\ pc' = [pc EXCEPT ![r] = "sent"] /\ store' = store
    BY <1>6 DEF Send
  <2>2. PICK u \in Urls :
          /\ IF turn[r].prompt = "append" THEN u = turn[r].url ELSE web[u] = <<>>
          /\ web' = [web EXCEPT ![u] = Prompted(r, u)]
          /\ turn' = [turn EXCEPT ![r].url = u, ![r].baseline = Len(Prompted(r, u))]
    BY <1>6 DEF Send
  <2>3. Prompted(r, u) = Authoritative(r) /\ CallsMatch(Authoritative(r))
    BY <1>0, <2>1, <2>2, SentPrompt, TurnMatches
  <2>4. turn'[r].stored = turn[r].stored /\ \A x \in Requests \ {r} : turn'[x] = turn[x]
    BY <1>0, <1>6, <2>2, PlanIsKept
  <2>5. \A x \in Urls : CallsMatch(web'[x])
    BY <1>0, <2>2, <2>3 DEF CallsInv
  <2> QED
    BY <1>0, <2>1, <2>4, <2>5 DEF CallsInv
<1>7. ASSUME NEW r \in Requests, Complete(r) PROVE CallsInv'
  <2> DEFINE c == turn[r].conv
  <2>1. /\ pc[r] = "sent" /\ pc' = [pc EXCEPT ![r] = "committed"]
        /\ turn' = turn /\ web' = web
    BY <1>7 DEF Complete
  <2>2. /\ c \in Conversations /\ turn[r].url \in Urls
        /\ store' = [store EXCEPT ![c] = store'[c]]
        /\ store'[c].messages = Final(r)
    BY <1>7, CompleteRecord DEF IInv
  <2>3. Final(r) = web[turn[r].url]
    BY <1>7, SavedIsOnTheWeb
  <2> HIDE DEF c
  <2>4. \A d \in Conversations \ {c} : store'[d] = store[d]
    BY <1>0, <2>2
  <2>5. CallsMatch(store'[c].messages)
    BY <2>2, <2>3 DEF CallsInv
  <2> QED
    BY <1>0, <2>1, <2>4, <2>5 DEF CallsInv
<1>8. ASSUME NEW u \in Urls, WebAnswer(u) PROVE CallsInv'
  <2>1. pc' = pc /\ turn' = turn /\ store' = store
    BY <1>8 DEF WebAnswer
  <2>2. PICK b \in Answers, C \in SUBSET (CallIds \ UsedCalls) :
          web' = [web EXCEPT ![u] = Append(web[u], AssistantCalls(b, C))]
    BY <1>8 DEF WebAnswer
  <2>3. /\ AssistantCalls(b, C) \in Message /\ AssistantCalls(b, C).role # "tool"
        /\ AssistantCalls(b, C).calls \cap CallsMade(web[u]) = {}
    <3>1. CallsMade(web[u]) \subseteq UsedCalls
      BY DEF UsedCalls
    <3>2. AssistantCalls(b, C) \in Message
      BY MessageTypes, EngineAssumption
    <3> QED
      BY <3>1, <3>2 DEF AssistantCalls
  <2>4. CallsMatch(Append(web[u], AssistantCalls(b, C)))
    BY <1>0, <2>3, AppendMatches DEF CallsInv
  <2>5. \A x \in Urls : CallsMatch(web'[x])
    BY <1>0, <2>2, <2>4 DEF CallsInv
  <2> QED
    BY <2>1, <2>5 DEF CallsInv
<1>9. CASE Crash
  <2>1. pc' = [r \in Requests |-> "idle"] /\ store' = store /\ web' = web
    BY <1>9 DEF Crash
  <2> QED
    BY <1>0, <2>1, CallsFrame
<1>10. CASE UNCHANGED vars
  BY <1>10, CallsFrame DEF vars
<1> QED
  BY <1>1, <1>2, <1>3, <1>4, <1>5, <1>6, <1>7, <1>8, <1>9, <1>10 DEF Next, Step

(* Whatever clients send and in whatever order turns, failures and crashes *)
(* happen, a saved Conversation passes validateAggregate: no tool call is  *)
(* made twice, and every result follows its call and is its only one.      *)
THEOREM ToolCallsAreSound == Spec => []ToolCallsSound
<1>1. Init => CallsInv
  <2> SUFFICES ASSUME Init PROVE CallsInv
    OBVIOUS
  <2>1. /\ \A c \in Conversations : store[c] = NoStored
        /\ \A u \in Urls : web[u] = <<>>
        /\ \A r \in Requests : pc[r] = "idle"
    BY DEF Init
  <2> QED
    BY <2>1, EmptyMatches DEF CallsInv, Active
<1>2. CallsInv => ToolCallsSound
  BY DEF CallsInv, CallsMatch, ToolCallsSound
<1> QED
  BY <1>1, <1>2, CallsStep, InvariantHolds, WebInvariantHolds, PTL DEF Spec

(* Clients that stream and do not read take nothing away from the          *)
(* invariants above: a turn that waits for its client, with its Page and   *)
(* its place in the queue, is one that has not taken its next step yet     *)
(* (StreamClients).                                                        *)
THEOREM WaitingIsStuttering == StreamSpec => Spec
<1>1. StreamInit => Init
  BY DEF StreamInit
<1>2. [StreamNext]_streamVars => [Next]_vars
  <2> SUFFICES ASSUME [StreamNext]_streamVars
               PROVE  [Next]_vars
    OBVIOUS
  <2>1. ASSUME NEW r \in Requests, StreamStep(r) \/ Drain(r)
        PROVE  [Next]_vars
    <3>1. CASE StreamStep(r)
      BY <3>1 DEF StreamStep, Next
    <3>2. CASE Drain(r)
      BY <3>2 DEF Drain
    <3> QED
      BY <2>1, <3>1, <3>2
  <2>2. CASE \E r \in Requests : Submit(r)
    BY <2>2 DEF Next
  <2>3. CASE \E u \in Urls : WebAnswer(u)
    BY <2>3 DEF Next
  <2>4. CASE Crash
    BY <2>4 DEF Next
  <2>5. CASE UNCHANGED streamVars
    BY <2>5 DEF streamVars
  <2> QED
    BY <2>1, <2>2, <2>3, <2>4, <2>5 DEF StreamNext
<1> QED
  BY <1>1, <1>2, PTL DEF StreamSpec, Spec
=============================================================================
