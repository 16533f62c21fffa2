------------------------- MODULE ConversationEngine -------------------------
(***************************************************************************)
(* The Conversation Engine (src/conversations/conversation-engine.ts) with *)
(* the per-key FIFO of src/conversations/conversation-queue.ts and the     *)
(* sync checkpoints of src/persistence/conversation-store.ts.              *)
(*                                                                         *)
(* Each request runs one turn: wait in the queue, load and plan, prepare a *)
(* Page, checkpoint the Conversation as in_flight, send the prompt to the  *)
(* ChatGPT website, read the answer, save the aggregate as clean.  Between *)
(* any two of these steps other requests run, the turn can fail or be      *)
(* aborted, or the process can crash; database and website survive.        *)
(*                                                                         *)
(* The website is external.  web[u] is what the conversation at URL u has  *)
(* been told and has answered: a Context Prompt counts as the messages it  *)
(* carries.  Pages are left to module PageRegistry: here preparing a Page  *)
(* shows the conversation as the website has it, or fails.                 *)
(***************************************************************************)
EXTENDS ContextPlanner

CONSTANTS
  Requests,       \* the requests that can be in progress at the same time
  Keys,           \* values of X-Conversation-Key
  Conversations,  \* persisted Conversation ids
  Transcripts,    \* the message sequences clients send
  Answers,        \* the texts the website answers with
  Affinities,     \* the answers of pageRegistry.hasAffinity
  MaxSubmits,     \* bound: requests submitted in a behaviour
  MaxCrashes      \* bound: crashes in a behaviour

Anonymous == "anonymous"
NoConv    == "no conversation"
NoContext == "no context"

ASSUME EngineAssumption ==
  /\ Keys \cap Conversations = {}
  /\ {Anonymous, NoConv} \cap (Keys \cup Conversations) = {}
  /\ NoUrl \notin Urls /\ NoCall \notin CallIds
  /\ Transcripts \subseteq Seq(Message) \ {<<>>}
  /\ \A t \in Transcripts : OnlyAssistantsCall(t)
  /\ Answers \subseteq Bodies
  /\ Affinities \subseteq BOOLEAN
  /\ MaxSubmits \in Nat /\ MaxCrashes \in Nat

VARIABLES
  store,      \* the conversations table with its messages
  queue,      \* the FIFO of every queue key
  pc,         \* where each request is
  job,        \* the client request each one serves
  slot,       \* the queue key each one runs under
  turn,       \* what executeConversation holds in its local variables
  web,        \* the website's conversations
  generating, \* the URLs where an answer is being generated
  submits,    \* requests submitted so far
  crashes     \* crashes so far

runVars == <<queue, job, slot>>
bounds  == <<submits, crashes>>
vars    == <<store, queue, pc, job, slot, turn, web, generating, submits, crashes>>

QueueKeys == Keys \cup Conversations  \* anonymous:<id> is written as the id

Job   == [key : Keys \cup {Anonymous}, context : Contexts, messages : Transcripts]
NoJob == [key |-> Anonymous, context |-> NoContext, messages |-> <<>>]

Record ==
  [key : Keys \cup {Anonymous}, context : Contexts, messages : Seq(Message),
   url : Urls \cup {NoUrl}, status : {"clean", "in_flight"}, synced : Nat]

Turn ==
  [conv : Conversations, stored : Record \cup {NoStored}, plan : Plan,
   prompt : {"none", "context", "append"}, url : Urls \cup {NoUrl}, baseline : Nat]
NoTurn ==
  [conv |-> NoConv, stored |-> NoStored, plan |-> PlanningError,
   prompt |-> "none", url |-> NoUrl, baseline |-> 0]

Active == {"planned", "ready", "checkpointed", "sent"}
Phases == {"idle", "queued", "committed"} \cup Active

Init ==
  /\ store = [c \in Conversations |-> NoStored]
  /\ queue = [q \in QueueKeys |-> <<>>]
  /\ pc = [r \in Requests |-> "idle"]
  /\ job = [r \in Requests |-> NoJob]
  /\ slot = [r \in Requests |-> NoConv]
  /\ turn = [r \in Requests |-> NoTurn]
  /\ web = [u \in Urls |-> <<>>]
  /\ generating = {}
  /\ submits = 0
  /\ crashes = 0

-----------------------------------------------------------------------------
(* Which Conversation a request continues.                                 *)

CanonicalOf(j) == CanonicalRequest(j.context, j.messages)

(* Tool results alone need a key that says which Conversation they answer. *)
ValidRequest(j) ==
  /\ ValidTranscript(j.messages)
  /\ ToolOnly(j.messages) => j.key # Anonymous

(* The clean anonymous Conversations a full request provably continues.    *)
Continuations(j) ==
  {c \in Conversations :
     /\ store[c].status = "clean"
     /\ store[c].key = Anonymous
     /\ store[c].url # NoUrl
     /\ ValidRequest(j)
     /\ RequestMode(j.messages) = "full"
     /\ RequestHistory(j.messages) # <<>>
     /\ store[c].synced = Len(RequestHistory(j.messages))
     /\ PlanContextSync(store[c], CanonicalOf(j), FALSE).mode = "RESTORE"}

KeyOwners(k) == {c \in Conversations : store[c] # NoStored /\ store[c].key = k}

(* Mutant of Existing: the anonymous match is not looked up again after    *)
(* the wait in the queue.                                                  *)
ExistingUnverified(r) ==
  IF job[r].key # Anonymous THEN KeyOwners(job[r].key)
  ELSE IF slot[r] # NoConv THEN {slot[r]} ELSE {}

(* The Conversation that is loaded when the request gets its turn: by key, *)
(* or the anonymous match, which must still be the one it queued for.      *)
Existing(r) ==
  IF job[r].key # Anonymous THEN KeyOwners(job[r].key)
  ELSE IF Continuations(job[r]) = {slot[r]} THEN {slot[r]}
  ELSE {}

(* randomUuid: an id no row and no running turn has.                       *)
FreshIds ==
  {c \in Conversations : store[c] = NoStored /\ \A r \in Requests : turn[r].conv # c}

-----------------------------------------------------------------------------
(* Queueing.                                                               *)

(* Mutant of QueueKeyOf: a key nobody has used yet needs no queue.         *)
QueueKeyOfKnown(j) ==
  IF j.key # Anonymous /\ KeyOwners(j.key) # {} THEN j.key
  ELSE IF \E c \in Conversations : Continuations(j) = {c}
  THEN CHOOSE c \in Conversations : Continuations(j) = {c}
  ELSE NoConv

(* A keyed request queues under its key.  An anonymous one queues under    *)
(* the Conversation it uniquely continues, else it runs without a queue.   *)
QueueKeyOf(j) ==
  IF j.key # Anonymous THEN j.key
  ELSE IF \E c \in Conversations : Continuations(j) = {c}
  THEN CHOOSE c \in Conversations : Continuations(j) = {c}
  ELSE NoConv

Submit(r) ==
  /\ pc[r] = "idle"
  /\ submits < MaxSubmits
  /\ \E j \in Job :
       LET place == QueueKeyOf(j) IN
       /\ job' = [job EXCEPT ![r] = j]
       /\ slot' = [slot EXCEPT ![r] = place]
       /\ queue' = IF place = NoConv THEN queue
                   ELSE [queue EXCEPT ![place] = Append(@, r)]
  /\ pc' = [pc EXCEPT ![r] = "queued"]
  /\ submits' = submits + 1
  /\ UNCHANGED <<store, turn, web, generating, crashes>>

(* Mutant of HasTurn: the queue does not wait.                             *)
HasTurnAtOnce(r) == slot[r] # NoConv => queue[slot[r]] # <<>>

HasTurn(r) == slot[r] # NoConv => Head(queue[slot[r]]) = r

(* Mutants of Leave: a failure leaves the tail of the queue behind, and a  *)
(* turn that is only partly reset.                                         *)
LeaveBlocking(r) ==
  /\ pc' = [pc EXCEPT ![r] = "idle"]
  /\ job' = [job EXCEPT ![r] = NoJob]
  /\ slot' = [slot EXCEPT ![r] = NoConv]
  /\ turn' = [turn EXCEPT ![r] = NoTurn]
  /\ queue' = IF slot[r] = NoConv \/ pc[r] # "committed" THEN queue
              ELSE [queue EXCEPT ![slot[r]] = Tail(@)]

LeaveHalfReset(r) ==
  /\ pc' = [pc EXCEPT ![r] = "idle"]
  /\ job' = [job EXCEPT ![r] = NoJob]
  /\ slot' = [slot EXCEPT ![r] = NoConv]
  /\ turn' = [turn EXCEPT ![r].conv = NoConv]
  /\ queue' = IF slot[r] = NoConv THEN queue ELSE [queue EXCEPT ![slot[r]] = Tail(@)]

(* The request ends: its place in the queue passes to the next one.        *)
Leave(r) ==
  /\ pc' = [pc EXCEPT ![r] = "idle"]
  /\ job' = [job EXCEPT ![r] = NoJob]
  /\ slot' = [slot EXCEPT ![r] = NoConv]
  /\ turn' = [turn EXCEPT ![r] = NoTurn]
  /\ queue' = IF slot[r] = NoConv THEN queue ELSE [queue EXCEPT ![slot[r]] = Tail(@)]

-----------------------------------------------------------------------------
(* One turn.                                                               *)

(* Load the Conversation, canonicalize the request and plan it.  A fresh   *)
(* Conversation gets a new id and has no Page.                             *)
Start(r) ==
  /\ pc[r] = "queued" /\ HasTurn(r)
  /\ ValidRequest(job[r])
  /\ \E c \in IF Existing(r) = {} THEN FreshIds ELSE Existing(r),
        affinity \in Affinities :
       LET plan == PlanContextSync(store[c], CanonicalOf(job[r]), affinity) IN
       /\ plan # PlanningError
       /\ turn' = [turn EXCEPT ![r] =
            [conv |-> c, stored |-> store[c], plan |-> plan,
             prompt |-> "none", url |-> NoUrl, baseline |-> 0]]
  /\ pc' = [pc EXCEPT ![r] = "planned"]
  /\ UNCHANGED <<store, runVars, web, generating, bounds>>

(* An invalid transcript or pending turn is refused before any effect.     *)
Refuse(r) ==
  /\ pc[r] = "queued" /\ HasTurn(r)
  /\ ValidRequest(job[r]) =>
       \E stored \in IF Existing(r) = {} THEN {NoStored} ELSE {store[c] : c \in Existing(r)} :
         PlanContextSync(stored, CanonicalOf(job[r]), FALSE) = PlanningError
  /\ Leave(r)
  /\ UNCHANGED <<store, web, generating, bounds>>

(* Acquire a Page and open a fresh chat on it, or the saved URL.  When the *)
(* saved URL cannot be restored the turn falls back to a fresh chat.       *)
PreparePage(r) ==
  /\ pc[r] = "planned"
  /\ \/ turn' = [turn EXCEPT ![r].prompt = "context"]
     \/ /\ ~Rebuilds(turn[r].plan)
        /\ turn' = [turn EXCEPT ![r].prompt = "append", ![r].url = turn[r].stored.url]
  /\ pc' = [pc EXCEPT ![r] = "ready"]
  /\ UNCHANGED <<store, runVars, web, generating, bounds>>

(* Mark the Conversation in_flight before anything can reach the website.  *)
InFlightRecord(j) ==
  [key |-> j.key, context |-> j.context, messages |-> <<>>,
   url |-> NoUrl, status |-> "in_flight", synced |-> 0]

(* Mutant of Checkpoint: only new Conversations are marked.                *)
CheckpointNew(r) ==
  /\ pc[r] = "ready"
  /\ store' = IF turn[r].stored = NoStored
              THEN [store EXCEPT ![turn[r].conv] = InFlightRecord(job[r])] ELSE store
  /\ pc' = [pc EXCEPT ![r] = "checkpointed"]
  /\ UNCHANGED <<runVars, turn, web, generating, bounds>>

Checkpoint(r) ==
  /\ pc[r] = "ready"
  /\ store' = [store EXCEPT ![turn[r].conv] =
        IF turn[r].stored = NoStored THEN InFlightRecord(job[r])
        ELSE [@ EXCEPT !.status = "in_flight"]]
  /\ pc' = [pc EXCEPT ![r] = "checkpointed"]
  /\ UNCHANGED <<runVars, turn, web, generating, bounds>>

(* The transcript the Conversation is to have, and the prompt that is      *)
(* meant to bring the website there: an append prompt carries the pending  *)
(* turn to the open conversation, a context prompt starts a new one.       *)
Authoritative(r) == AuthoritativeMessages(turn[r].stored, CanonicalOf(job[r]), turn[r].plan)

PromptHistory(r) == ContextHistory(turn[r].stored, CanonicalOf(job[r]), turn[r].plan)

Prompted(r, u) ==
  (IF turn[r].prompt = "append" THEN web[u] ELSE PromptHistory(r)) \o turn[r].plan.pending

(* Mutant of Send: a context prompt does not need a fresh chat.            *)
SendAnywhere(r) ==
  /\ pc[r] = "checkpointed"
  /\ \E u \in Urls :
       /\ turn[r].prompt = "append" => u = turn[r].url
       /\ web' = [web EXCEPT ![u] = Prompted(r, u)]
       /\ turn' = [turn EXCEPT ![r].url = u, ![r].baseline = Len(Prompted(r, u))]
       /\ generating' = generating \cup {u}
  /\ pc' = [pc EXCEPT ![r] = "sent"]
  /\ UNCHANGED <<store, runVars, bounds>>

Send(r) ==
  /\ pc[r] = "checkpointed"
  /\ \E u \in Urls :
       /\ IF turn[r].prompt = "append" THEN u = turn[r].url ELSE web[u] = <<>>
       /\ web' = [web EXCEPT ![u] = Prompted(r, u)]
       /\ turn' = [turn EXCEPT ![r].url = u, ![r].baseline = Len(Prompted(r, u))]
       /\ generating' = generating \cup {u}
  /\ pc' = [pc EXCEPT ![r] = "sent"]
  /\ UNCHANGED <<store, runVars, bounds>>

(* The answer appears on the website, complete or stopped short, whether   *)
(* or not anyone still waits for it.  The ids the engine draws for the     *)
(* tool calls it parses out of an answer are drawn here.                   *)
UsedCalls ==
  UNION ({CallsMade(web[u]) : u \in Urls} \cup {CallsMade(job[r].messages) : r \in Requests})

WebAnswer(u) ==
  /\ u \in generating
  /\ \E b \in Answers, C \in SUBSET (CallIds \ UsedCalls) :
       web' = [web EXCEPT ![u] = Append(@, AssistantCalls(b, C))]
  /\ generating' = generating \ {u}
  /\ UNCHANGED <<store, pc, turn, runVars, bounds>>

(* The first turn past the baseline is complete: the transcript with it is *)
(* saved as clean in one transaction and the Page is given back.           *)
Final(r) == Append(Authoritative(r), web[turn[r].url][turn[r].baseline + 1])

Complete(r) ==
  /\ pc[r] = "sent"
  /\ turn[r].url \notin generating
  /\ Len(web[turn[r].url]) > turn[r].baseline
  /\ store' = [store EXCEPT ![turn[r].conv] =
        [key |-> @.key, context |-> job[r].context, messages |-> Final(r),
         url |-> turn[r].url, status |-> "clean", synced |-> Len(Final(r))]]
  /\ pc' = [pc EXCEPT ![r] = "committed"]
  /\ UNCHANGED <<runVars, turn, web, generating, bounds>>

(* The client gets its answer, unless it has gone away by now.             *)
Respond(r) ==
  /\ pc[r] = "committed"
  /\ Leave(r)
  /\ UNCHANGED <<store, web, generating, bounds>>

(* A step of the turn throws or times out, or the client goes away: the    *)
(* Page is discarded and the checkpoint stays as it is.                    *)
Fail(r) ==
  /\ pc[r] \in Active
  /\ Leave(r)
  /\ UNCHANGED <<store, web, generating, bounds>>

(* The process dies and is restarted: what it held in memory is gone.      *)
Crash ==
  /\ crashes < MaxCrashes
  /\ crashes' = crashes + 1
  /\ queue' = [q \in QueueKeys |-> <<>>]
  /\ pc' = [r \in Requests |-> "idle"]
  /\ job' = [r \in Requests |-> NoJob]
  /\ slot' = [r \in Requests |-> NoConv]
  /\ turn' = [r \in Requests |-> NoTurn]
  /\ UNCHANGED <<store, web, generating, submits>>

Step(r) ==
  \/ Start(r) \/ Refuse(r) \/ PreparePage(r) \/ Checkpoint(r)
  \/ Send(r) \/ Complete(r) \/ Respond(r) \/ Fail(r)

Next ==
  \/ \E r \in Requests : Submit(r) \/ Step(r)
  \/ \E u \in Urls : WebAnswer(u)
  \/ Crash

Spec == Init /\ [][Next]_vars

-----------------------------------------------------------------------------
(* Types of all variables.                                                 *)
TypeOK ==
  /\ store \in [Conversations -> Record \cup {NoStored}]
  /\ queue \in [QueueKeys -> Seq(Requests)]
  /\ pc \in [Requests -> Phases]
  /\ job \in [Requests -> Job \cup {NoJob}]
  /\ slot \in [Requests -> QueueKeys \cup {NoConv}]
  /\ turn \in [Requests -> Turn \cup {NoTurn}]
  /\ web \in [Urls -> Seq(Message)]
  /\ generating \subseteq Urls
  /\ submits \in Nat /\ crashes \in Nat

(* A clean Conversation is what the website shows at its URL, message by   *)
(* message, and nothing is being generated there: appending to it is safe. *)
(* Turns that fail, time out or die with the process after their prompt    *)
(* was sent leave the website ahead of the database, never the row clean.  *)
CleanMatchesWeb ==
  \A c \in Conversations : store[c].status = "clean" =>
    /\ web[store[c].url] = store[c].messages
    /\ store[c].synced = Len(store[c].messages)
    /\ store[c].url \notin generating

(* Whatever plan and prompt a turn took, and the fallback of a failed      *)
(* restore in particular, what the website was told is the transcript the  *)
(* turn is going to save, and at most one answer follows it.               *)
PromptDeliversTranscript ==
  \A r \in Requests : pc[r] = "sent" =>
    /\ HasPrefix(web[turn[r].url], Authoritative(r))
    /\ Len(web[turn[r].url]) <= Len(Authoritative(r)) + 1

(* No two Conversations, and no Conversation and another one's turn, share *)
(* a conversation of the website.                                          *)
UrlExclusive ==
  /\ \A c, d \in Conversations :
       c # d /\ store[c] # NoStored /\ store[d] # NoStored /\ store[c].url # NoUrl =>
         store[c].url # store[d].url
  /\ \A r \in Requests, c \in Conversations :
       pc[r] \in Active /\ turn[r].url # NoUrl /\ turn[r].conv # c /\ store[c] # NoStored =>
         store[c].url # turn[r].url

(* At most one turn is being executed per Conversation, keyed or anonymous.*)
OneTurnPerConversation ==
  \A r, s \in Requests :
    r # s /\ pc[r] \in Active /\ pc[s] \in Active => turn[r].conv # turn[s].conv

(* A key names one Conversation, however requests and crashes interleave.  *)
OneConversationPerKey ==
  \A k \in Keys : \A c, d \in KeyOwners(k) : c = d

(* From before its prompt can reach the website until it is saved, a turn  *)
(* has its Conversation marked in_flight.                                  *)
InFlightWhileUncertain ==
  \A r \in Requests : pc[r] \in {"checkpointed", "sent"} =>
    store[turn[r].conv].status = "in_flight"

(* What is saved passes validateAggregate, and every tool call of a        *)
(* Conversation has at most one result, which comes after it.              *)
ToolCallsSound ==
  \A c \in Conversations : store[c] # NoStored =>
    LET m == store[c].messages IN
    /\ \A i, j \in 1..Len(m) : i # j => m[i].calls \cap m[j].calls = {}
    /\ \A i \in 1..Len(m) : m[i].role = "tool" =>
         /\ \E j \in 1..(i - 1) : m[i].answers \in m[j].calls
         /\ \A j \in 1..(i - 1) : m[j].answers # m[i].answers

(* The engine implements ConversationLog: the log of a Conversation is its *)
(* confirmed prefix.  Logs grow by whole turns; only the owner of a key    *)
(* can have one replaced, by the transcript it sent; no anonymous request  *)
(* ever overwrites what another one saved.                                 *)
Log == INSTANCE ConversationLog WITH
  Nobody <- NoConv,
  owner <- [c \in Conversations |-> IF store[c] = NoStored THEN NoConv ELSE store[c].key],
  log <- [c \in Conversations |-> IF store[c] = NoStored THEN <<>> ELSE ConfirmedPrefix(store[c])]

ImplementsLog == Log!Spec
=============================================================================
