-------------------------- MODULE ConversationLog ---------------------------
(***************************************************************************)
(* What the Conversation Engine promises about the Conversations it keeps, *)
(* with queues, checkpoints, Pages and the website left out.  Every        *)
(* Conversation has an owner, fixed when it is created, and a log of       *)
(* confirmed messages, which changes by a whole turn at a time:            *)
(*   - a turn is continued: the client's pending turn and one answer are   *)
(*     appended;                                                           *)
(*   - a transcript is adopted: the log becomes the transcript a client    *)
(*     sent and one answer.  The owner of a key may replace its log this   *)
(*     way; an anonymous Conversation only ever gets its first log so.     *)
(***************************************************************************)
EXTENDS ContextPlanner

CONSTANTS Conversations, Keys, Transcripts, Anonymous, Nobody

VARIABLES
  owner,  \* the key of every Conversation, Anonymous, or Nobody: no such row
  log     \* its confirmed messages

logVars == <<owner, log>>

Answer == [role : {"assistant"}, body : Bodies, calls : SUBSET CallIds, answers : {NoCall}]

Init ==
  /\ owner = [c \in Conversations |-> Nobody]
  /\ log = [c \in Conversations |-> <<>>]

Create(c, o) ==
  /\ owner[c] = Nobody
  /\ o \in Keys => \A d \in Conversations : owner[d] # o
  /\ owner' = [owner EXCEPT ![c] = o]
  /\ UNCHANGED log

Continue(c) ==
  /\ owner[c] # Nobody
  /\ \E t \in Transcripts, m \in Answer :
       log' = [log EXCEPT ![c] = Append(@ \o PendingTurn(t), m)]
  /\ UNCHANGED owner

Adopt(c) ==
  /\ owner[c] # Nobody
  /\ owner[c] \in Keys \/ log[c] = <<>>
  /\ \E t \in Transcripts, m \in Answer : log' = [log EXCEPT ![c] = Append(t, m)]
  /\ UNCHANGED owner

Next ==
  \E c \in Conversations :
    \/ \E o \in Keys \cup {Anonymous} : Create(c, o)
    \/ Continue(c)
    \/ Adopt(c)

Spec == Init /\ [][Next]_logVars
=============================================================================
