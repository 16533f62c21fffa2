--------------------------- MODULE StreamClients ---------------------------
(***************************************************************************)
(* The Conversation Engine with clients that stream and do not read.       *)
(*                                                                         *)
(* A turn writes to its client when it has a Page (the started event),     *)
(* while its answer grows, and after it is saved (the last events).  When  *)
(* the socket takes no more, the turn waits until the client reads or      *)
(* closes (waitForDrain, src/api/sse.ts), without a limit; what was closed *)
(* before the first event is never heard of.  Until then the turn keeps    *)
(* its Page and its place in the queue.                                    *)
(***************************************************************************)
EXTENDS ConversationEngine, FiniteSets

CONSTANT MaxStuck  \* bound: turns that wait for their clients at the same time

ASSUME StreamAssumption == MaxStuck \in Nat

VARIABLE stuck  \* the requests whose turns wait for their clients

streamVars == <<vars, stuck>>

StreamInit == Init /\ stuck = {}

(* Where a turn has written to its client.                                 *)
Written == {"ready", "sent", "committed"}

(* A turn goes on, unless it waits for its client; it may have to wait     *)
(* after what it writes.                                                   *)
StreamStep(r) ==
  /\ r \notin stuck
  /\ Step(r)
  /\ \/ UNCHANGED stuck
     \/ /\ pc'[r] \in Written /\ Cardinality(stuck) < MaxStuck
        /\ stuck' = stuck \cup {r}

(* The client reads, or closes: the write ends, with an error in the       *)
(* second case.                                                            *)
Drain(r) ==
  /\ r \in stuck
  /\ stuck' = stuck \ {r}
  /\ UNCHANGED vars

StreamNext ==
  \/ \E r \in Requests : StreamStep(r) \/ Drain(r)
  \/ (\E r \in Requests : Submit(r)) /\ UNCHANGED stuck
  \/ (\E u \in Urls : WebAnswer(u)) /\ UNCHANGED stuck
  \/ Crash /\ stuck' = {}

StreamSpec == StreamInit /\ [][StreamNext]_streamVars

(* Every other await of a turn has a timeout or ends with the client, so a *)
(* turn that does not wait for its client goes on.  Nothing is assumed of  *)
(* clients, which need neither read nor close, of the website or of        *)
(* crashes.                                                                *)
FairStreamSpec == StreamSpec /\ \A r \in Requests : WF_streamVars(StreamStep(r))

-----------------------------------------------------------------------------
(* A request that was queued ends, with an answer, an error or a refusal,  *)
(* whatever becomes of the ones in front of it, unless one client holds it *)
(* up for ever by neither reading nor closing: its own, or that of the     *)
(* turn its Conversation is in.  Nobody else is held up by it.             *)
RequestsEnd ==
  \A r \in Requests :
    [](pc[r] = "queued" =>
         <>(pc[r] = "idle")
         \/ <>[](\E s \in stuck : s = r \/ (slot[r] # NoConv /\ Head(queue[slot[r]]) = s)))
=============================================================================
