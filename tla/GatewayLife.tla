---------------------------- MODULE GatewayLife ----------------------------
(***************************************************************************)
(* The lives of the gateway process: startup (src/runtime.ts with the      *)
(* migrations of src/persistence/migrations.ts), serving, and the ways to  *)
(* end (src/index.ts, GatewayRuntime.close): a signal, the loss of the     *)
(* browser, a failing start, a kill.                                       *)
(*                                                                         *)
(* Requests are reduced to what they need of the process: turns, and image *)
(* generations with the files they write (src/images).  A client may leave *)
(* before its request ends; the server only waits for those that stay.  A  *)
(* client may also stay and not read: what is written to it then waits     *)
(* without a limit (waitForDrain, src/api/sse.ts).                         *)
(***************************************************************************)
EXTENDS Naturals, FiniteSets, Sequences

CONSTANTS
  Turns,        \* requests for a turn of a Conversation
  KeyOf,        \* the Conversations of the turns
  Images,       \* requests for an image, and the ids of the images
  Checksums,    \* contents of migration files
  Deployments,  \* the contents of the migrations directory: version -> checksum
  MaxStarts     \* bound: lives in a behaviour

Requests == Turns \cup Images

ASSUME LifeAssumption ==
  /\ Turns \cap Images = {} /\ DOMAIN KeyOf = Turns /\ MaxStarts \in Nat
  /\ \A d \in Deployments :
       d \in [DOMAIN d -> Checksums] /\ DOMAIN d \subseteq Nat /\ IsFiniteSet(DOMAIN d)

VARIABLES
  files,      \* the migrations that are deployed: version -> checksum
  history,    \* the table schema_migrations: version -> checksum
  schema,     \* the scripts the database has executed, in their order
  picture,    \* what is stored of every image
  life,       \* how far the process has come
  closing,    \* what its shutdown is about to close
  db,         \* the database is open
  browser,    \* the persistent browser context
  closed,     \* the closed ones of queue, registry and pool
  shutting,   \* shuttingDown of index.ts, and the exit code it is for
  fatal,      \* browserFatalBeforeReady
  error,      \* something was thrown that nobody catches
  ended,      \* how this life ended, and its exit code
  at,         \* where every request is
  connected,  \* the requests whose clients wait for them
  stalled,    \* the requests whose handlers wait for their clients to read
  starts,     \* lives so far
  doomed,     \* history: the browser was lost in this life before its shutdown
  cut,        \* history: a connected request met something closed in this life
  abandoned,  \* history: images whose requests were lost with their process,
              \* or could not remove what they had on disk
  threw       \* history: which of context and database threw when it was closed

durable == <<history, schema>>
process == <<files, db, browser, closed>>
ending  == <<shutting, fatal, error, ended>>
requests == <<at, connected, stalled>>
ghosts  == <<starts, doomed, cut, abandoned, threw>>
vars == <<files, history, schema, picture, life, closing, db, browser, closed,
          shutting, fatal, error, ended, at, connected, stalled,
          starts, doomed, cut, abandoned, threw>>

Lives == {"down", "migrating", "cleaning", "launching", "building", "listening", "serving"}
Stages == {"nothing", "server", "queue", "registry", "pool", "context", "database", "done"}
Places == {"none", "accepted", "paged", "sent", "part", "stored", "removing", "answering"}
Nothing == [part |-> FALSE, bytes |-> FALSE, row |-> FALSE]
NotShutting == 9
Signalled == 0
Failed == 1
NotEnded == [how |-> "alive", code |-> NotShutting]

Init ==
  /\ files = <<>> /\ history = <<>> /\ schema = <<>>
  /\ picture = [i \in Images |-> Nothing]
  /\ life = "down" /\ closing = "nothing"
  /\ db = FALSE /\ browser = "none" /\ closed = {}
  /\ shutting = NotShutting /\ fatal = FALSE /\ error = FALSE
  /\ ended = NotEnded
  /\ at = [r \in Requests |-> "none"]
  /\ connected = {} /\ stalled = {}
  /\ starts = 0 /\ doomed = FALSE /\ cut = FALSE /\ abandoned = {} /\ threw = {}

Running == {r \in Requests : at[r] # "none"}

-----------------------------------------------------------------------------
(* Startup.                                                                *)

(* The container starts the process, with whatever version is deployed;    *)
(* the database is opened.                                                 *)
Start ==
  /\ life = "down" /\ starts < MaxStarts
  /\ life' = "migrating" /\ files' \in Deployments
  /\ db' = TRUE /\ browser' = "none" /\ closed' = {} /\ closing' = "nothing"
  /\ shutting' = NotShutting /\ fatal' = FALSE /\ error' = FALSE
  /\ ended' = NotEnded
  /\ starts' = starts + 1 /\ doomed' = FALSE /\ cut' = FALSE /\ threw' = {}
  /\ UNCHANGED <<durable, picture, requests, abandoned>>

(* Mutant of Deployable: a record whose file is missing is passed over.    *)
DeployableOlder ==
  /\ DOMAIN files = 1..Cardinality(DOMAIN files)
  /\ \A v \in DOMAIN history \cap DOMAIN files : files[v] = history[v]

(* The files are numbered without a gap, and everything that was applied   *)
(* is among them and unchanged.                                            *)
Deployable ==
  /\ DOMAIN files = 1..Cardinality(DOMAIN files)
  /\ \A v \in DOMAIN history : v \in DOMAIN files /\ files[v] = history[v]

Missing == DOMAIN files \ DOMAIN history

(* Mutant of ApplyMigration: the record is not part of the transaction.    *)
ApplyMigrationUnrecorded ==
  /\ life = "migrating" /\ closing = "nothing" /\ Deployable
  /\ \E v \in Missing :
       /\ \A w \in Missing : v <= w
       /\ schema' = Append(schema, files[v])
       /\ \/ UNCHANGED history
          \/ history' = [w \in DOMAIN history \cup {v} |-> IF w = v THEN files[v] ELSE history[w]]
  /\ UNCHANGED <<picture, life, closing, process, ending, requests, ghosts>>

(* One migration: its script and its record in one transaction.            *)
ApplyMigration ==
  /\ life = "migrating" /\ closing = "nothing" /\ Deployable
  /\ \E v \in Missing :
       /\ \A w \in Missing : v <= w
       /\ schema' = Append(schema, files[v])
       /\ history' = [w \in DOMAIN history \cup {v} |-> IF w = v THEN files[v] ELSE history[w]]
  /\ UNCHANGED <<picture, life, closing, process, ending, requests, ghosts>>

Migrated ==
  /\ life = "migrating" /\ closing = "nothing" /\ Deployable /\ Missing = {}
  /\ life' = "cleaning"
  /\ UNCHANGED <<durable, picture, closing, process, ending, requests, ghosts>>

(* The startup cleanup of the File service (FileStore has it in full).     *)
Cleaned ==
  /\ life = "cleaning" /\ closing = "nothing"
  /\ life' = "launching"
  /\ UNCHANGED <<durable, picture, closing, process, ending, requests, ghosts>>

Launched ==
  /\ life = "launching" /\ closing = "nothing"
  /\ life' = "building" /\ browser' = "open"
  /\ UNCHANGED <<durable, picture, closing, files, db, closed, ending, requests, ghosts>>

(* Whatever throws before the runtime is there closes what was opened.     *)
StartFails ==
  /\ life \in {"migrating", "cleaning", "launching", "building"} /\ closing = "nothing"
  /\ closing' = IF life = "building" THEN "queue" ELSE "database"
  /\ error' = TRUE
  /\ UNCHANGED <<durable, picture, life, process, shutting, fatal, ended, requests, ghosts>>

(* shutdown: only the first one counts.                                    *)
Shutdown(code) ==
  /\ shutting' = code
  /\ closing' = "server"

(* Mutant of Ready: the loss of the browser is not looked at again.        *)
ReadyAnyway ==
  /\ life = "building" /\ closing = "nothing"
  /\ life' = "listening"
  /\ UNCHANGED <<shutting, closing>>
  /\ UNCHANGED <<durable, picture, process, fatal, error, ended, requests, ghosts>>

(* The runtime is there.  If the browser has been lost by then it is shut  *)
(* down, else it begins to listen.                                         *)
Ready ==
  /\ life = "building" /\ closing = "nothing"
  /\ life' = "listening"
  /\ IF fatal THEN Shutdown(Failed) ELSE UNCHANGED <<shutting, closing>>
  /\ UNCHANGED <<durable, picture, process, fatal, error, ended, requests, ghosts>>

Listening ==
  /\ life = "listening" /\ shutting = NotShutting
  /\ life' = "serving"
  /\ UNCHANGED <<durable, picture, closing, process, ending, requests, ghosts>>

-----------------------------------------------------------------------------
(* Ends.                                                                   *)

(* The process is gone, with all requests that are still running.          *)
Gone(how, code) ==
  /\ life' = "down"
  /\ ended' = [how |-> how, code |-> code]
  /\ abandoned' = abandoned \cup (Running \cap Images)
  /\ at' = [r \in Requests |-> "none"]
  /\ connected' = {} /\ stalled' = {}

(* listen() rejects: the runtime is shut down before the error goes on,    *)
(* unless a shutdown has begun already; then the process is gone at once.  *)
ListenFails ==
  /\ life = "listening"
  /\ \/ /\ shutting = NotShutting
        /\ Shutdown(Failed) /\ error' = TRUE
        /\ UNCHANGED <<life, ended, abandoned, requests>>
     \/ /\ shutting # NotShutting
        /\ Gone("thrown", Failed)
        /\ UNCHANGED <<shutting, closing, error>>
  /\ UNCHANGED <<durable, picture, process, fatal, starts, doomed, cut, threw>>

(* SIGTERM or SIGINT; before the handlers are there it is a Kill.          *)
Signal ==
  /\ life \in {"listening", "serving"} /\ shutting = NotShutting
  /\ Shutdown(Signalled)
  /\ UNCHANGED <<durable, picture, life, process, fatal, error, ended, requests, ghosts>>

(* The context closes by itself.  The process is to end with an exit code  *)
(* that makes the container start it again.                                *)
BrowserLost ==
  /\ browser = "open" /\ life # "down"
  /\ browser' = "lost"
  /\ doomed' = (doomed \/ shutting = NotShutting)
  /\ IF "pool" \in closed \/ shutting # NotShutting THEN UNCHANGED <<fatal, shutting, closing>>
     ELSE IF life = "building" THEN fatal' = TRUE /\ UNCHANGED <<shutting, closing>>
     ELSE Shutdown(Failed) /\ UNCHANGED fatal
  /\ UNCHANGED <<durable, picture, life, files, db, closed, error, ended, requests,
                 starts, cut, abandoned, threw>>

Kill ==
  /\ life # "down"
  /\ Gone("killed", Failed)
  /\ UNCHANGED <<durable, picture, closing, process, shutting, fatal, error,
                 starts, doomed, cut, threw>>

(* Mutant of After: an error ends the shutdown.                            *)
AfterUnlessFailed(stage, fails) == IF fails THEN "done" ELSE stage

(* Every stage comes after the one before, whether that has failed or not. *)
After(stage, fails) == stage

(* The stages of GatewayRuntime.close, each of which may throw.            *)
Close(stage, next, fails) ==
  /\ life # "down" /\ closing = stage
  /\ error' = (error \/ fails)
  /\ threw' = threw \cup (IF fails THEN {stage} \cap {"context", "database"} ELSE {})
  /\ closing' = After(next, fails)
  /\ UNCHANGED <<durable, picture, life, files, shutting, fatal, ended, requests,
                 starts, doomed, cut, abandoned>>

(* Mutant of ServerIdle: nobody is waited for.                             *)
ServerIdleAtOnce == TRUE

(* app.close() waits for the requests whose clients are there.             *)
ServerIdle == connected = {}

CloseServer ==
  /\ ServerIdle
  /\ \E fails \in BOOLEAN : Close("server", "queue", fails)
  /\ UNCHANGED <<db, browser, closed>>

(* Queue, registry and pool are marked closed before anything can throw.   *)
CloseShared(stage, next) ==
  /\ \E fails \in BOOLEAN : Close(stage, next, fails)
  /\ closed' = closed \cup {stage}
  /\ UNCHANGED <<db, browser>>

(* A context or a database whose close throws may stay open.               *)
CloseContext ==
  /\ \E fails \in BOOLEAN :
       /\ Close("context", "database", fails)
       /\ \/ browser' = IF browser = "open" THEN "closed" ELSE browser
          \/ fails /\ UNCHANGED browser
  /\ UNCHANGED <<db, closed>>

CloseDatabase ==
  /\ \E fails \in BOOLEAN :
       /\ Close("database", "done", fails)
       /\ db' = FALSE \/ (fails /\ UNCHANGED db)
  /\ UNCHANGED <<browser, closed>>

(* The turn waits, or may wait, behind another one of its Conversation     *)
(* whose client does not read.                                             *)
Held(r) ==
  /\ r \in Turns /\ at[r] = "accepted"
  /\ \E s \in stalled \cap Turns : KeyOf[s] = KeyOf[r]

(* An error nobody catches ends the process at once, else it ends when     *)
(* nothing is left to do: a promise that is never settled does not keep it.*)
Exit ==
  /\ life # "down" /\ closing = "done"
  /\ error \/ \A r \in Running : r \in stalled \/ Held(r)
  /\ Gone("exit", IF error THEN Failed ELSE shutting)
  /\ UNCHANGED <<durable, picture, closing, process, shutting, fatal, error,
                 starts, doomed, cut, threw>>

-----------------------------------------------------------------------------
(* Requests.                                                               *)

Accept(r) ==
  /\ life = "serving" /\ shutting = NotShutting /\ at[r] = "none"
  /\ r \in Images => picture[r] = Nothing
  /\ at' = [at EXCEPT ![r] = "accepted"]
  /\ connected' = connected \cup {r}
  /\ UNCHANGED <<durable, picture, life, closing, process, ending, stalled, ghosts>>

(* The client leaves, which ends the wait for it to read.                  *)
Disconnect(r) ==
  /\ r \in connected
  /\ connected' = connected \ {r} /\ stalled' = stalled \ {r}
  /\ UNCHANGED <<durable, picture, life, closing, process, ending, at, ghosts>>

(* The client reads again.                                                 *)
Reads(r) ==
  /\ r \in connected \cap stalled
  /\ stalled' = stalled \ {r}
  /\ UNCHANGED <<durable, picture, life, closing, process, ending, at, connected, ghosts>>

Open ==
  ({"queue", "registry", "pool"} \ closed)
    \cup (IF db THEN {"database"} ELSE {}) \cup (IF browser = "open" THEN {"browser"} ELSE {})

(* What the next step of a request needs: for a turn the queue, the        *)
(* database and a Page, then both to send and to save; for an image a      *)
(* Page, and in the end the database.                                      *)
Needs(r) ==
  CASE r \in Turns /\ at[r] = "accepted" -> {"queue", "database", "registry", "pool", "browser"}
    [] r \in Turns /\ at[r] \in {"paged", "sent"} -> {"database", "browser"}
    [] r \in Images /\ at[r] = "accepted" -> {"pool", "browser"}
    [] r \in Images /\ at[r] = "paged" -> {"browser"}
    [] r \in Images /\ at[r] = "stored" -> {"database"}
    [] OTHER -> {}

(* Where the handler of a request writes to its client: the first event of *)
(* a stream with the Page, its text, and the reply or the last events.  A  *)
(* write to a client that does not read waits; so does the first event to  *)
(* a client that has left, for its close has come before the listener.     *)
MayStall(r, place) ==
  /\ place \in (IF r \in Turns THEN {"paged", "sent", "answering"} ELSE {"answering"})
  /\ r \in connected \/ place = "paged"

(* Where a request goes, if it does not wait for its client.               *)
Goes(r, place) ==
  /\ r \notin stalled
  /\ at' = [at EXCEPT ![r] = place]
  /\ connected' = IF place = "none" THEN connected \ {r} ELSE connected
  /\ \/ UNCHANGED stalled
     \/ MayStall(r, place) /\ stalled' = stalled \cup {r}

(* One turn of a Conversation at a time: its Page, the prompt, the answer  *)
(* saved.                                                                  *)
TurnStep(r) ==
  /\ r \in Turns /\ Needs(r) \subseteq Open
  /\ \/ /\ at[r] = "accepted" /\ Goes(r, "paged")
        /\ \A s \in Turns : KeyOf[s] = KeyOf[r] => at[s] \notin {"paged", "sent"}
     \/ at[r] = "paged" /\ Goes(r, "sent")
     \/ at[r] = "sent" /\ Goes(r, "answering")
  /\ UNCHANGED <<durable, picture, life, closing, process, ending, ghosts>>

(* Mutant of ImageStep: the row comes before the bytes are in place.       *)
ImageStepRowFirst(r) ==
  /\ r \in Images /\ Needs(r) \subseteq Open
  /\ \/ at[r] = "accepted" /\ Goes(r, "paged") /\ UNCHANGED picture
     \/ /\ at[r] = "paged" /\ Goes(r, "part")
        /\ picture' = [picture EXCEPT ![r].part = TRUE]
     \/ /\ at[r] = "part" /\ Goes(r, "stored")
        /\ picture' = [picture EXCEPT ![r].row = db]
     \/ /\ at[r] = "stored" /\ Goes(r, "answering")
        /\ picture' = [picture EXCEPT ![r].part = FALSE, ![r].bytes = TRUE]
  /\ UNCHANGED <<durable, life, closing, process, ending, ghosts>>

(* A Page, the generated bytes in a temporary file, the file renamed, the  *)
(* row.                                                                    *)
ImageStep(r) ==
  /\ r \in Images /\ Needs(r) \subseteq Open
  /\ \/ at[r] = "accepted" /\ Goes(r, "paged") /\ UNCHANGED picture
     \/ /\ at[r] = "paged" /\ Goes(r, "part")
        /\ picture' = [picture EXCEPT ![r].part = TRUE]
     \/ /\ at[r] = "part" /\ Goes(r, "stored")
        /\ picture' = [picture EXCEPT ![r].part = FALSE, ![r].bytes = TRUE]
     \/ /\ at[r] = "stored" /\ Goes(r, "answering")
        /\ picture' = [picture EXCEPT ![r].row = TRUE]
  /\ UNCHANGED <<durable, life, closing, process, ending, ghosts>>

(* A step fails by itself, or because something it needs is closed.  What  *)
(* an image has on disk is to be removed.                                  *)
Fails(r) ==
  /\ at[r] \notin {"none", "removing", "answering"}
  /\ Goes(r, IF at[r] \in {"part", "stored"} THEN "removing" ELSE "answering")
  /\ cut' = (cut \/ (r \in connected /\ ~(Needs(r) \subseteq Open)))
  /\ UNCHANGED <<durable, picture, life, closing, process, ending,
                 starts, doomed, abandoned, threw>>

(* What can be left of an image: the errors of both removals are ignored.  *)
Removed(p) ==
  {[p EXCEPT !.part = part, !.bytes = bytes] : part \in {FALSE, p.part}, bytes \in {FALSE, p.bytes}}

Remove(r) ==
  /\ r \in Images /\ at[r] = "removing" /\ Goes(r, "answering")
  /\ \E left \in Removed(picture[r]) :
       /\ picture' = [picture EXCEPT ![r] = left]
       /\ abandoned' = IF left = Nothing THEN abandoned ELSE abandoned \cup {r}
  /\ UNCHANGED <<durable, life, closing, process, ending, starts, doomed, cut, threw>>

(* The reply is written.                                                   *)
Answered(r) ==
  /\ at[r] = "answering" /\ Goes(r, "none")
  /\ UNCHANGED <<durable, picture, life, closing, process, ending, ghosts>>

Closes ==
  \/ CloseServer \/ CloseShared("queue", "registry") \/ CloseShared("registry", "pool")
  \/ CloseShared("pool", "context") \/ CloseContext \/ CloseDatabase

Next ==
  \/ Start \/ ApplyMigration \/ Migrated \/ Cleaned \/ Launched \/ StartFails
  \/ Ready \/ Listening \/ ListenFails
  \/ Signal \/ BrowserLost \/ Kill \/ Closes \/ Exit
  \/ \E r \in Requests :
       \/ Accept(r) \/ Disconnect(r) \/ Reads(r)
       \/ TurnStep(r) \/ ImageStep(r) \/ Fails(r) \/ Remove(r) \/ Answered(r)

Spec == Init /\ [][Next]_vars

(* The process goes on with what it has begun, and the awaits of a request *)
(* end: all of them have a timeout of their own or of Playwright, but for  *)
(* the wait for a client to read and the wait in the queue behind it.      *)
(* Clients owe nothing: they need not read, and need not leave.            *)
FairSpec ==
  /\ Spec
  /\ WF_vars(Ready) /\ WF_vars(Closes) /\ WF_vars(Exit)
  /\ \A r \in Requests :
       WF_vars(~Held(r) /\ Fails(r)) /\ WF_vars(Remove(r)) /\ WF_vars(Answered(r))

-----------------------------------------------------------------------------
(* Every migration is executed once and in order, however often starts are *)
(* interrupted, and the process serves with exactly the migrations that    *)
(* are deployed: never with a database that is ahead of them, behind them, *)
(* or made by other scripts.                                               *)
SchemaIsDeployed ==
  life \in {"building", "listening", "serving"} => schema = files /\ history = files

(* A stored image has its bytes and no temporary file; what an image has   *)
(* on disk without a row is left over only when its request was lost with  *)
(* its process, or when the removal itself has failed.                     *)
ImagesAccounted ==
  \A i \in Images :
    /\ picture[i].row => picture[i].bytes /\ ~picture[i].part
    /\ at[i] \in {"none", "answering"} /\ i \notin abandoned =>
         picture[i] = Nothing \/ picture[i].row

(* A process that ends with 0 has closed its browser and its database and  *)
(* has not lost its browser before it was told to end: the container is    *)
(* not kept from starting it again.  (One that loses its browser while it  *)
(* shuts down for a signal does end with 0.)  Whatever the code, when the  *)
(* process gets to its end all stages of the shutdown have been gone       *)
(* through: what is open was left so by its own close.  Only a kill, and   *)
(* listen() rejecting while a shutdown runs, end a process before that.    *)
EndsInOrder ==
  life = "down" =>
    /\ ended.code = 0 => ended.how = "exit" /\ ~db /\ browser # "open" /\ ~doomed
    /\ ended.how = "exit" =>
         (db => "database" \in threw) /\ (browser = "open" => "context" \in threw)

(* Shutting down cuts off no request whose client is still there: only the *)
(* loss of the browser does.                                               *)
AcceptedAreServed == cut => browser = "lost"

(* A gateway whose browser is gone ends, to be started again, unless for   *)
(* ever one of its clients stays connected and does not read, or stays     *)
(* connected behind such a turn of its Conversation.                       *)
LostBrowserEnds ==
  [](browser = "lost" =>
       <>(life = "down") \/ <>[](\E r \in connected : r \in stalled \/ Held(r)))
=============================================================================
