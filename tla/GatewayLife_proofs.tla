------------------------- MODULE GatewayLife_proofs -------------------------
(***************************************************************************)
(* The lives of the gateway, for any requests, any deployments and any     *)
(* number of starts: it serves with the deployed schema, ends in order,    *)
(* cuts nobody off, and keeps account of its images.                       *)
(***************************************************************************)
EXTENDS GatewayLife, TLAPS, FiniteSetTheorems, SequenceTheorems

Shared == {"queue", "registry", "pool"}
Up == {"building", "listening", "serving"}

(* Types of all variables.                                                 *)
TypeOK ==
  /\ files \in Deployments \cup {<<>>}
  /\ history \in Seq(Checksums) /\ schema \in Seq(Checksums)
  /\ picture \in [Images -> [part : BOOLEAN, bytes : BOOLEAN, row : BOOLEAN]]
  /\ life \in Lives /\ closing \in Stages
  /\ db \in BOOLEAN /\ browser \in {"none", "open", "lost", "closed"} /\ closed \subseteq Shared
  /\ shutting \in {NotShutting, Signalled, Failed} /\ fatal \in BOOLEAN /\ error \in BOOLEAN
  /\ ended \in [how : {"alive", "exit", "killed", "thrown"},
                code : {NotShutting, Signalled, Failed}]
  /\ at \in [Requests -> Places] /\ connected \subseteq Requests /\ stalled \subseteq Requests
  /\ starts \in Nat /\ doomed \in BOOLEAN /\ cut \in BOOLEAN
  /\ abandoned \subseteq Images /\ threw \subseteq {"context", "database"}

(* A database is what its history says, and that is all of the deployed    *)
(* migrations as soon as they have been run.                               *)
SchemaInv ==
  /\ schema = history
  /\ life \in {"cleaning", "launching"} \cup Up => history = files

(* What is closed at every stage.                                          *)
StageInv ==
  life # "down" =>
    /\ life \in {"migrating", "cleaning", "launching"} =>
         browser = "none" /\ closing \in {"nothing", "database", "done"}
    /\ life \in Up /\ closing \notin {"database", "done"} => browser \in {"open", "lost"}
    /\ closing \in {"database", "done"} => browser # "open" \/ "context" \in threw
    /\ closing \in {"nothing", "server"} => closed = {} /\ db
    /\ closing = "done" => ~db \/ "database" \in threw
    /\ threw # {} => error
    /\ closing # "nothing" /\ shutting = NotShutting => error /\ life \notin {"listening", "serving"}
    /\ closing = "nothing" => shutting = NotShutting /\ ~error
    /\ life \notin {"listening", "serving"} => shutting = NotShutting

(* A browser that was lost before the shutdown is going to be in the exit  *)
(* code.                                                                   *)
DoomInv ==
  life # "down" /\ doomed => error \/ shutting = Failed \/ (fatal /\ life = "building")

(* Clients wait only for a process that serves and has closed nothing.     *)
ServeInv == connected # {} => life = "serving" /\ closing \in {"nothing", "server"}

(* What is stored of an image while its request runs.                      *)
ImageInv ==
  \A i \in Images :
    /\ at[i] \in {"accepted", "paged", "sent"} => picture[i] = Nothing
    /\ at[i] \in {"part", "stored", "removing"} => ~picture[i].row
    /\ at[i] = "stored" => picture[i].bytes /\ ~picture[i].part

IInv ==
  /\ TypeOK /\ SchemaInv /\ StageInv /\ DoomInv /\ ServeInv /\ ImageInv
  /\ SchemaIsDeployed /\ ImagesAccounted /\ EndsInOrder /\ AcceptedAreServed

-----------------------------------------------------------------------------
(* A removal leaves some of the files, and the row as it is.               *)
LEMMA RemovedShape ==
  ASSUME NEW p \in [part : BOOLEAN, bytes : BOOLEAN, row : BOOLEAN], NEW left \in Removed(p)
  PROVE  left \in [part : BOOLEAN, bytes : BOOLEAN, row : BOOLEAN] /\ left.row = p.row
<1>1. PICK part \in {FALSE, p.part}, bytes \in {FALSE, p.bytes} :
           left = [p EXCEPT !.part = part, !.bytes = bytes]
  BY DEF Removed
<1>2. part \in BOOLEAN /\ bytes \in BOOLEAN
  OBVIOUS
<1> QED
  BY <1>1, <1>2

(* The migrations that are deployed are finitely many files.               *)
LEMMA FilesShape ==
  ASSUME TypeOK
  PROVE  files \in [DOMAIN files -> Checksums] /\ IsFiniteSet(DOMAIN files)
<1>1. CASE files = <<>>
  <2>1. DOMAIN files = {}
    BY <1>1
  <2> QED
    BY <1>1, <2>1, FS_EmptySet
<1>2. CASE files \in Deployments
  BY <1>2, LifeAssumption
<1> QED
  BY <1>1, <1>2 DEF TypeOK

(* The migrations that are missing follow the ones in the history.         *)
LEMMA NextMissing ==
  ASSUME TypeOK, Deployable, NEW v \in Missing, \A w \in Missing : v <= w
  PROVE  v = Len(history) + 1 /\ files[v] \in Checksums /\ v \in DOMAIN files
<1>1. files \in [DOMAIN files -> Checksums] /\ IsFiniteSet(DOMAIN files)
  BY FilesShape
<1>2. Cardinality(DOMAIN files) \in Nat
  BY <1>1, FS_CardinalityType
<1>3. DOMAIN history = 1..Len(history) /\ Len(history) \in Nat
  BY DEF TypeOK
<1>4. v \in DOMAIN files /\ v \notin DOMAIN history /\ v \in Nat /\ v >= 1
  BY <1>2 DEF Missing, Deployable
<1>5. v > Len(history)
  BY <1>3, <1>4
<1>6. Len(history) + 1 \in Missing
  BY <1>2, <1>3, <1>4, <1>5 DEF Missing, Deployable
<1> QED
  BY <1>1, <1>3, <1>4, <1>5, <1>6

(* Nothing missing: the history is the deployed one.                       *)
LEMMA NothingMissing ==
  ASSUME TypeOK, Deployable, Missing = {}
  PROVE  history = files
<1>1. files \in [DOMAIN files -> Checksums]
  BY FilesShape
<1>2. DOMAIN history = DOMAIN files /\ \A v \in DOMAIN history : files[v] = history[v]
  BY DEF Missing, Deployable
<1>3. history \in [DOMAIN history -> Checksums]
  BY DEF TypeOK
<1> QED
  BY <1>1, <1>2, <1>3

(* The database and its history stay the same, and stay what was deployed. *)
LEMMA SchemaKept ==
  ASSUME TypeOK, SchemaInv, [Next]_vars
  PROVE  SchemaInv'
<1>1. CASE Start
  BY <1>1 DEF Start, TypeOK, SchemaInv, Up, durable, process, ending, requests, ghosts
<1>2. CASE ApplyMigration
  <2>1. PICK v \in Missing : /\ \A w \in Missing : v <= w
                            /\ schema' = Append(schema, files[v])
                            /\ history' = [w \in DOMAIN history \cup {v} |->
                                            IF w = v THEN files[v] ELSE history[w]]
    BY <1>2 DEF ApplyMigration
  <2>2. v = Len(history) + 1 /\ files[v] \in Checksums /\ v \in DOMAIN files
    BY <1>2, NextMissing, <2>1 DEF ApplyMigration
  <2>3. DOMAIN history \cup {v} = 1..Len(history) + 1
    BY <2>2 DEF TypeOK
  <2>4. history' = Append(history, files[v])
    BY <2>1, <2>2, <2>3 DEF TypeOK
  <2> QED
    BY <1>2, <2>1, <2>2, <2>4 DEF ApplyMigration, TypeOK, SchemaInv, process, ending, requests, ghosts
<1>3. CASE Migrated
  BY <1>3, NothingMissing DEF Migrated, TypeOK, SchemaInv, durable, process, ending, requests, ghosts
<1>4. CASE Cleaned
  BY <1>4 DEF Cleaned, TypeOK, SchemaInv, Up, durable, process, ending,
       requests, ghosts
<1>5. CASE Launched
  BY <1>5 DEF Launched, TypeOK, SchemaInv, Up, durable, process, ending,
       requests, ghosts
<1>6. CASE StartFails
  BY <1>6 DEF StartFails, TypeOK, SchemaInv, Up, durable, process, ending,
       requests, ghosts
<1>7. CASE Ready
  BY <1>7 DEF Ready, Shutdown, TypeOK, SchemaInv, Up, durable, process,
       ending, requests, ghosts
<1>8. CASE Listening
  BY <1>8 DEF Listening, TypeOK, SchemaInv, Up, durable, process, ending,
       requests, ghosts
<1>9. CASE ListenFails
  BY <1>9 DEF ListenFails, Shutdown, Gone, TypeOK, SchemaInv, Up, durable,
       process, ending, requests, ghosts
<1>10. CASE Signal
  BY <1>10 DEF Signal, Shutdown, TypeOK, SchemaInv, Up, durable, process,
       ending, requests, ghosts
<1>11. CASE BrowserLost
  BY <1>11 DEF BrowserLost, Shutdown, TypeOK, SchemaInv, Up, durable, process,
       ending, requests, ghosts
<1>12. CASE Kill
  BY <1>12 DEF Kill, Gone, TypeOK, SchemaInv, Up, durable, process, ending,
       requests, ghosts
<1>13. CASE Closes
  BY <1>13 DEF Closes, CloseServer, CloseShared, CloseContext, CloseDatabase,
       Close, After, TypeOK, SchemaInv, Up, durable, process, ending, requests, ghosts
<1>14. CASE Exit
  BY <1>14 DEF Exit, Gone, TypeOK, SchemaInv, Up, durable, process, ending,
       requests, ghosts
<1>15. ASSUME NEW r \in Requests,
             \/ Accept(r) \/ Disconnect(r) \/ Reads(r) \/ TurnStep(r)
             \/ ImageStep(r) \/ Fails(r) \/ Remove(r) \/ Answered(r)
      PROVE  SchemaInv'
  <2>1. CASE Accept(r)
    BY <2>1 DEF Accept, TypeOK, SchemaInv, Up, durable, process, ending,
       requests, ghosts
  <2>2. CASE Disconnect(r)
    BY <2>2 DEF Disconnect, TypeOK, SchemaInv, Up, durable, process, ending,
       requests, ghosts
  <2>3. CASE TurnStep(r)
    BY <2>3 DEF TurnStep, Goes, MayStall, TypeOK, SchemaInv, Up, durable, process,
       ending, requests, ghosts
  <2>4. CASE ImageStep(r)
    BY <2>4 DEF ImageStep, Goes, MayStall, TypeOK, SchemaInv, Up, durable, process,
       ending, requests, ghosts
  <2>5. CASE Fails(r)
    BY <2>5 DEF Fails, Goes, MayStall, TypeOK, SchemaInv, Up, durable, process, ending,
       requests, ghosts
  <2>6. CASE Remove(r)
    BY <2>6 DEF Remove, Goes, MayStall, TypeOK, SchemaInv, Up, durable, process, ending,
       requests, ghosts
  <2>7. CASE Reads(r)
    BY <2>7 DEF Reads, TypeOK, SchemaInv, Up, durable, process, ending,
       requests, ghosts
  <2>8. CASE Answered(r)
    BY <2>8 DEF Answered, Goes, MayStall, TypeOK, SchemaInv, Up, durable, process, ending,
       requests, ghosts
  <2> QED
    BY <1>15, <2>1, <2>2, <2>3, <2>4, <2>5, <2>6, <2>7, <2>8
<1>16. CASE UNCHANGED vars
  BY <1>16 DEF vars, TypeOK, SchemaInv, Up
<1> QED
  BY <1>1, <1>2, <1>3, <1>4, <1>5, <1>6, <1>7, <1>8, <1>9, <1>10, <1>11,
     <1>12, <1>13, <1>14, <1>15, <1>16 DEF Next

(* The types.                                                              *)
LEMMA TypeKept ==
  ASSUME TypeOK, SchemaInv, [Next]_vars
  PROVE  TypeOK'
<1>1. CASE Start
  <2>1. /\ files' \in Deployments \cup {<<>>}
        /\ history' \in Seq(Checksums) /\ schema' \in Seq(Checksums)
        /\ picture' \in [Images -> [part : BOOLEAN, bytes : BOOLEAN, row : BOOLEAN]]
    BY <1>1 DEF Start, TypeOK, durable, process
  <2>2. /\ life' \in Lives /\ closing' \in Stages /\ db' \in BOOLEAN
        /\ browser' \in {"none", "open", "lost", "closed"} /\ closed' \subseteq Shared
    BY <1>1 DEF Start, TypeOK, Lives, Stages, Shared, process
  <2>3. /\ shutting' \in {NotShutting, Signalled, Failed} /\ fatal' \in BOOLEAN
        /\ error' \in BOOLEAN
    BY <1>1 DEF Start, TypeOK, NotShutting, Signalled, Failed, ending
  <2>4. ended' \in [how : {"alive", "exit", "killed", "thrown"}, code : {NotShutting, Signalled, Failed}]
    BY <1>1 DEF Start, NotEnded, NotShutting, Signalled, Failed, ending
  <2>5. at' \in [Requests -> Places] /\ connected' \subseteq Requests /\ stalled' \subseteq Requests
    BY <1>1 DEF Start, TypeOK, Places, requests, ghosts
  <2>6. starts' \in Nat
    BY <1>1 DEF Start, TypeOK, requests, ghosts
  <2>7. doomed' \in BOOLEAN /\ cut' \in BOOLEAN
        /\ abandoned' \subseteq Images /\ threw' \subseteq {"context", "database"}
    BY <1>1 DEF Start, TypeOK, requests, ghosts
  <2> QED
    BY <2>1, <2>2, <2>3, <2>4, <2>5, <2>6, <2>7 DEF TypeOK
<1>2. CASE ApplyMigration
  <2>1. PICK v \in Missing : /\ \A w \in Missing : v <= w
                            /\ schema' = Append(schema, files[v])
                            /\ history' = [w \in DOMAIN history \cup {v} |->
                                            IF w = v THEN files[v] ELSE history[w]]
    BY <1>2 DEF ApplyMigration
  <2>2. v = Len(history) + 1 /\ files[v] \in Checksums /\ v \in DOMAIN files
    BY <1>2, NextMissing, <2>1 DEF ApplyMigration
  <2>3. DOMAIN history \cup {v} = 1..Len(history) + 1
    BY <2>2 DEF TypeOK
  <2>4. history' = Append(history, files[v])
    BY <2>1, <2>2, <2>3 DEF TypeOK
  <2> QED
    BY <1>2, <2>1, <2>2, <2>4 DEF ApplyMigration, TypeOK, SchemaInv, process, ending, requests, ghosts
<1>3. CASE Migrated
  BY <1>3 DEF Migrated, TypeOK, Lives, Stages, Places, Shared, NotShutting,
       Signalled, Failed, durable, process, ending, requests, ghosts
<1>4. CASE Cleaned
  BY <1>4 DEF Cleaned, TypeOK, Lives, Stages, Places, Shared, NotShutting,
       Signalled, Failed, durable, process, ending, requests, ghosts
<1>5. CASE Launched
  BY <1>5 DEF Launched, TypeOK, Lives, Stages, Places, Shared, NotShutting,
       Signalled, Failed, durable, process, ending, requests, ghosts
<1>6. CASE StartFails
  BY <1>6 DEF StartFails, TypeOK, Lives, Stages, Places, Shared, NotShutting,
       Signalled, Failed, durable, process, ending, requests, ghosts
<1>7. CASE Ready
  BY <1>7 DEF Ready, Shutdown, TypeOK, Lives, Stages, Places, Shared,
       NotShutting, Signalled, Failed, durable, process, ending, requests, ghosts
<1>8. CASE Listening
  BY <1>8 DEF Listening, TypeOK, Lives, Stages, Places, Shared, NotShutting,
       Signalled, Failed, durable, process, ending, requests, ghosts
<1>9. CASE ListenFails
  <2>1. /\ files' \in Deployments \cup {<<>>}
        /\ history' \in Seq(Checksums) /\ schema' \in Seq(Checksums)
        /\ picture' \in [Images -> [part : BOOLEAN, bytes : BOOLEAN, row : BOOLEAN]]
    BY <1>9 DEF ListenFails, Shutdown, Gone, TypeOK, durable, process
  <2>2. /\ life' \in Lives /\ closing' \in Stages /\ db' \in BOOLEAN
        /\ browser' \in {"none", "open", "lost", "closed"} /\ closed' \subseteq Shared
    BY <1>9 DEF ListenFails, Shutdown, Gone, TypeOK, Lives, Stages, Shared, process
  <2>3. /\ shutting' \in {NotShutting, Signalled, Failed} /\ fatal' \in BOOLEAN
        /\ error' \in BOOLEAN
    BY <1>9 DEF ListenFails, Shutdown, Gone, TypeOK, NotShutting, Signalled, Failed, ending
  <2>4. ended' \in [how : {"alive", "exit", "killed", "thrown"}, code : {NotShutting, Signalled, Failed}]
    BY <1>9 DEF ListenFails, Shutdown, Gone, TypeOK, NotShutting, Signalled, Failed, ending
  <2>5. at' \in [Requests -> Places] /\ connected' \subseteq Requests /\ stalled' \subseteq Requests
    BY <1>9 DEF ListenFails, Shutdown, Gone, TypeOK, Places, requests, ghosts
  <2>6. starts' \in Nat
    BY <1>9 DEF ListenFails, Shutdown, Gone, TypeOK, requests, ghosts
  <2>7. doomed' \in BOOLEAN /\ cut' \in BOOLEAN
        /\ abandoned' \subseteq Images /\ threw' \subseteq {"context", "database"}
    BY <1>9 DEF ListenFails, Shutdown, Gone, TypeOK, requests, ghosts
  <2> QED
    BY <2>1, <2>2, <2>3, <2>4, <2>5, <2>6, <2>7 DEF TypeOK
<1>10. CASE Signal
  BY <1>10 DEF Signal, Shutdown, TypeOK, Lives, Stages, Places, Shared,
       NotShutting, Signalled, Failed, durable, process, ending, requests, ghosts
<1>11. CASE BrowserLost
  <2>1. /\ files' \in Deployments \cup {<<>>}
        /\ history' \in Seq(Checksums) /\ schema' \in Seq(Checksums)
        /\ picture' \in [Images -> [part : BOOLEAN, bytes : BOOLEAN, row : BOOLEAN]]
    BY <1>11 DEF BrowserLost, Shutdown, TypeOK, durable, process
  <2>2. /\ life' \in Lives /\ closing' \in Stages /\ db' \in BOOLEAN
        /\ browser' \in {"none", "open", "lost", "closed"} /\ closed' \subseteq Shared
    BY <1>11 DEF BrowserLost, Shutdown, TypeOK, Lives, Stages, Shared, process
  <2>3. /\ shutting' \in {NotShutting, Signalled, Failed} /\ fatal' \in BOOLEAN
        /\ error' \in BOOLEAN
    BY <1>11 DEF BrowserLost, Shutdown, TypeOK, NotShutting, Signalled, Failed, ending
  <2>4. ended' \in [how : {"alive", "exit", "killed", "thrown"}, code : {NotShutting, Signalled, Failed}]
    BY <1>11 DEF BrowserLost, Shutdown, TypeOK, NotShutting, Signalled, Failed, ending
  <2>5. at' \in [Requests -> Places] /\ connected' \subseteq Requests /\ stalled' \subseteq Requests
    BY <1>11 DEF BrowserLost, Shutdown, TypeOK, Places, requests, ghosts
  <2>6. starts' \in Nat
    BY <1>11 DEF BrowserLost, Shutdown, TypeOK, requests, ghosts
  <2>7. doomed' \in BOOLEAN /\ cut' \in BOOLEAN
        /\ abandoned' \subseteq Images /\ threw' \subseteq {"context", "database"}
    BY <1>11 DEF BrowserLost, Shutdown, TypeOK, requests, ghosts
  <2> QED
    BY <2>1, <2>2, <2>3, <2>4, <2>5, <2>6, <2>7 DEF TypeOK
<1>12. CASE Kill
  BY <1>12 DEF Kill, Gone, TypeOK, Lives, Stages, Places, Shared, NotShutting,
       Signalled, Failed, durable, process, ending, requests, ghosts
<1>13. CASE Closes
  <2>1. /\ files' \in Deployments \cup {<<>>}
        /\ history' \in Seq(Checksums) /\ schema' \in Seq(Checksums)
        /\ picture' \in [Images -> [part : BOOLEAN, bytes : BOOLEAN, row : BOOLEAN]]
    BY <1>13 DEF Closes, CloseServer, CloseShared,
       CloseContext, CloseDatabase, Close, After, TypeOK, durable, process
  <2>2. /\ life' \in Lives /\ closing' \in Stages /\ db' \in BOOLEAN
        /\ browser' \in {"none", "open", "lost", "closed"} /\ closed' \subseteq Shared
    BY <1>13 DEF Closes, CloseServer, CloseShared,
       CloseContext, CloseDatabase, Close, After, TypeOK, Lives, Stages, Shared, process
  <2>3. /\ shutting' \in {NotShutting, Signalled, Failed} /\ fatal' \in BOOLEAN
        /\ error' \in BOOLEAN
    BY <1>13 DEF Closes, CloseServer, CloseShared,
       CloseContext, CloseDatabase, Close, After, TypeOK, NotShutting, Signalled, Failed, ending
  <2>4. ended' \in [how : {"alive", "exit", "killed", "thrown"}, code : {NotShutting, Signalled, Failed}]
    BY <1>13 DEF Closes, CloseServer, CloseShared,
       CloseContext, CloseDatabase, Close, After, TypeOK, NotShutting, Signalled, Failed, ending
  <2>5. at' \in [Requests -> Places] /\ connected' \subseteq Requests /\ stalled' \subseteq Requests
    BY <1>13 DEF Closes, CloseServer, CloseShared,
       CloseContext, CloseDatabase, Close, After, TypeOK, Places, requests, ghosts
  <2>6. starts' \in Nat
    BY <1>13 DEF Closes, CloseServer, CloseShared,
       CloseContext, CloseDatabase, Close, After, TypeOK, requests, ghosts
  <2>7. doomed' \in BOOLEAN /\ cut' \in BOOLEAN
        /\ abandoned' \subseteq Images /\ threw' \subseteq {"context", "database"}
    BY <1>13 DEF Closes, CloseServer, CloseShared,
       CloseContext, CloseDatabase, Close, After, TypeOK, requests, ghosts
  <2> QED
    BY <2>1, <2>2, <2>3, <2>4, <2>5, <2>6, <2>7 DEF TypeOK
<1>14. CASE Exit
  BY <1>14 DEF Exit, Gone, TypeOK, Lives, Stages, Places, Shared, NotShutting,
       Signalled, Failed, durable, process, ending, requests, ghosts
<1>15. ASSUME NEW r \in Requests,
             \/ Accept(r) \/ Disconnect(r) \/ Reads(r) \/ TurnStep(r)
             \/ ImageStep(r) \/ Fails(r) \/ Remove(r) \/ Answered(r)
      PROVE  TypeOK'
  <2>1. CASE Accept(r)
    BY <2>1 DEF Accept, TypeOK, Lives, Stages, Places, Shared, NotShutting,
       Signalled, Failed, Requests, durable, process, ending, requests, ghosts
  <2>2. CASE Disconnect(r)
    BY <2>2 DEF Disconnect, TypeOK, Lives, Stages, Places, Shared,
       NotShutting, Signalled, Failed, durable, process, ending, requests, ghosts
  <2>3. CASE TurnStep(r)
    BY <2>3 DEF TurnStep, Goes, MayStall, TypeOK, Lives, Stages, Places, Shared,
       NotShutting, Signalled, Failed, durable, process, ending, requests, ghosts
  <2>4. CASE ImageStep(r)
    <3>1. r \in Images /\ r \in Requests
      BY <2>4 DEF ImageStep
    <3>2. picture' \in [Images -> [part : BOOLEAN, bytes : BOOLEAN, row : BOOLEAN]]
      <4>1. CASE UNCHANGED picture
        BY <4>1 DEF TypeOK
      <4>2. CASE picture' = [picture EXCEPT ![r].part = TRUE]
        BY <3>1, <4>2 DEF TypeOK
      <4>3. CASE picture' = [picture EXCEPT ![r].part = FALSE, ![r].bytes = TRUE]
        BY <3>1, <4>3 DEF TypeOK
      <4>4. CASE picture' = [picture EXCEPT ![r].row = TRUE]
        BY <3>1, <4>4 DEF TypeOK
      <4> QED
        BY <2>4, <4>1, <4>2, <4>3, <4>4 DEF ImageStep
    <3>3. at' \in [Requests -> Places] /\ connected' \subseteq Requests /\ stalled' \subseteq Requests
      BY <2>4, <3>1 DEF ImageStep, Goes, MayStall, TypeOK, Places, Requests
    <3> QED
      BY <2>4, <3>2, <3>3 DEF ImageStep, TypeOK, durable, process, ending, requests, ghosts
  <2>5. CASE Fails(r)
    BY <2>5 DEF Fails, Goes, MayStall, TypeOK, Lives, Stages, Places, Shared,
       NotShutting, Signalled, Failed, durable, process, ending, requests, ghosts
  <2>6. CASE Remove(r)
    <3>1. /\ picture' \in [Images -> [part : BOOLEAN, bytes : BOOLEAN, row : BOOLEAN]]
          /\ abandoned' \subseteq Images
      <4>1. PICK left \in Removed(picture[r]) :
                 /\ picture' = [picture EXCEPT ![r] = left]
                 /\ abandoned' = IF left = Nothing THEN abandoned ELSE abandoned \cup {r}
        BY <2>6 DEF Remove
      <4>2. r \in Images /\ picture[r] \in [part : BOOLEAN, bytes : BOOLEAN, row : BOOLEAN]
        BY <2>6 DEF Remove, TypeOK
      <4>3. left \in [part : BOOLEAN, bytes : BOOLEAN, row : BOOLEAN]
        BY <4>1, <4>2, RemovedShape
      <4> QED
        BY <4>1, <4>2, <4>3 DEF TypeOK
    <3>2. at' \in [Requests -> Places] /\ connected' \subseteq Requests /\ stalled' \subseteq Requests
      BY <2>6 DEF Remove, Goes, MayStall, TypeOK, Places
    <3> QED
      BY <2>6, <3>1, <3>2 DEF Remove, TypeOK, durable, process, ending, requests, ghosts
  <2>7. CASE Reads(r)
    BY <2>7 DEF Reads, TypeOK, Lives, Stages, Places, Shared,
       NotShutting, Signalled, Failed, durable, process, ending, requests, ghosts
  <2>8. CASE Answered(r)
    BY <2>8 DEF Answered, Goes, MayStall, TypeOK, Lives, Stages, Places, Shared,
       NotShutting, Signalled, Failed, durable, process, ending, requests, ghosts
  <2> QED
    BY <1>15, <2>1, <2>2, <2>3, <2>4, <2>5, <2>6, <2>7, <2>8
<1>16. CASE UNCHANGED vars
  BY <1>16 DEF vars, TypeOK, Lives, Stages, Places, Shared, NotShutting, Signalled, Failed
<1> QED
  BY <1>1, <1>2, <1>3, <1>4, <1>5, <1>6, <1>7, <1>8, <1>9, <1>10, <1>11,
     <1>12, <1>13, <1>14, <1>15, <1>16 DEF Next

-----------------------------------------------------------------------------
(* What is closed at every stage.                                          *)
LEMMA StagesKept ==
  ASSUME TypeOK, StageInv, [Next]_vars
  PROVE  StageInv'
<1>1. CASE Start
  BY <1>1 DEF Start, TypeOK, StageInv, Lives, Stages, Shared, Up, NotShutting,
       Signalled, Failed, durable, process, ending, requests, ghosts
<1>2. CASE ApplyMigration
  BY <1>2 DEF ApplyMigration, TypeOK, StageInv, Lives, Stages, Shared, Up,
       NotShutting, Signalled, Failed, durable, process, ending, requests, ghosts
<1>3. CASE Migrated
  BY <1>3 DEF Migrated, TypeOK, StageInv, Lives, Stages, Shared, Up,
       NotShutting, Signalled, Failed, durable, process, ending, requests, ghosts
<1>4. CASE Cleaned
  BY <1>4 DEF Cleaned, TypeOK, StageInv, Lives, Stages, Shared, Up,
       NotShutting, Signalled, Failed, durable, process, ending, requests, ghosts
<1>5. CASE Launched
  BY <1>5 DEF Launched, TypeOK, StageInv, Lives, Stages, Shared, Up,
       NotShutting, Signalled, Failed, durable, process, ending, requests, ghosts
<1>6. CASE StartFails
  BY <1>6 DEF StartFails, TypeOK, StageInv, Lives, Stages, Shared, Up,
       NotShutting, Signalled, Failed, durable, process, ending, requests, ghosts
<1>7. CASE Ready
  BY <1>7 DEF Ready, Shutdown, TypeOK, StageInv, Lives, Stages, Shared, Up,
       NotShutting, Signalled, Failed, durable, process, ending, requests, ghosts
<1>8. CASE Listening
  BY <1>8 DEF Listening, TypeOK, StageInv, Lives, Stages, Shared, Up,
       NotShutting, Signalled, Failed, durable, process, ending, requests, ghosts
<1>9. CASE ListenFails
  BY <1>9 DEF ListenFails, Shutdown, Gone, TypeOK, StageInv, Lives, Stages,
       Shared, Up, NotShutting, Signalled, Failed, durable, process, ending,
       requests, ghosts
<1>10. CASE Signal
  BY <1>10 DEF Signal, Shutdown, TypeOK, StageInv, Lives, Stages, Shared, Up,
       NotShutting, Signalled, Failed, durable, process, ending, requests, ghosts
<1>11. CASE BrowserLost
  BY <1>11 DEF BrowserLost, Shutdown, TypeOK, StageInv, Lives, Stages, Shared,
       Up, NotShutting, Signalled, Failed, durable, process, ending, requests, ghosts
<1>12. CASE Kill
  BY <1>12 DEF Kill, Gone, TypeOK, StageInv, Lives, Stages, Shared, Up,
       NotShutting, Signalled, Failed, durable, process, ending, requests, ghosts
<1>13. CASE Closes
  BY <1>13 DEF Closes, CloseServer, CloseShared, CloseContext, CloseDatabase,
       Close, After, TypeOK, StageInv, Lives, Stages, Shared, Up, NotShutting,
       Signalled, Failed, durable, process, ending, requests, ghosts
<1>14. CASE Exit
  BY <1>14 DEF Exit, Gone, TypeOK, StageInv, Lives, Stages, Shared, Up,
       NotShutting, Signalled, Failed, durable, process, ending, requests, ghosts
<1>15. ASSUME NEW r \in Requests,
             \/ Accept(r) \/ Disconnect(r) \/ Reads(r) \/ TurnStep(r)
             \/ ImageStep(r) \/ Fails(r) \/ Remove(r) \/ Answered(r)
      PROVE  StageInv'
  <2>1. CASE Accept(r)
    BY <2>1 DEF Accept, TypeOK, StageInv, Lives, Stages, Shared, Up,
       NotShutting, Signalled, Failed, durable, process, ending, requests, ghosts
  <2>2. CASE Disconnect(r)
    BY <2>2 DEF Disconnect, TypeOK, StageInv, Lives, Stages, Shared, Up,
       NotShutting, Signalled, Failed, durable, process, ending, requests, ghosts
  <2>3. CASE TurnStep(r)
    BY <2>3 DEF TurnStep, Goes, MayStall, TypeOK, StageInv, Lives, Stages, Shared, Up,
       NotShutting, Signalled, Failed, durable, process, ending, requests, ghosts
  <2>4. CASE ImageStep(r)
    BY <2>4 DEF ImageStep, Goes, MayStall, TypeOK, StageInv, Lives, Stages, Shared, Up,
       NotShutting, Signalled, Failed, durable, process, ending, requests, ghosts
  <2>5. CASE Fails(r)
    BY <2>5 DEF Fails, Goes, MayStall, TypeOK, StageInv, Lives, Stages, Shared, Up,
       NotShutting, Signalled, Failed, durable, process, ending, requests, ghosts
  <2>6. CASE Remove(r)
    BY <2>6 DEF Remove, Goes, MayStall, TypeOK, StageInv, Lives, Stages, Shared, Up,
       NotShutting, Signalled, Failed, durable, process, ending, requests, ghosts
  <2>7. CASE Reads(r)
    BY <2>7 DEF Reads, TypeOK, StageInv, Lives, Stages, Shared, Up,
       NotShutting, Signalled, Failed, durable, process, ending, requests, ghosts
  <2>8. CASE Answered(r)
    BY <2>8 DEF Answered, Goes, MayStall, TypeOK, StageInv, Lives, Stages, Shared, Up,
       NotShutting, Signalled, Failed, durable, process, ending, requests, ghosts
  <2> QED
    BY <1>15, <2>1, <2>2, <2>3, <2>4, <2>5, <2>6, <2>7, <2>8
<1>16. CASE UNCHANGED vars
  BY <1>16 DEF vars, TypeOK, StageInv, Lives, Stages, Shared, Up, NotShutting, Signalled, Failed
<1> QED
  BY <1>1, <1>2, <1>3, <1>4, <1>5, <1>6, <1>7, <1>8, <1>9, <1>10, <1>11,
     <1>12, <1>13, <1>14, <1>15, <1>16 DEF Next

(* No path forgets that the browser was lost.                              *)
LEMMA DoomKept ==
  ASSUME TypeOK, StageInv, DoomInv, [Next]_vars
  PROVE  DoomInv'
<1>1. CASE Start
  BY <1>1 DEF Start, TypeOK, StageInv, DoomInv, Up, NotShutting, Signalled,
       Failed, durable, process, ending, requests, ghosts
<1>2. CASE ApplyMigration
  BY <1>2 DEF ApplyMigration, TypeOK, StageInv, DoomInv, Up, NotShutting,
       Signalled, Failed, durable, process, ending, requests, ghosts
<1>3. CASE Migrated
  BY <1>3 DEF Migrated, TypeOK, StageInv, DoomInv, Up, NotShutting, Signalled,
       Failed, durable, process, ending, requests, ghosts
<1>4. CASE Cleaned
  BY <1>4 DEF Cleaned, TypeOK, StageInv, DoomInv, Up, NotShutting, Signalled,
       Failed, durable, process, ending, requests, ghosts
<1>5. CASE Launched
  BY <1>5 DEF Launched, TypeOK, StageInv, DoomInv, Up, NotShutting, Signalled,
       Failed, durable, process, ending, requests, ghosts
<1>6. CASE StartFails
  BY <1>6 DEF StartFails, TypeOK, StageInv, DoomInv, Up, NotShutting,
       Signalled, Failed, durable, process, ending, requests, ghosts
<1>7. CASE Ready
  BY <1>7 DEF Ready, Shutdown, TypeOK, StageInv, DoomInv, Up, NotShutting,
       Signalled, Failed, durable, process, ending, requests, ghosts
<1>8. CASE Listening
  BY <1>8 DEF Listening, TypeOK, StageInv, DoomInv, Up, NotShutting,
       Signalled, Failed, durable, process, ending, requests, ghosts
<1>9. CASE ListenFails
  BY <1>9 DEF ListenFails, Shutdown, Gone, TypeOK, StageInv, DoomInv, Up,
       NotShutting, Signalled, Failed, durable, process, ending, requests, ghosts
<1>10. CASE Signal
  BY <1>10 DEF Signal, Shutdown, TypeOK, StageInv, DoomInv, Up, NotShutting,
       Signalled, Failed, durable, process, ending, requests, ghosts
<1>11. CASE BrowserLost
  BY <1>11 DEF BrowserLost, Shutdown, TypeOK, StageInv, DoomInv, Up,
       NotShutting, Signalled, Failed, durable, process, ending, requests, ghosts
<1>12. CASE Kill
  BY <1>12 DEF Kill, Gone, TypeOK, StageInv, DoomInv, Up, NotShutting,
       Signalled, Failed, durable, process, ending, requests, ghosts
<1>13. CASE Closes
  BY <1>13 DEF Closes, CloseServer, CloseShared, CloseContext, CloseDatabase,
       Close, After, TypeOK, StageInv, DoomInv, Up, NotShutting, Signalled,
       Failed, durable, process, ending, requests, ghosts
<1>14. CASE Exit
  BY <1>14 DEF Exit, Gone, TypeOK, StageInv, DoomInv, Up, NotShutting,
       Signalled, Failed, durable, process, ending, requests, ghosts
<1>15. ASSUME NEW r \in Requests,
             \/ Accept(r) \/ Disconnect(r) \/ Reads(r) \/ TurnStep(r)
             \/ ImageStep(r) \/ Fails(r) \/ Remove(r) \/ Answered(r)
      PROVE  DoomInv'
  <2>1. CASE Accept(r)
    BY <2>1 DEF Accept, TypeOK, StageInv, DoomInv, Up, NotShutting, Signalled,
       Failed, durable, process, ending, requests, ghosts
  <2>2. CASE Disconnect(r)
    BY <2>2 DEF Disconnect, TypeOK, StageInv, DoomInv, Up, NotShutting,
       Signalled, Failed, durable, process, ending, requests, ghosts
  <2>3. CASE TurnStep(r)
    BY <2>3 DEF TurnStep, Goes, MayStall, TypeOK, StageInv, DoomInv, Up, NotShutting,
       Signalled, Failed, durable, process, ending, requests, ghosts
  <2>4. CASE ImageStep(r)
    BY <2>4 DEF ImageStep, Goes, MayStall, TypeOK, StageInv, DoomInv, Up, NotShutting,
       Signalled, Failed, durable, process, ending, requests, ghosts
  <2>5. CASE Fails(r)
    BY <2>5 DEF Fails, Goes, MayStall, TypeOK, StageInv, DoomInv, Up, NotShutting,
       Signalled, Failed, durable, process, ending, requests, ghosts
  <2>6. CASE Remove(r)
    BY <2>6 DEF Remove, Goes, MayStall, TypeOK, StageInv, DoomInv, Up, NotShutting,
       Signalled, Failed, durable, process, ending, requests, ghosts
  <2>7. CASE Reads(r)
    BY <2>7 DEF Reads, TypeOK, StageInv, DoomInv, Up, NotShutting,
       Signalled, Failed, durable, process, ending, requests, ghosts
  <2>8. CASE Answered(r)
    BY <2>8 DEF Answered, Goes, MayStall, TypeOK, StageInv, DoomInv, Up, NotShutting,
       Signalled, Failed, durable, process, ending, requests, ghosts
  <2> QED
    BY <1>15, <2>1, <2>2, <2>3, <2>4, <2>5, <2>6, <2>7, <2>8
<1>16. CASE UNCHANGED vars
  BY <1>16 DEF vars, TypeOK, StageInv, DoomInv, Up, NotShutting, Signalled, Failed
<1> QED
  BY <1>1, <1>2, <1>3, <1>4, <1>5, <1>6, <1>7, <1>8, <1>9, <1>10, <1>11,
     <1>12, <1>13, <1>14, <1>15, <1>16 DEF Next

(* The server is closed only when nobody waits any more.                   *)
LEMMA ServeKept ==
  ASSUME TypeOK, StageInv, ServeInv, [Next]_vars
  PROVE  ServeInv'
<1>1. CASE Start
  BY <1>1 DEF Start, TypeOK, ServeInv, StageInv, Up, NotShutting, Signalled,
       Failed, durable, process, ending, requests, ghosts
<1>2. CASE ApplyMigration
  BY <1>2 DEF ApplyMigration, TypeOK, ServeInv, StageInv, Up, NotShutting,
       Signalled, Failed, durable, process, ending, requests, ghosts
<1>3. CASE Migrated
  BY <1>3 DEF Migrated, TypeOK, ServeInv, StageInv, Up, NotShutting,
       Signalled, Failed, durable, process, ending, requests, ghosts
<1>4. CASE Cleaned
  BY <1>4 DEF Cleaned, TypeOK, ServeInv, StageInv, Up, NotShutting, Signalled,
       Failed, durable, process, ending, requests, ghosts
<1>5. CASE Launched
  BY <1>5 DEF Launched, TypeOK, ServeInv, StageInv, Up, NotShutting,
       Signalled, Failed, durable, process, ending, requests, ghosts
<1>6. CASE StartFails
  BY <1>6 DEF StartFails, TypeOK, ServeInv, StageInv, Up, NotShutting,
       Signalled, Failed, durable, process, ending, requests, ghosts
<1>7. CASE Ready
  BY <1>7 DEF Ready, Shutdown, TypeOK, ServeInv, StageInv, Up, NotShutting,
       Signalled, Failed, durable, process, ending, requests, ghosts
<1>8. CASE Listening
  BY <1>8 DEF Listening, TypeOK, ServeInv, StageInv, Up, NotShutting,
       Signalled, Failed, durable, process, ending, requests, ghosts
<1>9. CASE ListenFails
  BY <1>9 DEF ListenFails, Shutdown, Gone, TypeOK, ServeInv, StageInv, Up,
       NotShutting, Signalled, Failed, durable, process, ending, requests, ghosts
<1>10. CASE Signal
  BY <1>10 DEF Signal, Shutdown, TypeOK, ServeInv, StageInv, Up, NotShutting,
       Signalled, Failed, durable, process, ending, requests, ghosts
<1>11. CASE BrowserLost
  BY <1>11 DEF BrowserLost, Shutdown, TypeOK, ServeInv, StageInv, Up,
       NotShutting, Signalled, Failed, durable, process, ending, requests, ghosts
<1>12. CASE Kill
  BY <1>12 DEF Kill, Gone, TypeOK, ServeInv, StageInv, Up, NotShutting,
       Signalled, Failed, durable, process, ending, requests, ghosts
<1>13. CASE Closes
  BY <1>13 DEF Closes, CloseServer, CloseShared, CloseContext, CloseDatabase,
       Close, After, TypeOK, ServeInv, StageInv, Up, NotShutting, Signalled,
       Failed, ServerIdle, durable, process, ending, requests, ghosts
<1>14. CASE Exit
  BY <1>14 DEF Exit, Gone, TypeOK, ServeInv, StageInv, Up, NotShutting,
       Signalled, Failed, durable, process, ending, requests, ghosts
<1>15. ASSUME NEW r \in Requests,
             \/ Accept(r) \/ Disconnect(r) \/ Reads(r) \/ TurnStep(r)
             \/ ImageStep(r) \/ Fails(r) \/ Remove(r) \/ Answered(r)
      PROVE  ServeInv'
  <2>1. CASE Accept(r)
    BY <2>1 DEF Accept, TypeOK, ServeInv, StageInv, Up, NotShutting,
       Signalled, Failed, durable, process, ending, requests, ghosts
  <2>2. CASE Disconnect(r)
    BY <2>2 DEF Disconnect, TypeOK, ServeInv, StageInv, Up, NotShutting,
       Signalled, Failed, durable, process, ending, requests, ghosts
  <2>3. CASE TurnStep(r)
    BY <2>3 DEF TurnStep, Goes, MayStall, TypeOK, ServeInv, StageInv, Up, NotShutting,
       Signalled, Failed, durable, process, ending, requests, ghosts
  <2>4. CASE ImageStep(r)
    BY <2>4 DEF ImageStep, Goes, MayStall, TypeOK, ServeInv, StageInv, Up, NotShutting,
       Signalled, Failed, durable, process, ending, requests, ghosts
  <2>5. CASE Fails(r)
    BY <2>5 DEF Fails, Goes, MayStall, TypeOK, ServeInv, StageInv, Up, NotShutting,
       Signalled, Failed, durable, process, ending, requests, ghosts
  <2>6. CASE Remove(r)
    BY <2>6 DEF Remove, Goes, MayStall, TypeOK, ServeInv, StageInv, Up, NotShutting,
       Signalled, Failed, durable, process, ending, requests, ghosts
  <2>7. CASE Reads(r)
    BY <2>7 DEF Reads, TypeOK, ServeInv, StageInv, Up, NotShutting,
       Signalled, Failed, durable, process, ending, requests, ghosts
  <2>8. CASE Answered(r)
    BY <2>8 DEF Answered, Goes, MayStall, TypeOK, ServeInv, StageInv, Up, NotShutting,
       Signalled, Failed, durable, process, ending, requests, ghosts
  <2> QED
    BY <1>15, <2>1, <2>2, <2>3, <2>4, <2>5, <2>6, <2>7, <2>8
<1>16. CASE UNCHANGED vars
  BY <1>16 DEF vars, TypeOK, ServeInv, StageInv, Up, NotShutting, Signalled, Failed
<1> QED
  BY <1>1, <1>2, <1>3, <1>4, <1>5, <1>6, <1>7, <1>8, <1>9, <1>10, <1>11,
     <1>12, <1>13, <1>14, <1>15, <1>16 DEF Next

(* Images and their requests go together.                                  *)
LEMMA ImagesKept ==
  ASSUME TypeOK, ImageInv, [Next]_vars
  PROVE  ImageInv'
<1>1. CASE Start
  BY <1>1 DEF Start, TypeOK, ImageInv, Nothing, Requests, durable, process,
       ending, requests, ghosts
<1>2. CASE ApplyMigration
  BY <1>2 DEF ApplyMigration, TypeOK, ImageInv, Nothing, Requests, durable,
       process, ending, requests, ghosts
<1>3. CASE Migrated
  BY <1>3 DEF Migrated, TypeOK, ImageInv, Nothing, Requests, durable, process,
       ending, requests, ghosts
<1>4. CASE Cleaned
  BY <1>4 DEF Cleaned, TypeOK, ImageInv, Nothing, Requests, durable, process,
       ending, requests, ghosts
<1>5. CASE Launched
  BY <1>5 DEF Launched, TypeOK, ImageInv, Nothing, Requests, durable, process,
       ending, requests, ghosts
<1>6. CASE StartFails
  BY <1>6 DEF StartFails, TypeOK, ImageInv, Nothing, Requests, durable,
       process, ending, requests, ghosts
<1>7. CASE Ready
  BY <1>7 DEF Ready, Shutdown, TypeOK, ImageInv, Nothing, Requests, durable,
       process, ending, requests, ghosts
<1>8. CASE Listening
  BY <1>8 DEF Listening, TypeOK, ImageInv, Nothing, Requests, durable,
       process, ending, requests, ghosts
<1>9. CASE ListenFails
  BY <1>9 DEF ListenFails, Shutdown, Gone, TypeOK, ImageInv, Nothing,
       Requests, durable, process, ending, requests, ghosts
<1>10. CASE Signal
  BY <1>10 DEF Signal, Shutdown, TypeOK, ImageInv, Nothing, Requests, durable,
       process, ending, requests, ghosts
<1>11. CASE BrowserLost
  BY <1>11 DEF BrowserLost, Shutdown, TypeOK, ImageInv, Nothing, Requests,
       durable, process, ending, requests, ghosts
<1>12. CASE Kill
  BY <1>12 DEF Kill, Gone, TypeOK, ImageInv, Nothing, Requests, durable,
       process, ending, requests, ghosts
<1>13. CASE Closes
  BY <1>13 DEF Closes, CloseServer, CloseShared, CloseContext, CloseDatabase,
       Close, After, TypeOK, ImageInv, Nothing, Requests, durable, process,
       ending, requests, ghosts
<1>14. CASE Exit
  BY <1>14 DEF Exit, Gone, TypeOK, ImageInv, Nothing, Requests, durable,
       process, ending, requests, ghosts
<1>15. ASSUME NEW r \in Requests,
             \/ Accept(r) \/ Disconnect(r) \/ Reads(r) \/ TurnStep(r)
             \/ ImageStep(r) \/ Fails(r) \/ Remove(r) \/ Answered(r)
      PROVE  ImageInv'
  <2>1. CASE Accept(r)
    BY <2>1 DEF Accept, TypeOK, ImageInv, Nothing, Requests, durable, process,
       ending, requests, ghosts
  <2>2. CASE Disconnect(r)
    BY <2>2 DEF Disconnect, TypeOK, ImageInv, Nothing, Requests, durable,
       process, ending, requests, ghosts
  <2>3. CASE TurnStep(r)
    BY <2>3 DEF TurnStep, Goes, MayStall, TypeOK, ImageInv, Nothing, Requests, durable,
       process, ending, requests, ghosts
  <2>4. CASE ImageStep(r)
    <3> SUFFICES ASSUME NEW i \in Images
                 PROVE  /\ at'[i] \in {"accepted", "paged", "sent"} => picture'[i] = Nothing
                        /\ at'[i] \in {"part", "stored", "removing"} => ~picture'[i].row
                        /\ at'[i] = "stored" => picture'[i].bytes /\ ~picture'[i].part
      BY DEF ImageInv
    <3>1. r \in Images /\ at \in [Requests -> Places] /\ i \in Requests
          /\ picture \in [Images -> [part : BOOLEAN, bytes : BOOLEAN, row : BOOLEAN]]
      BY <2>4 DEF ImageStep, TypeOK, Requests
    <3>2. CASE at[r] = "accepted" /\ Goes(r, "paged") /\ UNCHANGED picture
      BY <3>1, <3>2 DEF Goes, MayStall, ImageInv
    <3>3. CASE at[r] = "paged" /\ Goes(r, "part") /\ picture' = [picture EXCEPT ![r].part = TRUE]
      BY <3>1, <3>3 DEF Goes, MayStall, ImageInv, Nothing
    <3>4. CASE /\ at[r] = "part" /\ Goes(r, "stored")
               /\ picture' = [picture EXCEPT ![r].part = FALSE, ![r].bytes = TRUE]
      BY <3>1, <3>4 DEF Goes, MayStall, ImageInv
    <3>5. CASE /\ at[r] = "stored" /\ Goes(r, "answering")
               /\ picture' = [picture EXCEPT ![r].row = TRUE]
      BY <3>1, <3>5 DEF Goes, MayStall, ImageInv
    <3> QED
      BY <2>4, <3>2, <3>3, <3>4, <3>5 DEF ImageStep
  <2>5. CASE Fails(r)
    BY <2>5 DEF Fails, Goes, MayStall, TypeOK, ImageInv, Nothing, Requests, durable,
       process, ending, requests, ghosts
  <2>6. CASE Remove(r)
    BY <2>6 DEF Remove, Goes, MayStall, TypeOK, ImageInv, Nothing, Requests, durable,
       process, ending, requests, ghosts
  <2>7. CASE Reads(r)
    BY <2>7 DEF Reads, TypeOK, ImageInv, Nothing, Requests, durable,
       process, ending, requests, ghosts
  <2>8. CASE Answered(r)
    BY <2>8 DEF Answered, Goes, MayStall, TypeOK, ImageInv, Nothing, Requests, durable,
       process, ending, requests, ghosts
  <2> QED
    BY <1>15, <2>1, <2>2, <2>3, <2>4, <2>5, <2>6, <2>7, <2>8
<1>16. CASE UNCHANGED vars
  BY <1>16 DEF vars, TypeOK, ImageInv, Nothing, Requests
<1> QED
  BY <1>1, <1>2, <1>3, <1>4, <1>5, <1>6, <1>7, <1>8, <1>9, <1>10, <1>11,
     <1>12, <1>13, <1>14, <1>15, <1>16 DEF Next

(* Requests that end on their own leave no image half stored.              *)
LEMMA ImagesCounted ==
  ASSUME TypeOK, ImageInv, ImagesAccounted, [Next]_vars
  PROVE  ImagesAccounted'
<1>1. CASE Start
  BY <1>1 DEF Start, TypeOK, ImageInv, ImagesAccounted, Requests, Nothing,
       durable, process, ending, requests, ghosts
<1>2. CASE ApplyMigration
  BY <1>2 DEF ApplyMigration, TypeOK, ImageInv, ImagesAccounted, Requests,
       Nothing, durable, process, ending, requests, ghosts
<1>3. CASE Migrated
  BY <1>3 DEF Migrated, TypeOK, ImageInv, ImagesAccounted, Requests, Nothing,
       durable, process, ending, requests, ghosts
<1>4. CASE Cleaned
  BY <1>4 DEF Cleaned, TypeOK, ImageInv, ImagesAccounted, Requests, Nothing,
       durable, process, ending, requests, ghosts
<1>5. CASE Launched
  BY <1>5 DEF Launched, TypeOK, ImageInv, ImagesAccounted, Requests, Nothing,
       durable, process, ending, requests, ghosts
<1>6. CASE StartFails
  BY <1>6 DEF StartFails, TypeOK, ImageInv, ImagesAccounted, Requests,
       Nothing, durable, process, ending, requests, ghosts
<1>7. CASE Ready
  BY <1>7 DEF Ready, Shutdown, TypeOK, ImageInv, ImagesAccounted, Requests,
       Nothing, durable, process, ending, requests, ghosts
<1>8. CASE Listening
  BY <1>8 DEF Listening, TypeOK, ImageInv, ImagesAccounted, Requests, Nothing,
       durable, process, ending, requests, ghosts
<1>9. CASE ListenFails
  BY <1>9 DEF ListenFails, Shutdown, Gone, TypeOK, ImageInv, ImagesAccounted,
       Requests, Nothing, Running, durable, process, ending, requests, ghosts
<1>10. CASE Signal
  BY <1>10 DEF Signal, Shutdown, TypeOK, ImageInv, ImagesAccounted, Requests,
       Nothing, durable, process, ending, requests, ghosts
<1>11. CASE BrowserLost
  BY <1>11 DEF BrowserLost, Shutdown, TypeOK, ImageInv, ImagesAccounted,
       Requests, Nothing, durable, process, ending, requests, ghosts
<1>12. CASE Kill
  BY <1>12 DEF Kill, Gone, TypeOK, ImageInv, ImagesAccounted, Requests,
       Nothing, Running, durable, process, ending, requests, ghosts
<1>13. CASE Closes
  BY <1>13 DEF Closes, CloseServer, CloseShared, CloseContext, CloseDatabase,
       Close, After, TypeOK, ImageInv, ImagesAccounted, Requests, Nothing,
       durable, process, ending, requests, ghosts
<1>14. CASE Exit
  BY <1>14 DEF Exit, Gone, TypeOK, ImageInv, ImagesAccounted, Requests,
       Nothing, Running, durable, process, ending, requests, ghosts
<1>15. ASSUME NEW r \in Requests,
             \/ Accept(r) \/ Disconnect(r) \/ Reads(r) \/ TurnStep(r)
             \/ ImageStep(r) \/ Fails(r) \/ Remove(r) \/ Answered(r)
      PROVE  ImagesAccounted'
  <2>1. CASE Accept(r)
    BY <2>1 DEF Accept, TypeOK, ImageInv, ImagesAccounted, Requests, Nothing,
       durable, process, ending, requests, ghosts
  <2>2. CASE Disconnect(r)
    BY <2>2 DEF Disconnect, TypeOK, ImageInv, ImagesAccounted, Requests,
       Nothing, durable, process, ending, requests, ghosts
  <2>3. CASE TurnStep(r)
    BY <2>3 DEF TurnStep, Goes, MayStall, TypeOK, ImageInv, ImagesAccounted, Requests,
       Nothing, durable, process, ending, requests, ghosts
  <2>4. CASE ImageStep(r)
    <3>1. r \in Images /\ at \in [Requests -> Places] /\ Images \subseteq Requests
          /\ picture \in [Images -> [part : BOOLEAN, bytes : BOOLEAN, row : BOOLEAN]]
      BY <2>4 DEF ImageStep, TypeOK, Requests
    <3>2. ASSUME NEW i \in Images, i /= r
          PROVE  picture'[i] = picture[i] /\ at'[i] = at[i]
      BY <2>4, <3>1, <3>2 DEF ImageStep, Goes
    <3>3. /\ picture'[r].row => picture'[r].bytes /\ ~picture'[r].part
          /\ at'[r] \in {"none", "answering"} => picture'[r].row
      <4>1. CASE at[r] = "accepted" /\ Goes(r, "paged") /\ UNCHANGED picture
        BY <3>1, <4>1 DEF Goes, MayStall, ImagesAccounted
      <4>2. CASE at[r] = "paged" /\ Goes(r, "part") /\ picture' = [picture EXCEPT ![r].part = TRUE]
        BY <3>1, <4>2 DEF Goes, MayStall, ImageInv, Nothing
      <4>3. CASE /\ at[r] = "part" /\ Goes(r, "stored")
                 /\ picture' = [picture EXCEPT ![r].part = FALSE, ![r].bytes = TRUE]
        BY <3>1, <4>3 DEF Goes, ImageInv
      <4>4. CASE /\ at[r] = "stored" /\ Goes(r, "answering")
                 /\ picture' = [picture EXCEPT ![r].row = TRUE]
        BY <3>1, <4>4 DEF Goes, MayStall, ImageInv
      <4> QED
        BY <2>4, <4>1, <4>2, <4>3, <4>4 DEF ImageStep
    <3> QED
      BY <2>4, <3>2, <3>3 DEF ImageStep, ImagesAccounted, requests, ghosts
  <2>5. CASE Fails(r)
    BY <2>5 DEF Fails, Goes, MayStall, TypeOK, ImageInv, ImagesAccounted, Requests,
       Nothing, Places, durable, process, ending, requests, ghosts
  <2>6. CASE Remove(r)
    <3>1. PICK left \in Removed(picture[r]) :
               /\ picture' = [picture EXCEPT ![r] = left]
               /\ abandoned' = IF left = Nothing THEN abandoned ELSE abandoned \cup {r}
      BY <2>6 DEF Remove
    <3>2. /\ r \in Images /\ Images \subseteq Requests /\ at[r] = "removing"
          /\ at \in [Requests -> Places] /\ at' = [at EXCEPT ![r] = "answering"]
          /\ picture \in [Images -> [part : BOOLEAN, bytes : BOOLEAN, row : BOOLEAN]]
      BY <2>6 DEF Remove, Goes, TypeOK, Requests
    <3>3. ~picture[r].row
      BY <3>2 DEF ImageInv
    <3>4. ~left.row
      BY <3>1, <3>2, <3>3, RemovedShape
    <3>5. ASSUME NEW i \in Images, i /= r
          PROVE  picture'[i] = picture[i] /\ at'[i] = at[i] /\ (i \in abandoned' <=> i \in abandoned)
      BY <3>1, <3>2, <3>5
    <3>6. picture'[r] = left /\ (r \notin abandoned' => left = Nothing)
      BY <3>1, <3>2
    <3> QED
      BY <3>4, <3>5, <3>6 DEF ImagesAccounted
  <2>7. CASE Reads(r)
    BY <2>7 DEF Reads, TypeOK, ImageInv, ImagesAccounted, Requests,
       Nothing, durable, process, ending, requests, ghosts
  <2>8. CASE Answered(r)
    BY <2>8 DEF Answered, Goes, MayStall, TypeOK, ImageInv, ImagesAccounted, Requests,
       Nothing, durable, process, ending, requests, ghosts
  <2> QED
    BY <1>15, <2>1, <2>2, <2>3, <2>4, <2>5, <2>6, <2>7, <2>8
<1>16. CASE UNCHANGED vars
  BY <1>16 DEF vars, TypeOK, ImageInv, ImagesAccounted, Requests, Nothing
<1> QED
  BY <1>1, <1>2, <1>3, <1>4, <1>5, <1>6, <1>7, <1>8, <1>9, <1>10, <1>11,
     <1>12, <1>13, <1>14, <1>15, <1>16 DEF Next

(* The exit code of a life.                                                *)
LEMMA EndsKept ==
  ASSUME TypeOK, StageInv, DoomInv, EndsInOrder, [Next]_vars
  PROVE  EndsInOrder'
<1>1. CASE Start
  BY <1>1 DEF Start, TypeOK, StageInv, DoomInv, EndsInOrder, Up, NotShutting,
       Signalled, Failed, durable, process, ending, requests, ghosts
<1>2. CASE ApplyMigration
  BY <1>2 DEF ApplyMigration, TypeOK, StageInv, DoomInv, EndsInOrder, Up,
       NotShutting, Signalled, Failed, durable, process, ending, requests, ghosts
<1>3. CASE Migrated
  BY <1>3 DEF Migrated, TypeOK, StageInv, DoomInv, EndsInOrder, Up,
       NotShutting, Signalled, Failed, durable, process, ending, requests, ghosts
<1>4. CASE Cleaned
  BY <1>4 DEF Cleaned, TypeOK, StageInv, DoomInv, EndsInOrder, Up,
       NotShutting, Signalled, Failed, durable, process, ending, requests, ghosts
<1>5. CASE Launched
  BY <1>5 DEF Launched, TypeOK, StageInv, DoomInv, EndsInOrder, Up,
       NotShutting, Signalled, Failed, durable, process, ending, requests, ghosts
<1>6. CASE StartFails
  BY <1>6 DEF StartFails, TypeOK, StageInv, DoomInv, EndsInOrder, Up,
       NotShutting, Signalled, Failed, durable, process, ending, requests, ghosts
<1>7. CASE Ready
  BY <1>7 DEF Ready, Shutdown, TypeOK, StageInv, DoomInv, EndsInOrder, Up,
       NotShutting, Signalled, Failed, durable, process, ending, requests, ghosts
<1>8. CASE Listening
  BY <1>8 DEF Listening, TypeOK, StageInv, DoomInv, EndsInOrder, Up,
       NotShutting, Signalled, Failed, durable, process, ending, requests, ghosts
<1>9. CASE ListenFails
  BY <1>9 DEF ListenFails, Shutdown, Gone, TypeOK, StageInv, DoomInv,
       EndsInOrder, Up, NotShutting, Signalled, Failed, durable, process,
       ending, requests, ghosts
<1>10. CASE Signal
  BY <1>10 DEF Signal, Shutdown, TypeOK, StageInv, DoomInv, EndsInOrder, Up,
       NotShutting, Signalled, Failed, durable, process, ending, requests, ghosts
<1>11. CASE BrowserLost
  BY <1>11 DEF BrowserLost, Shutdown, TypeOK, StageInv, DoomInv, EndsInOrder,
       Up, NotShutting, Signalled, Failed, durable, process, ending, requests, ghosts
<1>12. CASE Kill
  BY <1>12 DEF Kill, Gone, TypeOK, StageInv, DoomInv, EndsInOrder, Up,
       NotShutting, Signalled, Failed, durable, process, ending, requests, ghosts
<1>13. CASE Closes
  BY <1>13 DEF Closes, CloseServer, CloseShared, CloseContext, CloseDatabase,
       Close, After, TypeOK, StageInv, DoomInv, EndsInOrder, Up, NotShutting,
       Signalled, Failed, durable, process, ending, requests, ghosts
<1>14. CASE Exit
  BY <1>14 DEF Exit, Gone, TypeOK, StageInv, DoomInv, EndsInOrder, Up,
       NotShutting, Signalled, Failed, durable, process, ending, requests, ghosts
<1>15. ASSUME NEW r \in Requests,
             \/ Accept(r) \/ Disconnect(r) \/ Reads(r) \/ TurnStep(r)
             \/ ImageStep(r) \/ Fails(r) \/ Remove(r) \/ Answered(r)
      PROVE  EndsInOrder'
  <2>1. CASE Accept(r)
    BY <2>1 DEF Accept, TypeOK, StageInv, DoomInv, EndsInOrder, Up,
       NotShutting, Signalled, Failed, durable, process, ending, requests, ghosts
  <2>2. CASE Disconnect(r)
    BY <2>2 DEF Disconnect, TypeOK, StageInv, DoomInv, EndsInOrder, Up,
       NotShutting, Signalled, Failed, durable, process, ending, requests, ghosts
  <2>3. CASE TurnStep(r)
    BY <2>3 DEF TurnStep, Goes, MayStall, TypeOK, StageInv, DoomInv, EndsInOrder, Up,
       NotShutting, Signalled, Failed, durable, process, ending, requests, ghosts
  <2>4. CASE ImageStep(r)
    BY <2>4 DEF ImageStep, Goes, MayStall, TypeOK, StageInv, DoomInv, EndsInOrder, Up,
       NotShutting, Signalled, Failed, durable, process, ending, requests, ghosts
  <2>5. CASE Fails(r)
    BY <2>5 DEF Fails, Goes, MayStall, TypeOK, StageInv, DoomInv, EndsInOrder, Up,
       NotShutting, Signalled, Failed, durable, process, ending, requests, ghosts
  <2>6. CASE Remove(r)
    BY <2>6 DEF Remove, Goes, MayStall, TypeOK, StageInv, DoomInv, EndsInOrder, Up,
       NotShutting, Signalled, Failed, durable, process, ending, requests, ghosts
  <2>7. CASE Reads(r)
    BY <2>7 DEF Reads, TypeOK, StageInv, DoomInv, EndsInOrder, Up,
       NotShutting, Signalled, Failed, durable, process, ending, requests, ghosts
  <2>8. CASE Answered(r)
    BY <2>8 DEF Answered, Goes, MayStall, TypeOK, StageInv, DoomInv, EndsInOrder, Up,
       NotShutting, Signalled, Failed, durable, process, ending, requests, ghosts
  <2> QED
    BY <1>15, <2>1, <2>2, <2>3, <2>4, <2>5, <2>6, <2>7, <2>8
<1>16. CASE UNCHANGED vars
  BY <1>16 DEF vars, TypeOK, StageInv, DoomInv, EndsInOrder, Up, NotShutting, Signalled, Failed
<1> QED
  BY <1>1, <1>2, <1>3, <1>4, <1>5, <1>6, <1>7, <1>8, <1>9, <1>10, <1>11,
     <1>12, <1>13, <1>14, <1>15, <1>16 DEF Next

(* Who is cut off has met a lost browser.                                  *)
LEMMA ServedKept ==
  ASSUME TypeOK, StageInv, ServeInv, AcceptedAreServed, [Next]_vars
  PROVE  AcceptedAreServed'
<1>1. CASE Start
  BY <1>1 DEF Start, TypeOK, StageInv, AcceptedAreServed, Up, durable,
       process, ending, requests, ghosts
<1>2. CASE ApplyMigration
  BY <1>2 DEF ApplyMigration, TypeOK, StageInv, AcceptedAreServed, Up,
       durable, process, ending, requests, ghosts
<1>3. CASE Migrated
  BY <1>3 DEF Migrated, TypeOK, StageInv, AcceptedAreServed, Up, durable,
       process, ending, requests, ghosts
<1>4. CASE Cleaned
  BY <1>4 DEF Cleaned, TypeOK, StageInv, AcceptedAreServed, Up, durable,
       process, ending, requests, ghosts
<1>5. CASE Launched
  BY <1>5 DEF Launched, TypeOK, StageInv, AcceptedAreServed, Up, durable,
       process, ending, requests, ghosts
<1>6. CASE StartFails
  BY <1>6 DEF StartFails, TypeOK, StageInv, AcceptedAreServed, Up, durable,
       process, ending, requests, ghosts
<1>7. CASE Ready
  BY <1>7 DEF Ready, Shutdown, TypeOK, StageInv, AcceptedAreServed, Up,
       durable, process, ending, requests, ghosts
<1>8. CASE Listening
  BY <1>8 DEF Listening, TypeOK, StageInv, AcceptedAreServed, Up, durable,
       process, ending, requests, ghosts
<1>9. CASE ListenFails
  BY <1>9 DEF ListenFails, Shutdown, Gone, TypeOK, StageInv,
       AcceptedAreServed, Up, durable, process, ending, requests, ghosts
<1>10. CASE Signal
  BY <1>10 DEF Signal, Shutdown, TypeOK, StageInv, AcceptedAreServed, Up,
       durable, process, ending, requests, ghosts
<1>11. CASE BrowserLost
  BY <1>11 DEF BrowserLost, Shutdown, TypeOK, StageInv, AcceptedAreServed, Up,
       durable, process, ending, requests, ghosts
<1>12. CASE Kill
  BY <1>12 DEF Kill, Gone, TypeOK, StageInv, AcceptedAreServed, Up, durable,
       process, ending, requests, ghosts
<1>13. CASE Closes
  BY <1>13 DEF Closes, CloseServer, CloseShared, CloseContext, CloseDatabase,
       Close, After, TypeOK, StageInv, AcceptedAreServed, Up, durable,
       process, ending, requests, ghosts
<1>14. CASE Exit
  BY <1>14 DEF Exit, Gone, TypeOK, StageInv, AcceptedAreServed, Up, durable,
       process, ending, requests, ghosts
<1>15. ASSUME NEW r \in Requests,
             \/ Accept(r) \/ Disconnect(r) \/ Reads(r) \/ TurnStep(r)
             \/ ImageStep(r) \/ Fails(r) \/ Remove(r) \/ Answered(r)
      PROVE  AcceptedAreServed'
  <2>1. CASE Accept(r)
    BY <2>1 DEF Accept, TypeOK, StageInv, AcceptedAreServed, Up, durable,
       process, ending, requests, ghosts
  <2>2. CASE Disconnect(r)
    BY <2>2 DEF Disconnect, TypeOK, StageInv, AcceptedAreServed, Up, durable,
       process, ending, requests, ghosts
  <2>3. CASE TurnStep(r)
    BY <2>3 DEF TurnStep, Goes, MayStall, TypeOK, StageInv, AcceptedAreServed, Up,
       durable, process, ending, requests, ghosts
  <2>4. CASE ImageStep(r)
    BY <2>4 DEF ImageStep, Goes, MayStall, TypeOK, StageInv, AcceptedAreServed, Up,
       durable, process, ending, requests, ghosts
  <2>5. CASE Fails(r)
    <3>1. r \in connected /\ ~(Needs(r) \subseteq Open) => browser = "lost"
      <4>1. SUFFICES ASSUME r \in connected, browser /= "lost"
                     PROVE  Needs(r) \subseteq Open
        OBVIOUS
      <4>2. life = "serving" /\ closing \in {"nothing", "server"}
        BY <4>1 DEF ServeInv
      <4>3. Open = {"queue", "registry", "pool", "database", "browser"}
        BY <4>1, <4>2 DEF StageInv, Open, Up
      <4> QED
        BY <4>3 DEF Needs
    <3> QED
      BY <2>5, <3>1 DEF Fails, AcceptedAreServed, process
  <2>6. CASE Remove(r)
    BY <2>6 DEF Remove, Goes, MayStall, TypeOK, StageInv, AcceptedAreServed, Up,
       durable, process, ending, requests, ghosts
  <2>7. CASE Reads(r)
    BY <2>7 DEF Reads, TypeOK, StageInv, AcceptedAreServed, Up, durable,
       process, ending, requests, ghosts
  <2>8. CASE Answered(r)
    BY <2>8 DEF Answered, Goes, MayStall, TypeOK, StageInv, AcceptedAreServed, Up, durable,
       process, ending, requests, ghosts
  <2> QED
    BY <1>15, <2>1, <2>2, <2>3, <2>4, <2>5, <2>6, <2>7, <2>8
<1>16. CASE UNCHANGED vars
  BY <1>16 DEF vars, TypeOK, StageInv, AcceptedAreServed, Up
<1> QED
  BY <1>1, <1>2, <1>3, <1>4, <1>5, <1>6, <1>7, <1>8, <1>9, <1>10, <1>11,
     <1>12, <1>13, <1>14, <1>15, <1>16 DEF Next

-----------------------------------------------------------------------------
LEMMA Initially == Init => IInv
<1> SUFFICES ASSUME Init
             PROVE  IInv
  OBVIOUS
<1>1. TypeOK
  <2>1. /\ files \in Deployments \cup {<<>>}
        /\ history \in Seq(Checksums) /\ schema \in Seq(Checksums)
    BY DEF Init
  <2>2. picture \in [Images -> [part : BOOLEAN, bytes : BOOLEAN, row : BOOLEAN]]
    BY DEF Init, Nothing
  <2>3. /\ life \in Lives /\ closing \in Stages /\ db \in BOOLEAN
        /\ browser \in {"none", "open", "lost", "closed"} /\ closed \subseteq Shared
        /\ shutting \in {NotShutting, Signalled, Failed} /\ fatal \in BOOLEAN /\ error \in BOOLEAN
    BY DEF Init, Lives, Stages
  <2>4. ended \in [how : {"alive", "exit", "killed", "thrown"}, code : {NotShutting, Signalled, Failed}]
    BY DEF Init, NotEnded
  <2>5. /\ at \in [Requests -> Places] /\ connected \subseteq Requests /\ stalled \subseteq Requests
        /\ starts \in Nat /\ doomed \in BOOLEAN /\ cut \in BOOLEAN
        /\ abandoned \subseteq Images /\ threw \subseteq {"context", "database"}
    BY DEF Init, Places
  <2> QED
    BY <2>1, <2>2, <2>3, <2>4, <2>5 DEF TypeOK
<1>2. SchemaInv /\ StageInv /\ DoomInv /\ ServeInv /\ ImageInv
  BY DEF Init, SchemaInv, StageInv, DoomInv, ServeInv, ImageInv, Requests, Up, Nothing
<1>3. SchemaIsDeployed /\ EndsInOrder /\ AcceptedAreServed
  BY DEF Init, NotEnded, NotShutting, SchemaIsDeployed, EndsInOrder, AcceptedAreServed
<1>4. ImagesAccounted
  BY DEF Init, ImagesAccounted, Nothing
<1> QED
  BY <1>1, <1>2, <1>3, <1>4 DEF IInv

LEMMA Kept == IInv /\ [Next]_vars => IInv'
<1> SUFFICES ASSUME IInv, [Next]_vars
             PROVE  IInv'
  OBVIOUS
<1>1. TypeOK' /\ SchemaInv'
  BY TypeKept, SchemaKept DEF IInv
<1>2. StageInv' /\ DoomInv' /\ ServeInv' /\ ImageInv'
  BY StagesKept, DoomKept, ServeKept, ImagesKept DEF IInv
<1>3. SchemaIsDeployed'
  BY <1>1 DEF SchemaInv, SchemaIsDeployed, Up
<1>4. ImagesAccounted' /\ EndsInOrder' /\ AcceptedAreServed'
  BY ImagesCounted, EndsKept, ServedKept DEF IInv
<1> QED
  BY <1>1, <1>2, <1>3, <1>4 DEF IInv

LEMMA Invariant == Spec => []IInv
<1> QED
  BY Initially, Kept, PTL DEF Spec

(* However often starts are interrupted, and whatever was deployed before: *)
(* the gateway serves with exactly the migrations that are deployed, each  *)
(* executed once and in order (runMigrations, src/persistence/             *)
(* migrations.ts).                                                         *)
THEOREM ServesDeployedSchema == Spec => []SchemaIsDeployed
<1>1. IInv => SchemaIsDeployed
  BY DEF IInv
<1> QED
  BY <1>1, Invariant, PTL

(* An image has its bytes when it has its row, and is left half stored     *)
(* only by a process that died or a removal that failed                    *)
(* (ImageGenerationService.generate, ImageStorage.write and remove).       *)
THEOREM ImagesAreAccounted == Spec => []ImagesAccounted
<1>1. IInv => ImagesAccounted
  BY DEF IInv
<1> QED
  BY <1>1, Invariant, PTL

(* An exit code of 0 is reached only with browser and database closed and  *)
(* a browser that was not lost before the shutdown; a process that reaches *)
(* its end has tried to close both, whatever threw before, so that only    *)
(* their own close leaves them open.  The killed process, the one in which *)
(* listen() rejects while a shutdown runs, and the loss of the browser     *)
(* after a signal are outside of this (shutdown and onBrowserFatal,        *)
(* src/index.ts, with GatewayRuntime.close).                               *)
THEOREM LivesEndInOrder == Spec => []EndsInOrder
<1>1. IInv => EndsInOrder
  BY DEF IInv
<1> QED
  BY <1>1, Invariant, PTL

(* A shutdown, however it began, takes nothing away from a request whose   *)
(* client waits (close, src/runtime.ts).                                   *)
THEOREM NobodyIsCutOff == Spec => []AcceptedAreServed
<1>1. IInv => AcceptedAreServed
  BY DEF IInv
<1> QED
  BY <1>1, Invariant, PTL
=============================================================================
