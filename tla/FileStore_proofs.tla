-------------------------- MODULE FileStore_proofs --------------------------
(***************************************************************************)
(* Proofs about Files and their bytes, for any Files, contents, tasks and  *)
(* crashes: what is used keeps its rows, Blobs are unique, nothing is left *)
(* behind, and only late removals take bytes away.                         *)
(***************************************************************************)
EXTENDS FileStore, TLAPS

(* Every File has its Blob, every Blob a File.                             *)
RowsInv ==
  /\ \A f \in FileIds : Exists(f) => files[f].sha \in blobs
  /\ blobs \subseteq Referenced

(* The File a task has created is that task's alone, and until the caller  *)
(* has learnt of it, it is private and not deleted.  A turn has a          *)
(* Conversation.                                                           *)
OwnInv ==
  /\ \A s, t \in Tasks : task[s].file = task[t].file /\ task[t].file # NoFile => s = t
  /\ \A t \in Tasks : task[t].pc \in {"stored", "uploaded"} =>
       /\ task[t].file \in FileIds /\ Exists(task[t].file)
       /\ ~files[task[t].file].public /\ ~files[task[t].file].deleted
  /\ \A t \in Tasks : task[t].pc \in {"resolved", "using"} => task[t].conv \in Conversations

(* The lock of a content has one holder, and while it works there is no    *)
(* Blob of that content.                                                   *)
LockInv ==
  /\ \A t \in Tasks : task[t].pc \in InLock \cup {"waiting", "removing"} => task[t].sha \in Hashes
  /\ \A t \in Tasks : task[t].pc \in InLock => task[t].sha \notin blobs
  /\ \A s, t \in Tasks :
       task[s].pc \in InLock /\ task[t].pc \in InLock /\ task[s].sha = task[t].sha => s = t

(* Bytes without a Blob are about to get one, or about to be removed; a    *)
(* temporary file belongs to a task that is going to remove it.            *)
Working(h) ==
  \E t \in Tasks : task[t].sha = h /\ task[t].pc \in {"copying", "landed", "undoing", "removing"}

DiskInv ==
  up =>
    /\ \A h \in Hashes : bytes[h] # "none" => h \in blobs \/ Working(h)
    /\ \A t \in parts : task[t].pc \in InLock \cup {"waiting", "stored", "failed"}

(* Nothing runs before startup cleanup is over.                            *)
DownInv == ~up => \A t \in Tasks : task[t] = Idle /\ leases[t] = {}

IInv == TypeOK /\ RowsInv /\ OwnInv /\ LockInv /\ DiskInv /\ DownInv /\ UsedFilesKept
-----------------------------------------------------------------------------
LEMMA ExistsSha ==
  ASSUME TypeOK
  PROVE  /\ \A f \in FileIds : Exists(f) <=> files[f].sha # NoHash
         /\ \A f \in FileIds : Exists(f) <=> files[f].sha \in Hashes
         /\ \A f \in FileIds : Exists(f) <=> files[f] \in Row
  BY FileAssumption DEF TypeOK, Exists, Row, NoRow

(* What a step of task t that neither creates nor deletes a row does, at   *)
(* most.                                                                   *)
Alone(t) == up /\ up' /\ \A s \in Tasks \ {t} : task'[s] = task[s]

RowsStay(t) ==
  /\ blobs' = blobs
  /\ \A f \in FileIds : files'[f].sha = files[f].sha
  /\ \A f \in FileIds :
       \/ files'[f] = files[f] \/ files[f].public
       \/ f = task[t].file /\ task'[t].pc \notin {"stored", "uploaded"}
  /\ \A f \in Attached' \cup Leased' : f \in Attached \cup Leased \/ (f \in FileIds /\ Exists(f))

OwnStays(t) ==
  /\ task'[t].file \in {task[t].file, NoFile}
  /\ task'[t].pc \in {"stored", "uploaded"} =>
       task[t].pc \in {"stored", "uploaded"} /\ task'[t].file = task[t].file
  /\ task'[t].pc \in {"resolved", "using"} => task'[t].conv \in Conversations

LockKept(t) ==
  /\ task'[t].pc \in InLock \cup {"waiting", "removing"} => task'[t].sha \in Hashes
  /\ task'[t].pc \in InLock =>
       /\ task'[t].sha \notin blobs
       /\ \A s \in Tasks \ {t} : task[s].pc \in InLock => task[s].sha # task'[t].sha

DiskKept(t) ==
  /\ \A h \in Hashes : bytes'[h] # "none" => h \in blobs \/ Working(h)'
  /\ parts' \subseteq parts \cup {t}
  /\ t \in parts' => task'[t].pc \in InLock \cup {"waiting", "stored", "failed"}

LEMMA MoveStep ==
  ASSUME IInv, NEW t \in Tasks, TypeOK',
         Alone(t), RowsStay(t), OwnStays(t), LockKept(t), DiskKept(t)
  PROVE  IInv'
<1>1. /\ \A f \in FileIds : Exists(f)' <=> Exists(f)
      /\ \A f \in FileIds : files'[f].sha = files[f].sha
  <2>1. \A f \in FileIds : Exists(f) <=> files[f].sha # NoHash
    BY ExistsSha DEF IInv
  <2>2. \A f \in FileIds : Exists(f)' <=> files'[f].sha # NoHash
    BY FileAssumption DEF TypeOK, Exists, Row, NoRow
  <2> QED
    BY <2>1, <2>2 DEF RowsStay
<1>2. RowsInv'
  BY <1>1 DEF IInv, RowsInv, RowsStay, Referenced
<1>3. OwnInv'
  <2>1. \A r, s \in Tasks : task'[r].file = task'[s].file /\ task'[r].file # NoFile => r = s
    BY DEF IInv, OwnInv, Alone, OwnStays
  <2>2. ASSUME NEW s \in Tasks, task'[s].pc \in {"stored", "uploaded"}
        PROVE  /\ task'[s].file \in FileIds /\ files'[task'[s].file] # NoRow
               /\ ~files'[task'[s].file].public /\ ~files'[task'[s].file].deleted
    <3> DEFINE f == task[s].file
    <3>1. task[s].pc \in {"stored", "uploaded"} /\ task'[s].file = f
      BY <2>2 DEF Alone, OwnStays
    <3>2. f \in FileIds /\ Exists(f) /\ ~files[f].public /\ ~files[f].deleted
      BY <3>1 DEF IInv, OwnInv
    <3>3. f = task[t].file => s = t
      BY <3>2, FileAssumption DEF IInv, OwnInv
    <3>4. files'[f] = files[f]
      BY <2>2, <3>2, <3>3 DEF RowsStay
    <3> QED
      BY <1>1, <3>1, <3>2, <3>4 DEF Exists
  <2>3. \A s \in Tasks : task'[s].pc \in {"resolved", "using"} => task'[s].conv \in Conversations
    BY DEF IInv, OwnInv, Alone, OwnStays
  <2> QED
    BY <2>1, <2>2, <2>3 DEF OwnInv, Exists
<1>4. LockInv'
  <2>1. ASSUME NEW s \in Tasks
        PROVE  /\ task'[s].pc \in InLock \cup {"waiting", "removing"} => task'[s].sha \in Hashes
               /\ task'[s].pc \in InLock => task'[s].sha \notin blobs'
    BY DEF IInv, LockInv, Alone, LockKept, RowsStay
  <2>2. ASSUME NEW r \in Tasks, NEW s \in Tasks, r # s,
               task'[r].pc \in InLock, task'[s].pc \in InLock, task'[r].sha = task'[s].sha
        PROVE  FALSE
    BY <2>2 DEF IInv, LockInv, Alone, LockKept
  <2> QED
    BY <2>1, <2>2 DEF LockInv
<1>5. DiskInv'
  <2>1. \A s \in parts' : task'[s].pc \in InLock \cup {"waiting", "stored", "failed"}
    BY DEF IInv, DiskInv, Alone, DiskKept, TypeOK
  <2>2. \A h \in Hashes : bytes'[h] # "none" => h \in blobs' \/ Working(h)'
    BY DEF DiskKept, RowsStay
  <2> QED
    BY <2>1, <2>2 DEF DiskInv
<1>6. DownInv'
  BY DEF DownInv, Alone
<1>7. UsedFilesKept'
  <2> SUFFICES ASSUME NEW f \in Attached' \cup Leased'
               PROVE  Exists(f)' /\ files'[f].sha \in blobs'
    BY DEF UsedFilesKept
  <2>1. f \in FileIds
    BY DEF Attached, Leased, TypeOK
  <2>2. Exists(f)
    BY DEF RowsStay, IInv, UsedFilesKept
  <2> QED
    BY <1>1, <2>1, <2>2 DEF RowsStay, IInv, RowsInv
<1> QED
  BY <1>2, <1>3, <1>4, <1>5, <1>6, <1>7 DEF IInv

(* A File is saved, under the lock of its content or because there is a    *)
(* Blob of it.                                                             *)
LEMMA SaveStep ==
  ASSUME IInv, NEW t \in Tasks, up, SaveFile(t),
         task[t].pc \in InLock \/ (task[t].pc = "waiting" /\ task[t].sha \in blobs),
         UNCHANGED <<disk, leases, system>>
  PROVE  IInv'
<1> DEFINE h == task[t].sha
<1>1. PICK f \in FreshIds :
        /\ files' = [files EXCEPT ![f] = [sha |-> h, public |-> FALSE, deleted |-> FALSE]]
        /\ task' = [task EXCEPT ![t].pc = "stored", ![t].file = f]
  BY DEF SaveFile
<1>2. /\ f \in FileIds /\ ~Exists(f) /\ f \notin Attached \cup Leased /\ f # NoFile
      /\ \A s \in Tasks : task[s].file # f
  BY FileAssumption DEF FreshIds
<1>3. h \in Hashes /\ blobs' = blobs \cup {h}
  BY DEF IInv, LockInv, SaveFile
<1>4. /\ task' \in [Tasks -> Task]
      /\ \A s \in Tasks : s # t => task'[s] = task[s]
      /\ task'[t].pc = "stored" /\ task'[t].file = f /\ task'[t].sha = h
  BY <1>1, <1>2 DEF IInv, TypeOK, Task, Places
<1>5. /\ files' \in [FileIds -> Row \cup {NoRow}]
      /\ \A g \in FileIds : g # f => files'[g] = files[g]
      /\ files'[f] = [sha |-> h, public |-> FALSE, deleted |-> FALSE]
  BY <1>1, <1>2, <1>3 DEF IInv, TypeOK, Row
<1>6. /\ \A g \in FileIds : g # f => (Exists(g)' <=> Exists(g))
      /\ Exists(f)'
  <2>1. files'[f] # NoRow
    BY <1>3, <1>5, FileAssumption DEF NoRow
  <2> QED
    BY <1>5, <2>1 DEF Exists
<1>7. attached' = attached /\ bytes' = bytes /\ parts' = parts /\ up' = up /\ leases' = leases
  BY DEF SaveFile, disk, system
<1>8. TypeOK'
  BY <1>3, <1>4, <1>5, <1>7 DEF IInv, TypeOK, system
<1>9. RowsInv'
  <2>1. \A g \in FileIds : Exists(g)' => files'[g].sha \in blobs'
    BY <1>3, <1>5, <1>6 DEF IInv, RowsInv
  <2>2. ASSUME NEW k \in blobs'
        PROVE  \E g \in FileIds : Exists(g)' /\ files'[g].sha = k
    <3>1. CASE k = h
      BY <3>1, <1>2, <1>5, <1>6
    <3>2. CASE k # h
      <4>1. PICK g \in FileIds : Exists(g) /\ files[g].sha = k
        BY <1>3, <2>2, <3>2 DEF IInv, RowsInv, Referenced
      <4> QED
        BY <1>2, <1>5, <1>6, <4>1
    <3> QED
      BY <3>1, <3>2
  <2> QED
    BY <2>1, <2>2 DEF RowsInv, Referenced
<1>10. OwnInv'
  <2>1. \A r, s \in Tasks : task'[r].file = task'[s].file /\ task'[r].file # NoFile => r = s
    BY <1>2, <1>4 DEF IInv, OwnInv
  <2>2. ASSUME NEW s \in Tasks, task'[s].pc \in {"stored", "uploaded"}
        PROVE  /\ task'[s].file \in FileIds /\ files'[task'[s].file] # NoRow
               /\ ~files'[task'[s].file].public /\ ~files'[task'[s].file].deleted
    <3>1. CASE s = t
      BY <3>1, <1>2, <1>4, <1>5, <1>6 DEF Exists
    <3>2. CASE s # t
      BY <2>2, <3>2, <1>2, <1>4, <1>5 DEF IInv, OwnInv, Exists
    <3> QED
      BY <3>1, <3>2
  <2>3. \A s \in Tasks : task'[s].pc \in {"resolved", "using"} => task'[s].conv \in Conversations
    BY <1>4 DEF IInv, OwnInv
  <2> QED
    BY <2>1, <2>2, <2>3 DEF OwnInv, Exists
<1>11. LockInv'
  BY <1>3, <1>4 DEF IInv, LockInv, InLock
<1>12. DiskInv'
  <2>1. ASSUME NEW k \in Hashes, bytes'[k] # "none"
        PROVE  k \in blobs' \/ Working(k)'
    <3>1. CASE k = h
      BY <3>1, <1>3
    <3>2. CASE k # h
      BY <2>1, <3>2, <1>3, <1>4, <1>7 DEF IInv, DiskInv, Working
    <3> QED
      BY <3>1, <3>2
  <2>2. \A s \in parts' : task'[s].pc \in InLock \cup {"waiting", "stored", "failed"}
    BY <1>4, <1>7 DEF IInv, DiskInv, TypeOK
  <2> QED
    BY <2>1, <2>2 DEF DiskInv
<1>13. DownInv'
  BY <1>7 DEF DownInv
<1>14. UsedFilesKept'
  <2> SUFFICES ASSUME NEW g \in Attached \cup Leased
               PROVE  Exists(g)' /\ files'[g].sha \in blobs'
    BY <1>7 DEF UsedFilesKept, Attached, Leased
  <2>1. g \in FileIds /\ g # f /\ Exists(g) /\ files[g].sha \in blobs
    BY <1>2 DEF Attached, Leased, IInv, TypeOK, UsedFilesKept
  <2> QED
    BY <2>1, <1>3, <1>5, <1>6
<1> QED
  BY <1>8, <1>9, <1>10, <1>11, <1>12, <1>13, <1>14 DEF IInv

(* The row of f is deleted, and its Blob's, if it was the last one.        *)
LEMMA DeleteStep ==
  ASSUME IInv, NEW t \in Tasks, NEW table \in [FileIds -> Row \cup {NoRow}], NEW f \in FileIds, up,
         task[t].pc \in {"idle", "releasing"}, Exists(f),
         \A g \in FileIds : table[g].sha = files[g].sha /\ (g # f => table[g] = files[g]),
         \A s \in Tasks : task[s].pc \in {"stored", "uploaded"} => task[s].file # f,
         DeleteRows(t, table, f),
         leases' \in [Tasks -> SUBSET FileIds], Leased' \subseteq Leased, f \notin Attached \cup Leased',
         UNCHANGED <<attached, disk, system>>
  PROVE  IInv'
<1> DEFINE h == files[f].sha
           last == LastOf(table, f)
<1>1. h \in Hashes /\ h \in blobs /\ table[f].sha = h
  BY ExistsSha DEF IInv, RowsInv
<1>2. /\ files' \in [FileIds -> Row \cup {NoRow}] /\ files'[f] = NoRow
      /\ \A g \in FileIds : g # f => files'[g] = files[g]
  BY DEF DeleteRows
<1>3. /\ last => blobs' = blobs \ {h} /\ \A g \in FileIds : g # f => files[g].sha # h
      /\ ~last => blobs' = blobs /\ \E g \in FileIds : g # f /\ files[g].sha = h
  BY <1>1 DEF DeleteRows, LastOf
<1>4. /\ task' \in [Tasks -> Task]
      /\ \A s \in Tasks : s # t => task'[s] = task[s]
      /\ task'[t].file \in {task[t].file, NoFile}
      /\ task'[t].pc \in {"removing", "releasing"}
      /\ last => task'[t].pc = "removing" /\ task'[t].sha = h
      /\ ~last => task'[t].pc = "releasing"
  <2> DEFINE left == IF task[t].file = f THEN NoFile ELSE task[t].file
  <2>1. task \in [Tasks -> Task] /\ task[t] \in Task
    BY DEF IInv, TypeOK
  <2>2. left \in {task[t].file, NoFile}
    OBVIOUS
  <2>3. CASE last
    <3>1. task' = [task EXCEPT ![t].pc = "removing", ![t].sha = h, ![t].file = left]
      BY <1>1, <2>3, <2>1 DEF DeleteRows, Task
    <3> HIDE DEF left
    <3>2. /\ \A s \in Tasks : s # t => task'[s] = task[s]
          /\ task'[t] = [task[t] EXCEPT !.pc = "removing", !.sha = h, !.file = left]
          /\ task' \in [Tasks -> Task]
      BY <1>1, <2>1, <2>2, <3>1 DEF Task, Places
    <3> QED
      BY <3>2, <2>1, <2>2, <2>3 DEF Task
  <2>4. CASE ~last
    <3>1. task' = [task EXCEPT ![t].pc = "releasing", ![t].file = left]
      BY <2>4, <2>1 DEF DeleteRows, Task
    <3> HIDE DEF left
    <3>2. /\ \A s \in Tasks : s # t => task'[s] = task[s]
          /\ task'[t] = [task[t] EXCEPT !.pc = "releasing", !.file = left]
          /\ task' \in [Tasks -> Task]
      BY <2>1, <2>2, <3>1 DEF Task, Places
    <3> QED
      BY <3>2, <2>1, <2>2, <2>4 DEF Task
  <2> QED
    BY <2>3, <2>4
<1> HIDE DEF last
<1>5. \A g \in FileIds : files'[g] # NoRow <=> g # f /\ Exists(g)
  BY <1>2 DEF Exists
<1>6. attached' = attached /\ bytes' = bytes /\ parts' = parts /\ up' = up /\ crashes' = crashes
  BY DEF disk, system
<1>7. blobs' \subseteq blobs
  BY <1>3
<1>8. TypeOK'
  BY <1>2, <1>4, <1>6, <1>7 DEF IInv, TypeOK
<1>9. RowsInv'
  <2>1. \A g \in FileIds : files'[g] # NoRow => files'[g].sha \in blobs'
    BY <1>2, <1>3, <1>5 DEF IInv, RowsInv
  <2>2. ASSUME NEW k \in blobs'
        PROVE  \E g \in FileIds : files'[g] # NoRow /\ files'[g].sha = k
    <3>1. PICK g \in FileIds : Exists(g) /\ files[g].sha = k
      BY <1>7, <2>2 DEF IInv, RowsInv, Referenced
    <3>2. CASE g # f
      BY <3>1, <3>2, <1>2, <1>5
    <3>3. CASE g = f
      <4>1. k = h /\ ~last
        BY <3>1, <3>3, <1>3, <2>2
      <4>2. PICK e \in FileIds : e # f /\ files[e].sha = h
        BY <4>1, <1>3
      <4>3. Exists(e)
        BY <4>2, <1>1, ExistsSha DEF IInv
      <4> QED
        BY <4>1, <4>2, <4>3, <1>2, <1>5
    <3> QED
      BY <3>2, <3>3
  <2> QED
    BY <2>1, <2>2 DEF RowsInv, Referenced, Exists
<1>10. OwnInv'
  <2>1. \A r, s \in Tasks : task'[r].file = task'[s].file /\ task'[r].file # NoFile => r = s
    BY <1>4 DEF IInv, OwnInv
  <2>2. ASSUME NEW s \in Tasks, task'[s].pc \in {"stored", "uploaded"}
        PROVE  /\ task'[s].file \in FileIds /\ files'[task'[s].file] # NoRow
               /\ ~files'[task'[s].file].public /\ ~files'[task'[s].file].deleted
    <3>1. s # t /\ task'[s] = task[s]
      BY <1>4, <2>2
    <3> QED
      BY <2>2, <3>1, <1>2, <1>5 DEF IInv, OwnInv
  <2>3. \A s \in Tasks : task'[s].pc \in {"resolved", "using"} => task'[s].conv \in Conversations
    BY <1>4 DEF IInv, OwnInv
  <2> QED
    BY <2>1, <2>2, <2>3 DEF OwnInv, Exists
<1>11. LockInv'
  <2>1. task'[t].pc \notin InLock \cup {"waiting"}
    BY <1>4 DEF InLock
  <2>2. task'[t].pc = "removing" => task'[t].sha \in Hashes
    BY <1>1, <1>4
  <2> QED
    BY <2>1, <2>2, <1>4, <1>7 DEF IInv, LockInv
<1>12. DiskInv'
  <2>1. ASSUME NEW k \in Hashes, bytes'[k] # "none"
        PROVE  k \in blobs' \/ Working(k)'
    <3>1. CASE k = h /\ last
      BY <3>1, <1>4 DEF Working
    <3>2. CASE ~(k = h /\ last)
      <4>1. k \in blobs \/ Working(k)
        BY <2>1, <1>6 DEF IInv, DiskInv
      <4>2. Working(k) => Working(k)'
        BY <1>4 DEF Working
      <4> QED
        BY <3>2, <4>1, <4>2, <1>3
    <3> QED
      BY <3>1, <3>2
  <2>2. \A s \in parts' : task'[s].pc \in InLock \cup {"waiting", "stored", "failed"}
    BY <1>4, <1>6 DEF IInv, DiskInv, TypeOK, InLock
  <2> QED
    BY <2>1, <2>2 DEF DiskInv
<1>13. DownInv'
  BY <1>6 DEF DownInv
<1>14. UsedFilesKept'
  <2> SUFFICES ASSUME NEW g \in Attached \cup Leased'
               PROVE  files'[g] # NoRow /\ files'[g].sha \in blobs'
    BY <1>6 DEF UsedFilesKept, Attached, Exists
  <2>1. g \in FileIds /\ g # f /\ Exists(g)
    BY DEF Attached, Leased, IInv, TypeOK, UsedFilesKept
  <2> QED
    BY <2>1, <1>5, <1>9 DEF RowsInv, Exists
<1> QED
  BY <1>8, <1>9, <1>10, <1>11, <1>12, <1>13, <1>14 DEF IInv
-----------------------------------------------------------------------------
(* A task whose place changes keeps what it is doing.                      *)
LEMMA GoesKeeps ==
  ASSUME TypeOK, NEW t \in Tasks, NEW place \in Places, Goes(t, place)
  PROVE  /\ task' \in [Tasks -> Task]
         /\ \A s \in Tasks \ {t} : task'[s] = task[s]
         /\ task'[t].pc = place /\ task'[t].sha = task[t].sha
         /\ task'[t].file = task[t].file /\ task'[t].conv = task[t].conv
<1>1. task \in [Tasks -> Task] /\ task[t] \in Task
  BY DEF TypeOK
<1>2. [task[t] EXCEPT !.pc = place] \in Task
  BY <1>1 DEF Task
<1>3. task' = [task EXCEPT ![t] = [task[t] EXCEPT !.pc = place]]
  BY DEF Goes
<1> QED
  BY <1>1, <1>2, <1>3 DEF Task

(* With these places a task answers for the bytes of its content.          *)
Answers == {"copying", "landed", "undoing", "removing"}

(* A step in which task t goes from one place to the next.                 *)
LEMMA GoStep ==
  ASSUME IInv, NEW t \in Tasks, NEW place \in Places, up, Goes(t, place),
         UNCHANGED system, RowsStay(t),
         files' \in [FileIds -> Row \cup {NoRow}],
         attached' \in [Conversations -> SUBSET FileIds],
         leases' \in [Tasks -> SUBSET FileIds],
         place # "stored", place = "uploaded" => task[t].pc = "stored",
         place \notin {"waiting", "removing"},
         place \in {"resolved", "using"} => task[t].conv \in Conversations,
         place \in InLock =>
           task[t].pc \in InLock
             \/ (task[t].pc = "waiting" /\ task[t].sha \notin blobs /\ LockFree(task[t].sha)),
         parts' \subseteq parts, t \in parts' => place \in InLock \cup {"stored", "failed"},
         bytes' \in [Hashes -> {"none", "part", "whole"}],
         \A h \in Hashes : h # task[t].sha => bytes'[h] = bytes[h],
         place \in Answers
           \/ (task[t].sha \in Hashes /\ bytes'[task[t].sha] = "none")
           \/ (task[t].pc \notin Answers /\ bytes' = bytes)
  PROVE  IInv'
<1>1. /\ task' \in [Tasks -> Task]
      /\ \A s \in Tasks \ {t} : task'[s] = task[s]
      /\ task'[t].pc = place /\ task'[t].sha = task[t].sha
      /\ task'[t].file = task[t].file /\ task'[t].conv = task[t].conv
  BY GoesKeeps DEF IInv
<1>2. up' = up /\ crashes' = crashes /\ blobs' = blobs
  BY DEF system, RowsStay
<1>3. TypeOK'
  BY <1>1, <1>2 DEF IInv, TypeOK
<1>4. Alone(t)
  BY <1>1, <1>2 DEF Alone
<1>5. OwnStays(t)
  BY <1>1 DEF OwnStays
<1>6. LockKept(t)
  <2>1. ASSUME place \in InLock
        PROVE  /\ task[t].sha \in Hashes /\ task[t].sha \notin blobs
               /\ \A s \in Tasks \ {t} : task[s].pc \in InLock => task[s].sha # task[t].sha
    <3>1. CASE task[t].pc \in InLock
      BY <3>1 DEF IInv, LockInv
    <3>2. CASE task[t].pc \notin InLock
      BY <2>1, <3>2 DEF IInv, LockInv, LockFree
    <3> QED
      BY <3>1, <3>2
  <2> QED
    BY <1>1, <2>1 DEF LockKept
<1>7. DiskKept(t)
  <2>1. ASSUME NEW h \in Hashes, bytes'[h] # "none"
        PROVE  h \in blobs \/ \E s \in Tasks : task'[s].sha = h /\ task'[s].pc \in Answers
    <3>1. CASE h = task[t].sha /\ place \in Answers
      BY <3>1, <1>1
    <3>2. CASE ~(h = task[t].sha /\ place \in Answers)
      <4>1. bytes[h] # "none"
        BY <2>1, <3>2
      <4>2. h = task[t].sha => task[t].pc \notin Answers
        BY <2>1, <3>2
      <4>3. h \in blobs \/ \E s \in Tasks : task[s].sha = h /\ task[s].pc \in Answers
        BY <4>1 DEF IInv, DiskInv, Working, Answers
      <4> QED
        BY <4>2, <4>3, <1>1
    <3> QED
      BY <3>1, <3>2
  <2> QED
    BY <1>1, <2>1 DEF DiskKept, Working, Answers
<1> QED
  BY <1>3, <1>4, <1>5, <1>6, <1>7, MoveStep

(* A step in which task t starts on something new, or ends, with nothing   *)
(* on its hands that it has to clean up.                                   *)
LEMMA AnewStep ==
  ASSUME IInv, NEW t \in Tasks, NEW new \in Task, up, task' = [task EXCEPT ![t] = new],
         UNCHANGED <<bytes, system>>, RowsStay(t),
         files' \in [FileIds -> Row \cup {NoRow}],
         attached' = attached,
         leases' \in [Tasks -> SUBSET FileIds],
         new.file = NoFile, new.pc \notin {"stored", "uploaded", "removing"} \cup InLock,
         new.pc = "waiting" => new.sha \in Hashes,
         new.pc \in {"resolved", "using"} => new.conv \in Conversations,
         task[t].pc \notin Answers,
         parts' \subseteq parts \cup {t}, t \in parts' => new.pc = "waiting"
  PROVE  IInv'
<1>1. /\ task' \in [Tasks -> Task]
      /\ \A s \in Tasks \ {t} : task'[s] = task[s]
      /\ task'[t] = new
  BY DEF IInv, TypeOK
<1>2. up' = up /\ crashes' = crashes /\ blobs' = blobs
  BY DEF system, RowsStay
<1>3. TypeOK'
  BY <1>1, <1>2 DEF IInv, TypeOK
<1>4. Alone(t)
  BY <1>1, <1>2 DEF Alone
<1>5. OwnStays(t)
  BY <1>1 DEF OwnStays
<1>6. LockKept(t)
  BY <1>1 DEF LockKept
<1>7. DiskKept(t)
  <2>1. ASSUME NEW h \in Hashes, bytes'[h] # "none"
        PROVE  h \in blobs \/ \E s \in Tasks : task'[s].sha = h /\ task'[s].pc \in Answers
    <3>1. h \in blobs \/ \E s \in Tasks : task[s].sha = h /\ task[s].pc \in Answers
      BY <2>1 DEF IInv, DiskInv, Working, Answers
    <3> QED
      BY <3>1, <1>1
  <2> QED
    BY <1>1, <2>1 DEF DiskKept, Working, Answers
<1> QED
  BY <1>3, <1>4, <1>5, <1>6, <1>7, MoveStep
-----------------------------------------------------------------------------
(* When tables and leases stay, so does what is used.                      *)
LEMMA NothingStirs ==
  ASSUME IInv, NEW t \in Tasks, UNCHANGED <<tables, leases>>
  PROVE  /\ RowsStay(t)
         /\ files' \in [FileIds -> Row \cup {NoRow}]
         /\ attached' \in [Conversations -> SUBSET FileIds] /\ attached' = attached
         /\ leases' \in [Tasks -> SUBSET FileIds]
         /\ Attached' = Attached /\ Leased' = Leased
  BY DEF IInv, TypeOK, tables, RowsStay, Attached, Leased

LEMMA CreateStep ==
  ASSUME IInv, NEW t \in Tasks, Create(t)
  PROVE  IInv'
<1> USE DEF At
<1>0. /\ task[t] \in Task /\ task[t].pc \in Places
      /\ bytes \in [Hashes -> {"none", "part", "whole"}] /\ parts \subseteq Tasks
      /\ t \in parts /\ up => task[t].pc \in InLock \cup {"waiting", "stored", "failed"}
      /\ task[t].pc \in InLock => task[t].sha \in Hashes /\ task[t].sha \notin blobs
  BY DEF IInv, TypeOK, Task, DiskInv, LockInv
<1>1. CASE WriteTemp(t)
  <2>1. PICK c \in Conversations \cup {NoConv}, h \in Hashes :
          task' = [task EXCEPT ![t] = [Idle EXCEPT !.pc = "waiting", !.conv = c, !.sha = h]]
    BY <1>1 DEF WriteTemp, FreeConversations
  <2> DEFINE new == [Idle EXCEPT !.pc = "waiting", !.conv = c, !.sha = h]
  <2>2. /\ new \in Task /\ new.file = NoFile /\ new.pc = "waiting" /\ new.sha \in Hashes
    BY DEF Idle, Task, Places
  <2>3. new.pc \notin {"stored", "uploaded", "removing"} \cup InLock
    BY <2>2 DEF InLock
  <2>4. RowsStay(t) /\ files' \in [FileIds -> Row \cup {NoRow}] /\ leases' \in [Tasks -> SUBSET FileIds]
    BY <1>1, NothingStirs DEF WriteTemp
  <2>5. task[t].pc \notin Answers /\ up /\ attached' = attached
    BY <1>1 DEF WriteTemp, Answers, tables
  <2> HIDE DEF new
  <2> QED
    BY <1>1, <2>1, <2>2, <2>3, <2>4, <2>5, AnewStep DEF WriteTemp, new
<1>2. CASE Lookup(t)
  <2>1. CASE task[t].sha \in blobs
    BY <1>2, <2>1, SaveStep DEF Lookup
  <2>2. CASE task[t].sha \notin blobs
    <3>1. Goes(t, "missing") /\ UNCHANGED <<tables, leases, system, disk>> /\ LockFree(task[t].sha)
      BY <1>2, <2>2 DEF Lookup
    <3>2. task[t].pc = "waiting" /\ up
      BY <1>2 DEF Lookup
    <3> QED
      BY <1>0, <2>2, <3>1, <3>2, GoStep, NothingStirs DEF disk, Places, InLock, Answers
  <2> QED
    BY <2>1, <2>2
<1>3. CASE CopyBegins(t)
  <2>1. /\ up /\ task[t].pc = "missing" /\ UNCHANGED <<tables, leases, system, parts>>
        /\ task[t].sha \in Hashes
    BY <1>0, <1>3 DEF CopyBegins, InLock
  <2>2. CASE bytes[task[t].sha] = "none"
    <3>1. Goes(t, "copying") /\ bytes' = [bytes EXCEPT ![task[t].sha] = "part"]
      BY <1>3, <2>2 DEF CopyBegins
    <3>2. /\ bytes' \in [Hashes -> {"none", "part", "whole"}]
          /\ \A h \in Hashes : h # task[t].sha => bytes'[h] = bytes[h]
      BY <1>0, <3>1
    <3> QED
      BY <1>0, <2>1, <3>1, <3>2, GoStep, NothingStirs DEF Places, InLock, Answers
  <2>3. CASE bytes[task[t].sha] # "none"
    <3>1. Goes(t, "collided") /\ bytes' = bytes
      BY <1>3, <2>3 DEF CopyBegins
    <3> QED
      BY <1>0, <2>1, <3>1, GoStep, NothingStirs DEF Places, InLock, Answers
  <2> QED
    BY <2>2, <2>3
<1>4. CASE CopyEnds(t)
  <2>1. /\ up /\ task[t].pc = "copying" /\ UNCHANGED <<tables, leases, system, parts>>
        /\ task[t].sha \in Hashes
    BY <1>0, <1>4 DEF CopyEnds, InLock
  <2>2. CASE Goes(t, "landed")
              /\ bytes' = [bytes EXCEPT ![task[t].sha] = IF @ = "part" THEN "whole" ELSE @]
    <3>1. /\ bytes' \in [Hashes -> {"none", "part", "whole"}]
          /\ \A h \in Hashes : h # task[t].sha => bytes'[h] = bytes[h]
      BY <1>0, <2>2
    <3> QED
      BY <1>0, <2>1, <2>2, <3>1, GoStep, NothingStirs DEF Places, InLock, Answers
  <2>3. CASE Goes(t, "failed") /\ bytes' = [bytes EXCEPT ![task[t].sha] = "none"]
    <3>1. /\ bytes' \in [Hashes -> {"none", "part", "whole"}]
          /\ \A h \in Hashes : h # task[t].sha => bytes'[h] = bytes[h]
          /\ bytes'[task[t].sha] = "none"
      BY <1>0, <2>1, <2>3
    <3> QED
      BY <1>0, <2>1, <2>3, <3>1, GoStep, NothingStirs DEF Places, InLock
  <2> QED
    BY <1>4, <2>2, <2>3 DEF CopyEnds
<1>5. CASE Stat(t)
  <2>1. PICK place \in {"adopted", "failed"} : Goes(t, place)
    BY <1>5 DEF Stat
  <2>2. /\ up /\ task[t].pc = "collided" /\ UNCHANGED <<tables, leases, system>>
        /\ bytes' = bytes /\ parts' = parts
    BY <1>5 DEF Stat, disk
  <2> QED
    BY <1>0, <2>1, <2>2, GoStep, NothingStirs DEF Places, InLock, Answers
<1>6. CASE Save(t)
  BY <1>6, SaveStep DEF Save, InLock
<1>7. CASE SaveFails(t)
  <2>1. /\ up /\ UNCHANGED <<tables, leases, system>> /\ bytes' = bytes /\ parts' = parts
    BY <1>7 DEF SaveFails, disk
  <2>2. CASE task[t].pc = "landed"
    <3>1. Goes(t, "undoing")
      BY <1>0, <1>7, <2>2 DEF SaveFails, InLock
    <3> QED
      BY <1>0, <2>1, <2>2, <3>1, GoStep, NothingStirs DEF Places, InLock, Answers
  <2>3. CASE task[t].pc = "adopted"
    <3>1. Goes(t, "failed")
      BY <1>7, <2>3 DEF SaveFails
    <3> QED
      BY <1>0, <2>1, <2>3, <3>1, GoStep, NothingStirs DEF Places, InLock, Answers
  <2> QED
    BY <1>7, <2>2, <2>3 DEF SaveFails
<1>8. CASE Undo(t)
  <2>1. /\ up /\ task[t].pc = "undoing" /\ UNCHANGED <<tables, leases, system, parts>>
        /\ task[t].sha \in Hashes /\ Goes(t, "failed")
        /\ bytes' = [bytes EXCEPT ![task[t].sha] = "none"]
    BY <1>0, <1>8 DEF Undo, InLock
  <2>2. /\ bytes' \in [Hashes -> {"none", "part", "whole"}]
        /\ \A h \in Hashes : h # task[t].sha => bytes'[h] = bytes[h]
        /\ bytes'[task[t].sha] = "none"
    BY <1>0, <2>1
  <2> QED
    BY <1>0, <2>1, <2>2, GoStep, NothingStirs DEF Places, InLock
<1>9. CASE Tidy(t)
  <2>1. /\ up /\ UNCHANGED <<tables, system>> /\ bytes' = bytes
        /\ parts' = parts \ {t} /\ task[t].pc \in {"failed", "stored"}
    BY <1>9 DEF Tidy
  <2>2. CASE task[t].pc = "failed" \/ task[t].conv = NoConv
    <3>1. PICK place \in {"releasing", "uploaded"} :
            Goes(t, place) /\ (place = "uploaded" => task[t].pc = "stored") /\ UNCHANGED leases
      BY <1>9, <2>2 DEF Tidy
    <3>2. /\ place \in Places
          /\ place \notin InLock \cup Answers \cup {"stored", "waiting", "resolved", "using"}
      BY <3>1 DEF Places, InLock, Answers
    <3>3. t \notin parts' /\ task[t].pc \notin Answers /\ parts' \subseteq parts
      BY <2>1 DEF Answers
    <3>4. UNCHANGED <<tables, leases>>
      BY <2>1, <3>1
    <3>5. /\ RowsStay(t) /\ files' \in [FileIds -> Row \cup {NoRow}]
          /\ attached' \in [Conversations -> SUBSET FileIds] /\ leases' \in [Tasks -> SUBSET FileIds]
      BY <3>4, NothingStirs
    <3> QED
      BY <1>0, <2>1, <3>1, <3>2, <3>3, <3>5, GoStep
  <2>3. CASE ~(task[t].pc = "failed" \/ task[t].conv = NoConv)
    <3> DEFINE f == task[t].file
    <3>1. /\ Goes(t, "resolved") /\ leases' = [leases EXCEPT ![t] = {f}]
          /\ task[t].pc = "stored"
      BY <1>9, <2>3 DEF Tidy
    <3>2. f \in FileIds /\ Exists(f)
      BY <3>1 DEF IInv, OwnInv
    <3>3. leases' \in [Tasks -> SUBSET FileIds] /\ \A g \in Leased' : g \in Leased \/ g = f
      BY <3>1, <3>2 DEF IInv, TypeOK, Leased
    <3>4. RowsStay(t)
      BY <2>1, <3>2, <3>3 DEF RowsStay, tables, Attached
    <3>5. files' \in [FileIds -> Row \cup {NoRow}] /\ attached' \in [Conversations -> SUBSET FileIds]
      BY <2>1 DEF IInv, TypeOK, tables
    <3>6. "resolved" \in Places /\ "resolved" \notin InLock \cup Answers
      BY DEF Places, InLock, Answers
    <3>7. t \notin parts' /\ task[t].pc \notin Answers /\ parts' \subseteq parts
      BY <2>1, <3>1 DEF Answers
    <3>8. UNCHANGED <<system, bytes>> /\ up /\ task[t].conv \in Conversations
      BY <1>0, <2>1, <2>3 DEF Task
    <3> QED
      BY <1>0, <3>1, <3>3, <3>4, <3>5, <3>6, <3>7, <3>8, GoStep
  <2> QED
    BY <2>2, <2>3
<1>10. CASE Promote(t)
  <2> DEFINE f == task[t].file
  <2>1. /\ up /\ task[t].pc = "uploaded" /\ UNCHANGED <<blobs, attached, disk, leases, system>>
        /\ files' = [files EXCEPT ![f].public = TRUE] /\ task' = [task EXCEPT ![t] = Idle]
    BY <1>10 DEF Promote
  <2>2. f \in FileIds /\ Exists(f) /\ files[f] \in Row
    BY <2>1, ExistsSha DEF IInv, OwnInv
  <2>3. /\ files' \in [FileIds -> Row \cup {NoRow}]
        /\ \A g \in FileIds : files'[g].sha = files[g].sha
        /\ \A g \in FileIds : g # f => files'[g] = files[g]
    BY <2>1, <2>2 DEF IInv, TypeOK, Row
  <2>4. task'[t].pc = "idle" /\ Idle \in Task /\ Idle.file = NoFile /\ Idle.pc = "idle"
    BY <2>1 DEF IInv, TypeOK, Idle, Task, Places
  <2>5. RowsStay(t)
    BY <2>1, <2>3, <2>4 DEF RowsStay, Attached, Leased
  <2> QED
    BY <1>0, <2>1, <2>3, <2>4, <2>5, AnewStep DEF IInv, TypeOK, disk, InLock, Answers
<1>11. CASE Abandon(t)
  BY <1>0, <1>11, GoStep, NothingStirs DEF Abandon, disk, Places, InLock, Answers
<1> QED
  BY <1>1, <1>2, <1>3, <1>4, <1>5, <1>6, <1>7, <1>8, <1>9, <1>10, <1>11 DEF Create
LEMMA TurnStep ==
  ASSUME IInv, NEW t \in Tasks, Turn(t)
  PROVE  IInv'
<1> USE DEF At
<1>0. /\ task[t] \in Task /\ task[t].pc \in Places /\ leases[t] \subseteq FileIds
      /\ files \in [FileIds -> Row \cup {NoRow}] /\ leases \in [Tasks -> SUBSET FileIds]
      /\ attached \in [Conversations -> SUBSET FileIds]
      /\ bytes \in [Hashes -> {"none", "part", "whole"}] /\ parts \subseteq Tasks
      /\ t \in parts /\ up => task[t].pc \in InLock \cup {"waiting", "stored", "failed"}
  BY DEF IInv, TypeOK, Task, DiskInv
<1>1. CASE BeginTurn(t)
  <2>1. PICK c \in Conversations, F \in {{}} \cup {{f} : f \in {g \in FileIds : IsPublic(g)}} :
          /\ task' = [task EXCEPT ![t] = [Idle EXCEPT !.pc = "resolved", !.conv = c]]
          /\ leases' = [leases EXCEPT ![t] = F]
    BY <1>1 DEF BeginTurn, FreeConversations
  <2> DEFINE new == [Idle EXCEPT !.pc = "resolved", !.conv = c]
  <2>2. new \in Task /\ new.file = NoFile /\ new.pc = "resolved" /\ new.conv \in Conversations
    BY DEF Idle, Task, Places
  <2>3. \A f \in F : f \in FileIds /\ Exists(f)
    BY DEF IsPublic
  <2>4. leases' \in [Tasks -> SUBSET FileIds] /\ \A f \in Leased' : f \in Leased \/ f \in F
    BY <1>0, <2>1, <2>3 DEF Leased
  <2>5. up /\ task[t].pc = "idle" /\ UNCHANGED <<tables, disk, system>>
    BY <1>1 DEF BeginTurn
  <2>6. RowsStay(t)
    BY <2>3, <2>4, <2>5 DEF RowsStay, tables, Attached
  <2> HIDE DEF new
  <2>7. task' = [task EXCEPT ![t] = new]
    BY <2>1 DEF new
  <2> QED
    BY <1>0, <2>2, <2>4, <2>5, <2>6, <2>7, AnewStep DEF tables, disk, InLock, Answers
<1>2. CASE Retain(t)
  <2> DEFINE A == attached[task[t].conv]
  <2>1. /\ up /\ task[t].pc = "resolved" /\ UNCHANGED <<tables, disk, system>>
        /\ Goes(t, "using") /\ leases' = [leases EXCEPT ![t] = @ \cup A]
    BY <1>2 DEF Retain
  <2>2. A \subseteq Attached /\ A \subseteq FileIds /\ task[t].conv \in Conversations
    BY <1>0, <2>1 DEF IInv, OwnInv, Attached
  <2>3. leases' \in [Tasks -> SUBSET FileIds] /\ \A f \in Leased' : f \in Leased \/ f \in A
    BY <1>0, <2>1, <2>2 DEF Leased
  <2>4. RowsStay(t)
    BY <2>1, <2>2, <2>3 DEF RowsStay, tables, Attached
  <2> QED
    BY <1>0, <2>1, <2>2, <2>3, <2>4, GoStep DEF tables, disk, Places, InLock, Answers
<1>3. CASE SaveAggregate(t)
  <2> DEFINE c == task[t].conv
  <2>1. PICK F \in SUBSET {f \in leases[t] : Exists(f)} : attached' = [attached EXCEPT ![c] = F]
    BY <1>3 DEF SaveAggregate
  <2>2. /\ up /\ task[t].pc = "using" /\ UNCHANGED <<files, blobs, disk, leases, system>>
        /\ Goes(t, "releasing")
    BY <1>3 DEF SaveAggregate
  <2>3. F \subseteq FileIds /\ \A f \in F : Exists(f)
    BY <1>0
  <2>4. attached' \in [Conversations -> SUBSET FileIds] /\ \A f \in Attached' : f \in Attached \/ f \in F
    BY <1>0, <2>1, <2>3 DEF Attached
  <2>5. RowsStay(t)
    BY <2>2, <2>3, <2>4 DEF RowsStay, Leased
  <2> QED
    BY <1>0, <2>2, <2>4, <2>5, GoStep DEF disk, Places, InLock, Answers
<1>4. CASE TurnFails(t)
  <2>1. task[t].pc \notin Answers /\ t \notin parts
    BY <1>0, <1>4 DEF TurnFails, Answers, InLock
  <2> QED
    BY <1>0, <1>4, <2>1, GoStep, NothingStirs DEF TurnFails, disk, Places, InLock, Answers
<1> QED
  BY <1>1, <1>2, <1>3, <1>4 DEF Turn

LEMMA RemoveStep ==
  ASSUME IInv, NEW t \in Tasks, Remove(t)
  PROVE  IInv'
<1> USE DEF At
<1>0. /\ task[t] \in Task /\ task[t].pc \in Places /\ leases[t] \subseteq FileIds
      /\ files \in [FileIds -> Row \cup {NoRow}] /\ leases \in [Tasks -> SUBSET FileIds]
      /\ attached \in [Conversations -> SUBSET FileIds]
      /\ bytes \in [Hashes -> {"none", "part", "whole"}] /\ parts \subseteq Tasks
      /\ t \in parts /\ up => task[t].pc \in InLock \cup {"waiting", "stored", "failed"}
  BY DEF IInv, TypeOK, Task, DiskInv
<1>1. CASE DeletePublic(t)
  <2>1. PICK f \in FileIds :
          IsPublic(f) /\ MaybeCleanup(t, [files EXCEPT ![f].deleted = TRUE], f, leases)
    BY <1>1 DEF DeletePublic
  <2>2. up /\ task[t].pc = "idle" /\ UNCHANGED <<attached, disk, leases, system>>
    BY <1>1 DEF DeletePublic
  <2> DEFINE table == [files EXCEPT ![f].deleted = TRUE]
  <2>3. Exists(f) /\ files[f].public /\ files[f] \in Row
    BY <2>1, ExistsSha DEF IInv, IsPublic
  <2>4. /\ table \in [FileIds -> Row \cup {NoRow}]
        /\ \A g \in FileIds : table[g].sha = files[g].sha /\ (g # f => table[g] = files[g])
    BY <1>0, <2>3 DEF Row
  <2>5. Leased' = Leased /\ Attached' = Attached
    BY <2>2 DEF Leased, Attached
  <2>6. \A s \in Tasks : task[s].pc \in {"stored", "uploaded"} => task[s].file # f
    BY <2>3 DEF IInv, OwnInv
  <2> HIDE DEF table
  <2>7. MaybeCleanup(t, table, f, leases)
    BY <2>1 DEF table
  <2>8. CASE table[f].deleted /\ ~InUse(f, leases)
    <3>1. DeleteRows(t, table, f) /\ f \notin Attached \cup Leased'
      BY <2>5, <2>7, <2>8 DEF MaybeCleanup, InUse, Leased
    <3> QED
      BY <1>0, <2>2, <2>3, <2>4, <2>5, <2>6, <3>1, DeleteStep
  <2>9. CASE ~(table[f].deleted /\ ~InUse(f, leases))
    <3>1. files' = table /\ Goes(t, "releasing") /\ blobs' = blobs
      BY <2>7, <2>9 DEF MaybeCleanup
    <3>2. RowsStay(t)
      BY <2>3, <2>4, <2>5, <3>1 DEF RowsStay
    <3> QED
      BY <1>0, <2>2, <2>4, <3>1, <3>2, GoStep DEF disk, Places, InLock, Answers
  <2> QED
    BY <2>8, <2>9
<1>2. CASE Release(t)
  <2>1. PICK f \in leases[t] :
          leases' = [leases EXCEPT ![t] = @ \ {f}] /\ MaybeCleanup(t, files, f, leases')
    BY <1>2 DEF Release
  <2>2. up /\ task[t].pc = "releasing" /\ UNCHANGED <<attached, disk, system>>
    BY <1>2 DEF Release
  <2>3. leases' \in [Tasks -> SUBSET FileIds] /\ Leased' \subseteq Leased
    BY <1>0, <2>1 DEF Leased
  <2>4. Attached' = Attached
    BY <2>2 DEF Attached
  <2>5. f \in FileIds /\ Exists(f)
    BY <1>0 DEF IInv, UsedFilesKept, Leased
  <2>6. CASE files[f].deleted /\ ~InUse(f, leases')
    <3>1. DeleteRows(t, files, f) /\ f \notin Attached \cup Leased'
      BY <2>1, <2>6 DEF MaybeCleanup, InUse, Leased
    <3>2. \A s \in Tasks : task[s].pc \in {"stored", "uploaded"} => task[s].file # f
      BY <2>6 DEF IInv, OwnInv
    <3> QED
      BY <1>0, <2>2, <2>3, <2>5, <3>1, <3>2, DeleteStep
  <2>7. CASE ~(files[f].deleted /\ ~InUse(f, leases'))
    <3>1. files' = files /\ Goes(t, "releasing") /\ blobs' = blobs
      BY <2>1, <2>7 DEF MaybeCleanup
    <3>2. RowsStay(t)
      BY <2>3, <2>4, <3>1 DEF RowsStay
    <3> QED
      BY <1>0, <2>2, <2>3, <3>1, <3>2, GoStep DEF disk, Places, InLock, Answers
  <2> QED
    BY <2>6, <2>7
<1>3. CASE Discard(t)
  <2> DEFINE f == task[t].file
  <2>1. /\ up /\ task[t].pc = "releasing" /\ UNCHANGED <<attached, disk, leases, system>>
        /\ f # NoFile
    BY <1>3 DEF Discard
  <2>2. f \in FileIds
    BY <1>0, <2>1 DEF Task
  <2>3. CASE Exists(f) /\ ~files[f].public /\ ~InUse(f, leases)
    <3>1. DeleteRows(t, files, f)
      BY <1>3, <2>3 DEF Discard
    <3>2. f \notin Attached \cup Leased' /\ Leased' \subseteq Leased
      BY <2>1, <2>3 DEF InUse, Leased
    <3>3. \A s \in Tasks : task[s].pc \in {"stored", "uploaded"} => task[s].file # f
      BY <2>1 DEF IInv, OwnInv
    <3> QED
      BY <1>0, <2>1, <2>2, <2>3, <3>1, <3>2, <3>3, DeleteStep
  <2>4. CASE ~(Exists(f) /\ ~files[f].public /\ ~InUse(f, leases))
    <3> DEFINE new == [task[t] EXCEPT !.file = NoFile]
    <3>1. task' = [task EXCEPT ![t].file = NoFile] /\ UNCHANGED <<files, blobs>>
      BY <1>3, <2>4 DEF Discard
    <3>2. new \in Task /\ new.file = NoFile /\ new.pc = "releasing"
      BY <1>0, <2>1 DEF Task
    <3>3. task' = [task EXCEPT ![t] = new]
      BY <1>0, <3>1 DEF Task
    <3> HIDE DEF new
    <3>4. RowsStay(t) /\ attached' = attached
      BY <2>1, <3>1, NothingStirs DEF tables
    <3> QED
      BY <1>0, <2>1, <3>1, <3>2, <3>3, <3>4, AnewStep DEF disk, InLock, Answers
  <2> QED
    BY <2>3, <2>4
<1>4. CASE End(t)
  <2>1. /\ up /\ task[t].pc = "releasing" /\ UNCHANGED <<tables, disk, leases, system>>
        /\ task' = [task EXCEPT ![t] = Idle]
    BY <1>4 DEF End
  <2>2. Idle \in Task /\ Idle.file = NoFile /\ Idle.pc = "idle"
    BY DEF Idle, Task, Places
  <2> QED
    BY <1>0, <2>1, <2>2, AnewStep, NothingStirs DEF disk, InLock, Answers
<1>5. CASE RemoveBytes(t)
  <2>1. /\ up /\ task[t].pc = "removing" /\ UNCHANGED <<tables, parts, leases, system>>
        /\ Goes(t, "releasing") /\ bytes' = [bytes EXCEPT ![task[t].sha] = "none"]
    BY <1>5 DEF RemoveBytes
  <2>2. /\ bytes' \in [Hashes -> {"none", "part", "whole"}]
        /\ \A h \in Hashes : h # task[t].sha => bytes'[h] = bytes[h]
        /\ task[t].sha \in Hashes => bytes'[task[t].sha] = "none"
    BY <1>0, <2>1
  <2>3. task[t].sha \in Hashes
    BY <2>1 DEF IInv, LockInv
  <2> QED
    BY <1>0, <2>1, <2>2, <2>3, GoStep, NothingStirs DEF Places, InLock
<1> QED
  BY <1>1, <1>2, <1>3, <1>4, <1>5 DEF Remove
-----------------------------------------------------------------------------
(* Nothing runs: the tasks' part of the invariant holds by itself.         *)
LEMMA AllIdle ==
  ASSUME \A t \in Tasks : task[t] = Idle
  PROVE  OwnInv /\ LockInv
  BY DEF OwnInv, LockInv, Idle, InLock

LEMMA CrashStep == ASSUME IInv, Crash PROVE IInv'
<1>1. /\ crashes' = crashes + 1 /\ ~up' /\ up' = FALSE
      /\ task' = [t \in Tasks |-> Idle] /\ leases' = [t \in Tasks |-> {}]
      /\ files' = files /\ blobs' = blobs /\ attached' = attached /\ bytes' = bytes /\ parts' = parts
  BY DEF Crash, tables, disk
<1>2. task' \in [Tasks -> Task] /\ leases' \in [Tasks -> SUBSET FileIds]
  BY <1>1 DEF Idle, Task, Places
<1>3. TypeOK'
  <2>1. crashes \in Nat
    BY DEF IInv, TypeOK
  <2>2. crashes' = crashes + 1
    BY <1>1
  <2>3. crashes' \in Nat
    BY <2>1, <2>2
  <2> QED
    BY <1>1, <1>2, <2>3 DEF IInv, TypeOK
<1>4. RowsInv'
  BY <1>1 DEF IInv, RowsInv, Exists, Referenced
<1>5. OwnInv' /\ LockInv'
  BY <1>1 DEF OwnInv, LockInv, Idle, InLock
<1>6. DiskInv' /\ DownInv'
  BY <1>1 DEF DiskInv, DownInv
<1>7. UsedFilesKept'
  BY <1>1 DEF IInv, UsedFilesKept, Attached, Leased, Exists
<1> QED
  BY <1>3, <1>4, <1>5, <1>6, <1>7 DEF IInv

LEMMA CleanStep == ASSUME IInv, NEW f \in FileIds, CleanFile(f) PROVE IInv'
<1> DEFINE h == files[f].sha
           last == LastOf(files, f)
<1>1. /\ ~up /\ f \in FileIds /\ Exists(f) /\ f \notin Attached
      /\ files' = [files EXCEPT ![f] = NoRow]
      /\ UNCHANGED <<attached, parts, task, leases, system>>
  BY DEF CleanFile, Garbage
<1>2. h \in Hashes
  BY <1>1, ExistsSha DEF IInv
<1>3. /\ last => blobs' = blobs \ {h} /\ \A g \in FileIds : g # f => files[g].sha # h
      /\ ~last => blobs' = blobs /\ \E g \in FileIds : g # f /\ files[g].sha = h
      /\ bytes' \in [Hashes -> {"none", "part", "whole"}]
  BY <1>2 DEF IInv, TypeOK, CleanFile, LastOf
<1> HIDE DEF last
<1>4. /\ files' \in [FileIds -> Row \cup {NoRow}] /\ files'[f] = NoRow
      /\ \A g \in FileIds : g # f => files'[g] = files[g]
  BY <1>1 DEF IInv, TypeOK
<1>5. \A g \in FileIds : files'[g] # NoRow <=> g # f /\ Exists(g)
  BY <1>4 DEF Exists
<1>6. attached' = attached /\ parts' = parts /\ task' = task /\ leases' = leases
      /\ up' = up /\ crashes' = crashes
  BY <1>1 DEF system
<1>7. \A t \in Tasks : task[t] = Idle /\ leases[t] = {}
  BY <1>1 DEF IInv, DownInv
<1>8. TypeOK'
  BY <1>3, <1>4, <1>6 DEF IInv, TypeOK
<1>9. RowsInv'
  <2>1. \A g \in FileIds : files'[g] # NoRow => files'[g].sha \in blobs'
    BY <1>3, <1>4, <1>5 DEF IInv, RowsInv
  <2>2. ASSUME NEW k \in blobs'
        PROVE  \E g \in FileIds : files'[g] # NoRow /\ files'[g].sha = k
    <3>1. PICK g \in FileIds : Exists(g) /\ files[g].sha = k
      BY <1>3, <2>2 DEF IInv, RowsInv, Referenced
    <3>2. CASE g # f
      BY <3>1, <3>2, <1>4, <1>5
    <3>3. CASE g = f
      <4>1. k = h /\ ~last
        BY <3>1, <3>3, <1>3, <2>2
      <4>2. PICK e \in FileIds : e # f /\ files[e].sha = h
        BY <4>1, <1>3
      <4>3. Exists(e)
        BY <4>2, <1>2, ExistsSha DEF IInv
      <4> QED
        BY <4>1, <4>2, <4>3, <1>4, <1>5
    <3> QED
      BY <3>2, <3>3
  <2> QED
    BY <2>1, <2>2 DEF RowsInv, Referenced, Exists
<1>10. OwnInv' /\ LockInv'
  <2>1. \A t \in Tasks : task'[t] = Idle
    BY <1>6, <1>7
  <2> QED
    BY <2>1 DEF OwnInv, LockInv, Idle, InLock
<1>11. DiskInv' /\ DownInv'
  BY <1>1, <1>6, <1>7 DEF DiskInv, DownInv
<1>12. UsedFilesKept'
  <2> SUFFICES ASSUME NEW g \in Attached \cup Leased
               PROVE  files'[g] # NoRow /\ files'[g].sha \in blobs'
    BY <1>6 DEF UsedFilesKept, Attached, Leased, Exists
  <2>1. g \in FileIds /\ g # f /\ Exists(g)
    BY <1>1, <1>7 DEF Attached, Leased, IInv, TypeOK, UsedFilesKept
  <2> QED
    BY <2>1, <1>5, <1>9 DEF RowsInv, Exists
<1> QED
  BY <1>8, <1>9, <1>10, <1>11, <1>12 DEF IInv

LEMMA SweepStep == ASSUME IInv, Sweep PROVE IInv'
<1>1. /\ ~up /\ up' = TRUE /\ parts' = {} /\ crashes' = crashes
      /\ files' = files /\ attached' = attached /\ task' = task /\ leases' = leases
      /\ blobs' = blobs \cap Referenced
      /\ bytes' = [h \in Hashes |-> IF h \in blobs' THEN bytes[h] ELSE "none"]
  BY DEF Sweep
<1>2. blobs' = blobs
  BY <1>1 DEF IInv, RowsInv
<1>3. \A t \in Tasks : task'[t] = Idle
  BY <1>1 DEF IInv, DownInv
<1>4. TypeOK'
  BY <1>1, <1>2 DEF IInv, TypeOK
<1>5. RowsInv'
  BY <1>1, <1>2 DEF IInv, RowsInv, Exists, Referenced
<1>6. OwnInv' /\ LockInv'
  BY <1>3 DEF OwnInv, LockInv, Idle, InLock
<1>7. DiskInv' /\ DownInv'
  BY <1>1 DEF DiskInv, DownInv
<1>8. UsedFilesKept'
  BY <1>1, <1>2 DEF IInv, UsedFilesKept, Attached, Leased, Exists
<1> QED
  BY <1>4, <1>5, <1>6, <1>7, <1>8 DEF IInv

LEMMA Initially == ASSUME Init PROVE IInv
<1>1. /\ files = [f \in FileIds |-> NoRow] /\ blobs = {} /\ parts = {} /\ up = FALSE /\ crashes = 0
      /\ attached = [c \in Conversations |-> {}] /\ bytes = [h \in Hashes |-> "none"]
      /\ task = [t \in Tasks |-> Idle] /\ leases = [t \in Tasks |-> {}]
  BY DEF Init
<1>2. Idle \in Task
  BY DEF Idle, Task, Places
<1>3. TypeOK
  BY <1>1, <1>2 DEF TypeOK
<1>4. \A f \in FileIds : ~Exists(f)
  BY <1>1 DEF Exists
<1>5. RowsInv
  BY <1>1, <1>4 DEF RowsInv, Referenced
<1>6. OwnInv /\ LockInv
  BY <1>1, AllIdle
<1>7. DiskInv /\ DownInv /\ UsedFilesKept
  BY <1>1 DEF DiskInv, DownInv, UsedFilesKept, Attached, Leased
<1> QED
  BY <1>3, <1>5, <1>6, <1>7 DEF IInv

LEMMA NextStep == ASSUME IInv, [Next]_vars PROVE IInv'
<1>1. ASSUME NEW t \in Tasks, Create(t) \/ Turn(t) \/ Remove(t) PROVE IInv'
  BY <1>1, CreateStep, TurnStep, RemoveStep
<1>2. CASE UNCHANGED vars
  BY <1>2 DEF vars, IInv, TypeOK, RowsInv, OwnInv, LockInv, DiskInv, DownInv, UsedFilesKept,
              Exists, Referenced, Working, Attached, Leased
<1> QED
  BY <1>1, <1>2, CrashStep, SweepStep, CleanStep DEF Next

LEMMA Invariance == Spec => []IInv
  BY Initially, NextStep, PTL DEF Spec
-----------------------------------------------------------------------------
(* The variables keep their types: no rm or rename makes a state of bytes, *)
(* a row or a task there is no name for.                                   *)
THEOREM FilesTypeCorrect == Spec => []TypeOK
<1>1. IInv => TypeOK
  BY DEF IInv
<1> QED
  BY <1>1, Invariance, PTL

(* However uploads, deletes, turns, startups and crashes interleave, a     *)
(* File that a turn has leased or a stored message names keeps its row and *)
(* its Blob's row (maybeCleanupFile, discardPrivateFile, cleanup).         *)
THEOREM UsedFilesStay == Spec => []UsedFilesKept
<1>1. IInv => UsedFilesKept
  BY DEF IInv
<1> QED
  BY <1>1, Invariance, PTL

(* withHashLock suffices for file_blobs.sha256: whoever has put bytes in   *)
(* place finds no Blob row of their content when it inserts its own.       *)
THEOREM BlobsAreUnique == Spec => []BlobInsertedOnce
<1>1. IInv => BlobInsertedOnce
  BY DEF IInv, LockInv, BlobInsertedOnce, InLock
<1> QED
  BY <1>1, Invariance, PTL

(* When all is quiet there are no bytes and no Blob without a File and no  *)
(* temporary file, whatever has failed and crashed before.                 *)
THEOREM NothingStaysBehind == Spec => []NothingLeftBehind
<1>1. ASSUME IInv PROVE NothingLeftBehind
  <2> SUFFICES ASSUME up, \A t \in Tasks : task[t] = Idle
               PROVE  /\ \A h \in Hashes : bytes[h] # "none" => h \in blobs
                      /\ blobs \subseteq Referenced
                      /\ parts = {}
    BY DEF NothingLeftBehind
  <2>1. \A t \in Tasks : task[t].pc = "idle"
    BY DEF Idle
  <2>2. \A h \in Hashes : ~Working(h)
    BY <2>1 DEF Working
  <2>3. parts = {}
    BY <1>1, <2>1 DEF IInv, TypeOK, DiskInv, InLock
  <2> QED
    BY <1>1, <2>2, <2>3 DEF IInv, DiskInv, RowsInv
<1> QED
  BY <1>1, Invariance, PTL

(* Neither a failed copy or save nor startup cleanup takes bytes away that *)
(* the database refers to: only an rm that comes too late does.            *)
THEOREM OnlyLateRemovals == Spec => OnlyLateRemovalsLose
<1> DEFINE Late(h) == \E t \in Tasks : task[t].pc = "removing" /\ task[t].sha = h
           Lost(h) == bytes[h] = "whole" /\ bytes'[h] # "whole"
<1>1. ASSUME IInv, [Next]_vars, NEW h \in blobs \cap blobs', Lost(h)
      PROVE  Late(h)
  <2>1. h \in Hashes /\ bytes \in [Hashes -> {"none", "part", "whole"}]
    BY <1>1 DEF IInv, TypeOK
  <2>2. ASSUME NEW t \in Tasks, Create(t) PROVE Late(h)
    <3>1. CASE CopyBegins(t)
      BY <1>1, <2>1, <3>1 DEF CopyBegins
    <3>2. CASE CopyEnds(t)
      <4>1. task[t].sha # h
        BY <1>1, <3>2 DEF CopyEnds, At, IInv, LockInv, InLock
      <4> QED
        BY <1>1, <2>1, <3>2, <4>1 DEF CopyEnds
    <3>3. CASE Undo(t)
      <4>1. task[t].sha # h
        BY <1>1, <3>3 DEF Undo, At, IInv, LockInv, InLock
      <4> QED
        BY <1>1, <2>1, <3>3, <4>1 DEF Undo
    <3> QED
      BY <1>1, <2>2, <3>1, <3>2, <3>3 DEF Create, WriteTemp, Lookup, Stat, Save, SaveFails, Tidy,
                                          Promote, Abandon, disk
  <2>3. ASSUME NEW t \in Tasks, Turn(t) PROVE Late(h)
    BY <1>1, <2>3 DEF Turn, BeginTurn, Retain, SaveAggregate, TurnFails, disk
  <2>4. ASSUME NEW t \in Tasks, Remove(t) PROVE Late(h)
    <3>1. CASE RemoveBytes(t)
      BY <1>1, <2>1, <3>1 DEF RemoveBytes, At
    <3> QED
      BY <1>1, <2>4, <3>1 DEF Remove, DeletePublic, Release, Discard, End, disk
  <2>5. ASSUME NEW f \in FileIds, CleanFile(f) PROVE Late(h)
    BY <1>1, <2>1, <2>5 DEF CleanFile, IInv, TypeOK
  <2>6. CASE Sweep
    BY <1>1, <2>1, <2>6 DEF Sweep
  <2>7. CASE Crash \/ UNCHANGED vars
    BY <1>1, <2>7 DEF Crash, disk, vars
  <2> QED
    BY <1>1, <2>2, <2>3, <2>4, <2>5, <2>6, <2>7 DEF Next
<1>2. IInv /\ [Next]_vars => [\A h \in blobs \cap blobs' : Lost(h) => Late(h)]_vars
  BY <1>1
<1> QED
  BY <1>2, Invariance, PTL DEF Spec, OnlyLateRemovalsLose
=============================================================================
