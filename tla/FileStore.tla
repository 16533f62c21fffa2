------------------------------ MODULE FileStore ------------------------------
(***************************************************************************)
(* Files and their bytes (src/attachments/file-service.ts with             *)
(* src/persistence/file-lifecycle-store.ts), as uploads and deletes        *)
(* (src/api/routes/files.ts) and the turns of Conversations                *)
(* (src/attachments/resolver.ts) use them.                                 *)
(*                                                                         *)
(* A logical File is a row; Files with the same content share one Blob row *)
(* and one file of bytes, named by its SHA-256.  Rows change in database   *)
(* transactions, bytes do not: copying, looking at and removing them are   *)
(* steps of their own, between which other tasks run or the process dies.  *)
(***************************************************************************)
EXTENDS Naturals, FiniteSets

CONSTANTS
  Tasks,          \* uploads, deletes and turns in progress at a time
  FileIds,        \* ids of File rows
  Hashes,         \* contents
  Conversations,  \* Conversations whose messages have attachments
  NoFile, NoHash, NoConv,
  MaxCrashes      \* bound: crashes in a behaviour

ASSUME FileAssumption ==
  /\ NoFile \notin FileIds /\ NoHash \notin Hashes /\ NoConv \notin Conversations
  /\ MaxCrashes \in Nat

VARIABLES
  files,     \* the files table
  blobs,     \* the contents that have a row in the file_blobs table
  attached,  \* the Files the stored attachments of each Conversation name
  bytes,     \* the file of each content in the blob directory
  parts,     \* the tasks whose temporary file exists
  task,      \* what each task does
  leases,    \* the Files each task has leased
  up,        \* startup cleanup is over
  crashes

tables == <<files, blobs, attached>>
disk   == <<bytes, parts>>
system == <<up, crashes>>
vars   == <<files, blobs, attached, bytes, parts, task, leases, up, crashes>>

NoRow == [sha |-> NoHash, public |-> FALSE, deleted |-> FALSE]
Row   == [sha : Hashes, public : BOOLEAN, deleted : BOOLEAN]

(* What a task does is either to upload or to execute a turn of conv.      *)
(* file is the private File it created, sha the content it works on.       *)
Idle == [pc |-> "idle", conv |-> NoConv, file |-> NoFile, sha |-> NoHash]

InLock == {"missing", "copying", "collided", "landed", "adopted", "undoing"}
Places == {"idle", "waiting", "stored", "failed", "uploaded", "resolved", "using",
           "releasing", "removing"} \cup InLock

Task ==
  [pc : Places, conv : Conversations \cup {NoConv}, file : FileIds \cup {NoFile},
   sha : Hashes \cup {NoHash}]

Init ==
  /\ files = [f \in FileIds |-> NoRow]
  /\ blobs = {}
  /\ attached = [c \in Conversations |-> {}]
  /\ bytes = [h \in Hashes |-> "none"]
  /\ parts = {}
  /\ task = [t \in Tasks |-> Idle]
  /\ leases = [t \in Tasks |-> {}]
  /\ up = FALSE
  /\ crashes = 0

Exists(f)   == files[f] # NoRow
IsPublic(f) == Exists(f) /\ files[f].public /\ ~files[f].deleted

Attached == UNION {attached[c] : c \in Conversations}
Leased   == UNION {leases[t] : t \in Tasks}

FreshIds ==
  {f \in FileIds : ~Exists(f) /\ f \notin Attached \cup Leased /\ \A t \in Tasks : task[t].file # f}

(* A turn has its Conversation to itself.                                  *)
FreeConversations == {c \in Conversations : \A t \in Tasks : task[t].conv # c}

At(t, place)   == up /\ task[t].pc = place
Goes(t, place) == task' = [task EXCEPT ![t].pc = place]

-----------------------------------------------------------------------------
(* Creating a private File.                                                *)

(* writeTemp: an upload, or a turn with an attachment that brings its      *)
(* bytes, has written them to a temporary file and knows their hash.       *)
(* Bound: every creation in progress will find an id in FileIds.           *)
WriteTemp(t) ==
  /\ At(t, "idle")
  /\ Cardinality({s \in Tasks : task[s].pc \in InLock \cup {"waiting"}}) < Cardinality(FreshIds)
  /\ \E c \in FreeConversations \cup {NoConv}, h \in Hashes :
       task' = [task EXCEPT ![t] = [Idle EXCEPT !.pc = "waiting", !.conv = c, !.sha = h]]
  /\ parts' = parts \cup {t}
  /\ UNCHANGED <<tables, bytes, leases, system>>

(* Mutant of LockFree: no lock.                                            *)
LockFreeAlways(h) == TRUE

(* withHashLock; which of several waiting tasks is next is left open.      *)
LockFree(h) == \A s \in Tasks : ~(task[s].pc \in InLock /\ task[s].sha = h)

(* saveLogicalFile: the File's row, and its Blob's if there is none yet.   *)
SaveFile(t) ==
  /\ \E f \in FreshIds :
       /\ files' = [files EXCEPT ![f] = [sha |-> task[t].sha, public |-> FALSE, deleted |-> FALSE]]
       /\ task' = [task EXCEPT ![t].pc = "stored", ![t].file = f]
  /\ blobs' = blobs \cup {task[t].sha}
  /\ UNCHANGED attached

(* With the lock: content that is known already is not copied again.       *)
Lookup(t) ==
  /\ At(t, "waiting") /\ LockFree(task[t].sha)
  /\ IF task[t].sha \in blobs THEN SaveFile(t) ELSE Goes(t, "missing") /\ UNCHANGED tables
  /\ UNCHANGED <<disk, leases, system>>

(* copyFile with COPYFILE_EXCL creates the destination and fills it; what  *)
(* is removed under it is gone.  A destination that exists is adopted if   *)
(* it has the right size.                                                  *)
CopyBegins(t) ==
  /\ At(t, "missing")
  /\ IF bytes[task[t].sha] = "none"
     THEN Goes(t, "copying") /\ bytes' = [bytes EXCEPT ![task[t].sha] = "part"]
     ELSE Goes(t, "collided") /\ UNCHANGED bytes
  /\ UNCHANGED <<tables, parts, leases, system>>

CopyEnds(t) ==
  /\ At(t, "copying")
  /\ \/ /\ Goes(t, "landed")
        /\ bytes' = [bytes EXCEPT ![task[t].sha] = IF @ = "part" THEN "whole" ELSE @]
     \/ Goes(t, "failed") /\ bytes' = [bytes EXCEPT ![task[t].sha] = "none"]
  /\ UNCHANGED <<tables, parts, leases, system>>

Stat(t) ==
  /\ At(t, "collided")
  /\ Goes(t, IF bytes[task[t].sha] = "whole" THEN "adopted" ELSE "failed")
  /\ UNCHANGED <<tables, disk, leases, system>>

Save(t) ==
  /\ At(t, "landed") \/ At(t, "adopted")
  /\ SaveFile(t)
  /\ UNCHANGED <<disk, leases, system>>

(* The transaction fails: bytes this task put there are removed again.     *)
SaveFails(t) ==
  /\ \/ At(t, "landed") /\ Goes(t, IF task[t].sha \in blobs THEN "failed" ELSE "undoing")
     \/ At(t, "adopted") /\ Goes(t, "failed")
  /\ UNCHANGED <<tables, disk, leases, system>>

(* Mutant of Undo: the bytes stay.                                         *)
UndoNothing(t) ==
  /\ At(t, "undoing")
  /\ Goes(t, "failed")
  /\ UNCHANGED <<tables, disk, leases, system>>

Undo(t) ==
  /\ At(t, "undoing")
  /\ Goes(t, "failed")
  /\ bytes' = [bytes EXCEPT ![task[t].sha] = "none"]
  /\ UNCHANGED <<tables, parts, leases, system>>

(* The temporary file is removed before the caller learns the id of its    *)
(* File, or that there is none.  A turn leases its File at once.           *)
Tidy(t) ==
  /\ \/ At(t, "failed") /\ Goes(t, "releasing") /\ UNCHANGED leases
     \/ /\ At(t, "stored")
        /\ IF task[t].conv = NoConv THEN Goes(t, "uploaded") /\ UNCHANGED leases
           ELSE Goes(t, "resolved") /\ leases' = [leases EXCEPT ![t] = {task[t].file}]
  /\ parts' = parts \ {t}
  /\ UNCHANGED <<tables, bytes, system>>

(* An upload ends: its File becomes public, or the request was no good.    *)
Promote(t) ==
  /\ At(t, "uploaded")
  /\ files' = [files EXCEPT ![task[t].file].public = TRUE]
  /\ task' = [task EXCEPT ![t] = Idle]
  /\ UNCHANGED <<blobs, attached, disk, leases, system>>

Abandon(t) ==
  /\ At(t, "uploaded")
  /\ Goes(t, "releasing")
  /\ UNCHANGED <<tables, disk, leases, system>>

-----------------------------------------------------------------------------
(* Attachments of a turn.                                                  *)

(* A turn without attachments, or with one that is a public File.          *)
BeginTurn(t) ==
  /\ At(t, "idle")
  /\ \E c \in FreeConversations, F \in {{}} \cup {{f} : f \in {g \in FileIds : IsPublic(g)}} :
       /\ task' = [task EXCEPT ![t] = [Idle EXCEPT !.pc = "resolved", !.conv = c]]
       /\ leases' = [leases EXCEPT ![t] = F]
  /\ UNCHANGED <<tables, disk, system>>

(* retainStored: the Files of the stored attachments are leased as well,   *)
(* deleted ones included.                                                  *)
Retain(t) ==
  /\ At(t, "resolved")
  /\ Goes(t, "using")
  /\ leases' = [leases EXCEPT ![t] = @ \cup attached[task[t].conv]]
  /\ UNCHANGED <<tables, disk, system>>

(* The aggregate is saved with the attachments its transcript has now.     *)
SaveAggregate(t) ==
  /\ At(t, "using")
  /\ \E F \in SUBSET {f \in leases[t] : Exists(f)} :
       attached' = [attached EXCEPT ![task[t].conv] = F]
  /\ Goes(t, "releasing")
  /\ UNCHANGED <<files, blobs, disk, leases, system>>

TurnFails(t) ==
  /\ At(t, "resolved") \/ At(t, "using")
  /\ Goes(t, "releasing")
  /\ UNCHANGED <<tables, disk, leases, system>>

-----------------------------------------------------------------------------
(* Deleting.                                                               *)

(* Mutant of InUse: a lease does not keep a File.                          *)
InUseAttached(f, held) == f \in Attached

InUse(f, held) == f \in Attached \/ \E s \in Tasks : f \in held[s]

(* The rows table has no other File with the content of f.                 *)
LastOf(table, f) == \A g \in FileIds \ {f} : table[g].sha # table[f].sha

(* deleteLogicalFile: the row of f, and its Blob's if nobody refers to it  *)
(* any more; then the bytes have to go, too.  The task goes on releasing.  *)
DeleteRows(t, table, f) ==
  /\ files' = [table EXCEPT ![f] = NoRow]
  /\ IF LastOf(table, f)
     THEN /\ blobs' = blobs \ {table[f].sha}
          /\ task' = [task EXCEPT ![t].pc = "removing", ![t].sha = table[f].sha,
                                  ![t].file = IF @ = f THEN NoFile ELSE @]
     ELSE /\ UNCHANGED blobs
          /\ task' = [task EXCEPT ![t].pc = "releasing", ![t].file = IF @ = f THEN NoFile ELSE @]

(* maybeCleanupFile, with the leases held: a deleted File goes when nobody *)
(* uses it.                                                                *)
MaybeCleanup(t, table, f, held) ==
  IF table[f].deleted /\ ~InUse(f, held) THEN DeleteRows(t, table, f)
  ELSE files' = table /\ Goes(t, "releasing") /\ UNCHANGED blobs

DeletePublic(t) ==
  /\ At(t, "idle")
  /\ \E f \in FileIds :
       /\ IsPublic(f)
       /\ MaybeCleanup(t, [files EXCEPT ![f].deleted = TRUE], f, leases)
  /\ UNCHANGED <<attached, disk, leases, system>>

(* A lease is released; the order of a task's leases is left open.         *)
Release(t) ==
  /\ At(t, "releasing")
  /\ \E f \in leases[t] :
       /\ leases' = [leases EXCEPT ![t] = @ \ {f}]
       /\ MaybeCleanup(t, files, f, leases')
  /\ UNCHANGED <<attached, disk, system>>

(* discardPrivateFile: the File the task created goes, unless it is used.  *)
Discard(t) ==
  /\ At(t, "releasing") /\ leases[t] = {} /\ task[t].file # NoFile
  /\ LET f == task[t].file IN
     IF Exists(f) /\ ~files[f].public /\ ~InUse(f, leases) THEN DeleteRows(t, files, f)
     ELSE task' = [task EXCEPT ![t].file = NoFile] /\ UNCHANGED <<files, blobs>>
  /\ UNCHANGED <<attached, disk, leases, system>>

End(t) ==
  /\ At(t, "releasing") /\ leases[t] = {} /\ task[t].file = NoFile
  /\ task' = [task EXCEPT ![t] = Idle]
  /\ UNCHANGED <<tables, disk, leases, system>>

(* rm of the bytes whose rows are gone, outside any lock.                  *)
RemoveBytes(t) ==
  /\ At(t, "removing")
  /\ bytes' = [bytes EXCEPT ![task[t].sha] = "none"]
  /\ Goes(t, "releasing")
  /\ UNCHANGED <<tables, parts, leases, system>>

-----------------------------------------------------------------------------
(* Crash and startup.                                                      *)

Crash ==
  /\ crashes < MaxCrashes
  /\ crashes' = crashes + 1
  /\ up' = FALSE
  /\ task' = [t \in Tasks |-> Idle]
  /\ leases' = [t \in Tasks |-> {}]
  /\ UNCHANGED <<tables, disk>>

Garbage == {f \in FileIds : Exists(f) /\ files[f].deleted /\ f \notin Attached}

(* cleanup: deletes nobody finished are finished.  A crash can come before *)
(* the bytes are removed.                                                  *)
CleanFile(f) ==
  /\ ~up /\ f \in Garbage
  /\ files' = [files EXCEPT ![f] = NoRow]
  /\ IF LastOf(files, f)
     THEN /\ blobs' = blobs \ {files[f].sha}
          /\ bytes' \in {bytes, [bytes EXCEPT ![files[f].sha] = "none"]}
     ELSE UNCHANGED <<blobs, bytes>>
  /\ UNCHANGED <<attached, parts, task, leases, system>>

Referenced == {files[f].sha : f \in {g \in FileIds : Exists(g)}}

(* Mutant of Sweep: only Files that are not deleted keep their bytes.      *)
SweepDeleted ==
  /\ ~up /\ Garbage = {}
  /\ blobs' = blobs \cap Referenced
  /\ bytes' = [h \in Hashes |->
       IF \E f \in FileIds : files[f].sha = h /\ ~files[f].deleted THEN bytes[h] ELSE "none"]
  /\ parts' = {}
  /\ up' = TRUE
  /\ UNCHANGED <<files, attached, task, leases, crashes>>

(* Then Blobs without a File, bytes without a Blob and temporary files are *)
(* removed, and requests are served.                                       *)
Sweep ==
  /\ ~up /\ Garbage = {}
  /\ blobs' = blobs \cap Referenced
  /\ bytes' = [h \in Hashes |-> IF h \in blobs' THEN bytes[h] ELSE "none"]
  /\ parts' = {}
  /\ up' = TRUE
  /\ UNCHANGED <<files, attached, task, leases, crashes>>

Create(t) ==
  \/ WriteTemp(t) \/ Lookup(t) \/ CopyBegins(t) \/ CopyEnds(t) \/ Stat(t)
  \/ Save(t) \/ SaveFails(t) \/ Undo(t) \/ Tidy(t) \/ Promote(t) \/ Abandon(t)

Turn(t) == BeginTurn(t) \/ Retain(t) \/ SaveAggregate(t) \/ TurnFails(t)

Remove(t) == DeletePublic(t) \/ Release(t) \/ Discard(t) \/ End(t) \/ RemoveBytes(t)

Next ==
  \/ \E t \in Tasks : Create(t) \/ Turn(t) \/ Remove(t)
  \/ Crash \/ Sweep
  \/ \E f \in FileIds : CleanFile(f)

Spec == Init /\ [][Next]_vars

-----------------------------------------------------------------------------
(* Types of all variables.                                                 *)
TypeOK ==
  /\ files \in [FileIds -> Row \cup {NoRow}]
  /\ blobs \subseteq Hashes
  /\ attached \in [Conversations -> SUBSET FileIds]
  /\ bytes \in [Hashes -> {"none", "part", "whole"}]
  /\ parts \subseteq Tasks
  /\ task \in [Tasks -> Task]
  /\ leases \in [Tasks -> SUBSET FileIds]
  /\ up \in BOOLEAN
  /\ crashes \in Nat

(* A File some turn or stored message still needs keeps its row and its    *)
(* Blob's row, whoever deletes it meanwhile, until the last one is done.   *)
UsedFilesKept ==
  \A f \in Attached \cup Leased : Exists(f) /\ files[f].sha \in blobs

(* The lock makes file_blobs.sha256 unique without the constraint: nobody  *)
(* else has inserted the Blob a task is going to insert.                   *)
BlobInsertedOnce ==
  \A t \in Tasks : task[t].pc \in {"landed", "adopted"} => task[t].sha \notin blobs

(* Failed uploads, failed turns and deletes clean up behind themselves:    *)
(* when no task is in progress there are no bytes and no Blob without a    *)
(* File and no temporary file, even if the process has crashed before.     *)
NothingLeftBehind ==
  up /\ (\A t \in Tasks : task[t] = Idle) =>
    /\ \A h \in Hashes : bytes[h] # "none" => h \in blobs
    /\ blobs \subseteq Referenced
    /\ parts = {}

(* Bytes the database refers to are never removed by startup cleanup or by *)
(* the failure of a save, only by a removal that comes too late.           *)
OnlyLateRemovalsLose ==
  [][\A h \in blobs \cap blobs' : bytes[h] = "whole" /\ bytes'[h] # "whole" =>
       \E t \in Tasks : task[t].pc = "removing" /\ task[t].sha = h]_vars

(* docs/superpowers/specs/2026-08-17-phase-6-attachments-files-design.md   *)
(* :466: no File row without its bytes on disk.                            *)
RowsHaveBytes ==
  \A f \in FileIds : Exists(f) => bytes[files[f].sha] = "whole"
=============================================================================
