----------------------------- MODULE FileStorage -----------------------------
(***************************************************************************)
(* FileStorage::write_atomic, load and remove (src/src/storage.cpp) on a   *)
(* file system with inodes: every writer goes through the same .tmp name,  *)
(* and a name may move while somebody holds the file open.                 *)
(*                                                                         *)
(* What is written is a piece of data that reaches the file in blocks.     *)
(* Writers and readers are threads, or processes that share the path; who  *)
(* writes may also read.                                                   *)
(***************************************************************************)
EXTENDS FiniteSets, Naturals

CONSTANTS
  Data,      \* what is saved: the outcomes of maybe_encrypt
  Writers,   \* who calls save() and remove()
  Readers,   \* who calls load()
  Blocks,    \* the number of blocks of a piece of data
  Failures,  \* the operations that may fail, the power supply among them
  None       \* no data, no file, no inode

Operations ==
  {"directory", "open", "write", "flush", "rename", "read", "remove", "power"}
Damages == {"overlap",  \* a file was being written while another save began
            "flush",    \* fclose lost what fwrite had accepted
            "power"}    \* the machine went down, not just the process

ASSUME StorageAssumption ==
  /\ None \notin Data /\ None \notin Nat
  /\ IsFiniteSet(Writers) /\ IsFiniteSet(Readers)
  /\ Blocks \in Nat \ {0}
  /\ Failures \subseteq Operations

Processes == Writers \cup Readers

(* An inode is open in a process, or has a name; as many as that are needed. *)
Inodes == 1 .. Cardinality(Processes) + 1

VARIABLES
  dir,     \* whether the directory exists
  path,    \* the inode of the file
  tmp,     \* the inode of file_path + ".tmp"
  blocks,  \* the content of each inode
  step,    \* the step each process takes next
  data,    \* what each writer is saving
  fd,      \* the inode each process has open
  count,   \* how many blocks each process has written or read
  reply,   \* what each process's call returned, None while it is under way
  dirty,   \* the inodes with blocks that are not on the disk yet
  damage   \* history: what happened that the code does not make up for

kernel == <<dir, path, tmp, blocks, dirty>>
process == <<step, data, fd, count, reply>>
vars == <<kernel, process, damage>>

Content == [1 .. Blocks -> Data \cup {None}]
Whole(d) == [b \in 1 .. Blocks |-> d]
Empty == Whole(None)

(* The data a content is, when it is a whole piece.                        *)
Meaning(c) == IF \E d \in Data : c = Whole(d) THEN c[1] ELSE "damaged"

InUse(i) == i \in {path, tmp} \/ \E p \in Processes : fd[p] = i
FreeInode == CHOOSE i \in Inodes : ~InUse(i)

(* An inode that no name and no process refers to any more is freed.       *)
Reclaim ==
  /\ blocks' = [i \in Inodes |-> IF InUse(i)' THEN blocks[i] ELSE Empty]
  /\ dirty' = {i \in dirty : InUse(i)'}

Damaged(kind, happens) ==
  damage' = damage \cup (IF happens THEN {kind} ELSE {})

Goto(p, s) == step' = [step EXCEPT ![p] = s]

Reply(p, r) ==
  /\ Goto(p, "idle")
  /\ reply' = [reply EXCEPT ![p] = r]
  /\ fd' = [fd EXCEPT ![p] = None]
  /\ count' = [count EXCEPT ![p] = 0]

-----------------------------------------------------------------------------
(* write_atomic                                                            *)

(* The result of mkdir is ignored: it may be there already.                *)
CreateDirectory ==
  dir' \in {TRUE} \cup (IF "directory" \in Failures THEN {dir} ELSE {})

Save(w, d) ==
  /\ step[w] = "idle"
  /\ data' = [data EXCEPT ![w] = d]
  /\ CreateDirectory
  /\ Goto(w, "open")
  /\ reply' = [reply EXCEPT ![w] = None]
  /\ Damaged("overlap", \E v \in Writers : step[v] \notin {"idle", "read"})
  /\ UNCHANGED <<path, tmp, blocks, fd, count, dirty>>

Finish(w, r) == Reply(w, r) /\ data' = [data EXCEPT ![w] = None]
Ignored(w) == Finish(w, "success")  \* mutant
Failed(w) == Finish(w, "storage_write_error")

KeptAsIs(i) == blocks[i]  \* mutant
Truncated(i) == Empty

(* fopen(tmp_path, "wb") truncates a file that is there, also one that     *)
(* another writer has open, or one left behind by a crash.                 *)
OpenTmp(w) ==
  /\ step[w] = "open"
  /\ \/ /\ dir
        /\ tmp' = IF tmp # None THEN tmp ELSE FreeInode
        /\ blocks' = [blocks EXCEPT ![tmp'] = Truncated(tmp')]
        /\ fd' = [fd EXCEPT ![w] = tmp']
        /\ Goto(w, "write")
        /\ UNCHANGED <<data, count, reply>>
     \/ /\ ~dir \/ "open" \in Failures
        /\ Failed(w)
        /\ UNCHANGED <<tmp, blocks>>
  /\ UNCHANGED <<dir, path, dirty, damage>>

(* A block reaches the file, in fwrite or when fclose flushes the buffer.  *)
MoreOrLast(w) == count[w] <= Blocks  \* mutant
More(w) == count[w] < Blocks

WriteBlock(w) ==
  /\ step[w] = "write" /\ More(w)
  /\ count' = [count EXCEPT ![w] = @ + 1]
  /\ blocks' = [blocks EXCEPT ![fd[w]][count'[w]] = data[w]]
  /\ dirty' = dirty \cup {fd[w]}
  /\ UNCHANGED <<dir, path, tmp, step, data, fd, reply, damage>>

CloseOk(w) == count[w] = Blocks \/ "flush" \in Failures

(* fclose: its result is ignored, so what it could not flush is missed.    *)
(* fwrite's is looked at.                                                  *)
CloseTmp(w) ==
  /\ step[w] = "write"
  /\ \/ /\ CloseOk(w) /\ Goto(w, "rename")
        /\ Damaged("flush", count[w] < Blocks /\ "flush" \in Failures)
     \/ /\ count[w] < Blocks /\ "write" \in Failures /\ Goto(w, "discard")
        /\ UNCHANGED damage
  /\ fd' = [fd EXCEPT ![w] = None]
  /\ UNCHANGED <<dir, path, tmp, data, count, reply>>
  /\ Reclaim

(* What std::remove says of the .tmp file is ignored.                      *)
Discard(w) ==
  /\ step[w] = "discard"
  /\ tmp' \in {None} \cup (IF "remove" \in Failures THEN {tmp} ELSE {})
  /\ Failed(w)
  /\ UNCHANGED <<dir, path, damage>>
  /\ Reclaim

Rename(w) ==
  /\ step[w] = "rename"
  /\ \/ /\ tmp # None
        /\ path' = tmp /\ tmp' = None
        /\ Finish(w, "success")
        /\ Reclaim
     \/ /\ tmp = None \/ "rename" \in Failures
        /\ Goto(w, "discard")
        /\ UNCHANGED <<path, tmp, blocks, data, fd, count, reply, dirty>>
  /\ UNCHANGED <<dir, damage>>

-----------------------------------------------------------------------------
(* load and remove                                                         *)

OpenFile(r) ==
  /\ step[r] = "idle"
  /\ \/ /\ path # None
        /\ fd' = [fd EXCEPT ![r] = path]
        /\ Goto(r, "read")
        /\ reply' = [reply EXCEPT ![r] = None]
        /\ UNCHANGED count
     \/ path = None /\ Reply(r, "storage_file_not_found")
     \/ "read" \in Failures /\ Reply(r, "storage_read_error")
  /\ UNCHANGED <<kernel, data, damage>>

(* A load returns the blocks it finds when it comes by.                    *)
ReadBlocks(r) ==
  /\ step[r] = "read"
  /\ \/ Reply(r, Meaning(blocks[fd[r]]))
     \/ "read" \in Failures /\ Reply(r, "storage_read_error")
  /\ UNCHANGED <<dir, path, tmp, data, damage>>
  /\ Reclaim

(* That there is no file is as good as having removed it.                  *)
Remove(w) ==
  /\ step[w] = "idle"
  /\ \/ path' = None /\ Reply(w, "success")
     \/ "remove" \in Failures /\ path' = path /\ Reply(w, "storage_write_error")
  /\ UNCHANGED <<dir, tmp, data, damage>>
  /\ Reclaim

Stopped(f, dead, value) ==
  [p \in DOMAIN f |-> IF p \in dead THEN value ELSE f[p]]

Die(dead) ==
  /\ step' = Stopped(step, dead, "idle")
  /\ data' = Stopped(data, dead, None)
  /\ fd' = Stopped(fd, dead, None)
  /\ count' = Stopped(count, dead, 0)
  /\ reply' = Stopped(reply, dead, None)

(* The threads of one program die, or of several, while the others go on;  *)
(* what had reached the files stays.                                       *)
Crash(dead) ==
  /\ Die(dead)
  /\ UNCHANGED <<dir, path, tmp, damage>>
  /\ Reclaim

(* The kernel writes back in its own time, because nobody calls fsync.     *)
WriteBack ==
  /\ dirty # {}
  /\ dirty' = {}
  /\ UNCHANGED <<dir, path, tmp, blocks, process, damage>>

(* A rename that is on the disk says nothing of the blocks of the file.    *)
PowerLoss ==
  /\ "power" \in Failures
  /\ Die(Processes)
  /\ \E lost \in SUBSET ((dirty \cap {path, tmp}) \X (1 .. Blocks)) :
       /\ blocks' = [i \in Inodes |->
                       [b \in 1 .. Blocks |->
                          IF i \in {path, tmp} /\ <<i, b>> \notin lost
                          THEN blocks[i][b] ELSE None]]
       /\ Damaged("power", \E b \in 1 .. Blocks : <<path, b>> \in lost)
  /\ dirty' = {}
  /\ UNCHANGED <<dir, path, tmp>>

-----------------------------------------------------------------------------
Init ==
  /\ dir \in BOOLEAN /\ path = None /\ tmp = None
  /\ blocks = [i \in Inodes |-> Empty]
  /\ step = [p \in Processes |-> "idle"]
  /\ data = [w \in Writers |-> None]
  /\ fd = [p \in Processes |-> None]
  /\ count = [p \in Processes |-> 0]
  /\ reply = [p \in Processes |-> None]
  /\ dirty = {} /\ damage = {}

WriterStep(w) ==
  OpenTmp(w) \/ WriteBlock(w) \/ CloseTmp(w) \/ Discard(w) \/ Rename(w)

Next ==
  \/ \E w \in Writers : (\E d \in Data : Save(w, d)) \/ WriterStep(w) \/ Remove(w)
  \/ \E r \in Readers : OpenFile(r) \/ ReadBlocks(r)
  \/ (\E dead \in SUBSET Processes : Crash(dead)) \/ WriteBack \/ PowerLoss

Spec == Init /\ [][Next]_vars

-----------------------------------------------------------------------------
TypeOK ==
  /\ dir \in BOOLEAN
  /\ path \in Inodes \cup {None} /\ tmp \in Inodes \cup {None}
  /\ blocks \in [Inodes -> Content]
  /\ step \in [Processes ->
                {"idle", "open", "write", "discard", "rename", "read"}]
  /\ data \in [Writers -> Data \cup {None}]
  /\ fd \in [Processes -> Inodes \cup {None}]
  /\ count \in [Processes -> 0 .. Blocks]
  /\ dirty \subseteq Inodes /\ damage \subseteq Damages

(* The data in the file, and what each load that is under way will find.   *)
FileData == IF path = None THEN None ELSE Meaning(blocks[path])
Loading ==
  [r \in Readers |->
     IF step[r] = "read" THEN Meaning(blocks[fd[r]]) ELSE None]

(* The file is atomic, whatever fails, wherever the processes are killed   *)
(* and whatever a killed one left in the .tmp file: the license is the old *)
(* one or the new one, save() tells which, and a load that is under way is *)
(* not disturbed.  That ends when two saves overlap, fclose fails, or the  *)
(* power goes before the kernel wrote back (storage.cpp 193-255).          *)
Atomic == INSTANCE AtomicFile WITH
  content <- FileData, pending <- data, seen <- Loading, spoiled <- damage # {}
ImplementsAtomicFile == Atomic!ASpec

(* Without two saves at once, the file never holds parts of two licenses:  *)
(* not after a save over what a killed one left in the .tmp file, not when *)
(* fclose lost a part of it, and not when the power failed between the     *)
(* rename and the kernel's writing back (storage.cpp 223-239).             *)
NeverMixed ==
  path # None /\ "overlap" \notin damage =>
    \E d \in Data : \A b \in 1 .. Blocks : blocks[path][b] \in {d, None}

=============================================================================
