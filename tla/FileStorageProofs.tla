--------------------------- MODULE FileStorageProofs ---------------------------
(***************************************************************************)
(* Proofs about FileStorage for any number of writers, readers and blocks, *)
(* any data and any choice of the operations that may fail: the file holds *)
(* one piece of data at a time, and the storage implements AtomicFile.     *)
(***************************************************************************)
EXTENDS FileStorage, FiniteSetTheorems, TLAPS

Saving == {"open", "write", "discard", "rename"}

(* What a writer has put into a file after n blocks.                       *)
Part(d, n) == [b \in 1 .. Blocks |-> IF b <= n THEN d ELSE None]

(* Blocks of one piece of data, or holes.                                  *)
OnlyOf(c, d) == \A b \in 1 .. Blocks : c[b] \in {d, None}

(* What a process holds at each step of its call.                          *)
Handles ==
  /\ \A p \in Processes : fd[p] # None <=> step[p] \in {"write", "read"}
  /\ \A w \in Writers : data[w] # None <=> step[w] \in Saving
  /\ \A p \in Processes : step[p] \in {"idle", "open", "read"} => count[p] = 0

(* The .tmp file belongs to the one writer there is, and to nobody else.   *)
Separate ==
  /\ \A v, w \in Writers : step[v] \in Saving /\ step[w] \in Saving => v = w
  /\ path # None => path # tmp
  /\ \A p \in Processes : step[p] = "read" => fd[p] # tmp
  /\ \A w \in Writers : step[w] = "write" => fd[w] = tmp
  /\ \A w \in Writers : step[w] = "rename" => tmp # None

(* It holds what its writer has written so far, or what is left of that.   *)
Progress ==
  /\ \A w \in Writers : step[w] = "write" => blocks[tmp] = Part(data[w], count[w])
  /\ \A w \in Writers : step[w] = "rename" => OnlyOf(blocks[tmp], data[w])
  /\ path # None => \E d \in Data : OnlyOf(blocks[path], d)

(* Undamaged, what is renamed or read is whole.                            *)
Intact ==
  /\ \A w \in Writers : step[w] = "rename" => blocks[tmp] = Whole(data[w])
  /\ path # None => \E d \in Data : blocks[path] = Whole(d)
  /\ \A p \in Processes :
       step[p] = "read" => \E d \in Data : blocks[fd[p]] = Whole(d)

IInv ==
  /\ TypeOK /\ Handles
  /\ "overlap" \notin damage => Separate /\ Progress
  /\ damage = {} => Intact

-----------------------------------------------------------------------------
(* Inodes and contents.                                                    *)

LEMMA ProcessesAreFinite ==
  /\ IsFiniteSet(Processes) /\ Cardinality(Processes) \in Nat
  /\ IsFiniteSet(Inodes) /\ Cardinality(Inodes) = Cardinality(Processes) + 1
  /\ None \notin Inodes
<1>1. IsFiniteSet(Processes)
  BY StorageAssumption, FS_Union DEF Processes
<1>2. Cardinality(Processes) \in Nat
  BY <1>1, FS_CardinalityType
<1>3. QED
  BY <1>1, <1>2, FS_Interval, StorageAssumption DEF Inodes

(* A writer that is about to open the .tmp file finds an inode for it: the *)
(* others have one open each at most, and one more is named.               *)
LEMMA FreeInodeIsFree ==
  ASSUME TypeOK, Handles, tmp = None, NEW w \in Writers, step[w] = "open"
  PROVE  FreeInode \in Inodes /\ ~InUse(FreeInode)
<1> DEFINE user(i) == IF \E p \in Processes : fd[p] = i
                      THEN CHOOSE p \in Processes : fd[p] = i ELSE w
           f == [i \in Inodes |-> user(i)]
<1>1. w \in Processes /\ fd[w] = None
  BY DEF Handles, Processes
<1>2. ASSUME \A i \in Inodes : InUse(i) PROVE FALSE
  <2>1. f \in [Inodes -> Processes]
    BY <1>1
  <2>2. PICK i, j \in Inodes : i # j /\ f[i] = f[j]
    <3>1. Cardinality(Processes) < Cardinality(Inodes)
      BY ProcessesAreFinite
    <3> HIDE DEF f
    <3>2. QED
      BY <2>1, <3>1, ProcessesAreFinite, FS_PigeonHole
  <2>3. ASSUME NEW k \in Inodes
        PROVE  fd[f[k]] = k \/ (f[k] = w /\ k = path)
    <3>1. k \in {path, tmp} \/ \E p \in Processes : fd[p] = k
      BY <1>2 DEF InUse
    <3>2. k # None
      BY ProcessesAreFinite
    <3>3. QED
      BY <3>1, <3>2
  <2>4. i # None /\ j # None
    BY ProcessesAreFinite
  <2>5. QED
    BY <1>1, <2>2, <2>3, <2>4
<1>3. QED
  BY <1>2 DEF FreeInode

(* What is still named or open keeps its blocks.                           *)
LEMMA ReclaimKeeps ==
  ASSUME TypeOK, Reclaim
  PROVE  /\ blocks' \in [Inodes -> Content] /\ dirty' \subseteq Inodes
         /\ \A i \in Inodes :
              \/ i \in {path', tmp'} \/ \E p \in Processes : fd'[p] = i
              => blocks'[i] = blocks[i]
  BY DEF Reclaim, TypeOK, InUse, Empty, Whole, Content

LEMMA MeaningOfWhole ==
  ASSUME NEW d \in Data
  PROVE  Meaning(Whole(d)) = d
<1>1. 1 \in 1 .. Blocks
  BY StorageAssumption
<1>2. QED
  BY <1>1 DEF Meaning, Whole

LEMMA PartGrows ==
  ASSUME NEW d, NEW n \in Nat, n + 1 \in 1 .. Blocks
  PROVE  [Part(d, n) EXCEPT ![n + 1] = d] = Part(d, n + 1)
<1>1. \A b \in 1 .. Blocks : b <= n + 1 <=> b <= n \/ b = n + 1
  BY StorageAssumption
<1>2. QED
  BY <1>1, Zenon DEF Part

-----------------------------------------------------------------------------
(* A call that begins: another save that is under way is damage.           *)
LEMMA SaveKeeps ==
  ASSUME IInv, NEW w \in Writers, NEW d \in Data, Save(w, d)
  PROVE  IInv'
<1> USE StorageAssumption DEF Processes, Saving
<1>1. /\ step[w] = "idle" /\ step' = [step EXCEPT ![w] = "open"]
      /\ data' = [data EXCEPT ![w] = d] /\ dir' \in BOOLEAN
      /\ UNCHANGED <<path, tmp, blocks, fd, count, dirty>>
  BY DEF Save, CreateDirectory, Goto, IInv, TypeOK
<1>2. /\ damage \subseteq damage' /\ damage' \subseteq Damages
      /\ "overlap" \notin damage' => \A v \in Writers : step[v] \in {"idle", "read"}
  BY DEF Save, Damaged, Damages, IInv, TypeOK
<1>3. TypeOK'
  BY <1>1, <1>2 DEF IInv, TypeOK
<1>4. Handles'
  BY <1>1 DEF IInv, TypeOK, Handles
<1>5. "overlap" \notin damage' => Separate' /\ Progress'
  BY <1>1, <1>2 DEF IInv, TypeOK, Separate, Progress, OnlyOf
<1>6. damage' = {} => Intact'
  BY <1>1, <1>2 DEF IInv, TypeOK, Intact, Whole
<1>7. QED
  BY <1>3, <1>4, <1>5, <1>6 DEF IInv

(* A save that fails lets go of whatever it had.                           *)
LEMMA OpenTmpKeeps ==
  ASSUME IInv, NEW w \in Writers, OpenTmp(w)
  PROVE  IInv'
<1> USE StorageAssumption DEF Processes, Saving
<1>1. /\ step[w] = "open" /\ UNCHANGED <<dir, path, dirty, damage>>
      /\ count[w] = 0 /\ fd[w] = None
  BY DEF OpenTmp, IInv, TypeOK, Handles
<1>2. CASE /\ tmp' = IF tmp # None THEN tmp ELSE FreeInode
           /\ blocks' = [blocks EXCEPT ![tmp'] = Truncated(tmp')]
           /\ fd' = [fd EXCEPT ![w] = tmp']
           /\ Goto(w, "write")
           /\ UNCHANGED <<data, count, reply>>
  <2>1. tmp' \in Inodes /\ tmp' # None
    BY <1>1, <1>2, ProcessesAreFinite, FreeInodeIsFree DEF IInv, TypeOK
  <2>2. "overlap" \notin damage => tmp' # path
    BY <1>1, <1>2, FreeInodeIsFree DEF IInv, Separate, InUse
  <2>3. "overlap" \notin damage =>
          \A p \in Processes : step[p] = "read" => fd[p] # tmp'
    BY <1>1, <1>2, FreeInodeIsFree DEF IInv, Separate, InUse
  <2>4. /\ step' = [step EXCEPT ![w] = "write"]
        /\ blocks' = [blocks EXCEPT ![tmp'] = Empty]
    BY <1>2 DEF Goto, Truncated
  <2>5. TypeOK'
    BY <1>1, <1>2, <2>1, <2>4 DEF IInv, TypeOK, Content, Empty, Whole
  <2>6. Handles'
    BY <1>1, <1>2, <2>1, <2>4 DEF IInv, TypeOK, Handles
  <2>7. ASSUME "overlap" \notin damage' PROVE Separate' /\ Progress'
    <3>1. \A v \in Writers : v # w => step[v] \notin Saving
      BY <1>1, <2>7 DEF IInv, Separate
    <3>2. Separate'
      BY <1>1, <1>2, <2>1, <2>2, <2>3, <2>4, <2>7, <3>1 DEF IInv, TypeOK, Separate
    <3>3. Empty = Part(data[w], 0)
      BY DEF Empty, Whole, Part
    <3>4. Progress'
      BY <1>1, <1>2, <2>1, <2>2, <2>4, <2>7, <3>1, <3>3
         DEF IInv, TypeOK, Progress, OnlyOf
    <3>5. QED
      BY <3>2, <3>4
  <2>8. ASSUME damage' = {} PROVE Intact'
    <3>1. \A v \in Writers : v # w => step[v] \notin Saving
      BY <1>1, <2>8 DEF IInv, Separate
    <3>2. \A p \in Processes : step[p] = "read" => fd[p] # tmp' /\ fd[p] \in Inodes
      BY <1>1, <2>3, <2>8 DEF IInv, TypeOK, Handles
    <3>3. QED
      BY <1>1, <1>2, <2>1, <2>2, <2>4, <2>8, <3>1, <3>2 DEF IInv, TypeOK, Intact
  <2>9. QED
    BY <2>5, <2>6, <2>7, <2>8 DEF IInv
<1>3. CASE Failed(w) /\ UNCHANGED <<tmp, blocks>>
  <2>1. /\ step' = [step EXCEPT ![w] = "idle"]
        /\ fd' = [fd EXCEPT ![w] = None] /\ count' = [count EXCEPT ![w] = 0]
        /\ data' = [data EXCEPT ![w] = None]
    BY <1>3 DEF Failed, Finish, Reply, Goto
  <2>2. TypeOK'
    BY <1>1, <1>3, <2>1 DEF IInv, TypeOK
  <2>3. Handles'
    BY <1>1, <1>3, <2>1 DEF IInv, TypeOK, Handles
  <2>4. "overlap" \notin damage' => Separate' /\ Progress'
    BY <1>1, <1>3, <2>1 DEF IInv, TypeOK, Separate, Progress, OnlyOf
  <2>5. damage' = {} => Intact'
    BY <1>1, <1>3, <2>1 DEF IInv, TypeOK, Intact
  <2>6. QED
    BY <2>2, <2>3, <2>4, <2>5 DEF IInv
<1>4. QED
  BY <1>2, <1>3 DEF OpenTmp

(* A block more reaches the file of the writer.                            *)
LEMMA WriteBlockKeeps ==
  ASSUME IInv, NEW w \in Writers, WriteBlock(w)
  PROVE  IInv'
<1> USE StorageAssumption DEF Processes, Saving
<1> DEFINE n == count[w] + 1
           i == fd[w]
<1>1. /\ step[w] = "write" /\ i \in Inodes /\ n \in 1 .. Blocks
      /\ count' = [count EXCEPT ![w] = n]
      /\ blocks' = [blocks EXCEPT ![i][n] = data[w]]
      /\ dirty' = dirty \cup {i}
      /\ UNCHANGED <<dir, path, tmp, step, data, fd, reply, damage>>
  BY DEF WriteBlock, More, IInv, TypeOK, Handles
<1> HIDE DEF i, n
<1>2. TypeOK'
  BY <1>1 DEF IInv, TypeOK, Content
<1>3. Handles'
  BY <1>1 DEF IInv, TypeOK, Handles
<1>4. ASSUME "overlap" \notin damage'
      PROVE  /\ Separate' /\ i = tmp
             /\ \A v \in Writers : v # w => step[v] \notin Saving
  BY <1>1, <1>4 DEF IInv, Separate, i
<1>5. ASSUME "overlap" \notin damage' PROVE Progress'
  <2>1. blocks[i] = Part(data[w], count[w]) /\ i = tmp /\ path # i
    BY <1>1, <1>4, <1>5, ProcessesAreFinite DEF IInv, Separate, Progress
  <2>2. blocks'[i] = [blocks[i] EXCEPT ![n] = data[w]]
    BY <1>1 DEF IInv, TypeOK
  <2>3. [Part(data[w], count[w]) EXCEPT ![n] = data[w]] = Part(data[w], n)
    BY <1>1, PartGrows DEF IInv, TypeOK, n
  <2>4. \A j \in Inodes : j # i => blocks'[j] = blocks[j]
    BY <1>1 DEF IInv, TypeOK
  <2>5. QED
    BY <1>1, <1>4, <1>5, <2>1, <2>2, <2>3, <2>4 DEF IInv, TypeOK, Progress, OnlyOf
<1>6. ASSUME damage' = {} PROVE Intact'
  <2>1. /\ i = tmp /\ path # i
        /\ \A v \in Writers : v # w => step[v] \notin Saving
        /\ \A p \in Processes : step[p] = "read" => fd[p] # i /\ fd[p] \in Inodes
    BY <1>1, <1>4, <1>6 DEF IInv, TypeOK, Separate, Handles
  <2>2. \A j \in Inodes : j # i => blocks'[j] = blocks[j]
    BY <1>1 DEF IInv, TypeOK
  <2>3. QED
    BY <1>1, <1>6, <2>1, <2>2 DEF IInv, TypeOK, Intact
<1>7. QED
  BY <1>2, <1>3, <1>4, <1>5, <1>6 DEF IInv

(* fclose: what was not flushed is damage, what fwrite refused is given up.*)
LEMMA CloseTmpKeeps ==
  ASSUME IInv, NEW w \in Writers, CloseTmp(w)
  PROVE  IInv'
<1> USE StorageAssumption DEF Processes, Saving
<1>1. /\ step[w] = "write" /\ fd[w] \in Inodes
      /\ fd' = [fd EXCEPT ![w] = None]
      /\ UNCHANGED <<dir, path, tmp, data, count, reply>>
      /\ Reclaim
  BY DEF CloseTmp, IInv, TypeOK, Handles
<1>2. /\ damage \subseteq damage' /\ damage' \subseteq Damages
      /\ \/ /\ step' = [step EXCEPT ![w] = "rename"]
            /\ damage' = {} => count[w] = Blocks
         \/ step' = [step EXCEPT ![w] = "discard"]
  <2>1. damage \subseteq Damages /\ count[w] \in 0 .. Blocks
    BY DEF IInv, TypeOK
  <2>2. CASE /\ CloseOk(w) /\ Goto(w, "rename")
             /\ Damaged("flush", count[w] < Blocks /\ "flush" \in Failures)
    <3>1. CASE count[w] < Blocks /\ "flush" \in Failures
      BY <2>1, <2>2, <3>1 DEF Damaged, Damages, Goto
    <3>2. CASE ~(count[w] < Blocks /\ "flush" \in Failures)
      BY <2>1, <2>2, <3>2 DEF CloseOk, Damaged, Goto
    <3>3. QED
      BY <3>1, <3>2
  <2>3. CASE Goto(w, "discard") /\ UNCHANGED damage
    BY <2>1, <2>3 DEF Goto
  <2>4. QED
    BY <2>2, <2>3 DEF CloseTmp
<1>3. /\ blocks' \in [Inodes -> Content] /\ dirty' \subseteq Inodes
      /\ \A j \in Inodes :
           j \in {path, tmp} \/ (\E p \in Processes : fd'[p] = j)
             => blocks'[j] = blocks[j]
  BY <1>1, ReclaimKeeps DEF IInv
<1>4. TypeOK'
  BY <1>1, <1>2, <1>3 DEF IInv, TypeOK
<1>5. Handles'
  BY <1>1, <1>2 DEF IInv, TypeOK, Handles
<1>6. ASSUME "overlap" \notin damage' PROVE Separate' /\ Progress'
  <2>1. Separate /\ Progress
    BY <1>2, <1>6 DEF IInv
  <2>2. /\ fd[w] = tmp /\ tmp \in Inodes /\ tmp # None
        /\ \A v \in Writers : v # w => step[v] \notin Saving
    BY <1>1, <2>1, ProcessesAreFinite DEF Separate
  <2>3. Separate'
    BY <1>1, <1>2, <2>1, <2>2 DEF IInv, TypeOK, Separate
  <2>4. blocks'[tmp] = Part(data[w], count[w])
    BY <1>1, <1>3, <2>1, <2>2 DEF Progress
  <2>5. OnlyOf(blocks'[tmp], data[w])
    BY <2>4 DEF Part, OnlyOf
  <2>6. path # None => blocks'[path] = blocks[path]
    BY <1>3 DEF IInv, TypeOK
  <2>7. Progress'
    BY <1>1, <1>2, <2>1, <2>2, <2>5, <2>6 DEF IInv, TypeOK, Progress
  <2>8. QED
    BY <2>3, <2>7
<1>7. ASSUME damage' = {} PROVE Intact'
  <2>1. Separate /\ Progress /\ Intact
    BY <1>2, <1>7 DEF IInv
  <2>2. /\ fd[w] = tmp /\ tmp \in Inodes
        /\ \A v \in Writers : v # w => step[v] \notin Saving
    BY <1>1, <2>1 DEF Separate
  <2>3. step'[w] = "rename" => blocks'[tmp] = Whole(data[w])
    <3>1. Part(data[w], Blocks) = Whole(data[w])
      BY DEF Part, Whole
    <3>2. blocks'[tmp] = Part(data[w], count[w])
      BY <1>1, <1>3, <2>1, <2>2 DEF Progress
    <3>3. step'[w] = "rename" => count[w] = Blocks
      BY <1>2, <1>7 DEF IInv, TypeOK
    <3>4. QED
      BY <3>1, <3>2, <3>3
  <2>4. path # None => blocks'[path] = blocks[path]
    BY <1>3 DEF IInv, TypeOK
  <2>5. \A p \in Processes : step'[p] = "read" =>
          step[p] = "read" /\ fd'[p] = fd[p] /\ blocks'[fd[p]] = blocks[fd[p]]
    BY <1>1, <1>2, <1>3 DEF IInv, TypeOK, Handles
  <2>6. QED
    BY <1>1, <1>2, <2>1, <2>2, <2>3, <2>4, <2>5 DEF IInv, TypeOK, Intact
<1>8. QED
  BY <1>4, <1>5, <1>6, <1>7 DEF IInv

(* The .tmp name is gone: what the file and its readers have stays.        *)
LEMMA DiscardKeeps ==
  ASSUME IInv, NEW w \in Writers, Discard(w)
  PROVE  IInv'
<1> USE StorageAssumption DEF Processes, Saving
<1>1. /\ step[w] = "discard" /\ fd[w] = None /\ tmp' \in {None, tmp}
      /\ step' = [step EXCEPT ![w] = "idle"]
      /\ fd' = [fd EXCEPT ![w] = None] /\ count' = [count EXCEPT ![w] = 0]
      /\ data' = [data EXCEPT ![w] = None]
      /\ UNCHANGED <<dir, path, damage>> /\ Reclaim
  BY DEF Discard, Failed, Finish, Reply, Goto, IInv, TypeOK, Handles
<1>2. /\ blocks' \in [Inodes -> Content] /\ dirty' \subseteq Inodes
      /\ \A j \in Inodes :
           j = path \/ (\E p \in Processes : fd'[p] = j) => blocks'[j] = blocks[j]
  BY <1>1, ReclaimKeeps DEF IInv
<1>3. TypeOK'
  BY <1>1, <1>2 DEF IInv, TypeOK
<1>4. Handles'
  BY <1>1 DEF IInv, TypeOK, Handles
<1>5. path # None => blocks'[path] = blocks[path]
  BY <1>2 DEF IInv, TypeOK
<1>6. \A p \in Processes : step'[p] = "read" =>
        /\ step[p] = "read" /\ fd'[p] = fd[p] /\ fd[p] # None
        /\ blocks'[fd[p]] = blocks[fd[p]]
  BY <1>1, <1>2 DEF IInv, TypeOK, Handles
<1>7. "overlap" \notin damage' => Separate' /\ Progress'
  BY <1>1, <1>5, <1>6 DEF IInv, TypeOK, Separate, Progress
<1>8. damage' = {} => Intact'
  BY <1>1, <1>5, <1>6 DEF IInv, TypeOK, Separate, Intact
<1>9. QED
  BY <1>3, <1>4, <1>7, <1>8 DEF IInv

(* The file takes the name, or the save is given up.                       *)
LEMMA RenameKeeps ==
  ASSUME IInv, NEW w \in Writers, Rename(w)
  PROVE  IInv'
<1> USE StorageAssumption DEF Processes, Saving
<1>1. /\ step[w] = "rename" /\ fd[w] = None /\ UNCHANGED <<dir, damage>>
  BY DEF Rename, IInv, TypeOK, Handles
<1>2. CASE /\ tmp # None /\ path' = tmp /\ tmp' = None
           /\ Finish(w, "success") /\ Reclaim
  <2>1. /\ step' = [step EXCEPT ![w] = "idle"]
        /\ fd' = [fd EXCEPT ![w] = None] /\ count' = [count EXCEPT ![w] = 0]
        /\ data' = [data EXCEPT ![w] = None]
    BY <1>2 DEF Finish, Reply, Goto
  <2>2. /\ blocks' \in [Inodes -> Content] /\ dirty' \subseteq Inodes
        /\ \A j \in Inodes :
             j = tmp \/ (\E p \in Processes : fd'[p] = j) => blocks'[j] = blocks[j]
    BY <1>2, ReclaimKeeps DEF IInv
  <2>3. TypeOK'
    BY <1>1, <1>2, <2>1, <2>2 DEF IInv, TypeOK
  <2>4. Handles'
    BY <1>1, <2>1 DEF IInv, TypeOK, Handles
  <2>5. blocks'[path'] = blocks[tmp] /\ data[w] \in Data
    BY <1>1, <1>2, <2>2 DEF IInv, TypeOK, Handles
  <2>6. \A p \in Processes : step'[p] = "read" =>
          /\ step[p] = "read" /\ fd'[p] = fd[p] /\ fd[p] # None
          /\ blocks'[fd[p]] = blocks[fd[p]]
    BY <1>1, <2>1, <2>2 DEF IInv, TypeOK, Handles
  <2>7. "overlap" \notin damage' => Separate' /\ Progress'
    BY <1>1, <1>2, <2>1, <2>5, <2>6 DEF IInv, TypeOK, Separate, Progress
  <2>8. damage' = {} => Intact'
    BY <1>1, <1>2, <2>1, <2>5, <2>6 DEF IInv, TypeOK, Separate, Intact
  <2>9. QED
    BY <2>3, <2>4, <2>7, <2>8 DEF IInv
<1>3. CASE /\ Goto(w, "discard")
           /\ UNCHANGED <<path, tmp, blocks, data, fd, count, reply, dirty>>
  <2>1. step' = [step EXCEPT ![w] = "discard"]
    BY <1>3 DEF Goto
  <2>2. TypeOK'
    BY <1>1, <1>3, <2>1 DEF IInv, TypeOK
  <2>3. Handles'
    BY <1>1, <1>3, <2>1 DEF IInv, TypeOK, Handles
  <2>4. "overlap" \notin damage' => Separate' /\ Progress'
    BY <1>1, <1>3, <2>1 DEF IInv, TypeOK, Separate, Progress
  <2>5. damage' = {} => Intact'
    BY <1>1, <1>3, <2>1 DEF IInv, TypeOK, Intact
  <2>6. QED
    BY <2>2, <2>3, <2>4, <2>5 DEF IInv
<1>4. QED
  BY <1>2, <1>3 DEF Rename

(* A load opens the file, or finds none.                                   *)
LEMMA OpenFileKeeps ==
  ASSUME IInv, NEW r \in Readers, OpenFile(r)
  PROVE  IInv'
<1> USE StorageAssumption DEF Processes, Saving
<1>1. /\ step[r] = "idle" /\ fd[r] = None /\ count[r] = 0
      /\ UNCHANGED <<dir, path, tmp, blocks, dirty, data, damage>>
      /\ \/ /\ path # None /\ fd' = [fd EXCEPT ![r] = path]
            /\ step' = [step EXCEPT ![r] = "read"] /\ count' = count
         \/ /\ fd' = [fd EXCEPT ![r] = None]
            /\ step' = [step EXCEPT ![r] = "idle"]
            /\ count' = [count EXCEPT ![r] = 0]
  BY DEF OpenFile, Reply, Goto, kernel, IInv, TypeOK, Handles
<1>2. TypeOK'
  BY <1>1 DEF IInv, TypeOK
<1>3. Handles'
  BY <1>1 DEF IInv, TypeOK, Handles
<1>4. "overlap" \notin damage' => Separate' /\ Progress'
  BY <1>1 DEF IInv, TypeOK, Separate, Progress
<1>5. damage' = {} => Intact'
  BY <1>1 DEF IInv, TypeOK, Intact
<1>6. QED
  BY <1>2, <1>3, <1>4, <1>5 DEF IInv

(* Inodes that are still named or open are not touched when a process lets *)
(* go of one, or a name goes away.                                         *)
LEMMA LettingGoKeeps ==
  ASSUME IInv, Reclaim, UNCHANGED <<dir, tmp, damage>>, path' \in {path, None},
         data' \in [Writers -> Data \cup {None}], count' \in [Processes -> 0 .. Blocks],
         fd' \in [Processes -> Inodes \cup {None}],
         step' \in [Processes ->
                     {"idle", "open", "write", "discard", "rename", "read"}],
         \A p \in Processes :
           \/ step'[p] = "idle" /\ fd'[p] = None /\ count'[p] = 0
              /\ (p \in Writers => data'[p] = None)
           \/ /\ step'[p] = step[p] /\ fd'[p] = fd[p] /\ count'[p] = count[p]
              /\ p \in Writers => data'[p] = data[p]
  PROVE  IInv'
<1> USE StorageAssumption DEF Processes, Saving
<1>1. /\ blocks' \in [Inodes -> Content] /\ dirty' \subseteq Inodes
      /\ \A j \in Inodes :
           j \in {path', tmp} \/ (\E p \in Processes : fd'[p] = j)
             => blocks'[j] = blocks[j]
  BY ReclaimKeeps DEF IInv
<1>2. TypeOK'
  BY <1>1 DEF IInv, TypeOK
<1>3. Handles'
  BY DEF IInv, TypeOK, Handles
<1>4. path' # None => path' = path /\ blocks'[path'] = blocks[path]
  BY <1>1 DEF IInv, TypeOK
<1>5. tmp # None => blocks'[tmp] = blocks[tmp]
  BY <1>1 DEF IInv, TypeOK
<1>6. \A p \in Processes : step'[p] = "read" =>
        step[p] = "read" /\ fd'[p] = fd[p] /\ blocks'[fd[p]] = blocks[fd[p]]
  BY <1>1 DEF IInv, TypeOK, Handles
<1>7. ASSUME "overlap" \notin damage' PROVE Separate' /\ Progress'
  <2>1. Separate /\ Progress
    BY <1>7 DEF IInv
  <2>2. Separate'
    BY <1>4, <1>6, <2>1 DEF Separate
  <2>3. \A w \in Writers : step'[w] = "write" => tmp # None
    BY <2>2 DEF Separate, IInv, TypeOK, Handles
  <2>4. Progress'
    BY <1>4, <1>5, <2>1, <2>2, <2>3 DEF Separate, Progress
  <2>5. QED
    BY <2>2, <2>4
<1>8. ASSUME damage' = {} PROVE Intact'
  BY <1>4, <1>5, <1>6, <1>8 DEF IInv, Intact, Separate
<1>9. QED
  BY <1>2, <1>3, <1>7, <1>8 DEF IInv

LEMMA ReadBlocksKeeps ==
  ASSUME IInv, NEW r \in Readers, ReadBlocks(r)
  PROVE  IInv'
<1> USE DEF Processes
<1>1. /\ step[r] = "read" /\ step' = [step EXCEPT ![r] = "idle"]
      /\ fd' = [fd EXCEPT ![r] = None] /\ count' = [count EXCEPT ![r] = 0]
      /\ UNCHANGED <<dir, path, tmp, data, damage>> /\ Reclaim
  BY DEF ReadBlocks, Reply, Goto
<1>2. r \in Writers => data[r] = None
  BY <1>1 DEF IInv, Handles, Saving
<1>3. QED
  BY <1>1, <1>2, LettingGoKeeps, StorageAssumption DEF IInv, TypeOK

LEMMA RemoveKeeps ==
  ASSUME IInv, NEW w \in Writers, Remove(w)
  PROVE  IInv'
<1> USE DEF Processes
<1>1. /\ step[w] = "idle" /\ step' = [step EXCEPT ![w] = "idle"]
      /\ fd' = [fd EXCEPT ![w] = None] /\ count' = [count EXCEPT ![w] = 0]
      /\ UNCHANGED <<dir, tmp, data, damage>> /\ path' \in {path, None} /\ Reclaim
  BY DEF Remove, Reply, Goto
<1>2. data[w] = None
  BY <1>1 DEF IInv, Handles, Saving
<1>3. QED
  BY <1>1, <1>2, LettingGoKeeps, StorageAssumption DEF IInv, TypeOK

(* Whoever dies is idle and holds nothing; the others are as they were.    *)
LEMMA TheDeadAreIdle ==
  ASSUME IInv, NEW dead \in SUBSET Processes, Die(dead)
  PROVE  /\ data' \in [Writers -> Data \cup {None}]
         /\ count' \in [Processes -> 0 .. Blocks] /\ fd' \in [Processes -> Inodes \cup {None}]
         /\ step' \in [Processes ->
                       {"idle", "open", "write", "discard", "rename", "read"}]
         /\ \A p \in dead :
              /\ step'[p] = "idle" /\ fd'[p] = None /\ count'[p] = 0
              /\ p \in Writers => data'[p] = None
         /\ \A p \in Processes \ dead :
              /\ step'[p] = step[p] /\ fd'[p] = fd[p] /\ count'[p] = count[p]
              /\ p \in Writers => data'[p] = data[p]
<1>1. /\ DOMAIN step = Processes /\ DOMAIN fd = Processes /\ DOMAIN count = Processes
      /\ DOMAIN data = Writers
  BY DEF IInv, TypeOK
<1>2. /\ step' = [p \in Processes |-> IF p \in dead THEN "idle" ELSE step[p]]
      /\ fd' = [p \in Processes |-> IF p \in dead THEN None ELSE fd[p]]
      /\ count' = [p \in Processes |-> IF p \in dead THEN 0 ELSE count[p]]
      /\ data' = [w \in Writers |-> IF w \in dead THEN None ELSE data[w]]
  BY <1>1 DEF Die, Stopped
<1>3. QED
  BY <1>2, StorageAssumption DEF IInv, TypeOK, Processes

LEMMA CrashKeeps ==
  ASSUME IInv, NEW dead \in SUBSET Processes, Crash(dead)
  PROVE  IInv'
<1>1. /\ Die(dead) /\ UNCHANGED <<dir, path, tmp, damage>> /\ Reclaim
  BY DEF Crash
<1>2. QED
  BY <1>1, TheDeadAreIdle, LettingGoKeeps

(* A block that was not on the disk is lost, or it is not.                 *)
LEMMA PowerLossKeeps ==
  ASSUME IInv, PowerLoss
  PROVE  IInv'
<1> USE StorageAssumption DEF Saving
<1>1. /\ step' = [p \in Processes |-> "idle"] /\ data' = [w \in Writers |-> None]
      /\ fd' = [p \in Processes |-> None] /\ count' = [p \in Processes |-> 0]
      /\ dirty' = {} /\ UNCHANGED <<dir, path, tmp>>
  BY DEF PowerLoss, Die, Stopped, IInv, TypeOK, Processes
<1>2. PICK lost \in SUBSET ((dirty \cap {path, tmp}) \X (1 .. Blocks)) :
        /\ blocks' = [i \in Inodes |->
                       [b \in 1 .. Blocks |->
                          IF i \in {path, tmp} /\ <<i, b>> \notin lost
                          THEN blocks[i][b] ELSE None]]
        /\ Damaged("power", \E b \in 1 .. Blocks : <<path, b>> \in lost)
  BY DEF PowerLoss
<1>3. /\ damage \subseteq damage' /\ damage' \subseteq Damages
      /\ damage' = {} => \A b \in 1 .. Blocks : <<path, b>> \notin lost
  BY <1>2 DEF Damaged, Damages, IInv, TypeOK
<1>4. blocks' \in [Inodes -> Content]
  BY <1>2 DEF IInv, TypeOK, Content
<1>5. TypeOK'
  BY <1>1, <1>3, <1>4 DEF IInv, TypeOK, Processes
<1>6. Handles'
  BY <1>1 DEF Handles, Processes
<1>7. ASSUME "overlap" \notin damage' PROVE Separate' /\ Progress'
  <2>1. Separate /\ Progress
    BY <1>3, <1>7 DEF IInv
  <2>2. Separate'
    BY <1>1, <2>1 DEF Separate, Processes
  <2>3. path # None => \A b \in 1 .. Blocks : blocks'[path][b] \in {blocks[path][b], None}
    BY <1>2 DEF IInv, TypeOK
  <2>4. Progress'
    BY <1>1, <2>1, <2>3 DEF Progress, OnlyOf, Processes
  <2>5. QED
    BY <2>2, <2>4
<1>8. ASSUME damage' = {} PROVE Intact'
  <2>1. Intact
    BY <1>3, <1>8 DEF IInv
  <2>2. ASSUME NEW d \in Data, path # None, blocks[path] = Whole(d)
        PROVE  blocks'[path] = Whole(d)
    BY <1>2, <1>3, <1>8, <2>2 DEF IInv, TypeOK, Whole
  <2>3. QED
    BY <1>1, <2>1, <2>2 DEF Intact, Processes
<1>9. QED
  BY <1>5, <1>6, <1>7, <1>8 DEF IInv

LEMMA Inductive == IInv /\ [Next]_vars => IInv'
<1> SUFFICES ASSUME IInv, [Next]_vars PROVE IInv'
  OBVIOUS
<1>1. CASE \E w \in Writers : (\E d \in Data : Save(w, d)) \/ WriterStep(w)
  BY <1>1, SaveKeeps, OpenTmpKeeps, WriteBlockKeeps, CloseTmpKeeps, DiscardKeeps,
     RenameKeeps DEF WriterStep
<1>2. CASE \E r \in Readers : OpenFile(r) \/ ReadBlocks(r)
  BY <1>2, OpenFileKeeps, ReadBlocksKeeps
<1>3. CASE \/ \E w \in Writers : Remove(w)
           \/ \E dead \in SUBSET Processes : Crash(dead)
           \/ PowerLoss
  BY <1>3, RemoveKeeps, CrashKeeps, PowerLossKeeps
<1>4. CASE WriteBack \/ UNCHANGED vars
  BY <1>4 DEF WriteBack, vars, kernel, process, IInv, TypeOK, Handles, Separate,
     Progress, Intact, OnlyOf
<1>5. QED
  BY <1>1, <1>2, <1>3, <1>4 DEF Next

LEMMA InitSound == Init => IInv
<1> SUFFICES ASSUME Init PROVE IInv
  OBVIOUS
<1> USE StorageAssumption DEF Init, Processes
<1>1. TypeOK
  BY DEF TypeOK, Content, Empty, Whole
<1>2. QED
  BY <1>1 DEF IInv, Handles, Separate, Progress, Intact, Saving

-----------------------------------------------------------------------------
(* The steps as AtomicFile sees them, until one of them does damage.       *)

LEMMA FileDataIs ==
  ASSUME IInv, damage = {}
  PROVE  /\ FileData \in Data \cup {None} /\ (path # None <=> FileData # None)
         /\ \A r \in Readers : /\ Loading[r] \in Data \cup {None}
                               /\ step[r] = "read" <=> Loading[r] # None
<1> USE StorageAssumption, MeaningOfWhole
<1>1. Intact
  BY DEF IInv
<1>2. path # None => Meaning(blocks[path]) \in Data
  BY <1>1 DEF Intact
<1>3. \A r \in Readers : step[r] = "read" => Meaning(blocks[fd[r]]) \in Data
  BY <1>1 DEF Intact, Processes
<1>4. QED
  BY <1>2, <1>3 DEF FileData, Loading

LEMMA SameFile ==
  ASSUME path' = path, path # None => blocks'[path] = blocks[path]
  PROVE  FileData' = FileData
  BY DEF FileData, Meaning

(* Only the loads change that begin or end.                                *)
LEMMA SameLoads ==
  ASSUME \A r \in Readers :
           /\ step'[r] = "read" <=> step[r] = "read"
           /\ step[r] = "read" => fd'[r] = fd[r] /\ blocks'[fd[r]] = blocks[fd[r]]
  PROVE  Loading' = Loading
  BY DEF Loading, Meaning

LEMMA DamageStays == IInv /\ Next => damage \subseteq damage'
<1> SUFFICES ASSUME IInv, Next PROVE damage \subseteq damage'
  OBVIOUS
<1>1. ASSUME NEW kind, NEW happens, Damaged(kind, happens)
      PROVE  damage \subseteq damage'
  BY <1>1 DEF Damaged
<1>2. CASE \E w \in Writers : (\E d \in Data : Save(w, d)) \/ WriterStep(w)
  BY <1>1, <1>2 DEF WriterStep, Save, OpenTmp, WriteBlock, CloseTmp, Discard, Rename
<1>3. CASE \E r \in Readers : OpenFile(r) \/ ReadBlocks(r)
  BY <1>3 DEF OpenFile, ReadBlocks
<1>4. CASE \/ \E w \in Writers : Remove(w)
           \/ \E dead \in SUBSET Processes : Crash(dead)
           \/ WriteBack \/ PowerLoss
  BY <1>1, <1>4 DEF Remove, Crash, WriteBack, PowerLoss
<1>5. QED
  BY <1>2, <1>3, <1>4 DEF Next

(* A save that fails, with the file and its readers as they were.          *)
LEMMA FailureIsAtomic ==
  ASSUME IInv, NEW w \in Writers, step[w] \in Saving, Failed(w),
         FileData' = FileData, Loading' = Loading
  PROVE  Atomic!AFail(w)
<1>1. /\ data[w] # None /\ data' = [data EXCEPT ![w] = None]
      /\ reply' = [reply EXCEPT ![w] = "storage_write_error"]
  BY DEF Failed, Finish, Reply, IInv, Handles
<1>2. QED
  BY <1>1 DEF Atomic!AFail

LEMMA WriterIsAtomic ==
  ASSUME IInv, damage = {}, damage' = {}, NEW w \in Writers,
         (\E d \in Data : Save(w, d)) \/ WriterStep(w)
  PROVE  Atomic!AStep \/ UNCHANGED Atomic!avars
<1> USE StorageAssumption DEF Processes, Saving, Atomic!avars
<1> Separate /\ Progress /\ Intact
  BY DEF IInv
<1>1. ASSUME NEW d \in Data, Save(w, d) PROVE Atomic!ASave(w, d)
  <2>1. /\ step[w] = "idle" /\ step' = [step EXCEPT ![w] = "open"]
        /\ data' = [data EXCEPT ![w] = d] /\ reply' = [reply EXCEPT ![w] = None]
        /\ UNCHANGED <<path, blocks, fd>>
    BY <1>1 DEF Save, Goto
  <2>2. data[w] = None
    BY <2>1 DEF IInv, Handles
  <2>3. FileData' = FileData
    BY <2>1, SameFile
  <2>4. Loading' = Loading
    BY <2>1, SameLoads DEF IInv, TypeOK
  <2>5. QED
    BY <2>1, <2>2, <2>3, <2>4 DEF Atomic!ASave
<1>2. CASE OpenTmp(w)
  <2>1. step[w] = "open" /\ path' = path
    BY <1>2 DEF OpenTmp
  <2>2. CASE /\ tmp' = IF tmp # None THEN tmp ELSE FreeInode
             /\ blocks' = [blocks EXCEPT ![tmp'] = Truncated(tmp')]
             /\ fd' = [fd EXCEPT ![w] = tmp']
             /\ Goto(w, "write")
             /\ UNCHANGED <<data, count, reply>>
    <3>1. /\ \A r \in Readers : step[r] = "read" => fd[r] # tmp' /\ fd[r] \in Inodes
          /\ tmp' # path
      BY <2>1, <2>2, FreeInodeIsFree DEF IInv, TypeOK, Handles, Separate, InUse
    <3>2. FileData' = FileData
      BY <2>1, <2>2, <3>1, SameFile DEF IInv, TypeOK
    <3>3. Loading' = Loading
      BY <2>1, <2>2, <3>1, SameLoads DEF Goto, IInv, TypeOK
    <3>4. QED
      BY <2>2, <3>2, <3>3
  <2>3. CASE Failed(w) /\ UNCHANGED <<tmp, blocks>>
    <3>1. FileData' = FileData
      BY <2>1, <2>3, SameFile
    <3>2. Loading' = Loading
      BY <2>1, <2>3, SameLoads DEF Failed, Finish, Reply, Goto, IInv, TypeOK
    <3>3. Atomic!AFail(w)
      BY <2>1, <2>3, <3>1, <3>2, FailureIsAtomic
    <3>4. QED
      BY <3>3 DEF Atomic!AStep
  <2>4. QED
    BY <1>2, <2>2, <2>3 DEF OpenTmp
<1>3. CASE WriteBlock(w)
  <2>1. /\ fd[w] = tmp /\ UNCHANGED <<path, step, fd, data, reply>>
        /\ \A i \in Inodes : i # tmp => blocks'[i] = blocks[i]
    BY <1>3 DEF WriteBlock, IInv, TypeOK, Separate
  <2>2. FileData' = FileData
    BY <2>1, SameFile DEF IInv, TypeOK, Separate
  <2>3. Loading' = Loading
    BY <2>1, SameLoads DEF IInv, TypeOK, Handles, Separate
  <2>4. QED
    BY <2>1, <2>2, <2>3
<1>4. CASE CloseTmp(w)
  <2>1. /\ step[w] = "write" /\ step'[w] \in {"rename", "discard"}
        /\ \A p \in Processes : p # w => step'[p] = step[p]
        /\ fd' = [fd EXCEPT ![w] = None] /\ UNCHANGED <<path, tmp, data, reply>>
        /\ Reclaim
    BY <1>4 DEF CloseTmp, Goto, IInv, TypeOK
  <2>2. FileData' = FileData
    BY <2>1, ReclaimKeeps, SameFile DEF IInv, TypeOK
  <2>3. Loading' = Loading
    BY <2>1, ReclaimKeeps, SameLoads DEF IInv, TypeOK, Handles
  <2>4. QED
    BY <2>1, <2>2, <2>3
<1>5. CASE Discard(w)
  <2>1. /\ step[w] = "discard" /\ step' = [step EXCEPT ![w] = "idle"]
        /\ fd' = [fd EXCEPT ![w] = None] /\ path' = path /\ Reclaim /\ Failed(w)
    BY <1>5 DEF Discard, Failed, Finish, Reply, Goto
  <2>2. FileData' = FileData
    BY <2>1, ReclaimKeeps, SameFile DEF IInv, TypeOK
  <2>3. Loading' = Loading
    BY <2>1, ReclaimKeeps, SameLoads DEF IInv, TypeOK, Handles
  <2>4. Atomic!AFail(w)
    BY <2>1, <2>2, <2>3, FailureIsAtomic
  <2>5. QED
    BY <2>4 DEF Atomic!AStep
<1>6. CASE Rename(w)
  <2>1. step[w] = "rename" /\ fd[w] = None /\ data[w] \in Data
    BY <1>6 DEF Rename, IInv, TypeOK, Handles
  <2>2. CASE /\ path' = tmp /\ tmp' = None /\ tmp # None
             /\ Finish(w, "success") /\ Reclaim
    <3>1. /\ step' = [step EXCEPT ![w] = "idle"]
          /\ fd' = [fd EXCEPT ![w] = None]
          /\ data' = [data EXCEPT ![w] = None]
          /\ reply' = [reply EXCEPT ![w] = "success"]
      BY <2>2 DEF Finish, Reply, Goto
    <3>2. blocks'[path'] = Whole(data[w])
      BY <2>1, <2>2, ReclaimKeeps DEF IInv, TypeOK, Intact
    <3>3. FileData' = data[w]
      <4>1. Meaning(blocks[path])' = data[w]
        BY <2>1, <3>2, MeaningOfWhole DEF Meaning
      <4>2. QED
        BY <2>2, <4>1 DEF FileData
    <3>4. Loading' = Loading
      BY <2>1, <2>2, <3>1, ReclaimKeeps, SameLoads DEF IInv, TypeOK, Handles
    <3>5. Atomic!ACommit(w)
      BY <2>1, <3>1, <3>3, <3>4 DEF Atomic!ACommit
    <3>6. QED
      BY <3>5 DEF Atomic!AStep
  <2>3. CASE /\ Goto(w, "discard")
             /\ UNCHANGED <<path, tmp, blocks, data, fd, count, reply, dirty>>
    <3>1. FileData' = FileData
      BY <2>3, SameFile
    <3>2. Loading' = Loading
      BY <2>1, <2>3, SameLoads DEF Goto, IInv, TypeOK
    <3>3. QED
      BY <2>3, <3>1, <3>2
  <2>4. QED
    BY <1>6, <2>2, <2>3 DEF Rename
<1>7. QED
  BY <1>1, <1>2, <1>3, <1>4, <1>5, <1>6 DEF WriterStep, Atomic!AStep

LEMMA ReaderIsAtomic ==
  ASSUME IInv, damage = {}, damage' = {}, NEW r \in Readers,
         OpenFile(r) \/ ReadBlocks(r)
  PROVE  Atomic!AStep
<1> USE StorageAssumption DEF Processes
<1>1. CASE OpenFile(r) /\ Goto(r, "read") /\ path # None
  <2>1. /\ step[r] = "idle" /\ fd' = [fd EXCEPT ![r] = path]
        /\ step' = [step EXCEPT ![r] = "read"]
        /\ reply' = [reply EXCEPT ![r] = None]
        /\ UNCHANGED <<path, blocks, data>>
    <3>1. step'[r] = "read"
      BY <1>1 DEF Goto, IInv, TypeOK
    <3>2. ~Reply(r, "storage_file_not_found") /\ ~Reply(r, "storage_read_error")
      BY <3>1 DEF Reply, Goto, IInv, TypeOK
    <3>3. QED
      BY <1>1, <3>2 DEF OpenFile, Goto, kernel
  <2>2. FileData' = FileData /\ FileData # None /\ Loading[r] = None
    BY <1>1, <2>1, SameFile, FileDataIs DEF Loading
  <2>3. Loading' = [Loading EXCEPT ![r] = FileData]
    BY <1>1, <2>1 DEF Loading, FileData, Meaning, IInv, TypeOK
  <2>4. Atomic!ALoad(r)
    BY <2>1, <2>2, <2>3 DEF Atomic!ALoad
  <2>5. QED
    BY <2>4 DEF Atomic!AStep
<1>2. CASE OpenFile(r) /\ ~(Goto(r, "read") /\ path # None)
  <2>1. /\ step[r] = "idle" /\ fd' = [fd EXCEPT ![r] = None]
        /\ step' = [step EXCEPT ![r] = "idle"]
        /\ \/ path = None /\ reply' = [reply EXCEPT ![r] = "storage_file_not_found"]
           \/ reply' = [reply EXCEPT ![r] = "storage_read_error"]
        /\ UNCHANGED <<path, blocks, data>>
    BY <1>2 DEF OpenFile, Reply, Goto, kernel
  <2>2. FileData' = FileData /\ (path = None => FileData = None) /\ Loading[r] = None
    BY <1>2, <2>1, SameFile DEF FileData, Loading
  <2>3. Loading' = [Loading EXCEPT ![r] = None]
    BY <2>1 DEF Loading, Meaning, IInv, TypeOK
  <2>4. Atomic!ALoaded(r)
    BY <2>1, <2>2, <2>3, Zenon DEF Atomic!ALoaded
  <2>5. QED
    BY <2>4 DEF Atomic!AStep
<1>3. CASE ReadBlocks(r)
  <2>1. PICK answer \in {Loading[r], "storage_read_error"} :
          /\ step[r] = "read" /\ fd' = [fd EXCEPT ![r] = None]
          /\ step' = [step EXCEPT ![r] = "idle"]
          /\ reply' = [reply EXCEPT ![r] = answer]
          /\ UNCHANGED <<path, tmp, data>> /\ Reclaim
    BY <1>3 DEF ReadBlocks, Reply, Goto, Loading
  <2>2. FileData' = FileData
    BY <2>1, ReclaimKeeps, SameFile DEF IInv, TypeOK
  <2>3. \A q \in Readers : q # r /\ step[q] = "read" =>
          fd'[q] = fd[q] /\ blocks'[fd[q]] = blocks[fd[q]]
    BY <2>1, ReclaimKeeps DEF IInv, TypeOK, Handles
  <2>4. Loading' = [Loading EXCEPT ![r] = None] /\ Loading[r] # None
    <3>1. step'[r] = "idle" /\ \A q \in Readers : q # r => step'[q] = step[q]
      BY <2>1 DEF IInv, TypeOK
    <3>2. \A q \in Readers : q # r /\ step[q] = "read" =>
            Meaning(blocks[fd[q]])' = Meaning(blocks[fd[q]])
      BY <2>3 DEF Meaning
    <3>3. QED
      BY <2>1, <3>1, <3>2, FileDataIs DEF Loading
  <2>5. Atomic!ALoaded(r)
    BY <2>1, <2>2, <2>4 DEF Atomic!ALoaded
  <2>6. QED
    BY <2>5 DEF Atomic!AStep
<1>4. QED
  BY <1>1, <1>2, <1>3

(* Some processes die; the file and what the others are loading stay.      *)
LEMMA DeathIsAtomic ==
  ASSUME IInv, NEW dead \in SUBSET Processes, Die(dead), FileData' = FileData,
         \A r \in Readers \ dead : step[r] = "read" => blocks'[fd[r]] = blocks[fd[r]]
  PROVE  Atomic!ACrash(dead)
<1>1. Loading' = Atomic!Undone(Loading, dead)
  <2>1. /\ \A r \in Readers \ dead : step'[r] = step[r] /\ fd'[r] = fd[r]
        /\ \A r \in Readers \cap dead : step'[r] = "idle"
    BY TheDeadAreIdle DEF Processes
  <2>2. \A r \in Readers \ dead :
          step[r] = "read" => Meaning(blocks[fd[r]])' = Meaning(blocks[fd[r]])
    BY <2>1 DEF Meaning
  <2>3. QED
    BY <2>1, <2>2 DEF Loading, Atomic!Undone
<1>2. /\ data' = Atomic!Undone(data, dead) /\ reply' = Atomic!Undone(reply, dead)
  BY DEF Die, Stopped, Atomic!Undone
<1>3. QED
  BY <1>1, <1>2 DEF Atomic!ACrash

LEMMA RemoveIsAtomic ==
  ASSUME IInv, NEW w \in Writers, Remove(w)
  PROVE  Atomic!ARemove(w)
<1> USE DEF Processes
<1>1. /\ step[w] = "idle" /\ step' = [step EXCEPT ![w] = "idle"]
      /\ fd' = [fd EXCEPT ![w] = None] /\ UNCHANGED <<tmp, data>> /\ Reclaim
  BY DEF Remove, Reply, Goto
<1>2. data[w] = None
  BY <1>1 DEF IInv, Handles, Saving
<1>3. Loading' = Loading
  BY <1>1, ReclaimKeeps, SameLoads DEF IInv, TypeOK, Handles
<1>4. \/ FileData' = None /\ reply' = [reply EXCEPT ![w] = "success"]
      \/ FileData' = FileData /\ reply' = [reply EXCEPT ![w] = "storage_write_error"]
  <2>1. CASE path' = None /\ Reply(w, "success")
    BY <2>1 DEF FileData, Reply
  <2>2. CASE path' = path /\ Reply(w, "storage_write_error")
    BY <1>1, <2>2, ReclaimKeeps, SameFile, StorageAssumption DEF Reply, IInv, TypeOK
  <2>3. QED
    BY <2>1, <2>2 DEF Remove
<1>5. QED
  BY <1>1, <1>2, <1>3, <1>4 DEF Atomic!ARemove

LEMMA StepIsAtomic ==
  IInv /\ [Next]_vars => [Atomic!ANext]_(Atomic!avars)
<1> SUFFICES ASSUME IInv, [Next]_vars
             PROVE  Atomic!ANext \/ UNCHANGED Atomic!avars
  OBVIOUS
<1>1. CASE damage' # {}
  BY <1>1 DEF Atomic!ANext
<1>2. CASE UNCHANGED vars
  BY <1>2 DEF vars, kernel, process, FileData, Loading, Meaning, Atomic!avars
<1>3. CASE damage' = {} /\ Next
  <2>1. damage = {}
    BY <1>3, DamageStays
  <2>2. SUFFICES Atomic!AStep \/ UNCHANGED Atomic!avars
    BY <1>3, <2>1 DEF Atomic!ANext
  <2>3. CASE \E w \in Writers : (\E d \in Data : Save(w, d)) \/ WriterStep(w)
    BY <1>3, <2>1, <2>3, WriterIsAtomic
  <2>4. CASE \E r \in Readers : OpenFile(r) \/ ReadBlocks(r)
    BY <1>3, <2>1, <2>4, ReaderIsAtomic
  <2>5. CASE \E w \in Writers : Remove(w)
    BY <2>5, RemoveIsAtomic DEF Atomic!AStep
  <2>6. ASSUME NEW dead \in SUBSET Processes, Crash(dead)
        PROVE  Atomic!AStep
    <3>1. Die(dead) /\ UNCHANGED <<path, tmp>> /\ Reclaim
      BY <2>6 DEF Crash
    <3>2. FileData' = FileData
      BY <3>1, ReclaimKeeps, SameFile, StorageAssumption DEF IInv, TypeOK
    <3>3. \A r \in Readers \ dead : step[r] = "read" => blocks'[fd[r]] = blocks[fd[r]]
      BY <3>1, TheDeadAreIdle, ReclaimKeeps DEF Processes, IInv, TypeOK, Handles
    <3>4. Atomic!ACrash(dead)
      BY <3>1, <3>2, <3>3, DeathIsAtomic
    <3>5. QED
      BY <3>4 DEF Atomic!AStep, Processes
  <2>7. CASE WriteBack
    BY <2>7 DEF WriteBack, process, FileData, Loading, Meaning, Atomic!avars
  <2>8. CASE PowerLoss
    <3>1. path' = path /\ Die(Processes)
      BY <2>8 DEF PowerLoss
    <3>2. PICK lost \in SUBSET ((dirty \cap {path, tmp}) \X (1 .. Blocks)) :
            /\ blocks' = [i \in Inodes |->
                           [b \in 1 .. Blocks |->
                              IF i \in {path, tmp} /\ <<i, b>> \notin lost
                              THEN blocks[i][b] ELSE None]]
            /\ Damaged("power", \E b \in 1 .. Blocks : <<path, b>> \in lost)
      BY <2>8 DEF PowerLoss
    <3>3. \A b \in 1 .. Blocks : <<path, b>> \notin lost
      BY <1>3, <3>2 DEF Damaged
    <3>4. path # None => blocks'[path] = blocks[path]
      BY <3>2, <3>3 DEF IInv, TypeOK, Content
    <3>5. Atomic!ACrash(Processes)
      BY <3>1, <3>4, SameFile, DeathIsAtomic DEF Processes
    <3>6. QED
      BY <3>5 DEF Atomic!AStep, Processes
  <2>9. QED
    BY <1>3, <2>3, <2>4, <2>5, <2>6, <2>7, <2>8 DEF Next
<1>4. QED
  BY <1>1, <1>2, <1>3

-----------------------------------------------------------------------------
(***************************************************************************)
(* What holds of every file.                                               *)
(***************************************************************************)

(* The invariant the proofs rest on: whose the two names and the open      *)
(* inodes are, and how much of which data is in them.                      *)
THEOREM Invariance == Spec => []IInv
  BY InitSound, Inductive, PTL DEF Spec

(* Every variable keeps its type; in particular a writer that needs a new  *)
(* inode finds one.                                                        *)
THEOREM TypeCorrect == Spec => []TypeOK
<1>1. IInv => TypeOK
  BY DEF IInv
<1>2. QED
  BY <1>1, Invariance, PTL

(* Without two saves at once the file never holds parts of two licenses,   *)
(* whatever was left in the .tmp file, fclose lost or the power took       *)
(* (storage.cpp 223-239).                                                  *)
THEOREM FileIsNeverMixed == Spec => []NeverMixed
<1>1. IInv => NeverMixed
  BY DEF IInv, Progress, OnlyOf, NeverMixed
<1>2. QED
  BY <1>1, Invariance, PTL

(* For any number of writers, readers and blocks and whatever operations   *)
(* fail, the file is atomic until a save overlaps another, fclose fails or *)
(* the power goes: it holds the old license or the new one, save() tells   *)
(* which, and a load returns what the file held (storage.cpp 193-255).     *)
THEOREM ImplementsAtomic == Spec => ImplementsAtomicFile
<1>1. Init => Atomic!AInit
  BY DEF Init, Atomic!AInit, FileData, Loading, Processes
<1>2. IInv /\ [Next]_vars => [Atomic!ANext]_(Atomic!avars)
  BY StepIsAtomic
<1>3. QED
  BY <1>1, <1>2, Invariance, PTL DEF Spec, ImplementsAtomicFile, Atomic!ASpec

=============================================================================
