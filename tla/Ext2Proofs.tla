------------------------------ MODULE Ext2Proofs ------------------------------
(***************************************************************************)
(* Module Ext2 keeps its types, its names, its files and its counts, and   *)
(* implements the tree of names of module FileTree, for every size of the  *)
(* disk, every number of faults and every history of operations.           *)
(*                                                                         *)
(* Five parts, each resting on those before it: the types (TypeInv); the   *)
(* names and the blocks of different inodes kept apart (SafeInv); the      *)
(* pointers of an inode, its file and the refinement of FileTree (FileInv, *)
(* NamesInv); the free counts (CountInv); the link counts (LinksInv).  The *)
(* types have one lemma per action, under it one step for the control      *)
(* state, one for the disk and one for the locals of the running operation.*)
(***************************************************************************)
EXTENDS Ext2, SequenceTheorems, FiniteSetTheorems, TLAPS

Allocating == {"block_bitmap", "block_desc", "block_super", "block_zero"}
Naming == {"write_dots", "write_new", "add_entry", "new_dir_block", "write_parent"}
Adding == {"add_entry", "new_dir_block", "write_parent"}
Filling == {"write_alloc", "set_block", "link_child", "write_data"}

\* What the locals of the running operation are at each of its steps.
LocalsOK ==
  /\ op.cmd \in {"create", "mkdir", "delete"} =>
       /\ op.dir \in Inode /\ op.name \in Name
       /\ op.parent.type = "dir" /\ DirFits(op.parent)
  /\ op.cmd = "mkdir" => op.goal = NoGoal
  /\ op.cmd = "delete" => op.ino \in Inode
  /\ op.cmd = "write" => op.ino \in Inode /\ op.mine.type = "file" /\ op.goal \in 0 .. LargestFile
  /\ pc \in Naming \cup {"inode_super"} => op.cmd \in {"create", "mkdir"} /\ op.ino \in Inode
  /\ pc \in Adding \/ (pc \in Allocating /\ op.want = "dirblock") =>
       (op.cmd = "create" => inode[op.ino].type = "file")
  /\ pc = "inode_bitmap" => op.cmd \in {"create", "mkdir"}
  /\ pc \in Filling => op.cmd = "write"
  /\ pc = "remove_entry" => op.cmd = "delete"
  /\ pc \in Allocating =>
       /\ op.want \in DOMAIN Resume
       /\ op.want \in {"newdir", "dirblock"} => op.cmd \in {"create", "mkdir"} /\ op.ino \in Inode
       /\ op.want \notin {"newdir", "dirblock"} => op.cmd = "write"
       /\ op.want = "dirblock" => op.parent.size < NDirect
  /\ pc = "new_dir_block" => op.parent.size < NDirect
  /\ pc \in {"write_dots", "new_dir_block"} => op.phys # Null
  /\ pc = "write_new" /\ op.cmd = "mkdir" => op.phys # Null
  /\ pc \in {"free_desc", "free_super"} => op.todo # <<>>
  /\ pc \in {"block_desc", "block_super", "block_zero"} => op.new \in Block
  /\ pc = "block_desc" => gd[BlockGroup(op.new)].blocks > 0
  /\ pc = "inode_desc" =>
       op.cmd \in {"create", "mkdir"} /\ op.ino \in Inode /\ gd[InodeGroup(op.ino)].inodes > 0

TypeInv == TypeOK /\ LocalsOK

\* TypeOK without the control state.
StateOK ==
  /\ bused \subseteq Block /\ iused \subseteq Inode
  /\ gd \in [Groups -> GroupCounts] /\ sb \in FreeCounts /\ msb \in FreeCounts
  /\ inode \in [Inode -> InodeRecord]
  /\ \A i \in Inode : inode[i].type = "dir" => DirFits(inode[i])
  /\ blk \in [Block -> BlockRecord]
ControlOK ==
  /\ pc \in {"idle", "down", "write_alloc"} \cup Writing
  /\ op \in Operation
  /\ faults \in Nat

\* The records memset and the callers of ext2_write_inode start from are well typed.
LEMMA Records ==
  /\ ZeroInode \in InodeRecord /\ FileInode \in InodeRecord
  /\ ZeroBlock \in BlockRecord
  /\ LargestFile \in Nat /\ NDirect <= LargestFile
<1>1. LargestFile \in Nat /\ NDirect <= LargestFile
  BY Ext2Assumption DEF LargestFile
<1>2. ZeroInode \in InodeRecord
  BY <1>1, Ext2Assumption DEF ZeroInode, InodeRecord, Null, Ptr
<1>3. FileInode \in InodeRecord
  BY <1>2 DEF FileInode, InodeRecord
<1>5. ZeroBlock \in BlockRecord
  BY Ext2Assumption DEF ZeroBlock, ZeroTable, NoOwner, BlockRecord, Null, Ptr
<1>6. QED
  BY <1>1, <1>2, <1>3, <1>5

\* The idle operation is an operation.
LEMMA NoOpOK == NoOp \in Operation
<1>1. <<>> \in Seq(Ptr)
  OBVIOUS
<1>2. QED
  BY <1>1, Records DEF NoOp, Operation, Ptr, Null, NoGoal

\* A new directory's inode is well typed and its one block is a direct pointer.
LEMMA DirInodeType ==
  ASSUME NEW b \in Ptr
  PROVE  DirInode(b) \in InodeRecord /\ (b # Null => DirFits(DirInode(b)))
<1>1. /\ [ZeroInode.direct EXCEPT ![0] = b] \in [0 .. NDirect - 1 -> Ptr]
      /\ [ZeroInode.direct EXCEPT ![0] = b][0] = b
  BY Ext2Assumption DEF ZeroInode, Ptr, Null
<1>2. 1 \in 0 .. LargestFile /\ ZeroInode \in InodeRecord
  BY Records, Ext2Assumption
<1>3. DirInode(b) \in InodeRecord
  BY <1>1, <1>2 DEF DirInode, InodeRecord
<1>4. DirInode(b).size = 1 /\ DirInode(b).direct[0] = b
  BY <1>1, <1>2 DEF DirInode, InodeRecord
<1>5. QED
  BY <1>3, <1>4, Ext2Assumption DEF DirFits

\* The blocks of a directory exist, and what they name are inodes.
LEMMA LookupType ==
  ASSUME TypeOK, NEW d \in Dirs
  PROVE  /\ \A l \in 0 .. inode[d].size - 1 : inode[d].direct[l] \in Block
         /\ \A n : Lookup(d, n) \subseteq Inode
<1>1. d \in Inode /\ inode[d] \in InodeRecord /\ DirFits(inode[d])
  BY DEF Dirs, TypeOK
<1>2. \A l \in 0 .. inode[d].size - 1 : inode[d].direct[l] \in Block
  <2>1. ASSUME NEW l \in 0 .. inode[d].size - 1 PROVE l \in 0 .. NDirect - 1
    BY <1>1, Ext2Assumption, Records DEF DirFits, InodeRecord
  <2>2. QED
    BY <1>1, <2>1 DEF DirFits, InodeRecord, Ptr
<1>3. \A b \in Block : blk[b].ents \subseteq Entry
  BY DEF TypeOK, BlockRecord
<1>4. \A e \in Entries(inode[d]) : e \in Entry
  BY <1>2, <1>3 DEF Entries
<1>5. QED
  BY <1>2, <1>4 DEF Lookup, Entry
\* set_inode_block and inode_block split an index below p * p into two below p.
LEMMA DivBound == 
  ASSUME NEW p \in Nat, p > 0, NEW a \in Nat
  PROVE a % p \in 0 .. p-1 /\ (a < p * p => a \div p \in 0 .. p - 1)
<1>1. a % p \in 0 .. p-1 /\ a \div p \in Nat /\ a = p * (a \div p) + (a % p)
  OBVIOUS
<1>2. ASSUME NEW q \in Nat, q >= p PROVE p * q >= p * p
  BY <1>2
<1>3. a < p*p => a \div p < p
  BY <1>1, <1>2
<1>4. QED BY <1>1, <1>3

\* inode_block returns a block of the disk or 0 for every index of a largest file.
LEMMA BlockOfType ==
  ASSUME TypeOK, NEW rec \in InodeRecord, NEW l \in Nat, l < LargestFile
  PROVE  BlockOf(rec, l) \in Ptr
<1> DEFINE m == l - NDirect - Pointers
           via(t, k) == IF t = Null THEN Null ELSE blk[t].table[k]
<1>1. ASSUME NEW t \in Ptr, NEW k \in 0 .. Pointers - 1 PROVE via(t, k) \in Ptr
  <2>1. CASE t = Null BY <2>1 DEF Ptr
  <2>2. CASE t # Null
    <3>1. blk[t] \in BlockRecord BY <2>2 DEF TypeOK, Ptr
    <3>2. blk[t].table[k] \in Ptr BY <3>1, <1>1 DEF BlockRecord
    <3> QED BY <2>2, <3>2
  <2> QED BY <2>1, <2>2
<1>2. CASE l < NDirect
  BY <1>2, Ext2Assumption DEF BlockOf, InodeRecord
<1>3. CASE NDirect <= l /\ l < NDirect + Pointers
  <2>1. rec.ind \in Ptr /\ l - NDirect \in 0 .. Pointers - 1
    BY <1>3, Ext2Assumption DEF InodeRecord
  <2>2. QED BY <1>1, <1>3, <2>1, Ext2Assumption DEF BlockOf
<1>4. CASE NDirect + Pointers <= l
  <2>1. m \in Nat /\ m < Pointers * Pointers
    BY <1>4, Ext2Assumption DEF LargestFile
  <2>2. m \div Pointers \in 0 .. Pointers - 1 /\ m % Pointers \in 0 .. Pointers - 1
    BY <2>1, DivBound, Ext2Assumption
  <2>3. via(rec.dbl, m \div Pointers) \in Ptr
    BY <1>1, <2>2 DEF InodeRecord
  <2>4. via(via(rec.dbl, m \div Pointers), m % Pointers) \in Ptr
    BY <1>1, <2>2, <2>3
  <2>5. BlockOf(rec, l) = via(via(rec.dbl, m \div Pointers), m % Pointers)
    BY <1>4, Ext2Assumption DEF BlockOf
  <2>6. QED BY <2>4, <2>5
<1>5. QED BY <1>2, <1>3, <1>4, Ext2Assumption

\* The deletion frees nothing but blocks of the disk (free_block skips the zeros).
LEMMA FreeListType ==
  ASSUME TypeOK, NEW rec \in InodeRecord
  PROVE  FreeList(rec) \in Seq(Ptr)
<1> DEFINE data == [l \in 1 .. rec.size |-> BlockOf(rec, l - 1)]
           tables == IF rec.dbl = Null THEN <<>>
                     ELSE [k \in 1 .. Pointers |-> blk[rec.dbl].table[k - 1]]
<1>0. rec.size \in 0 .. LargestFile /\ LargestFile \in Nat /\ rec.ind \in Ptr /\ rec.dbl \in Ptr
  BY Records DEF InodeRecord
<1>1. data \in Seq(Ptr)
  <2>1. \A l \in 1 .. rec.size : BlockOf(rec, l - 1) \in Ptr
    BY <1>0, BlockOfType
  <2>2. QED BY <1>0, <2>1
<1>2. tables \in Seq(Ptr)
  <2>1. CASE rec.dbl = Null BY <2>1
  <2>2. CASE rec.dbl # Null
    <3>1. blk[rec.dbl].table \in [0 .. Pointers - 1 -> Ptr]
      BY <1>0, <2>2 DEF TypeOK, BlockRecord, Ptr
    <3>2. \A k \in 1 .. Pointers : blk[rec.dbl].table[k - 1] \in Ptr
      BY <3>1, Ext2Assumption
    <3>3. QED BY <2>2, <3>2, Ext2Assumption
  <2>3. QED BY <2>1, <2>2
<1>3. <<rec.ind>> \in Seq(Ptr) /\ <<rec.dbl>> \in Seq(Ptr)
  BY <1>0
<1>4. FreeList(rec) = data \o <<rec.ind>> \o tables \o <<rec.dbl>>
  BY DEF FreeList
<1> HIDE DEF data, tables
<1>5. QED BY <1>1, <1>2, <1>3, <1>4

\* Taking the next block to free keeps the operation well typed.
LEMMA TailOp ==
  ASSUME NEW o \in Operation, o.todo # <<>>
  PROVE  [o EXCEPT !.todo = Tail(@)] \in Operation
<1>1. o.todo \in Seq(Ptr)
  BY DEF Operation
<1>2. Tail(o.todo) \in Seq(Ptr)
  BY <1>1
<1>3. QED
  BY <1>2 DEF Operation

\* An operation that returns leaves no locals behind.
LEMMA FinishLocals == ASSUME Finish PROVE LocalsOK'
  BY DEF Finish, LocalsOK, NoOp, Naming, Adding, Allocating, Filling

\* Storing a pointer keeps a block well typed.
LEMMA PutPointer ==
  ASSUME NEW r \in BlockRecord, NEW k, NEW p \in Ptr
  PROVE  [r EXCEPT !.table[k] = p] \in BlockRecord
  BY DEF BlockRecord

\* No allocatable block has the number that stands for "no block".
LEMMA NotNull == \A b \in Block : b # Null
  BY DEF Block, Null

\* Moving on to the next block of a file keeps the operation well typed.
LEMMA NextLogicalType ==
  ASSUME NEW o \in Operation
  PROVE  NextLogical(o) \in Operation
<1>1. Null \in Ptr /\ o.logical + 1 \in Nat
  BY DEF Operation, Ptr
<1>2. QED
  BY <1>1 DEF NextLogical, Operation

\* The deletion keeps its locals from one block to the next.
LEMMA NextFreeLocals ==
  ASSUME TypeInv, pc \in Freeing, NextFree
  PROVE  LocalsOK'
<1>1. pc' = "free_bitmap" /\ op' = [op EXCEPT !.todo = Tail(@)] /\ op \in Operation
  BY DEF NextFree, TypeInv, TypeOK
<1>2. /\ op'.cmd = op.cmd /\ op'.dir = op.dir /\ op'.name = op.name /\ op'.ino = op.ino
      /\ op'.goal = op.goal /\ op'.parent = op.parent /\ op'.mine = op.mine
  BY <1>1 DEF Operation
<1>3. QED
  BY <1>1, <1>2 DEF TypeInv, LocalsOK, Freeing, Naming, Adding, Allocating, Filling

\* AllocBlockBitmap keeps the types and the locals of the running operation.
LEMMA AllocBlockBitmapType ==
  ASSUME TypeInv, NEW ok \in BOOLEAN, AllocBlockBitmap(ok)
  PROVE  TypeInv'
<1> USE DEF TypeInv
<1>1. ControlOK'
  <2>1. PICK b \in Block : Proceed(ok, "block_desc", [op EXCEPT !.new = b])
    BY DEF AllocBlockBitmap
  <2>2. [op EXCEPT !.new = b] \in Operation
    BY DEF TypeOK, Operation, Ptr
  <2>3. op' \in Operation /\ pc' \in {"block_desc", "idle"}
    BY <2>1, <2>2, NoOpOK DEF Proceed, Finish
  <2>4. QED
    BY <2>3 DEF ControlOK, TypeOK, AllocBlockBitmap, Count, Writing
<1>2. StateOK'
  BY Records, Ext2Assumption DEF TypeOK, StateOK, AllocBlockBitmap,
      FreeCounts
<1>3. LocalsOK'
  <2>0. PICK b \in Block :
          Proceed(ok, "block_desc", [op EXCEPT !.new = b]) /\ gd[BlockGroup(b)].blocks > 0
    BY DEF AllocBlockBitmap, FirstFreeBlock, FreeBlocks
  <2>1. CASE ok
    <3>1. pc' = "block_desc" /\ op' = [op EXCEPT !.new = b] /\ gd' = gd /\ inode' = inode /\ pc = "block_bitmap"
      BY <2>0, <2>1 DEF AllocBlockBitmap, Proceed
    <3>2. QED
      BY <2>0, <3>1 DEF LocalsOK, Naming, Adding, Allocating, Filling,
          TypeOK, Operation
  <2>2. CASE ~ok
    BY <2>0, <2>2, FinishLocals DEF AllocBlockBitmap, Proceed
  <2>3. QED
    BY <2>1, <2>2
<1>4. QED
  BY <1>1, <1>2, <1>3 DEF TypeOK, StateOK, ControlOK

\* AllocBlockDesc keeps the types and the locals of the running operation.
LEMMA AllocBlockDescType ==
  ASSUME TypeInv, NEW ok \in BOOLEAN, AllocBlockDesc(ok)
  PROVE  TypeInv'
<1> USE DEF TypeInv
<1>1. ControlOK'
  BY NoOpOK DEF ControlOK, TypeOK, Proceed, Finish, Count, Operation, Ptr,
      Writing, Freeing, AllocBlockDesc
<1>2. StateOK'
  <2>1. gd \in [Groups -> GroupCounts] /\ gd[BlockGroup(op.new)].blocks > 0
    BY DEF TypeOK, LocalsOK, AllocBlockDesc
  <2>2. ASSUME BlockGroup(op.new) \in Groups
        PROVE  [gd[BlockGroup(op.new)] EXCEPT !.blocks = @ - 1] \in GroupCounts
    BY <2>1, <2>2 DEF GroupCounts
  <2>3. gd' \in [Groups -> GroupCounts]
    BY <2>1, <2>2 DEF AllocBlockDesc
  <2>4. QED
    BY <2>3 DEF TypeOK, StateOK, AllocBlockDesc
<1>3. LocalsOK'
  <2>1. CASE ok
    <3>1. pc = "block_desc" /\ pc' = "block_super" /\ op' = op /\ inode' = inode
      BY <2>1 DEF AllocBlockDesc, Proceed
    <3>2. QED
      BY <3>1 DEF LocalsOK, Naming, Adding, Allocating, Filling, TypeOK,
          Operation
  <2>2. CASE ~ok
    BY <2>2, FinishLocals DEF AllocBlockDesc, Proceed
  <2>3. QED
    BY <2>1, <2>2
<1>4. QED
  BY <1>1, <1>2, <1>3 DEF TypeOK, StateOK, ControlOK

\* AllocBlockSuper keeps the types and the locals of the running operation.
LEMMA AllocBlockSuperType ==
  ASSUME TypeInv, NEW ok \in BOOLEAN, AllocBlockSuper(ok)
  PROVE  TypeInv'
<1> USE DEF TypeInv
<1>1. ControlOK'
  BY NoOpOK DEF ControlOK, TypeOK, Proceed, Finish, Count, Operation, Ptr,
      Writing, Freeing, AllocBlockSuper
<1>2. StateOK'
  BY Records, Ext2Assumption DEF TypeOK, StateOK, AllocBlockSuper
<1>3. LocalsOK'
  <2>1. CASE ok
    <3>1. pc = "block_super" /\ pc' = "block_zero" /\ op' = op /\ inode' = inode /\ gd' = gd
      BY <2>1 DEF AllocBlockSuper, Proceed
    <3>2. QED
      BY <3>1 DEF LocalsOK, Naming, Adding, Allocating, Filling, TypeOK,
          Operation
  <2>2. CASE ~ok
    BY <2>2, FinishLocals DEF AllocBlockSuper, Proceed
  <2>3. QED
    BY <2>1, <2>2
<1>4. QED
  BY <1>1, <1>2, <1>3 DEF TypeOK, StateOK, ControlOK

\* AllocBlockZero keeps the types and the locals of the running operation.
LEMMA AllocBlockZeroType ==
  ASSUME TypeInv, NEW ok \in BOOLEAN, AllocBlockZero(ok)
  PROVE  TypeInv'
<1> USE DEF TypeInv
<1>1. ControlOK'
  <2>1. op.new \in Block /\ op \in Operation /\ op.want \in DOMAIN Resume
    BY DEF TypeOK, LocalsOK, Allocating, AllocBlockZero
  <2>2. Delivered(op) \in Operation
    BY <2>1 DEF Delivered, Operation, InodeRecord, Ptr
  <2>3. op' \in Operation
    BY <2>2, NoOpOK DEF AllocBlockZero, Proceed, Finish
  <2>4. QED
    BY <2>1, <2>3 DEF ControlOK, TypeOK, AllocBlockZero, Proceed, Finish, Count, Resume,
       Writing
<1>2. StateOK'
  BY Records, Ext2Assumption DEF TypeOK, StateOK, AllocBlockZero
<1>3. LocalsOK'
  <2>1. CASE ok
    <3>1. /\ op' = Delivered(op) /\ pc' = Resume[op.want] /\ pc = "block_zero"
          /\ op.new \in Block /\ op \in Operation /\ inode' = inode
      BY <2>1 DEF AllocBlockZero, Proceed, TypeOK, LocalsOK
    <3>2. /\ op'.cmd = op.cmd /\ op'.dir = op.dir /\ op'.name = op.name
          /\ op'.ino = op.ino /\ op'.goal = op.goal /\ op'.parent = op.parent
          /\ op'.want = op.want /\ op'.mine.type = op.mine.type
          /\ op.want \in {"newdir", "dirblock"} => op'.phys = op.new
      BY <3>1 DEF Delivered, Operation, InodeRecord
    <3>3. QED
      BY <3>1, <3>2, NotNull DEF LocalsOK, Resume, Naming, Adding, Allocating, Filling
  <2>2. CASE ~ok
    BY <2>2, FinishLocals DEF AllocBlockZero, Proceed
  <2>3. QED
    BY <2>1, <2>2
<1>4. QED
  BY <1>1, <1>2, <1>3 DEF TypeOK, StateOK, ControlOK

\* AllocInodeBitmap keeps the types and the locals of the running operation.
LEMMA AllocInodeBitmapType ==
  ASSUME TypeInv, NEW ok \in BOOLEAN, AllocInodeBitmap(ok)
  PROVE  TypeInv'
<1> USE DEF TypeInv
<1>1. ControlOK'
  <2>1. PICK i \in Inode : Proceed(ok, "inode_desc", [op EXCEPT !.ino = i])
    BY DEF AllocInodeBitmap
  <2>2. [op EXCEPT !.ino = i] \in Operation
    BY DEF TypeOK, Operation
  <2>3. op' \in Operation /\ pc' \in {"inode_desc", "idle"}
    BY <2>1, <2>2, NoOpOK DEF Proceed, Finish
  <2>4. QED
    BY <2>3 DEF ControlOK, TypeOK, AllocInodeBitmap, Count, Writing
<1>2. StateOK'
  BY Records, Ext2Assumption DEF TypeOK, StateOK, AllocInodeBitmap,
      FreeCounts
<1>3. LocalsOK'
  <2>0. PICK i \in Inode :
          Proceed(ok, "inode_desc", [op EXCEPT !.ino = i]) /\ gd[InodeGroup(i)].inodes > 0
    BY DEF AllocInodeBitmap, FirstFreeInode, FreeInodes
  <2>1. CASE ok
    <3>1. pc' = "inode_desc" /\ op' = [op EXCEPT !.ino = i] /\ gd' = gd /\ inode' = inode /\ pc = "inode_bitmap"
      BY <2>0, <2>1 DEF AllocInodeBitmap, Proceed
    <3>2. QED
      BY <2>0, <3>1 DEF LocalsOK, Naming, Adding, Allocating, Filling,
          TypeOK, Operation
  <2>2. CASE ~ok
    BY <2>0, <2>2, FinishLocals DEF AllocInodeBitmap, Proceed
  <2>3. QED
    BY <2>1, <2>2
<1>4. QED
  BY <1>1, <1>2, <1>3 DEF TypeOK, StateOK, ControlOK

\* AllocInodeDesc keeps the types and the locals of the running operation.
LEMMA AllocInodeDescType ==
  ASSUME TypeInv, NEW ok \in BOOLEAN, AllocInodeDesc(ok)
  PROVE  TypeInv'
<1> USE DEF TypeInv
<1>1. ControlOK'
  BY NoOpOK DEF ControlOK, TypeOK, Proceed, Finish, Count, Operation, Ptr,
      Writing, Freeing, AllocInodeDesc
<1>2. StateOK'
  <2>1. gd \in [Groups -> GroupCounts] /\ gd[InodeGroup(op.ino)].inodes > 0
    BY DEF TypeOK, LocalsOK, AllocInodeDesc
  <2>2. ASSUME InodeGroup(op.ino) \in Groups
        PROVE  [gd[InodeGroup(op.ino)] EXCEPT !.inodes = @ - 1] \in GroupCounts
    BY <2>1, <2>2 DEF GroupCounts
  <2>3. gd' \in [Groups -> GroupCounts]
    BY <2>1, <2>2 DEF AllocInodeDesc
  <2>4. QED
    BY <2>3 DEF TypeOK, StateOK, AllocInodeDesc
<1>3. LocalsOK'
  <2>1. CASE ok
    <3>1. pc = "inode_desc" /\ pc' = "inode_super" /\ op' = op /\ inode' = inode
      BY <2>1 DEF AllocInodeDesc, Proceed
    <3>2. QED
      BY <3>1 DEF LocalsOK, Naming, Adding, Allocating, Filling, TypeOK,
          Operation
  <2>2. CASE ~ok
    BY <2>2, FinishLocals DEF AllocInodeDesc, Proceed
  <2>3. QED
    BY <2>1, <2>2
<1>4. QED
  BY <1>1, <1>2, <1>3 DEF TypeOK, StateOK, ControlOK

\* AllocInodeSuper keeps the types and the locals of the running operation.
LEMMA AllocInodeSuperType ==
  ASSUME TypeInv, NEW ok \in BOOLEAN, AllocInodeSuper(ok)
  PROVE  TypeInv'
<1> USE DEF TypeInv
<1>1. ControlOK'
  <2>1. [op EXCEPT !.want = "newdir"] \in Operation
    BY DEF TypeOK, Operation, Resume
  <2>2. QED
    BY <2>1, NoOpOK DEF ControlOK, TypeOK, AllocInodeSuper, Proceed, Finish, Count, Writing
<1>2. StateOK'
  BY Records, Ext2Assumption DEF TypeOK, StateOK, AllocInodeSuper
<1>3. LocalsOK'
  <2>1. CASE ok /\ op.cmd = "mkdir"
    <3>1. /\ pc = "inode_super" /\ pc' = "block_bitmap"
          /\ op' = [op EXCEPT !.want = "newdir"]
      BY <2>1 DEF AllocInodeSuper, Proceed
    <3>2. QED
      BY <2>1, <3>1 DEF LocalsOK, Naming, Adding, Allocating, Filling, TypeOK, Operation, Resume
  <2>2. CASE ok /\ op.cmd # "mkdir"
    <3>1. pc = "inode_super" /\ pc' = "write_new" /\ op' = op
      BY <2>2 DEF AllocInodeSuper, Proceed
    <3>2. QED
      BY <2>2, <3>1 DEF LocalsOK, Naming, Adding, Allocating, Filling
  <2>3. CASE ~ok
    BY <2>3, FinishLocals DEF AllocInodeSuper, Proceed
  <2>4. QED
    BY <2>1, <2>2, <2>3
<1>4. QED
  BY <1>1, <1>2, <1>3 DEF TypeOK, StateOK, ControlOK

\* WriteDots keeps the types and the locals of the running operation.
LEMMA WriteDotsType ==
  ASSUME TypeInv, NEW ok \in BOOLEAN, WriteDots(ok)
  PROVE  TypeInv'
<1> USE DEF TypeInv
<1>1. ControlOK'
  BY NoOpOK DEF ControlOK, TypeOK, Proceed, Finish, Count, Operation, Ptr,
      Writing, Freeing, WriteDots
<1>2. StateOK'
  BY Records, Ext2Assumption DEF TypeOK, StateOK, WriteDots, BlockRecord,
      Operation
<1>3. LocalsOK'
  <2>1. CASE ok
    <3>1. pc = "write_dots" /\ pc' = "write_new" /\ op' = op /\ inode' = inode /\ gd' = gd
      BY <2>1 DEF WriteDots, Proceed
    <3>2. QED
      BY <3>1 DEF LocalsOK, Naming, Adding, Allocating, Filling, TypeOK,
          Operation
  <2>2. CASE ~ok
    BY <2>2, FinishLocals DEF WriteDots, Proceed
  <2>3. QED
    BY <2>1, <2>2
<1>4. QED
  BY <1>1, <1>2, <1>3 DEF TypeOK, StateOK, ControlOK

\* WriteNewInode keeps the types and the locals of the running operation.
LEMMA WriteNewInodeType ==
  ASSUME TypeInv, NEW ok \in BOOLEAN, WriteNewInode(ok)
  PROVE  TypeInv'
<1> USE DEF TypeInv
<1>1. ControlOK'
  BY NoOpOK DEF ControlOK, TypeOK, Proceed, Finish, Count, Operation, Ptr,
      Writing, Freeing, WriteNewInode
<1>2. StateOK'
  <2>1. op.phys \in Ptr /\ FileInode.type = "file" /\ (op.cmd = "mkdir" => op.phys # Null)
    BY DEF TypeOK, Operation, FileInode, ZeroInode, LocalsOK, WriteNewInode
  <2>2. /\ DirInode(op.phys) \in InodeRecord /\ FileInode \in InodeRecord
        /\ op.phys # Null => DirFits(DirInode(op.phys))
    BY <2>1, DirInodeType, Records
  <2>3. inode' \in [Inode -> InodeRecord]
    BY <2>2 DEF TypeOK, WriteNewInode
  <2>4. \A i \in Inode : inode'[i].type = "dir" => DirFits(inode'[i])
    BY <2>1, <2>2 DEF TypeOK, WriteNewInode
  <2>5. QED
    BY <2>3, <2>4 DEF TypeOK, StateOK, WriteNewInode
<1>3. LocalsOK'
  <2>1. CASE ok
    <3>1. /\ pc = "write_new" /\ pc' = "add_entry" /\ op' = op
          /\ op.ino \in Inode /\ op.cmd \in {"create", "mkdir"}
      BY <2>1 DEF WriteNewInode, Proceed, LocalsOK, Naming
    <3>2. op.cmd = "create" => inode'[op.ino] = FileInode
      BY <3>1 DEF WriteNewInode, TypeOK
    <3>3. FileInode.type = "file"
      BY DEF FileInode, ZeroInode
    <3>4. QED
      BY <3>1, <3>2, <3>3 DEF LocalsOK, Naming, Adding, Allocating, Filling
  <2>2. CASE ~ok
    BY <2>2, FinishLocals DEF WriteNewInode, Proceed
  <2>3. QED
    BY <2>1, <2>2
<1>4. QED
  BY <1>1, <1>2, <1>3 DEF TypeOK, StateOK, ControlOK

\* AddEntry keeps the types and the locals of the running operation.
LEMMA AddEntryType ==
  ASSUME TypeInv, NEW ok \in BOOLEAN, AddEntry(ok)
  PROVE  TypeInv'
<1> USE DEF TypeInv
<1>1. ControlOK'
  BY NoOpOK DEF ControlOK, TypeOK, Proceed, Finish, Count, Operation, Ptr,
      Writing, Freeing, AddEntry
<1>2. StateOK'
  <2>1. blk \in [Block -> BlockRecord] /\ NewEntry \in Entry
    BY DEF TypeOK, LocalsOK, Naming, AddEntry, NewEntry, Entry
  <2>2. PICK t : blk' = [blk EXCEPT ![t].ents = @ \cup {NewEntry}]
    BY DEF AddEntry
  <2>3. ASSUME t \in Block
        PROVE  [blk[t] EXCEPT !.ents = @ \cup {NewEntry}] \in BlockRecord
    BY <2>1, <2>3 DEF BlockRecord
  <2>4. blk' \in [Block -> BlockRecord]
    BY <2>1, <2>2, <2>3
  <2>5. QED
    BY <2>4 DEF TypeOK, StateOK, AddEntry
<1>3. LocalsOK'
  <2>1. CASE ok
    <3>1. pc = "add_entry" /\ pc' = "write_parent" /\ op' = op /\ inode' = inode
      BY <2>1 DEF AddEntry, Proceed
    <3>2. QED
      BY <3>1 DEF LocalsOK, Naming, Adding, Allocating, Filling, TypeOK,
          Operation
  <2>2. CASE ~ok
    BY <2>2, FinishLocals DEF AddEntry, Proceed
  <2>3. QED
    BY <2>1, <2>2
<1>4. QED
  BY <1>1, <1>2, <1>3 DEF TypeOK, StateOK, ControlOK

\* NewDirBlock keeps the types and the locals of the running operation.
LEMMA NewDirBlockType ==
  ASSUME TypeInv, NEW ok \in BOOLEAN, NewDirBlock(ok)
  PROVE  TypeInv'
<1> USE DEF TypeInv
<1>1. ControlOK'
  <2>1. op \in Operation /\ op.parent \in InodeRecord /\ op.phys \in Ptr
          /\ op.parent.size < NDirect
    BY DEF TypeOK, Operation, LocalsOK, NewDirBlock
  <2>2. op.parent.size + 1 \in 0 .. LargestFile
    <3>1. op.parent.size \in 0 .. LargestFile
      BY <2>1 DEF InodeRecord
    <3>2. LargestFile \in Nat /\ NDirect <= LargestFile /\ NDirect \in Nat
      BY Records, Ext2Assumption
    <3>3. QED
      BY <2>1, <3>1, <3>2
  <2>3. [op.parent EXCEPT !.direct[op.parent.size] = op.phys, !.size = @ + 1] \in InodeRecord
    BY <2>1, <2>2 DEF InodeRecord
  <2>4. [op EXCEPT !.parent.direct[op.parent.size] = op.phys,
                   !.parent.size = @ + 1] \in Operation
    BY <2>1, <2>3 DEF Operation
  <2>5. QED
    BY <2>4, NoOpOK DEF ControlOK, TypeOK, NewDirBlock, Proceed, Finish, Count, Writing
<1>2. StateOK'
  <2>1. NewEntry \in Entry /\ ZeroBlock \in BlockRecord
    BY Records DEF LocalsOK, Naming, NewDirBlock, NewEntry, Entry
  <2>2. [ZeroBlock EXCEPT !.ents = {NewEntry}] \in BlockRecord
    BY <2>1 DEF BlockRecord
  <2>3. QED
    BY <2>2 DEF TypeOK, StateOK, NewDirBlock
<1>3. LocalsOK'
  <2>1. CASE ok
    <3>1. /\ op \in Operation /\ op.parent \in InodeRecord /\ op.parent.size < NDirect
          /\ pc = "new_dir_block" /\ pc' = "write_parent" /\ inode' = inode
          /\ op' = [op EXCEPT !.parent.direct[op.parent.size] = op.phys,
                             !.parent.size = @ + 1]
      BY <2>1 DEF TypeOK, Operation, LocalsOK, NewDirBlock, Proceed
    <3>2. /\ op'.cmd = op.cmd /\ op'.dir = op.dir /\ op'.name = op.name
          /\ op'.ino = op.ino /\ op'.goal = op.goal /\ op'.mine = op.mine
          /\ op'.parent = [op.parent EXCEPT !.direct[op.parent.size] = op.phys,
                                          !.size = @ + 1]
      BY <3>1 DEF Operation
    <3>3. op'.parent.type = "dir" /\ DirFits(op'.parent)
      <4>0. op.phys # Null /\ DirFits(op.parent) /\ op.parent.type = "dir"
        BY <3>1 DEF LocalsOK, Naming
      <4>1. /\ op'.parent.type = "dir" /\ op'.parent.size = op.parent.size + 1
            /\ op'.parent.direct = [op.parent.direct EXCEPT ![op.parent.size] = op.phys]
        <5>1. op.parent \in InodeRecord
          BY <3>1
        <5>2. op'.parent = [op.parent EXCEPT !.direct[op.parent.size] = op.phys,
                                             !.size = @ + 1]
          BY <3>2
        <5>3. QED
          BY <4>0, <5>1, <5>2 DEF InodeRecord
      <4>2. op.parent.size \in 0 .. NDirect - 1
              /\ op.parent.direct \in [0 .. NDirect - 1 -> Ptr]
        BY <3>1, Ext2Assumption DEF InodeRecord
      <4>3. QED
        BY <4>0, <4>1, <4>2, Ext2Assumption DEF DirFits
    <3>4. QED
      BY <3>1, <3>2, <3>3 DEF LocalsOK, Naming, Adding, Allocating, Filling
  <2>2. CASE ~ok
    BY <2>2, FinishLocals DEF NewDirBlock, Proceed
  <2>3. QED
    BY <2>1, <2>2
<1>4. QED
  BY <1>1, <1>2, <1>3 DEF TypeOK, StateOK, ControlOK

\* WriteParent keeps the types and the locals of the running operation.
LEMMA WriteParentType ==
  ASSUME TypeInv, NEW ok \in BOOLEAN, WriteParent(ok)
  PROVE  TypeInv'
<1> USE DEF TypeInv
<1>1. ControlOK'
  <2> DEFINE next == [NoOp EXCEPT !.cmd = "write", !.ino = op.ino, !.goal = op.goal,
                                  !.mine = inode[op.ino]]
  <2>1. op.ino \in Inode /\ op \in Operation /\ inode[op.ino] \in InodeRecord
    BY DEF TypeOK, LocalsOK, Naming, WriteParent
  <2>2. next \in Operation
    BY <2>1, NoOpOK DEF Operation
  <2>3. QED
    BY <2>2, NoOpOK DEF ControlOK, TypeOK, WriteParent, Proceed, Finish, Count, Writing
<1>2. StateOK'
  <2>1. /\ op.dir \in Inode /\ op.parent \in InodeRecord
        /\ op.parent.type = "dir" /\ DirFits(op.parent)
    BY DEF TypeOK, Operation, LocalsOK, Naming, WriteParent
  <2>2. [op.parent EXCEPT !.links = @ + 1] \in InodeRecord
          /\ DirFits([op.parent EXCEPT !.links = @ + 1])
    BY <2>1 DEF InodeRecord, DirFits
  <2>3. inode' \in [Inode -> InodeRecord]
    BY <2>1, <2>2 DEF TypeOK, WriteParent
  <2>4. \A i \in Inode : inode'[i].type = "dir" => DirFits(inode'[i])
    BY <2>1, <2>2 DEF TypeOK, WriteParent
  <2>5. QED
    BY <2>3, <2>4 DEF TypeOK, StateOK, WriteParent
<1>3. LocalsOK'
  <2> DEFINE next == [NoOp EXCEPT !.cmd = "write", !.ino = op.ino, !.goal = op.goal,
                                  !.mine = inode[op.ino]]
  <2>1. CASE op.goal \in 0 .. LargestFile /\ ok
    <3>1. /\ op.ino \in Inode /\ inode[op.ino] \in InodeRecord
          /\ pc' = "write_alloc" /\ op' = next
      BY <2>1 DEF TypeOK, LocalsOK, Naming, WriteParent, Proceed
    <3>2. inode[op.ino].type = "file"
      BY <2>1, Ext2Assumption DEF LocalsOK, Naming, Adding, WriteParent, NoGoal
    <3>3. QED
      BY <2>1, <3>1, <3>2 DEF LocalsOK, NoOp, Naming, Adding, Allocating, Filling
  <2>2. CASE op.goal \notin 0 .. LargestFile \/ ~ok
    BY <2>2, FinishLocals DEF WriteParent, Proceed
  <2>3. QED
    BY <2>1, <2>2
<1>4. QED
  BY <1>1, <1>2, <1>3 DEF TypeOK, StateOK, ControlOK

\* SetIndirect keeps the types and the locals of the running operation.
LEMMA SetIndirectType ==
  ASSUME TypeInv, NEW ok \in BOOLEAN, SetIndirect(ok)
  PROVE  TypeInv'
<1> USE DEF TypeInv
<1>1. ControlOK'
  <2>1. NextLogical(op) \in Operation
    BY NextLogicalType DEF TypeOK
  <2>2. op' \in Operation /\ pc' \in {"write_alloc", "idle"}
    BY <2>1, NoOpOK DEF SetIndirect, Proceed, Finish
  <2>3. faults' \in Nat
    <3>1. Count(ok) /\ faults \in Nat
      BY DEF SetIndirect, TypeOK
    <3>2. QED
      BY <3>1 DEF Count
  <2>4. QED
    BY <2>2, <2>3 DEF ControlOK, Writing
<1>2. StateOK'
  <2>1. op.phys \in Ptr /\ blk \in [Block -> BlockRecord]
    BY DEF TypeOK, Operation
  <2>2. PICK t, k : blk' = [blk EXCEPT ![t].table[k] = op.phys]
    BY DEF SetIndirect
  <2>3. ASSUME t \in Block
        PROVE  [blk[t] EXCEPT !.table[k] = op.phys] \in BlockRecord
    BY <2>1, <2>3, PutPointer
  <2>4. blk' \in [Block -> BlockRecord]
    BY <2>1, <2>2, <2>3
  <2>5. QED
    BY <2>4 DEF TypeOK, StateOK, SetIndirect
<1>3. LocalsOK'
  <2>1. CASE ok
    <3>1. /\ pc \in Filling /\ pc' = "write_alloc" /\ op' = NextLogical(op) /\ op \in Operation
      BY <2>1 DEF SetIndirect, Proceed, Filling, TypeOK
    <3>2. /\ op'.cmd = op.cmd /\ op'.ino = op.ino /\ op'.goal = op.goal
          /\ op'.mine = op.mine
      BY <3>1 DEF NextLogical, Operation
    <3>3. QED
      BY <3>1, <3>2 DEF LocalsOK, Naming, Adding, Allocating, Filling
  <2>2. CASE ~ok
    BY <2>2, FinishLocals DEF SetIndirect, Proceed
  <2>3. QED
    BY <2>1, <2>2
<1>4. QED
  BY <1>1, <1>2, <1>3 DEF TypeOK, StateOK, ControlOK

\* LinkChild keeps the types and the locals of the running operation.
LEMMA LinkChildType ==
  ASSUME TypeInv, NEW ok \in BOOLEAN, LinkChild(ok)
  PROVE  TypeInv'
<1> USE DEF TypeInv
<1>1. ControlOK'
  BY NoOpOK DEF ControlOK, TypeOK, Proceed, Finish, Count, Operation, Ptr,
      Writing, Freeing, LinkChild
<1>2. StateOK'
  <2>1. op.new \in Ptr /\ blk \in [Block -> BlockRecord]
    BY DEF TypeOK, Operation
  <2>2. PICK t, k : blk' = [blk EXCEPT ![t].table[k] = op.new]
    BY DEF LinkChild
  <2>3. ASSUME t \in Block
        PROVE  [blk[t] EXCEPT !.table[k] = op.new] \in BlockRecord
    BY <2>1, <2>3, PutPointer
  <2>4. blk' \in [Block -> BlockRecord]
    BY <2>1, <2>2, <2>3
  <2>5. QED
    BY <2>4 DEF TypeOK, StateOK, LinkChild
<1>3. LocalsOK'
  <2>1. CASE ok
    <3>1. pc = "link_child" /\ pc' = "set_block" /\ op' = op /\ inode' = inode /\ gd' = gd
      BY <2>1 DEF LinkChild, Proceed
    <3>2. QED
      BY <3>1 DEF LocalsOK, Naming, Adding, Allocating, Filling, TypeOK,
          Operation
  <2>2. CASE ~ok
    BY <2>2, FinishLocals DEF LinkChild, Proceed
  <2>3. QED
    BY <2>1, <2>2
<1>4. QED
  BY <1>1, <1>2, <1>3 DEF TypeOK, StateOK, ControlOK

\* WriteData keeps the types and the locals of the running operation.
LEMMA WriteDataType ==
  ASSUME TypeInv, NEW ok \in BOOLEAN, WriteData(ok)
  PROVE  TypeInv'
<1> USE DEF TypeInv
<1>1. ControlOK'
  <2>1. NextLogical(op) \in Operation
    BY NextLogicalType DEF TypeOK
  <2>2. op' \in Operation /\ pc' \in {"write_data", "idle"}
    BY <2>1, NoOpOK DEF WriteData, Proceed, Finish
  <2>3. faults' \in Nat
    <3>1. Count(ok) /\ faults \in Nat
      BY DEF WriteData, TypeOK
    <3>2. QED
      BY <3>1 DEF Count
  <2>4. QED
    BY <2>2, <2>3 DEF ControlOK, Writing
<1>2. StateOK'
  <2>1. op.ino \in Inode /\ op.logical \in Nat /\ ZeroBlock \in BlockRecord
    BY Records DEF TypeOK, Operation, LocalsOK, Filling, WriteData
  <2>2. [ZeroBlock EXCEPT !.own = <<op.ino, op.logical>>] \in BlockRecord
    BY <2>1 DEF BlockRecord
  <2>3. QED
    BY <2>2 DEF TypeOK, StateOK, WriteData
<1>3. LocalsOK'
  <2>1. CASE ok
    <3>1. /\ pc \in Filling /\ pc' = "write_data" /\ op' = NextLogical(op) /\ op \in Operation
      BY <2>1 DEF WriteData, Proceed, Filling, TypeOK
    <3>2. /\ op'.cmd = op.cmd /\ op'.ino = op.ino /\ op'.goal = op.goal
          /\ op'.mine = op.mine
      BY <3>1 DEF NextLogical, Operation
    <3>3. QED
      BY <3>1, <3>2 DEF LocalsOK, Naming, Adding, Allocating, Filling
  <2>2. CASE ~ok
    BY <2>2, FinishLocals DEF WriteData, Proceed
  <2>3. QED
    BY <2>1, <2>2
<1>4. QED
  BY <1>1, <1>2, <1>3 DEF TypeOK, StateOK, ControlOK

\* WriteSize keeps the types and the locals of the running operation.
LEMMA WriteSizeType ==
  ASSUME TypeInv, NEW ok \in BOOLEAN, WriteSize(ok)
  PROVE  TypeInv'
<1> USE DEF TypeInv
<1>1. ControlOK'
  BY NoOpOK DEF ControlOK, TypeOK, Proceed, Finish, Count, Operation, Ptr,
      Writing, Freeing, WriteSize
<1>2. StateOK'
  <2>1. /\ op.goal \in 0 .. LargestFile /\ op.mine \in InodeRecord
        /\ op.mine.type = "file"
    BY DEF TypeOK, Operation, LocalsOK, Filling, WriteSize
  <2>2. /\ [op.mine EXCEPT !.size = op.goal] \in InodeRecord
        /\ [op.mine EXCEPT !.size = op.goal].type = "file"
    BY <2>1 DEF InodeRecord
  <2>3. QED
    BY <2>2 DEF TypeOK, StateOK, WriteSize
<1>3. LocalsOK'
  BY Records, Ext2Assumption DEF TypeOK, LocalsOK, Proceed, Finish, NoOp,
      Operation, Naming, Adding, Allocating, Filling, WriteSize
<1>4. QED
  BY <1>1, <1>2, <1>3 DEF TypeOK, StateOK, ControlOK

\* RemoveEntry keeps the types and the locals of the running operation.
LEMMA RemoveEntryType ==
  ASSUME TypeInv, NEW ok \in BOOLEAN, RemoveEntry(ok)
  PROVE  TypeInv'
<1> USE DEF TypeInv
<1>1. ControlOK'
  <2>1. op.mine \in InodeRecord /\ op \in Operation
    BY DEF TypeOK, Operation
  <2>2. FreeList(op.mine) \in Seq(Ptr)
    BY <2>1, FreeListType
  <2>3. [op EXCEPT !.todo = FreeList(op.mine)] \in Operation
    BY <2>1, <2>2 DEF Operation
  <2>4. QED
    BY <2>3, NoOpOK DEF ControlOK, TypeOK, RemoveEntry, Proceed, Finish, Count, Writing, Freeing
<1>2. StateOK'
  <2>1. blk \in [Block -> BlockRecord]
    BY DEF TypeOK, LocalsOK, Naming, RemoveEntry, NewEntry, Entry
  <2>2. PICK t : blk' = [blk EXCEPT ![t].ents = @ \ {NewEntry}]
    BY DEF RemoveEntry
  <2>3. ASSUME t \in Block
        PROVE  [blk[t] EXCEPT !.ents = @ \ {NewEntry}] \in BlockRecord
    BY <2>1, <2>3 DEF BlockRecord
  <2>4. blk' \in [Block -> BlockRecord]
    BY <2>1, <2>2, <2>3
  <2>5. QED
    BY <2>4 DEF TypeOK, StateOK, RemoveEntry
<1>3. LocalsOK'
  <2>1. CASE ok
    <3>1. pc = "remove_entry" /\ pc' = "free_bitmap"
          /\ op' = [op EXCEPT !.todo = FreeList(op.mine)] /\ inode' = inode
      BY <2>1 DEF RemoveEntry, Proceed
    <3>2. QED
      BY <3>1 DEF LocalsOK, Naming, Adding, Allocating, Filling, TypeOK,
          Operation
  <2>2. CASE ~ok
    BY <2>2, FinishLocals DEF RemoveEntry, Proceed
  <2>3. QED
    BY <2>1, <2>2
<1>4. QED
  BY <1>1, <1>2, <1>3 DEF TypeOK, StateOK, ControlOK

\* FreeBlockBitmap keeps the types and the locals of the running operation.
LEMMA FreeBlockBitmapType ==
  ASSUME TypeInv, NEW ok \in BOOLEAN, FreeBlockBitmap(ok)
  PROVE  TypeInv'
<1> USE DEF TypeInv
<1>1. ControlOK'
  <2>1. op \in Operation /\ op.todo # <<>>
    BY DEF TypeOK, LocalsOK, FreeBlockBitmap
  <2>2. [op EXCEPT !.todo = Tail(@)] \in Operation
    BY <2>1, TailOp
  <2>3. op' \in Operation /\ pc' \in Freeing
    BY <2>1, <2>2 DEF FreeBlockBitmap, NextFree, Freeing
  <2>4. QED
    BY <2>3 DEF ControlOK, TypeOK, FreeBlockBitmap, Count, Writing
<1>2. StateOK'
  <2>1. msb' \in FreeCounts
    BY DEF TypeOK, FreeBlockBitmap, FreeCounts
  <2>2. QED
    BY <2>1 DEF TypeOK, StateOK, FreeBlockBitmap
<1>3. LocalsOK'
  <2>1. CASE pc' = "free_desc" /\ op' = op /\ op.todo # <<>>
    BY <2>1 DEF FreeBlockBitmap, LocalsOK, Naming, Adding, Allocating, Filling
  <2>2. CASE NextFree
    BY <2>2, NextFreeLocals DEF FreeBlockBitmap, Freeing
  <2>3. QED
    BY <2>1, <2>2 DEF FreeBlockBitmap, LocalsOK
<1>4. QED
  BY <1>1, <1>2, <1>3 DEF TypeOK, StateOK, ControlOK

\* FreeBlockDesc keeps the types and the locals of the running operation.
LEMMA FreeBlockDescType ==
  ASSUME TypeInv, NEW ok \in BOOLEAN, FreeBlockDesc(ok)
  PROVE  TypeInv'
<1> USE DEF TypeInv
<1>1. ControlOK'
  <2>1. op \in Operation /\ op.todo # <<>>
    BY DEF TypeOK, LocalsOK, FreeBlockDesc
  <2>2. [op EXCEPT !.todo = Tail(@)] \in Operation
    BY <2>1, TailOp
  <2>3. op' \in Operation /\ pc' \in Freeing
    BY <2>1, <2>2 DEF FreeBlockDesc, NextFree, Freeing
  <2>4. QED
    BY <2>3 DEF ControlOK, TypeOK, FreeBlockDesc, Count, Writing
<1>2. StateOK'
  <2>1. gd \in [Groups -> GroupCounts]
    BY DEF TypeOK
  <2>2. ASSUME BlockGroup(Victim) \in Groups
        PROVE  [gd[BlockGroup(Victim)] EXCEPT !.blocks = @ + 1] \in GroupCounts
    BY <2>1, <2>2 DEF GroupCounts
  <2>3. gd' \in [Groups -> GroupCounts]
    BY <2>1, <2>2 DEF FreeBlockDesc
  <2>4. QED
    BY <2>3 DEF TypeOK, StateOK, FreeBlockDesc
<1>3. LocalsOK'
  <2>1. CASE pc' = "free_super" /\ op' = op /\ op.todo # <<>>
    BY <2>1 DEF FreeBlockDesc, LocalsOK, Naming, Adding, Allocating, Filling
  <2>2. CASE NextFree
    BY <2>2, NextFreeLocals DEF FreeBlockDesc, Freeing
  <2>3. QED
    BY <2>1, <2>2 DEF FreeBlockDesc, LocalsOK
<1>4. QED
  BY <1>1, <1>2, <1>3 DEF TypeOK, StateOK, ControlOK

\* FreeBlockSuper keeps the types and the locals of the running operation.
LEMMA FreeBlockSuperType ==
  ASSUME TypeInv, NEW ok \in BOOLEAN, FreeBlockSuper(ok)
  PROVE  TypeInv'
<1> USE DEF TypeInv
<1>1. ControlOK'
  <2>1. op \in Operation /\ op.todo # <<>>
    BY DEF TypeOK, LocalsOK, FreeBlockSuper
  <2>2. [op EXCEPT !.todo = Tail(@)] \in Operation
    BY <2>1, TailOp
  <2>3. op' \in Operation /\ pc' \in Freeing
    BY <2>1, <2>2 DEF FreeBlockSuper, NextFree, Freeing
  <2>4. QED
    BY <2>3 DEF ControlOK, TypeOK, FreeBlockSuper, Count, Writing
<1>2. StateOK'
  BY Records, Ext2Assumption DEF TypeOK, StateOK, FreeBlockSuper
<1>3. LocalsOK'
  BY NextFreeLocals DEF FreeBlockSuper, Freeing
<1>4. QED
  BY <1>1, <1>2, <1>3 DEF TypeOK, StateOK, ControlOK

\* ClearInode keeps the types and the locals of the running operation.
LEMMA ClearInodeType ==
  ASSUME TypeInv, NEW ok \in BOOLEAN, ClearInode(ok)
  PROVE  TypeInv'
<1> USE DEF TypeInv
<1>1. ControlOK'
  BY NoOpOK DEF ControlOK, TypeOK, Proceed, Finish, Count, Operation, Ptr,
      Writing, Freeing, ClearInode
<1>2. StateOK'
  BY Records, Ext2Assumption DEF TypeOK, StateOK, ClearInode, ZeroInode
<1>3. LocalsOK'
  BY Records, Ext2Assumption DEF TypeOK, LocalsOK, Proceed, Finish, NoOp,
      Operation, Naming, Adding, Allocating, Filling, ClearInode
<1>4. QED
  BY <1>1, <1>2, <1>3 DEF TypeOK, StateOK, ControlOK

\* FreeInodeBitmap keeps the types and the locals of the running operation.
LEMMA FreeInodeBitmapType ==
  ASSUME TypeInv, NEW ok \in BOOLEAN, FreeInodeBitmap(ok)
  PROVE  TypeInv'
<1> USE DEF TypeInv
<1>1. ControlOK'
  BY NoOpOK DEF ControlOK, TypeOK, Proceed, Finish, Count, Operation, Ptr,
      Writing, Freeing, FreeInodeBitmap
<1>2. StateOK'
  BY Records, Ext2Assumption DEF TypeOK, StateOK, FreeInodeBitmap,
      FreeCounts
<1>3. LocalsOK'
  BY Records, Ext2Assumption DEF TypeOK, LocalsOK, Proceed, Finish, NoOp,
      Operation, Naming, Adding, Allocating, Filling, FreeInodeBitmap
<1>4. QED
  BY <1>1, <1>2, <1>3 DEF TypeOK, StateOK, ControlOK

\* FreeInodeDesc keeps the types and the locals of the running operation.
LEMMA FreeInodeDescType ==
  ASSUME TypeInv, NEW ok \in BOOLEAN, FreeInodeDesc(ok)
  PROVE  TypeInv'
<1> USE DEF TypeInv
<1>1. ControlOK'
  BY NoOpOK DEF ControlOK, TypeOK, Proceed, Finish, Count, Operation, Ptr,
      Writing, Freeing, FreeInodeDesc
<1>2. StateOK'
  <2>1. gd \in [Groups -> GroupCounts]
    BY DEF TypeOK
  <2>2. ASSUME InodeGroup(op.ino) \in Groups
        PROVE  [gd[InodeGroup(op.ino)] EXCEPT !.inodes = @ + 1] \in GroupCounts
    BY <2>1, <2>2 DEF GroupCounts
  <2>3. gd' \in [Groups -> GroupCounts]
    BY <2>1, <2>2 DEF FreeInodeDesc
  <2>4. QED
    BY <2>3 DEF TypeOK, StateOK, FreeInodeDesc
<1>3. LocalsOK'
  BY Records, Ext2Assumption DEF TypeOK, LocalsOK, Proceed, Finish, NoOp,
      Operation, Naming, Adding, Allocating, Filling, FreeInodeDesc
<1>4. QED
  BY <1>1, <1>2, <1>3 DEF TypeOK, StateOK, ControlOK

\* FreeInodeSuper keeps the types and the locals of the running operation.
LEMMA FreeInodeSuperType ==
  ASSUME TypeInv, NEW ok \in BOOLEAN, FreeInodeSuper(ok)
  PROVE  TypeInv'
<1> USE DEF TypeInv
<1>1. ControlOK'
  BY NoOpOK DEF ControlOK, TypeOK, Proceed, Finish, Count, Operation, Ptr,
      Writing, Freeing, FreeInodeSuper
<1>2. StateOK'
  BY Records, Ext2Assumption DEF TypeOK, StateOK, FreeInodeSuper
<1>3. LocalsOK'
  BY Records, Ext2Assumption DEF TypeOK, LocalsOK, Proceed, Finish, NoOp,
      Operation, Naming, Adding, Allocating, Filling, FreeInodeSuper
<1>4. QED
  BY <1>1, <1>2, <1>3 DEF TypeOK, StateOK, ControlOK

\* DiskFull keeps the types and the locals of the running operation.
LEMMA DiskFullType ==
  ASSUME TypeInv, DiskFull
  PROVE  TypeInv'
<1> USE DEF TypeInv
<1>1. ControlOK'
  BY NoOpOK DEF ControlOK, TypeOK, Proceed, Finish, Count, Operation, Ptr,
      Writing, Freeing, DiskFull, disk
<1>2. StateOK'
  BY Records, Ext2Assumption DEF TypeOK, StateOK, DiskFull, disk
<1>3. LocalsOK'
  BY Records, Ext2Assumption DEF TypeOK, LocalsOK, Proceed, Finish, NoOp,
      Operation, Naming, Adding, Allocating, Filling, DiskFull, disk
<1>4. QED
  BY <1>1, <1>2, <1>3 DEF TypeOK, StateOK, ControlOK

\* InodesFull keeps the types and the locals of the running operation.
LEMMA InodesFullType ==
  ASSUME TypeInv, InodesFull
  PROVE  TypeInv'
<1> USE DEF TypeInv
<1>1. ControlOK'
  BY NoOpOK DEF ControlOK, TypeOK, Proceed, Finish, Count, Operation, Ptr,
      Writing, Freeing, InodesFull, disk
<1>2. StateOK'
  BY Records, Ext2Assumption DEF TypeOK, StateOK, InodesFull, disk
<1>3. LocalsOK'
  BY Records, Ext2Assumption DEF TypeOK, LocalsOK, Proceed, Finish, NoOp,
      Operation, Naming, Adding, Allocating, Filling, InodesFull, disk
<1>4. QED
  BY <1>1, <1>2, <1>3 DEF TypeOK, StateOK, ControlOK

\* GrowDirectory keeps the types and the locals of the running operation.
LEMMA GrowDirectoryType ==
  ASSUME TypeInv, GrowDirectory
  PROVE  TypeInv'
<1> USE DEF TypeInv
<1>1. ControlOK'
  <2>1. [op EXCEPT !.want = "dirblock"] \in Operation
    BY DEF TypeOK, Operation, Resume
  <2>2. QED
    BY <2>1, NoOpOK DEF ControlOK, TypeOK, GrowDirectory, Finish, disk, Writing
<1>2. StateOK'
  BY Records, Ext2Assumption DEF TypeOK, StateOK, GrowDirectory, disk
<1>3. LocalsOK'
  <2>1. CASE op.parent.size < NDirect
    <3>1. /\ pc = "add_entry" /\ pc' = "block_bitmap" /\ inode' = inode
          /\ op' = [op EXCEPT !.want = "dirblock"]
      BY <2>1 DEF GrowDirectory, disk
    <3>2. QED
      BY <2>1, <3>1 DEF LocalsOK, Naming, Adding, Allocating, Filling, TypeOK, Operation, Resume
  <2>2. CASE ~(op.parent.size < NDirect)
    BY <2>2, FinishLocals DEF GrowDirectory
  <2>3. QED
    BY <2>1, <2>2
<1>4. QED
  BY <1>1, <1>2, <1>3 DEF TypeOK, StateOK, ControlOK

\* WriteAlloc keeps the types and the locals of the running operation.
LEMMA WriteAllocType ==
  ASSUME TypeInv, WriteAlloc
  PROVE  TypeInv'
<1> USE DEF TypeInv
<1>1. ControlOK'
  <2>1. /\ [op EXCEPT !.want = "data"] \in Operation
        /\ [op EXCEPT !.logical = 0] \in Operation
    BY DEF TypeOK, Operation, Resume
  <2>2. QED
    BY <2>1 DEF ControlOK, TypeOK, WriteAlloc, disk, Writing
<1>2. StateOK'
  BY Records, Ext2Assumption DEF TypeOK, StateOK, WriteAlloc, disk
<1>3. LocalsOK'
  <2>1. CASE op.logical < op.goal
    <3>1. /\ pc = "write_alloc" /\ pc' = "block_bitmap"
          /\ op' = [op EXCEPT !.want = "data"]
      BY <2>1 DEF WriteAlloc
    <3>2. QED
      BY <3>1 DEF LocalsOK, Naming, Adding, Allocating, Filling, TypeOK, Operation, Resume
  <2>2. CASE ~(op.logical < op.goal)
    <3>1. /\ pc = "write_alloc" /\ pc' = "write_data"
          /\ op' = [op EXCEPT !.logical = 0]
      BY <2>2 DEF WriteAlloc
    <3>2. QED
      BY <3>1 DEF LocalsOK, Naming, Adding, Allocating, Filling, TypeOK, Operation
  <2>3. QED
    BY <2>1, <2>2
<1>4. QED
  BY <1>1, <1>2, <1>3 DEF TypeOK, StateOK, ControlOK

\* SetDirect keeps the types and the locals of the running operation.
LEMMA SetDirectType ==
  ASSUME TypeInv, SetDirect
  PROVE  TypeInv'
<1> USE DEF TypeInv
<1>1. ControlOK'
  <2> DEFINE set == [op EXCEPT !.mine.direct[op.logical] = op.phys]
  <2>1. op \in Operation /\ op.mine \in InodeRecord /\ op.phys \in Ptr
    BY DEF TypeOK, Operation
  <2>2. [op.mine EXCEPT !.direct[op.logical] = op.phys] \in InodeRecord
    BY <2>1 DEF InodeRecord
  <2>3. set \in Operation
    BY <2>1, <2>2 DEF Operation
  <2>4. NextLogical(set) \in Operation
    BY <2>3, NextLogicalType
  <2>5. QED
    BY <2>4 DEF ControlOK, TypeOK, SetDirect, disk
<1>2. StateOK'
  BY Records, Ext2Assumption DEF TypeOK, StateOK, SetDirect, disk
<1>3. LocalsOK'
  <2>1. /\ op \in Operation /\ op.mine \in InodeRecord
        /\ pc = "set_block" /\ pc' = "write_alloc"
        /\ op' = NextLogical([op EXCEPT !.mine.direct[op.logical] = op.phys])
    BY DEF TypeOK, Operation, SetDirect
  <2>2. /\ op'.cmd = op.cmd /\ op'.ino = op.ino /\ op'.goal = op.goal
        /\ op'.mine.type = op.mine.type
    BY <2>1 DEF NextLogical, Operation, InodeRecord
  <2>3. QED
    BY <2>1, <2>2 DEF LocalsOK, Naming, Adding, Allocating, Filling
<1>4. QED
  BY <1>1, <1>2, <1>3 DEF TypeOK, StateOK, ControlOK

\* NeedTable keeps the types and the locals of the running operation.
LEMMA NeedTableType ==
  ASSUME TypeInv, NeedTable
  PROVE  TypeInv'
<1> USE DEF TypeInv
<1>1. ControlOK'
  <2>1. MissingTable \in DOMAIN Resume
    BY DEF MissingTable, Resume, NeedTable
  <2>2. [op EXCEPT !.want = MissingTable] \in Operation
    BY <2>1 DEF TypeOK, Operation
  <2>3. QED
    BY <2>2 DEF ControlOK, TypeOK, NeedTable, disk, Writing
<1>2. StateOK'
  BY Records, Ext2Assumption DEF TypeOK, StateOK, NeedTable, disk
<1>3. LocalsOK'
  <2>1. MissingTable \in {"indirect", "double", "child"}
    BY DEF MissingTable, NeedTable
  <2>2. /\ pc = "set_block" /\ pc' = "block_bitmap" /\ op \in Operation
        /\ op' = [op EXCEPT !.want = MissingTable]
    BY DEF TypeOK, NeedTable
  <2>3. QED
    BY <2>1, <2>2 DEF LocalsOK, Naming, Adding, Allocating, Filling, Operation, Resume
<1>4. QED
  BY <1>1, <1>2, <1>3 DEF TypeOK, StateOK, ControlOK

\* SkipNull keeps the types and the locals of the running operation.
LEMMA SkipNullType ==
  ASSUME TypeInv, SkipNull
  PROVE  TypeInv'
<1> USE DEF TypeInv
<1>1. ControlOK'
  <2>1. op \in Operation /\ op.todo # <<>>
    BY DEF TypeOK, LocalsOK, SkipNull
  <2>2. [op EXCEPT !.todo = Tail(@)] \in Operation
    BY <2>1, TailOp
  <2>3. op' \in Operation /\ pc' \in Freeing
    BY <2>1, <2>2 DEF SkipNull, NextFree, Freeing
  <2>4. QED
    BY <2>3 DEF ControlOK, TypeOK, SkipNull, disk, Writing
<1>2. StateOK'
  BY Records, Ext2Assumption DEF TypeOK, StateOK, SkipNull, disk
<1>3. LocalsOK'
  BY NextFreeLocals DEF SkipNull, Freeing
<1>4. QED
  BY <1>1, <1>2, <1>3 DEF TypeOK, StateOK, ControlOK

\* WriteLost keeps the types and the locals of the running operation.
LEMMA WriteLostType ==
  ASSUME TypeInv, WriteLost
  PROVE  TypeInv'
<1> USE DEF TypeInv
<1>1. ControlOK'
  <2>1. op.todo # <<>> => [op EXCEPT !.todo = Tail(@)] \in Operation
    BY TailOp DEF TypeOK
  <2>2. QED
    BY <2>1, NoOpOK DEF ControlOK, TypeOK, WriteLost, Finish, NextFree, disk, Writing, Freeing
<1>2. StateOK'
  BY Records, Ext2Assumption DEF TypeOK, StateOK, WriteLost, disk
<1>3. LocalsOK'
  <2>1. CASE Finish
    BY <2>1, FinishLocals
  <2>2. CASE pc \in Freeing /\ NextFree
    BY <2>2, NextFreeLocals
  <2>3. CASE pc \in Freeing /\ pc' = "ifree_bitmap" /\ op' = op
    BY <2>3 DEF LocalsOK, Freeing, Naming, Adding, Allocating, Filling
  <2>4. QED
    BY <2>1, <2>2, <2>3 DEF WriteLost
<1>4. QED
  BY <1>1, <1>2, <1>3 DEF TypeOK, StateOK, ControlOK

\* Crash keeps the types and the locals of the running operation.
LEMMA CrashType ==
  ASSUME TypeInv, Crash
  PROVE  TypeInv'
<1> USE DEF TypeInv
<1>1. ControlOK'
  BY NoOpOK DEF ControlOK, TypeOK, Proceed, Finish, Count, Operation, Ptr,
      Writing, Freeing, Crash, disk
<1>2. StateOK'
  BY Records, Ext2Assumption DEF TypeOK, StateOK, Crash, disk
<1>3. LocalsOK'
  BY Records, Ext2Assumption DEF TypeOK, LocalsOK, Proceed, Finish, NoOp,
      Operation, Naming, Adding, Allocating, Filling, Crash, disk
<1>4. QED
  BY <1>1, <1>2, <1>3 DEF TypeOK, StateOK, ControlOK

\* Mount keeps the types and the locals of the running operation.
LEMMA MountType ==
  ASSUME TypeInv, Mount
  PROVE  TypeInv'
<1> USE DEF TypeInv
<1>1. ControlOK'
  BY NoOpOK DEF ControlOK, TypeOK, Proceed, Finish, Count, Operation, Ptr,
      Writing, Freeing, Mount, disk
<1>2. StateOK'
  BY Records, Ext2Assumption DEF TypeOK, StateOK, Mount, disk
<1>3. LocalsOK'
  BY Records, Ext2Assumption DEF TypeOK, LocalsOK, Proceed, Finish, NoOp,
      Operation, Naming, Adding, Allocating, Filling, Mount, disk
<1>4. QED
  BY <1>1, <1>2, <1>3 DEF TypeOK, StateOK, ControlOK

\* Starting an operation keeps the types.
LEMMA RequestType ==
  ASSUME TypeInv, Request
  PROVE  TypeInv'
<1> USE DEF TypeInv
<1>1. ASSUME NEW cmd \in {"create", "mkdir"}, NEW d \in Inode, NEW n \in Name,
             NEW k \in Int, cmd = "mkdir" => k = NoGoal, Create(cmd, d, n, k)
      PROVE  TypeInv'
  <2> DEFINE o == [NoOp EXCEPT !.cmd = cmd, !.dir = d, !.name = n, !.goal = k,
                               !.parent = inode[d]]
  <2>1. /\ inode[d] \in InodeRecord /\ inode[d].type = "dir" /\ DirFits(inode[d])
        /\ pc' = "inode_bitmap" /\ op' = o
    BY <1>1 DEF TypeOK, Create, Dirs
  <2>2. o \in Operation
    BY <2>1, NoOpOK DEF Operation
  <2>3. ControlOK'
    BY <1>1, <2>1, <2>2 DEF ControlOK, TypeOK, Create, Writing
  <2>4. StateOK'
    BY <1>1 DEF StateOK, TypeOK, Create, disk
  <2>5. LocalsOK'
    BY <1>1, <2>1 DEF LocalsOK, NoOp, Naming, Adding, Allocating, Filling
  <2>6. QED
    BY <2>3, <2>4, <2>5 DEF TypeOK, StateOK, ControlOK
<1>2. ASSUME NEW d \in Inode, NEW n \in Name, NEW k \in Sizes, WriteFile(d, n, k)
      PROVE  TypeInv'
  <2>1. PICK i \in Lookup(d, n) :
          /\ inode[i].type = "file" /\ inode[i].size <= k /\ k <= LargestFile
          /\ op' = [NoOp EXCEPT !.cmd = "write", !.ino = i, !.goal = k,
                                !.mine = inode[i], !.logical = inode[i].size]
    BY <1>2 DEF WriteFile
  <2>2. i \in Inode
    <3>1. d \in Dirs
      BY <1>2 DEF WriteFile
    <3>2. QED
      BY <3>1, <2>1, LookupType
  <2>3. k \in Int /\ 0 <= inode[i].size /\ inode[i] \in InodeRecord /\ inode[i].size \in Nat
    BY <1>2, <2>2, Records, Ext2Assumption DEF TypeOK, InodeRecord
  <2>4. op' \in Operation
    BY <2>1, <2>2, <2>3, NoOpOK DEF Operation
  <2>9. k \in 0 .. LargestFile
    BY <2>1, <2>3, Records
  <2>5. ControlOK'
    BY <1>2, <2>4 DEF ControlOK, TypeOK, WriteFile, disk
  <2>6. StateOK'
    BY <1>2 DEF StateOK, TypeOK, WriteFile, disk
  <2>7. LocalsOK'
    BY <1>2, <2>1, <2>2, <2>9 DEF WriteFile, LocalsOK, NoOp, Naming, Adding, Allocating, Filling
  <2>8. QED
    BY <2>5, <2>6, <2>7 DEF TypeOK, StateOK, ControlOK
<1>3. ASSUME NEW d \in Inode, NEW n \in Name, DeleteFile(d, n)
      PROVE  TypeInv'
  <2>1. PICK i \in Lookup(d, n) :
          op' = [NoOp EXCEPT !.cmd = "delete", !.dir = d, !.name = n, !.ino = i,
                             !.mine = inode[i], !.parent = inode[d]]
    BY <1>3 DEF DeleteFile
  <2>2. i \in Inode
    <3>1. d \in Dirs
      BY <1>3 DEF DeleteFile
    <3>2. QED
      BY <3>1, <2>1, LookupType
  <2>3. /\ inode[i] \in InodeRecord /\ inode[d] \in InodeRecord
        /\ inode[d].type = "dir" /\ DirFits(inode[d])
    BY <1>3, <2>2 DEF TypeOK, DeleteFile, Dirs
  <2>4. op' \in Operation
    BY <2>1, <2>2, <2>3, NoOpOK DEF Operation
  <2>5. ControlOK'
    BY <1>3, <2>4 DEF ControlOK, TypeOK, DeleteFile, disk, Writing
  <2>6. StateOK'
    BY <1>3 DEF StateOK, TypeOK, DeleteFile, disk
  <2>7. LocalsOK'
    BY <1>3, <2>1, <2>2, <2>3 DEF DeleteFile, LocalsOK, NoOp, Naming, Adding, Allocating, Filling
  <2>8. QED
    BY <2>5, <2>6, <2>7 DEF TypeOK, StateOK, ControlOK
<1>4. NoGoal \in Int /\ Sizes \subseteq Int
  BY Ext2Assumption DEF NoGoal
<1>5. QED
  BY <1>1, <1>2, <1>3, <1>4 DEF Request

\* The free counts mkfs writes are natural numbers.
LEMMA FreeInGroupType ==
  ASSUME NEW B \in SUBSET Block, NEW I \in SUBSET Inode
  PROVE  Cardinality(B) \in Nat /\ Cardinality(I) \in Nat
<1>1. IsFiniteSet(Block) /\ IsFiniteSet(Inode)
  BY FS_Interval, Ext2Assumption DEF Block, Inode
<1>2. IsFiniteSet(B) /\ IsFiniteSet(I)
  BY <1>1, FS_Subset
<1>3. QED
  BY <1>2, FS_CardinalityType

\* The image mkfs makes is well typed.
LEMMA InitType ==
  ASSUME Init
  PROVE  TypeInv
<1>1. bused \subseteq Block /\ iused \subseteq Inode
  BY Ext2Assumption DEF Init, Block
<1>2. /\ \A g \in Groups : FreeInGroup(g) \in GroupCounts
      /\ FreeInAll \in FreeCounts
  BY FreeInGroupType DEF FreeInGroup, FreeInAll, GroupCounts, FreeCounts
<1>3. gd \in [Groups -> GroupCounts] /\ sb \in FreeCounts /\ msb \in FreeCounts
  BY <1>2 DEF Init
<1>4. /\ 1 \in Ptr /\ DirFits(DirInode(1))
      /\ DirInode(1) \in InodeRecord /\ ZeroInode \in InodeRecord /\ ZeroInode.type = "none"
  <2>1. 1 \in Ptr
    BY Ext2Assumption DEF Ptr, Block
  <2>2. QED
    BY <2>1, DirInodeType, Records DEF Null, ZeroInode
<1>5. inode \in [Inode -> InodeRecord]
  BY <1>4 DEF Init
<1>6. \A i \in Inode : inode[i].type = "dir" => DirFits(inode[i])
  BY <1>4 DEF Init
<1>7. blk \in [Block -> BlockRecord]
  <2>1. Root \in Inode
    BY Ext2Assumption DEF Root, Inode
  <2>2. [ZeroBlock EXCEPT !.up = Root] \in BlockRecord
    BY <2>1, Records DEF BlockRecord
  <2>3. QED
    BY <2>2, Records DEF Init
<1>8. TypeOK
  BY <1>1, <1>3, <1>5, <1>6, <1>7, NoOpOK DEF Init, TypeOK
<1>9. LocalsOK
  BY DEF Init, LocalsOK, NoOp, Naming, Adding, Allocating, Filling
<1>10. QED
  BY <1>8, <1>9 DEF TypeInv

\* A step that changes nothing keeps the types.
LEMMA StutterType ==
  ASSUME TypeInv, UNCHANGED vars
  PROVE  TypeInv'
<1>1. TypeOK'
  BY DEF TypeInv, TypeOK, vars
<1>2. LocalsOK'
  BY DEF TypeInv, LocalsOK, vars
<1>3. QED
  BY <1>1, <1>2 DEF TypeInv

\* Every step of the driver keeps the types.
LEMMA StepType ==
  ASSUME TypeInv, Next
  PROVE  TypeInv'
<1>1. CASE Request
  BY <1>1, RequestType
<1>2. CASE Local
  BY <1>2, DiskFullType, InodesFullType, GrowDirectoryType, WriteAllocType, SetDirectType,
     NeedTableType, SkipNullType DEF Local
<1>3. ASSUME NEW ok \in BOOLEAN, Write(ok)
      PROVE  TypeInv'
  BY <1>3, AllocBlockBitmapType, AllocBlockDescType, AllocBlockSuperType, AllocBlockZeroType,
     AllocInodeBitmapType, AllocInodeDescType, AllocInodeSuperType, WriteDotsType,
     WriteNewInodeType, AddEntryType, NewDirBlockType, WriteParentType, SetIndirectType,
     LinkChildType, WriteDataType, WriteSizeType, RemoveEntryType, FreeBlockBitmapType,
     FreeBlockDescType, FreeBlockSuperType, ClearInodeType, FreeInodeBitmapType,
     FreeInodeDescType, FreeInodeSuperType DEF Write
<1>4. CASE Fault
  BY <1>3, <1>4, WriteLostType, CrashType DEF Fault
<1>5. CASE Mount
  BY <1>5, MountType
<1>6. QED
  BY <1>1, <1>2, <1>3, <1>4, <1>5 DEF Next

\* The strengthened type invariant: TypeOK with what the locals of the running
\* operation are at each step of it, which is what the steps rely on.
THEOREM TypeInvariant == Spec => []TypeInv
<1>1. Init => TypeInv
  BY InitType
<1>2. TypeInv /\ [Next]_vars => TypeInv'
  BY StepType, StutterType
<1>3. QED
  BY <1>1, <1>2, PTL DEF Spec

\* For every size of disk, group, inode and pointer table: pointers stay on the disk,
\* directories keep to their direct blocks and the free counts of a group never
\* go below zero, whatever writes fail and whenever power is lost.
THEOREM TypeCorrect == Spec => []TypeOK
<1>1. TypeInv => TypeOK
  BY DEF TypeInv
<1>2. QED
  BY <1>1, TypeInvariant, PTL

-----------------------------------------------------------------------------
(* Names and blocks.                                                       *)

\* What an inode's pointers reach in the blocks B: Refs as a function of both.
KidsIn(B, t) == IF t = Null THEN {} ELSE {B[t].table[k] : k \in 0 .. Pointers - 1} \ {Null}
TablesIn(B, rec) == ({rec.ind, rec.dbl} \cup KidsIn(B, rec.dbl)) \ {Null}
RefsIn(B, rec) ==
  ({rec.direct[l] : l \in 0 .. NDirect - 1} \cup TablesIn(B, rec)
     \cup UNION {KidsIn(B, t) : t \in TablesIn(B, rec)}) \ {Null}

DirBlocks(rec) == {rec.direct[l] : l \in 0 .. rec.size - 1}
EntryBlocks == UNION {DirBlocks(inode[d]) : d \in Dirs}
\* Inodes whose pointers count: those with a name, and directories that have none yet.
Owners == Named \cup Dirs
Held(i) == RefsIn(blk, inode[i])
\* In use, and reached from nowhere.
Fresh(b) == b \in bused /\ \A i \in Owners : b \notin Held(i)

\* What the disk keeps at every write.
InodesOK ==
  /\ Root \in Dirs
  /\ \A i \in Inode : inode[i].type = "dir" => i \in iused /\ inode[i].size > 0
  /\ \A i \in Named : i \in iused /\ inode[i].type \in {"file", "dir"}
BlocksOK ==
  /\ \A i \in Owners : Held(i) \subseteq bused
  /\ \A i, j \in Owners : i # j => Held(i) \cap Held(j) = {}
EntriesOK ==
  /\ \A b, c \in EntryBlocks : \A e \in blk[b].ents, f \in blk[c].ents :
       e.ino = f.ino => b = c /\ e = f
  /\ \A d \in Dirs : \A b, c \in DirBlocks(inode[d]) : \A e \in blk[b].ents, f \in blk[c].ents :
       e.name = f.name => e = f
  /\ \A d \in Dirs : \A b \in DirBlocks(inode[d]) : \A e \in blk[b].ents :
       e.ino # Root /\ (e.ino \in Dirs => blk[inode[e.ino].direct[0]].up = d)

\* The stages of a creation and of a deletion.
Creating == op.cmd \in {"create", "mkdir"}
BeforeNew == {"inode_desc", "inode_super", "write_dots", "write_new"}
Freed == Freeing \cup {"ifree_bitmap", "ifree_desc", "ifree_super"}
NewName(d) == \A b \in DirBlocks(inode[d]) : \A e \in blk[b].ents : e.name # op.name
StageOK ==
  /\ op.cmd = "none" <=> pc \in {"idle", "down"}
  /\ Creating <=> \/ pc \in {"inode_bitmap"} \cup BeforeNew \cup Adding
                  \/ pc \in Allocating /\ op.want \in {"newdir", "dirblock"}
  /\ op.cmd = "delete" <=> pc \in {"remove_entry"} \cup Freed

\* The directory grown in memory: it has one block more, which holds the new entry.
Grown ==
  /\ op.ino \notin Named /\ NewName(op.dir)
  /\ inode[op.dir].size < NDirect
  /\ op.parent = [inode[op.dir] EXCEPT !.direct[inode[op.dir].size] = op.phys, !.size = @ + 1]
  /\ op.phys \in Block /\ Fresh(op.phys) /\ blk[op.phys] = [ZeroBlock EXCEPT !.ents = {NewEntry}]

CreateOK ==
  Creating =>
    /\ op.dir \in Dirs
    /\ pc # "write_parent" => op.parent = inode[op.dir] /\ NewName(op.dir)
    /\ pc # "inode_bitmap" => op.ino \in iused /\ op.ino # op.dir /\ op.ino # Root
    /\ pc \notin {"inode_bitmap", "write_parent"} => op.ino \notin Named
    /\ pc \in BeforeNew \/ (pc \in Allocating /\ op.want = "newdir") => inode[op.ino].type # "dir"
    /\ pc \in Adding \/ (pc \in Allocating /\ op.want = "dirblock") =>
         IF op.cmd = "create" THEN inode[op.ino] = FileInode
         ELSE op.ino \in Dirs /\ blk[inode[op.ino].direct[0]].up = op.dir
    /\ pc \in {"write_dots", "new_dir_block"} \/ (pc = "write_new" /\ op.cmd = "mkdir") =>
         op.phys \in Block /\ Fresh(op.phys)
    /\ pc = "write_new" /\ op.cmd = "mkdir" => blk[op.phys] = [ZeroBlock EXCEPT !.up = op.dir]
    /\ pc = "write_parent" => (op.parent = inode[op.dir] /\ op.ino \in Named) \/ Grown

Untouched(b) == Fresh(b) /\ (op.cmd = "write" => b \notin RefsIn(blk, op.mine))
AllocOK ==
  pc \in {"block_desc", "block_super", "block_zero", "link_child"} =>
    /\ op.new \in Block /\ Untouched(op.new)
    /\ op.cmd = "write" => op.new # op.phys
    /\ pc = "link_child" => blk[op.new] = ZeroBlock

WriteOK ==
  op.cmd = "write" =>
    /\ op.ino \in Named /\ inode[op.ino].type = "file"
    /\ RefsIn(blk, op.mine) \subseteq bused
    /\ pc \in {"set_block", "link_child"} \cup Allocating => op.logical < op.goal
    /\ \A j \in Owners : j # op.ino => RefsIn(blk, op.mine) \cap Held(j) = {}
    /\ pc \in {"set_block", "link_child"} \/ (pc \in Allocating /\ op.want # "data") =>
         op.phys \in Block /\ Untouched(op.phys) /\ blk[op.phys] = ZeroBlock
    /\ pc = "write_alloc" \/ (pc \in Allocating /\ op.want = "data") => op.phys = Null

DeleteOK ==
  op.cmd = "delete" =>
    IF pc = "remove_entry"
      THEN /\ op.dir \in Dirs /\ op.parent = inode[op.dir] /\ op.mine = inode[op.ino]
           /\ op.ino \in Named /\ inode[op.ino].type = "file"
      ELSE /\ op.ino \notin Owners /\ inode[op.ino].type # "dir"
           /\ \A k \in 1 .. Len(op.todo), i \in Owners : op.todo[k] \notin Held(i)

DiskInv == InodesOK /\ BlocksOK /\ EntriesOK
OpInv == StageOK /\ CreateOK /\ AllocOK /\ WriteOK /\ DeleteOK
SafeInv == DiskInv /\ OpInv
-----------------------------------------------------------------------------
(* What pointers reach.                                                    *)

\* RefsIn is Refs.
LEMMA RefsAsIn == \A rec : Refs(rec) = RefsIn(blk, rec)
  BY DEF Refs, Tables, Kids, RefsIn, TablesIn, KidsIn

\* Blocks whose tables are cleared reach less.
LEMMA RefsShrink ==
  ASSUME NEW B, NEW C, NEW rec,
         \A t \in RefsIn(B, rec) : C[t].table = B[t].table \/ C[t].table = ZeroTable
  PROVE  RefsIn(C, rec) \subseteq RefsIn(B, rec)
<1>1. ASSUME NEW t \in RefsIn(B, rec) \cup {Null}
      PROVE  KidsIn(C, t) \subseteq KidsIn(B, t)
  BY <1>1 DEF KidsIn, ZeroTable
<1>2. TablesIn(B, rec) \subseteq RefsIn(B, rec) /\ rec.dbl \in RefsIn(B, rec) \cup {Null}
  BY DEF RefsIn, TablesIn
<1>3. TablesIn(C, rec) \subseteq TablesIn(B, rec)
  BY <1>1, <1>2 DEF TablesIn
<1>4. ASSUME NEW t \in TablesIn(C, rec)
      PROVE  KidsIn(C, t) \subseteq KidsIn(B, t)
  BY <1>1, <1>2, <1>3
<1>5. QED
  BY <1>3, <1>4 DEF RefsIn

\* A pointer stored to a block without pointers reaches that block alone.
LEMMA RefsPut ==
  ASSUME NEW B \in [Block -> BlockRecord], NEW t \in Block, NEW k \in 0 .. Pointers - 1,
         NEW p \in Block, B[p].table = ZeroTable, NEW rec \in InodeRecord
  PROVE  RefsIn([B EXCEPT ![t].table[k] = p], rec) \subseteq RefsIn(B, rec) \cup {p}
<1> DEFINE C == [B EXCEPT ![t].table[k] = p]
<1>0. \A b \in Block : B[b].table \in [0 .. Pointers - 1 -> Ptr] /\ B[b] \in BlockRecord
  BY DEF BlockRecord
<1>1. \A b \in Block : C[b].table = IF b = t THEN [B[b].table EXCEPT ![k] = p] ELSE B[b].table
  BY <1>0 DEF BlockRecord
<1>2. ASSUME NEW b \in Block
      PROVE  KidsIn(C, b) \subseteq KidsIn(B, b) \cup {p}
  BY <1>0, <1>1 DEF KidsIn
<1>3. KidsIn(C, p) \subseteq {p}
  <2>1. KidsIn(B, p) = {}
    BY DEF KidsIn, ZeroTable
  <2>2. QED
    BY <1>2, <2>1
<1>4. \A b \in Block : KidsIn(B, b) \subseteq Block
  BY <1>0 DEF KidsIn, Ptr
<1>5. rec.ind \in Block \cup {Null} /\ rec.dbl \in Block \cup {Null}
  BY DEF InodeRecord, Ptr
<1> HIDE DEF C
<1>6. TablesIn(C, rec) \subseteq TablesIn(B, rec) \cup {p}
  <2>1. KidsIn(C, rec.dbl) \subseteq KidsIn(B, rec.dbl) \cup {p}
    BY <1>2, <1>5 DEF KidsIn
  <2>2. QED
    BY <2>1 DEF TablesIn
<1>7. TablesIn(B, rec) \subseteq Block
  BY <1>4, <1>5 DEF TablesIn, KidsIn
<1> DEFINE U == UNION {KidsIn(B, x) : x \in TablesIn(B, rec)}
<1>8. \A x \in TablesIn(B, rec) : KidsIn(B, x) \subseteq U
  OBVIOUS
<1>9. U \cup TablesIn(B, rec) \cup {rec.direct[l] : l \in 0 .. NDirect - 1}
        \subseteq RefsIn(B, rec) \cup {Null}
  BY DEF RefsIn
<1> HIDE DEF U
<1>11. ASSUME NEW b \in TablesIn(C, rec)
       PROVE  KidsIn(C, b) \subseteq U \cup {p}
  <2>1. CASE b = p
    BY <2>1, <1>3
  <2>2. CASE b \in TablesIn(B, rec)
    BY <1>2, <1>7, <1>8, <2>2
  <2>3. QED
    BY <2>1, <2>2, <1>6
<1>12. UNION {KidsIn(C, b) : b \in TablesIn(C, rec)} \subseteq U \cup {p}
  BY <1>11
<1>13. RefsIn(C, rec) \subseteq RefsIn(B, rec) \cup {p}
  BY <1>6, <1>9, <1>12 DEF RefsIn
<1>10. QED
  BY <1>13 DEF C

\* What is reached is a block.
LEMMA RefsType ==
  ASSUME NEW B \in [Block -> BlockRecord], NEW rec \in InodeRecord
  PROVE  RefsIn(B, rec) \subseteq Block
<1>0. \A b \in Block : B[b].table \in [0 .. Pointers - 1 -> Ptr]
  BY DEF BlockRecord
<1>1. \A b \in Block : KidsIn(B, b) \subseteq Block
  BY <1>0 DEF KidsIn, Ptr
<1>2. rec.ind \in Block \cup {Null} /\ rec.dbl \in Block \cup {Null}
  BY DEF InodeRecord, Ptr
<1>3. TablesIn(B, rec) \subseteq Block
  BY <1>1, <1>2 DEF TablesIn, KidsIn
<1>4. \A l \in 0 .. NDirect - 1 : rec.direct[l] \in Block \cup {Null}
  BY DEF InodeRecord, Ptr
<1>5. QED
  BY <1>1, <1>3, <1>4 DEF RefsIn

\* Inodes with the same pointers reach the same.
LEMMA RefsSame ==
  ASSUME NEW B, NEW r, NEW s, r.direct = s.direct, r.ind = s.ind, r.dbl = s.dbl
  PROVE  RefsIn(B, r) = RefsIn(B, s)
  BY DEF RefsIn, TablesIn
-----------------------------------------------------------------------------
(* What a step leaves of the names.                                        *)

\* A name is an entry in one of the blocks of the directories.
LEMMA NamedByBlocks ==
  /\ \A i : i \in Named <=> i = Root \/ \E b \in EntryBlocks : \E e \in blk[b].ents : i = e.ino
  /\ (\A i : i \in Named <=> i = Root \/ \E b \in EntryBlocks : \E e \in blk[b].ents : i = e.ino)'
<1>1. \A i : i \in Named <=> i = Root \/ \E b \in EntryBlocks : \E e \in blk[b].ents : i = e.ino
  BY DEF Named, EntryBlocks, Entries, DirBlocks
<1>2. (\A i : i \in Named <=> i = Root \/ \E b \in EntryBlocks : \E e \in blk[b].ents : i = e.ino)'
  BY DEF Named, EntryBlocks, Entries, DirBlocks
<1>3. QED
  BY <1>1, <1>2

\* A directory's blocks are among those its pointers reach.
LEMMA EntryBlocksType ==
  ASSUME TypeOK
  PROVE  /\ \A d \in Dirs : DirBlocks(inode[d]) \subseteq Held(d) /\ d \in Inode
         /\ EntryBlocks \subseteq Block
         /\ \A d \in Dirs : DirBlocks(inode[d]) \subseteq EntryBlocks
         /\ \A b \in EntryBlocks : \E d \in Dirs : b \in DirBlocks(inode[d]) /\ b \in Held(d)
<1>1. ASSUME NEW d \in Dirs
      PROVE  DirBlocks(inode[d]) \subseteq Held(d) /\ DirBlocks(inode[d]) \subseteq Block
  <2>1. d \in Inode /\ inode[d] \in InodeRecord /\ DirFits(inode[d])
    BY DEF Dirs, TypeOK
  <2>2. \A l \in 0 .. inode[d].size - 1 :
          l \in 0 .. NDirect - 1 /\ inode[d].direct[l] # Null /\ inode[d].direct[l] \in Ptr
    <3>1. ASSUME NEW l \in 0 .. inode[d].size - 1 PROVE l \in 0 .. NDirect - 1
      BY <2>1, Ext2Assumption, Records DEF DirFits, InodeRecord
    <3>2. QED
      BY <2>1, <3>1 DEF DirFits, InodeRecord
  <2>3. QED
    BY <2>2 DEF DirBlocks, Held, RefsIn, Ptr
<1>2. \A d \in Dirs : d \in Inode
  BY DEF Dirs, TypeOK
<1>3. QED
  BY <1>1, <1>2 DEF EntryBlocks

\* When directories keep their blocks, and those their entries, names are as before.
LEMMA NamesStay ==
  ASSUME Dirs' = Dirs,
         \A d \in Dirs : inode'[d].direct = inode[d].direct /\ inode'[d].size = inode[d].size,
         \A b \in EntryBlocks : blk'[b].ents = blk[b].ents
  PROVE  Named' = Named /\ Owners' = Owners /\ EntryBlocks' = EntryBlocks
<1>1. \A d \in Dirs : DirBlocks(inode'[d]) = DirBlocks(inode[d])
  BY DEF DirBlocks
<1>2. EntryBlocks' = EntryBlocks
  BY <1>1 DEF EntryBlocks
<1>3. \A i : i \in Named' <=> i \in Named
  BY <1>2, NamedByBlocks
<1>4. Named' = Named
  BY <1>3
<1>5. QED
  BY <1>2, <1>4 DEF Owners

\* ... and what the disk keeps is kept, when no owner reaches more than before.
LEMMA DiskStays ==
  ASSUME TypeOK, InodesOK, BlocksOK, EntriesOK, Dirs' = Dirs,
         \A d \in Dirs : inode'[d].direct = inode[d].direct /\ inode'[d].size = inode[d].size,
         \A b \in EntryBlocks : blk'[b].ents = blk[b].ents /\ blk'[b].up = blk[b].up,
         \A i \in Owners : Held(i)' \subseteq Held(i) /\ Held(i)' \subseteq bused'
  PROVE  BlocksOK' /\ EntriesOK' /\ Named' = Named /\ Owners' = Owners /\ EntryBlocks' = EntryBlocks
<1>1. Named' = Named /\ Owners' = Owners /\ EntryBlocks' = EntryBlocks
  BY NamesStay
<1>2. BlocksOK'
  BY <1>1 DEF BlocksOK
<1>3. \A d \in Dirs : DirBlocks(inode'[d]) = DirBlocks(inode[d]) /\ DirBlocks(inode[d]) \subseteq EntryBlocks
  BY EntryBlocksType DEF DirBlocks
<1>4. \A d \in Dirs : inode[d].direct[0] \in EntryBlocks
  BY <1>3, Ext2Assumption DEF InodesOK, Dirs, DirBlocks, TypeOK, InodeRecord
<1>5. EntriesOK'
  BY <1>1, <1>3, <1>4 DEF EntriesOK
<1>6. QED
  BY <1>1, <1>2, <1>5
-----------------------------------------------------------------------------
(* Steps in general.                                                       *)

\* A pointer set in an inode reaches the block it names, if that has no pointers.
LEMMA RefsSet ==
  ASSUME NEW B \in [Block -> BlockRecord], NEW p \in Block, B[p].table = ZeroTable,
         NEW rec \in InodeRecord
  PROVE  /\ \A l : RefsIn(B, [rec EXCEPT !.direct[l] = p]) \subseteq RefsIn(B, rec) \cup {p}
         /\ RefsIn(B, [rec EXCEPT !.ind = p]) \subseteq RefsIn(B, rec) \cup {p}
         /\ RefsIn(B, [rec EXCEPT !.dbl = p]) \subseteq RefsIn(B, rec) \cup {p}
<1>1. KidsIn(B, p) = {}
  BY DEF KidsIn, ZeroTable
<1>2. ASSUME NEW l
      PROVE  RefsIn(B, [rec EXCEPT !.direct[l] = p]) \subseteq RefsIn(B, rec) \cup {p}
  <2> DEFINE r == [rec EXCEPT !.direct[l] = p]
  <2>1. r.ind = rec.ind /\ r.dbl = rec.dbl
    BY DEF InodeRecord
  <2>2. \A m \in 0 .. NDirect - 1 : r.direct[m] \in {rec.direct[m], p}
    BY DEF InodeRecord
  <2> HIDE DEF r
  <2>3. TablesIn(B, r) = TablesIn(B, rec)
    BY <2>1 DEF TablesIn
  <2>4. RefsIn(B, r) \subseteq RefsIn(B, rec) \cup {p}
    BY <2>2, <2>3 DEF RefsIn
  <2>5. QED
    BY <2>4 DEF r
<1>3. ASSUME NEW r, r.direct = rec.direct,
             (r.ind = p /\ r.dbl = rec.dbl) \/ (r.ind = rec.ind /\ r.dbl = p)
      PROVE  RefsIn(B, r) \subseteq RefsIn(B, rec) \cup {p}
  <2>1. TablesIn(B, r) \subseteq TablesIn(B, rec) \cup {p}
    BY <1>1, <1>3 DEF TablesIn
  <2>2. \A t \in TablesIn(B, r) : KidsIn(B, t) # {} => t \in TablesIn(B, rec)
    BY <1>1, <2>1
  <2> DEFINE U == UNION {KidsIn(B, t) : t \in TablesIn(B, rec)}
  <2>3. \A t \in TablesIn(B, rec) : KidsIn(B, t) \subseteq U
    OBVIOUS
  <2>4. U \cup TablesIn(B, rec) \cup {rec.direct[l] : l \in 0 .. NDirect - 1}
          \subseteq RefsIn(B, rec) \cup {Null}
    BY DEF RefsIn
  <2> HIDE DEF U
  <2>5. \A t \in TablesIn(B, r) : KidsIn(B, t) \subseteq U
    BY <2>2, <2>3
  <2>6. UNION {KidsIn(B, t) : t \in TablesIn(B, r)} \subseteq U
    BY <2>5
  <2>7. QED
    BY <1>3, <2>1, <2>4, <2>6 DEF RefsIn
<1>4. RefsIn(B, [rec EXCEPT !.ind = p]) \subseteq RefsIn(B, rec) \cup {p}
  <2> DEFINE r == [rec EXCEPT !.ind = p]
  <2>1. r.direct = rec.direct /\ r.ind = p /\ r.dbl = rec.dbl
    BY DEF InodeRecord
  <2> HIDE DEF r
  <2>2. RefsIn(B, r) \subseteq RefsIn(B, rec) \cup {p}
    BY <1>3, <2>1
  <2>3. QED
    BY <2>2 DEF r
<1>5. RefsIn(B, [rec EXCEPT !.dbl = p]) \subseteq RefsIn(B, rec) \cup {p}
  <2> DEFINE r == [rec EXCEPT !.dbl = p]
  <2>1. r.direct = rec.direct /\ r.ind = rec.ind /\ r.dbl = p
    BY DEF InodeRecord
  <2> HIDE DEF r
  <2>2. RefsIn(B, r) \subseteq RefsIn(B, rec) \cup {p}
    BY <1>3, <2>1
  <2>3. QED
    BY <2>2 DEF r
<1>6. QED
  BY <1>2, <1>4, <1>5

\* A step that leaves the inodes and the blocks and may mark more in use.
LEMMA SilentDisk ==
  ASSUME TypeOK, DiskInv, inode' = inode, blk' = blk, iused' = iused, bused \subseteq bused'
  PROVE  /\ DiskInv' /\ Dirs' = Dirs /\ Named' = Named /\ Owners' = Owners
         /\ \A b : Fresh(b) => Fresh(b)'
<1>1. Dirs' = Dirs /\ \A i : Held(i)' = Held(i)
  BY DEF Dirs, Held
<1>2. \A i \in Owners : Held(i)' \subseteq Held(i) /\ Held(i)' \subseteq bused'
  BY <1>1 DEF DiskInv, BlocksOK
<1>3. BlocksOK' /\ EntriesOK' /\ Named' = Named /\ Owners' = Owners
  BY <1>1, <1>2, DiskStays DEF DiskInv
<1>4. InodesOK'
  BY <1>1, <1>3 DEF InodesOK, DiskInv
<1>5. QED
  BY <1>1, <1>2, <1>3, <1>4 DEF DiskInv, Fresh

\* An operation that returned, or was cut off, promises nothing more.
LEMMA EndOp ==
  ASSUME pc' \in {"idle", "down"}, op' = NoOp
  PROVE  OpInv'
  BY DEF NoOp, OpInv, StageOK, CreateOK, AllocOK, WriteOK, DeleteOK, Creating, BeforeNew, Adding,
     Allocating, Freed, Freeing

\* An operation that ends keeps nothing.
LEMMA FinishOp == ASSUME Finish PROVE OpInv'
  BY EndOp DEF Finish

-----------------------------------------------------------------------------
(* The steps of allocate_block and allocate_inode.                         *)

\* What an operation knows of names and blocks it keeps when neither changes.
LEMMA SilentKnowledge ==
  ASSUME TypeOK, DiskInv, inode' = inode, blk' = blk, iused' = iused, bused \subseteq bused',
         op'.mine = op.mine, op'.cmd = op.cmd, op'.name = op.name, op'.ino = op.ino
  PROVE  /\ \A d : NewName(d)' = NewName(d)
         /\ \A b : Untouched(b) => Untouched(b)'
         /\ NewEntry' = NewEntry
  BY SilentDisk DEF NewName, Untouched, DirBlocks, NewEntry

\* allocate_block takes a block that nothing reaches: what is reached is marked in use.
LEMMA AllocBlockBitmapSafe ==
  ASSUME TypeInv, SafeInv, NEW ok \in BOOLEAN, AllocBlockBitmap(ok)
  PROVE  SafeInv'
<1>0. TypeOK /\ DiskInv /\ OpInv
  BY DEF TypeInv, SafeInv
<1>1. PICK b \in Block :
        /\ b \notin bused /\ bused' = bused \cup {b}
        /\ Proceed(ok, "block_desc", [op EXCEPT !.new = b])
  BY DEF AllocBlockBitmap, FirstFreeBlock, FreeBlocks
<1>2. inode' = inode /\ blk' = blk /\ iused' = iused /\ bused \subseteq bused'
  BY <1>1 DEF AllocBlockBitmap
<1>3. /\ DiskInv' /\ Dirs' = Dirs /\ Named' = Named /\ Owners' = Owners
      /\ \A c : Fresh(c) => Fresh(c)'
  BY <1>0, <1>2, SilentDisk
<1>4. CASE ~ok
  BY <1>1, <1>3, <1>4, FinishOp DEF Proceed, SafeInv
<1>5. CASE ok
  <2>1. /\ pc = "block_bitmap" /\ pc' = "block_desc" /\ op \in Operation
        /\ op' = [op EXCEPT !.new = b]
    BY <1>0, <1>1, <1>5 DEF AllocBlockBitmap, Proceed, TypeOK
  <2>2. /\ op'.cmd = op.cmd /\ op'.dir = op.dir /\ op'.name = op.name /\ op'.ino = op.ino
        /\ op'.parent = op.parent /\ op'.mine = op.mine /\ op'.want = op.want
        /\ op'.phys = op.phys /\ op'.new = b /\ op'.logical = op.logical /\ op'.goal = op.goal
    BY <2>1 DEF Operation
  <2>3. /\ \A d : NewName(d)' = NewName(d)
        /\ \A c : Untouched(c) => Untouched(c)'
    BY <1>0, <1>2, <2>2, SilentKnowledge
  <2>4. b \notin bused /\ (op.cmd = "write" => op.phys # b)
    BY <1>0, <1>1, <2>1, NotNull DEF OpInv, WriteOK, Untouched, Fresh, Allocating
  <2>5. Fresh(b)' /\ (op.cmd = "write" => b \notin RefsIn(blk, op.mine))
    <3>1. \A i \in Owners : b \notin Held(i)
      BY <1>0, <2>4 DEF DiskInv, BlocksOK
    <3>2. b \in bused' /\ \A i \in Owners : Held(i)' = Held(i)
      BY <1>1, <1>2 DEF Held
    <3>3. op.cmd = "write" => b \notin RefsIn(blk, op.mine)
      BY <1>0, <2>4 DEF OpInv, WriteOK
    <3>4. QED
      BY <1>3, <3>1, <3>2, <3>3 DEF Fresh
  <2>6. AllocOK'
    BY <1>2, <2>1, <2>2, <2>4, <2>5 DEF AllocOK, Untouched
  <2>7. StageOK'
    BY <1>0, <2>1, <2>2 DEF OpInv, StageOK, Creating, BeforeNew, Adding, Allocating, Freed, Freeing
  <2>8. CreateOK'
    BY <1>0, <1>2, <1>3, <2>1, <2>2, <2>3
       DEF OpInv, CreateOK, Creating, BeforeNew, Adding, Allocating
  <2>9. WriteOK'
    BY <1>0, <1>2, <1>3, <2>1, <2>2, <2>3 DEF OpInv, WriteOK, Allocating, Held
  <2>10. DeleteOK'
    BY <1>0, <2>1, <2>2 DEF OpInv, StageOK, DeleteOK, Freed, Freeing
  <2>11. QED
    BY <1>3, <2>6, <2>7, <2>8, <2>9, <2>10 DEF SafeInv, OpInv
<1>6. QED
  BY <1>4, <1>5

\* A step that leaves inodes and blocks alone and ends the operation.
LEMMA SilentEnd ==
  ASSUME TypeInv, SafeInv, inode' = inode, blk' = blk, iused' = iused, bused \subseteq bused',
         pc' \in {"idle", "down"}, op' = NoOp
  PROVE  SafeInv'
  BY SilentDisk, EndOp DEF TypeInv, SafeInv

\* The bookkeeping between the writes that change what is named or reached.
Silently ==
  \/ <<pc, pc'>> \in {<<"block_desc", "block_super">>, <<"block_super", "block_zero">>,
                      <<"inode_desc", "inode_super">>, <<"free_desc", "free_super">>,
                      <<"ifree_desc", "ifree_super">>} /\ op'.want = op.want
  \/ pc = "inode_super" /\ op.cmd = "create" /\ pc' = "write_new"
  \/ pc = "inode_super" /\ op.cmd = "mkdir" /\ pc' = "block_bitmap" /\ op'.want = "newdir"
  \/ pc = "add_entry" /\ pc' = "block_bitmap" /\ op'.want = "dirblock"
  \/ pc = "write_alloc" /\ pc' = "block_bitmap" /\ op'.want = "data" /\ op.logical < op.goal
  \/ pc = "set_block" /\ pc' = "block_bitmap" /\ op'.want \in {"indirect", "double", "child"}
  \/ pc = "write_alloc" /\ pc' = "write_data"

\* A step that leaves names, pointers and bitmaps alone keeps what they keep.
LEMMA SilentMove ==
  ASSUME TypeInv, SafeInv, inode' = inode, blk' = blk, iused' = iused, bused' = bused,
         op'.cmd = op.cmd, op'.dir = op.dir, op'.name = op.name, op'.ino = op.ino,
         op'.parent = op.parent, op'.mine = op.mine, op'.phys = op.phys, op'.new = op.new,
         op'.todo = op.todo, op'.goal = op.goal,
         pc' # "write_data" => op'.logical = op.logical, Silently
  PROVE  SafeInv'
<1>0. TypeOK /\ DiskInv /\ OpInv /\ bused \subseteq bused'
  BY DEF TypeInv, SafeInv
<1>1. /\ DiskInv' /\ Dirs' = Dirs /\ Named' = Named /\ Owners' = Owners
      /\ \A c : Fresh(c) => Fresh(c)'
  BY <1>0, SilentDisk
<1>2. /\ \A d : NewName(d)' = NewName(d)
      /\ \A c : Untouched(c) => Untouched(c)'
  BY <1>0, SilentKnowledge
<1>3. AllocOK'
  BY <1>0, <1>1, <1>2 DEF OpInv, AllocOK, Silently
<1>4. StageOK'
  BY <1>0 DEF OpInv, StageOK, Creating, BeforeNew, Adding, Allocating, Freed, Freeing,
     Silently, TypeInv, LocalsOK, Naming, Filling
<1>5. CreateOK'
  BY <1>0, <1>1, <1>2 DEF OpInv, StageOK, CreateOK, Creating, BeforeNew, Adding, Allocating, Silently
<1>6. WriteOK'
  BY <1>0, <1>1, <1>2 DEF OpInv, WriteOK, Allocating, Held, Silently, StageOK, Creating,
     BeforeNew, Adding
<1>7. DeleteOK'
  BY <1>0, <1>1 DEF OpInv, StageOK, DeleteOK, Freed, Freeing, Held, Silently, Creating,
     BeforeNew, Adding, Allocating
<1>8. QED
  BY <1>1, <1>3, <1>4, <1>5, <1>6, <1>7 DEF SafeInv, OpInv

\* The counts of a group and of the superblock are no part of the invariant.
LEMMA AllocBlockDescSafe ==
  ASSUME TypeInv, SafeInv, NEW ok \in BOOLEAN, AllocBlockDesc(ok)
  PROVE  SafeInv'
<1>1. CASE ok
  BY <1>1, SilentMove DEF AllocBlockDesc, Proceed, Silently
<1>2. CASE ~ok
  BY <1>2, SilentEnd DEF AllocBlockDesc, Proceed, Finish
<1>3. QED
  BY <1>1, <1>2

\* ... nor is the superblock written after a block is taken,
LEMMA AllocBlockSuperSafe ==
  ASSUME TypeInv, SafeInv, NEW ok \in BOOLEAN, AllocBlockSuper(ok)
  PROVE  SafeInv'
<1>1. CASE ok
  BY <1>1, SilentMove DEF AllocBlockSuper, Proceed, Silently
<1>2. CASE ~ok
  BY <1>2, SilentEnd DEF AllocBlockSuper, Proceed, Finish
<1>3. QED
  BY <1>1, <1>2

\* nor the group of an inode that is taken,
LEMMA AllocInodeDescSafe ==
  ASSUME TypeInv, SafeInv, NEW ok \in BOOLEAN, AllocInodeDesc(ok)
  PROVE  SafeInv'
<1>1. CASE ok
  BY <1>1, SilentMove DEF AllocInodeDesc, Proceed, Silently
<1>2. CASE ~ok
  BY <1>2, SilentEnd DEF AllocInodeDesc, Proceed, Finish
<1>3. QED
  BY <1>1, <1>2

\* nor the superblock written after it.
LEMMA AllocInodeSuperSafe ==
  ASSUME TypeInv, SafeInv, NEW ok \in BOOLEAN, AllocInodeSuper(ok)
  PROVE  SafeInv'
<1>1. CASE ok
  <2>1. op \in Operation /\ op.cmd \in {"create", "mkdir"}
    BY DEF TypeInv, TypeOK, LocalsOK, AllocInodeSuper
  <2>2. CASE op.cmd = "mkdir"
    <3>1. op' = [op EXCEPT !.want = "newdir"] /\ pc' = "block_bitmap"
      BY <1>1, <2>2 DEF AllocInodeSuper, Proceed
    <3>2. /\ op'.cmd = op.cmd /\ op'.dir = op.dir /\ op'.name = op.name /\ op'.ino = op.ino
          /\ op'.parent = op.parent /\ op'.mine = op.mine /\ op'.phys = op.phys
          /\ op'.new = op.new /\ op'.todo = op.todo /\ op'.want = "newdir"
          /\ op'.goal = op.goal /\ op'.logical = op.logical
      BY <2>1, <3>1 DEF Operation
    <3>3. QED
      BY <2>2, <3>1, <3>2, SilentMove DEF AllocInodeSuper, Silently
  <2>3. CASE op.cmd = "create"
    BY <1>1, <2>3, SilentMove DEF AllocInodeSuper, Proceed, Silently
  <2>4. QED
    BY <2>1, <2>2, <2>3
<1>2. CASE ~ok
  BY <1>2, SilentEnd DEF AllocInodeSuper, Proceed, Finish
<1>3. QED
  BY <1>1, <1>2

\* The steps in memory that end the operation or look for the next block.
LEMMA LocalSafe ==
  ASSUME TypeInv, SafeInv, DiskFull \/ InodesFull \/ GrowDirectory \/ WriteAlloc \/ NeedTable
  PROVE  SafeInv'
<1>0. op \in Operation
  BY DEF TypeInv, TypeOK
<1>1. CASE DiskFull
  BY <1>1, SilentEnd DEF DiskFull, Finish, disk
<1>2. CASE InodesFull
  BY <1>2, SilentEnd DEF InodesFull, Finish, disk
<1>3. ASSUME NEW w, op' = [op EXCEPT !.want = w]
      PROVE  /\ op'.cmd = op.cmd /\ op'.dir = op.dir /\ op'.name = op.name /\ op'.ino = op.ino
             /\ op'.parent = op.parent /\ op'.mine = op.mine /\ op'.phys = op.phys
             /\ op'.new = op.new /\ op'.todo = op.todo /\ op'.want = w
             /\ op'.goal = op.goal /\ op'.logical = op.logical
  BY <1>0, <1>3 DEF Operation
<1>4. CASE GrowDirectory
  <2>1. CASE op.parent.size < NDirect
    BY <1>3, <1>4, <2>1, SilentMove DEF GrowDirectory, disk, Silently
  <2>2. CASE ~(op.parent.size < NDirect)
    BY <1>4, <2>2, SilentEnd DEF GrowDirectory, Finish, disk
  <2>3. QED
    BY <2>1, <2>2
<1>5. CASE WriteAlloc
  <2>1. CASE op.logical < op.goal
    BY <1>3, <1>5, <2>1, SilentMove DEF WriteAlloc, disk, Silently
  <2>2. CASE ~(op.logical < op.goal)
    <3>1. op' = [op EXCEPT !.logical = 0]
      BY <1>5, <2>2 DEF WriteAlloc
    <3>2. /\ op'.cmd = op.cmd /\ op'.dir = op.dir /\ op'.name = op.name /\ op'.ino = op.ino
          /\ op'.parent = op.parent /\ op'.mine = op.mine /\ op'.phys = op.phys
          /\ op'.new = op.new /\ op'.todo = op.todo /\ op'.goal = op.goal
      BY <1>0, <3>1 DEF Operation
    <3>3. QED
      BY <1>5, <2>2, <3>2, SilentMove DEF WriteAlloc, disk, Silently
  <2>3. QED
    BY <2>1, <2>2
<1>6. CASE NeedTable
  <2>1. MissingTable \in {"indirect", "double", "child"}
    BY <1>6 DEF NeedTable, MissingTable
  <2>2. QED
    BY <1>3, <1>6, <2>1, SilentMove DEF NeedTable, disk, Silently
<1>7. QED
  BY <1>1, <1>2, <1>4, <1>5, <1>6
-----------------------------------------------------------------------------
(* The steps of a deletion after the name is gone.                         *)

\* Names and pointers depend on inodes, blocks and the inode bitmap alone.
LEMMA Unmoved ==
  ASSUME inode' = inode, blk' = blk, iused' = iused
  PROVE  /\ Dirs' = Dirs /\ Named' = Named /\ Owners' = Owners /\ EntryBlocks' = EntryBlocks
         /\ \A i : Held(i)' = Held(i)
<1>1. Dirs' = Dirs /\ \A i : Held(i)' = Held(i)
  BY DEF Dirs, Held
<1>2. QED
  BY <1>1, NamesStay

\* The blocks left to free belong to no name, and neither do those after the next.
LEMMA FreeingKeeps ==
  ASSUME TypeInv, SafeInv, inode' = inode, blk' = blk, iused' = iused, pc \in Freeing,
         op.todo # <<>>, NextFree \/ (op' = op /\ pc' \in {"free_desc", "free_super"})
  PROVE  OpInv'
<1>0. op \in Operation /\ op.cmd = "delete" /\ OpInv /\ op.todo \in Seq(Ptr)
  BY DEF TypeInv, TypeOK, Operation, SafeInv, OpInv, StageOK, Freed
<1>1. op'.cmd = op.cmd /\ op'.ino = op.ino /\ pc' \in Freeing
  BY <1>0 DEF NextFree, Operation, Freeing
<1>2. \A k \in 1 .. Len(op'.todo) : \E m \in 1 .. Len(op.todo) : op'.todo[k] = op.todo[m]
  <2>1. CASE NextFree
    <3>1. op'.todo = Tail(op.todo)
      BY <1>0, <2>1 DEF NextFree, Operation
    <3>2. Len(op'.todo) = Len(op.todo) - 1 /\ Len(op.todo) \in Nat
      BY <1>0, <3>1
    <3>3. \A k \in 1 .. Len(op.todo) - 1 : Tail(op.todo)[k] = op.todo[k + 1]
      BY <1>0
    <3>4. QED
      BY <3>1, <3>2, <3>3
  <2>2. QED
    BY <2>1
<1>3. /\ Owners' = Owners /\ \A i : Held(i)' = Held(i)
  BY Unmoved
<1>4. DeleteOK'
  BY <1>0, <1>1, <1>2, <1>3 DEF OpInv, DeleteOK, Freeing
<1>5. QED
  BY <1>0, <1>1, <1>4 DEF OpInv, StageOK, CreateOK, AllocOK, WriteOK, Creating, BeforeNew,
     Adding, Allocating, Freed, Freeing

\* free_block frees a block of a file without a name, which no owner reaches.
LEMMA FreeBlockBitmapSafe ==
  ASSUME TypeInv, SafeInv, NEW ok \in BOOLEAN, FreeBlockBitmap(ok)
  PROVE  SafeInv'
<1>0. /\ TypeOK /\ DiskInv /\ inode' = inode /\ blk' = blk /\ iused' = iused
      /\ bused' = bused \ {Victim} /\ pc = "free_bitmap" /\ op.todo # <<>>
  BY DEF TypeInv, SafeInv, FreeBlockBitmap
<1>1. OpInv'
  BY <1>0, FreeingKeeps DEF FreeBlockBitmap, Freeing
<1>2. /\ Dirs' = Dirs /\ Named' = Named /\ Owners' = Owners /\ \A i : Held(i)' = Held(i)
  BY <1>0, Unmoved
<1>3. \A i \in Owners : Victim \notin Held(i)
  <2>1. op.todo \in Seq(Ptr) /\ op.cmd = "delete"
    BY <1>0 DEF TypeOK, Operation, SafeInv, OpInv, StageOK, Freed, Freeing
  <2>2. Victim = op.todo[1] /\ 1 \in 1 .. Len(op.todo)
    BY <1>0, <2>1 DEF Victim
  <2>3. QED
    BY <1>0, <2>1, <2>2 DEF SafeInv, OpInv, DeleteOK
<1>4. \A i \in Owners : Held(i)' \subseteq Held(i) /\ Held(i)' \subseteq bused'
  BY <1>0, <1>2, <1>3 DEF DiskInv, BlocksOK
<1>5. BlocksOK' /\ EntriesOK'
  BY <1>0, <1>2, <1>4, DiskStays DEF DiskInv
<1>6. InodesOK'
  BY <1>0, <1>2 DEF InodesOK, DiskInv
<1>7. QED
  BY <1>1, <1>5, <1>6 DEF SafeInv, DiskInv

\* ... and the steps that write only the counts.
LEMMA FreeBlockCountsSafe ==
  ASSUME TypeInv, SafeInv, NEW ok \in BOOLEAN, FreeBlockDesc(ok) \/ FreeBlockSuper(ok) \/ SkipNull
  PROVE  SafeInv'
<1>0. /\ TypeOK /\ DiskInv /\ inode' = inode /\ blk' = blk /\ iused' = iused /\ bused' = bused
      /\ pc \in Freeing /\ op.todo # <<>>
  BY DEF TypeInv, LocalsOK, SafeInv, FreeBlockDesc, FreeBlockSuper, SkipNull, Freeing, disk
<1>1. OpInv'
  BY <1>0, FreeingKeeps DEF FreeBlockDesc, FreeBlockSuper, SkipNull
<1>2. DiskInv'
  BY <1>0, SilentDisk
<1>3. QED
  BY <1>1, <1>2 DEF SafeInv

\* The inode that is cleared has no name.
LEMMA ClearInodeSafe ==
  ASSUME TypeInv, SafeInv, NEW ok \in BOOLEAN, ClearInode(ok)
  PROVE  SafeInv'
<1>0. /\ TypeOK /\ DiskInv /\ OpInv /\ blk' = blk /\ iused' = iused /\ bused' = bused
      /\ pc = "free_bitmap" /\ pc' = "ifree_bitmap" /\ op.todo = <<>> /\ op' = op
      /\ inode' = [inode EXCEPT ![op.ino] = ZeroInode]
  BY DEF TypeInv, SafeInv, ClearInode
<1>1. op.cmd = "delete" /\ op.ino \in Inode /\ op.ino \notin Owners /\ inode[op.ino].type # "dir"
  BY <1>0 DEF OpInv, StageOK, DeleteOK, Freed, Freeing, TypeInv, LocalsOK
<1>2. inode'[op.ino] = ZeroInode /\ \A i \in Inode : i # op.ino => inode'[i] = inode[i]
  BY <1>0, <1>1 DEF TypeOK
<1>3. Dirs' = Dirs
  BY <1>0, <1>1, <1>2 DEF Dirs, TypeOK, ZeroInode
<1>4. \A i \in Owners : i \in Inode /\ inode'[i] = inode[i] /\ Held(i)' = Held(i)
  BY <1>0, <1>1, <1>2 DEF Owners, Held, DiskInv, InodesOK, TypeOK, Dirs
<1>5. \A i \in Owners : Held(i)' \subseteq Held(i) /\ Held(i)' \subseteq bused'
  BY <1>0, <1>4 DEF DiskInv, BlocksOK
<1>6. BlocksOK' /\ EntriesOK' /\ Named' = Named /\ Owners' = Owners
  BY <1>0, <1>3, <1>4, <1>5, DiskStays DEF DiskInv, Owners
<1>7. InodesOK'
  BY <1>0, <1>2, <1>3, <1>4, <1>6 DEF InodesOK, DiskInv, ZeroInode, Owners
<1>8. DeleteOK'
  BY <1>0, <1>1, <1>2, <1>4, <1>6 DEF OpInv, DeleteOK, ZeroInode
<1>9. QED
  BY <1>0, <1>1, <1>6, <1>7, <1>8 DEF SafeInv, DiskInv, OpInv, StageOK, CreateOK, AllocOK, WriteOK,
     Creating, BeforeNew, Adding, Allocating, Freed, Freeing

\* The inode that is freed has no name and is no directory.
LEMMA FreeInodeBitmapSafe ==
  ASSUME TypeInv, SafeInv, NEW ok \in BOOLEAN, FreeInodeBitmap(ok)
  PROVE  SafeInv'
<1>0. /\ TypeOK /\ DiskInv /\ OpInv /\ blk' = blk /\ inode' = inode /\ bused' = bused
      /\ pc = "ifree_bitmap" /\ iused' = iused \ {op.ino}
  BY DEF TypeInv, SafeInv, FreeInodeBitmap
<1>1. op.cmd = "delete" /\ op.ino \notin Owners /\ inode[op.ino].type # "dir"
  BY <1>0 DEF OpInv, StageOK, DeleteOK, Freed, Freeing
<1>2. Dirs' = Dirs /\ \A i : Held(i)' = Held(i)
  BY <1>0, <1>1 DEF Dirs, Held
<1>3. \A i \in Owners : Held(i)' \subseteq Held(i) /\ Held(i)' \subseteq bused'
  BY <1>0, <1>2 DEF DiskInv, BlocksOK
<1>4. BlocksOK' /\ EntriesOK' /\ Named' = Named /\ Owners' = Owners
  BY <1>0, <1>2, <1>3, DiskStays DEF DiskInv
<1>5. InodesOK'
  BY <1>0, <1>1, <1>2, <1>4 DEF InodesOK, DiskInv, Owners
<1>6. OpInv'
  <2>1. CASE ok
    <3>1. pc' = "ifree_desc" /\ op' = op
      BY <2>1 DEF FreeInodeBitmap, Proceed
    <3>2. DeleteOK'
      BY <1>0, <1>1, <1>2, <1>4, <3>1 DEF OpInv, DeleteOK
    <3>3. QED
      BY <1>0, <1>1, <3>1, <3>2 DEF OpInv, StageOK, CreateOK, AllocOK, WriteOK,
         Creating, BeforeNew, Adding, Allocating, Freed, Freeing
  <2>2. CASE ~ok
    BY <2>2, FinishOp DEF FreeInodeBitmap, Proceed
  <2>3. QED
    BY <2>1, <2>2
<1>7. QED
  BY <1>4, <1>5, <1>6 DEF SafeInv, DiskInv

\* The counts written after an inode is freed touch neither.
LEMMA FreeInodeCountsSafe ==
  ASSUME TypeInv, SafeInv, NEW ok \in BOOLEAN, FreeInodeDesc(ok) \/ FreeInodeSuper(ok)
  PROVE  SafeInv'
<1>1. CASE FreeInodeDesc(ok) /\ ok
  BY <1>1, SilentMove DEF FreeInodeDesc, Proceed, Silently
<1>2. CASE FreeInodeDesc(ok) /\ ~ok
  BY <1>2, SilentEnd DEF FreeInodeDesc, Proceed, Finish
<1>3. CASE FreeInodeSuper(ok)
  BY <1>3, SilentEnd DEF FreeInodeSuper, Finish
<1>4. QED
  BY <1>1, <1>2, <1>3
-----------------------------------------------------------------------------
(* Failures, mounts and the start of an operation.                         *)

\* A write that does not land ends the operation, or goes on freeing.
LEMMA WriteLostSafe ==
  ASSUME TypeInv, SafeInv, WriteLost
  PROVE  SafeInv'
<1>0. /\ TypeOK /\ DiskInv /\ OpInv /\ inode' = inode /\ blk' = blk /\ iused' = iused /\ bused' = bused
  BY DEF TypeInv, SafeInv, WriteLost, disk
<1>1. CASE pc \notin Freeing
  BY <1>0, <1>1, SilentEnd DEF WriteLost, Finish
<1>2. CASE pc \in Freeing /\ op.todo # <<>>
  <2>1. OpInv'
    BY <1>0, <1>2, FreeingKeeps DEF WriteLost
  <2>2. QED
    BY <1>0, <2>1, SilentDisk DEF SafeInv
<1>3. CASE pc \in Freeing /\ op.todo = <<>>
  <2>1. pc' = "ifree_bitmap" /\ op' = op
    BY <1>3 DEF WriteLost
  <2>2. op.cmd = "delete"
    BY <1>0, <1>3 DEF OpInv, StageOK, Freed
  <2>3. Owners' = Owners /\ \A i : Held(i)' = Held(i)
    BY <1>0, Unmoved
  <2>4. DeleteOK'
    BY <1>0, <1>3, <2>1, <2>2, <2>3 DEF OpInv, DeleteOK, Freeing
  <2>5. OpInv'
    BY <1>0, <2>1, <2>2, <2>4 DEF OpInv, StageOK, CreateOK, AllocOK, WriteOK,
       Creating, BeforeNew, Adding, Allocating, Freed, Freeing
  <2>6. QED
    BY <1>0, <2>5, SilentDisk DEF SafeInv
<1>4. QED
  BY <1>1, <1>2, <1>3

\* A power loss leaves the disk as it was.
LEMMA CrashSafe ==
  ASSUME TypeInv, SafeInv, Crash
  PROVE  SafeInv'
  BY SilentEnd DEF Crash, disk

\* So does a mount, which reads the counts.
LEMMA MountSafe ==
  ASSUME TypeInv, SafeInv, Mount
  PROVE  SafeInv'
<1>0. /\ DiskInv /\ OpInv /\ inode' = inode /\ blk' = blk /\ iused' = iused /\ bused' = bused
      /\ TypeOK /\ op' = op /\ pc' = "idle" /\ op.cmd = "none"
  BY DEF TypeInv, SafeInv, Mount, disk, OpInv, StageOK
<1>1. OpInv'
  BY <1>0 DEF OpInv, StageOK, CreateOK, AllocOK, WriteOK, DeleteOK,
     Creating, BeforeNew, Adding, Allocating, Freed, Freeing
<1>2. QED
  BY <1>0, <1>1, SilentDisk DEF SafeInv

\* What Lookup finds is an entry of one of the directory's blocks.
LEMMA LookupIn ==
  ASSUME NEW d, NEW n
  PROVE  /\ \A i \in Lookup(d, n) : \E b \in DirBlocks(inode[d]) : \E e \in blk[b].ents :
                e.ino = i /\ e.name = n
         /\ Lookup(d, n) = {} => \A b \in DirBlocks(inode[d]) : \A e \in blk[b].ents : e.name # n
  BY DEF Lookup, Entries, DirBlocks

\* A request reads the disk: what it takes into memory is what is there.
LEMMA RequestSafe ==
  ASSUME TypeInv, SafeInv, Request
  PROVE  SafeInv'
<1>0. /\ DiskInv /\ OpInv /\ TypeOK
      /\ inode' = inode /\ blk' = blk /\ iused' = iused /\ bused' = bused
  BY DEF TypeInv, SafeInv, Request, Create, WriteFile, DeleteFile, disk
<1>1. /\ Dirs' = Dirs /\ Named' = Named /\ Owners' = Owners /\ EntryBlocks' = EntryBlocks
      /\ \A i : Held(i)' = Held(i)
  BY <1>0, Unmoved
<1>2. DiskInv'
  BY <1>0, SilentDisk
<1>4. ASSUME NEW d, NEW n, NEW cmd \in {"create", "mkdir"}, NEW k, Create(cmd, d, n, k)
      PROVE  OpInv'
  <2>1. /\ op'.cmd = cmd /\ op'.dir = d /\ op'.name = n /\ op'.parent = inode[d]
        /\ pc' = "inode_bitmap" /\ d \in Dirs /\ Lookup(d, n) = {}
    BY <1>4 DEF Create, NoOp
  <2>2. NewName(d)'
    BY <1>0, <2>1, LookupIn DEF NewName, DirBlocks
  <2>3. QED
    BY <1>0, <1>1, <2>1, <2>2 DEF OpInv, StageOK, CreateOK, AllocOK, WriteOK, DeleteOK,
       Creating, BeforeNew, Adding, Allocating, Freed, Freeing
<1>5. \A d \in Dirs : \A n : Lookup(d, n) \subseteq Named
  BY LookupIn, NamedByBlocks DEF EntryBlocks
<1>6. ASSUME NEW d, NEW n, NEW k, WriteFile(d, n, k)
      PROVE  OpInv'
  <2>1. PICK i \in Lookup(d, n) :
          /\ inode[i].type = "file"
          /\ op' = [NoOp EXCEPT !.cmd = "write", !.ino = i, !.goal = k,
                           !.mine = inode[i], !.logical = inode[i].size]
    BY <1>6 DEF WriteFile
  <2>2. /\ op'.cmd = "write" /\ op'.ino = i /\ op'.mine = inode[i] /\ op'.phys = Null
        /\ pc' = "write_alloc" /\ d \in Dirs
    BY <1>6, <2>1 DEF WriteFile, NoOp
  <2>3. i \in Named
    BY <1>5, <2>2
  <2>4. RefsIn(blk, inode[i]) = Held(i)
    BY DEF Held
  <2>5. Held(i) \subseteq bused /\ \A j \in Owners : j # i => Held(i) \cap Held(j) = {}
    BY <1>0, <2>3 DEF DiskInv, BlocksOK, Owners
  <2>6. WriteOK'
    BY <1>0, <1>1, <2>1, <2>2, <2>3, <2>4, <2>5 DEF WriteOK, Allocating
  <2>7. QED
    BY <2>2, <2>6 DEF OpInv, StageOK, CreateOK, AllocOK, DeleteOK,
       Creating, BeforeNew, Adding, Allocating, Freed, Freeing
<1>7. ASSUME NEW d, NEW n, DeleteFile(d, n)
      PROVE  OpInv'
  <2>1. PICK i \in Lookup(d, n) :
          /\ inode[i].type = "file"
          /\ op' = [NoOp EXCEPT !.cmd = "delete", !.dir = d, !.name = n, !.ino = i,
                           !.mine = inode[i], !.parent = inode[d]]
    BY <1>7 DEF DeleteFile
  <2>2. /\ op'.cmd = "delete" /\ op'.ino = i /\ op'.mine = inode[i] /\ op'.dir = d
        /\ op'.parent = inode[d] /\ pc' = "remove_entry" /\ d \in Dirs
    BY <1>7, <2>1 DEF DeleteFile, NoOp
  <2>3. i \in Named
    BY <1>5, <2>2
  <2>4. QED
    BY <1>0, <1>1, <2>1, <2>2, <2>3 DEF OpInv, StageOK, CreateOK, AllocOK, WriteOK, DeleteOK,
       Creating, BeforeNew, Adding, Allocating, Freed, Freeing
<1>8. OpInv'
  BY <1>4, <1>6, <1>7 DEF Request
<1>9. QED
  BY <1>2, <1>8 DEF SafeInv
-----------------------------------------------------------------------------
(* The writes to a block that nothing reaches.                             *)

\* A directory has its first block, which its own inode reaches.
LEMMA FirstBlock ==
  ASSUME TypeOK, InodesOK
  PROVE  \A d \in Dirs : inode[d].direct[0] \in DirBlocks(inode[d]) /\ inode[d].direct[0] \in Block
<1>1. ASSUME NEW d \in Dirs
      PROVE  0 \in 0 .. inode[d].size - 1
  <2>1. inode[d].size \in Nat /\ inode[d].size > 0
    BY Records DEF Dirs, TypeOK, InodeRecord, InodesOK
  <2>2. QED
    BY <2>1
<1>2. QED
  BY <1>1, EntryBlocksType DEF DirBlocks

\* What is written into a block that nothing reaches changes neither names nor pointers.
LEMMA FreshBlock ==
  ASSUME TypeOK, DiskInv, NEW b \in Block, Fresh(b), NEW z, z.table = ZeroTable,
         blk' = [blk EXCEPT ![b] = z], inode' = inode, iused' = iused, bused' = bused
  PROVE  /\ DiskInv' /\ Dirs' = Dirs /\ Named' = Named /\ Owners' = Owners
         /\ \A c : Fresh(c) => Fresh(c)'
         /\ \A rec : RefsIn(blk', rec) \subseteq RefsIn(blk, rec)
         /\ \A d \in Dirs : NewName(d) /\ op'.name = op.name => NewName(d)'
         /\ \A d \in Dirs : inode[d].direct[0] # b
         /\ blk'[b] = z /\ \A c \in Block : c # b => blk'[c] = blk[c]
<1>1. blk'[b] = z /\ \A c : c # b => blk'[c] = blk[c]
  BY DEF TypeOK
<1>2. \A rec : RefsIn(blk', rec) \subseteq RefsIn(blk, rec)
  BY <1>1, RefsShrink
<1>3. b \notin EntryBlocks
  BY EntryBlocksType DEF Fresh, Owners
<1>4. \A c \in EntryBlocks : blk'[c] = blk[c]
  BY <1>1, <1>3
<1>5. Dirs' = Dirs /\ \A i : Held(i)' \subseteq Held(i)
  BY <1>2 DEF Dirs, Held
<1>6. \A i \in Owners : Held(i)' \subseteq Held(i) /\ Held(i)' \subseteq bused'
  BY <1>5 DEF DiskInv, BlocksOK
<1>7. BlocksOK' /\ EntriesOK' /\ Named' = Named /\ Owners' = Owners
  BY <1>4, <1>5, <1>6, DiskStays DEF DiskInv
<1>8. InodesOK'
  BY <1>5, <1>7 DEF InodesOK, DiskInv
<1>9. \A c : Fresh(c) => Fresh(c)'
  BY <1>5, <1>7 DEF Fresh
<1>10. \A d \in Dirs : \A c \in DirBlocks(inode[d]) : blk'[c] = blk[c]
  BY <1>4, EntryBlocksType
<1>11. \A d \in Dirs : NewName(d) /\ op'.name = op.name => NewName(d)'
  BY <1>10 DEF NewName, DirBlocks
<1>12. \A d \in Dirs : inode[d].direct[0] # b
  BY <1>3, FirstBlock, EntryBlocksType DEF DiskInv
<1>13. QED
  BY <1>1, <1>2, <1>5, <1>7, <1>8, <1>9, <1>11, <1>12 DEF DiskInv

\* The dots go into a block that nothing reaches yet.
LEMMA WriteDotsSafe ==
  ASSUME TypeInv, SafeInv, NEW ok \in BOOLEAN, WriteDots(ok)
  PROVE  SafeInv'
<1> DEFINE z == [ZeroBlock EXCEPT !.up = op.dir]
<1>0. /\ TypeOK /\ DiskInv /\ OpInv /\ inode' = inode /\ iused' = iused /\ bused' = bused
      /\ blk' = [blk EXCEPT ![op.phys] = z] /\ pc = "write_dots"
  BY DEF TypeInv, SafeInv, WriteDots
<1>1. Creating /\ op.phys \in Block /\ Fresh(op.phys) /\ z.table = ZeroTable
  BY <1>0 DEF OpInv, StageOK, BeforeNew, CreateOK, ZeroBlock
<1> HIDE DEF z
<1>2. /\ DiskInv' /\ Dirs' = Dirs /\ Named' = Named /\ Owners' = Owners
      /\ \A c : Fresh(c) => Fresh(c)'
      /\ \A d \in Dirs : NewName(d) /\ op'.name = op.name => NewName(d)'
      /\ blk'[op.phys] = z
  BY <1>0, <1>1, FreshBlock
<1>3. CASE ok
  <2>1. pc' = "write_new" /\ op' = op
    BY <1>3 DEF WriteDots, Proceed
  <2>2. CreateOK'
    BY <1>0, <1>1, <1>2, <2>1 DEF OpInv, CreateOK, Creating, BeforeNew, Adding, Allocating, z
  <2>3. QED
    BY <1>0, <1>1, <1>2, <2>1, <2>2 DEF SafeInv, OpInv, StageOK, AllocOK, WriteOK, DeleteOK,
       Creating, BeforeNew, Adding, Allocating, Freed, Freeing
<1>4. CASE ~ok
  BY <1>2, <1>4, FinishOp DEF WriteDots, Proceed, SafeInv
<1>5. QED
  BY <1>3, <1>4

\* So does the first entry of a directory's new block.
LEMMA NewDirBlockSafe ==
  ASSUME TypeInv, SafeInv, NEW ok \in BOOLEAN, NewDirBlock(ok)
  PROVE  SafeInv'
<1> DEFINE z == [ZeroBlock EXCEPT !.ents = {NewEntry}]
<1>0. /\ TypeOK /\ DiskInv /\ OpInv /\ inode' = inode /\ iused' = iused /\ bused' = bused
      /\ blk' = [blk EXCEPT ![op.phys] = z] /\ pc = "new_dir_block" /\ op \in Operation
      /\ op.parent.size < NDirect
  BY DEF TypeInv, SafeInv, NewDirBlock, TypeOK, LocalsOK
<1>1. Creating /\ op.phys \in Block /\ Fresh(op.phys) /\ z.table = ZeroTable
  BY <1>0 DEF OpInv, StageOK, Adding, CreateOK, ZeroBlock
<1> HIDE DEF z
<1>2. /\ DiskInv' /\ Dirs' = Dirs /\ Named' = Named /\ Owners' = Owners
      /\ \A c : Fresh(c) => Fresh(c)'
      /\ \A d \in Dirs : NewName(d) /\ op'.name = op.name => NewName(d)'
      /\ \A d \in Dirs : inode[d].direct[0] # op.phys
      /\ blk'[op.phys] = z /\ \A c \in Block : c # op.phys => blk'[c] = blk[c]
  BY <1>0, <1>1, FreshBlock
<1>3. CASE ok
  <2>1. /\ pc' = "write_parent"
        /\ op' = [op EXCEPT !.parent.direct[op.parent.size] = op.phys,
                            !.parent.size = @ + 1]
    BY <1>3 DEF NewDirBlock, Proceed
  <2>2. /\ op'.cmd = op.cmd /\ op'.dir = op.dir /\ op'.name = op.name /\ op'.ino = op.ino
        /\ op'.phys = op.phys
        /\ op'.parent = [op.parent EXCEPT !.direct[op.parent.size] = op.phys, !.size = @ + 1]
    BY <1>0, <2>1 DEF Operation, InodeRecord
  <2>3. op.parent = inode[op.dir] /\ op.dir \in Dirs /\ NewName(op.dir) /\ op.ino \notin Named
    BY <1>0, <1>1 DEF OpInv, CreateOK
  <2>4. Grown'
    BY <1>0, <1>1, <1>2, <2>2, <2>3 DEF Grown, z, NewEntry
  <2>5. CreateOK'
    BY <1>0, <1>1, <1>2, <2>1, <2>2, <2>3, <2>4, FirstBlock
       DEF DiskInv, OpInv, CreateOK, Creating, BeforeNew, Adding, Allocating
  <2>6. QED
    BY <1>0, <1>1, <1>2, <2>1, <2>2, <2>5 DEF SafeInv, OpInv, StageOK, AllocOK, WriteOK, DeleteOK,
       Creating, BeforeNew, Adding, Allocating, Freed, Freeing
<1>4. CASE ~ok
  BY <1>2, <1>4, FinishOp DEF NewDirBlock, Proceed, SafeInv
<1>5. QED
  BY <1>3, <1>4

\* allocate_inode takes an inode without a name: what is named is marked in use.
LEMMA AllocInodeBitmapSafe ==
  ASSUME TypeInv, SafeInv, NEW ok \in BOOLEAN, AllocInodeBitmap(ok)
  PROVE  SafeInv'
<1>0. /\ TypeOK /\ DiskInv /\ OpInv /\ inode' = inode /\ blk' = blk /\ bused' = bused
      /\ pc = "inode_bitmap" /\ op \in Operation
  BY DEF TypeInv, SafeInv, AllocInodeBitmap, TypeOK
<1>1. PICK i \in Inode :
        /\ i \notin iused /\ iused' = iused \cup {i}
        /\ Proceed(ok, "inode_desc", [op EXCEPT !.ino = i])
  BY DEF AllocInodeBitmap, FirstFreeInode, FreeInodes
<1>2. inode[i].type # "dir" /\ i \notin Named /\ i # Root /\ i \notin Dirs
  BY <1>1, <1>0 DEF DiskInv, InodesOK, Dirs
<1>3. Dirs' = Dirs /\ \A j : Held(j)' = Held(j)
  BY <1>0, <1>1, <1>2 DEF Dirs, Held
<1>4. \A j \in Owners : Held(j)' \subseteq Held(j) /\ Held(j)' \subseteq bused'
  BY <1>0, <1>3 DEF DiskInv, BlocksOK
<1>5. BlocksOK' /\ EntriesOK' /\ Named' = Named /\ Owners' = Owners
  BY <1>0, <1>3, <1>4, DiskStays DEF DiskInv
<1>6. InodesOK'
  BY <1>0, <1>1, <1>3, <1>5 DEF InodesOK, DiskInv
<1>7. CASE ok
  <2>1. pc' = "inode_desc" /\ op' = [op EXCEPT !.ino = i]
    BY <1>1, <1>7 DEF Proceed
  <2>2. /\ op'.cmd = op.cmd /\ op'.dir = op.dir /\ op'.name = op.name /\ op'.ino = i
        /\ op'.parent = op.parent
    BY <1>0, <2>1 DEF Operation
  <2>3. Creating
    BY <1>0 DEF OpInv, StageOK
  <2>4. op.dir \in Dirs /\ NewName(op.dir)'
    BY <1>0, <2>2, <2>3 DEF OpInv, CreateOK, NewName, DirBlocks
  <2>5. CreateOK'
    BY <1>0, <1>1, <1>2, <1>3, <1>5, <2>1, <2>2, <2>3, <2>4
       DEF OpInv, CreateOK, Creating, BeforeNew, Adding, Allocating
  <2>6. QED
    BY <1>0, <1>5, <1>6, <2>1, <2>2, <2>3, <2>5 DEF SafeInv, DiskInv, OpInv, StageOK, AllocOK,
       WriteOK, DeleteOK, Creating, BeforeNew, Adding, Allocating, Freed, Freeing
<1>8. CASE ~ok
  BY <1>1, <1>5, <1>6, <1>8, FinishOp DEF Proceed, SafeInv, DiskInv
<1>9. QED
  BY <1>7, <1>8
-----------------------------------------------------------------------------
(* The steps of ext2_write_file.                                           *)

\* The block just allocated becomes the data block, the table or the directory's.
LEMMA AllocBlockZeroSafe ==
  ASSUME TypeInv, SafeInv, NEW ok \in BOOLEAN, AllocBlockZero(ok)
  PROVE  SafeInv'
<1>0. /\ TypeOK /\ DiskInv /\ OpInv /\ inode' = inode /\ iused' = iused /\ bused' = bused
      /\ blk' = [blk EXCEPT ![op.new] = ZeroBlock] /\ pc = "block_zero" /\ op \in Operation
      /\ op.mine \in InodeRecord
  BY DEF TypeInv, SafeInv, AllocBlockZero, TypeOK, Operation
<1>1. /\ op.new \in Block /\ Untouched(op.new) /\ Fresh(op.new) /\ ZeroBlock.table = ZeroTable
      /\ op.cmd = "write" => op.new # op.phys
  BY <1>0 DEF OpInv, AllocOK, ZeroBlock, Untouched
<1>2. /\ DiskInv' /\ Dirs' = Dirs /\ Named' = Named /\ Owners' = Owners
      /\ \A c : Fresh(c) => Fresh(c)'
      /\ \A rec : RefsIn(blk', rec) \subseteq RefsIn(blk, rec)
      /\ \A d \in Dirs : NewName(d) /\ op'.name = op.name => NewName(d)'
      /\ \A d \in Dirs : inode[d].direct[0] # op.new
      /\ blk'[op.new] = ZeroBlock /\ \A c \in Block : c # op.new => blk'[c] = blk[c]
  BY <1>0, <1>1, FreshBlock
<1>3. CASE ~ok
  BY <1>2, <1>3, FinishOp DEF AllocBlockZero, Proceed, SafeInv
<1>4. CASE ok /\ op.cmd = "write"
  <2>1. pc' = Resume[op.want] /\ op' = Delivered(op)
    BY <1>4 DEF AllocBlockZero, Proceed
  <2>2. op.want \in {"data", "indirect", "double", "child"}
    BY <1>0, <1>4 DEF TypeInv, LocalsOK, Allocating, Resume
  <2>3. /\ op'.cmd = "write" /\ op'.ino = op.ino /\ op'.new = op.new
        /\ op'.logical = op.logical /\ op'.goal = op.goal
    BY <1>0, <1>4, <2>1, <2>2 DEF Delivered, Operation
  <2>4. /\ op.ino \in Named /\ inode[op.ino].type = "file" /\ op.logical < op.goal
        /\ RefsIn(blk, op.mine) \subseteq bused
        /\ \A j \in Owners : j # op.ino => RefsIn(blk, op.mine) \cap Held(j) = {}
    BY <1>0, <1>4 DEF OpInv, WriteOK, Allocating
  <2>5. blk' \in [Block -> BlockRecord]
    BY <1>0, Records DEF TypeOK
  <2>6. /\ RefsIn(blk', op.mine) \subseteq bused
        /\ \A j \in Owners : Held(j)' \subseteq Held(j)
        /\ \A j \in Owners : j # op.ino => RefsIn(blk', op.mine) \cap Held(j)' = {}
    BY <1>0, <1>2, <2>4 DEF Held
  <2>7. \A c : Untouched(c) => Fresh(c)' /\ c \notin RefsIn(blk', op.mine)
    BY <1>2, <1>4 DEF Untouched
  <2>8. CASE op.want = "child"
    <3>1. pc' = "link_child" /\ op' = op
      BY <2>1, <2>8 DEF Resume, Delivered
    <3>2. op.phys \in Block /\ Untouched(op.phys) /\ blk[op.phys] = ZeroBlock
      BY <1>0, <1>4, <2>8 DEF OpInv, WriteOK, Allocating
    <3>3. AllocOK'
      BY <1>1, <1>2, <2>7, <3>1 DEF AllocOK, Untouched
    <3>4. WriteOK'
      BY <1>0, <1>1, <1>2, <1>4, <2>4, <2>6, <2>7, <3>1, <3>2 DEF WriteOK, Allocating, Untouched
    <3>5. QED
      BY <1>2, <1>4, <3>1, <3>3, <3>4 DEF SafeInv, OpInv, StageOK, CreateOK, DeleteOK,
         Creating, BeforeNew, Adding, Allocating, Freed, Freeing
  <2>9. CASE op.want = "data"
    <3>1. pc' = "set_block" /\ op'.mine = op.mine /\ op'.phys = op.new
      BY <1>0, <2>1, <2>9 DEF Resume, Delivered, Operation
    <3>2. WriteOK'
      BY <1>0, <1>1, <1>2, <2>3, <2>4, <2>6, <2>7, <3>1 DEF WriteOK, Allocating, Untouched
    <3>3. QED
      BY <1>2, <2>3, <3>1, <3>2 DEF SafeInv, OpInv, StageOK, CreateOK, AllocOK, DeleteOK,
         Creating, BeforeNew, Adding, Allocating, Freed, Freeing
  <2>10. CASE op.want \in {"indirect", "double"}
    <3>1. pc' = "set_block" /\ op'.phys = op.phys
      BY <1>0, <2>1, <2>10 DEF Resume, Delivered, Operation
    <3>2. RefsIn(blk', op'.mine) \subseteq RefsIn(blk', op.mine) \cup {op.new}
      <4>1. op'.mine = [op.mine EXCEPT !.ind = op.new] \/ op'.mine = [op.mine EXCEPT !.dbl = op.new]
        BY <1>0, <2>1, <2>10 DEF Delivered, Operation
      <4>2. QED
        BY <1>0, <1>1, <1>2, <2>5, <4>1, RefsSet
    <3>3. op.phys \in Block /\ Untouched(op.phys) /\ blk[op.phys] = ZeroBlock
      BY <1>0, <1>4, <2>10 DEF OpInv, WriteOK, Allocating
    <3>4. op.phys \notin RefsIn(blk', op'.mine) /\ Fresh(op.phys)' /\ blk'[op.phys] = ZeroBlock
      BY <1>1, <1>2, <1>4, <2>7, <3>1, <3>2, <3>3
    <3>5. /\ RefsIn(blk', op'.mine) \subseteq bused
          /\ \A j \in Owners : j # op.ino => RefsIn(blk', op'.mine) \cap Held(j)' = {}
      BY <1>1, <2>6, <3>2 DEF Fresh
    <3>6. WriteOK'
      BY <1>0, <1>2, <2>3, <2>4, <3>1, <3>3, <3>4, <3>5 DEF WriteOK, Allocating, Untouched
    <3>7. QED
      BY <1>2, <2>3, <3>1, <3>6 DEF SafeInv, OpInv, StageOK, CreateOK, AllocOK, DeleteOK,
         Creating, BeforeNew, Adding, Allocating, Freed, Freeing
  <2>11. QED
    BY <2>2, <2>8, <2>9, <2>10
<1>5. CASE ok /\ op.cmd # "write"
  <2>1. pc' = Resume[op.want] /\ op' = Delivered(op)
    BY <1>5 DEF AllocBlockZero, Proceed
  <2>2. op.want \in {"newdir", "dirblock"} /\ Creating
    BY <1>0, <1>5 DEF TypeInv, LocalsOK, Allocating, Resume, Creating
  <2>3. /\ op'.cmd = op.cmd /\ op'.ino = op.ino /\ op'.name = op.name /\ op'.dir = op.dir
        /\ op'.parent = op.parent /\ op'.phys = op.new
        /\ pc' = IF op.want = "newdir" THEN "write_dots" ELSE "new_dir_block"
    BY <1>0, <2>1, <2>2 DEF Delivered, Operation, Resume
  <2>4. CreateOK'
    BY <1>0, <1>1, <1>2, <2>2, <2>3, FirstBlock
       DEF DiskInv, OpInv, CreateOK, Creating, BeforeNew, Adding, Allocating
  <2>5. QED
    BY <1>2, <2>2, <2>3, <2>4 DEF SafeInv, OpInv, StageOK, AllocOK, WriteOK, DeleteOK,
       Creating, BeforeNew, Adding, Allocating, Freed, Freeing
<1>6. QED
  BY <1>3, <1>4, <1>5

\* A direct pointer is set in memory, to a block that nothing reaches.
LEMMA SetDirectSafe ==
  ASSUME TypeInv, SafeInv, SetDirect
  PROVE  SafeInv'
<1>0. /\ TypeOK /\ DiskInv /\ OpInv /\ inode' = inode /\ iused' = iused /\ bused' = bused
      /\ blk' = blk /\ pc = "set_block" /\ pc' = "write_alloc" /\ op \in Operation
      /\ op.mine \in InodeRecord /\ op.cmd = "write"
      /\ op' = NextLogical([op EXCEPT !.mine.direct[op.logical] = op.phys])
  BY DEF TypeInv, SafeInv, SetDirect, TypeOK, Operation, disk, LocalsOK, Filling
<1>1. /\ op'.cmd = "write" /\ op'.ino = op.ino /\ op'.phys = Null
      /\ op'.mine = [op.mine EXCEPT !.direct[op.logical] = op.phys]
  BY <1>0 DEF NextLogical, Operation, InodeRecord
<1>2. /\ op.ino \in Named /\ inode[op.ino].type = "file"
      /\ RefsIn(blk, op.mine) \subseteq bused
      /\ \A j \in Owners : j # op.ino => RefsIn(blk, op.mine) \cap Held(j) = {}
      /\ op.phys \in Block /\ Fresh(op.phys) /\ blk[op.phys].table = ZeroTable
  BY <1>0 DEF OpInv, WriteOK, Untouched, ZeroBlock
<1>3. RefsIn(blk, op'.mine) \subseteq RefsIn(blk, op.mine) \cup {op.phys}
  BY <1>0, <1>1, <1>2, RefsSet DEF TypeOK
<1>4. DiskInv' /\ Named' = Named /\ Owners' = Owners /\ \A j : Held(j)' = Held(j)
  BY <1>0, SilentDisk, Unmoved
<1>5. WriteOK'
  BY <1>0, <1>1, <1>2, <1>3, <1>4 DEF WriteOK, Allocating, Fresh
<1>6. QED
  BY <1>0, <1>1, <1>4, <1>5 DEF SafeInv, OpInv, StageOK, CreateOK, AllocOK, DeleteOK,
     Creating, BeforeNew, Adding, Allocating, Freed, Freeing

\* inode_block finds a block among those the inode's pointers reach.
LEMMA BlockOfRefs ==
  ASSUME TypeOK, NEW rec \in InodeRecord, NEW l \in Nat, l < LargestFile
  PROVE  BlockOf(rec, l) \in RefsIn(blk, rec) \cup {Null}
<1> DEFINE m == l - NDirect - Pointers
           via(t, k) == IF t = Null THEN Null ELSE blk[t].table[k]
<1>1. ASSUME NEW t, NEW k \in 0 .. Pointers - 1 PROVE via(t, k) \in KidsIn(blk, t) \cup {Null}
  BY DEF KidsIn
<1>2. CASE l < NDirect
  BY <1>2, Ext2Assumption DEF BlockOf, RefsIn
<1>3. \A t \in TablesIn(blk, rec) : KidsIn(blk, t) \subseteq RefsIn(blk, rec)
  BY DEF RefsIn, KidsIn
<1>4. CASE NDirect <= l /\ l < NDirect + Pointers
  <2>1. l - NDirect \in 0 .. Pointers - 1
    BY <1>4, Ext2Assumption
  <2>2. via(rec.ind, l - NDirect) \in KidsIn(blk, rec.ind) \cup {Null}
    BY <1>1, <2>1
  <2>3. BlockOf(rec, l) = via(rec.ind, l - NDirect)
    BY <1>4, Ext2Assumption DEF BlockOf
  <2>4. KidsIn(blk, rec.ind) \subseteq RefsIn(blk, rec)
    BY <1>3 DEF TablesIn, KidsIn
  <2>5. QED
    BY <2>2, <2>3, <2>4
<1>5. CASE NDirect + Pointers <= l
  <2>1. m \in Nat /\ m < Pointers * Pointers
    BY <1>5, Ext2Assumption DEF LargestFile
  <2>2. m \div Pointers \in 0 .. Pointers - 1 /\ m % Pointers \in 0 .. Pointers - 1
    BY <2>1, DivBound, Ext2Assumption
  <2> DEFINE t == via(rec.dbl, m \div Pointers)
  <2>3. t \in TablesIn(blk, rec) \cup {Null}
    BY <1>1, <2>2 DEF TablesIn
  <2>4. via(t, m % Pointers) \in KidsIn(blk, t) \cup {Null}
    BY <1>1, <2>2
  <2>5. KidsIn(blk, t) \subseteq RefsIn(blk, rec)
    BY <1>3, <2>3 DEF KidsIn
  <2>6. BlockOf(rec, l) = via(t, m % Pointers)
    BY <1>5, Ext2Assumption DEF BlockOf
  <2>7. QED
    BY <2>4, <2>5, <2>6
<1>6. QED
  BY <1>2, <1>4, <1>5, Ext2Assumption

\* The file's own blocks are no other owner's, and no directory's.
LEMMA MineApart ==
  ASSUME TypeOK, SafeInv, op.cmd = "write"
  PROVE  /\ op.ino \in Owners /\ op.ino \notin Dirs /\ op.ino \in Inode
         /\ \A j \in Owners : j # op.ino => RefsIn(blk, op.mine) \cap Held(j) = {}
         /\ RefsIn(blk, op.mine) \cap EntryBlocks = {}
<1>1. /\ op.ino \in Owners /\ op.ino \notin Dirs
      /\ \A j \in Owners : j # op.ino => RefsIn(blk, op.mine) \cap Held(j) = {}
  BY DEF SafeInv, OpInv, WriteOK, Owners, Dirs
<1>2. \A b \in EntryBlocks : \E d \in Dirs : b \in Held(d)
  BY EntryBlocksType
<1>3. RefsIn(blk, op.mine) \cap EntryBlocks = {}
  BY <1>1, <1>2 DEF Owners
<1>4. op.ino \in Inode
  BY DEF SafeInv, DiskInv, InodesOK, OpInv, WriteOK, TypeOK
<1>5. QED
  BY <1>1, <1>3, <1>4

\* A pointer stored in one of the file's tables disturbs nothing else.
LEMMA PointerPut ==
  ASSUME TypeInv, SafeInv, op.cmd = "write",
         NEW t \in RefsIn(blk, op.mine) \cup {Null}, NEW k,
         NEW p \in Block, Untouched(p), blk[p].table = ZeroTable,
         blk' = [blk EXCEPT ![t].table[k] = p],
         inode' = inode, iused' = iused, bused' = bused
  PROVE  /\ DiskInv' /\ Dirs' = Dirs /\ Named' = Named /\ Owners' = Owners
         /\ RefsIn(blk', op.mine) \subseteq bused
         /\ \A j \in Owners : j # op.ino => RefsIn(blk', op.mine) \cap Held(j)' = {}
         /\ \A c : Untouched(c) /\ c # p => Fresh(c)' /\ c \notin RefsIn(blk', op.mine)
         /\ \A c : c # t => blk'[c] = blk[c]
<1>0. /\ TypeOK /\ DiskInv /\ op.mine \in InodeRecord /\ RefsIn(blk, op.mine) \subseteq bused
      /\ op.ino \in Owners /\ op.ino \notin Dirs /\ op.ino \in Inode
      /\ \A j \in Owners : j # op.ino => RefsIn(blk, op.mine) \cap Held(j) = {}
      /\ RefsIn(blk, op.mine) \cap EntryBlocks = {}
  BY MineApart DEF TypeInv, TypeOK, Operation, SafeInv, OpInv, WriteOK
<1>1. \A i \in Owners : i \in Inode /\ inode[i] \in InodeRecord
  BY <1>0 DEF DiskInv, InodesOK, Owners, Dirs, TypeOK
<1>2. CASE t = Null \/ k \notin 0 .. Pointers - 1
  <2>1. blk' = blk
    <3>1. CASE t \notin Block
      BY <1>0, <3>1 DEF TypeOK
    <3>2. CASE t \in Block
      <4>1. k \notin 0 .. Pointers - 1 /\ blk[t] \in BlockRecord
        BY <1>0, <1>2, <3>2, NotNull DEF TypeOK
      <4>2. [blk[t].table EXCEPT ![k] = p] = blk[t].table
        BY <4>1 DEF BlockRecord
      <4>3. [blk[t] EXCEPT !.table[k] = p] = blk[t]
        BY <4>1, <4>2 DEF BlockRecord
      <4>4. QED
        BY <1>0, <3>2, <4>3 DEF TypeOK
    <3>3. QED
      BY <3>1, <3>2
  <2>2. /\ DiskInv' /\ Dirs' = Dirs /\ Named' = Named /\ Owners' = Owners
        /\ \A c : Fresh(c) => Fresh(c)'
    BY <1>0, <2>1, SilentDisk
  <2>3. \A i : Held(i)' = Held(i)
    BY <2>1 DEF Held
  <2>4. QED
    BY <1>0, <2>1, <2>2, <2>3 DEF Untouched
<1>3. CASE t \in RefsIn(blk, op.mine) /\ k \in 0 .. Pointers - 1
  <2>1. t \in Block
    BY <1>0, <1>3, RefsType DEF TypeOK
  <2>2. \A c : c # t => blk'[c] = blk[c]
    BY <1>0 DEF TypeOK
  <2>3. /\ RefsIn(blk', op.mine) \subseteq RefsIn(blk, op.mine) \cup {p}
        /\ \A i \in Owners : Held(i)' \subseteq Held(i) \cup {p}
    BY <1>0, <1>1, <1>3, <2>1, RefsPut DEF TypeOK, Held
  <2>4. \A j \in Owners : j # op.ino => Held(j)' \subseteq Held(j)
    <3>1. ASSUME NEW j \in Owners, j # op.ino
          PROVE  RefsIn(blk', inode[j]) \subseteq RefsIn(blk, inode[j])
      <4>1. t \notin RefsIn(blk, inode[j])
        BY <1>0, <1>3, <3>1 DEF Held
      <4>2. \A c \in RefsIn(blk, inode[j]) : blk'[c].table = blk[c].table
        BY <2>2, <4>1
      <4>3. QED
        BY <4>2, RefsShrink
    <3>2. QED
      BY <3>1 DEF Held
  <2>5. p \in bused /\ \A i \in Owners : p \notin Held(i)
    BY DEF Untouched, Fresh
  <2>6. blk'[t].ents = blk[t].ents /\ blk'[t].up = blk[t].up
    BY <1>0, <2>1 DEF TypeOK, BlockRecord
  <2>7. \A c \in EntryBlocks : blk'[c].ents = blk[c].ents /\ blk'[c].up = blk[c].up
    BY <2>2, <2>6
  <2>8. Dirs' = Dirs
    BY DEF Dirs
  <2>9. \A i \in Owners : Held(i)' \subseteq bused' /\ Held(i) \subseteq bused
    BY <1>0, <2>3, <2>5 DEF DiskInv, BlocksOK
  <2>10. Named' = Named /\ Owners' = Owners /\ EntryBlocks' = EntryBlocks
    BY <2>7, <2>8, NamesStay
  <2>11. BlocksOK'
    <3>1. ASSUME NEW i \in Owners, NEW j \in Owners, i # j
          PROVE  Held(i)' \cap Held(j)' = {}
      <4>1. Held(i) \cap Held(j) = {}
        BY <1>0, <3>1 DEF DiskInv, BlocksOK
      <4>2. QED
        BY <2>3, <2>4, <2>5, <3>1, <4>1
    <3>2. QED
      BY <2>9, <2>10, <3>1 DEF BlocksOK
  <2>12. InodesOK'
    BY <1>0, <2>8, <2>10 DEF DiskInv, InodesOK
  <2>13. EntriesOK'
    <3>1. \A d \in Dirs : DirBlocks(inode'[d]) = DirBlocks(inode[d]) /\ DirBlocks(inode[d]) \subseteq EntryBlocks
      BY EntryBlocksType, <1>0
    <3>2. \A d \in Dirs : inode[d].direct[0] \in EntryBlocks
      BY <1>0, <3>1, FirstBlock DEF DiskInv
    <3>3. QED
      BY <1>0, <2>7, <2>8, <2>10, <3>1, <3>2 DEF DiskInv, EntriesOK
  <2>14. RefsIn(blk', op.mine) \subseteq bused
    BY <1>0, <2>3, <2>5
  <2>15. ASSUME NEW j \in Owners, j # op.ino
         PROVE  RefsIn(blk', op.mine) \cap Held(j)' = {}
    <3>1. RefsIn(blk, op.mine) \cap Held(j) = {} /\ Held(j)' \subseteq Held(j) /\ p \notin Held(j)
      BY <1>0, <2>4, <2>5, <2>15
    <3>2. QED
      BY <2>3, <3>1
  <2>16. \A c : Untouched(c) /\ c # p => Fresh(c)' /\ c \notin RefsIn(blk', op.mine)
    BY <2>3, <2>10 DEF Untouched, Fresh
  <2>17. QED
    BY <2>2, <2>8, <2>10, <2>11, <2>12, <2>13, <2>14, <2>15, <2>16 DEF DiskInv
<1>4. QED
  BY <1>2, <1>3

\* A pointer set in a table of the file being written reaches the block just taken.
LEMMA SetIndirectSafe ==
  ASSUME TypeInv, SafeInv, NEW ok \in BOOLEAN, SetIndirect(ok)
  PROVE  SafeInv'
<1> DEFINE single == InSingle(op.logical)
           t == IF single THEN op.mine.ind ELSE blk[op.mine.dbl].table[Child]
           k == IF single THEN op.logical - NDirect
                          ELSE (op.logical - NDirect - Pointers) % Pointers
<1>0. /\ TypeOK /\ DiskInv /\ OpInv /\ inode' = inode /\ iused' = iused /\ bused' = bused
      /\ pc = "set_block" /\ op \in Operation /\ op.cmd = "write" /\ NDirect <= op.logical
      /\ MissingTable = "none" /\ op.logical \in Nat /\ op.logical < LargestFile
      /\ blk' = [blk EXCEPT ![t].table[k] = op.phys]
  <2>1. op.goal \in 0 .. LargestFile /\ op.logical < op.goal /\ op.logical \in Nat
    BY DEF TypeInv, SafeInv, SetIndirect, TypeOK, Operation, LocalsOK, Filling, OpInv, WriteOK
  <2>2. QED
    BY <2>1, Records DEF TypeInv, SafeInv, SetIndirect, TypeOK, Operation, LocalsOK, Filling
<1> DEFINE g == op.logical
<1>a. g \in Nat /\ NDirect <= g /\ g < LargestFile
  BY <1>0
<1>1. t \in RefsIn(blk, op.mine) \cup {Null} /\ k \in 0 .. Pointers - 1
  <2>1. CASE InSingle(g)
    <3>1. t = op.mine.ind /\ k = g - NDirect
      BY <2>1
    <3>2. QED
      BY <1>a, <2>1, <3>1, Ext2Assumption DEF InSingle, RefsIn, TablesIn
  <2>2. CASE ~InSingle(g)
    <3>1. /\ t = blk[op.mine.dbl].table[Child] /\ k = (g - NDirect - Pointers) % Pointers
          /\ Child = (g - NDirect - Pointers) \div Pointers
      BY <2>2 DEF Child
    <3>2. op.mine.dbl # Null
      BY <1>0, <2>2 DEF MissingTable
    <3> HIDE DEF g, t, k
    <3>3. NDirect + Pointers <= g
      BY <1>a, <2>2, Ext2Assumption DEF InSingle
    <3>4. g - NDirect - Pointers \in Nat /\ g - NDirect - Pointers < Pointers * Pointers
      BY <1>a, <3>3, Ext2Assumption DEF LargestFile
    <3>5. Child \in 0 .. Pointers - 1 /\ k \in 0 .. Pointers - 1
      BY <3>1, <3>4, DivBound, Ext2Assumption
    <3>6. t \in KidsIn(blk, op.mine.dbl) \cup {Null}
      BY <3>1, <3>2, <3>5 DEF KidsIn
    <3>7. QED
      BY <3>5, <3>6 DEF RefsIn, TablesIn
  <2>3. QED
    BY <2>1, <2>2
<1> HIDE DEF t, k, g
<1>2. op.phys \in Block /\ Untouched(op.phys) /\ blk[op.phys].table = ZeroTable
  <2>1. op.phys \in Block /\ Untouched(op.phys) /\ blk[op.phys] = ZeroBlock
    BY <1>0 DEF OpInv, WriteOK
  <2>2. QED
    BY <2>1 DEF ZeroBlock
<1>3. /\ DiskInv' /\ Dirs' = Dirs /\ Named' = Named /\ Owners' = Owners
      /\ RefsIn(blk', op.mine) \subseteq bused
      /\ \A j \in Owners : j # op.ino => RefsIn(blk', op.mine) \cap Held(j)' = {}
  BY <1>0, <1>1, <1>2, PointerPut
<1>4. CASE ok
  <2>1. /\ op'.cmd = "write" /\ op'.ino = op.ino /\ op'.phys = Null /\ op'.mine = op.mine
        /\ pc' = "write_alloc"
    BY <1>0, <1>4 DEF SetIndirect, Proceed, NextLogical, Operation
  <2>2. WriteOK'
    BY <1>0, <1>3, <2>1 DEF OpInv, WriteOK, Allocating
  <2>3. QED
    BY <1>3, <2>1, <2>2 DEF SafeInv, OpInv, StageOK, CreateOK, AllocOK, DeleteOK,
       Creating, BeforeNew, Adding, Allocating, Freed, Freeing
<1>5. CASE ~ok
  BY <1>3, <1>5, FinishOp DEF SetIndirect, Proceed, SafeInv
<1>6. QED
  BY <1>4, <1>5

\* So does the pointer to a new table in the doubly indirect block.
LEMMA LinkChildSafe ==
  ASSUME TypeInv, SafeInv, NEW ok \in BOOLEAN, LinkChild(ok)
  PROVE  SafeInv'
<1>0. /\ TypeOK /\ DiskInv /\ OpInv /\ inode' = inode /\ iused' = iused /\ bused' = bused
      /\ pc = "link_child" /\ op \in Operation /\ op.cmd = "write"
      /\ blk' = [blk EXCEPT ![op.mine.dbl].table[Child] = op.new]
  BY DEF TypeInv, SafeInv, LinkChild, TypeOK, LocalsOK, Filling
<1>1. /\ op.new \in Block /\ Untouched(op.new) /\ blk[op.new].table = ZeroTable /\ op.new # op.phys
      /\ op.phys \in Block /\ Untouched(op.phys) /\ blk[op.phys] = ZeroBlock
  BY <1>0 DEF OpInv, AllocOK, WriteOK, ZeroBlock
<1>2. op.mine.dbl \in RefsIn(blk, op.mine) \cup {Null}
  BY DEF RefsIn, TablesIn
<1>3. /\ DiskInv' /\ Dirs' = Dirs /\ Named' = Named /\ Owners' = Owners
      /\ RefsIn(blk', op.mine) \subseteq bused
      /\ \A j \in Owners : j # op.ino => RefsIn(blk', op.mine) \cap Held(j)' = {}
      /\ \A c : Untouched(c) /\ c # op.new => Fresh(c)' /\ c \notin RefsIn(blk', op.mine)
      /\ \A c : c # op.mine.dbl => blk'[c] = blk[c]
  BY <1>0, <1>1, <1>2, PointerPut
<1>4. CASE ok
  <2>1. op' = op /\ pc' = "set_block"
    BY <1>4 DEF LinkChild, Proceed
  <2>2. op.phys # op.mine.dbl
    BY <1>0, <1>1, <1>2, NotNull DEF Untouched
  <2>3. WriteOK'
    BY <1>0, <1>1, <1>3, <2>1, <2>2 DEF OpInv, WriteOK, Allocating, Untouched
  <2>4. QED
    BY <1>0, <1>3, <2>1, <2>3 DEF SafeInv, OpInv, StageOK, CreateOK, AllocOK, DeleteOK,
       Creating, BeforeNew, Adding, Allocating, Freed, Freeing
<1>5. CASE ~ok
  BY <1>3, <1>5, FinishOp DEF LinkChild, Proceed, SafeInv
<1>6. QED
  BY <1>4, <1>5

\* Data goes into a block of the file being written: no directory has it.
LEMMA WriteDataSafe ==
  ASSUME TypeInv, SafeInv, NEW ok \in BOOLEAN, WriteData(ok)
  PROVE  SafeInv'
<1> DEFINE x == BlockOf(op.mine, op.logical)
           z == [ZeroBlock EXCEPT !.own = <<op.ino, op.logical>>]
<1>0. /\ TypeOK /\ DiskInv /\ OpInv /\ inode' = inode /\ iused' = iused /\ bused' = bused
      /\ pc = "write_data" /\ op \in Operation /\ op.cmd = "write" /\ op.mine \in InodeRecord
      /\ op.logical \in Nat /\ op.logical < LargestFile
      /\ blk' = [blk EXCEPT ![x] = z] /\ z.table = ZeroTable
  <2>1. op.goal \in 0 .. LargestFile /\ op.logical < op.goal /\ op.logical \in Nat
    BY DEF TypeInv, SafeInv, WriteData, TypeOK, Operation, LocalsOK, Filling
  <2>2. QED
    BY <2>1, Records DEF TypeInv, SafeInv, WriteData, TypeOK, Operation, LocalsOK, Filling, ZeroBlock
<1>1. x \in RefsIn(blk, op.mine) \cup {Null}
  BY <1>0, BlockOfRefs
<1> HIDE DEF x, z
<1>2. \A c \in Block : blk'[c] = IF c = x THEN z ELSE blk[c]
  BY <1>0 DEF TypeOK
<1>3. \A rec \in InodeRecord : RefsIn(blk', rec) \subseteq RefsIn(blk, rec)
  BY <1>0, <1>2, RefsShrink, RefsType DEF TypeOK
<1>4. x \notin EntryBlocks
  BY <1>0, <1>1, MineApart, EntryBlocksType, NotNull
<1>5. \A c \in EntryBlocks : blk'[c] = blk[c]
  BY <1>0, <1>2, <1>4, EntryBlocksType
<1>6. Dirs' = Dirs
  BY <1>0 DEF Dirs
<1>7. \A i \in Owners : Held(i)' \subseteq Held(i) /\ Held(i)' \subseteq bused'
  <2>1. \A i \in Owners : i \in Inode /\ inode[i] \in InodeRecord
    BY <1>0 DEF DiskInv, InodesOK, Owners, Dirs, TypeOK
  <2>2. QED
    BY <1>0, <1>3, <2>1 DEF Held, DiskInv, BlocksOK
<1>8. BlocksOK' /\ EntriesOK' /\ Named' = Named /\ Owners' = Owners
  BY <1>0, <1>5, <1>6, <1>7, DiskStays DEF DiskInv
<1>9. InodesOK'
  BY <1>0, <1>6, <1>8 DEF InodesOK, DiskInv
<1>10. CASE ok
  <2>1. /\ op'.cmd = "write" /\ op'.ino = op.ino /\ op'.mine = op.mine /\ pc' = "write_data"
    BY <1>0, <1>10 DEF WriteData, Proceed, NextLogical, Operation
  <2>2. WriteOK'
    BY <1>0, <1>3, <1>7, <1>8, <2>1 DEF OpInv, WriteOK, Allocating
  <2>3. QED
    BY <1>8, <1>9, <2>1, <2>2 DEF SafeInv, DiskInv, OpInv, StageOK, CreateOK, AllocOK, DeleteOK,
       Creating, BeforeNew, Adding, Allocating, Freed, Freeing
<1>11. CASE ~ok
  BY <1>8, <1>9, <1>11, FinishOp DEF WriteData, Proceed, SafeInv, DiskInv
<1>12. QED
  BY <1>10, <1>11

\* The inode written last reaches what the one in memory reached.
LEMMA WriteSizeSafe ==
  ASSUME TypeInv, SafeInv, NEW ok \in BOOLEAN, WriteSize(ok)
  PROVE  SafeInv'
<1>0. /\ TypeOK /\ DiskInv /\ OpInv /\ blk' = blk /\ iused' = iused /\ bused' = bused
      /\ op.cmd = "write" /\ op.mine \in InodeRecord /\ op.mine.type = "file"
      /\ inode' = [inode EXCEPT ![op.ino] = [op.mine EXCEPT !.size = op.goal]]
  BY DEF TypeInv, SafeInv, WriteSize, TypeOK, Operation, LocalsOK, Filling
<1>1. /\ op.ino \in Owners /\ op.ino \notin Dirs /\ op.ino \in Inode
      /\ \A j \in Owners : j # op.ino => RefsIn(blk, op.mine) \cap Held(j) = {}
      /\ RefsIn(blk, op.mine) \subseteq bused
  BY <1>0, MineApart DEF OpInv, WriteOK
<1>2. /\ inode'[op.ino].type = "file" /\ \A i \in Inode : i # op.ino => inode'[i] = inode[i]
      /\ inode'[op.ino].direct = op.mine.direct
      /\ inode'[op.ino].ind = op.mine.ind /\ inode'[op.ino].dbl = op.mine.dbl
  BY <1>0, <1>1 DEF TypeOK, InodeRecord
<1>3. RefsIn(blk, inode'[op.ino]) = RefsIn(blk, op.mine)
  BY <1>2, RefsSame
<1>4. \A i \in Owners : i \in Inode
  BY <1>0 DEF DiskInv, InodesOK, Owners, Dirs, TypeOK
<1>5. \A i : i \in Dirs' <=> i \in Dirs
  BY <1>0, <1>1, <1>2, <1>4 DEF Dirs, Owners, TypeOK
<1>6. Dirs' = Dirs /\ \A d \in Dirs : inode'[d] = inode[d]
  BY <1>1, <1>2, <1>4, <1>5 DEF Owners
<1>7. Named' = Named /\ Owners' = Owners /\ EntryBlocks' = EntryBlocks
  BY <1>0, <1>6, NamesStay
<1>8. \A i \in Owners : Held(i)' = IF i = op.ino THEN RefsIn(blk, op.mine) ELSE Held(i)
  BY <1>0, <1>2, <1>3, <1>4 DEF Held
<1>9. BlocksOK'
  BY <1>0, <1>1, <1>7, <1>8 DEF DiskInv, BlocksOK
<1>10. InodesOK'
  BY <1>0, <1>1, <1>2, <1>4, <1>6, <1>7 DEF DiskInv, InodesOK, Owners
<1>11. EntriesOK'
  <2>1. \A d \in Dirs : DirBlocks(inode'[d]) = DirBlocks(inode[d])
    BY <1>6 DEF DirBlocks
  <2>2. \A d \in Dirs : inode'[d].direct = inode[d].direct
    BY <1>6
  <2>3. QED
    BY <1>0, <1>6, <1>7, <2>1, <2>2 DEF DiskInv, EntriesOK
<1>12. QED
  BY <1>9, <1>10, <1>11, FinishOp DEF WriteSize, SafeInv, DiskInv
-----------------------------------------------------------------------------
(* The steps of a creation.                                                *)

\* A new file reaches nothing, a new directory its one block.
LEMMA NewInodeRefs ==
  ASSUME NEW B, NEW b, b # Null => B[b].table = ZeroTable
  PROVE  /\ RefsIn(B, FileInode) = {}
         /\ RefsIn(B, DirInode(b)) \subseteq {b}
         /\ DirBlocks(DirInode(b)) = {b} /\ DirInode(b).direct[0] = b
<1>1. \A l \in 0 .. NDirect - 1 : FileInode.direct[l] = Null /\ DirInode(b).direct[l] \in {Null, b}
  BY DEF FileInode, DirInode, ZeroInode
<1>2. FileInode.ind = Null /\ FileInode.dbl = Null /\ DirInode(b).ind = Null /\ DirInode(b).dbl = Null
  BY DEF FileInode, DirInode, ZeroInode
<1>3. TablesIn(B, FileInode) = {} /\ TablesIn(B, DirInode(b)) = {}
  BY <1>2 DEF TablesIn, KidsIn
<1>4. DirInode(b).direct[0] = b /\ DirInode(b).size = 1
  BY Ext2Assumption DEF DirInode, ZeroInode
<1>5. DirBlocks(DirInode(b)) = {b}
  <2>1. 0 .. DirInode(b).size - 1 = {0}
    BY <1>4
  <2>2. QED
    BY <1>4, <2>1 DEF DirBlocks
<1>6. QED
  BY <1>1, <1>3, <1>4, <1>5 DEF RefsIn

\* A directory without a name owns its block and names nothing.
LEMMA DirectoryMade ==
  ASSUME TypeOK, DiskInv, NEW o \in Inode, NEW b \in Block, Fresh(b), o \in iused, o \notin Owners,
         blk[b].table = ZeroTable, blk[b].ents = {},
         inode' = [inode EXCEPT ![o] = DirInode(b)], blk' = blk, iused' = iused, bused' = bused
  PROVE  /\ DiskInv' /\ Dirs' = Dirs \cup {o} /\ Named' = Named
         /\ \A i \in Owners : inode'[i] = inode[i]
<1>1. inode'[o] = DirInode(b) /\ \A i \in Inode : i # o => inode'[i] = inode[i]
  BY DEF TypeOK
<1>2. \A i \in Owners : i \in Inode /\ i # o /\ inode'[i] = inode[i] /\ Held(i)' = Held(i)
  BY <1>1 DEF Owners, Held, DiskInv, InodesOK, TypeOK, Dirs
<1>3. DirInode(b).type = "dir" /\ DirInode(b).size = 1
  BY DEF DirInode, ZeroInode
<1>4. /\ DirBlocks(inode'[o]) = {b} /\ inode'[o].direct[0] = b
      /\ Held(o)' \subseteq {b}
  BY <1>1, NewInodeRefs DEF Held
<1>5. \A d \in Dirs : inode'[d] = inode[d] /\ DirBlocks(inode'[d]) = DirBlocks(inode[d])
  BY <1>2 DEF Owners, DirBlocks
<1>6. \A d : d \in Dirs' <=> d \in Dirs \/ d = o
  BY <1>1, <1>3 DEF Dirs, TypeOK
<1>7. Dirs' = Dirs \cup {o}
  BY <1>6
<1>8. EntryBlocks' = EntryBlocks \cup {b}
  BY <1>4, <1>5, <1>7 DEF EntryBlocks
<1>9. \A i : i \in Named' <=> i \in Named
  BY <1>8, NamedByBlocks
<1>10. Named' = Named /\ Owners' = Owners \cup {o}
  BY <1>7, <1>9 DEF Owners
<1>11. BlocksOK'
  BY <1>2, <1>4, <1>10 DEF DiskInv, BlocksOK, Fresh
<1>12. InodesOK'
  BY <1>1, <1>2, <1>3, <1>7, <1>10 DEF DiskInv, InodesOK, Owners
<1>13. \A d \in Dirs : \A c \in DirBlocks(inode[d]) : \A e \in blk[c].ents : e.ino # o
  BY NamedByBlocks, EntryBlocksType DEF Owners
<1>14. EntriesOK'
  <2>1. /\ \A c, f \in EntryBlocks' : \A e \in blk[c].ents, g \in blk[f].ents :
             e.ino = g.ino => c = f /\ e = g
        /\ \A d \in Dirs' : \A c, f \in DirBlocks(inode'[d]) : \A e \in blk[c].ents, g \in blk[f].ents :
             e.name = g.name => e = g
    BY <1>4, <1>5, <1>7, <1>8 DEF DiskInv, EntriesOK
  <2>2. ASSUME NEW d \in Dirs', NEW c \in DirBlocks(inode'[d]), NEW e \in blk[c].ents
        PROVE  e.ino # Root /\ (e.ino \in Dirs' => blk[inode'[e.ino].direct[0]].up = d)
    <3>1. d \in Dirs /\ c \in DirBlocks(inode[d])
      BY <1>4, <1>5, <1>7, <2>2
    <3>2. e.ino # Root /\ e.ino # o /\ (e.ino \in Dirs => blk[inode[e.ino].direct[0]].up = d)
      BY <1>13, <3>1 DEF DiskInv, EntriesOK
    <3>3. QED
      BY <1>5, <1>7, <3>2
  <2>3. QED
    BY <2>1, <2>2 DEF EntriesOK
<1>15. QED
  BY <1>2, <1>7, <1>10, <1>11, <1>12, <1>14 DEF DiskInv

\* The inode of a new file reaches nothing, that of a new directory its block alone.
LEMMA WriteNewInodeSafe ==
  ASSUME TypeInv, SafeInv, NEW ok \in BOOLEAN, WriteNewInode(ok)
  PROVE  SafeInv'
<1>0. /\ TypeOK /\ DiskInv /\ OpInv /\ blk' = blk /\ iused' = iused /\ bused' = bused
      /\ pc = "write_new" /\ Creating /\ op.ino \in Inode
  BY DEF TypeInv, SafeInv, WriteNewInode, LocalsOK, Naming, Creating
<1>1. /\ op.ino \in iused /\ op.ino \notin Named /\ op.ino # op.dir /\ op.ino \notin Owners
      /\ op.dir \in Dirs /\ op.parent = inode[op.dir] /\ NewName(op.dir) /\ op.ino # Root
      /\ op.cmd = "mkdir" => /\ op.phys \in Block /\ Fresh(op.phys)
                             /\ blk[op.phys] = [ZeroBlock EXCEPT !.up = op.dir]
  BY <1>0 DEF OpInv, CreateOK, Creating, BeforeNew, Owners, Dirs
<1>2. /\ inode'[op.ino] = IF op.cmd = "mkdir" THEN DirInode(op.phys) ELSE FileInode
      /\ \A i \in Inode : i # op.ino => inode'[i] = inode[i]
  BY <1>0 DEF WriteNewInode, TypeOK
<1>3. \A i \in Owners : i \in Inode /\ i # op.ino /\ inode'[i] = inode[i] /\ Held(i)' = Held(i)
  BY <1>0, <1>1, <1>2 DEF Owners, Held, DiskInv, InodesOK, TypeOK, Dirs
<1>4. FileInode.type = "file" /\ DirInode(op.phys).type = "dir" /\ DirInode(op.phys).size = 1
  BY DEF FileInode, DirInode, ZeroInode
<1>5. \A d \in Dirs : inode'[d] = inode[d] /\ DirBlocks(inode'[d]) = DirBlocks(inode[d])
  BY <1>3 DEF Owners, DirBlocks
<1>6. \A i \in Owners : Held(i)' \subseteq Held(i) /\ Held(i)' \subseteq bused'
  BY <1>0, <1>3 DEF DiskInv, BlocksOK
<1>7. CASE op.cmd = "create"
  <2>1. Dirs' = Dirs
    BY <1>0, <1>1, <1>2, <1>4, <1>7 DEF Dirs, TypeOK, Owners
  <2>2. BlocksOK' /\ EntriesOK' /\ Named' = Named /\ Owners' = Owners
    BY <1>0, <1>3, <1>6, <2>1, DiskStays DEF DiskInv, Owners
  <2>3. InodesOK'
    BY <1>0, <1>2, <1>3, <1>4, <1>7, <2>1, <2>2 DEF InodesOK, DiskInv, Owners
  <2>4. CASE ok
    <3>1. pc' = "add_entry" /\ op' = op
      BY <2>4 DEF WriteNewInode, Proceed
    <3>2. NewName(op.dir)'
      BY <1>0, <1>1, <1>5, <3>1 DEF NewName
    <3>3. CreateOK'
      BY <1>0, <1>1, <1>2, <1>5, <1>7, <2>1, <2>2, <3>1, <3>2
         DEF CreateOK, Creating, BeforeNew, Adding, Allocating
    <3>4. QED
      BY <1>0, <1>7, <2>2, <2>3, <3>1, <3>3 DEF SafeInv, DiskInv, OpInv, StageOK, AllocOK, WriteOK,
         DeleteOK, Creating, BeforeNew, Adding, Allocating, Freed, Freeing
  <2>5. CASE ~ok
    BY <2>2, <2>3, <2>5, FinishOp DEF WriteNewInode, Proceed, SafeInv, DiskInv
  <2>6. QED
    BY <2>4, <2>5
<1>8. CASE op.cmd = "mkdir"
  <2>0. /\ op.phys \in Block /\ Fresh(op.phys) /\ blk[op.phys].table = ZeroTable
        /\ blk[op.phys].ents = {} /\ blk[op.phys].up = op.dir
        /\ inode' = [inode EXCEPT ![op.ino] = DirInode(op.phys)]
    BY <1>1, <1>8 DEF ZeroBlock, WriteNewInode
  <2>1. DiskInv' /\ Dirs' = Dirs \cup {op.ino} /\ Named' = Named
    BY <1>0, <1>1, <2>0, DirectoryMade
  <2>2. inode'[op.ino].direct[0] = op.phys
    BY <1>2, <1>8, NewInodeRefs, <2>0
  <2>3. CASE ok
    <3>1. pc' = "add_entry" /\ op' = op
      BY <2>3 DEF WriteNewInode, Proceed
    <3>2. NewName(op.dir)'
      BY <1>0, <1>1, <1>5, <3>1 DEF NewName
    <3>3. CreateOK'
      BY <1>0, <1>1, <1>2, <1>5, <1>8, <2>0, <2>1, <2>2, <3>1, <3>2
         DEF CreateOK, Creating, BeforeNew, Adding, Allocating
    <3>4. QED
      BY <1>0, <1>8, <2>1, <3>1, <3>3 DEF SafeInv, OpInv, StageOK, AllocOK, WriteOK,
         DeleteOK, Creating, BeforeNew, Adding, Allocating, Freed, Freeing
  <2>4. CASE ~ok
    BY <2>1, <2>4, FinishOp DEF WriteNewInode, Proceed, SafeInv
  <2>5. QED
    BY <2>3, <2>4
<1>9. QED
  BY <1>0, <1>7, <1>8 DEF Creating

\* One new entry, of a new name and an inode without a name, keeps the entries in order.
LEMMA EntryNew ==
  ASSUME TypeOK, EntriesOK, Dirs' = Dirs, NEW D \in Dirs, NEW b \in Block, NEW e0 \in Entry,
         e0.ino \notin Named, e0.ino # Root,
         \A c \in DirBlocks(inode[D]) : \A e \in blk[c].ents : e.name # e0.name,
         e0.ino \in Dirs => blk[inode[e0.ino].direct[0]].up = D,
         \A d \in Dirs : \A c \in DirBlocks(inode'[d]) : \A e \in blk'[c].ents :
           (c \in DirBlocks(inode[d]) /\ e \in blk[c].ents) \/ (d = D /\ c = b /\ e = e0),
         \A d \in Dirs : blk'[inode'[d].direct[0]].up = blk[inode[d].direct[0]].up
  PROVE  EntriesOK'
<1>1. \A d \in Dirs : \A c \in DirBlocks(inode[d]) : \A e \in blk[c].ents : e.ino # e0.ino
  BY NamedByBlocks, EntryBlocksType
<1>2. \A c : c \in EntryBlocks' <=> \E d \in Dirs : c \in DirBlocks(inode'[d])
  BY DEF EntryBlocks
<1>3. \A d \in Dirs : DirBlocks(inode[d]) \subseteq EntryBlocks
  BY EntryBlocksType
<1>4. ASSUME NEW c \in EntryBlocks', NEW e \in blk'[c].ents
      PROVE  (c \in EntryBlocks /\ e \in blk[c].ents /\ e.ino # e0.ino) \/ (c = b /\ e = e0)
  BY <1>1, <1>2, <1>3, <1>4
<1>5. \A c, f \in EntryBlocks' : \A e \in blk'[c].ents, g \in blk'[f].ents :
         e.ino = g.ino => c = f /\ e = g
  <2>1. ASSUME NEW c \in EntryBlocks', NEW f \in EntryBlocks',
               NEW e \in blk'[c].ents, NEW g \in blk'[f].ents, e.ino = g.ino
        PROVE  c = f /\ e = g
    <3>1. (c \in EntryBlocks /\ e \in blk[c].ents /\ e.ino # e0.ino) \/ (c = b /\ e = e0)
      BY <1>4, <2>1
    <3>2. (f \in EntryBlocks /\ g \in blk[f].ents /\ g.ino # e0.ino) \/ (f = b /\ g = e0)
      BY <1>4, <2>1
    <3>3. QED
      BY <2>1, <3>1, <3>2 DEF EntriesOK
  <2>2. QED
    BY <2>1
<1>6. \A d \in Dirs : \A c, f \in DirBlocks(inode'[d]) : \A e \in blk'[c].ents, g \in blk'[f].ents :
         e.name = g.name => e = g
  BY DEF EntriesOK
<1>7. \A d \in Dirs : \A c \in DirBlocks(inode'[d]) : \A e \in blk'[c].ents :
         e.ino # Root /\ (e.ino \in Dirs => blk'[inode'[e.ino].direct[0]].up = d)
  BY DEF EntriesOK
<1>8. QED
  BY <1>5, <1>6, <1>7 DEF EntriesOK

\* The entry written to a block of the directory.
LEMMA EntryAdded ==
  ASSUME TypeOK, DiskInv, NEW D \in Dirs, NEW b \in DirBlocks(inode[D]), NEW e0 \in Entry,
         e0.ino \notin Named, e0.ino # Root, e0.ino \in iused, inode[e0.ino].type \in {"file", "dir"},
         \A c \in DirBlocks(inode[D]) : \A e \in blk[c].ents : e.name # e0.name,
         e0.ino \in Dirs => blk[inode[e0.ino].direct[0]].up = D,
         e0.ino \notin Dirs => Held(e0.ino) = {},
         blk' = [blk EXCEPT ![b].ents = @ \cup {e0}], inode' = inode, iused' = iused, bused' = bused
  PROVE  /\ DiskInv' /\ Dirs' = Dirs /\ Named' = Named \cup {e0.ino}
         /\ \A c \in Block : blk'[c].up = blk[c].up
<1>1. b \in Block /\ b \in EntryBlocks
  BY EntryBlocksType
<1>2. /\ blk'[b].ents = blk[b].ents \cup {e0} /\ blk'[b].up = blk[b].up /\ blk'[b].table = blk[b].table
      /\ \A c : c # b => blk'[c] = blk[c]
  BY <1>1 DEF TypeOK, BlockRecord
<1>3. Dirs' = Dirs /\ EntryBlocks' = EntryBlocks
  BY DEF Dirs, EntryBlocks
<1>4. \A i : i \in Named' <=> i \in Named \/ i = e0.ino
  BY <1>1, <1>2, <1>3, NamedByBlocks
<1>5. Named' = Named \cup {e0.ino} /\ Owners' = Owners \cup {e0.ino}
  BY <1>3, <1>4 DEF Owners
<1>6. \A i : Held(i)' \subseteq Held(i)
  <2>1. \A rec : RefsIn(blk', rec) \subseteq RefsIn(blk, rec)
    BY <1>2, RefsShrink
  <2>2. QED
    BY <2>1 DEF Held
<1>7. BlocksOK'
  BY <1>5, <1>6 DEF DiskInv, BlocksOK, Owners
<1>8. InodesOK'
  BY <1>3, <1>5 DEF DiskInv, InodesOK
<1>9. EntriesOK'
  <2>1. \A d \in Dirs : b \in DirBlocks(inode[d]) => d = D
    BY EntryBlocksType DEF DiskInv, BlocksOK, Owners
  <2>2. \A d \in Dirs : \A c \in DirBlocks(inode'[d]) : \A e \in blk'[c].ents :
          (c \in DirBlocks(inode[d]) /\ e \in blk[c].ents) \/ (d = D /\ c = b /\ e = e0)
    BY <1>2, <2>1
  <2>3. \A d \in Dirs : blk'[inode'[d].direct[0]].up = blk[inode[d].direct[0]].up
    BY <1>2
  <2>4. QED
    BY <1>1, <1>3, <2>2, <2>3, EntryNew DEF DiskInv
<1>10. QED
  BY <1>2, <1>3, <1>5, <1>7, <1>8, <1>9 DEF DiskInv

\* The directory's inode that names one more block, with one entry in it.
LEMMA EntryGrown ==
  ASSUME TypeOK, DiskInv, NEW D \in Dirs, NEW b \in Block, Fresh(b), NEW e0 \in Entry,
         blk[b].ents = {e0}, NEW rec, rec.type = "dir", rec.size > 0,
         e0.ino \notin Named, e0.ino # Root, e0.ino \in iused, inode[e0.ino].type \in {"file", "dir"},
         \A c \in DirBlocks(inode[D]) : \A e \in blk[c].ents : e.name # e0.name,
         e0.ino \in Dirs => blk[inode[e0.ino].direct[0]].up = D, e0.ino # D,
         e0.ino \notin Dirs => Held(e0.ino) = {},
         DirBlocks(rec) = DirBlocks(inode[D]) \cup {b}, rec.direct[0] = inode[D].direct[0],
         RefsIn(blk, rec) \subseteq Held(D) \cup {b},
         inode' = [inode EXCEPT ![D] = rec], blk' = blk, iused' = iused, bused' = bused
  PROVE  /\ DiskInv' /\ Dirs' = Dirs /\ Named' = Named \cup {e0.ino}
<1>0. D \in Inode /\ \A i \in Owners : i \in Inode
  BY DEF Dirs, Owners, DiskInv, InodesOK, TypeOK
<1>1. inode'[D] = rec /\ \A i \in Inode : i # D => inode'[i] = inode[i]
  BY <1>0 DEF TypeOK
<1>2. \A i : i \in Dirs' <=> i \in Dirs
  BY <1>0, <1>1 DEF Dirs, TypeOK
<1>3. Dirs' = Dirs /\ \A d \in Dirs : d \in Inode
  BY <1>2 DEF Dirs, TypeOK
<1>4. \A d \in Dirs : DirBlocks(inode'[d]) = DirBlocks(inode[d]) \cup IF d = D THEN {b} ELSE {}
  BY <1>1, <1>3 DEF DirBlocks
<1>5. EntryBlocks' = EntryBlocks \cup {b}
  BY <1>3, <1>4 DEF EntryBlocks
<1>6. \A i : i \in Named' <=> i \in Named \/ i = e0.ino
  BY <1>5, NamedByBlocks
<1>7. Named' = Named \cup {e0.ino} /\ Owners' = Owners \cup {e0.ino}
  BY <1>3, <1>6 DEF Owners
<1>8. /\ Held(D)' \subseteq Held(D) \cup {b}
      /\ \A i \in Inode : i # D => Held(i)' = Held(i)
  BY <1>1 DEF Held
<1>9. e0.ino \in Inode
  BY DEF TypeOK
<1>10. BlocksOK'
  <2>1. \A i \in Owners' : Held(i)' \subseteq bused'
    BY <1>0, <1>7, <1>8, <1>9 DEF DiskInv, BlocksOK, Owners, Fresh
  <2>2. ASSUME NEW i \in Owners', NEW j \in Owners', i # j
        PROVE  Held(i)' \cap Held(j)' = {}
    <3>1. Held(i) \cap Held(j) = {}
      BY <1>7, <2>2 DEF DiskInv, BlocksOK, Owners
    <3>2. b \notin Held(i) /\ b \notin Held(j)
      BY <1>7 DEF Fresh, Owners
    <3>3. i \in Inode /\ j \in Inode
      BY <1>0, <1>7, <1>9
    <3>4. QED
      BY <1>8, <2>2, <3>1, <3>2, <3>3
  <2>3. QED
    BY <2>1, <2>2 DEF BlocksOK
<1>11. InodesOK'
  BY <1>0, <1>1, <1>3, <1>7, <1>9 DEF DiskInv, InodesOK, Dirs
<1>12. EntriesOK'
  <2>1. \A d \in Dirs : \A c \in DirBlocks(inode'[d]) : \A e \in blk'[c].ents :
          (c \in DirBlocks(inode[d]) /\ e \in blk[c].ents) \/ (d = D /\ c = b /\ e = e0)
    BY <1>4
  <2>2. \A d \in Dirs : blk'[inode'[d].direct[0]].up = blk[inode[d].direct[0]].up
    BY <1>1, <1>3
  <2>3. QED
    BY <1>3, <2>1, <2>2, EntryNew DEF DiskInv
<1>13. QED
  BY <1>3, <1>7, <1>10, <1>11, <1>12 DEF DiskInv

\* An entry is added for an inode without one, under a name the directory does not have.
LEMMA AddEntrySafe ==
  ASSUME TypeInv, SafeInv, NEW ok \in BOOLEAN, AddEntry(ok)
  PROVE  SafeInv'
<1>0. /\ TypeOK /\ DiskInv /\ OpInv /\ inode' = inode /\ iused' = iused /\ bused' = bused
      /\ pc = "add_entry" /\ Creating /\ op.ino \in Inode /\ op.name \in Name
  BY DEF TypeInv, SafeInv, AddEntry, LocalsOK, Naming, Creating
<1>1. /\ op.ino \in iused /\ op.ino \notin Named /\ op.ino # op.dir /\ op.ino # Root
      /\ op.dir \in Dirs /\ op.parent = inode[op.dir] /\ NewName(op.dir)
      /\ IF op.cmd = "create" THEN inode[op.ino] = FileInode
         ELSE op.ino \in Dirs /\ blk[inode[op.ino].direct[0]].up = op.dir
  BY <1>0 DEF OpInv, CreateOK, Creating, BeforeNew, Adding
<1>2. /\ inode[op.ino].type \in {"file", "dir"}
      /\ op.ino \notin Dirs => op.cmd = "create"
      /\ op.cmd = "create" => op.ino \notin Dirs /\ Held(op.ino) = {}
  BY <1>1, NewInodeRefs DEF FileInode, ZeroInode, Dirs, Held
<1>3. PICK b \in DirBlocks(inode[op.dir]) : blk' = [blk EXCEPT ![b].ents = @ \cup {NewEntry}]
  BY <1>1 DEF AddEntry, Rooms, DirBlocks
<1>4. NewEntry \in Entry /\ NewEntry.ino = op.ino /\ NewEntry.name = op.name
  BY <1>0 DEF NewEntry, Entry
<1>5. /\ DiskInv' /\ Dirs' = Dirs /\ Named' = Named \cup {op.ino}
      /\ \A c \in Block : blk'[c].up = blk[c].up
  <2>1. PICK e0 \in Entry, D \in Dirs : e0 = NewEntry /\ D = op.dir
    BY <1>1, <1>4
  <2>2. /\ e0.ino \notin Named /\ e0.ino # Root /\ e0.ino \in iused
        /\ inode[e0.ino].type \in {"file", "dir"}
        /\ \A c \in DirBlocks(inode[D]) : \A e \in blk[c].ents : e.name # e0.name
        /\ e0.ino \in Dirs => blk[inode[e0.ino].direct[0]].up = D
        /\ e0.ino \notin Dirs => Held(e0.ino) = {}
        /\ blk' = [blk EXCEPT ![b].ents = @ \cup {e0}]
    BY <1>1, <1>2, <1>3, <1>4, <2>1 DEF NewName
  <2>3. b \in DirBlocks(inode[D])
    BY <1>3, <2>1
  <2>4. /\ DiskInv' /\ Dirs' = Dirs /\ Named' = Named \cup {e0.ino}
        /\ \A c \in Block : blk'[c].up = blk[c].up
    BY <1>0, <2>2, <2>3, EntryAdded
  <2>5. QED
    BY <1>4, <2>1, <2>4
<1>6. CASE ok
  <2>1. pc' = "write_parent" /\ op' = op
    BY <1>6 DEF AddEntry, Proceed
  <2>2. CreateOK'
    BY <1>0, <1>1, <1>5, <2>1, FirstBlock
       DEF DiskInv, CreateOK, Creating, BeforeNew, Adding, Allocating
  <2>3. QED
    BY <1>0, <1>5, <2>1, <2>2 DEF SafeInv, OpInv, StageOK, AllocOK, WriteOK,
       DeleteOK, Creating, BeforeNew, Adding, Allocating, Freed, Freeing
<1>7. CASE ~ok
  BY <1>5, <1>7, FinishOp DEF AddEntry, Proceed, SafeInv
<1>8. QED
  BY <1>6, <1>7

\* The directory's inode as its last write of a creation leaves the disk.
LEMMA WriteParentDisk ==
  ASSUME TypeInv, SafeInv, NEW ok \in BOOLEAN, WriteParent(ok)
  PROVE  /\ DiskInv' /\ op.ino \in Named'
         /\ op.cmd = "create" => inode[op.ino] = FileInode /\ inode'[op.ino] = FileInode
<1> DEFINE L == IF op.cmd = "mkdir" THEN [op.parent EXCEPT !.links = @ + 1] ELSE op.parent
<1>0. /\ TypeOK /\ DiskInv /\ OpInv /\ blk' = blk /\ iused' = iused /\ bused' = bused
      /\ pc = "write_parent" /\ Creating /\ op.ino \in Inode /\ op.name \in Name /\ op.dir \in Inode
      /\ inode' = [inode EXCEPT ![op.dir] = L] /\ op.parent \in InodeRecord
  BY DEF TypeInv, SafeInv, WriteParent, LocalsOK, Naming, Creating, TypeOK, Operation
<1>1. /\ op.ino \in iused /\ op.ino # op.dir /\ op.ino # Root /\ op.dir \in Dirs
      /\ IF op.cmd = "create" THEN inode[op.ino] = FileInode
         ELSE op.ino \in Dirs /\ blk[inode[op.ino].direct[0]].up = op.dir
      /\ (op.parent = inode[op.dir] /\ op.ino \in Named) \/ Grown
  BY <1>0 DEF OpInv, CreateOK, Creating, BeforeNew, Adding
<1>2. /\ L.direct = op.parent.direct /\ L.ind = op.parent.ind /\ L.dbl = op.parent.dbl
      /\ L.size = op.parent.size /\ L.type = op.parent.type
  BY <1>0 DEF InodeRecord
<1> HIDE DEF L
<1>3. inode'[op.dir] = L /\ \A i \in Inode : i # op.dir => inode'[i] = inode[i]
  BY <1>0 DEF TypeOK
<1>4. op.cmd = "create" => inode[op.ino] = FileInode /\ inode'[op.ino] = FileInode
  BY <1>0, <1>1, <1>3
<1>5. inode[op.dir].type = "dir" /\ inode[op.dir] \in InodeRecord /\ inode[op.dir].size > 0
  BY <1>0, <1>1 DEF Dirs, TypeOK, DiskInv, InodesOK
<1>6. CASE op.parent = inode[op.dir] /\ op.ino \in Named
  <2>1. \A i : i \in Dirs' <=> i \in Dirs
    BY <1>0, <1>1, <1>2, <1>3, <1>5, <1>6 DEF Dirs, TypeOK
  <2>2. Dirs' = Dirs /\ \A i \in Owners : i \in Inode
    BY <1>0, <2>1 DEF Dirs, Owners, DiskInv, InodesOK, TypeOK
  <2>3. \A i \in Inode : /\ inode'[i].direct = inode[i].direct /\ inode'[i].ind = inode[i].ind
                         /\ inode'[i].dbl = inode[i].dbl /\ inode'[i].size = inode[i].size
                         /\ inode'[i].type = inode[i].type
    BY <1>2, <1>3, <1>6
  <2>4. \A i \in Inode : RefsIn(blk, inode'[i]) = RefsIn(blk, inode[i])
    BY <2>3, RefsSame
  <2>5. \A i \in Owners : Held(i)' \subseteq Held(i) /\ Held(i)' \subseteq bused'
    BY <1>0, <2>2, <2>4 DEF Held, DiskInv, BlocksOK
  <2>6. BlocksOK' /\ EntriesOK' /\ Named' = Named /\ Owners' = Owners
    <3>1. \A d \in Dirs : inode'[d].direct = inode[d].direct /\ inode'[d].size = inode[d].size
      BY <2>2, <2>3 DEF Owners
    <3>2. QED
      BY <1>0, <2>2, <2>5, <3>1, DiskStays DEF DiskInv
  <2>7. InodesOK'
    BY <1>0, <2>2, <2>3, <2>6 DEF DiskInv, InodesOK, Owners
  <2>8. QED
    BY <1>4, <1>6, <2>6, <2>7 DEF DiskInv
<1>7. CASE Grown
  <2>1. PICK e0 \in Entry, D \in Dirs, b \in Block : e0 = NewEntry /\ D = op.dir /\ b = op.phys
    BY <1>0, <1>1, <1>7 DEF NewEntry, Entry, Grown
  <2>2. e0.ino = op.ino /\ e0.name = op.name
    BY <2>1 DEF NewEntry
  <2>3. /\ e0.ino \notin Named /\ e0.ino # Root /\ e0.ino \in iused /\ e0.ino # D
        /\ \A c \in DirBlocks(inode[D]) : \A e \in blk[c].ents : e.name # e0.name
        /\ e0.ino \in Dirs => blk[inode[e0.ino].direct[0]].up = D
    BY <1>1, <1>7, <2>1, <2>2 DEF Grown, NewName, FileInode, ZeroInode, Dirs
  <2>4. inode[e0.ino].type \in {"file", "dir"} /\ (e0.ino \notin Dirs => Held(e0.ino) = {})
    <3>1. CASE op.cmd = "create"
      <4>1. FileInode.type = "file" /\ RefsIn(blk, FileInode) = {}
        BY NewInodeRefs, NotNull DEF FileInode, ZeroInode
      <4>2. QED
        BY <1>1, <2>2, <3>1, <4>1 DEF Held
    <3>2. CASE op.cmd # "create"
      BY <1>1, <2>2, <3>2 DEF Dirs
    <3>3. QED
      BY <3>1, <3>2
  <2> DEFINE s == inode[D].size
             r == [inode[D] EXCEPT !.direct[s] = b, !.size = @ + 1]
  <2>5. op.parent = r /\ s < NDirect /\ s > 0 /\ s \in Nat /\ inode[D] \in InodeRecord
    BY <1>5, <1>7, <2>1, Records DEF Grown, InodeRecord
  <2>6. Fresh(b) /\ blk[b].ents = {e0} /\ blk[b].table = ZeroTable
    BY <1>7, <2>1 DEF Grown, ZeroBlock
  <2>7. /\ L.direct = [inode[D].direct EXCEPT ![s] = b] /\ L.size = s + 1
        /\ L.type = "dir" /\ L.ind = inode[D].ind /\ L.dbl = inode[D].dbl
    BY <1>2, <1>5, <2>1, <2>5 DEF InodeRecord
  <2> DEFINE q == [inode[D] EXCEPT !.direct[s] = b]
  <2>8. q.direct = L.direct /\ q.ind = L.ind /\ q.dbl = L.dbl
    BY <2>5, <2>7 DEF InodeRecord
  <2>9. RefsIn(blk, q) \subseteq Held(D) \cup {b}
    <3>1. blk \in [Block -> BlockRecord]
      BY <1>0 DEF TypeOK
    <3>2. \A l : RefsIn(blk, [inode[D] EXCEPT !.direct[l] = b]) \subseteq RefsIn(blk, inode[D]) \cup {b}
      BY <2>5, <2>6, <3>1, RefsSet
    <3>3. QED
      BY <3>2 DEF Held
  <2> HIDE DEF r, q
  <2>10. RefsIn(blk, L) \subseteq Held(D) \cup {b}
    BY <2>8, <2>9, RefsSame
  <2>11. DirBlocks(L) = DirBlocks(inode[D]) \cup {b} /\ L.direct[0] = inode[D].direct[0]
    <3>1. inode[D].direct \in [0 .. NDirect - 1 -> Ptr] /\ 0 .. s \subseteq 0 .. NDirect - 1
      BY <2>5, Ext2Assumption DEF InodeRecord
    <3>2. \A l \in 0 .. s : L.direct[l] = IF l = s THEN b ELSE inode[D].direct[l]
      BY <2>7, <3>1
    <3>3. 0 .. L.size - 1 = (0 .. s - 1) \cup {s} /\ s \notin 0 .. s - 1 /\ 0 .. s - 1 \subseteq 0 .. s
      BY <2>5, <2>7
    <3> HIDE DEF s
    <3>4. DirBlocks(L) = {L.direct[l] : l \in (0 .. s - 1) \cup {s}}
      BY <3>3 DEF DirBlocks
    <3>5. \A l \in 0 .. s - 1 : L.direct[l] = inode[D].direct[l]
      BY <3>2, <3>3
    <3>6. L.direct[s] = b
      BY <2>5, <3>2
    <3>7. DirBlocks(inode[D]) = {inode[D].direct[l] : l \in 0 .. s - 1}
      BY DEF DirBlocks, s
    <3>8. DirBlocks(L) = DirBlocks(inode[D]) \cup {b}
      BY <3>4, <3>5, <3>6, <3>7
    <3>9. L.direct[0] = inode[D].direct[0]
      BY <2>5, <3>5
    <3>10. QED
      BY <3>8, <3>9
  <2>12. L.size > 0 /\ inode' = [inode EXCEPT ![D] = L]
    BY <1>0, <2>1, <2>5, <2>7
  <2> HIDE DEF s
  <2>13. DiskInv' /\ Named' = Named \cup {e0.ino}
    <3>1. TypeOK /\ DiskInv /\ blk' = blk /\ iused' = iused /\ bused' = bused
      BY <1>0
    <3>2. L.type = "dir"
      BY <2>7
    <3>3. QED
      BY <2>3, <2>4, <2>6, <2>10, <2>11, <2>12, <3>1, <3>2, EntryGrown
  <2>14. QED
    BY <1>4, <2>2, <2>13
<1>8. QED
  BY <1>1, <1>6, <1>7

\* A grown directory is written with the block that holds the new entry.
LEMMA WriteParentSafe ==
  ASSUME TypeInv, SafeInv, NEW ok \in BOOLEAN, WriteParent(ok)
  PROVE  SafeInv'
<1>1. /\ DiskInv' /\ op.ino \in Named'
      /\ op.cmd = "create" => inode[op.ino] = FileInode /\ inode'[op.ino] = FileInode
  BY WriteParentDisk
<1>2. CASE Finish
  BY <1>1, <1>2, FinishOp DEF SafeInv
<1>3. CASE ~Finish
  <2>1. /\ op' = [NoOp EXCEPT !.cmd = "write", !.ino = op.ino,
                               !.goal = op.goal, !.mine = inode[op.ino]]
        /\ op.goal \in 0 .. LargestFile /\ pc' = "write_alloc" /\ pc = "write_parent"
    BY <1>3 DEF WriteParent, Proceed
  <2>2. /\ op'.cmd = "write" /\ op'.ino = op.ino /\ op'.mine = inode[op.ino] /\ op'.phys = Null
    BY <2>1 DEF NoOp
  <2>3. op.cmd = "create"
    <3>1. op.goal # NoGoal
      BY <2>1, Records DEF NoGoal
    <3>2. QED
      BY <2>1, <3>1 DEF TypeInv, LocalsOK, Naming
  <2>4. op'.mine = FileInode /\ inode'[op'.ino].type = "file" /\ RefsIn(blk', FileInode) = {}
    BY <1>1, <2>2, <2>3, NewInodeRefs DEF FileInode, ZeroInode
  <2>5. WriteOK'
    BY <1>1, <2>1, <2>2, <2>4 DEF WriteOK, Allocating
  <2>6. QED
    BY <1>1, <2>1, <2>2, <2>5 DEF SafeInv, OpInv, StageOK, CreateOK, AllocOK,
       DeleteOK, Creating, BeforeNew, Adding, Allocating, Freed, Freeing
<1>4. QED
  BY <1>2, <1>3
-----------------------------------------------------------------------------
(* A deletion takes the name away first.                                   *)

\* What the deletion frees are blocks the inode's pointers reach.
LEMMA FreeListRefs ==
  ASSUME TypeOK, NEW rec \in InodeRecord
  PROVE  FreeList(rec) \in Seq(RefsIn(blk, rec) \cup {Null})
<1> DEFINE S == RefsIn(blk, rec) \cup {Null}
           data == [l \in 1 .. rec.size |-> BlockOf(rec, l - 1)]
           tables == IF rec.dbl = Null THEN <<>>
                     ELSE [k \in 1 .. Pointers |-> blk[rec.dbl].table[k - 1]]
<1>0. rec.size \in 0 .. LargestFile /\ LargestFile \in Nat
  BY Records DEF InodeRecord
<1>1. data \in Seq(S)
  <2>1. \A l \in 1 .. rec.size : BlockOf(rec, l - 1) \in S
    BY <1>0, BlockOfRefs
  <2>2. QED
    BY <1>0, <2>1
<1>2. tables \in Seq(S)
  <2>1. CASE rec.dbl = Null
    BY <2>1
  <2>2. CASE rec.dbl # Null
    <3>1. KidsIn(blk, rec.dbl) \subseteq S
      BY DEF RefsIn, TablesIn
    <3>2. \A k \in 1 .. Pointers : blk[rec.dbl].table[k - 1] \in S
      <4>1. \A k \in 1 .. Pointers : k - 1 \in 0 .. Pointers - 1
        BY Ext2Assumption
      <4>2. \A k \in 0 .. Pointers - 1 : blk[rec.dbl].table[k] \in KidsIn(blk, rec.dbl) \cup {Null}
        BY <2>2 DEF KidsIn
      <4>3. QED
        BY <3>1, <4>1, <4>2
    <3>3. QED
      BY <2>2, <3>2, Ext2Assumption
  <2>3. QED
    BY <2>1, <2>2
<1>3. <<rec.ind>> \in Seq(S) /\ <<rec.dbl>> \in Seq(S)
  <2>1. rec.ind \in S /\ rec.dbl \in S
    BY DEF RefsIn, TablesIn
  <2> HIDE DEF S
  <2>2. QED
    BY <2>1
<1>4. FreeList(rec) = data \o <<rec.ind>> \o tables \o <<rec.dbl>>
  BY DEF FreeList
<1> HIDE DEF data, tables, S
<1>5. FreeList(rec) \in Seq(S)
  BY <1>1, <1>2, <1>3, <1>4
<1>6. QED
  BY <1>5 DEF S

\* The only entry of an inode goes, and with it the name.
LEMMA EntryRemoved ==
  ASSUME TypeOK, DiskInv, NEW D \in Dirs, NEW b \in DirBlocks(inode[D]), NEW e0 \in blk[b].ents,
         blk' = [blk EXCEPT ![b].ents = @ \ {e0}], inode' = inode, iused' = iused, bused' = bused
  PROVE  /\ DiskInv' /\ Dirs' = Dirs /\ Named' = Named \ {e0.ino} /\ \A i : Held(i)' \subseteq Held(i)
<1>1. b \in Block /\ b \in EntryBlocks
  BY EntryBlocksType
<1>2. /\ blk'[b].ents = blk[b].ents \ {e0} /\ blk'[b].up = blk[b].up /\ blk'[b].table = blk[b].table
      /\ \A c : c # b => blk'[c] = blk[c]
  BY <1>1 DEF TypeOK, BlockRecord
<1>3. Dirs' = Dirs /\ EntryBlocks' = EntryBlocks
  BY DEF Dirs, EntryBlocks
<1>4. \A c \in EntryBlocks : \A e \in blk[c].ents : e.ino = e0.ino => c = b /\ e = e0
  BY <1>1 DEF DiskInv, EntriesOK
<1>5. e0.ino # Root
  BY DEF DiskInv, EntriesOK
<1>6. \A i : i \in Named' <=> i \in Named /\ i # e0.ino
  <2>1. \A c \in EntryBlocks : \A e : e \in blk'[c].ents <=> e \in blk[c].ents /\ e.ino # e0.ino
    BY <1>2, <1>4
  <2>2. QED
    BY <1>3, <1>5, <2>1, NamedByBlocks
<1>7. Named' = Named \ {e0.ino} /\ Owners' \subseteq Owners
  BY <1>3, <1>6 DEF Owners
<1>8. \A i : Held(i)' \subseteq Held(i)
  <2>1. \A rec : RefsIn(blk', rec) \subseteq RefsIn(blk, rec)
    BY <1>2, RefsShrink
  <2>2. QED
    BY <2>1 DEF Held
<1>9. BlocksOK'
  BY <1>7, <1>8 DEF DiskInv, BlocksOK
<1>10. InodesOK'
  BY <1>3, <1>7 DEF DiskInv, InodesOK
<1>11. EntriesOK'
  <2>1. \A c : blk'[c].ents \subseteq blk[c].ents /\ blk'[c].up = blk[c].up
    BY <1>2
  <2>2. QED
    BY <1>3, <2>1 DEF DiskInv, EntriesOK
<1>12. QED
  BY <1>3, <1>7, <1>8, <1>9, <1>10, <1>11 DEF DiskInv

\* The entry removed was the only one of its inode: nothing else names it.
LEMMA RemoveEntrySafe ==
  ASSUME TypeInv, SafeInv, NEW ok \in BOOLEAN, RemoveEntry(ok)
  PROVE  SafeInv'
<1>0. /\ TypeOK /\ DiskInv /\ OpInv /\ inode' = inode /\ iused' = iused /\ bused' = bused
      /\ pc = "remove_entry" /\ op.cmd = "delete" /\ op \in Operation
  BY DEF TypeInv, SafeInv, RemoveEntry, TypeOK, LocalsOK
<1>1. /\ op.dir \in Dirs /\ op.parent = inode[op.dir] /\ op.mine = inode[op.ino]
      /\ op.ino \in Named /\ inode[op.ino].type = "file" /\ op.ino \notin Dirs
  BY <1>0 DEF OpInv, DeleteOK, Dirs
<1>2. PICK b \in DirBlocks(inode[op.dir]) :
        NewEntry \in blk[b].ents /\ blk' = [blk EXCEPT ![b].ents = @ \ {NewEntry}]
  BY <1>1 DEF RemoveEntry, DirBlocks
<1>3. /\ DiskInv' /\ Dirs' = Dirs /\ Named' = Named \ {op.ino} /\ \A i : Held(i)' \subseteq Held(i)
  <2>1. PICK D \in Dirs : D = op.dir
    BY <1>1
  <2>2. PICK e0 \in blk[b].ents : e0 = NewEntry
    BY <1>2
  <2>3. b \in DirBlocks(inode[D]) /\ blk' = [blk EXCEPT ![b].ents = @ \ {e0}] /\ e0.ino = op.ino
    BY <1>2, <2>1, <2>2 DEF NewEntry
  <2>4. /\ DiskInv' /\ Dirs' = Dirs /\ Named' = Named \ {e0.ino} /\ \A i : Held(i)' \subseteq Held(i)
    BY <1>0, <2>3, EntryRemoved
  <2>5. QED
    BY <2>3, <2>4
<1>4. CASE ok
  <2>1. pc' = "free_bitmap" /\ op' = [op EXCEPT !.todo = FreeList(op.mine)]
    BY <1>4 DEF RemoveEntry, Proceed
  <2>2. op'.cmd = "delete" /\ op'.ino = op.ino /\ op'.todo = FreeList(op.mine)
    BY <1>0, <2>1 DEF Operation
  <2>3. Owners' = Owners \ {op.ino} /\ op.ino \in Owners
    BY <1>1, <1>3 DEF Owners
  <2>4. op'.todo \in Seq(Held(op.ino) \cup {Null})
    BY <1>0, <1>1, <2>2, FreeListRefs DEF Held, Operation
  <2>5. \A k \in 1 .. Len(op'.todo) : op'.todo[k] \in Held(op.ino) \cup {Null}
    BY <2>4
  <2>6. \A i \in Owners : Null \notin Held(i)
    BY DEF Held, RefsIn
  <2>7. ASSUME NEW k \in 1 .. Len(op'.todo), NEW i \in Owners \ {op.ino}
        PROVE  op'.todo[k] \notin Held(i)'
    <3>1. Held(i) \cap Held(op.ino) = {} /\ Held(i)' \subseteq Held(i)
      BY <1>0, <1>3, <2>3 DEF DiskInv, BlocksOK
    <3>2. QED
      BY <2>5, <2>6, <3>1
  <2>8. DeleteOK'
    BY <1>0, <1>1, <2>1, <2>2, <2>3, <2>7 DEF DeleteOK
  <2>9. QED
    BY <1>3, <2>1, <2>2, <2>8 DEF SafeInv, OpInv, StageOK, CreateOK, AllocOK, WriteOK,
       Creating, BeforeNew, Adding, Allocating, Freed, Freeing
<1>5. CASE ~ok
  BY <1>3, <1>5, FinishOp DEF RemoveEntry, Proceed, SafeInv
<1>6. QED
  BY <1>4, <1>5
-----------------------------------------------------------------------------
(* The invariant and what it says.                                         *)

\* The image mkfs makes has a root without entries.
LEMMA InitSafe == Init => SafeInv
<1> SUFFICES ASSUME Init PROVE SafeInv
  OBVIOUS
<1>0. Root \in Inode /\ 1 \in Block /\ Root \in iused
  BY Ext2Assumption DEF Init, Root, Inode, Block
<1>1. /\ inode[Root] = DirInode(1) /\ \A i \in Inode : i # Root => inode[i].type = "none"
      /\ DirInode(1).type = "dir" /\ DirInode(1).size = 1
      /\ blk[1].table = ZeroTable /\ blk[1].ents = {}
  BY <1>0 DEF Init, DirInode, ZeroInode, ZeroBlock
<1>2. \A d : d \in Dirs <=> d = Root
  BY <1>0, <1>1 DEF Dirs, Init
<1>3. Dirs = {Root}
  BY <1>2
<1>4. /\ RefsIn(blk, inode[Root]) \subseteq {1} /\ DirBlocks(inode[Root]) = {1}
  BY <1>1, NewInodeRefs
<1>5. EntryBlocks = {1}
  BY <1>3, <1>4 DEF EntryBlocks
<1>6. \A i : i \in Named <=> i = Root
  BY <1>1, <1>5, NamedByBlocks
<1>7. Named = {Root} /\ Owners = {Root}
  BY <1>3, <1>6 DEF Owners
<1>8. InodesOK
  BY <1>0, <1>1, <1>3, <1>7 DEF InodesOK
<1>9. BlocksOK
  BY <1>4, <1>7 DEF BlocksOK, Held, Init
<1>10. EntriesOK
  BY <1>1, <1>3, <1>4, <1>5 DEF EntriesOK
<1>11. OpInv
  BY DEF Init, NoOp, OpInv, StageOK, CreateOK, AllocOK, WriteOK, DeleteOK,
     Creating, BeforeNew, Adding, Allocating, Freed, Freeing
<1>12. QED
  BY <1>8, <1>9, <1>10, <1>11 DEF SafeInv, DiskInv

\* Every step keeps the invariant, one lemma for each action.
LEMMA StepSafe ==
  ASSUME TypeInv, SafeInv, Next
  PROVE  SafeInv'
<1>1. CASE Request
  BY <1>1, RequestSafe
<1>2. CASE Local
  BY <1>2, LocalSafe, SetDirectSafe, FreeBlockCountsSafe DEF Local
<1>3. ASSUME NEW ok \in BOOLEAN, Write(ok)
      PROVE  SafeInv'
  BY <1>3, AllocBlockBitmapSafe, AllocBlockDescSafe, AllocBlockSuperSafe, AllocBlockZeroSafe,
     AllocInodeBitmapSafe, AllocInodeDescSafe, AllocInodeSuperSafe, WriteDotsSafe,
     WriteNewInodeSafe, AddEntrySafe, NewDirBlockSafe, WriteParentSafe, SetIndirectSafe,
     LinkChildSafe, WriteDataSafe, WriteSizeSafe, RemoveEntrySafe, FreeBlockBitmapSafe,
     FreeBlockCountsSafe, ClearInodeSafe, FreeInodeBitmapSafe, FreeInodeCountsSafe DEF Write
<1>4. CASE Fault
  BY <1>3, <1>4, WriteLostSafe, CrashSafe DEF Fault
<1>5. CASE Mount
  BY <1>5, MountSafe
<1>6. QED
  BY <1>1, <1>2, <1>3, <1>4, <1>5 DEF Next

\* So does a step that changes nothing.
LEMMA StutterSafe == TypeInv /\ SafeInv /\ UNCHANGED vars => SafeInv'
<1> SUFFICES ASSUME TypeInv, SafeInv, UNCHANGED vars PROVE SafeInv'
  OBVIOUS
<1>0. /\ TypeOK /\ DiskInv /\ OpInv /\ inode' = inode /\ blk' = blk /\ iused' = iused /\ bused' = bused
      /\ op' = op /\ pc' = pc
  BY DEF vars, TypeInv, SafeInv
<1>1. /\ DiskInv' /\ Dirs' = Dirs /\ Named' = Named /\ Owners' = Owners
      /\ \A i : Held(i)' = Held(i)
  BY <1>0, SilentDisk, Unmoved
<1>2. /\ \A b : Fresh(b)' = Fresh(b)
      /\ \A b : Untouched(b)' = Untouched(b)
      /\ \A d : NewName(d)' = NewName(d)
      /\ Grown' = Grown
  BY <1>0, <1>1 DEF Fresh, Untouched, NewName, Grown, NewEntry, DirBlocks
<1>3. StageOK' /\ AllocOK' /\ CreateOK' /\ WriteOK' /\ DeleteOK'
  BY <1>0, <1>1, <1>2 DEF OpInv, StageOK, AllocOK, CreateOK, WriteOK, DeleteOK, Creating
<1>4. QED
  BY <1>1, <1>3 DEF SafeInv, OpInv

\* What the driver keeps true of the disk and of the running operation, at every
\* write, whatever writes fail and whenever power is lost: bitmaps ahead of pointers,
\* no block held twice, one entry for a name and for an inode.
THEOREM SafeInvariant == Spec => []SafeInv
<1>1. Init => SafeInv
  BY InitSafe
<1>2. TypeInv /\ SafeInv /\ [Next]_vars => SafeInv'
  BY StepSafe, StutterSafe
<1>3. QED
  BY <1>1, <1>2, TypeInvariant, PTL DEF Spec

\* For every disk and every history of faults: whatever a directory names is
\* allocated, with every block its pointers reach (allocate_block and allocate_inode
\* mark the bitmaps first, the deletion unlinks the name first).
THEOREM NamesAreAllocated == Spec => []NamedIsAllocated
<1>1. SafeInv => NamedIsAllocated
  <2> SUFFICES ASSUME SafeInv, NEW i \in Named
               PROVE  i \in iused /\ inode[i].type # "none" /\ Refs(inode[i]) \subseteq bused
    BY DEF NamedIsAllocated
  <2>1. i \in iused /\ inode[i].type # "none"
    BY DEF SafeInv, DiskInv, InodesOK
  <2>2. Held(i) \subseteq bused
    BY DEF SafeInv, DiskInv, BlocksOK, Owners
  <2>3. QED
    BY <2>1, <2>2, RefsAsIn DEF Held
<1>2. QED
  BY <1>1, SafeInvariant, PTL

\* For every disk and every history of faults: a name is bound once in its directory
\* and an inode to one name (ext2_create_file looks the name up before it allocates,
\* and a retry after a fault finds what the first attempt left).
THEOREM NamesAreUnique == Spec => []OneName
<1>1. TypeInv /\ SafeInv => OneName
  <2> SUFFICES ASSUME TypeInv, SafeInv, NEW d \in Dirs, NEW c \in Dirs,
                      NEW e \in Entries(inode[d]), NEW f \in Entries(inode[c]),
                      e.ino = f.ino \/ (d = c /\ e.name = f.name)
               PROVE  d = c /\ e = f
    BY DEF OneName
  <2>1. TypeOK /\ BlocksOK /\ EntriesOK
    BY DEF TypeInv, SafeInv, DiskInv
  <2>2. PICK b \in DirBlocks(inode[d]), g \in DirBlocks(inode[c]) : e \in blk[b].ents /\ f \in blk[g].ents
    BY DEF Entries, DirBlocks
  <2>3. b \in EntryBlocks /\ g \in EntryBlocks /\ b \in Held(d) /\ g \in Held(c)
    BY <2>1, EntryBlocksType
  <2>4. CASE e.ino = f.ino
    BY <2>1, <2>2, <2>3, <2>4 DEF EntriesOK, BlocksOK, Owners
  <2>5. CASE d = c /\ e.name = f.name
    BY <2>1, <2>2, <2>5 DEF EntriesOK
  <2>6. QED
    BY <2>4, <2>5
<1>2. QED
  BY <1>1, TypeInvariant, SafeInvariant, PTL

\* For every disk and every history of faults: the ".." entry of a named directory
\* points at the directory that names it (the block with the entry is written before
\* the inode, and the inode before the name).
THEOREM DotDotPointsUp == Spec => []DotDotIntact
<1>1. SafeInv => DotDotIntact
  <2> SUFFICES ASSUME SafeInv, NEW d \in Dirs, NEW e \in Entries(inode[d]), e.ino \in Dirs
               PROVE  blk[inode[e.ino].direct[0]].up = d
    BY DEF DotDotIntact
  <2>1. PICK b \in DirBlocks(inode[d]) : e \in blk[b].ents
    BY DEF Entries, DirBlocks
  <2>2. QED
    BY <2>1 DEF SafeInv, DiskInv, EntriesOK
<1>2. QED
  BY <1>1, SafeInvariant, PTL

-----------------------------------------------------------------------------
(* The files: the pointers of an inode form a tree, what is below the size *)
(* of a file is what was written there, and each write changes one name,   *)
(* one size or nothing a caller sees.                                      *)

\* inode_block in the blocks B: BlockOf as a function of both.
BlockIn(B, rec, l) ==
  LET via(t, k) == IF t = Null THEN Null ELSE B[t].table[k]
  IN  IF l < NDirect THEN rec.direct[l]
      ELSE IF l < NDirect + Pointers THEN via(rec.ind, l - NDirect)
      ELSE via(via(rec.dbl, (l - NDirect - Pointers) \div Pointers),
               (l - NDirect - Pointers) % Pointers)

\* The blocks with a pointer stored in a table.
Put(B, t, k, p) == [B EXCEPT ![t].table[k] = p]

\* The pointers of an inode, each with the block (or the inode: Null) and the slot it is in.
EdgesIn(B, rec) ==
  {<<Null, k, rec.direct[k]>> : k \in 0 .. NDirect - 1}
    \cup {<<Null, NDirect, rec.ind>>, <<Null, NDirect + 1, rec.dbl>>}
    \cup UNION {{<<t, k, B[t].table[k]>> : k \in 0 .. Pointers - 1} : t \in TablesIn(B, rec)}
\* No two of them are the same.
TreeIn(B, rec) == \A e, f \in EdgesIn(B, rec) : e[3] = f[3] /\ e[3] # Null => e = f

TreesOK == \A i \in Owners : TreeIn(blk, inode[i])

\* Block l is found the same way from both inodes.
Agree(r, s, l) ==
  IF l < NDirect THEN r.direct[l] = s.direct[l]
  ELSE IF l < NDirect + Pointers THEN r.ind = s.ind ELSE r.dbl = s.dbl
InDouble(l) == NDirect + Pointers <= l

\* The inode in memory keeps the blocks of the one on disk, and its own are a tree;
\* the blocks before the current one are there and, in the second loop, written.
MineTree ==
  /\ TreeIn(blk, op.mine) /\ op.mine.size = inode[op.ino].size
  /\ \A l \in 0 .. op.mine.size - 1 : Agree(inode[op.ino], op.mine, l)
Placed(n) == \A l \in 0 .. n - 1 : BlockIn(blk, op.mine, l) # Null
Filled(n) == \A l \in 0 .. n - 1 : blk[BlockIn(blk, op.mine, l)].own = <<op.ino, l>>
MineOK ==
  op.cmd = "write" =>
    /\ MineTree
    /\ pc # "write_data" => /\ op.mine.size <= op.logical /\ op.logical <= op.goal
                            /\ Placed(op.logical)
    /\ pc = "write_data" => op.logical <= op.goal /\ Placed(op.goal) /\ Filled(op.logical)
    /\ pc \in Allocating /\ op.want = "indirect" => InSingle(op.logical) /\ op.mine.ind = Null
    /\ pc \in Allocating /\ op.want = "double" => InDouble(op.logical) /\ op.mine.dbl = Null
    /\ pc = "link_child" \/ (pc \in Allocating /\ op.want = "child") =>
         /\ InDouble(op.logical) /\ op.mine.dbl # Null
         /\ blk[op.mine.dbl].table[Child] = Null

\* Below the size of a file is what was written there; FileIntact for one of them.
Whole(i) ==
  inode[i].type = "file" =>
    \A l \in 0 .. inode[i].size - 1 :
      /\ BlockIn(blk, inode[i], l) # Null
      /\ blk[BlockIn(blk, inode[i], l)].own = <<i, l>>
FileInv == TreesOK /\ (\A i \in Owners : Whole(i)) /\ MineOK
-----------------------------------------------------------------------------
(* The tree of an inode's pointers.                                        *)

\* BlockIn is BlockOf.
LEMMA BlockOfIn == \A rec, l : BlockOf(rec, l) = BlockIn(blk, rec, l)
  BY DEF BlockOf, BlockIn

Edge(B, rec, a, k, p) == <<a, k, p>> \in EdgesIn(B, rec)

\* What an edge is, and that edges lead to what is reached.
LEMMA Edges ==
  ASSUME NEW B, NEW rec
  PROVE  /\ \A a, k, p : Edge(B, rec, a, k, p) <=>
              \/ a = Null /\ k \in 0 .. NDirect - 1 /\ p = rec.direct[k]
              \/ a = Null /\ k = NDirect /\ p = rec.ind
              \/ a = Null /\ k = NDirect + 1 /\ p = rec.dbl
              \/ a \in TablesIn(B, rec) /\ k \in 0 .. Pointers - 1 /\ p = B[a].table[k]
         /\ \A a, k, p : Edge(B, rec, a, k, p) => p \in RefsIn(B, rec) \cup {Null}
<1> DEFINE U == UNION {{<<t, k, B[t].table[k]>> : k \in 0 .. Pointers - 1} : t \in TablesIn(B, rec)}
<1>1. \A a, k, p : <<a, k, p>> \in U <=>
        a \in TablesIn(B, rec) /\ k \in 0 .. Pointers - 1 /\ p = B[a].table[k]
  <2>1. ASSUME NEW a, NEW k, NEW p, <<a, k, p>> \in U
        PROVE  a \in TablesIn(B, rec) /\ k \in 0 .. Pointers - 1 /\ p = B[a].table[k]
    <3>1. PICK t \in TablesIn(B, rec) : <<a, k, p>> \in {<<t, m, B[t].table[m]>> : m \in 0 .. Pointers - 1}
      BY <2>1
    <3>2. PICK m \in 0 .. Pointers - 1 : <<a, k, p>> = <<t, m, B[t].table[m]>>
      BY <3>1
    <3>3. a = t /\ k = m /\ p = B[t].table[m]
      BY <3>2
    <3>4. QED
      BY <3>3
  <2>2. ASSUME NEW a \in TablesIn(B, rec), NEW k \in 0 .. Pointers - 1
        PROVE  <<a, k, B[a].table[k]>> \in U
    <3>1. <<a, k, B[a].table[k]>> \in {<<a, m, B[a].table[m]>> : m \in 0 .. Pointers - 1}
      OBVIOUS
    <3>2. QED
      BY <3>1
  <2>3. QED
    BY <2>1, <2>2
<1> DEFINE D == {<<Null, k, rec.direct[k]>> : k \in 0 .. NDirect - 1}
           T == {<<Null, NDirect, rec.ind>>, <<Null, NDirect + 1, rec.dbl>>}
<1>2. EdgesIn(B, rec) = D \cup T \cup U
  BY DEF EdgesIn, U
<1>3. \A a, k, p : <<a, k, p>> \in D <=> a = Null /\ k \in 0 .. NDirect - 1 /\ p = rec.direct[k]
  OBVIOUS
<1>4. \A a, k, p : <<a, k, p>> \in T <=>
        (a = Null /\ k = NDirect /\ p = rec.ind) \/ (a = Null /\ k = NDirect + 1 /\ p = rec.dbl)
  OBVIOUS
<1> HIDE DEF U, D, T
<1>5. \A a, k, p : Edge(B, rec, a, k, p) <=>
            \/ a = Null /\ k \in 0 .. NDirect - 1 /\ p = rec.direct[k]
            \/ a = Null /\ k = NDirect /\ p = rec.ind
            \/ a = Null /\ k = NDirect + 1 /\ p = rec.dbl
            \/ a \in TablesIn(B, rec) /\ k \in 0 .. Pointers - 1 /\ p = B[a].table[k]
  BY <1>1, <1>2, <1>3, <1>4 DEF Edge
<1>6. ASSUME NEW a \in TablesIn(B, rec), NEW k \in 0 .. Pointers - 1
      PROVE  B[a].table[k] \in RefsIn(B, rec) \cup {Null}
  <2>1. B[a].table[k] \in KidsIn(B, a) \cup {Null}
    BY DEF KidsIn, TablesIn
  <2>2. KidsIn(B, a) \subseteq RefsIn(B, rec)
    BY DEF RefsIn, KidsIn
  <2>3. QED
    BY <2>1, <2>2
<1>7. rec.ind \in RefsIn(B, rec) \cup {Null} /\ rec.dbl \in RefsIn(B, rec) \cup {Null}
  BY DEF RefsIn, TablesIn
<1>8. \A k \in 0 .. NDirect - 1 : rec.direct[k] \in RefsIn(B, rec) \cup {Null}
  BY DEF RefsIn
<1>9. QED
  BY <1>5, <1>6, <1>7, <1>8

\* TreeIn without tuples.
LEMMA TreeEdges2 ==
  ASSUME NEW B, NEW rec
  PROVE  TreeIn(B, rec) <=>
           \A a, b, k, m, p : p # Null /\ Edge(B, rec, a, k, p) /\ Edge(B, rec, b, m, p) => a = b /\ k = m
<1>1. ASSUME NEW e \in EdgesIn(B, rec)
      PROVE  e = <<e[1], e[2], e[3]>>
  <2>1. CASE e \in UNION {{<<t, k, B[t].table[k]>> : k \in 0 .. Pointers - 1} : t \in TablesIn(B, rec)}
    <3>1. PICK t \in TablesIn(B, rec) : e \in {<<t, k, B[t].table[k]>> : k \in 0 .. Pointers - 1}
      BY <2>1
    <3>2. PICK k \in 0 .. Pointers - 1 : e = <<t, k, B[t].table[k]>>
      BY <3>1
    <3>3. QED
      BY <3>2
  <2>2. CASE e \in {<<Null, k, rec.direct[k]>> : k \in 0 .. NDirect - 1}
    <3>1. PICK k \in 0 .. NDirect - 1 : e = <<Null, k, rec.direct[k]>>
      BY <2>2
    <3>2. QED
      BY <3>1
  <2>3. CASE e \in {<<Null, NDirect, rec.ind>>, <<Null, NDirect + 1, rec.dbl>>}
    BY <2>3
  <2>4. QED
    BY <2>1, <2>2, <2>3 DEF EdgesIn
<1>2. ASSUME TreeIn(B, rec), NEW a, NEW b, NEW k, NEW m, NEW p, p # Null,
             Edge(B, rec, a, k, p), Edge(B, rec, b, m, p)
      PROVE  a = b /\ k = m
  <2>1. <<a, k, p>>[3] = p /\ <<b, m, p>>[3] = p
    OBVIOUS
  <2>2. <<a, k, p>> = <<b, m, p>>
    BY <1>2, <2>1 DEF TreeIn, Edge
  <2>3. QED
    BY <2>2
<1>3. ASSUME \A a, b, k, m, p : p # Null /\ Edge(B, rec, a, k, p) /\ Edge(B, rec, b, m, p) => a = b /\ k = m
      PROVE  TreeIn(B, rec)
  <2> SUFFICES ASSUME NEW e \in EdgesIn(B, rec), NEW f \in EdgesIn(B, rec), e[3] = f[3], e[3] # Null
               PROVE  e = f
    BY DEF TreeIn
  <2>1. PICK a, k, p : e = <<a, k, p>>
    BY <1>1
  <2>2. PICK b, m, q : f = <<b, m, q>>
    BY <1>1
  <2>3. p = q /\ p # Null
    BY <2>1, <2>2
  <2>4. Edge(B, rec, a, k, p) /\ Edge(B, rec, b, m, p)
    BY <2>1, <2>2, <2>3 DEF Edge
  <2>5. a = b /\ k = m
    BY <1>3, <2>3, <2>4
  <2>6. QED
    BY <2>1, <2>2, <2>3, <2>5
<1>4. QED
  BY <1>2, <1>3

\* When no pointer is new, or only one and to a block that was not reached, the tree stays one.
LEMMA TreeGrows ==
  ASSUME NEW B, NEW C, NEW rec, NEW r, TreeIn(B, rec), NEW a, NEW k, NEW p,
         \A b, m, q : Edge(C, r, b, m, q) /\ q # Null =>
            (Edge(B, rec, b, m, q) /\ q # p) \/ (b = a /\ m = k /\ q = p)
  PROVE  TreeIn(C, r)
<1> SUFFICES ASSUME NEW b, NEW c, NEW m, NEW n, NEW q, q # Null,
                    Edge(C, r, b, m, q), Edge(C, r, c, n, q)
             PROVE  b = c /\ m = n
  BY TreeEdges2
<1>1. (Edge(B, rec, b, m, q) /\ q # p) \/ (b = a /\ m = k /\ q = p)
  OBVIOUS
<1>2. (Edge(B, rec, c, n, q) /\ q # p) \/ (c = a /\ n = k /\ q = p)
  OBVIOUS
<1>3. QED
  BY <1>1, <1>2, TreeEdges2

\* Clearing tables keeps a tree.
LEMMA TreeShrinks ==
  ASSUME NEW B, NEW C, NEW rec, TreeIn(B, rec),
         \A t \in RefsIn(B, rec) : C[t].table = B[t].table \/ C[t].table = ZeroTable
  PROVE  TreeIn(C, rec)
<1>1. TablesIn(B, rec) \subseteq RefsIn(B, rec) /\ rec.dbl \in TablesIn(B, rec) \cup {Null}
  BY DEF RefsIn, TablesIn
<1>2. TablesIn(C, rec) \subseteq TablesIn(B, rec)
  <2>1. ASSUME NEW t \in RefsIn(B, rec) \cup {Null}
        PROVE  KidsIn(C, t) \subseteq KidsIn(B, t)
    BY <2>1 DEF KidsIn, ZeroTable
  <2>2. rec.dbl \in RefsIn(B, rec) \cup {Null}
    BY <1>1
  <2>3. KidsIn(C, rec.dbl) \subseteq KidsIn(B, rec.dbl)
    BY <2>1, <2>2
  <2>4. QED
    BY <2>3 DEF TablesIn
<1>3. \A t \in TablesIn(B, rec) : \A k \in 0 .. Pointers - 1 :
        C[t].table[k] # Null => C[t].table[k] = B[t].table[k]
  BY <1>1 DEF ZeroTable
<1>4. \A b, m, q : Edge(C, rec, b, m, q) /\ q # Null => Edge(B, rec, b, m, q)
  BY <1>2, <1>3, Edges
<1>5. QED
  BY <1>4, TreeEdges2

\* A pointer set in the inode, to a block that was not reached and has no pointers.
LEMMA TreeSet ==
  ASSUME NEW B, NEW p \in Block, B[p].table = ZeroTable, NEW rec \in InodeRecord, NEW r,
         TreeIn(B, rec), p \notin RefsIn(B, rec),
         \/ \E l \in 0 .. NDirect - 1 : /\ r.direct = [rec.direct EXCEPT ![l] = p]
                                        /\ r.ind = rec.ind /\ r.dbl = rec.dbl
         \/ r.direct = rec.direct /\ r.ind = p /\ r.dbl = rec.dbl
         \/ r.direct = rec.direct /\ r.ind = rec.ind /\ r.dbl = p
  PROVE  TreeIn(B, r)
<1>1. KidsIn(B, p) = {} /\ p # Null
  BY NotNull DEF KidsIn, ZeroTable
<1>2. TablesIn(B, r) \subseteq TablesIn(B, rec) \cup {p}
  BY <1>1 DEF TablesIn
<1>3. \A k \in 0 .. Pointers - 1 : B[p].table[k] = Null
  BY DEF ZeroTable
<1>4. \A b, m, q : Edge(B, rec, b, m, q) /\ q # Null => q # p
  BY Edges
<1>5. ASSUME NEW b, NEW m, NEW q, Edge(B, r, b, m, q), q # Null, b # Null
      PROVE  Edge(B, rec, b, m, q)
  <2>1. b \in TablesIn(B, r) /\ m \in 0 .. Pointers - 1 /\ q = B[b].table[m]
    BY <1>5, Edges
  <2>2. b \in TablesIn(B, rec)
    BY <1>2, <1>3, <1>5, <2>1
  <2>3. QED
    BY <2>1, <2>2, Edges
<1>6. CASE \E l \in 0 .. NDirect - 1 : /\ r.direct = [rec.direct EXCEPT ![l] = p]
                                      /\ r.ind = rec.ind /\ r.dbl = rec.dbl
  <2>1. PICK l \in 0 .. NDirect - 1 : /\ r.direct = [rec.direct EXCEPT ![l] = p]
                                      /\ r.ind = rec.ind /\ r.dbl = rec.dbl
    BY <1>6
  <2>2. \A m \in 0 .. NDirect - 1 : r.direct[m] = IF m = l THEN p ELSE rec.direct[m]
    BY <2>1 DEF InodeRecord
  <2>3. \A b, m, q : Edge(B, r, b, m, q) /\ q # Null =>
          (Edge(B, rec, b, m, q) /\ q # p) \/ (b = Null /\ m = l /\ q = p)
    <3>1. ASSUME NEW m, NEW q, Edge(B, r, Null, m, q), q # Null
          PROVE  Edge(B, rec, Null, m, q) \/ (m = l /\ q = p)
      <4>1. Null \notin TablesIn(B, r)
        BY DEF TablesIn
      <4>2. \/ m \in 0 .. NDirect - 1 /\ q = r.direct[m]
            \/ m = NDirect /\ q = r.ind
            \/ m = NDirect + 1 /\ q = r.dbl
        BY <3>1, <4>1, Edges
      <4>3. QED
        BY <2>1, <2>2, <4>2, Edges
    <3>2. QED
      BY <1>4, <1>5, <3>1
  <2>4. QED
    BY <2>3, TreeGrows
<1>7. ASSUME r.direct = rec.direct, r.ind = p, r.dbl = rec.dbl
      PROVE  TreeIn(B, r)
  <2> DEFINE z == NDirect
  <2>1. \A b, m, q : Edge(B, r, b, m, q) /\ q # Null =>
          (Edge(B, rec, b, m, q) /\ q # p) \/ (b = Null /\ m = z /\ q = p)
    <3>1. ASSUME NEW m, NEW q, Edge(B, r, Null, m, q), q # Null
          PROVE  Edge(B, rec, Null, m, q) \/ (m = NDirect /\ q = p)
      <4>1. Null \notin TablesIn(B, r)
        BY DEF TablesIn
      <4>2. \/ m \in 0 .. NDirect - 1 /\ q = r.direct[m]
            \/ m = NDirect /\ q = r.ind
            \/ m = NDirect + 1 /\ q = r.dbl
        BY <3>1, <4>1, Edges
      <4>3. QED
        BY <1>7, <4>2, Edges
    <3>2. QED
      BY <1>4, <1>5, <3>1
  <2> HIDE DEF z
  <2>2. QED
    BY <2>1, TreeGrows
<1>8. ASSUME r.direct = rec.direct, r.ind = rec.ind, r.dbl = p
      PROVE  TreeIn(B, r)
  <2>1. \A b, m, q : Edge(B, r, b, m, q) /\ q # Null =>
          (Edge(B, rec, b, m, q) /\ q # p) \/ (b = Null /\ m = NDirect + 1 /\ q = p)
    <3>1. ASSUME NEW m, NEW q, Edge(B, r, Null, m, q), q # Null
          PROVE  Edge(B, rec, Null, m, q) \/ (m = NDirect + 1 /\ q = p)
      <4>1. Null \notin TablesIn(B, r)
        BY DEF TablesIn
      <4>2. \/ m \in 0 .. NDirect - 1 /\ q = r.direct[m]
            \/ m = NDirect /\ q = r.ind
            \/ m = NDirect + 1 /\ q = r.dbl
        BY <3>1, <4>1, Edges
      <4>3. QED
        BY <1>8, <4>2, Edges
    <3>2. QED
      BY <1>4, <1>5, <3>1
  <2>2. QED
    BY <2>1, TreeGrows
<1>9. QED
  BY <1>6, <1>7, <1>8

\* A pointer set in a table, to a block that was not reached and has no pointers.
LEMMA TreePut ==
  ASSUME NEW B \in [Block -> BlockRecord], NEW t \in Block, NEW k \in 0 .. Pointers - 1,
         NEW p \in Block, B[p].table = ZeroTable, p # t, NEW rec \in InodeRecord,
         TreeIn(B, rec), p \notin RefsIn(B, rec)
  PROVE  TreeIn(Put(B, t, k, p), rec)
<1> DEFINE C == [B EXCEPT ![t].table[k] = p]
<1>0. \A b \in Block : B[b].table \in [0 .. Pointers - 1 -> Ptr] /\ B[b] \in BlockRecord
  BY DEF BlockRecord
<1>1. \A b \in Block : \A m \in 0 .. Pointers - 1 :
        C[b].table[m] = IF b = t /\ m = k THEN p ELSE B[b].table[m]
  BY <1>0 DEF BlockRecord
<1> HIDE DEF C
<1>2. rec.ind \in Block \cup {Null} /\ rec.dbl \in Block \cup {Null} /\ p # Null
  BY NotNull DEF InodeRecord, Ptr
<1>3. \A b \in Block : KidsIn(C, b) \subseteq KidsIn(B, b) \cup {p}
  BY <1>1 DEF KidsIn
<1>4. TablesIn(C, rec) \subseteq TablesIn(B, rec) \cup {p}
  <2>1. KidsIn(C, rec.dbl) \subseteq KidsIn(B, rec.dbl) \cup {p}
    BY <1>2, <1>3 DEF KidsIn
  <2>2. QED
    BY <2>1 DEF TablesIn
<1>5. TablesIn(B, rec) \subseteq Block
  BY RefsType DEF RefsIn, TablesIn
<1>6. \A b, m, q : Edge(B, rec, b, m, q) /\ q # Null => q # p
  BY Edges
<1>7. \A m \in 0 .. Pointers - 1 : C[p].table[m] = Null
  BY <1>1 DEF ZeroTable
<1>8. ASSUME NEW b, NEW m, NEW q, Edge(C, rec, b, m, q), q # Null
      PROVE  (Edge(B, rec, b, m, q) /\ q # p) \/ (b = t /\ m = k /\ q = p)
  <2>1. CASE b \notin TablesIn(C, rec)
    <3>1. Edge(B, rec, b, m, q)
      <4>1. \/ b = Null /\ m \in 0 .. NDirect - 1 /\ q = rec.direct[m]
            \/ b = Null /\ m = NDirect /\ q = rec.ind
            \/ b = Null /\ m = NDirect + 1 /\ q = rec.dbl
        BY <1>8, <2>1, Edges
      <4>2. QED
        BY <4>1, Edges
    <3>2. QED
      BY <1>6, <1>8, <3>1
  <2>2. CASE b \in TablesIn(C, rec)
    <3>1. Null \notin TablesIn(C, rec)
      BY DEF TablesIn
    <3>2. m \in 0 .. Pointers - 1 /\ q = C[b].table[m]
      BY <1>8, <2>2, <3>1, Edges
    <3>3. b \in TablesIn(B, rec) /\ b \in Block
      BY <1>4, <1>5, <1>7, <1>8, <2>2, <3>2
    <3>4. CASE b = t /\ m = k
      BY <1>1, <3>2, <3>3, <3>4
    <3>5. CASE ~(b = t /\ m = k)
      <4>1. q = B[b].table[m]
        BY <1>1, <3>2, <3>3, <3>5
      <4>2. Edge(B, rec, b, m, q)
        BY <3>2, <3>3, <4>1, Edges
      <4>3. QED
        BY <1>6, <1>8, <4>2
    <3>6. QED
      BY <3>4, <3>5
  <2>3. QED
    BY <2>1, <2>2
<1>9. TreeIn(C, rec)
  BY <1>8, TreeGrows
<1>10. QED
  BY <1>9 DEF C, Put

-----------------------------------------------------------------------------
(* The place of a block of a file.                                         *)

Quot(l) == (l - NDirect - Pointers) \div Pointers
Rem(l) == (l - NDirect - Pointers) % Pointers
Kid(B, rec, l) == B[rec.dbl].table[Quot(l)]
Place(l) == l \in Nat /\ l < LargestFile

\* A file has no more blocks than there are places.
LEMMA PlaceBelow == \A rec \in InodeRecord : \A l \in 0 .. rec.size - 1 : Place(l)
<1>1. LargestFile \in Nat
  BY Ext2Assumption DEF LargestFile
<1>2. \A rec \in InodeRecord : rec.size \in 0 .. LargestFile
  BY DEF InodeRecord
<1>3. QED
  BY <1>1, <1>2 DEF Place

\* A number is its quotient and its remainder.
LEMMA DivMod ==
  ASSUME NEW p \in Nat, p > 0, NEW a \in Nat, NEW b \in Nat, a \div p = b \div p, a % p = b % p
  PROVE  a = b
<1>1. a = p * (a \div p) + (a % p)
  OBVIOUS
<1>2. b = p * (b \div p) + (b % p)
  OBVIOUS
<1>3. QED
  BY <1>1, <1>2

\* A block behind the doubly indirect one has its place in one table, and no other block has.
LEMMA DoublePlace ==
  /\ \A l : Place(l) /\ InDouble(l) => Quot(l) \in 0 .. Pointers - 1 /\ Rem(l) \in 0 .. Pointers - 1
  /\ \A l, m : Place(l) /\ InDouble(l) /\ Place(m) /\ InDouble(m)
                 /\ Quot(l) = Quot(m) /\ Rem(l) = Rem(m) => l = m
<1>1. \A l : Place(l) /\ InDouble(l) =>
        l - NDirect - Pointers \in Nat /\ l - NDirect - Pointers < Pointers * Pointers
  BY Ext2Assumption DEF Place, InDouble, LargestFile
<1>3. ASSUME NEW l, Place(l), InDouble(l)
      PROVE  Quot(l) \in 0 .. Pointers - 1 /\ Rem(l) \in 0 .. Pointers - 1
  BY <1>1, <1>3, DivBound, Ext2Assumption DEF Quot, Rem
<1>4. ASSUME NEW l, NEW m, Place(l), InDouble(l), Place(m), InDouble(m),
             Quot(l) = Quot(m), Rem(l) = Rem(m)
      PROVE  l = m
  <2>1. l - NDirect - Pointers = m - NDirect - Pointers
    BY <1>1, <1>4, DivMod, Ext2Assumption DEF Quot, Rem
  <2>2. QED
    BY <1>4, <2>1, Ext2Assumption DEF Place
<1>5. QED
  BY <1>3, <1>4

\* What BlockIn finds for each of the three kinds of places.
LEMMA BlockInCases ==
  ASSUME NEW B, NEW rec, NEW l, Place(l)
  PROVE  /\ l < NDirect => BlockIn(B, rec, l) = rec.direct[l]
         /\ InSingle(l) => BlockIn(B, rec, l) = IF rec.ind = Null THEN Null
                                                ELSE B[rec.ind].table[l - NDirect]
         /\ InDouble(l) => BlockIn(B, rec, l) = IF rec.dbl = Null \/ Kid(B, rec, l) = Null THEN Null
                                                ELSE B[Kid(B, rec, l)].table[Rem(l)]
         /\ l \in 0 .. NDirect - 1 \/ (InSingle(l) /\ l - NDirect \in 0 .. Pointers - 1) \/ InDouble(l)
<1>1. CASE l < NDirect
  BY <1>1, Ext2Assumption DEF Place, BlockIn, InSingle, InDouble
<1>2. CASE InSingle(l)
  BY <1>2, Ext2Assumption DEF Place, BlockIn, InSingle, InDouble
<1>3. CASE InDouble(l)
  BY <1>3, Ext2Assumption DEF Place, BlockIn, InSingle, InDouble, Kid, Quot, Rem
<1>4. QED
  BY <1>1, <1>2, <1>3, Ext2Assumption DEF Place, InSingle, InDouble

\* The pointers that lead to a block of a file.
LEMMA PlaceEdges ==
  ASSUME NEW B, NEW rec, NEW l, Place(l), BlockIn(B, rec, l) # Null
  PROVE  /\ l < NDirect => Edge(B, rec, Null, l, BlockIn(B, rec, l))
         /\ InSingle(l) => /\ rec.ind # Null /\ Edge(B, rec, Null, NDirect, rec.ind)
                           /\ Edge(B, rec, rec.ind, l - NDirect, BlockIn(B, rec, l))
         /\ InDouble(l) => /\ rec.dbl # Null /\ Edge(B, rec, Null, NDirect + 1, rec.dbl)
                           /\ Kid(B, rec, l) # Null
                           /\ Edge(B, rec, rec.dbl, Quot(l), Kid(B, rec, l))
                           /\ Edge(B, rec, Kid(B, rec, l), Rem(l), BlockIn(B, rec, l))
         /\ BlockIn(B, rec, l) \in RefsIn(B, rec)
<1>1. ASSUME NEW a, NEW k, NEW p
      PROVE  /\ a = Null /\ k \in 0 .. NDirect - 1 /\ p = rec.direct[k] => Edge(B, rec, a, k, p)
             /\ a = Null /\ k = NDirect /\ p = rec.ind => Edge(B, rec, a, k, p)
             /\ a = Null /\ k = NDirect + 1 /\ p = rec.dbl => Edge(B, rec, a, k, p)
             /\ a \in TablesIn(B, rec) /\ k \in 0 .. Pointers - 1 /\ p = B[a].table[k]
                  => Edge(B, rec, a, k, p)
  BY Edges
<1>2. l < NDirect => Edge(B, rec, Null, l, BlockIn(B, rec, l))
  BY <1>1, BlockInCases, Ext2Assumption DEF Place
<1>3. ASSUME InSingle(l)
      PROVE  /\ rec.ind # Null /\ Edge(B, rec, Null, NDirect, rec.ind)
             /\ Edge(B, rec, rec.ind, l - NDirect, BlockIn(B, rec, l))
  <2>1. /\ rec.ind # Null /\ BlockIn(B, rec, l) = B[rec.ind].table[l - NDirect]
        /\ l - NDirect \in 0 .. Pointers - 1
    BY <1>3, BlockInCases, Ext2Assumption DEF Place, InSingle, InDouble
  <2>2. rec.ind \in TablesIn(B, rec)
    BY <2>1 DEF TablesIn
  <2>3. QED
    BY <1>1, <2>1, <2>2
<1>4. ASSUME InDouble(l)
      PROVE  /\ rec.dbl # Null /\ Edge(B, rec, Null, NDirect + 1, rec.dbl)
             /\ Kid(B, rec, l) # Null
             /\ Edge(B, rec, rec.dbl, Quot(l), Kid(B, rec, l))
             /\ Edge(B, rec, Kid(B, rec, l), Rem(l), BlockIn(B, rec, l))
  <2>1. /\ rec.dbl # Null /\ Kid(B, rec, l) # Null
        /\ BlockIn(B, rec, l) = B[Kid(B, rec, l)].table[Rem(l)]
    BY <1>4, BlockInCases
  <2>2. Quot(l) \in 0 .. Pointers - 1 /\ Rem(l) \in 0 .. Pointers - 1
    BY <1>4, DoublePlace
  <2>3. Kid(B, rec, l) \in KidsIn(B, rec.dbl) /\ rec.dbl \in TablesIn(B, rec)
    BY <2>1, <2>2 DEF KidsIn, Kid, TablesIn
  <2>4. Kid(B, rec, l) \in TablesIn(B, rec)
    BY <2>1, <2>3 DEF TablesIn
  <2>5. Edge(B, rec, Kid(B, rec, l), Rem(l), BlockIn(B, rec, l))
    BY <1>1, <2>1, <2>2, <2>4
  <2>6. Edge(B, rec, rec.dbl, Quot(l), Kid(B, rec, l))
    BY <1>1, <2>2, <2>3 DEF Kid
  <2>7. QED
    BY <1>1, <2>1, <2>5, <2>6
<1>5. \A a, k : Edge(B, rec, a, k, BlockIn(B, rec, l)) => BlockIn(B, rec, l) \in RefsIn(B, rec)
  BY Edges
<1>6. BlockIn(B, rec, l) \in RefsIn(B, rec)
  <2>1. l < NDirect \/ InSingle(l) \/ InDouble(l)
    BY BlockInCases, Ext2Assumption DEF Place
  <2>2. QED
    BY <1>2, <1>3, <1>4, <1>5, <2>1
<1>7. QED
  BY <1>2, <1>3, <1>4, <1>6

\* Two blocks of a file are different blocks of the disk.
LEMMA PlacesApart ==
  ASSUME NEW B, NEW rec, TreeIn(B, rec), NEW l, NEW m, Place(l), Place(m),
         BlockIn(B, rec, l) # Null, BlockIn(B, rec, l) = BlockIn(B, rec, m)
  PROVE  l = m
<1> DEFINE p == BlockIn(B, rec, l)
           E(a, k, q) == Edge(B, rec, a, k, q)
<1>1. \A a, b, k, n, q : q # Null /\ E(a, k, q) /\ E(b, n, q) => a = b /\ k = n
  BY TreeEdges2
<1>2. /\ l < NDirect => E(Null, l, p)
      /\ InSingle(l) => rec.ind # Null /\ E(Null, NDirect, rec.ind) /\ E(rec.ind, l - NDirect, p)
      /\ InDouble(l) => /\ rec.dbl # Null /\ Kid(B, rec, l) # Null
                        /\ E(rec.dbl, Quot(l), Kid(B, rec, l)) /\ E(Kid(B, rec, l), Rem(l), p)
  BY PlaceEdges
<1>3. /\ m < NDirect => E(Null, m, p)
      /\ InSingle(m) => rec.ind # Null /\ E(Null, NDirect, rec.ind) /\ E(rec.ind, m - NDirect, p)
      /\ InDouble(m) => /\ rec.dbl # Null /\ Kid(B, rec, m) # Null
                        /\ E(rec.dbl, Quot(m), Kid(B, rec, m)) /\ E(Kid(B, rec, m), Rem(m), p)
  BY PlaceEdges
<1> p # Null
  OBVIOUS
<1> HIDE DEF p, E
<1>4. /\ l < NDirect \/ InSingle(l) \/ InDouble(l)
      /\ m < NDirect \/ InSingle(m) \/ InDouble(m)
  BY BlockInCases, Ext2Assumption DEF Place
<1>5. CASE l < NDirect
  BY <1>1, <1>2, <1>3, <1>4, <1>5
<1>6. CASE InSingle(l)
  <2>1. InSingle(m) => l - NDirect = m - NDirect
    BY <1>1, <1>2, <1>3, <1>6
  <2>2. QED
    BY <1>1, <1>2, <1>3, <1>4, <1>6, <2>1, Ext2Assumption DEF Place
<1>7. CASE InDouble(l)
  <2>1. InDouble(m) => Quot(l) = Quot(m) /\ Rem(l) = Rem(m)
    BY <1>1, <1>2, <1>3, <1>7
  <2>2. QED
    BY <1>1, <1>2, <1>3, <1>4, <1>7, <2>1, DoublePlace
<1>8. QED
  BY <1>4, <1>5, <1>6, <1>7

\* A block of a file is no table of its pointers.
LEMMA PlaceNoTable ==
  ASSUME NEW B, NEW rec, TreeIn(B, rec), NEW l, Place(l), BlockIn(B, rec, l) # Null
  PROVE  BlockIn(B, rec, l) \notin TablesIn(B, rec)
<1> DEFINE p == BlockIn(B, rec, l)
           E(a, k, q) == Edge(B, rec, a, k, q)
<1>1. \A a, b, k, n, q : q # Null /\ E(a, k, q) /\ E(b, n, q) => a = b /\ k = n
  BY TreeEdges2
<1>2. /\ l < NDirect => E(Null, l, p)
      /\ InSingle(l) => rec.ind # Null /\ E(Null, NDirect, rec.ind) /\ E(rec.ind, l - NDirect, p)
      /\ InDouble(l) => /\ rec.dbl # Null /\ Kid(B, rec, l) # Null /\ E(Null, NDirect + 1, rec.dbl)
                        /\ E(rec.dbl, Quot(l), Kid(B, rec, l)) /\ E(Kid(B, rec, l), Rem(l), p)
  BY PlaceEdges
<1>3. SUFFICES ASSUME p \in TablesIn(B, rec) PROVE FALSE
  OBVIOUS
<1>4. \/ E(Null, NDirect, p)
      \/ E(Null, NDirect + 1, p)
      \/ rec.dbl # Null /\ E(Null, NDirect + 1, rec.dbl) /\ \E k : E(rec.dbl, k, p)
  <2>1. p = rec.ind \/ p = rec.dbl \/ p \in KidsIn(B, rec.dbl)
    BY <1>3 DEF TablesIn
  <2>2. ASSUME p \in KidsIn(B, rec.dbl)
        PROVE  rec.dbl # Null /\ E(Null, NDirect + 1, rec.dbl) /\ \E k : E(rec.dbl, k, p)
    <3>1. PICK k \in 0 .. Pointers - 1 : rec.dbl # Null /\ p = B[rec.dbl].table[k]
      BY <2>2 DEF KidsIn
    <3>2. rec.dbl \in TablesIn(B, rec)
      BY <3>1 DEF TablesIn
    <3>3. E(Null, NDirect + 1, rec.dbl) /\ E(rec.dbl, k, p)
      BY <3>1, <3>2, Edges
    <3>4. QED
      BY <3>1, <3>3
  <2>3. E(Null, NDirect, rec.ind) /\ E(Null, NDirect + 1, rec.dbl)
    BY Edges
  <2>4. QED
    BY <2>1, <2>2, <2>3
<1> p # Null
  OBVIOUS
<1> HIDE DEF p, E
<1>5. l < NDirect \/ InSingle(l) \/ InDouble(l)
  BY BlockInCases, Ext2Assumption DEF Place
<1>6. NDirect # NDirect + 1 /\ (l < NDirect => l # NDirect /\ l # NDirect + 1)
  BY Ext2Assumption DEF Place
<1>7. CASE l < NDirect
  BY <1>1, <1>2, <1>4, <1>6, <1>7
<1>8. CASE InSingle(l)
  BY <1>1, <1>2, <1>4, <1>6, <1>8
<1>9. CASE InDouble(l)
  BY <1>1, <1>2, <1>4, <1>6, <1>9
<1>10. QED
  BY <1>5, <1>7, <1>8, <1>9

-----------------------------------------------------------------------------
(* What a write to a table or to a block of data leaves where it was.      *)

\* The blocks of a file are found through its tables alone.
LEMMA SameTables ==
  ASSUME NEW B, NEW C, NEW rec, \A t \in TablesIn(B, rec) : C[t].table = B[t].table
  PROVE  /\ TablesIn(C, rec) = TablesIn(B, rec)
         /\ \A l : Place(l) => BlockIn(C, rec, l) = BlockIn(B, rec, l)
         /\ TreeIn(B, rec) => TreeIn(C, rec)
<1>1. KidsIn(C, rec.dbl) = KidsIn(B, rec.dbl)
  <2>1. rec.dbl # Null => rec.dbl \in TablesIn(B, rec)
    BY DEF TablesIn
  <2>2. QED
    BY <2>1 DEF KidsIn
<1>2. TablesIn(C, rec) = TablesIn(B, rec)
  BY <1>1 DEF TablesIn
<1>3. ASSUME NEW l, Place(l)
      PROVE  BlockIn(C, rec, l) = BlockIn(B, rec, l)
  <2>1. l < NDirect \/ InSingle(l) \/ InDouble(l)
    BY <1>3, BlockInCases, Ext2Assumption DEF Place
  <2>2. CASE l < NDirect
    BY <1>3, <2>2, BlockInCases
  <2>3. CASE InSingle(l)
    <3>1. rec.ind # Null => rec.ind \in TablesIn(B, rec)
      BY DEF TablesIn
    <3>2. rec.ind # Null => C[rec.ind].table = B[rec.ind].table
      BY <3>1
    <3>3. QED
      BY <1>3, <2>3, <3>2, BlockInCases
  <2>4. CASE InDouble(l)
    <3>1. rec.dbl # Null => rec.dbl \in TablesIn(B, rec)
      BY DEF TablesIn
    <3>2. rec.dbl # Null => Kid(C, rec, l) = Kid(B, rec, l)
      BY <3>1 DEF Kid
    <3>3. rec.dbl # Null => Kid(B, rec, l) \in KidsIn(B, rec.dbl) \cup {Null}
      BY <1>3, <2>4, DoublePlace DEF KidsIn, Kid
    <3>4. rec.dbl # Null /\ Kid(B, rec, l) # Null => Kid(B, rec, l) \in TablesIn(B, rec)
      BY <3>3 DEF TablesIn
    <3>5. rec.dbl # Null /\ Kid(B, rec, l) # Null => C[Kid(B, rec, l)].table = B[Kid(B, rec, l)].table
      BY <3>4
    <3>6. QED
      BY <1>3, <2>4, <3>2, <3>5, BlockInCases
  <2>5. QED
    BY <2>1, <2>2, <2>3, <2>4
<1>4. ASSUME TreeIn(B, rec)
      PROVE  TreeIn(C, rec)
  <2>1. ASSUME NEW b, NEW m, NEW q, Edge(C, rec, b, m, q)
        PROVE  Edge(B, rec, b, m, q)
    BY <1>2, <2>1, Edges
  <2>2. QED
    BY <1>4, <2>1, TreeEdges2
<1>5. QED
  BY <1>2, <1>3, <1>4

\* Two inodes that agree on a place have the same block there.
LEMMA AgreeSame ==
  ASSUME NEW B, NEW r, NEW s, NEW l, Place(l), Agree(r, s, l)
  PROVE  BlockIn(B, r, l) = BlockIn(B, s, l)
<1>1. CASE l < NDirect
  BY <1>1, BlockInCases DEF Agree
<1>2. CASE InSingle(l)
  BY <1>2, BlockInCases, Ext2Assumption DEF Agree, InSingle, Place
<1>3. CASE InDouble(l)
  BY <1>3, BlockInCases, Ext2Assumption DEF Agree, InDouble, Place, Kid
<1>4. QED
  BY <1>1, <1>2, <1>3, BlockInCases, Ext2Assumption DEF Place

\* What a pointer stored in a table changes.
LEMMA Stored ==
  ASSUME NEW B \in [Block -> BlockRecord], NEW t \in Block, NEW k \in 0 .. Pointers - 1, NEW p
  PROVE  \A b \in Block : \A m \in 0 .. Pointers - 1 :
           Put(B, t, k, p)[b].table[m] = IF b = t /\ m = k THEN p ELSE B[b].table[m]
<1>1. \A b \in Block : B[b].table \in [0 .. Pointers - 1 -> Ptr] /\ B[b] \in BlockRecord
  BY DEF BlockRecord
<1>2. QED
  BY <1>1 DEF BlockRecord, Put

\* A pointer that does not lead to a block of a file can be changed.
LEMMA PutElsewhere ==
  ASSUME NEW B \in [Block -> BlockRecord], NEW t \in Block, NEW k \in 0 .. Pointers - 1, NEW p,
         NEW rec \in InodeRecord, NEW l, Place(l), BlockIn(B, rec, l) # Null,
         InSingle(l) => ~(rec.ind = t /\ l - NDirect = k),
         InDouble(l) => ~(rec.dbl = t /\ Quot(l) = k) /\ ~(Kid(B, rec, l) = t /\ Rem(l) = k)
  PROVE  BlockIn(Put(B, t, k, p), rec, l) = BlockIn(B, rec, l)
<1> DEFINE C == Put(B, t, k, p)
<1>1. \A b \in Block : \A m \in 0 .. Pointers - 1 :
        C[b].table[m] = IF b = t /\ m = k THEN p ELSE B[b].table[m]
  BY Stored
<1> HIDE DEF C
<1>2. l < NDirect \/ InSingle(l) \/ InDouble(l)
  BY BlockInCases, Ext2Assumption DEF Place
<1>3. CASE l < NDirect
  BY <1>3, BlockInCases DEF C
<1>4. CASE InSingle(l)
  <2>1. rec.ind # Null /\ rec.ind \in Block /\ l - NDirect \in 0 .. Pointers - 1
    BY <1>4, PlaceEdges, Ext2Assumption DEF InodeRecord, Ptr, InSingle, Place
  <2>2. C[rec.ind].table[l - NDirect] = B[rec.ind].table[l - NDirect]
    BY <1>1, <1>4, <2>1
  <2>3. BlockIn(C, rec, l) = BlockIn(B, rec, l)
    BY <1>4, <2>1, <2>2, BlockInCases
  <2>4. QED
    BY <2>3 DEF C
<1>5. CASE InDouble(l)
  <2>1. rec.dbl # Null /\ rec.dbl \in Block /\ Quot(l) \in 0 .. Pointers - 1 /\ Rem(l) \in 0 .. Pointers - 1
    BY <1>5, PlaceEdges, DoublePlace DEF InodeRecord, Ptr
  <2>2. Kid(C, rec, l) = Kid(B, rec, l)
    BY <1>1, <1>5, <2>1 DEF Kid
  <2>3. Kid(B, rec, l) # Null /\ Kid(B, rec, l) \in Block
    <3>1. Kid(B, rec, l) # Null
      BY <1>5, PlaceEdges
    <3>2. B[rec.dbl].table[Quot(l)] \in Ptr
      BY <2>1 DEF BlockRecord
    <3>3. QED
      BY <3>1, <3>2 DEF Kid, Ptr
  <2>4. C[Kid(B, rec, l)].table[Rem(l)] = B[Kid(B, rec, l)].table[Rem(l)]
    BY <1>1, <1>5, <2>1, <2>3
  <2>5. BlockIn(C, rec, l) = BlockIn(B, rec, l)
    BY <1>5, <2>1, <2>2, <2>3, <2>4, BlockInCases
  <2>6. QED
    BY <2>5 DEF C
<1>6. QED
  BY <1>2, <1>3, <1>4, <1>5

\* A pointer stored where there was none moves no block of any file.
LEMMA PutNew ==
  ASSUME NEW B \in [Block -> BlockRecord], NEW t \in Block, NEW k \in 0 .. Pointers - 1, NEW p,
         B[t].table[k] = Null, NEW rec \in InodeRecord, NEW l, Place(l), BlockIn(B, rec, l) # Null
  PROVE  BlockIn(Put(B, t, k, p), rec, l) = BlockIn(B, rec, l)
<1>1. InSingle(l) => ~(rec.ind = t /\ l - NDirect = k)
  <2>1. InSingle(l) => B[rec.ind].table[l - NDirect] # Null
    BY BlockInCases
  <2>2. QED
    BY <2>1
<1>2. InDouble(l) => ~(rec.dbl = t /\ Quot(l) = k) /\ ~(Kid(B, rec, l) = t /\ Rem(l) = k)
  <2>1. InDouble(l) => B[rec.dbl].table[Quot(l)] # Null /\ B[Kid(B, rec, l)].table[Rem(l)] # Null
    BY BlockInCases DEF Kid
  <2>2. QED
    BY <2>1
<1>3. QED
  BY <1>1, <1>2, PutElsewhere

\* The table and the slot that set_inode_block stores the pointer of a block in.
SlotTable(B, rec, g) == IF InSingle(g) THEN rec.ind ELSE Kid(B, rec, g)
SlotIndex(g) == IF InSingle(g) THEN g - NDirect ELSE Rem(g)
HasSlot(B, rec, g) ==
  IF InSingle(g) THEN rec.ind # Null ELSE InDouble(g) /\ rec.dbl # Null /\ Kid(B, rec, g) # Null

\* The pointer of a block, stored in the tables of a tree, moves no other block.
LEMMA PutInSlot ==
  ASSUME NEW B \in [Block -> BlockRecord], NEW rec \in InodeRecord, TreeIn(B, rec),
         NEW g, Place(g), HasSlot(B, rec, g), NEW p
  PROVE  /\ SlotTable(B, rec, g) \in Block /\ SlotIndex(g) \in 0 .. Pointers - 1
         /\ \A l : Place(l) /\ l # g /\ BlockIn(B, rec, l) # Null =>
              BlockIn(Put(B, SlotTable(B, rec, g), SlotIndex(g), p), rec, l) = BlockIn(B, rec, l)
         /\ BlockIn(Put(B, SlotTable(B, rec, g), SlotIndex(g), p), rec, g) = p
<1> DEFINE t == SlotTable(B, rec, g)
           k == SlotIndex(g)
           C == Put(B, t, k, p)
           E(a, n, q) == Edge(B, rec, a, n, q)
<1>0. \A a, b, n, m, q : q # Null /\ E(a, n, q) /\ E(b, m, q) => a = b /\ n = m
  BY TreeEdges2
<1>1. E(Null, NDirect, rec.ind) /\ E(Null, NDirect + 1, rec.dbl) /\ NDirect # NDirect + 1
  <2>1. Edge(B, rec, Null, NDirect, rec.ind) /\ Edge(B, rec, Null, NDirect + 1, rec.dbl)
    BY Edges
  <2>2. QED
    BY <2>1, Ext2Assumption
<1>2. ASSUME InDouble(g), rec.dbl # Null, Kid(B, rec, g) # Null
      PROVE  /\ E(rec.dbl, Quot(g), Kid(B, rec, g)) /\ Kid(B, rec, g) \in Block /\ rec.dbl \in Block
             /\ Quot(g) \in 0 .. Pointers - 1
  <2>1. rec.dbl \in TablesIn(B, rec) /\ Quot(g) \in 0 .. Pointers - 1 /\ rec.dbl \in Block
    BY <1>2, DoublePlace DEF TablesIn, InodeRecord, Ptr
  <2>2. E(rec.dbl, Quot(g), Kid(B, rec, g))
    BY <2>1, Edges DEF Kid
  <2>3. B[rec.dbl].table[Quot(g)] \in Ptr
    BY <2>1 DEF BlockRecord
  <2>4. QED
    BY <1>2, <2>1, <2>2, <2>3 DEF Kid, Ptr
<1>3. \/ InSingle(g) /\ t = rec.ind /\ k = g - NDirect /\ rec.ind # Null
      \/ /\ ~InSingle(g) /\ InDouble(g) /\ t = Kid(B, rec, g) /\ k = Rem(g)
         /\ rec.dbl # Null /\ Kid(B, rec, g) # Null
  BY DEF HasSlot, SlotTable, SlotIndex
<1>4. t \in Block /\ k \in 0 .. Pointers - 1
  <2>1. CASE InSingle(g)
    BY <1>3, <2>1, Ext2Assumption DEF InodeRecord, Ptr, InSingle, Place
  <2>2. CASE ~InSingle(g)
    BY <1>2, <1>3, <2>2, DoublePlace
  <2>3. QED
    BY <2>1, <2>2
<1>5. \A b \in Block : \A m \in 0 .. Pointers - 1 :
        C[b].table[m] = IF b = t /\ m = k THEN p ELSE B[b].table[m]
  BY <1>4, Stored
<1> HIDE DEF t, k, C, E
<1>6. ASSUME NEW l, Place(l), l # g, BlockIn(B, rec, l) # Null
      PROVE  BlockIn(C, rec, l) = BlockIn(B, rec, l)
  <2>1. InSingle(l) => ~(rec.ind = t /\ l - NDirect = k)
    <3>1. ASSUME InSingle(l), rec.ind = t, l - NDirect = k
          PROVE  FALSE
      <4>1. CASE InSingle(g)
        BY <1>3, <1>6, <3>1, <4>1, Ext2Assumption DEF Place
      <4>2. CASE ~InSingle(g)
        BY <1>0, <1>1, <1>2, <1>3, <3>1, <4>2
      <4>3. QED
        BY <4>1, <4>2
    <3>2. QED
      BY <3>1
  <2>2. ASSUME InDouble(l)
        PROVE  ~(rec.dbl = t /\ Quot(l) = k) /\ ~(Kid(B, rec, l) = t /\ Rem(l) = k)
    <3>1. rec.dbl # Null /\ Kid(B, rec, l) # Null /\ E(rec.dbl, Quot(l), Kid(B, rec, l))
      BY <1>6, <2>2, PlaceEdges DEF E
    <3>2. rec.dbl # t
      BY <1>0, <1>1, <1>2, <1>3, <3>1
    <3>3. ASSUME Kid(B, rec, l) = t, Rem(l) = k
          PROVE  FALSE
      <4>1. CASE InSingle(g)
        BY <1>0, <1>1, <1>3, <3>1, <3>3, <4>1
      <4>2. CASE ~InSingle(g)
        <5>1. Quot(l) = Quot(g)
          BY <1>0, <1>2, <1>3, <3>1, <3>3, <4>2
        <5>2. QED
          BY <1>3, <1>6, <2>2, <3>3, <4>2, <5>1, DoublePlace
      <4>3. QED
        BY <4>1, <4>2
    <3>4. QED
      BY <3>2, <3>3
  <2>3. QED
    BY <1>4, <1>6, <2>1, <2>2, PutElsewhere DEF C
<1>7. BlockIn(C, rec, g) = p
  <2>1. CASE InSingle(g)
    <3>1. C[rec.ind].table[g - NDirect] = p /\ rec.ind # Null
      BY <1>3, <1>4, <1>5, <2>1
    <3>2. QED
      BY <2>1, <3>1, BlockInCases
  <2>2. CASE ~InSingle(g)
    <3>1. rec.dbl # t
      BY <1>0, <1>1, <1>2, <1>3, <2>2
    <3>2. Kid(C, rec, g) = Kid(B, rec, g)
      BY <1>2, <1>3, <1>5, <2>2, <3>1 DEF Kid
    <3>3. C[Kid(B, rec, g)].table[Rem(g)] = p
      BY <1>3, <1>4, <1>5, <2>2
    <3>4. QED
      BY <1>3, <2>2, <3>2, <3>3, BlockInCases
  <2>3. QED
    BY <2>1, <2>2
<1>8. QED
  BY <1>4, <1>6, <1>7 DEF t, k, C

-----------------------------------------------------------------------------
(* What a step leaves of the files.                                        *)

Kept(i) ==
  /\ i \in Owners /\ inode'[i] = inode[i]
  /\ \A b \in Held(i) : blk'[b].table = blk[b].table /\ blk'[b].own = blk[b].own

\* The inodes that creations write have at most one pointer.
LEMMA EmptyTree ==
  ASSUME NEW B
  PROVE  TreeIn(B, FileInode) /\ \A b \in Block : TreeIn(B, DirInode(b))
<1>1. /\ FileInode.ind = Null /\ FileInode.dbl = Null
      /\ \A k \in 0 .. NDirect - 1 : FileInode.direct[k] = Null
  BY DEF FileInode, ZeroInode
<1>2. TablesIn(B, FileInode) = {}
  BY <1>1 DEF TablesIn, KidsIn
<1>3. \A a, k, p : Edge(B, FileInode, a, k, p) => p = Null
  BY <1>1, <1>2, Edges
<1>4. TreeIn(B, FileInode)
  BY <1>3, TreeEdges2
<1>5. ASSUME NEW b \in Block
      PROVE  TreeIn(B, DirInode(b))
  <2>1. /\ DirInode(b).ind = Null /\ DirInode(b).dbl = Null
        /\ \A k \in 0 .. NDirect - 1 : k # 0 => DirInode(b).direct[k] = Null
    BY DEF DirInode, ZeroInode
  <2>2. TablesIn(B, DirInode(b)) = {}
    BY <2>1 DEF TablesIn, KidsIn
  <2>3. \A a, k, p : Edge(B, DirInode(b), a, k, p) /\ p # Null => a = Null /\ k = 0
    BY <2>1, <2>2, Edges
  <2>4. QED
    BY <2>3, TreeEdges2
<1>6. QED
  BY <1>4, <1>5

\* Files whose inode and blocks a step leaves alone stay what they are.
LEMMA FilesKept ==
  ASSUME TypeOK, DiskInv, TreesOK, \A i \in Owners : Whole(i),
         \A i \in Owners' : \/ Kept(i)
                            \/ inode'[i] = FileInode
                            \/ TreeIn(blk', inode'[i]) /\ Whole(i)'
  PROVE  TreesOK' /\ \A i \in Owners' : Whole(i)'
<1>1. ASSUME NEW i, Kept(i)
      PROVE  TreeIn(blk', inode'[i]) /\ Whole(i)'
  <2> DEFINE r == inode[i]
  <2>1. r \in InodeRecord /\ inode'[i] = r /\ TreeIn(blk, r) /\ Whole(i)
    BY <1>1 DEF Kept, TreesOK, TypeOK, Owners, DiskInv, InodesOK, Dirs
  <2>2. \A b \in RefsIn(blk, r) : blk'[b].table = blk[b].table /\ blk'[b].own = blk[b].own
    BY <1>1 DEF Kept, Held
  <2>3. \A t \in TablesIn(blk, r) : blk'[t].table = blk[t].table
    BY <2>2 DEF RefsIn, TablesIn
  <2>4. TreeIn(blk', r) /\ \A l : Place(l) => BlockIn(blk', r, l) = BlockIn(blk, r, l)
    BY <2>1, <2>3, SameTables
  <2>5. ASSUME NEW l \in 0 .. r.size - 1, r.type = "file"
        PROVE  BlockIn(blk', r, l) # Null /\ blk'[BlockIn(blk', r, l)].own = <<i, l>>
    <3>1. Place(l)
      BY <2>1, PlaceBelow
    <3>2. BlockIn(blk, r, l) # Null /\ blk[BlockIn(blk, r, l)].own = <<i, l>>
      BY <2>1, <2>5 DEF Whole
    <3>3. BlockIn(blk, r, l) \in RefsIn(blk, r)
      BY <3>1, <3>2, PlaceEdges
    <3>4. QED
      BY <2>2, <2>4, <3>1, <3>2, <3>3
  <2> HIDE DEF r
  <2>6. Whole(i)'
    BY <2>1, <2>5 DEF Whole
  <2>7. QED
    BY <2>1, <2>4, <2>6
<1>2. ASSUME NEW i, inode'[i] = FileInode
      PROVE  TreeIn(blk', inode'[i]) /\ Whole(i)'
  <2>1. FileInode.size = 0
    BY DEF FileInode, ZeroInode
  <2>2. QED
    BY <1>2, <2>1, EmptyTree DEF Whole
<1>3. QED
  BY <1>1, <1>2 DEF TreesOK

\* An owner is the root, a directory or an inode an entry names.
LEMMA OwnersWithin ==
  ASSUME NEW S, Root \in S, Dirs' \subseteq S,
         \A d \in Dirs' : \A b \in DirBlocks(inode'[d]) : \A e \in blk'[b].ents : e.ino \in S
  PROVE  Owners' \subseteq S
<1>1. ASSUME NEW i \in Named'
      PROVE  i \in S
  <2>1. CASE i = Root
    BY <2>1
  <2>2. CASE i # Root
    <3>1. PICK b \in EntryBlocks' : \E e \in blk'[b].ents : i = e.ino
      BY <2>2, NamedByBlocks
    <3>2. PICK d \in Dirs' : b \in DirBlocks(inode'[d])
      BY <3>1 DEF EntryBlocks
    <3>3. QED
      BY <3>1, <3>2
  <2>3. QED
    BY <2>1, <2>2
<1>2. QED
  BY <1>1 DEF Owners

\* While no inode changes, only an entry makes an owner.
LEMMA OwnersByEntries ==
  ASSUME TypeOK, DiskInv, TypeOK', DiskInv', inode' = inode, NEW o,
         \A b \in EntryBlocks : \A e \in blk'[b].ents : e \in blk[b].ents \/ e.ino = o
  PROVE  Owners' \subseteq Owners \cup {o}
<1>1. Dirs' = Dirs /\ Root \in Owners
  BY DEF Dirs, DiskInv, InodesOK, TypeOK, Owners, Named
<1>2. ASSUME NEW d \in Dirs, NEW b \in DirBlocks(inode[d]), NEW e \in blk'[b].ents
      PROVE  e.ino \in Owners \cup {o}
  <2>1. b \in EntryBlocks
    BY <1>2 DEF EntryBlocks
  <2>2. e \in blk[b].ents => e.ino \in Named
    BY <2>1, NamedByBlocks
  <2>3. QED
    BY <2>1, <2>2 DEF Owners
<1>3. Dirs' \subseteq Owners \cup {o} /\ Root \in Owners \cup {o}
  BY <1>1 DEF Owners
<1>4. QED
  BY <1>1, <1>2, <1>3, OwnersWithin

\* A step that writes one block, which no owner has, and no inode.
LEMMA FilesKeptFresh ==
  ASSUME TypeOK, DiskInv, TypeOK', DiskInv', TreesOK, \A i \in Owners : Whole(i),
         inode' = inode, NEW c, \A i \in Owners : c \notin Held(i),
         \A b \in Block : b # c => blk'[b] = blk[b]
  PROVE  TreesOK' /\ \A i \in Owners' : Whole(i)'
<1>1. c \notin EntryBlocks /\ EntryBlocks \subseteq Block
  BY EntryBlocksType DEF Owners
<1>2. \A b \in EntryBlocks : blk'[b] = blk[b]
  BY <1>1
<1>3. Root \in Owners
  BY DEF Owners, Named
<1>4. Owners' \subseteq Owners
  BY <1>2, <1>3, OwnersByEntries
<1>5. \A i \in Owners : Held(i) \subseteq Block
  BY DEF DiskInv, BlocksOK, TypeOK
<1>6. \A i \in Owners' : Kept(i)
  BY <1>4, <1>5 DEF Kept
<1>7. QED
  BY <1>6, FilesKept

\* A step that only changes entries.
LEMMA FilesKeptEntries ==
  ASSUME TypeOK, DiskInv, TypeOK', DiskInv', TreesOK, \A i \in Owners : Whole(i),
         inode' = inode, NEW o, inode[o] = FileInode \/ o \in Owners,
         \A b \in Block : /\ blk'[b].table = blk[b].table /\ blk'[b].own = blk[b].own
                          /\ \A e \in blk'[b].ents : e \in blk[b].ents \/ e.ino = o
  PROVE  TreesOK' /\ \A i \in Owners' : Whole(i)'
<1>1. Owners' \subseteq Owners \cup {o}
  BY EntryBlocksType, OwnersByEntries
<1>2. \A i \in Owners : Held(i) \subseteq Block
  BY DEF DiskInv, BlocksOK, TypeOK
<1>3. \A i \in Owners' : Kept(i) \/ inode'[i] = FileInode
  BY <1>1, <1>2 DEF Kept
<1>4. QED
  BY <1>3, FilesKept

-----------------------------------------------------------------------------
(* The file being written.                                                 *)

\* What the running write has is in place.
LEMMA WriteFacts ==
  ASSUME TypeInv, SafeInv, MineOK, op.cmd = "write"
  PROVE  /\ op \in Operation /\ op.mine \in InodeRecord /\ op.ino \in Inode /\ inode[op.ino] \in InodeRecord
         /\ op.ino \in Owners /\ op.logical \in Nat /\ op.goal \in Nat /\ op.goal <= LargestFile
         /\ op.logical <= op.goal /\ op.mine.size \in Nat
         /\ \A l \in Nat : l < op.goal => Place(l)
         /\ \A l \in 0 .. op.mine.size - 1 : Place(l)
         /\ MineTree /\ TreeIn(blk, op.mine) /\ RefsIn(blk, op.mine) \subseteq Block
         /\ TablesIn(blk, op.mine) \subseteq RefsIn(blk, op.mine)
         /\ blk \in [Block -> BlockRecord]
<1>1. TypeOK /\ op.goal \in 0 .. LargestFile /\ op.ino \in Inode
  BY DEF TypeInv, LocalsOK
<1>2. op \in Operation /\ op.mine \in InodeRecord /\ op.logical \in Nat /\ inode[op.ino] \in InodeRecord
  BY <1>1 DEF TypeOK, Operation
<1>3. MineTree /\ TreeIn(blk, op.mine) /\ op.logical <= op.goal
  BY DEF MineOK, MineTree
<1>4. op.mine.size \in 0 .. LargestFile /\ LargestFile \in Nat
  BY <1>2, Records DEF InodeRecord
<1>5. \A l \in 0 .. op.mine.size - 1 : Place(l)
  BY <1>2, PlaceBelow
<1>6. \A l \in Nat : l < op.goal => Place(l)
  BY <1>1, <1>4 DEF Place
<1>7. blk \in [Block -> BlockRecord] /\ RefsIn(blk, op.mine) \subseteq Block
  BY <1>1, <1>2, RefsType DEF TypeOK
<1>8. op.ino \in Owners
  BY <1>1, MineApart
<1>9. TablesIn(blk, op.mine) \subseteq RefsIn(blk, op.mine)
  BY DEF TablesIn, RefsIn
<1>10. QED
  BY <1>1, <1>2, <1>3, <1>4, <1>5, <1>6, <1>7, <1>8, <1>9

\* A step that leaves the inode in memory and its blocks alone.
LEMMA MineKept ==
  ASSUME TypeInv, SafeInv, MineOK, op.cmd = "write", op'.ino = op.ino, op'.mine = op.mine,
         inode' = inode, \A b \in RefsIn(blk, op.mine) : blk'[b] = blk[b]
  PROVE  /\ MineTree'
         /\ \A n \in 0 .. op.goal : /\ Placed(n) => Placed(n)'
                                    /\ Placed(op.goal) /\ Filled(n) => Filled(n)'
         /\ op.mine.dbl # Null => blk'[op.mine.dbl] = blk[op.mine.dbl]
<1>1. /\ TreeIn(blk, op.mine) /\ MineTree /\ \A l \in Nat : l < op.goal => Place(l)
      /\ op.goal \in Nat /\ TablesIn(blk, op.mine) \subseteq RefsIn(blk, op.mine)
  BY WriteFacts
<1>a. \A t \in TablesIn(blk, op.mine) : blk'[t].table = blk[t].table
  BY <1>1
<1>2. TreeIn(blk', op.mine) /\ \A l : Place(l) => BlockIn(blk', op.mine, l) = BlockIn(blk, op.mine, l)
  BY <1>1, <1>a, SameTables
<1>3. MineTree'
  BY <1>1, <1>2 DEF MineTree
<1>4. ASSUME NEW n \in 0 .. op.goal
      PROVE  /\ Placed(n) => Placed(n)'
             /\ Placed(op.goal) /\ Filled(n) => Filled(n)'
  <2>1. \A l \in 0 .. n - 1 : Place(l) /\ l \in 0 .. op.goal - 1
    BY <1>1
  <2>2. Placed(n) => Placed(n)'
    BY <1>2, <2>1 DEF Placed
  <2>3. ASSUME Placed(op.goal), Filled(n), NEW l \in 0 .. n - 1
        PROVE  blk'[BlockIn(blk', op.mine, l)].own = <<op.ino, l>>
    <3>1. BlockIn(blk, op.mine, l) # Null /\ Place(l)
      BY <2>1, <2>3 DEF Placed
    <3>2. BlockIn(blk, op.mine, l) \in RefsIn(blk, op.mine)
      BY <3>1, PlaceEdges
    <3>3. QED
      BY <1>2, <2>3, <3>1, <3>2 DEF Filled
  <2>4. QED
    BY <2>2, <2>3 DEF Filled
<1>5. op.mine.dbl # Null => blk'[op.mine.dbl] = blk[op.mine.dbl]
  BY <1>1 DEF TablesIn
<1>6. QED
  BY <1>3, <1>4, <1>5

\* A step that neither starts nor moves a write.
LEMMA MineAllocates ==
  ASSUME TypeInv, SafeInv, MineOK, op.cmd = "write", op'.cmd = "write", op'.ino = op.ino,
         op'.mine = op.mine, op'.logical = op.logical, op'.goal = op.goal, inode' = inode,
         \A b \in RefsIn(blk, op.mine) : blk'[b] = blk[b], pc # "write_data", pc' # "write_data",
         pc' = "link_child" => pc \in Allocating /\ op.want = "child",
         pc' \in Allocating => \/ pc \in Allocating /\ op'.want = op.want
                               \/ /\ op'.want = "indirect" => InSingle(op.logical) /\ op.mine.ind = Null
                                  /\ op'.want = "double" => InDouble(op.logical) /\ op.mine.dbl = Null
                                  /\ op'.want = "child" =>
                                       /\ InDouble(op.logical) /\ op.mine.dbl # Null
                                       /\ blk[op.mine.dbl].table[Child] = Null
  PROVE  MineOK'
<1>1. /\ op.logical \in 0 .. op.goal /\ MineTree
      /\ op.mine.size <= op.logical /\ op.logical <= op.goal /\ Placed(op.logical)
  BY WriteFacts DEF MineOK
<1>2. MineTree' /\ (op.mine.dbl # Null => blk'[op.mine.dbl] = blk[op.mine.dbl])
  BY MineKept
<1>3. Placed(op.logical)'
  <2>1. PICK n \in 0 .. op.goal : n = op.logical
    BY <1>1
  <2>2. Placed(n)'
    BY <1>1, <2>1, MineKept
  <2>3. QED
    BY <2>1, <2>2 DEF Placed
<1>4. Child' = Child /\ InSingle(op.logical)' = InSingle(op.logical)
        /\ InDouble(op.logical)' = InDouble(op.logical)
  BY DEF Child, InSingle, InDouble
<1>5. pc \in Allocating /\ op.want = "child" =>
        InDouble(op.logical) /\ op.mine.dbl # Null /\ blk[op.mine.dbl].table[Child] = Null
  BY DEF MineOK
<1>6. pc \in Allocating => /\ op.want = "indirect" => InSingle(op.logical) /\ op.mine.ind = Null
                           /\ op.want = "double" => InDouble(op.logical) /\ op.mine.dbl = Null
  BY DEF MineOK
<1>7. QED
  BY <1>1, <1>2, <1>3, <1>4, <1>5, <1>6 DEF MineOK

-----------------------------------------------------------------------------
(* The steps.                                                              *)

Good == TypeInv /\ SafeInv /\ FileInv

\* What Good says, in parts.
LEMMA GoodParts ==
  ASSUME Good
  PROVE  /\ TypeInv /\ TypeOK /\ LocalsOK /\ SafeInv /\ DiskInv /\ OpInv /\ StageOK /\ op \in Operation
         /\ TreesOK /\ (\A i \in Owners : Whole(i)) /\ MineOK
  BY DEF Good, TypeInv, SafeInv, OpInv, FileInv, TypeOK

\* A step that neither writes a block nor an inode.
LEMMA QuietFiles ==
  ASSUME Good, TypeInv', SafeInv', inode' = inode, blk' = blk
  PROVE  TreesOK' /\ \A i \in Owners' : Whole(i)'
<1>1. TypeOK /\ DiskInv /\ TypeOK' /\ DiskInv' /\ TreesOK /\ \A i \in Owners : Whole(i)
  BY GoodParts DEF TypeInv, SafeInv
<1>2. Root \in Owners
  BY DEF Owners, Named
<1>3. QED
  BY <1>1, <1>2, FilesKeptEntries

\* ... while no file is written.
LEMMA QuietEnd ==
  ASSUME Good, TypeInv', SafeInv', inode' = inode, blk' = blk, op'.cmd # "write"
  PROVE  FileInv'
  BY QuietFiles DEF FileInv, MineOK

\* An operation that ends, in memory.
LEMMA FinishMine == ASSUME Finish PROVE op'.cmd # "write" /\ MineOK'
  BY DEF Finish, NoOp, MineOK

\* ext2_write_file starts from the inode on disk.
LEMMA WriteFileFiles ==
  ASSUME Good, TypeInv', SafeInv', NEW d \in Inode, NEW n \in Name, NEW k \in Sizes, WriteFile(d, n, k)
  PROVE  FileInv'
<1>1. PICK i \in Lookup(d, n) :
        /\ inode[i].type = "file" /\ inode[i].size <= k /\ k <= LargestFile
        /\ op' = [NoOp EXCEPT !.cmd = "write", !.ino = i, !.goal = k,
                              !.mine = inode[i], !.logical = inode[i].size]
  BY DEF WriteFile
<1>2. inode' = inode /\ blk' = blk /\ pc' = "write_alloc" /\ d \in Dirs
  BY DEF WriteFile, disk
<1>3. i \in Named /\ i \in Owners
  <2>1. \E e \in Entries(inode[d]) : i = e.ino
    BY <1>1 DEF Lookup
  <2>2. QED
    BY <1>2, <2>1 DEF Named, Owners
<1>4. /\ op'.cmd = "write" /\ op'.ino = i /\ op'.goal = k /\ op'.mine = inode[i]
      /\ op'.logical = inode[i].size
  BY <1>1 DEF NoOp
<1>5. TreeIn(blk, inode[i]) /\ Whole(i)
  BY <1>3, GoodParts DEF TreesOK
<1>6. MineTree'
  <2>1. \A l : Agree(inode[i], inode[i], l)
    BY DEF Agree
  <2>2. QED
    BY <1>2, <1>4, <1>5, <2>1 DEF MineTree
<1>7. (\A l \in 0 .. inode[i].size - 1 : BlockIn(blk, inode[i], l) # Null)
  BY <1>1, <1>5 DEF Whole
<1>8. op'.mine.size <= op'.logical /\ op'.logical <= op'.goal
  <2>1. inode[i].size \in Int
    BY <1>3, GoodParts DEF DiskInv, InodesOK, TypeOK, InodeRecord
  <2>2. QED
    BY <1>1, <1>4, <2>1
<1>9. MineOK'
  <2>1. (\A l \in 0 .. op'.logical - 1 : BlockIn(blk', op'.mine, l) # Null)
    BY <1>2, <1>4, <1>7
  <2>2. QED
    BY <1>2, <1>6, <1>8, <2>1 DEF MineOK, Placed, Allocating
<1>10. QED
  BY <1>2, <1>9, QuietFiles DEF FileInv

\* The other requests and a mount start no write.
LEMMA RequestFiles ==
  ASSUME Good, TypeInv', SafeInv', Request
  PROVE  FileInv'
<1>1. ASSUME NEW d \in Inode, NEW n \in Name, NEW cmd \in {"create", "mkdir"}, NEW k, Create(cmd, d, n, k)
      PROVE  FileInv'
  <2>1. op'.cmd = cmd /\ inode' = inode /\ blk' = blk
    BY <1>1 DEF Create, NoOp, disk
  <2>2. QED
    BY <2>1, QuietEnd
<1>2. ASSUME NEW d \in Inode, NEW n \in Name, DeleteFile(d, n)
      PROVE  FileInv'
  <2>1. op'.cmd = "delete" /\ inode' = inode /\ blk' = blk
    BY <1>2 DEF DeleteFile, NoOp, disk
  <2>2. QED
    BY <2>1, QuietEnd
<1>3. QED
  BY <1>1, <1>2, WriteFileFiles DEF Request

\* A step of a creation or a deletion that writes neither a block nor an inode.
LEMMA OtherFiles ==
  ASSUME Good, TypeInv', SafeInv', inode' = inode, blk' = blk,
         op.cmd # "write", op'.cmd = op.cmd \/ Finish
  PROVE  FileInv'
  BY QuietEnd, FinishMine

\* The bookkeeping of the bitmaps and counts.
LEMMA CountsFiles ==
  ASSUME Good, TypeInv', SafeInv', NEW ok \in BOOLEAN,
         \/ AllocInodeBitmap(ok) \/ AllocInodeDesc(ok) \/ AllocInodeSuper(ok)
         \/ FreeBlockBitmap(ok) \/ FreeBlockDesc(ok) \/ FreeBlockSuper(ok)
         \/ FreeInodeBitmap(ok) \/ FreeInodeDesc(ok) \/ FreeInodeSuper(ok)
         \/ DiskFull \/ InodesFull \/ GrowDirectory \/ SkipNull
  PROVE  FileInv'
<1>1. op \in Operation /\ StageOK
  BY GoodParts
<1>2. inode' = inode /\ blk' = blk
  BY DEF AllocInodeBitmap, AllocInodeDesc, AllocInodeSuper, FreeBlockBitmap, FreeBlockDesc,
     FreeBlockSuper, FreeInodeBitmap, FreeInodeDesc, FreeInodeSuper, DiskFull, InodesFull,
     GrowDirectory, SkipNull, disk
<1>3. CASE DiskFull \/ InodesFull \/ FreeInodeSuper(ok)
  BY <1>2, <1>3, QuietEnd, FinishMine DEF DiskFull, InodesFull, FreeInodeSuper
<1>4. CASE AllocInodeBitmap(ok) \/ AllocInodeDesc(ok) \/ AllocInodeSuper(ok) \/ GrowDirectory
  <2>1. op.cmd # "write"
    BY <1>1, <1>4 DEF AllocInodeBitmap, AllocInodeDesc, AllocInodeSuper, GrowDirectory, StageOK,
       Creating, BeforeNew, Adding
  <2>2. op'.cmd = op.cmd \/ Finish
    BY <1>1, <1>4 DEF AllocInodeBitmap, AllocInodeDesc, AllocInodeSuper, GrowDirectory, Proceed, Operation
  <2>3. QED
    BY <1>2, <2>1, <2>2, OtherFiles
<1>5. CASE FreeBlockBitmap(ok) \/ FreeBlockDesc(ok) \/ FreeBlockSuper(ok) \/ SkipNull
           \/ FreeInodeBitmap(ok) \/ FreeInodeDesc(ok)
  <2>1. op.cmd # "write"
    BY <1>1, <1>5 DEF FreeBlockBitmap, FreeBlockDesc, FreeBlockSuper, SkipNull, FreeInodeBitmap,
       FreeInodeDesc, StageOK, Freed, Freeing
  <2>2. op'.cmd = op.cmd \/ Finish
    BY <1>1, <1>5 DEF FreeBlockBitmap, FreeBlockDesc, FreeBlockSuper, SkipNull, FreeInodeBitmap,
       FreeInodeDesc, NextFree, Proceed, Operation
  <2>3. QED
    BY <1>2, <2>1, <2>2, OtherFiles
<1>6. QED
  BY <1>3, <1>4, <1>5

\* Neither do a lost write, a power loss and a mount.
LEMMA FaultFiles ==
  ASSUME Good, TypeInv', SafeInv', WriteLost \/ Crash \/ Mount
  PROVE  FileInv'
<1>1. op \in Operation /\ StageOK /\ inode' = inode /\ blk' = blk
  BY GoodParts DEF WriteLost, Crash, Mount, disk
<1>2. CASE WriteLost
  <2>1. CASE pc \notin Freeing
    BY <1>1, <1>2, <2>1, QuietEnd, FinishMine DEF WriteLost
  <2>2. CASE pc \in Freeing
    <3>1. op.cmd # "write"
      BY <1>1, <2>2 DEF StageOK, Freed
    <3>2. op'.cmd = op.cmd
      BY <1>1, <1>2, <2>2 DEF WriteLost, NextFree, Operation
    <3>3. QED
      BY <1>1, <3>1, <3>2, OtherFiles
  <2>3. QED
    BY <2>1, <2>2
<1>3. CASE Crash
  BY <1>1, <1>3, QuietEnd DEF Crash, NoOp
<1>4. CASE Mount
  <2>1. op' = op /\ op.cmd = "none"
    BY <1>1, <1>4 DEF Mount, StageOK
  <2>2. QED
    BY <1>1, <2>1, OtherFiles
<1>5. QED
  BY <1>2, <1>3, <1>4

\* allocate_block marks a block and counts it, for whatever it is wanted.
LEMMA AllocBlockFiles ==
  ASSUME Good, TypeInv', SafeInv', NEW ok \in BOOLEAN,
         AllocBlockBitmap(ok) \/ AllocBlockDesc(ok) \/ AllocBlockSuper(ok)
  PROVE  FileInv'
<1>1. op \in Operation /\ inode' = inode /\ blk' = blk /\ pc \in Allocating
  BY GoodParts DEF AllocBlockBitmap, AllocBlockDesc, AllocBlockSuper, Allocating
<1>2. CASE ~ok
  BY <1>1, <1>2, QuietEnd, FinishMine DEF AllocBlockBitmap, AllocBlockDesc, AllocBlockSuper, Proceed
<1>3. CASE ok
  <2>1. /\ op'.cmd = op.cmd /\ op'.ino = op.ino /\ op'.mine = op.mine /\ op'.logical = op.logical
        /\ op'.goal = op.goal /\ op'.want = op.want /\ pc' \in Allocating
    BY <1>1, <1>3 DEF AllocBlockBitmap, AllocBlockDesc, AllocBlockSuper, Proceed, Operation, Allocating
  <2>2. CASE op.cmd = "write"
    <3>1. pc # "write_data" /\ pc' # "write_data" /\ pc' # "link_child"
      BY <1>1, <2>1 DEF Allocating
    <3>2. MineOK'
      BY <1>1, <2>1, <2>2, <3>1, GoodParts, MineAllocates
    <3>3. QED
      BY <1>1, <3>2, QuietFiles DEF FileInv
  <2>3. CASE op.cmd # "write"
    BY <1>1, <2>1, <2>3, OtherFiles
  <2>4. QED
    BY <2>2, <2>3
<1>4. QED
  BY <1>2, <1>3

\* The first loop of ext2_write_file ends when every block is there.
LEMMA WriteAllocFiles ==
  ASSUME Good, TypeInv', SafeInv', WriteAlloc
  PROVE  FileInv'
<1>1. op \in Operation /\ inode' = inode /\ blk' = blk /\ pc = "write_alloc" /\ op.cmd = "write" /\ MineOK
  BY GoodParts DEF WriteAlloc, disk, LocalsOK, Filling
<1>2. op.logical \in Nat /\ op.goal \in Nat /\ op.logical <= op.goal /\ Placed(op.logical) /\ MineTree
  BY <1>1, WriteFacts, GoodParts DEF MineOK
<1>3. CASE op.logical < op.goal
  <2>1. /\ op'.cmd = op.cmd /\ op'.ino = op.ino /\ op'.mine = op.mine /\ op'.logical = op.logical
        /\ op'.goal = op.goal /\ op'.want = "data" /\ pc' = "block_bitmap"
    BY <1>1, <1>3 DEF WriteAlloc, Operation
  <2>2. MineOK'
    BY <1>1, <2>1, GoodParts, MineAllocates
  <2>3. QED
    BY <1>1, <2>2, QuietFiles DEF FileInv
<1>4. CASE ~(op.logical < op.goal)
  <2>1. /\ op'.cmd = op.cmd /\ op'.ino = op.ino /\ op'.mine = op.mine /\ op'.logical = 0
        /\ op'.goal = op.goal /\ pc' = "write_data"
    BY <1>1, <1>4 DEF WriteAlloc, Operation
  <2>2. op.logical = op.goal
    BY <1>2, <1>4
  <2>3. MineTree' /\ Placed(op.goal)' /\ Filled(0)' /\ 0 <= op.goal
    BY <1>1, <1>2, <2>1, <2>2 DEF MineTree, Placed, Filled
  <2>4. MineOK'
    BY <2>1, <2>3 DEF MineOK, Allocating
  <2>5. QED
    BY <1>1, <2>4, QuietFiles DEF FileInv
<1>5. QED
  BY <1>3, <1>4

\* set_inode_block finds that a table is missing.
LEMMA NeedTableFiles ==
  ASSUME Good, TypeInv', SafeInv', NeedTable
  PROVE  FileInv'
<1>1. op \in Operation /\ inode' = inode /\ blk' = blk /\ pc = "set_block" /\ op.cmd = "write" /\ MineOK
  BY GoodParts DEF NeedTable, disk, LocalsOK, Filling
<1>2. /\ op'.cmd = op.cmd /\ op'.ino = op.ino /\ op'.mine = op.mine /\ op'.logical = op.logical
      /\ op'.goal = op.goal /\ op'.want = MissingTable /\ pc' = "block_bitmap"
  BY <1>1 DEF NeedTable, Operation
<1>3. InSingle(op.logical) \/ InDouble(op.logical)
  BY <1>1, Ext2Assumption DEF NeedTable, InSingle, InDouble, Operation
<1>4. /\ MissingTable = "indirect" => InSingle(op.logical) /\ op.mine.ind = Null
      /\ MissingTable = "double" => InDouble(op.logical) /\ op.mine.dbl = Null
      /\ MissingTable = "child" => /\ InDouble(op.logical) /\ op.mine.dbl # Null
                                   /\ blk[op.mine.dbl].table[Child] = Null
  BY <1>3 DEF MissingTable
<1>5. MineOK'
  BY <1>1, <1>2, <1>4, GoodParts, MineAllocates
<1>6. QED
  BY <1>1, <1>5, QuietFiles DEF FileInv

\* set_inode_block sets a direct pointer, to a block that is not yet one of the file's.
LEMMA SetDirectFiles ==
  ASSUME Good, TypeInv', SafeInv', SetDirect
  PROVE  FileInv'
<1>1. op \in Operation /\ inode' = inode /\ blk' = blk /\ pc = "set_block" /\ op.cmd = "write" /\ MineOK
  BY GoodParts DEF SetDirect, disk, LocalsOK, Filling
<1> DEFINE g == op.logical
           p == op.phys
           m == op.mine
           r == [m EXCEPT !.direct[g] = p]
<1>2. /\ g \in 0 .. NDirect - 1 /\ m \in InodeRecord /\ TreeIn(blk, m) /\ blk \in [Block -> BlockRecord]
      /\ m.size \in Nat /\ m.size <= g /\ Placed(g) /\ MineTree /\ op.goal \in Nat
      /\ NDirect \in Nat
  <2>1. m \in InodeRecord /\ TreeIn(blk, m) /\ blk \in [Block -> BlockRecord] /\ g \in Nat
        /\ m.size \in Nat /\ op.goal \in Nat /\ MineTree
    BY <1>1, WriteFacts, GoodParts
  <2>2. m.size <= g /\ Placed(g)
    BY <1>1 DEF MineOK
  <2>3. QED
    BY <2>1, <2>2, Ext2Assumption DEF SetDirect
<1>a. \A l \in Nat : l < op.goal => Place(l)
  BY <1>1, WriteFacts, GoodParts
<1>3. g < op.goal /\ p \in Block /\ p \notin RefsIn(blk, m) /\ blk[p].table = ZeroTable
  <2>1. WriteOK /\ pc = "set_block"
    BY <1>1, GoodParts DEF OpInv
  <2>2. g < op.goal /\ p \in Block /\ Untouched(p) /\ blk[p] = ZeroBlock
    BY <1>1, <2>1 DEF WriteOK
  <2>3. QED
    BY <1>1, <2>2 DEF Untouched, ZeroBlock
<1>4. /\ op'.cmd = "write" /\ op'.ino = op.ino /\ op'.mine = r /\ op'.logical = g + 1
      /\ op'.goal = op.goal /\ pc' = "write_alloc"
  BY <1>1 DEF SetDirect, NextLogical, Operation
<1>5. /\ r.size = m.size /\ r.ind = m.ind /\ r.dbl = m.dbl
      /\ r.direct = [m.direct EXCEPT ![g] = p]
      /\ \A l \in 0 .. NDirect - 1 : r.direct[l] = IF l = g THEN p ELSE m.direct[l]
  BY <1>2 DEF InodeRecord
<1> HIDE DEF r, m, p, g
<1>6. TreeIn(blk, r)
  BY <1>2, <1>3, <1>5, TreeSet
<1>7. ASSUME NEW l \in 0 .. m.size - 1
      PROVE  Agree(inode[op.ino], r, l)
  <2>1. l \in 0 .. NDirect - 1 /\ l # g
    BY <1>2
  <2>2. Agree(inode[op.ino], m, l)
    BY <1>7, <1>2 DEF MineTree, m
  <2>3. QED
    BY <1>5, <2>1, <2>2, Ext2Assumption DEF Agree
<1>8. ASSUME NEW l \in 0 .. g
      PROVE  BlockIn(blk, r, l) # Null
  <2>1. Place(l) /\ l \in 0 .. NDirect - 1
    BY <1>2, <1>3, <1>a
  <2>2. l # g => BlockIn(blk, m, l) # Null
    BY <1>2, <1>8 DEF Placed, m, g
  <2>3. l # g => m.direct[l] # Null
    BY <1>2, <2>1, <2>2, BlockInCases
  <2>4. r.direct[l] # Null
    BY <1>3, <1>5, <2>1, <2>3, NotNull
  <2>5. QED
    BY <1>2, <2>1, <2>4, BlockInCases
<1>9. MineTree' /\ Placed(op.logical)'
  <2>1. m.size = inode[op.ino].size
    BY <1>2 DEF MineTree, m
  <2>2. MineTree'
    BY <1>1, <1>4, <1>5, <1>6, <1>7, <2>1 DEF MineTree
  <2>3. 0 .. op'.logical - 1 = 0 .. g
    BY <1>2, <1>4
  <2>4. Placed(op.logical)'
    BY <1>1, <1>4, <1>8, <2>3 DEF Placed
  <2>5. QED
    BY <2>2, <2>4
<1>10. op'.mine.size <= op'.logical /\ op'.logical <= op'.goal
  BY <1>2, <1>3, <1>4, <1>5
<1>11. MineOK'
  BY <1>4, <1>9, <1>10 DEF MineOK, Allocating
<1>12. QED
  BY <1>1, <1>11, QuietFiles DEF FileInv

\* The blocks of a new or a growing directory belong to nothing yet.
LEMMA DirBlockFiles ==
  ASSUME Good, TypeInv', SafeInv', NEW ok \in BOOLEAN, WriteDots(ok) \/ NewDirBlock(ok)
  PROVE  FileInv'
<1>1. /\ op \in Operation /\ inode' = inode /\ op.cmd \in {"create", "mkdir"}
      /\ pc \in {"write_dots", "new_dir_block"}
  BY GoodParts DEF WriteDots, NewDirBlock, LocalsOK, Naming
<1>2. Fresh(op.phys)
  BY <1>1, GoodParts DEF OpInv, CreateOK, Creating
<1>3. \A b \in Block : b # op.phys => blk'[b] = blk[b]
  BY GoodParts DEF WriteDots, NewDirBlock, TypeOK
<1>4. TreesOK' /\ \A i \in Owners' : Whole(i)'
  <2>1. TypeOK' /\ DiskInv'
    BY DEF TypeInv, SafeInv
  <2>2. QED
    BY <1>1, <1>2, <1>3, <2>1, GoodParts, FilesKeptFresh DEF Fresh
<1>5. op'.cmd # "write"
  BY <1>1, FinishMine DEF WriteDots, NewDirBlock, Proceed, Operation
<1>6. QED
  BY <1>4, <1>5 DEF FileInv, MineOK

\* A block whose entries change keeps the rest.
LEMMA EntsOnly ==
  ASSUME NEW x \in BlockRecord, NEW S, NEW z, z = x \/ z = [x EXCEPT !.ents = S]
  PROVE  z.table = x.table /\ z.own = x.own /\ (z.ents = x.ents \/ z.ents = S)
  BY DEF BlockRecord

\* An entry is added or removed: the block keeps its pointers and its data.
LEMMA EntryFiles ==
  ASSUME Good, TypeInv', SafeInv', NEW ok \in BOOLEAN, AddEntry(ok) \/ RemoveEntry(ok)
  PROVE  FileInv'
<1>1. /\ op \in Operation /\ inode' = inode /\ op.cmd # "write" /\ blk \in [Block -> BlockRecord]
      /\ \A b \in Block : blk[b] \in BlockRecord
  BY GoodParts DEF AddEntry, RemoveEntry, LocalsOK, Naming, TypeOK
<1>2. PICK o : /\ inode[o] = FileInode \/ o \in Owners
               /\ \A b \in Block : /\ blk'[b].table = blk[b].table /\ blk'[b].own = blk[b].own
                                   /\ \A e \in blk'[b].ents : e \in blk[b].ents \/ e.ino = o
  <2>1. CASE AddEntry(ok)
    <3>1. inode[op.ino] = FileInode \/ op.ino \in Owners
      BY <2>1, GoodParts DEF AddEntry, OpInv, CreateOK, StageOK, Creating, BeforeNew, Adding, Owners
    <3>2. PICK c : blk' = [blk EXCEPT ![c].ents = @ \cup {NewEntry}]
      BY <2>1 DEF AddEntry
    <3>3. \A b \in Block : \/ blk'[b] = blk[b]
                           \/ blk'[b] = [blk[b] EXCEPT !.ents = blk[b].ents \cup {NewEntry}]
      BY <1>1, <3>2
    <3>4. NewEntry.ino = op.ino
      BY DEF NewEntry
    <3>6. ASSUME NEW b \in Block
          PROVE  /\ blk'[b].table = blk[b].table /\ blk'[b].own = blk[b].own
                 /\ blk'[b].ents = blk[b].ents \/ blk'[b].ents = blk[b].ents \cup {NewEntry}
      <4> DEFINE x == blk[b]
                 z == blk'[b]
                 S == x.ents \cup {NewEntry}
      <4>1. x \in BlockRecord /\ (z = x \/ z = [x EXCEPT !.ents = S])
        BY <1>1, <3>3
      <4> HIDE DEF x, z, S
      <4>2. z.table = x.table /\ z.own = x.own /\ (z.ents = x.ents \/ z.ents = S)
        BY <4>1, EntsOnly
      <4>3. QED
        BY <4>2 DEF x, z, S
    <3>7. QED
      BY <3>1, <3>4, <3>6
  <2>2. CASE RemoveEntry(ok)
    <3>1. Root \in Owners
      BY DEF Owners, Named
    <3>2. PICK c : blk' = [blk EXCEPT ![c].ents = @ \ {NewEntry}]
      BY <2>2 DEF RemoveEntry
    <3>3. \A b \in Block : \/ blk'[b] = blk[b]
                           \/ blk'[b] = [blk[b] EXCEPT !.ents = blk[b].ents \ {NewEntry}]
      BY <1>1, <3>2
    <3>6. ASSUME NEW b \in Block
          PROVE  /\ blk'[b].table = blk[b].table /\ blk'[b].own = blk[b].own
                 /\ blk'[b].ents = blk[b].ents \/ blk'[b].ents = blk[b].ents \ {NewEntry}
      <4> DEFINE x == blk[b]
                 z == blk'[b]
                 S == x.ents \ {NewEntry}
      <4>1. x \in BlockRecord /\ (z = x \/ z = [x EXCEPT !.ents = S])
        BY <1>1, <3>3
      <4> HIDE DEF x, z, S
      <4>2. z.table = x.table /\ z.own = x.own /\ (z.ents = x.ents \/ z.ents = S)
        BY <4>1, EntsOnly
      <4>3. QED
        BY <4>2 DEF x, z, S
    <3>7. QED
      BY <3>1, <3>3, <3>6
  <2>3. QED
    BY <2>1, <2>2
<1>3. TreesOK' /\ \A i \in Owners' : Whole(i)'
  <2>1. TypeOK' /\ DiskInv'
    BY DEF TypeInv, SafeInv
  <2>2. QED
    BY <1>1, <1>2, <2>1, GoodParts, FilesKeptEntries
<1>4. op'.cmd # "write"
  BY <1>1, FinishMine DEF AddEntry, RemoveEntry, Proceed, Operation
<1>5. QED
  BY <1>3, <1>4 DEF FileInv, MineOK

\* A table is cleared before anything points at it; the inode in memory points at it next.
LEMMA AllocBlockZeroFiles ==
  ASSUME Good, TypeInv', SafeInv', NEW ok \in BOOLEAN, AllocBlockZero(ok)
  PROVE  FileInv'
<1> DEFINE p == op.new
           m == op.mine
           r == op'.mine
<1>1. /\ op \in Operation /\ inode' = inode /\ pc = "block_zero" /\ op.want \in DOMAIN Resume
      /\ blk' = [blk EXCEPT ![p] = ZeroBlock] /\ TypeOK /\ TypeOK' /\ DiskInv /\ DiskInv'
  BY GoodParts DEF AllocBlockZero, LocalsOK, Allocating, TypeInv, SafeInv
<1>2. p \in Block /\ Fresh(p) /\ (op.cmd = "write" => p \notin RefsIn(blk, m))
  BY <1>1, GoodParts DEF OpInv, AllocOK, Untouched
<1>3. blk'[p].table = ZeroTable /\ \A b \in Block : b # p => blk'[b] = blk[b]
  BY <1>1, <1>2 DEF TypeOK, ZeroBlock
<1>4. TreesOK' /\ \A i \in Owners' : Whole(i)'
  BY <1>1, <1>2, <1>3, GoodParts, FilesKeptFresh DEF Fresh
<1>5. CASE ~ok
  BY <1>4, <1>5, FinishMine DEF AllocBlockZero, Proceed, FileInv
<1>6. CASE ok
  <2>1. op' = Delivered(op) /\ pc' = Resume[op.want]
    BY <1>6 DEF AllocBlockZero, Proceed
  <2>2. /\ op'.cmd = op.cmd /\ op'.ino = op.ino /\ op'.logical = op.logical /\ op'.goal = op.goal
        /\ op.want \notin {"indirect", "double"} => r = m
        /\ op.want = "indirect" => r = [m EXCEPT !.ind = p]
        /\ op.want = "double" => r = [m EXCEPT !.dbl = p]
    BY <1>1, <2>1 DEF Delivered, Operation
  <2>3. CASE op.cmd # "write"
    BY <1>4, <2>2, <2>3 DEF FileInv, MineOK
  <2>4. CASE op.cmd = "write"
    <3>1. /\ m \in InodeRecord /\ TreeIn(blk, m) /\ RefsIn(blk, m) \subseteq Block /\ MineTree
          /\ TablesIn(blk, m) \subseteq RefsIn(blk, m) /\ op.logical \in Nat /\ m.size \in Nat
          /\ (\A l \in Nat : l < op.goal => Place(l)) /\ op.goal \in Nat
      BY <2>4, GoodParts, WriteFacts
    <3>2. /\ op.logical <= op.goal /\ m.size <= op.logical /\ Placed(op.logical)
          /\ op.want = "indirect" => InSingle(op.logical) /\ m.ind = Null
          /\ op.want = "double" => InDouble(op.logical) /\ m.dbl = Null
      BY <1>1, <2>4, GoodParts DEF MineOK, Allocating
    <3>3. /\ op.want \in {"data", "indirect", "double", "child"}
          /\ op.want # "child" => pc' = "set_block"
          /\ op.want = "child" => pc' = "link_child"
      BY <1>1, <2>1, <2>4, GoodParts DEF Resume, LocalsOK, Allocating
    <3>4. CASE op.want \in {"data", "child"}
      <4>1. \A b \in RefsIn(blk, m) : blk'[b] = blk[b]
        BY <1>2, <1>3, <2>4, <3>1
      <4>2. /\ pc \in Allocating /\ pc # "write_data" /\ pc' # "write_data" /\ pc' \notin Allocating
            /\ pc' = "link_child" => op.want = "child"
        BY <1>1, <3>3, <3>4 DEF Allocating
      <4>a. /\ op'.cmd = "write" /\ op'.ino = op.ino /\ op'.mine = op.mine /\ op'.logical = op.logical
            /\ op'.goal = op.goal /\ inode' = inode /\ TypeInv /\ SafeInv /\ MineOK
            /\ (\A b \in RefsIn(blk, op.mine) : blk'[b] = blk[b])
            /\ pc' = "link_child" => pc \in Allocating /\ op.want = "child"
        BY <1>1, <2>2, <2>4, <3>4, <4>1, <4>2, GoodParts
      <4>3. MineOK'
        BY <2>4, <4>2, <4>a, MineAllocates
      <4>4. QED
        BY <1>4, <4>3 DEF FileInv
    <3>5. CASE op.want \in {"indirect", "double"}
      <4>1. /\ r.size = m.size /\ r.direct = m.direct
            /\ op.want = "indirect" => r.ind = p /\ r.dbl = m.dbl
            /\ op.want = "double" => r.ind = m.ind /\ r.dbl = p
        BY <2>2, <3>1, <3>5 DEF InodeRecord
      <4> HIDE DEF p, m, r
      <4>2. \A t \in TablesIn(blk, m) : blk'[t].table = blk[t].table
        BY <1>2, <1>3, <2>4, <3>1
      <4>3. TreeIn(blk', m) /\ \A l : Place(l) => BlockIn(blk', m, l) = BlockIn(blk, m, l)
        BY <3>1, <4>2, SameTables
      <4>4. p \notin RefsIn(blk', m)
        <5>1. \A t \in RefsIn(blk, m) : blk'[t].table = blk[t].table
          BY <1>2, <1>3, <2>4, <3>1
        <5>2. RefsIn(blk', m) \subseteq RefsIn(blk, m)
          BY <5>1, RefsShrink
        <5>3. QED
          BY <1>2, <2>4, <5>2
      <4>5. TreeIn(blk', r)
        BY <1>2, <1>3, <3>1, <3>5, <4>1, <4>3, <4>4, TreeSet
      <4>6. ASSUME NEW l \in 0 .. op.logical - 1
            PROVE  Place(l) /\ BlockIn(blk, m, l) # Null /\ Agree(m, r, l)
        <5>1. Place(l) /\ BlockIn(blk, m, l) # Null
          BY <3>1, <3>2 DEF Placed, m
        <5>2. op.want = "indirect" => ~InSingle(l)
          BY <3>2, <5>1, BlockInCases
        <5>3. op.want = "double" => ~InDouble(l)
          BY <3>2, <5>1, BlockInCases
        <5>4. QED
          BY <3>5, <4>1, <5>1, <5>2, <5>3, BlockInCases, Ext2Assumption DEF Agree, InSingle, InDouble, Place
      <4>7. Placed(op.logical)'
        <5>1. ASSUME NEW l \in 0 .. op.logical - 1
              PROVE  BlockIn(blk', r, l) # Null
          BY <4>3, <4>6, AgreeSame
        <5>2. QED
          BY <2>2, <5>1 DEF Placed, r
      <4>8. MineTree'
        <5>1. m.size = inode[op.ino].size
          BY <3>1 DEF MineTree, m
        <5>2. ASSUME NEW l \in 0 .. m.size - 1
              PROVE  Agree(inode[op.ino], r, l)
          <6>1. Agree(inode[op.ino], m, l) /\ Agree(m, r, l)
            BY <3>1, <3>2, <4>6 DEF MineTree, m
          <6>2. QED
            BY <6>1 DEF Agree
        <5>3. QED
          BY <1>1, <2>2, <4>1, <4>5, <5>1, <5>2 DEF MineTree, r
      <4>9. MineOK'
        <5>1. op'.mine.size <= op'.logical /\ op'.logical <= op'.goal
          BY <2>2, <3>2, <4>1 DEF r
        <5>2. pc' = "set_block"
          BY <3>3, <3>5
        <5>3. QED
          BY <4>7, <4>8, <5>1, <5>2 DEF MineOK, Allocating
      <4>10. QED
        BY <1>4, <4>9 DEF FileInv
    <3>6. QED
      BY <3>3, <3>4, <3>5
  <2>5. QED
    BY <2>3, <2>4
<1>7. QED
  BY <1>5, <1>6

\* A pointer stored in a table of the file being written leaves every file where it was.
LEMMA PutFiles ==
  ASSUME Good, TypeInv', SafeInv', op.cmd = "write", NEW t \in RefsIn(blk, op.mine),
         NEW k \in 0 .. Pointers - 1, NEW p \in Block, Untouched(p), blk[p].table = ZeroTable,
         blk' = Put(blk, t, k, p), inode' = inode, op.mine.size <= op.logical,
         \A l \in 0 .. op.logical - 1 : BlockIn(blk', op.mine, l) = BlockIn(blk, op.mine, l)
  PROVE  /\ TreesOK' /\ (\A i \in Owners' : Whole(i)') /\ TreeIn(blk', op.mine)
         /\ blk'[p].table = ZeroTable
<1>1. /\ op.mine \in InodeRecord /\ TreeIn(blk, op.mine) /\ RefsIn(blk, op.mine) \subseteq Block
      /\ blk \in [Block -> BlockRecord] /\ op.ino \in Owners /\ op.logical \in Nat /\ MineTree
      /\ op.mine.size \in Nat /\ \A l \in 0 .. op.mine.size - 1 : Place(l)
  BY GoodParts, WriteFacts
<1>2. p \notin RefsIn(blk, op.mine) /\ t \in Block /\ p # t /\ \A i \in Owners : p \notin Held(i)
  BY <1>1 DEF Untouched, Fresh
<1>3. \A b \in Block : /\ b # t => blk'[b] = blk[b]
                       /\ blk'[b].own = blk[b].own /\ blk'[b].ents = blk[b].ents
  <2>1. \A b \in Block : blk[b] \in BlockRecord
    BY <1>1
  <2>2. QED
    BY <1>1, <1>2, <2>1 DEF Put, BlockRecord
<1>4. TreeIn(blk', op.mine)
  BY <1>1, <1>2, TreePut
<1>5. Owners' \subseteq Owners
  <2>1. TypeOK /\ DiskInv /\ TypeOK' /\ DiskInv' /\ EntryBlocks \subseteq Block /\ Root \in Owners
    BY GoodParts, EntryBlocksType DEF TypeInv, SafeInv, Owners, Named
  <2>2. QED
    BY <1>3, <2>1, OwnersByEntries
<1>6. ASSUME NEW i \in Owners, i # op.ino
      PROVE  Kept(i)
  <2>1. t \notin Held(i) /\ Held(i) \subseteq Block
    BY <1>6, GoodParts, MineApart DEF DiskInv, BlocksOK, TypeOK
  <2>2. QED
    BY <1>3, <2>1 DEF Kept
<1>7. TreeIn(blk', inode[op.ino])
  <2>1. inode[op.ino] \in InodeRecord /\ TreeIn(blk, inode[op.ino]) /\ p \notin RefsIn(blk, inode[op.ino])
    BY <1>1, <1>2, GoodParts, WriteFacts DEF TreesOK, Held
  <2>2. QED
    BY <1>1, <1>2, <2>1, TreePut
<1>a. PICK i : i = op.ino
  OBVIOUS
<1>8. Whole(i)'
  <2> DEFINE r == inode[i]
  <2>1. ASSUME NEW l \in 0 .. r.size - 1, r.type = "file"
        PROVE  BlockIn(blk', r, l) # Null /\ blk'[BlockIn(blk', r, l)].own = <<i, l>>
    <3>1. Place(l) /\ Agree(r, op.mine, l) /\ l \in 0 .. op.logical - 1
      BY <1>1, <1>a DEF MineTree
    <3>2. BlockIn(blk, r, l) # Null /\ blk[BlockIn(blk, r, l)].own = <<i, l>>
      BY <1>1, <1>a, <2>1, GoodParts DEF Whole
    <3>3. BlockIn(blk', r, l) = BlockIn(blk, r, l)
      BY <3>1, AgreeSame
    <3>4. BlockIn(blk, r, l) \in Block
      <4>1. BlockIn(blk, r, l) = BlockIn(blk, op.mine, l)
        BY <3>1, AgreeSame
      <4>2. BlockIn(blk, op.mine, l) \in RefsIn(blk, op.mine)
        BY <3>1, <3>2, <4>1, PlaceEdges
      <4>3. QED
        BY <1>1, <4>1, <4>2
    <3>5. QED
      BY <1>3, <3>2, <3>3, <3>4
  <2>2. QED
    BY <2>1 DEF Whole
<1>9. TreesOK' /\ \A n \in Owners' : Whole(n)'
  <2>1. \A j \in Owners' : Kept(j) \/ inode'[j] = FileInode \/ (TreeIn(blk', inode'[j]) /\ Whole(j)')
    BY <1>5, <1>6, <1>7, <1>8, <1>a
  <2>2. QED
    BY <2>1, GoodParts, FilesKept
<1>10. QED
  BY <1>2, <1>3, <1>4, <1>9

\* The tables of the file being written are its own.
LEMMA SlotInRefs ==
  ASSUME NEW B, NEW rec, NEW g, Place(g), HasSlot(B, rec, g)
  PROVE  SlotTable(B, rec, g) \in RefsIn(B, rec)
<1>1. CASE InSingle(g)
  BY <1>1 DEF HasSlot, SlotTable, RefsIn, TablesIn
<1>2. CASE ~InSingle(g)
  <2>1. Quot(g) \in 0 .. Pointers - 1
    BY <1>2, DoublePlace DEF HasSlot
  <2>2. Kid(B, rec, g) \in KidsIn(B, rec.dbl)
    BY <1>2, <2>1 DEF HasSlot, Kid, KidsIn
  <2>3. QED
    BY <1>2, <2>2 DEF HasSlot, SlotTable, RefsIn, TablesIn
<1>3. QED
  BY <1>1, <1>2

\* set_inode_block stores the pointer in the one slot the block has.
LEMMA SetIndirectFiles ==
  ASSUME Good, TypeInv', SafeInv', NEW ok \in BOOLEAN, SetIndirect(ok)
  PROVE  FileInv'
<1> DEFINE g == op.logical
           p == op.phys
           m == op.mine
           t == SlotTable(blk, m, g)
           k == SlotIndex(g)
<1>1. /\ op \in Operation /\ inode' = inode /\ pc = "set_block" /\ op.cmd = "write" /\ MineOK
      /\ MissingTable = "none" /\ NDirect <= g
  BY GoodParts DEF SetIndirect, LocalsOK, Filling
<1>2. /\ m \in InodeRecord /\ TreeIn(blk, m) /\ blk \in [Block -> BlockRecord] /\ g \in Nat
      /\ m.size \in Nat /\ op.goal \in Nat /\ MineTree /\ (\A l \in Nat : l < op.goal => Place(l))
  BY <1>1, GoodParts, WriteFacts
<1>3. g < op.goal /\ p \in Block /\ Untouched(p) /\ blk[p].table = ZeroTable
  <2>1. WriteOK /\ pc = "set_block"
    BY <1>1, GoodParts DEF OpInv
  <2>2. g < op.goal /\ p \in Block /\ Untouched(p) /\ blk[p] = ZeroBlock
    BY <1>1, <2>1 DEF WriteOK
  <2>3. QED
    BY <2>2 DEF ZeroBlock
<1>4. Place(g) /\ HasSlot(blk, m, g)
  <2>1. InSingle(g) \/ (~InSingle(g) /\ InDouble(g))
    BY <1>1, <1>2, Ext2Assumption DEF InSingle, InDouble
  <2>2. QED
    BY <1>1, <1>2, <1>3, <2>1 DEF MissingTable, HasSlot, Kid, Quot, Child
<1>5. blk' = Put(blk, t, k, p)
  BY <1>1 DEF SetIndirect, Put, SlotTable, SlotIndex, Kid, Quot, Rem, Child
<1>6. m.size <= g /\ Placed(g)
  BY <1>1 DEF MineOK
<1> HIDE DEF g, p, m, t, k
<1>7. /\ t \in RefsIn(blk, m) /\ k \in 0 .. Pointers - 1
      /\ \A l : Place(l) /\ l # g /\ BlockIn(blk, m, l) # Null => BlockIn(blk', m, l) = BlockIn(blk, m, l)
      /\ BlockIn(blk', m, g) = p
  BY <1>2, <1>4, <1>5, PutInSlot, SlotInRefs DEF t, k
<1>8. ASSUME NEW l \in 0 .. g - 1
      PROVE  BlockIn(blk', m, l) = BlockIn(blk, m, l) /\ BlockIn(blk, m, l) # Null
  <2>1. BlockIn(blk, m, l) # Null
    BY <1>6 DEF Placed, m
  <2>2. Place(l) /\ l # g
    BY <1>2, <1>3
  <2>3. QED
    BY <1>7, <2>1, <2>2
<1>9. TreesOK' /\ (\A i \in Owners' : Whole(i)') /\ TreeIn(blk', m)
  BY <1>1, <1>3, <1>5, <1>6, <1>7, <1>8, PutFiles DEF m, g
<1>10. CASE ~ok
  BY <1>9, <1>10, FinishMine DEF SetIndirect, Proceed, FileInv
<1>11. CASE ok
  <2>1. /\ op'.cmd = "write" /\ op'.ino = op.ino /\ op'.mine = m /\ op'.logical = g + 1
        /\ op'.goal = op.goal /\ pc' = "write_alloc"
    BY <1>1, <1>11 DEF SetIndirect, Proceed, NextLogical, Operation, m, g
  <2>2. MineTree'
    BY <1>1, <1>2, <1>9, <2>1 DEF MineTree, m
  <2>3. Placed(op.logical)'
    <3>1. ASSUME NEW l \in 0 .. g
          PROVE  BlockIn(blk', m, l) # Null
      <4>1. CASE l = g
        BY <1>3, <1>7, <4>1, NotNull
      <4>2. CASE l # g
        BY <1>2, <1>8, <4>2
      <4>3. QED
        BY <4>1, <4>2
    <3>2. 0 .. op'.logical - 1 = 0 .. g
      BY <1>2, <2>1
    <3>3. QED
      BY <2>1, <3>1, <3>2 DEF Placed
  <2>4. op'.mine.size <= op'.logical /\ op'.logical <= op'.goal
    BY <1>2, <1>3, <1>6, <2>1
  <2>5. MineOK'
    BY <2>1, <2>2, <2>3, <2>4 DEF MineOK, Allocating
  <2>6. QED
    BY <1>9, <2>5 DEF FileInv
<1>12. QED
  BY <1>10, <1>11

\* The new table is linked where the doubly indirect block has no pointer.
LEMMA LinkChildFiles ==
  ASSUME Good, TypeInv', SafeInv', NEW ok \in BOOLEAN, LinkChild(ok)
  PROVE  FileInv'
<1> DEFINE g == op.logical
           p == op.new
           m == op.mine
           t == op.mine.dbl
           k == Child
<1>1. /\ op \in Operation /\ inode' = inode /\ pc = "link_child" /\ op.cmd = "write" /\ MineOK
      /\ blk' = Put(blk, t, k, p)
  BY GoodParts DEF LinkChild, LocalsOK, Filling, Put
<1>2. /\ m \in InodeRecord /\ TreeIn(blk, m) /\ blk \in [Block -> BlockRecord] /\ g \in Nat
      /\ m.size \in Nat /\ op.goal \in Nat /\ MineTree /\ (\A l \in Nat : l < op.goal => Place(l))
  BY <1>1, GoodParts, WriteFacts
<1>3. g < op.goal /\ p \in Block /\ Untouched(p) /\ blk[p].table = ZeroTable
  <2>1. WriteOK /\ AllocOK /\ pc = "link_child"
    BY <1>1, GoodParts DEF OpInv
  <2>2. g < op.goal /\ p \in Block /\ Untouched(p) /\ blk[p] = ZeroBlock
    BY <1>1, <2>1 DEF WriteOK, AllocOK
  <2>3. QED
    BY <2>2 DEF ZeroBlock
<1>4. /\ m.size <= g /\ g <= op.goal /\ Placed(g) /\ InDouble(g) /\ t # Null /\ blk[t].table[k] = Null
  BY <1>1 DEF MineOK
<1>5. t \in RefsIn(blk, m) /\ t \in Block /\ k \in 0 .. Pointers - 1
  <2>1. t \in RefsIn(blk, m)
    BY <1>4 DEF RefsIn, TablesIn
  <2>2. k = Quot(g)
    BY DEF Child, Quot
  <2>3. QED
    BY <1>2, <1>3, <1>4, <2>1, <2>2, DoublePlace, RefsType
<1> HIDE DEF g, p, m, t, k
<1>6. ASSUME NEW l \in 0 .. g - 1
      PROVE  BlockIn(blk', m, l) = BlockIn(blk, m, l) /\ BlockIn(blk, m, l) # Null
  <2>1. BlockIn(blk, m, l) # Null
    BY <1>4 DEF Placed, m
  <2>2. Place(l)
    BY <1>2, <1>3
  <2>3. QED
    BY <1>1, <1>2, <1>4, <1>5, <2>1, <2>2, PutNew
<1>7. TreesOK' /\ (\A i \in Owners' : Whole(i)') /\ TreeIn(blk', m)
  BY <1>1, <1>3, <1>4, <1>5, <1>6, PutFiles DEF m, g
<1>8. CASE ~ok
  BY <1>7, <1>8, FinishMine DEF LinkChild, Proceed, FileInv
<1>9. CASE ok
  <2>1. /\ op' = op /\ pc' = "set_block"
    BY <1>9 DEF LinkChild, Proceed
  <2>2. MineTree'
    BY <1>1, <1>2, <1>7, <2>1 DEF MineTree, m
  <2>3. Placed(op.logical)'
    BY <1>6, <2>1 DEF Placed, m, g
  <2>4. MineOK'
    BY <1>1, <1>4, <2>1, <2>2, <2>3 DEF MineOK, Allocating, m, g
  <2>5. QED
    BY <1>7, <2>4 DEF FileInv
<1>10. QED
  BY <1>8, <1>9

\* The second loop of ext2_write_file writes the data of one block: no other block
\* of the file is the same one, and none of the tables is.
LEMMA WriteDataFiles ==
  ASSUME Good, TypeInv', SafeInv', NEW ok \in BOOLEAN, WriteData(ok)
  PROVE  FileInv'
<1> DEFINE g == op.logical
           m == op.mine
           i == op.ino
           x == BlockIn(blk, m, g)
           z == [ZeroBlock EXCEPT !.own = <<i, g>>]
<1>1. /\ op \in Operation /\ inode' = inode /\ pc = "write_data" /\ op.cmd = "write" /\ MineOK
      /\ g < op.goal /\ blk' = [blk EXCEPT ![x] = z]
  BY GoodParts, BlockOfIn DEF WriteData, LocalsOK, Filling
<1>2. /\ m \in InodeRecord /\ TreeIn(blk, m) /\ blk \in [Block -> BlockRecord] /\ g \in Nat
      /\ m.size \in Nat /\ op.goal \in Nat /\ MineTree /\ (\A l \in Nat : l < op.goal => Place(l))
      /\ RefsIn(blk, m) \subseteq Block /\ TablesIn(blk, m) \subseteq RefsIn(blk, m) /\ i \in Owners
      /\ \A l \in 0 .. m.size - 1 : Place(l)
  BY <1>1, GoodParts, WriteFacts
<1>3. Placed(op.goal) /\ Filled(g)
  BY <1>1 DEF MineOK
<1>4. x # Null /\ x \in RefsIn(blk, m) /\ x \notin TablesIn(blk, m) /\ Place(g)
  <2>1. Place(g) /\ g \in 0 .. op.goal - 1
    BY <1>1, <1>2
  <2>2. x # Null
    BY <1>3, <2>1 DEF Placed
  <2>3. QED
    BY <1>2, <2>1, <2>2, PlaceEdges, PlaceNoTable
<1>5. /\ \A b \in Block : b # x => blk'[b] = blk[b]
      /\ blk'[x].own = <<i, g>> /\ blk'[x].table = ZeroTable /\ blk'[x].ents = {}
  <2>1. x \in Block /\ z.own = <<i, g>> /\ z.table = ZeroTable /\ z.ents = {}
    BY <1>2, <1>4 DEF ZeroBlock
  <2>2. QED
    BY <1>1, <1>2, <2>1
<1>a. PICK j : j = i
  OBVIOUS
<1>b. \A l : Place(l) /\ l # g /\ BlockIn(blk, m, l) # Null => BlockIn(blk, m, l) # x
  BY <1>2, <1>4, PlacesApart
<1> HIDE DEF g, m, i, x, z
<1>6. TreeIn(blk', m) /\ \A l : Place(l) => BlockIn(blk', m, l) = BlockIn(blk, m, l)
  <2>1. \A t \in TablesIn(blk, m) : blk'[t].table = blk[t].table
    BY <1>2, <1>4, <1>5
  <2>2. QED
    BY <1>2, <2>1, SameTables
<1>7. ASSUME NEW l, Place(l), BlockIn(blk, m, l) # Null,
             l = g \/ blk[BlockIn(blk, m, l)].own = <<i, l>>
      PROVE  blk'[BlockIn(blk', m, l)].own = <<i, l>>
  <2>1. CASE l = g
    BY <1>5, <1>6, <1>7, <2>1 DEF x
  <2>2. CASE l # g
    <3>1. BlockIn(blk, m, l) \in Block /\ BlockIn(blk, m, l) # x
      BY <1>2, <1>7, <1>b, <2>2, PlaceEdges
    <3>2. QED
      BY <1>5, <1>6, <1>7, <2>2, <3>1
  <2>3. QED
    BY <2>1, <2>2
<1>8. Owners' \subseteq Owners
  <2>1. TypeOK /\ DiskInv /\ TypeOK' /\ DiskInv' /\ EntryBlocks \subseteq Block /\ Root \in Owners
    BY GoodParts, EntryBlocksType DEF TypeInv, SafeInv, Owners, Named
  <2>2. \A b \in EntryBlocks : \A e \in blk'[b].ents : e \in blk[b].ents
    BY <1>5, <2>1
  <2>3. QED
    BY <1>1, <2>1, <2>2, OwnersByEntries
<1>9. ASSUME NEW n \in Owners, n # i
      PROVE  Kept(n)
  <2>1. x \notin Held(n) /\ Held(n) \subseteq Block
    BY <1>1, <1>4, <1>9, GoodParts, MineApart DEF DiskInv, BlocksOK, TypeOK, m, i
  <2>2. QED
    BY <1>1, <1>5, <2>1 DEF Kept
<1>10. TreeIn(blk', inode[j])
  <2>1. inode[j] \in InodeRecord /\ TreeIn(blk, inode[j])
    BY <1>1, <1>2, <1>a, GoodParts, WriteFacts DEF TreesOK, i
  <2>2. RefsIn(blk, inode[j]) \subseteq Block
    BY <1>2, <2>1, RefsType
  <2>3. \A t \in RefsIn(blk, inode[j]) : blk'[t].table = blk[t].table \/ blk'[t].table = ZeroTable
    BY <1>5, <2>2
  <2>4. QED
    BY <2>1, <2>3, TreeShrinks
<1>11. Whole(j)'
  <2> DEFINE r == inode[j]
  <2>1. ASSUME NEW l \in 0 .. r.size - 1, r.type = "file"
        PROVE  BlockIn(blk', r, l) # Null /\ blk'[BlockIn(blk', r, l)].own = <<j, l>>
    <3>1. Place(l) /\ Agree(r, m, l)
      BY <1>2, <1>a, <2>1 DEF MineTree, m, i
    <3>2. BlockIn(blk, r, l) # Null /\ blk[BlockIn(blk, r, l)].own = <<j, l>>
      BY <1>2, <1>a, <2>1, GoodParts DEF Whole
    <3>3. BlockIn(blk', r, l) = BlockIn(blk', m, l) /\ BlockIn(blk, r, l) = BlockIn(blk, m, l)
      BY <3>1, AgreeSame
    <3>4. QED
      BY <1>6, <1>7, <1>a, <3>1, <3>2, <3>3
  <2>2. QED
    BY <1>1, <2>1 DEF Whole
<1>12. TreesOK' /\ \A n \in Owners' : Whole(n)'
  <2>1. \A n \in Owners' : Kept(n) \/ inode'[n] = FileInode \/ (TreeIn(blk', inode'[n]) /\ Whole(n)')
    BY <1>1, <1>8, <1>9, <1>10, <1>11, <1>a
  <2>2. QED
    BY <2>1, GoodParts, FilesKept
<1>13. CASE ~ok
  BY <1>12, <1>13, FinishMine DEF WriteData, Proceed, FileInv
<1>14. CASE ok
  <2>1. /\ op'.cmd = "write" /\ op'.ino = i /\ op'.mine = m /\ op'.logical = g + 1
        /\ op'.goal = op.goal /\ pc' = "write_data"
    BY <1>1, <1>14 DEF WriteData, Proceed, NextLogical, Operation, m, g, i
  <2>2. MineTree'
    BY <1>1, <1>2, <1>6, <2>1 DEF MineTree, m, i
  <2>3. Placed(op.goal)'
    <3>1. ASSUME NEW l \in 0 .. op.goal - 1
          PROVE  BlockIn(blk', m, l) # Null
      BY <1>2, <1>3, <1>6 DEF Placed, m
    <3>2. QED
      BY <2>1, <3>1 DEF Placed
  <2>4. Filled(op.logical)'
    <3>1. ASSUME NEW l \in 0 .. g
          PROVE  blk'[BlockIn(blk', m, l)].own = <<i, l>>
      <4>1. Place(l) /\ l \in 0 .. op.goal - 1
        BY <1>1, <1>2 DEF g
      <4>2. BlockIn(blk, m, l) # Null
        BY <1>3, <4>1 DEF Placed, m
      <4>3. l = g \/ blk[BlockIn(blk, m, l)].own = <<i, l>>
        <5>1. l # g => l \in 0 .. g - 1
          BY <1>2
        <5>2. QED
          BY <1>3, <5>1 DEF Filled, m, i
      <4>4. QED
        BY <1>7, <4>1, <4>2, <4>3
    <3>2. 0 .. op'.logical - 1 = 0 .. g
      BY <1>2, <2>1
    <3>3. QED
      BY <2>1, <3>1, <3>2 DEF Filled
  <2>5. op'.logical <= op'.goal
    BY <1>1, <1>2, <2>1 DEF g
  <2>6. MineOK'
    BY <2>1, <2>2, <2>3, <2>4, <2>5 DEF MineOK, Allocating
  <2>7. QED
    BY <1>12, <2>6 DEF FileInv
<1>15. QED
  BY <1>13, <1>14

\* The size is no pointer.
LEMMA SizeNoPointer ==
  ASSUME NEW B, NEW r, NEW s, r.direct = s.direct, r.ind = s.ind, r.dbl = s.dbl
  PROVE  /\ TreeIn(B, r) <=> TreeIn(B, s)
         /\ \A l : Place(l) => BlockIn(B, r, l) = BlockIn(B, s, l)
<1>1. EdgesIn(B, r) = EdgesIn(B, s)
  BY DEF EdgesIn, TablesIn
<1>2. \A l : Agree(r, s, l)
  BY DEF Agree
<1>3. QED
  BY <1>1, <1>2, AgreeSame DEF TreeIn

\* While no block changes, a step that writes the inode of a file or of nothing, and no
\* directory's, makes no owner.
LEMMA OwnersByInode ==
  ASSUME Good, SafeInv', NEW o, o \notin Dirs, inode'[o].type # "dir", blk' = blk,
         \A i \in Inode : i # o => inode'[i] = inode[i], TypeOK'
  PROVE  Owners' \subseteq Owners
<1>1. ASSUME NEW d \in Dirs'
      PROVE  d \in Dirs /\ inode'[d] = inode[d]
  BY <1>1, GoodParts DEF Dirs, DiskInv, InodesOK, SafeInv, TypeOK
<1>2. ASSUME NEW d \in Dirs', NEW b \in DirBlocks(inode'[d]), NEW e \in blk'[b].ents
      PROVE  e.ino \in Owners
  <2>1. d \in Dirs /\ b \in DirBlocks(inode[d]) /\ e \in blk[b].ents
    BY <1>1, <1>2
  <2>2. b \in EntryBlocks
    BY <2>1 DEF EntryBlocks
  <2>3. QED
    BY <2>1, <2>2, NamedByBlocks DEF Owners
<1>3. Root \in Owners /\ Dirs' \subseteq Owners
  BY <1>1 DEF Owners, Named
<1>4. QED
  BY <1>2, <1>3, OwnersWithin

\* The size is written last, over blocks that hold what was written.
LEMMA WriteSizeFiles ==
  ASSUME Good, TypeInv', SafeInv', NEW ok \in BOOLEAN, WriteSize(ok)
  PROVE  FileInv'
<1> DEFINE m == op.mine
           r == [m EXCEPT !.size = op.goal]
<1>1. /\ op \in Operation /\ blk' = blk /\ pc = "write_data" /\ op.cmd = "write" /\ MineOK
      /\ op.logical = op.goal /\ inode' = [inode EXCEPT ![op.ino] = r] /\ Finish /\ TypeOK
      /\ m.type = "file"
  BY GoodParts DEF WriteSize, LocalsOK, Filling
<1>2. /\ m \in InodeRecord /\ TreeIn(blk, m) /\ op.goal \in Nat /\ op.ino \in Inode
      /\ \A l \in Nat : l < op.goal => Place(l)
  BY <1>1, GoodParts, WriteFacts
<1>3. Placed(op.goal) /\ Filled(op.goal)
  BY <1>1 DEF MineOK
<1>4. /\ r.size = op.goal /\ r.direct = m.direct /\ r.ind = m.ind /\ r.dbl = m.dbl /\ r.type = "file"
  BY <1>1, <1>2 DEF InodeRecord
<1>a. PICK j : j = op.ino
  OBVIOUS
<1>5. inode'[j] = r /\ \A i \in Inode : i # j => inode'[i] = inode[i]
  BY <1>1, <1>2, <1>a DEF TypeOK
<1> HIDE DEF m, r
<1>6. TreeIn(blk', r) /\ \A l : Place(l) => BlockIn(blk', r, l) = BlockIn(blk, m, l)
  BY <1>1, <1>2, <1>4, SizeNoPointer
<1>7. Whole(j)'
  <2>1. ASSUME NEW l \in 0 .. r.size - 1
        PROVE  BlockIn(blk', r, l) # Null /\ blk'[BlockIn(blk', r, l)].own = <<j, l>>
    <3>1. Place(l) /\ l \in 0 .. op.goal - 1
      BY <1>2, <1>4
    <3>2. BlockIn(blk, m, l) # Null /\ blk[BlockIn(blk, m, l)].own = <<op.ino, l>>
      BY <1>3, <3>1 DEF Placed, Filled, m
    <3>3. QED
      BY <1>1, <1>6, <1>a, <3>1, <3>2
  <2>2. QED
    BY <1>5, <2>1 DEF Whole
<1>8. Owners' \subseteq Owners
  <2>1. j \notin Dirs /\ TypeOK' /\ SafeInv' /\ inode'[j].type # "dir"
    BY <1>1, <1>4, <1>5, <1>a, GoodParts, MineApart DEF TypeInv
  <2>2. QED
    BY <1>1, <1>5, <2>1, OwnersByInode
<1>9. \A n \in Owners' : Kept(n) \/ inode'[n] = FileInode \/ (TreeIn(blk', inode'[n]) /\ Whole(n)')
  <2>1. \A n \in Owners : n \in Inode
    BY GoodParts DEF DiskInv, InodesOK, Owners, Dirs, TypeOK
  <2>2. QED
    BY <1>1, <1>5, <1>6, <1>7, <1>8, <2>1 DEF Kept
<1>10. TreesOK' /\ \A n \in Owners' : Whole(n)'
  BY <1>9, GoodParts, FilesKept
<1>11. QED
  BY <1>1, <1>10, FinishMine DEF FileInv

\* The inode that is cleared has lost its name.
LEMMA ClearInodeFiles ==
  ASSUME Good, TypeInv', SafeInv', NEW ok \in BOOLEAN, ClearInode(ok)
  PROVE  FileInv'
<1>1. /\ op \in Operation /\ blk' = blk /\ pc = "free_bitmap" /\ op.cmd = "delete" /\ op' = op /\ TypeOK
      /\ inode' = [inode EXCEPT ![op.ino] = ZeroInode]
  BY GoodParts DEF ClearInode, StageOK, Freed, Freeing
<1>2. op.ino \in Inode /\ op.ino \notin Owners
  BY <1>1, GoodParts DEF OpInv, DeleteOK, LocalsOK
<1>3. inode'[op.ino] = ZeroInode /\ \A i \in Inode : i # op.ino => inode'[i] = inode[i]
  BY <1>1, <1>2 DEF TypeOK
<1>4. op.ino \notin Dirs /\ inode'[op.ino].type # "dir" /\ TypeOK'
  BY <1>2, <1>3 DEF Owners, ZeroInode, TypeInv
<1>5. Owners' \subseteq Owners
  BY <1>1, <1>3, <1>4, OwnersByInode
<1>6. \A n \in Owners' : Kept(n)
  <2>1. \A n \in Owners : n \in Inode
    BY GoodParts DEF DiskInv, InodesOK, Owners, Dirs, TypeOK
  <2>2. QED
    BY <1>1, <1>2, <1>3, <1>5, <2>1 DEF Kept
<1>7. TreesOK' /\ \A n \in Owners' : Whole(n)'
  BY <1>6, GoodParts, FilesKept
<1>8. QED
  BY <1>1, <1>7 DEF FileInv, MineOK

\* An inode without an owner gets its first contents.
LEMMA WriteNewInodeFiles ==
  ASSUME Good, TypeInv', SafeInv', NEW ok \in BOOLEAN, WriteNewInode(ok)
  PROVE  FileInv'
<1> DEFINE r == IF op.cmd = "mkdir" THEN DirInode(op.phys) ELSE FileInode
<1>1. /\ blk' = blk /\ pc = "write_new" /\ Creating /\ inode' = [inode EXCEPT ![op.ino] = r]
      /\ op.ino \in Inode /\ TypeOK /\ TypeOK' /\ OpInv
  BY GoodParts DEF WriteNewInode, TypeInv, LocalsOK, Naming, StageOK, BeforeNew, Creating
<1>2. /\ op.ino \notin Named /\ inode[op.ino].type # "dir"
      /\ op.cmd = "mkdir" => op.phys \in Block /\ blk[op.phys] = [ZeroBlock EXCEPT !.up = op.dir]
  BY <1>1 DEF OpInv, CreateOK, BeforeNew, Adding
<1>a. PICK o \in Inode : o = op.ino
  BY <1>1
<1>3. inode'[o] = r /\ \A i \in Inode : i # o => inode'[i] = inode[i]
  BY <1>1, <1>a DEF TypeOK
<1>4. op'.cmd # "write"
  BY <1>1 DEF WriteNewInode, Proceed, Finish, NoOp, Creating
<1>5. CASE op.cmd # "mkdir"
  <2>1. inode'[o] = FileInode /\ inode'[o].type # "dir" /\ o \notin Dirs
    BY <1>2, <1>3, <1>5, <1>a DEF FileInode, ZeroInode, Dirs
  <2>2. Owners' \subseteq Owners
    BY <1>1, <1>3, <2>1, OwnersByInode
  <2>3. \A n \in Owners' : Kept(n) \/ inode'[n] = FileInode
    <3>1. \A n \in Owners : n \in Inode
      BY GoodParts DEF DiskInv, InodesOK, Owners, Dirs, TypeOK
    <3>2. QED
      BY <1>1, <1>3, <2>1, <2>2, <3>1 DEF Kept
  <2>4. TreesOK' /\ \A n \in Owners' : Whole(n)'
    BY <2>3, GoodParts, FilesKept
  <2>5. QED
    BY <1>4, <2>4 DEF FileInv, MineOK
<1>6. CASE op.cmd = "mkdir"
  <2>1. PICK b \in Block : b = op.phys /\ inode'[o] = DirInode(b) /\ blk[b].ents = {}
    BY <1>2, <1>3, <1>6 DEF ZeroBlock
  <2>2. DirBlocks(DirInode(b)) = {b} /\ DirInode(b).type = "dir"
    <3>1. DirInode(b).type = "dir"
      BY DEF DirInode, ZeroInode
    <3>2. b # Null => [blk EXCEPT ![b].table = ZeroTable][b].table = ZeroTable
      BY <1>1 DEF TypeOK, BlockRecord
    <3>3. QED
      BY <3>1, <3>2, NewInodeRefs
  <2>3. \A d \in Dirs' : d = o \/ (d \in Dirs /\ inode'[d] = inode[d])
    BY <1>1, <1>3, GoodParts DEF Dirs, DiskInv, InodesOK, TypeOK
  <2>4. ASSUME NEW d \in Dirs', NEW c \in DirBlocks(inode'[d]), NEW e \in blk'[c].ents
        PROVE  e.ino \in Owners \cup {o}
    <3>1. CASE d = o
      BY <1>1, <2>1, <2>2, <2>4, <3>1
    <3>2. CASE d # o
      <4>1. d \in Dirs /\ c \in DirBlocks(inode[d]) /\ e \in blk[c].ents
        BY <1>1, <2>3, <2>4, <3>2
      <4>2. c \in EntryBlocks
        BY <4>1 DEF EntryBlocks
      <4>3. QED
        BY <4>1, <4>2, NamedByBlocks DEF Owners
    <3>3. QED
      BY <3>1, <3>2
  <2>5. Owners' \subseteq Owners \cup {o}
    <3>1. Root \in Owners \cup {o} /\ Dirs' \subseteq Owners \cup {o}
      BY <2>3 DEF Owners, Named
    <3>2. QED
      BY <2>4, <3>1, OwnersWithin
  <2>6. TreeIn(blk', inode'[o]) /\ Whole(o)'
    BY <2>1, <2>2, EmptyTree DEF Whole
  <2>7. \A n \in Owners' : Kept(n) \/ (TreeIn(blk', inode'[n]) /\ Whole(n)')
    <3>1. \A n \in Owners : n \in Inode
      BY GoodParts DEF DiskInv, InodesOK, Owners, Dirs, TypeOK
    <3>2. QED
      BY <1>1, <1>3, <2>5, <2>6, <3>1 DEF Kept
  <2>8. TreesOK' /\ \A n \in Owners' : Whole(n)'
    BY <2>7, GoodParts, FilesKept
  <2>9. QED
    BY <1>4, <2>8 DEF FileInv, MineOK
<1>7. QED
  BY <1>5, <1>6

\* The directory's inode keeps its pointers, or gets one more to a block that nothing reaches.
LEMMA WriteParentFiles ==
  ASSUME Good, TypeInv', SafeInv', NEW ok \in BOOLEAN, WriteParent(ok)
  PROVE  FileInv'
<1> DEFINE L == IF op.cmd = "mkdir" THEN [op.parent EXCEPT !.links = @ + 1] ELSE op.parent
<1>1. /\ blk' = blk /\ iused' = iused /\ pc = "write_parent" /\ Creating
      /\ inode' = [inode EXCEPT ![op.dir] = L]
      /\ op.dir \in Inode /\ op.ino \in Inode /\ op.parent \in InodeRecord /\ TypeOK /\ TypeOK' /\ OpInv
  BY GoodParts DEF WriteParent, TypeInv, LocalsOK, Naming, StageOK, Adding, Creating, Operation
<1>2. /\ op.dir \in Dirs /\ op.ino # op.dir
      /\ IF op.cmd = "create" THEN inode[op.ino] = FileInode ELSE op.ino \in Dirs
      /\ (op.parent = inode[op.dir] /\ op.ino \in Named) \/ Grown
  BY <1>1 DEF OpInv, CreateOK, BeforeNew, Adding, Creating
<1>3. /\ L.direct = op.parent.direct /\ L.ind = op.parent.ind /\ L.dbl = op.parent.dbl
      /\ L.size = op.parent.size /\ L.type = op.parent.type
  BY <1>1 DEF InodeRecord
<1> HIDE DEF L
<1>a. PICK d0 \in Inode, o \in Inode : d0 = op.dir /\ o = op.ino
  BY <1>1
<1>4. inode'[d0] = L /\ \A i \in Inode : i # d0 => inode'[i] = inode[i]
  BY <1>1, <1>a DEF TypeOK
<1>5. /\ inode[d0].type = "dir" /\ inode[d0] \in InodeRecord /\ d0 \in Owners /\ d0 # o
      /\ inode[o] = FileInode \/ o \in Owners
      /\ inode[d0].size \in Nat
  BY <1>1, <1>2, <1>a, Records DEF Dirs, TypeOK, Owners, InodeRecord
<1>6. TreeIn(blk, inode[d0])
  BY <1>5, GoodParts DEF TreesOK
<1>7. TreeIn(blk, op.parent) /\ op.parent.type = "dir"
  <2>1. CASE op.parent = inode[d0]
    BY <1>5, <1>6, <2>1
  <2>2. CASE Grown
    <3>1. PICK p \in Block, s \in 0 .. NDirect - 1 : /\ p = op.phys /\ s = inode[d0].size
                                                      /\ Fresh(p) /\ blk[p].table = ZeroTable
      BY <1>5, <1>a, <2>2, Ext2Assumption DEF Grown, ZeroBlock
    <3>2. op.parent = [inode[d0] EXCEPT !.direct[s] = p, !.size = @ + 1]
      BY <1>a, <2>2, <3>1 DEF Grown
    <3>3. /\ op.parent.direct = [inode[d0].direct EXCEPT ![s] = p]
          /\ op.parent.ind = inode[d0].ind /\ op.parent.dbl = inode[d0].dbl
          /\ op.parent.type = "dir"
      BY <1>5, <3>2 DEF InodeRecord
    <3>4. p \notin RefsIn(blk, inode[d0])
      BY <1>5, <3>1 DEF Fresh, Held
    <3>5. TreeIn(blk, op.parent)
      BY <1>5, <1>6, <3>1, <3>3, <3>4, TreeSet
    <3>6. QED
      BY <3>3, <3>5
  <2>3. QED
    BY <1>2, <1>a, <2>1, <2>2
<1>8. TreeIn(blk', inode'[d0]) /\ Whole(d0)'
  <2>1. TreeIn(blk, L)
    BY <1>3, <1>7, SizeNoPointer
  <2>2. QED
    BY <1>1, <1>3, <1>4, <1>7, <2>1 DEF Whole
<1>9. Dirs' = Dirs
  <2>1. \A i : i \in Dirs' <=> i \in Dirs
    BY <1>1, <1>3, <1>4, <1>5, <1>7 DEF Dirs, TypeOK
  <2>2. QED
    BY <2>1
<1>10. Owners' \subseteq Owners \cup {o}
  <2>1. ASSUME NEW d \in Dirs, NEW c \in DirBlocks(inode'[d])
        PROVE  c \in DirBlocks(inode[d]) \/ (Grown /\ c = op.phys)
    <3>1. CASE d # d0
      BY <1>1, <1>4, <2>1, <3>1 DEF Dirs, TypeOK
    <3>2. CASE d = d0 /\ op.parent = inode[d0]
      BY <1>3, <1>4, <2>1, <3>2 DEF DirBlocks
    <3>3. CASE d = d0 /\ Grown
      <4>1. PICK l \in 0 .. L.size - 1 : c = L.direct[l]
        BY <1>4, <2>1, <3>3 DEF DirBlocks
      <4>2. /\ L.size = inode[d0].size + 1
            /\ L.direct = [inode[d0].direct EXCEPT ![inode[d0].size] = op.phys]
        BY <1>3, <1>5, <1>a, <3>3 DEF Grown, InodeRecord
      <4>3. inode[d0].size \in 0 .. NDirect - 1 /\ inode[d0].direct \in [0 .. NDirect - 1 -> Ptr]
        BY <1>5, <1>a, <3>3, Ext2Assumption DEF Grown, InodeRecord
      <4>4. CASE l = inode[d0].size
        BY <3>3, <4>1, <4>2, <4>3, <4>4
      <4>5. CASE l # inode[d0].size
        <5>1. l \in 0 .. inode[d0].size - 1
          BY <1>5, <4>2, <4>5
        <5>2. c = inode[d0].direct[l]
          BY <4>1, <4>2, <4>3, <4>5, <5>1
        <5>3. QED
          BY <3>3, <5>1, <5>2 DEF DirBlocks
      <4>6. QED
        BY <4>4, <4>5
    <3>4. QED
      BY <1>2, <1>a, <3>1, <3>2, <3>3
  <2>2. ASSUME NEW d \in Dirs', NEW c \in DirBlocks(inode'[d]), NEW e \in blk'[c].ents
        PROVE  e.ino \in Owners \cup {o}
    <3>1. CASE c \in DirBlocks(inode[d])
      <4>1. c \in EntryBlocks
        BY <1>9, <3>1 DEF EntryBlocks
      <4>2. QED
        BY <1>1, <2>2, <4>1, NamedByBlocks DEF Owners
    <3>2. CASE Grown /\ c = op.phys
      BY <1>1, <1>a, <2>2, <3>2 DEF Grown, NewEntry, ZeroBlock
    <3>3. QED
      BY <1>9, <2>1, <3>1, <3>2
  <2>3. Root \in Owners \cup {o} /\ Dirs' \subseteq Owners \cup {o}
    BY <1>9 DEF Owners, Named
  <2>4. QED
    BY <2>2, <2>3, OwnersWithin
<1>11. \A n \in Owners' : Kept(n) \/ inode'[n] = FileInode \/ (TreeIn(blk', inode'[n]) /\ Whole(n)')
  <2>1. \A n \in Owners : n \in Inode
    BY GoodParts DEF DiskInv, InodesOK, Owners, Dirs, TypeOK
  <2>2. QED
    BY <1>1, <1>4, <1>5, <1>8, <1>10, <2>1 DEF Kept
<1>12. TreesOK' /\ \A n \in Owners' : Whole(n)'
  BY <1>11, GoodParts, FilesKept
<1>13. MineOK'
  <2>1. CASE Finish
    BY <2>1, FinishMine
  <2>2. CASE ~Finish
    <3>1. /\ op' = [NoOp EXCEPT !.cmd = "write", !.ino = op.ino,
                                 !.goal = op.goal, !.mine = inode[op.ino]]
          /\ op.goal \in 0 .. LargestFile /\ pc' = "write_alloc"
      BY <2>2 DEF WriteParent, Proceed
    <3>2. op.cmd = "create"
      <4>1. op.goal # NoGoal
        BY <3>1, Records DEF NoGoal
      <4>2. QED
        BY <1>1, <4>1, GoodParts DEF LocalsOK, Naming, Creating
    <3>3. /\ op'.ino = o /\ op'.mine = FileInode /\ op'.logical = 0 /\ op'.goal = op.goal
          /\ inode'[o] = FileInode
      BY <1>1, <1>2, <1>4, <1>5, <1>a, <3>1, <3>2 DEF NoOp
    <3>4. FileInode.size = 0
      BY DEF FileInode, ZeroInode
    <3>5. MineTree'
      BY <3>3, <3>4, EmptyTree DEF MineTree
    <3>6. Placed(0)'
      BY DEF Placed
    <3>7. op.goal \in Nat
      BY <3>1, Records
    <3>8. Placed(op.logical)'
      BY <3>3, <3>6 DEF Placed
    <3>9. QED
      BY <3>1, <3>3, <3>4, <3>5, <3>7, <3>8 DEF MineOK, Allocating
  <2>3. QED
    BY <2>1, <2>2
<1>14. QED
  BY <1>12, <1>13 DEF FileInv
-----------------------------------------------------------------------------
(* The invariant and what it says.                                         *)

\* The image mkfs makes has no file.
LEMMA InitFiles == Init => FileInv
<1> SUFFICES ASSUME Init PROVE FileInv
  OBVIOUS
<1>0. Root \in Inode /\ 1 \in Block /\ Root \in iused
  BY Ext2Assumption DEF Init, Root, Inode, Block
<1>1. /\ inode[Root] = DirInode(1) /\ \A i \in Inode : i # Root => inode[i].type = "none"
      /\ DirInode(1).type = "dir" /\ blk[1].table = ZeroTable /\ blk[1].ents = {}
  BY <1>0 DEF Init, DirInode, ZeroInode, ZeroBlock
<1>2. \A d : d \in Dirs <=> d = Root
  BY <1>0, <1>1 DEF Dirs, Init
<1>3. DirBlocks(inode[Root]) = {1}
  BY <1>1, NewInodeRefs
<1>4. EntryBlocks \subseteq {1}
  BY <1>2, <1>3 DEF EntryBlocks
<1>5. \A i \in Owners : i = Root
  BY <1>1, <1>2, <1>4, NamedByBlocks DEF Owners
<1>6. TreeIn(blk, inode[Root]) /\ Whole(Root)
  BY <1>0, <1>1, EmptyTree DEF Whole
<1>7. MineOK
  BY DEF Init, NoOp, MineOK
<1>8. QED
  BY <1>5, <1>6, <1>7 DEF FileInv, TreesOK

\* Every step keeps the invariant, one lemma for each action.
LEMMA StepFiles ==
  ASSUME Good, TypeInv', SafeInv', Next
  PROVE  FileInv'
<1>1. CASE Request
  BY <1>1, RequestFiles
<1>2. CASE Local
  BY <1>2, CountsFiles, OtherFiles, NeedTableFiles, SetDirectFiles, WriteAllocFiles DEF Local
<1>3. ASSUME NEW ok \in BOOLEAN, Write(ok)
      PROVE  FileInv'
  BY <1>3, AllocBlockFiles, AllocBlockZeroFiles, CountsFiles, DirBlockFiles, EntryFiles,
     WriteNewInodeFiles, WriteParentFiles, SetIndirectFiles, LinkChildFiles, WriteDataFiles,
     WriteSizeFiles, ClearInodeFiles, OtherFiles DEF Write
<1>4. CASE Fault
  BY <1>3, <1>4, FaultFiles DEF Fault
<1>5. CASE Mount
  BY <1>5, FaultFiles
<1>6. QED
  BY <1>1, <1>2, <1>3, <1>4, <1>5 DEF Next

\* So does a step that changes nothing.
LEMMA StutterFiles == TypeInv /\ SafeInv /\ FileInv /\ UNCHANGED vars => FileInv'
<1> SUFFICES ASSUME TypeInv, SafeInv, FileInv, UNCHANGED vars PROVE FileInv'
  OBVIOUS
<1>1. inode' = inode /\ blk' = blk /\ op' = op /\ pc' = pc /\ iused' = iused
  BY DEF vars
<1>2. Owners' = Owners
  BY <1>1, Unmoved
<1>3. TreesOK' /\ (\A i \in Owners' : Whole(i)') /\ MineTree' = MineTree
  BY <1>1, <1>2 DEF FileInv, TreesOK, Whole, MineTree
<1>4. /\ Child' = Child /\ Placed(op.goal)' = Placed(op.goal)
      /\ Placed(op.logical)' = Placed(op.logical) /\ Filled(op.logical)' = Filled(op.logical)
      /\ InSingle(op.logical)' = InSingle(op.logical) /\ InDouble(op.logical)' = InDouble(op.logical)
  BY <1>1 DEF Child, Placed, Filled, InSingle, InDouble
<1>5. MineOK'
  BY <1>1, <1>3, <1>4 DEF FileInv, MineOK
<1>6. QED
  BY <1>3, <1>5 DEF FileInv

\* What the driver keeps true of the files, at every write, whatever writes fail and
\* whenever power is lost: the pointers of an inode form a tree, what is below the size of
\* a file was written there, and the inode in memory of the file being written keeps what
\* the one on disk has.
THEOREM FileInvariant == Spec => []FileInv
<1>1. Init => FileInv
  BY InitFiles
<1>2. TypeInv /\ TypeInv' /\ SafeInv /\ SafeInv' /\ FileInv /\ [Next]_vars => FileInv'
  BY StepFiles, StutterFiles DEF Good
<1>3. QED
  BY <1>1, <1>2, TypeInvariant, SafeInvariant, PTL DEF Spec

\* For every disk and every history of faults: below the size of a named file every block
\* holds what was written to that place of that file (ext2_write_file fills the blocks and
\* writes the size last, in one inode write).
THEOREM FilesAreIntact == Spec => []FileIntact
<1>1. FileInv => FileIntact
  <2> SUFFICES ASSUME FileInv, NEW i \in Named, inode[i].type = "file",
                      NEW l \in 0 .. inode[i].size - 1
               PROVE  BlockOf(inode[i], l) # Null /\ blk[BlockOf(inode[i], l)].own = <<i, l>>
    BY DEF FileIntact
  <2>1. Whole(i)
    BY DEF FileInv, Owners
  <2>2. QED
    BY <2>1, BlockOfIn DEF Whole
<1>2. QED
  BY <1>1, FileInvariant, PTL

\* For every disk and every history of faults: no block belongs to two named inodes, to
\* two places of one, or to one as data and as a table (a block freed by a deletion or
\* leaked by a failed write comes back only when nothing points at it).
THEOREM BlocksAreNotShared == Spec => []NoSharedBlock
<1>1. ASSUME TypeOK, SafeInv, FileInv, NEW i \in Named
      PROVE  \A n \in Named \ {i} : Refs(inode[i]) \cap Refs(inode[n]) = {}
  BY <1>1, RefsAsIn DEF SafeInv, DiskInv, BlocksOK, Held, Owners
<1>2. ASSUME TypeOK, SafeInv, FileInv, NEW i \in Named, NEW l \in 0 .. inode[i].size - 1
      PROVE  /\ Place(l) /\ BlockIn(blk, inode[i], l) # Null
             /\ BlockOf(inode[i], l) = BlockIn(blk, inode[i], l)
  <2>1. i \in Owners /\ inode[i].type \in {"file", "dir"} /\ inode[i] \in InodeRecord /\ i \in Inode
    BY <1>2 DEF Owners, SafeInv, DiskInv, InodesOK, TypeOK
  <2>2. Place(l)
    BY <1>2, <2>1, PlaceBelow
  <2>3. BlockIn(blk, inode[i], l) # Null
    <3>1. CASE inode[i].type = "file"
      BY <1>2, <2>1, <3>1 DEF FileInv, Whole
    <3>2. CASE inode[i].type = "dir"
      <4>1. DirFits(inode[i])
        BY <1>2, <2>1, <3>2 DEF TypeOK
      <4>2. inode[i].direct[l] # Null /\ inode[i].size <= NDirect
        BY <4>1 DEF DirFits
      <4>3. l < NDirect
        BY <2>1, <4>2, Ext2Assumption, Records DEF InodeRecord
      <4>4. QED
        BY <4>2, <4>3 DEF BlockIn
    <3>3. QED
      BY <2>1, <3>1, <3>2
  <2>4. QED
    BY <2>2, <2>3, BlockOfIn
<1>3. ASSUME TypeOK, SafeInv, FileInv, NEW i \in Named,
             NEW l \in 0 .. inode[i].size - 1, NEW m \in 0 .. inode[i].size - 1
      PROVE  /\ l # m => BlockOf(inode[i], l) # BlockOf(inode[i], m)
             /\ BlockOf(inode[i], l) \notin Tables(inode[i])
  <2>1. TreeIn(blk, inode[i])
    BY <1>3 DEF FileInv, TreesOK, Owners
  <2>2. /\ Place(l) /\ BlockIn(blk, inode[i], l) # Null
        /\ BlockOf(inode[i], l) = BlockIn(blk, inode[i], l)
        /\ Place(m) /\ BlockOf(inode[i], m) = BlockIn(blk, inode[i], m)
    BY <1>2, <1>3
  <2>3. Tables(inode[i]) = TablesIn(blk, inode[i])
    BY DEF Tables, TablesIn, Kids, KidsIn
  <2>4. BlockIn(blk, inode[i], l) \notin TablesIn(blk, inode[i])
    BY <2>1, <2>2, PlaceNoTable
  <2>5. BlockIn(blk, inode[i], l) = BlockIn(blk, inode[i], m) => l = m
    BY <2>1, <2>2, PlacesApart
  <2>6. QED
    BY <2>2, <2>3, <2>4, <2>5
<1>4. TypeInv /\ SafeInv /\ FileInv => NoSharedBlock
  BY <1>1, <1>3 DEF NoSharedBlock, TypeInv
<1>5. QED
  BY <1>4, TypeInvariant, SafeInvariant, FileInvariant, PTL
-----------------------------------------------------------------------------
(* The tree of names: the disk implements module FileTree.                 *)

Arc(d, e) == [dir |-> d, name |-> e.name, ino |-> e.ino]
\* Directory d has entry e in its block b, on the disk with inodes I and blocks B.
HasIn(I, B, d, b, e) == b \in DirBlocks(I[d]) /\ e \in B[b].ents
ArcIn(I, B, S, x) == \E d \in S : \E b, e : HasIn(I, B, d, b, e) /\ x = Arc(d, e)
\* What the tree keeps of an inode.
Shape(rec) == [kind |-> rec.type, size |-> IF rec.type = "file" THEN rec.size ELSE 0]

\* A directory without a name is empty: what a power loss leaves between the inode of a
\* new directory and its name holds nothing that could get lost with it.
Orphans == \A d \in Dirs \ Named : \A b \in DirBlocks(inode[d]) : blk[b].ents = {}
\* A creation runs in a directory that has a name, and a write asks for more.
Rooted == Creating => op.dir \in Named
Growing == op.cmd = "write" => op.mine.size <= op.goal
NamesInv == Orphans /\ Rooted /\ Growing

TreeStays == UNCHANGED <<TreeEdges, TreeNodes>>
TreeStep == Tree!Next \/ TreeStays

\* The entries of a directory are those of its blocks.
LEMMA EntriesIn ==
  /\ \A d, e : e \in Entries(inode[d]) <=> \E b : HasIn(inode, blk, d, b, e)
  /\ (\A d, e : e \in Entries(inode[d]) <=> \E b : HasIn(inode, blk, d, b, e))'
<1>1. \A d, e : e \in Entries(inode[d]) <=> \E b : HasIn(inode, blk, d, b, e)
  BY DEF Entries, HasIn, DirBlocks
<1>2. \A d, e : e \in Entries(inode[d])' <=> \E b : HasIn(inode', blk', d, b, e)
  BY DEF Entries, HasIn, DirBlocks
<1>3. QED
  BY <1>1, <1>2

\* The tree has the entries of all directories, those without a name being empty.
LEMMA ArcsAre ==
  /\ Orphans => \A x : x \in TreeEdges <=> ArcIn(inode, blk, Dirs, x)
  /\ Orphans' => \A x : x \in TreeEdges' <=> ArcIn(inode', blk', Dirs', x)
<1>1. \A x : x \in TreeEdges <=> \E d \in Named \cap Dirs : \E e \in Entries(inode[d]) : x = Arc(d, e)
  BY DEF TreeEdges, Arc
<1>2. \A x : x \in TreeEdges' <=>
        \E d \in Named' \cap Dirs' : \E e \in Entries(inode[d])' : x = Arc(d, e)
  BY DEF TreeEdges, Arc
<1>3. \A d, e : e \in Entries(inode[d])' <=> \E b : HasIn(inode', blk', d, b, e)
  BY EntriesIn
<1>4. Orphans => \A d \in Dirs : \A b, e : HasIn(inode, blk, d, b, e) => d \in Named
  BY DEF Orphans, HasIn
<1>5. Orphans' => \A d \in Dirs' : \A b, e : HasIn(inode', blk', d, b, e) => d \in Named'
  BY DEF Orphans, HasIn
<1>6. ASSUME Orphans, NEW x
      PROVE  x \in TreeEdges <=> ArcIn(inode, blk, Dirs, x)
  BY <1>1, <1>4, <1>6, EntriesIn DEF ArcIn
<1>7. ASSUME Orphans', NEW x
      PROVE  x \in TreeEdges' <=> ArcIn(inode', blk', Dirs', x)
  BY <1>2, <1>3, <1>5, <1>7 DEF ArcIn
<1>8. QED
  BY <1>6, <1>7

\* What is named is the root or has an entry.
LEMMA NamedIn ==
  /\ \A i : i \in Named <=> i = Root \/ \E d \in Dirs : \E b, e : HasIn(inode, blk, d, b, e) /\ i = e.ino
  /\ \A i : i \in Named' <=>
            i = Root \/ \E d \in Dirs' : \E b, e : HasIn(inode', blk', d, b, e) /\ i = e.ino
  BY NamedByBlocks DEF EntryBlocks, HasIn

\* The nodes are the named inodes.
LEMMA NodesAre ==
  /\ TreeNodes = [i \in Named |-> Shape(inode[i])]
  /\ TreeNodes' = [i \in Named' |-> Shape(inode'[i])]
  BY DEF TreeNodes, Shape

\* A step that changes neither the entries of the directories nor the named inodes changes
\* nothing of the tree; a directory it makes is empty.
LEMMA QuietTree ==
  ASSUME Orphans, Named' = Named, Dirs \subseteq Dirs',
         \A d \in Dirs : \A b, e : HasIn(inode', blk', d, b, e) <=> HasIn(inode, blk, d, b, e),
         \A d \in Dirs' \ Dirs : \A b \in DirBlocks(inode'[d]) : blk'[b].ents = {},
         \A i \in Named : Shape(inode'[i]) = Shape(inode[i])
  PROVE  Orphans' /\ TreeStays
<1>1. \A d \in Dirs' \ Dirs : \A b, e : ~HasIn(inode', blk', d, b, e)
  BY DEF HasIn
<1>2. Orphans'
  <2> SUFFICES ASSUME NEW d \in Dirs' \ Named', NEW b \in DirBlocks(inode'[d]), NEW e \in blk'[b].ents
               PROVE  FALSE
    BY DEF Orphans
  <2>1. HasIn(inode', blk', d, b, e)
    BY DEF HasIn
  <2>2. d \in Dirs \ Named /\ HasIn(inode, blk, d, b, e)
    BY <1>1, <2>1
  <2>3. QED
    BY <2>2 DEF Orphans, HasIn
<1>3. \A x : ArcIn(inode', blk', Dirs', x) <=> ArcIn(inode, blk, Dirs, x)
  BY <1>1 DEF ArcIn
<1>4. TreeEdges' = TreeEdges
  <2>1. \A x : x \in TreeEdges' <=> x \in TreeEdges
    BY <1>2, <1>3, ArcsAre
  <2>2. QED
    BY <2>1 DEF TreeEdges
<1>5. TreeNodes' = TreeNodes
  BY NodesAre
<1>6. QED
  BY <1>2, <1>4, <1>5 DEF TreeStays

\* A step that leaves inodes and blocks alone and marks no directory.
LEMMA StillTree ==
  ASSUME Orphans, inode' = inode, blk' = blk, Dirs' = Dirs
  PROVE  Orphans' /\ TreeStays /\ Named' = Named
<1>1. Named' = Named
  BY NamesStay
<1>2. QED
  BY <1>1, QuietTree

\* The directories have one entry more, or one less, and no other.
OneMore(D, b0, e0) ==
  \A d \in Dirs : \A b, e : HasIn(inode', blk', d, b, e) <=>
     HasIn(inode, blk, d, b, e) \/ (d = D /\ b = b0 /\ e = e0)
OneLess(D, b0, e0) ==
  \A d \in Dirs : \A b, e : HasIn(inode', blk', d, b, e) <=>
     HasIn(inode, blk, d, b, e) /\ ~(d = D /\ b = b0 /\ e = e0)
\* No other entry is for its inode.
OnlyEntry(D, b0, e0) ==
  \A d \in Dirs : \A b, e : HasIn(inode, blk, d, b, e) /\ e.ino = e0.ino => d = D /\ b = b0 /\ e = e0

\* One more entry of a directory that has a name, for an inode without one: AddName.
LEMMA AddTree ==
  ASSUME TypeOK, InodesOK, Orphans, Dirs' = Dirs,
         NEW D \in Dirs, D \in Named, NEW b0, NEW e0 \in Entry,
         e0.ino \notin Named,
         \A c \in DirBlocks(inode[D]) : \A e \in blk[c].ents : e.name # e0.name,
         OneMore(D, b0, e0),
         \A i \in Named : Shape(inode'[i]) = Shape(inode[i]),
         Shape(inode'[e0.ino]) \in {Tree!FileNode(0), Tree!DirNode}
  PROVE  Orphans' /\ Tree!Next /\ Named' = Named \cup {e0.ino}
<1> USE DEF OneMore
<1>0. Named' = Named \cup {e0.ino}
  <2>1. \A i : i \in Named' <=> i \in Named \cup {e0.ino}
    BY NamedIn
  <2>2. QED
    BY <2>1 DEF Named
<1>1. Orphans'
  <2> SUFFICES ASSUME NEW d \in Dirs \ Named', NEW b \in DirBlocks(inode'[d]), NEW e \in blk'[b].ents
               PROVE  FALSE
    BY DEF Orphans
  <2>1. HasIn(inode', blk', d, b, e)
    BY DEF HasIn
  <2>2. HasIn(inode, blk, d, b, e) /\ d \notin Named
    BY <1>0, <2>1
  <2>3. QED
    BY <2>2 DEF Orphans, HasIn
<1>2. \A x : x \in TreeEdges' <=> x \in TreeEdges \/ x = Arc(D, e0)
  <2>1. \A x : ArcIn(inode', blk', Dirs', x) <=> ArcIn(inode, blk, Dirs, x) \/ x = Arc(D, e0)
    BY DEF ArcIn
  <2>2. QED
    BY <1>1, <2>1, ArcsAre
<1>3. TreeEdges' = TreeEdges \cup {Arc(D, e0)}
  BY <1>2 DEF TreeEdges
<1>4. /\ Named = DOMAIN TreeNodes /\ \A i \in Named : TreeNodes[i] = Shape(inode[i])
      /\ TreeNodes' = [i \in Named' |-> Shape(inode'[i])]
  BY NodesAre
<1>5. TreeNodes[D] = Tree!DirNode
  BY <1>4 DEF Dirs, Shape, Tree!DirNode
<1>6. ~Tree!Bound(D, e0.name)
  <2> SUFFICES ASSUME NEW x \in TreeEdges, x.dir = D, x.name = e0.name
               PROVE  FALSE
    BY DEF Tree!Bound
  <2>1. PICK d \in Dirs : \E b, e : HasIn(inode, blk, d, b, e) /\ x = Arc(d, e)
    BY ArcsAre DEF ArcIn
  <2>2. PICK b, e : HasIn(inode, blk, d, b, e) /\ x = Arc(d, e)
    BY <2>1
  <2>3. d = D /\ e.name = e0.name
    BY <2>2 DEF Arc
  <2>4. QED
    BY <2>2, <2>3 DEF HasIn
<1>7. D \in Inode /\ e0.ino \in Inode /\ e0.name \in Name
  BY EntryBlocksType DEF Entry
<1> DEFINE new == Shape(inode'[e0.ino])
<1>8. TreeNodes' = [j \in Named \cup {e0.ino} |-> IF j = e0.ino THEN new ELSE TreeNodes[j]]
  BY <1>0, <1>4
<1>9. new \in {Tree!FileNode(0), Tree!DirNode}
  OBVIOUS
<1> HIDE DEF new
<1>10. Tree!AddName(D, e0.name, e0.ino, new)
  BY <1>3, <1>4, <1>5, <1>6, <1>7, <1>8 DEF Tree!AddName, Tree!Linked, Arc
<1>11. Tree!Next
  BY <1>7, <1>9, <1>10 DEF Tree!Next
<1>12. QED
  BY <1>0, <1>1, <1>11

\* One entry less, of an inode that is a file: RemoveName.
LEMMA RemoveTree ==
  ASSUME TypeOK, Orphans, Dirs' = Dirs, inode' = inode,
         NEW D \in Dirs, NEW b0, NEW e0, HasIn(inode, blk, D, b0, e0),
         inode[e0.ino].type = "file", e0.ino # Root,
         OnlyEntry(D, b0, e0), OneLess(D, b0, e0)
  PROVE  Orphans' /\ Tree!Next /\ Named' = Named \ {e0.ino}
<1> USE DEF OneLess, OnlyEntry
<1>0. Named' = Named \ {e0.ino} /\ e0.ino \in Named
  <2>1. \A i : i \in Named' <=> i \in Named \ {e0.ino}
    BY NamedIn
  <2>2. QED
    BY <2>1, NamedIn DEF Named
<1>1. Orphans'
  <2> SUFFICES ASSUME NEW d \in Dirs \ Named', NEW b \in DirBlocks(inode'[d]), NEW e \in blk'[b].ents
               PROVE  FALSE
    BY DEF Orphans
  <2>1. HasIn(inode', blk', d, b, e)
    BY DEF HasIn
  <2>2. HasIn(inode, blk, d, b, e) /\ d \notin Named
    BY <1>0, <2>1 DEF Dirs
  <2>3. QED
    BY <2>2 DEF Orphans, HasIn
<1>2. \A x : x \in TreeEdges' <=> x \in TreeEdges /\ x # Arc(D, e0)
  <2>1. \A d, e : Arc(d, e) = Arc(D, e0) => d = D /\ e.ino = e0.ino
    BY DEF Arc
  <2>2. \A x : ArcIn(inode', blk', Dirs', x) <=> ArcIn(inode, blk, Dirs, x) /\ x # Arc(D, e0)
    BY <2>1 DEF ArcIn
  <2>3. QED
    BY <1>1, <2>2, ArcsAre
<1>3. TreeEdges' = TreeEdges \ {Arc(D, e0)}
  BY <1>2 DEF TreeEdges
<1>4. Arc(D, e0) \in TreeEdges
  BY ArcsAre DEF ArcIn
<1>5. Arc(D, e0).ino = e0.ino
  BY DEF Arc
<1>6. /\ Named = DOMAIN TreeNodes /\ \A i \in Named : TreeNodes[i] = Shape(inode[i])
      /\ TreeNodes' = [i \in Named' |-> Shape(inode'[i])]
  BY NodesAre
<1>7. TreeNodes[e0.ino].kind = "file"
  BY <1>0, <1>6 DEF Shape
<1>8. TreeNodes' = [j \in Named \ {e0.ino} |-> TreeNodes[j]]
  BY <1>0, <1>6
<1>9. Tree!RemoveName(Arc(D, e0))
  BY <1>3, <1>5, <1>6, <1>7, <1>8 DEF Tree!RemoveName, Tree!Linked
<1>10. QED
  BY <1>0, <1>1, <1>4, <1>9 DEF Tree!Next

\* A named file gets larger, or nothing happens: Resize or a stutter.
LEMMA ResizeTree ==
  ASSUME Orphans, Dirs' = Dirs, Named' = Named, NEW o \in Named, inode[o].type = "file",
         inode'[o].type = "file", inode'[o].size \in Nat, inode[o].size \in Nat,
         inode[o].size <= inode'[o].size,
         \A i \in Named : i # o => inode'[i] = inode[i],
         \A d \in Dirs : inode'[d] = inode[d], blk' = blk
  PROVE  Orphans' /\ TreeStep
<1>1. \A d \in Dirs : \A b, e : HasIn(inode', blk', d, b, e) <=> HasIn(inode, blk, d, b, e)
  BY DEF HasIn
<1>2. CASE inode'[o].size = inode[o].size
  <2>1. \A i \in Named : Shape(inode'[i]) = Shape(inode[i])
    BY <1>2 DEF Shape
  <2>2. QED
    BY <1>1, <2>1, QuietTree DEF TreeStep
<1>3. CASE inode'[o].size # inode[o].size
  <2>1. Orphans'
    BY <1>1 DEF Orphans, HasIn
  <2>2. TreeEdges' = TreeEdges
    <3>1. \A x : ArcIn(inode', blk', Dirs', x) <=> ArcIn(inode, blk, Dirs, x)
      BY <1>1 DEF ArcIn
    <3>2. \A x : x \in TreeEdges' <=> x \in TreeEdges
      BY <2>1, <3>1, ArcsAre
    <3>3. QED
      BY <3>2 DEF TreeEdges
  <2>3. /\ Named = DOMAIN TreeNodes /\ \A i \in Named : TreeNodes[i] = Shape(inode[i])
        /\ Named = DOMAIN TreeNodes' /\ \A i \in Named : TreeNodes'[i] = Shape(inode'[i])
        /\ TreeNodes = [i \in Named |-> Shape(inode[i])]
        /\ TreeNodes' = [i \in Named |-> Shape(inode'[i])]
    BY NodesAre
  <2>4. TreeNodes[o] = [kind |-> "file", size |-> inode[o].size]
    BY <2>3 DEF Shape
  <2>5. TreeNodes'[o] = [kind |-> "file", size |-> inode'[o].size]
    BY <2>3 DEF Shape
  <2>6. \A i \in Named : i # o => TreeNodes'[i] = TreeNodes[i]
    BY <2>3
  <2> DEFINE k == TreeNodes'[o].size
  <2>7. k \in Nat /\ TreeNodes[o].size < k /\ TreeNodes[o].kind = "file"
    BY <1>3, <2>4, <2>5
  <2>8. TreeNodes'[o] = [TreeNodes[o] EXCEPT !.size = k]
    BY <2>4, <2>5
  <2>9. TreeNodes' = [TreeNodes EXCEPT ![o].size = k]
    BY <2>3, <2>6, <2>8
  <2>10. Tree!Resize(o)
    BY <2>2, <2>3, <2>7, <2>9 DEF Tree!Resize, Tree!Linked
  <2>11. QED
    BY <2>1, <2>3, <2>10 DEF TreeStep, Tree!Next, Tree!Linked
<1>4. QED
  BY <1>2, <1>3

-----------------------------------------------------------------------------
(* One lemma for each group of actions.                                    *)

TreeKept == NamesInv' /\ TreeStep

\* The directories keep their entries and their link counts, and one that appears has no
\* name, no entry and the two links of "." and "..".
EntriesStay == \A d \in Dirs : Entries(inode[d])' = Entries(inode[d])
DirsStay ==
  /\ Dirs \subseteq Dirs' /\ EntriesStay
  /\ \A d \in Dirs : inode'[d].links = inode[d].links
  /\ \A d \in Dirs' \ Dirs : d \notin Named /\ inode'[d].links = 2 /\ Entries(inode[d])' = {}
\* The directory of the operation gets the new entry, or loses it.
EntryJoins ==
  \A d \in Dirs : Entries(inode[d])' = Entries(inode[d]) \cup (IF d = op.dir THEN {NewEntry} ELSE {})
EntryLeaves ==
  \A d \in Dirs : Entries(inode[d])' = Entries(inode[d]) \ (IF d = op.dir THEN {NewEntry} ELSE {})

\* The entries are what the blocks hold.
LEMMA SameEntries ==
  ASSUME NEW d, NEW S,
         \A e : (\E b : HasIn(inode', blk', d, b, e)) <=> e \in S
  PROVE  Entries(inode[d])' = S
<1>1. \A e : e \in Entries(inode[d])' <=> \E b : HasIn(inode', blk', d, b, e)
  BY EntriesIn
<1>2. QED
  BY <1>1

\* What HasIn says of blocks, said of entries.
LEMMA EntriesStayIn ==
  ASSUME \A d \in Dirs : \A b, e : HasIn(inode', blk', d, b, e) <=> HasIn(inode, blk, d, b, e)
  PROVE  EntriesStay
<1> SUFFICES ASSUME NEW d \in Dirs
             PROVE  Entries(inode[d])' = Entries(inode[d])
  BY DEF EntriesStay
<1>1. \A e : (\E b : HasIn(inode', blk', d, b, e)) <=> e \in Entries(inode[d])
  BY EntriesIn
<1>2. QED
  BY <1>1, SameEntries

\* One entry more in a block is one more among the entries.
LEMMA EntryJoinsIn ==
  ASSUME NEW D, NEW b0, NEW e0, OneMore(D, b0, e0), D = op.dir, e0 = NewEntry
  PROVE  EntryJoins
<1> SUFFICES ASSUME NEW d \in Dirs
             PROVE  Entries(inode[d])' = Entries(inode[d]) \cup (IF d = op.dir THEN {NewEntry} ELSE {})
  BY DEF EntryJoins
<1> DEFINE S == Entries(inode[d]) \cup (IF d = D THEN {e0} ELSE {})
<1>1. ASSUME NEW e
      PROVE  (\E b : HasIn(inode', blk', d, b, e)) <=> e \in S
  <2>1. (\E b : HasIn(inode', blk', d, b, e)) <=>
          (\E b : HasIn(inode, blk, d, b, e)) \/ (d = D /\ e = e0)
    BY DEF OneMore
  <2>2. e \in Entries(inode[d]) <=> \E b : HasIn(inode, blk, d, b, e)
    BY EntriesIn
  <2>3. QED
    BY <2>1, <2>2
<1> HIDE DEF S
<1>2. Entries(inode[d])' = S
  BY <1>1, SameEntries
<1>3. QED
  BY <1>2 DEF S

\* One entry less in a block, the only one that had it, is one less among the entries.
LEMMA EntryLeavesIn ==
  ASSUME NEW D, NEW b0, NEW e0, OneLess(D, b0, e0), OnlyEntry(D, b0, e0), D = op.dir, e0 = NewEntry
  PROVE  EntryLeaves
<1> SUFFICES ASSUME NEW d \in Dirs
             PROVE  Entries(inode[d])' = Entries(inode[d]) \ (IF d = op.dir THEN {NewEntry} ELSE {})
  BY DEF EntryLeaves
<1> DEFINE S == Entries(inode[d]) \ (IF d = D THEN {e0} ELSE {})
<1>1. ASSUME NEW e
      PROVE  (\E b : HasIn(inode', blk', d, b, e)) <=> e \in S
  <2>1. (\E b : HasIn(inode', blk', d, b, e)) <=>
          (\E b : HasIn(inode, blk, d, b, e)) /\ ~(d = D /\ e = e0)
    BY DEF OneLess, OnlyEntry
  <2>2. e \in Entries(inode[d]) <=> \E b : HasIn(inode, blk, d, b, e)
    BY EntriesIn
  <2>3. QED
    BY <2>1, <2>2
<1> HIDE DEF S
<1>2. Entries(inode[d])' = S
  BY <1>1, SameEntries
<1>3. QED
  BY <1>2 DEF S

KeepsOp == /\ op'.cmd = op.cmd /\ op'.dir = op.dir /\ op'.goal = op.goal
           /\ op'.mine.size = op.mine.size
\* An operation keeps its directory and its goal, or is over.
LEMMA LocalsStay ==
  ASSUME Rooted, Growing, op' = NoOp \/ (KeepsOp /\ (Creating => op.dir \in Named'))
  PROVE  Rooted' /\ Growing'
<1>1. CASE op' = NoOp
  BY <1>1 DEF NoOp, Rooted, Growing, Creating
<1>2. CASE KeepsOp /\ (Creating => op.dir \in Named')
  BY <1>2 DEF KeepsOp, Rooted, Growing, Creating
<1>3. QED
  BY <1>1, <1>2

\* What the steps do to the locals of an operation.
LocalsMove ==
  \/ op' = NoOp \/ op' = op
  \/ \E p : op' = [op EXCEPT !.new = p]
  \/ \E p : op' = [op EXCEPT !.want = p]
  \/ \E p : op' = [op EXCEPT !.todo = p]
  \/ \E p : op' = [op EXCEPT !.ino = p]
  \/ \E p : op' = [op EXCEPT !.logical = p]
  \/ op' = NextLogical(op)
  \/ op' = Delivered(op)
  \/ \E l, p : op' = NextLogical([op EXCEPT !.mine.direct[l] = p])
  \/ \E l, p : op' = [op EXCEPT !.parent.direct[l] = p, !.parent.size = @ + 1]
\* None of it changes the command, its directory, its goal or the size it started from.
LEMMA LocalsKept ==
  ASSUME TypeOK, LocalsMove
  PROVE  op' = NoOp \/ KeepsOp
<1>0. op \in Operation /\ op.mine \in InodeRecord
  BY DEF TypeOK, Operation
<1>1. CASE op' = NoOp \/ op' = op
  BY <1>1 DEF KeepsOp
<1>2. CASE \/ \E p : op' = [op EXCEPT !.new = p]
           \/ \E p : op' = [op EXCEPT !.want = p]
           \/ \E p : op' = [op EXCEPT !.todo = p]
  BY <1>0, <1>2 DEF Operation, KeepsOp
<1>3. CASE \/ \E p : op' = [op EXCEPT !.ino = p]
           \/ \E p : op' = [op EXCEPT !.logical = p]
           \/ op' = NextLogical(op)
  BY <1>0, <1>3 DEF Operation, KeepsOp, NextLogical
<1>4. CASE op' = Delivered(op)
  BY <1>0, <1>4 DEF Operation, KeepsOp, Delivered, InodeRecord
<1>5. CASE \E l, p : op' = NextLogical([op EXCEPT !.mine.direct[l] = p])
  <2>1. PICK l, p : op' = NextLogical([op EXCEPT !.mine.direct[l] = p])
    BY <1>5
  <2> DEFINE o == [op EXCEPT !.mine.direct[l] = p]
  <2>2. /\ o.cmd = op.cmd /\ o.dir = op.dir /\ o.goal = op.goal /\ o.mine.size = op.mine.size
        /\ o = [op EXCEPT !.mine = [op.mine EXCEPT !.direct[l] = p]]
    BY <1>0 DEF Operation, InodeRecord
  <2>3. op'.cmd = o.cmd /\ op'.dir = o.dir /\ op'.goal = o.goal /\ op'.mine = o.mine
    BY <1>0, <2>1 DEF Operation, NextLogical
  <2>4. QED
    BY <2>2, <2>3 DEF KeepsOp
<1>6. CASE \E l, p : op' = [op EXCEPT !.parent.direct[l] = p, !.parent.size = @ + 1]
  BY <1>0, <1>6 DEF Operation, KeepsOp
<1>7. QED
  BY <1>1, <1>2, <1>3, <1>4, <1>5, <1>6 DEF LocalsMove

\* The tree, the directories' names and the operation stay.
LEMMA StillKept ==
  ASSUME NamesInv, inode' = inode, blk' = blk, Dirs' = Dirs, op' = NoOp \/ KeepsOp
  PROVE  TreeKept /\ DirsStay
<1>1. Orphans' /\ TreeStays /\ Named' = Named
  BY StillTree DEF NamesInv
<1>2. Creating => op.dir \in Named'
  BY <1>1 DEF NamesInv, Rooted
<1>3. Rooted' /\ Growing'
  BY <1>2, LocalsStay DEF NamesInv
<1>4. DirsStay
  <2>1. EntriesStay
    BY EntriesStayIn
  <2>2. QED
    BY <2>1 DEF DirsStay
<1>5. QED
  BY <1>1, <1>3, <1>4 DEF TreeKept, NamesInv, TreeStep

\* The bitmaps and counts of blocks, the counts of inodes.
LEMMA CountsTree ==
  ASSUME Good, NamesInv, NEW ok \in BOOLEAN,
         \/ AllocBlockBitmap(ok) \/ AllocBlockDesc(ok) \/ AllocBlockSuper(ok)
         \/ AllocInodeDesc(ok) \/ AllocInodeSuper(ok) \/ FreeInodeDesc(ok) \/ FreeInodeSuper(ok)
         \/ FreeBlockBitmap(ok) \/ FreeBlockDesc(ok) \/ FreeBlockSuper(ok)
  PROVE  TreeKept /\ DirsStay
<1>0. TypeOK
  BY GoodParts
<1>1. inode' = inode /\ blk' = blk /\ iused' = iused
  BY DEF AllocBlockBitmap, AllocBlockDesc, AllocBlockSuper, AllocInodeDesc, AllocInodeSuper,
     FreeInodeDesc, FreeInodeSuper, FreeBlockBitmap, FreeBlockDesc, FreeBlockSuper
<1>2. \/ op' = NoOp \/ op' = op
      \/ \E p : op' = [op EXCEPT !.new = p]
      \/ \E p : op' = [op EXCEPT !.want = p]
      \/ \E p : op' = [op EXCEPT !.todo = p]
  BY DEF AllocBlockBitmap, AllocBlockDesc, AllocBlockSuper, AllocInodeDesc, AllocInodeSuper,
     FreeInodeDesc, FreeInodeSuper, FreeBlockBitmap, FreeBlockDesc, FreeBlockSuper,
     Proceed, Finish, NextFree
<1>3. op' = NoOp \/ KeepsOp
  BY <1>0, <1>2, LocalsKept DEF LocalsMove
<1>4. Dirs' = Dirs
  BY <1>1 DEF Dirs
<1>5. QED
  BY <1>1, <1>3, <1>4, StillKept

\* The steps in memory.
LEMMA LocalTree ==
  ASSUME Good, NamesInv, Local
  PROVE  TreeKept /\ DirsStay
<1>0. TypeOK
  BY GoodParts
<1>1. inode' = inode /\ blk' = blk /\ iused' = iused
  BY DEF Local, DiskFull, InodesFull, GrowDirectory, WriteAlloc, SetDirect, NeedTable, SkipNull, disk
<1>2. \/ op' = NoOp
      \/ \E p : op' = [op EXCEPT !.want = p]
      \/ \E p : op' = [op EXCEPT !.todo = p]
      \/ \E p : op' = [op EXCEPT !.logical = p]
      \/ \E l, p : op' = NextLogical([op EXCEPT !.mine.direct[l] = p])
  BY DEF Local, DiskFull, InodesFull, GrowDirectory, WriteAlloc, SetDirect, NeedTable, SkipNull,
     Finish, NextFree
<1>3. op' = NoOp \/ KeepsOp
  BY <1>0, <1>2, LocalsKept DEF LocalsMove
<1>4. Dirs' = Dirs
  BY <1>1 DEF Dirs
<1>5. QED
  BY <1>1, <1>3, <1>4, StillKept

\* A failed write, a power loss and a mount change nothing a caller could see.
LEMMA FaultTree ==
  ASSUME Good, NamesInv, WriteLost \/ Crash \/ Mount \/ UNCHANGED vars
  PROVE  TreeKept /\ DirsStay
<1>0. TypeOK
  BY GoodParts
<1>1. inode' = inode /\ blk' = blk /\ iused' = iused
  BY DEF WriteLost, Crash, Mount, disk, vars
<1>2. op' = NoOp \/ op' = op \/ \E p : op' = [op EXCEPT !.todo = p]
  BY DEF WriteLost, Crash, Mount, vars, Finish, NextFree
<1>3. op' = NoOp \/ KeepsOp
  BY <1>0, <1>2, LocalsKept DEF LocalsMove
<1>4. Dirs' = Dirs
  BY <1>1 DEF Dirs
<1>5. QED
  BY <1>1, <1>3, <1>4, StillKept

\* An inode that is marked in use or freed is no directory.
LEMMA InodeBitmapTree ==
  ASSUME Good, NamesInv, NEW ok \in BOOLEAN, AllocInodeBitmap(ok) \/ FreeInodeBitmap(ok)
  PROVE  TreeKept /\ DirsStay
<1>0. TypeOK /\ DiskInv /\ OpInv
  BY GoodParts DEF SafeInv
<1>1. inode' = inode /\ blk' = blk
  BY DEF AllocInodeBitmap, FreeInodeBitmap
<1>2. op' = NoOp \/ op' = op \/ \E p : op' = [op EXCEPT !.ino = p]
  BY DEF AllocInodeBitmap, FreeInodeBitmap, Proceed, Finish
<1>3. op' = NoOp \/ KeepsOp
  BY <1>0, <1>2, LocalsKept DEF LocalsMove
<1>4. Dirs' = Dirs
  <2>1. CASE AllocInodeBitmap(ok)
    <3>1. PICK i \in Inode : i \notin iused /\ iused' = iused \cup {i}
      BY <2>1 DEF AllocInodeBitmap, FirstFreeInode, FreeInodes
    <3>2. inode[i].type # "dir"
      BY <1>0, <3>1 DEF DiskInv, InodesOK
    <3>3. QED
      BY <1>1, <3>1, <3>2 DEF Dirs
  <2>2. CASE FreeInodeBitmap(ok)
    <3>1. pc = "ifree_bitmap" /\ iused' = iused \ {op.ino}
      BY <2>2 DEF FreeInodeBitmap
    <3>2. inode[op.ino].type # "dir"
      BY <1>0, <3>1 DEF OpInv, StageOK, DeleteOK, Freed, Freeing
    <3>3. QED
      BY <1>1, <3>1, <3>2 DEF Dirs
  <2>3. QED
    BY <2>1, <2>2
<1>5. QED
  BY <1>1, <1>3, <1>4, StillKept

\* A request is made in a directory that has a name, and never for less than there is.
LEMMA RequestTree ==
  ASSUME Good, NamesInv, Request
  PROVE  TreeKept /\ DirsStay
<1>1. inode' = inode /\ blk' = blk /\ iused' = iused
  BY DEF Request, Create, WriteFile, DeleteFile, disk
<1>2. Orphans' /\ TreeStays /\ Named' = Named
  <2>1. Dirs' = Dirs
    BY <1>1 DEF Dirs
  <2>2. QED
    BY <1>1, <2>1, StillTree DEF NamesInv
<1>3. ASSUME NEW d, NEW n, NEW cmd, NEW k, cmd # "write", Create(cmd, d, n, k)
      PROVE  Rooted' /\ Growing'
  <2>1. d \in Named /\ op' = [NoOp EXCEPT !.cmd = cmd, !.dir = d, !.name = n, !.goal = k,
                                          !.parent = inode[d]]
    BY <1>3 DEF Create
  <2>2. op'.dir = d /\ op'.cmd = cmd
    BY <2>1 DEF NoOp
  <2>3. QED
    BY <1>2, <1>3, <2>1, <2>2 DEF Rooted, Growing
<1>4. ASSUME NEW d, NEW n, NEW k, WriteFile(d, n, k)
      PROVE  Rooted' /\ Growing'
  <2>1. PICK i : /\ inode[i].size <= k
                 /\ op' = [NoOp EXCEPT !.cmd = "write", !.ino = i, !.goal = k,
                                       !.mine = inode[i], !.logical = inode[i].size]
    BY <1>4 DEF WriteFile
  <2>2. op'.cmd = "write" /\ op'.goal = k /\ op'.mine = inode[i]
    BY <2>1 DEF NoOp
  <2>3. QED
    BY <2>1, <2>2 DEF Rooted, Growing, Creating
<1>5. ASSUME NEW d, NEW n, DeleteFile(d, n)
      PROVE  Rooted' /\ Growing'
  <2>1. PICK i : op' = [NoOp EXCEPT !.cmd = "delete", !.dir = d, !.name = n, !.ino = i,
                                    !.mine = inode[i], !.parent = inode[d]]
    BY <1>5 DEF DeleteFile
  <2>2. op'.cmd = "delete"
    BY <2>1 DEF NoOp
  <2>3. QED
    BY <2>2 DEF Rooted, Growing, Creating
<1>6. Rooted' /\ Growing'
  BY <1>3, <1>4, <1>5 DEF Request
<1>7. DirsStay
  <2>1. Dirs' = Dirs
    BY <1>1 DEF Dirs
  <2>2. EntriesStay
    BY <1>1, EntriesStayIn
  <2>3. QED
    BY <1>1, <2>1, <2>2 DEF DirsStay
<1>8. QED
  BY <1>2, <1>6, <1>7 DEF TreeKept, NamesInv, TreeStep

\* A write to blocks that are no directory's changes nothing of the tree.
LEMMA BlockTree ==
  ASSUME Good, NamesInv, inode' = inode, iused' = iused,
         \A b \in EntryBlocks : blk'[b].ents = blk[b].ents, op' = NoOp \/ KeepsOp
  PROVE  TreeKept /\ DirsStay
<1>0. TypeOK
  BY GoodParts
<1>1. Dirs' = Dirs
  BY DEF Dirs
<1>2. Named' = Named
  BY <1>1, NamesStay
<1>3. \A d \in Dirs : \A b \in DirBlocks(inode[d]) : blk'[b].ents = blk[b].ents
  BY <1>0, EntryBlocksType
<1>4. \A d \in Dirs : \A b, e : HasIn(inode', blk', d, b, e) <=> HasIn(inode, blk, d, b, e)
  BY <1>3 DEF HasIn
<1>5. Orphans' /\ TreeStays
  BY <1>1, <1>2, <1>4, QuietTree DEF NamesInv
<1>6. Rooted' /\ Growing'
  BY <1>2, LocalsStay DEF NamesInv, Rooted
<1>7. DirsStay
  BY <1>1, <1>4, EntriesStayIn DEF DirsStay
<1>8. QED
  BY <1>5, <1>6, <1>7 DEF TreeKept, NamesInv, TreeStep

\* No directory has a block that nothing reaches.
LEMMA FreshNoEntries ==
  ASSUME TypeOK, NEW b, Fresh(b)
  PROVE  b \notin EntryBlocks
  BY EntryBlocksType DEF Fresh, Owners

\* A block that nothing reaches is cleared, or becomes a directory's.
LEMMA FreshBlockTree ==
  ASSUME Good, NamesInv, NEW ok \in BOOLEAN, WriteDots(ok) \/ NewDirBlock(ok) \/ AllocBlockZero(ok)
  PROVE  TreeKept /\ DirsStay
<1>0. TypeOK /\ OpInv /\ StageOK
  BY GoodParts
<1>1. inode' = inode /\ iused' = iused
  BY DEF WriteDots, NewDirBlock, AllocBlockZero
<1>2. PICK b \in Block : Fresh(b) /\ \E z : blk' = [blk EXCEPT ![b] = z]
  <2>1. CASE WriteDots(ok) \/ NewDirBlock(ok)
    <3>1. pc \in {"write_dots", "new_dir_block"} /\ \E z : blk' = [blk EXCEPT ![op.phys] = z]
      BY <2>1 DEF WriteDots, NewDirBlock
    <3>2. op.phys \in Block /\ Fresh(op.phys)
      BY <1>0, <3>1 DEF OpInv, StageOK, CreateOK, Creating, BeforeNew, Adding
    <3>3. QED
      BY <3>1, <3>2
  <2>2. CASE AllocBlockZero(ok)
    <3>1. pc = "block_zero" /\ \E z : blk' = [blk EXCEPT ![op.new] = z]
      BY <2>2 DEF AllocBlockZero
    <3>2. op.new \in Block /\ Fresh(op.new)
      BY <1>0, <3>1 DEF OpInv, AllocOK, Untouched
    <3>3. QED
      BY <3>1, <3>2
  <2>3. QED
    BY <2>1, <2>2
<1>3. \A c \in EntryBlocks : blk'[c].ents = blk[c].ents
  <2>1. b \notin EntryBlocks
    BY <1>0, <1>2, FreshNoEntries
  <2>2. QED
    BY <1>0, <1>2, <2>1, EntryBlocksType DEF TypeOK
<1>4. LocalsMove
  BY DEF WriteDots, NewDirBlock, AllocBlockZero, Proceed, Finish, LocalsMove
<1>5. QED
  BY <1>0, <1>1, <1>3, <1>4, LocalsKept, BlockTree

\* A pointer is no entry.
LEMMA PointerTree ==
  ASSUME Good, NamesInv, NEW ok \in BOOLEAN, SetIndirect(ok) \/ LinkChild(ok)
  PROVE  TreeKept /\ DirsStay
<1>0. TypeOK
  BY GoodParts
<1>1. inode' = inode /\ iused' = iused
  BY DEF SetIndirect, LinkChild
<1>2. PICK t, k, p : blk' = [blk EXCEPT ![t].table[k] = p]
  <2>1. CASE SetIndirect(ok)
    BY <2>1 DEF SetIndirect
  <2>2. CASE LinkChild(ok)
    BY <2>2 DEF LinkChild
  <2>3. QED
    BY <2>1, <2>2
<1>3. \A c \in Block : blk'[c].ents = blk[c].ents
  BY <1>0, <1>2 DEF TypeOK, BlockRecord
<1>4. \A c \in EntryBlocks : blk'[c].ents = blk[c].ents
  BY <1>0, <1>3, EntryBlocksType
<1>5. LocalsMove
  BY DEF SetIndirect, LinkChild, Proceed, Finish, LocalsMove
<1>6. QED
  BY <1>0, <1>1, <1>4, <1>5, LocalsKept, BlockTree

\* Data goes into a block of the file being written, which no directory has.
LEMMA DataTree ==
  ASSUME Good, NamesInv, NEW ok \in BOOLEAN, WriteData(ok)
  PROVE  TreeKept /\ DirsStay
<1> DEFINE x == BlockOf(op.mine, op.logical)
<1>0. /\ TypeOK /\ SafeInv /\ op.cmd = "write" /\ op.mine \in InodeRecord
      /\ op.logical \in Nat /\ op.logical < LargestFile
  <2>1. op.goal \in 0 .. LargestFile /\ op.logical < op.goal /\ op.logical \in Nat
    BY GoodParts DEF WriteData, TypeOK, Operation, LocalsOK, Filling
  <2>2. QED
    BY <2>1, GoodParts, Records DEF WriteData, TypeOK, Operation, LocalsOK, Filling
<1>1. inode' = inode /\ iused' = iused /\ \E z : blk' = [blk EXCEPT ![x] = z]
  BY DEF WriteData
<1>2. x \in RefsIn(blk, op.mine) \cup {Null}
  BY <1>0, BlockOfRefs
<1> HIDE DEF x
<1>3. x \notin EntryBlocks
  BY <1>0, <1>2, MineApart, EntryBlocksType, NotNull
<1>4. \A c \in EntryBlocks : blk'[c].ents = blk[c].ents
  BY <1>0, <1>1, <1>3, EntryBlocksType DEF TypeOK
<1>5. LocalsMove
  BY DEF WriteData, Proceed, Finish, LocalsMove
<1>6. QED
  BY <1>0, <1>1, <1>4, <1>5, LocalsKept, BlockTree

\* The size of the file being written, in one write of its inode.
LEMMA SizeTree ==
  ASSUME Good, NamesInv, NEW ok \in BOOLEAN, WriteSize(ok)
  PROVE  TreeKept /\ DirsStay
<1>0. /\ TypeOK /\ op.cmd = "write" /\ op.mine \in InodeRecord /\ op.ino \in Named
      /\ inode[op.ino].type = "file" /\ op.mine.type = "file" /\ op.ino \in Inode
      /\ op.goal \in Nat /\ op.mine.size = inode[op.ino].size /\ op.ino \notin Dirs
  <2>1. pc = "write_data" /\ TypeOK /\ LocalsOK /\ OpInv /\ MineOK
    BY GoodParts DEF WriteSize
  <2>2. op.cmd = "write"
    BY <2>1 DEF LocalsOK, Filling
  <2>3. /\ op.goal \in 0 .. LargestFile /\ op.mine.type = "file" /\ op.ino \in Inode
        /\ op.ino \in Named /\ inode[op.ino].type = "file" /\ op.mine.size = inode[op.ino].size
    BY <2>1, <2>2 DEF LocalsOK, OpInv, WriteOK, MineOK, MineTree
  <2>4. QED
    BY <2>1, <2>2, <2>3, Records DEF Dirs, TypeOK, Operation
<1>1. inode' = [inode EXCEPT ![op.ino] = [op.mine EXCEPT !.size = op.goal]]
  BY DEF WriteSize
<1>2. blk' = blk /\ iused' = iused /\ op' = NoOp
  BY DEF WriteSize, Finish
<1> DEFINE r == [op.mine EXCEPT !.size = op.goal]
<1>3. r.type = "file" /\ r.size = op.goal
  BY <1>0 DEF InodeRecord
<1> HIDE DEF r
<1>4. inode'[op.ino] = r /\ \A i \in Inode : i # op.ino => inode'[i] = inode[i]
  BY <1>0, <1>1 DEF TypeOK, r
<1>5. Dirs' = Dirs
  BY <1>0, <1>2, <1>3, <1>4 DEF Dirs, TypeOK
<1>6. \A d \in Dirs : inode'[d] = inode[d]
  BY <1>0, <1>4 DEF Dirs, TypeOK
<1>7. Named' = Named
  BY <1>2, <1>5, <1>6, NamesStay
<1>8. inode[op.ino].size \in Nat /\ inode[op.ino].size <= op.goal
  BY <1>0, Records DEF TypeInv, NamesInv, Growing, InodeRecord
<1>9. \A i \in Named : i # op.ino => inode'[i] = inode[i]
  BY <1>4, GoodParts DEF DiskInv, InodesOK, TypeOK
<1>10. PICK o \in Named : o = op.ino
  BY <1>0
<1>11. /\ inode[o].type = "file" /\ inode'[o].type = "file" /\ inode'[o].size \in Nat
       /\ inode[o].size \in Nat /\ inode[o].size <= inode'[o].size
       /\ \A i \in Named : i # o => inode'[i] = inode[i]
  BY <1>0, <1>3, <1>4, <1>8, <1>9, <1>10
<1>12. Orphans' /\ TreeStep
  BY <1>2, <1>5, <1>6, <1>7, <1>11, ResizeTree DEF NamesInv
<1>13. Rooted' /\ Growing'
  BY <1>2, LocalsStay DEF NamesInv
<1>14. DirsStay
  <2>1. \A d \in Dirs : \A b, e : HasIn(inode', blk', d, b, e) <=> HasIn(inode, blk, d, b, e)
    BY <1>2, <1>6 DEF HasIn
  <2>2. QED
    BY <1>5, <1>6, <2>1, EntriesStayIn DEF DirsStay
<1>15. QED
  BY <1>12, <1>13, <1>14 DEF TreeKept, NamesInv

\* The inode of what has no name: cleared, or made for a new one. A new directory is empty.
LEMMA NamelessTree ==
  ASSUME Good, NamesInv, NEW ok \in BOOLEAN, ClearInode(ok) \/ WriteNewInode(ok)
  PROVE  TreeKept /\ DirsStay
<1>0. TypeOK /\ OpInv /\ StageOK /\ LocalsOK /\ DiskInv
  BY GoodParts
<1>1. blk' = blk /\ iused' = iused
  BY DEF ClearInode, WriteNewInode
<1>2. PICK rec : inode' = [inode EXCEPT ![op.ino] = rec] /\
        (rec.type = "dir" => rec.links = 2 /\ \A b \in DirBlocks(rec) : blk[b].ents = {})
  <2>1. CASE ClearInode(ok)
    <3>1. inode' = [inode EXCEPT ![op.ino] = ZeroInode]
      BY <2>1 DEF ClearInode
    <3>2. ZeroInode.type # "dir"
      BY DEF ZeroInode
    <3>3. QED
      BY <3>1, <3>2
  <2>2. CASE WriteNewInode(ok) /\ op.cmd = "mkdir"
    <3>1. pc = "write_new" /\ inode' = [inode EXCEPT ![op.ino] = DirInode(op.phys)]
      BY <2>2 DEF WriteNewInode
    <3>2. op.phys \in Block /\ blk[op.phys] = [ZeroBlock EXCEPT !.up = op.dir]
      BY <1>0, <2>2, <3>1 DEF OpInv, CreateOK, Creating
    <3>3. blk[op.phys].ents = {} /\ blk[op.phys].table = ZeroTable
      BY <3>2 DEF ZeroBlock
    <3>4. DirBlocks(DirInode(op.phys)) = {op.phys}
      BY <3>3, NewInodeRefs
    <3>5. DirInode(op.phys).links = 2
      BY DEF DirInode, ZeroInode
    <3>6. QED
      BY <3>1, <3>3, <3>4, <3>5
  <2>3. CASE WriteNewInode(ok) /\ op.cmd # "mkdir"
    <3>1. inode' = [inode EXCEPT ![op.ino] = FileInode]
      BY <2>3 DEF WriteNewInode
    <3>2. FileInode.type # "dir"
      BY DEF FileInode, ZeroInode
    <3>3. QED
      BY <3>1, <3>2
  <2>4. QED
    BY <2>1, <2>2, <2>3
<1>3. op.ino \notin Owners /\ op.ino \in Inode
  <2>1. CASE ClearInode(ok)
    <3>1. pc = "free_bitmap"
      BY <2>1 DEF ClearInode
    <3>2. QED
      BY <1>0, <3>1 DEF OpInv, StageOK, DeleteOK, LocalsOK, Freed, Freeing
  <2>2. CASE WriteNewInode(ok)
    <3>1. pc = "write_new"
      BY <2>2 DEF WriteNewInode
    <3>2. QED
      BY <1>0, <3>1 DEF OpInv, StageOK, CreateOK, LocalsOK, Creating, BeforeNew, Naming, Owners, Dirs
  <2>3. QED
    BY <2>1, <2>2
<1>4. inode'[op.ino] = rec /\ \A i \in Inode : i # op.ino => inode'[i] = inode[i]
  BY <1>0, <1>2, <1>3 DEF TypeOK
<1>5. \A i \in Owners : inode'[i] = inode[i] /\ i \in Inode
  BY <1>0, <1>3, <1>4 DEF Owners, DiskInv, InodesOK, TypeOK, Dirs
<1>6. Dirs \subseteq Dirs' /\ \A d \in Dirs' \ Dirs : d = op.ino /\ rec.type = "dir"
  BY <1>0, <1>1, <1>3, <1>4, <1>5 DEF Dirs, Owners, TypeOK
<1>7. \A d \in Dirs' \ Dirs : \A b \in DirBlocks(inode'[d]) : blk'[b].ents = {}
  BY <1>1, <1>2, <1>4, <1>6
<1>8. \A d \in Dirs : \A b, e : HasIn(inode', blk', d, b, e) <=> HasIn(inode, blk, d, b, e)
  BY <1>1, <1>5 DEF HasIn, Owners
<1>9. Named' = Named
  <2>1. \A i : i \in Named' <=> i \in Named
    <3>1. \A d \in Dirs' \ Dirs : \A b, e : ~HasIn(inode', blk', d, b, e)
      BY <1>7 DEF HasIn
    <3>2. QED
      BY <1>6, <1>8, <3>1, NamedIn
  <2>2. QED
    BY <2>1 DEF Named
<1>10. \A i \in Named : Shape(inode'[i]) = Shape(inode[i])
  BY <1>5 DEF Owners
<1>11. Orphans' /\ TreeStays
  BY <1>6, <1>7, <1>8, <1>9, <1>10, QuietTree DEF NamesInv
<1>12. LocalsMove
  BY DEF ClearInode, WriteNewInode, Proceed, Finish, LocalsMove
<1>13. op' = NoOp \/ KeepsOp
  BY <1>0, <1>12, LocalsKept
<1>14. Rooted' /\ Growing'
  BY <1>9, <1>13, LocalsStay DEF NamesInv, Rooted
<1>15. DirsStay
  <2>1. EntriesStay
    BY <1>8, EntriesStayIn
  <2>2. \A d \in Dirs : inode'[d].links = inode[d].links
    BY <1>5 DEF Owners
  <2>3. ASSUME NEW d \in Dirs' \ Dirs
        PROVE  d \notin Named /\ inode'[d].links = 2 /\ Entries(inode[d])' = {}
    <3>1. d = op.ino /\ rec.type = "dir" /\ inode'[d] = rec
      BY <1>4, <1>6, <2>3
    <3>2. \A e : ~\E b : HasIn(inode', blk', d, b, e)
      BY <1>7, <2>3 DEF HasIn
    <3>3. Entries(inode[d])' = {}
      <4>1. \A e : e \notin Entries(inode[d])'
        BY <3>2, EntriesIn
      <4>2. QED
        BY <4>1
    <3>4. QED
      BY <1>2, <1>3, <3>1, <3>3 DEF Owners
  <2>4. QED
    BY <1>6, <2>1, <2>2, <2>3 DEF DirsStay
<1>16. QED
  BY <1>11, <1>14, <1>15 DEF TreeKept, NamesInv, TreeStep

-----------------------------------------------------------------------------
(* The writes that change the tree.                                        *)

\* A block is one directory's.
LEMMA OneDirectory ==
  ASSUME TypeOK, DiskInv, NEW d \in Dirs, NEW c \in Dirs, NEW b,
         b \in DirBlocks(inode[d]), b \in DirBlocks(inode[c])
  PROVE  d = c
  BY EntryBlocksType DEF DiskInv, BlocksOK, Owners

\* An operation that goes on as it was, or is over, in a directory that keeps its name.
LEMMA NamesGrow ==
  ASSUME NamesInv, Named \subseteq Named', op' = NoOp \/ op' = op
  PROVE  Rooted' /\ Growing'
  BY LocalsStay DEF NamesInv, Rooted, KeepsOp

\* What the entry a creation writes is for: a file or a directory as it was just made.
LEMMA NewEntryIs ==
  ASSUME Good, pc \in Adding
  PROVE  /\ op.dir \in Dirs /\ op.ino # op.dir /\ op.ino \in Inode /\ NewEntry \in Entry
         /\ Shape(inode[op.ino]) \in {Tree!FileNode(0), Tree!DirNode}
         /\ Creating /\ (op.cmd = "create" => inode[op.ino] = FileInode)
<1>0. Creating /\ op.ino \in Inode /\ op.name \in Name /\ OpInv /\ TypeOK
  BY GoodParts DEF LocalsOK, Naming, Adding, Creating
<1>1. /\ op.dir \in Dirs /\ op.ino # op.dir
      /\ IF op.cmd = "create" THEN inode[op.ino] = FileInode ELSE op.ino \in Dirs
  BY <1>0 DEF OpInv, CreateOK, Creating, Adding
<1>2. NewEntry \in Entry
  BY <1>0 DEF NewEntry, Entry
<1>3. Shape(FileInode) = Tree!FileNode(0)
  BY DEF Shape, Tree!FileNode, FileInode, ZeroInode
<1>4. op.ino \in Dirs => Shape(inode[op.ino]) = Tree!DirNode
  BY DEF Dirs, Shape, Tree!DirNode
<1>5. QED
  BY <1>0, <1>1, <1>2, <1>3, <1>4

\* The new entry, in a block of its directory: AddName.
LEMMA AddEntryTree ==
  ASSUME Good, NamesInv, NEW ok \in BOOLEAN, AddEntry(ok)
  PROVE  TreeKept /\ EntryJoins /\ Dirs' = Dirs
<1>0. /\ TypeOK /\ DiskInv /\ OpInv /\ inode' = inode /\ iused' = iused /\ pc = "add_entry"
      /\ pc \in Adding
  BY GoodParts DEF AddEntry, Adding
<1>1. /\ op.dir \in Dirs /\ op.ino \in Inode /\ NewEntry \in Entry /\ Creating
      /\ Shape(inode[op.ino]) \in {Tree!FileNode(0), Tree!DirNode}
  BY <1>0, NewEntryIs
<1>2. op.ino \notin Named /\ op.parent = inode[op.dir] /\ NewName(op.dir) /\ op.dir \in Named
  BY <1>0, <1>1 DEF OpInv, CreateOK, Creating, NamesInv, Rooted
<1>3. PICK b0 \in DirBlocks(inode[op.dir]) : blk' = [blk EXCEPT ![b0].ents = @ \cup {NewEntry}]
  BY <1>2 DEF AddEntry, Rooms, DirBlocks
<1>4. PICK e0 \in Entry, D \in Dirs : e0 = NewEntry /\ D = op.dir
  BY <1>1
<1>5. e0.ino = op.ino /\ e0.name = op.name
  BY <1>4 DEF NewEntry
<1>6. /\ D \in Named /\ e0.ino \notin Named /\ b0 \in DirBlocks(inode[D])
      /\ \A c \in DirBlocks(inode[D]) : \A e \in blk[c].ents : e.name # e0.name
      /\ blk' = [blk EXCEPT ![b0].ents = @ \cup {e0}]
      /\ Shape(inode[e0.ino]) \in {Tree!FileNode(0), Tree!DirNode}
  BY <1>1, <1>2, <1>3, <1>4, <1>5 DEF NewName
<1>7. \A c \in Block : blk'[c].ents = IF c = b0 THEN blk[c].ents \cup {e0} ELSE blk[c].ents
  BY <1>0, <1>6 DEF TypeOK, BlockRecord
<1>8. OneMore(D, b0, e0)
  <2>1. \A d \in Dirs : DirBlocks(inode[d]) \subseteq Block /\ (b0 \in DirBlocks(inode[d]) => d = D)
    BY <1>0, <1>6, EntryBlocksType, OneDirectory
  <2>2. QED
    BY <1>0, <1>6, <1>7, <2>1 DEF HasIn, OneMore
<1>9. Dirs' = Dirs
  BY <1>0 DEF Dirs
<1>10. \A i : Shape(inode'[i]) = Shape(inode[i])
  BY <1>0
<1>11. Orphans /\ InodesOK
  BY <1>0 DEF NamesInv, DiskInv
<1>12. Orphans' /\ Tree!Next /\ Named' = Named \cup {e0.ino}
  BY <1>0, <1>6, <1>8, <1>9, <1>10, <1>11, AddTree
<1>13. Rooted' /\ Growing'
  <2>1. op' = NoOp \/ op' = op
    BY DEF AddEntry, Proceed, Finish
  <2>2. QED
    BY <1>12, <2>1, NamesGrow
<1>14. EntryJoins
  BY <1>4, <1>8, EntryJoinsIn
<1>15. QED
  BY <1>9, <1>12, <1>13, <1>14 DEF TreeKept, TreeStep, NamesInv

\* The blocks of a directory that names one more.
LEMMA GrownBlocks ==
  ASSUME NEW rec \in InodeRecord, rec.size < NDirect, NEW b, NEW r,
         r.direct = [rec.direct EXCEPT ![rec.size] = b], r.size = rec.size + 1
  PROVE  DirBlocks(r) = DirBlocks(rec) \cup {b}
<1>1. PICK s \in Nat : s = rec.size
  BY Records DEF InodeRecord
<1>2. rec.direct \in [0 .. NDirect - 1 -> Ptr] /\ 0 .. s \subseteq 0 .. NDirect - 1
  BY <1>1, Ext2Assumption DEF InodeRecord
<1>3. \A l \in 0 .. s : r.direct[l] = IF l = s THEN b ELSE rec.direct[l]
  BY <1>1, <1>2
<1>4. 0 .. r.size - 1 = (0 .. s - 1) \cup {s} /\ s \notin 0 .. s - 1 /\ 0 .. s - 1 \subseteq 0 .. s
  BY <1>1
<1>5. DirBlocks(r) = {r.direct[l] : l \in (0 .. s - 1) \cup {s}}
  BY <1>4 DEF DirBlocks
<1>6. (\A l \in 0 .. s - 1 : r.direct[l] = rec.direct[l]) /\ r.direct[s] = b
  BY <1>1, <1>3, <1>4
<1>7. DirBlocks(rec) = {rec.direct[l] : l \in 0 .. s - 1}
  BY <1>1 DEF DirBlocks
<1>8. QED
  BY <1>5, <1>6, <1>7

\* The directory's inode: AddName when it grew by the block with the entry, else only a
\* link count changes, which the tree does not have.
LEMMA ParentTree ==
  ASSUME Good, NamesInv, NEW ok \in BOOLEAN, WriteParent(ok)
  PROVE  /\ TreeKept /\ Dirs' = Dirs
         /\ IF op.parent = inode[op.dir] THEN EntriesStay ELSE EntryJoins /\ op.ino \notin Named
<1> DEFINE L == IF op.cmd = "mkdir" THEN [op.parent EXCEPT !.links = @ + 1] ELSE op.parent
<1>0. /\ TypeOK /\ DiskInv /\ OpInv /\ blk' = blk /\ iused' = iused /\ bused' = bused
      /\ pc = "write_parent" /\ pc \in Adding /\ inode' = [inode EXCEPT ![op.dir] = L]
      /\ op.parent \in InodeRecord
  BY GoodParts DEF WriteParent, Adding, TypeOK, Operation
<1>1. /\ op.dir \in Dirs /\ op.ino # op.dir /\ op.ino \in Inode /\ NewEntry \in Entry /\ Creating
      /\ Shape(inode[op.ino]) \in {Tree!FileNode(0), Tree!DirNode}
      /\ op.cmd = "create" => inode[op.ino] = FileInode
  BY <1>0, NewEntryIs
<1>2. ((op.parent = inode[op.dir] /\ op.ino \in Named) \/ Grown) /\ op.dir \in Named
  BY <1>0, <1>1 DEF OpInv, CreateOK, Creating, NamesInv, Rooted
<1>3. /\ L.direct = op.parent.direct /\ L.size = op.parent.size /\ L.type = op.parent.type
  BY <1>0 DEF InodeRecord
<1> HIDE DEF L
<1>4. inode'[op.dir] = L /\ \A i \in Inode : i # op.dir => inode'[i] = inode[i]
  BY <1>0, <1>1 DEF TypeOK, Dirs
<1>5. inode[op.dir].type = "dir" /\ inode[op.dir] \in InodeRecord /\ op.dir \in Inode
  BY <1>0, <1>1 DEF Dirs, TypeOK
<1>6. op.parent.type = "dir"
  BY <1>2, <1>5 DEF Grown, InodeRecord
<1>7. Dirs' = Dirs
  BY <1>0, <1>3, <1>4, <1>5, <1>6 DEF Dirs, TypeOK
<1>8. \A i \in Named : i \in Inode
  BY <1>0 DEF DiskInv, InodesOK, TypeOK
<1>9. \A i \in Named : Shape(inode'[i]) = Shape(inode[i])
  BY <1>3, <1>4, <1>5, <1>6, <1>8 DEF Shape
<1>10. /\ Orphans' /\ TreeStep /\ Named \subseteq Named'
       /\ IF op.parent = inode[op.dir] THEN EntriesStay ELSE EntryJoins /\ op.ino \notin Named
  <2>1. CASE op.parent = inode[op.dir]
    <3>1. \A d \in Dirs : inode'[d].direct = inode[d].direct /\ inode'[d].size = inode[d].size
      BY <1>0, <1>3, <1>4, <2>1 DEF Dirs, TypeOK
    <3>2. Named' = Named
      BY <1>0, <1>7, <3>1, NamesStay
    <3>3. \A d \in Dirs : \A b, e : HasIn(inode', blk', d, b, e) <=> HasIn(inode, blk, d, b, e)
      BY <1>0, <3>1 DEF HasIn, DirBlocks
    <3>4. QED
      BY <1>7, <1>9, <2>1, <3>2, <3>3, QuietTree, EntriesStayIn DEF NamesInv, TreeStep
  <2>2. CASE Grown
    <3>1. PICK e0 \in Entry, D \in Dirs, b0 \in Block : e0 = NewEntry /\ D = op.dir /\ b0 = op.phys
      BY <1>1, <2>2 DEF Grown
    <3>2. e0.ino = op.ino /\ e0.name = op.name
      BY <3>1 DEF NewEntry
    <3>3. /\ D \in Named /\ e0.ino \notin Named /\ Fresh(b0) /\ blk[b0].ents = {e0}
          /\ \A c \in DirBlocks(inode[D]) : \A e \in blk[c].ents : e.name # e0.name
      BY <1>2, <2>2, <3>1, <3>2 DEF Grown, NewName, ZeroBlock
    <3>4. Shape(inode'[e0.ino]) \in {Tree!FileNode(0), Tree!DirNode}
      BY <1>1, <1>4, <3>2
    <3>5. DirBlocks(L) = DirBlocks(inode[D]) \cup {b0}
      <4>1. /\ inode[D] \in InodeRecord /\ inode[D].size < NDirect
            /\ op.parent = [inode[D] EXCEPT !.direct[inode[D].size] = b0, !.size = @ + 1]
        BY <1>5, <2>2, <3>1 DEF Grown
      <4>2. L.direct = [inode[D].direct EXCEPT ![inode[D].size] = b0] /\ L.size = inode[D].size + 1
        BY <1>3, <4>1 DEF InodeRecord
      <4>3. QED
        BY <4>1, <4>2, GrownBlocks
    <3>6. OneMore(D, b0, e0)
      <4>1. \A d \in Dirs : b0 \notin DirBlocks(inode[d]) /\ (d # D => inode'[d] = inode[d])
        BY <1>0, <1>4, <3>1, <3>3, FreshNoEntries, EntryBlocksType
      <4>2. inode'[D] = L
        BY <1>4, <3>1
      <4>3. QED
        BY <1>0, <3>3, <3>5, <4>1, <4>2 DEF HasIn, OneMore
    <3>7. Orphans /\ InodesOK
      BY <1>0 DEF NamesInv, DiskInv
    <3>8. Orphans' /\ Tree!Next /\ Named' = Named \cup {e0.ino}
      BY <1>0, <1>7, <1>9, <3>3, <3>4, <3>6, <3>7, AddTree
    <3>9. EntryJoins
      BY <3>1, <3>6, EntryJoinsIn
    <3>10. op.parent # inode[op.dir]
      <4>1. op.parent.size = inode[op.dir].size + 1 /\ inode[op.dir].size \in Nat
        BY <1>5, <2>2, Records DEF Grown, InodeRecord
      <4>2. QED
        BY <4>1
    <3>11. QED
      BY <3>2, <3>3, <3>8, <3>9, <3>10 DEF TreeStep
  <2>3. QED
    BY <1>2, <2>1, <2>2
<1>11. Rooted' /\ Growing'
  <2>1. CASE op' = NoOp
    BY <1>10, <2>1, NamesGrow
  <2>2. CASE op' # NoOp
    <3>1. /\ op' = [NoOp EXCEPT !.cmd = "write", !.ino = op.ino, !.goal = op.goal, !.mine = inode[op.ino]]
          /\ op.goal \in 0 .. LargestFile
      BY <2>2 DEF WriteParent, Proceed, Finish
    <3>2. op'.cmd = "write" /\ op'.mine = inode[op.ino] /\ op'.goal = op.goal
      BY <3>1 DEF NoOp
    <3>3. op.cmd = "create"
      <4>1. op.goal # NoGoal
        BY <3>1, Records DEF NoGoal
      <4>2. QED
        BY <1>1, <4>1, GoodParts DEF LocalsOK, Creating
    <3>4. op'.mine.size = 0 /\ 0 <= op'.goal
      <4>1. FileInode.size = 0
        BY DEF FileInode, ZeroInode
      <4>2. op'.mine = FileInode
        BY <1>1, <3>2, <3>3
      <4>3. 0 <= op'.goal
        BY <3>1, <3>2, Records
      <4>4. QED
        BY <4>1, <4>2, <4>3
    <3>5. QED
      BY <3>2, <3>4 DEF Rooted, Growing, Creating
  <2>3. QED
    BY <2>1, <2>2
<1>12. QED
  BY <1>7, <1>10, <1>11 DEF TreeKept, NamesInv

\* The only entry of the file that is deleted: RemoveName.
LEMMA RemoveEntryTree ==
  ASSUME Good, NamesInv, NEW ok \in BOOLEAN, RemoveEntry(ok)
  PROVE  TreeKept /\ EntryLeaves /\ Dirs' = Dirs
<1>0. /\ TypeOK /\ DiskInv /\ OpInv /\ inode' = inode /\ iused' = iused
      /\ pc = "remove_entry" /\ op.cmd = "delete"
  BY GoodParts DEF RemoveEntry, LocalsOK
<1>1. /\ op.dir \in Dirs /\ op.parent = inode[op.dir] /\ inode[op.ino].type = "file"
  BY <1>0 DEF OpInv, DeleteOK
<1>2. PICK b0 \in DirBlocks(inode[op.dir]) :
        NewEntry \in blk[b0].ents /\ blk' = [blk EXCEPT ![b0].ents = @ \ {NewEntry}]
  BY <1>1 DEF RemoveEntry, DirBlocks
<1>3. PICK D \in Dirs, e0 \in blk[b0].ents : e0 = NewEntry /\ D = op.dir
  BY <1>1, <1>2
<1>4. /\ inode[e0.ino].type = "file" /\ e0.ino # Root /\ HasIn(inode, blk, D, b0, e0)
      /\ blk' = [blk EXCEPT ![b0].ents = @ \ {e0}]
  BY <1>0, <1>1, <1>2, <1>3 DEF NewEntry, DiskInv, InodesOK, Dirs, HasIn
<1>5. b0 \in Block /\ \A d \in Dirs : DirBlocks(inode[d]) \subseteq EntryBlocks /\ EntryBlocks \subseteq Block
  BY <1>0, <1>2, <1>1, EntryBlocksType
<1>6. \A c \in Block : blk'[c].ents = IF c = b0 THEN blk[c].ents \ {e0} ELSE blk[c].ents
  BY <1>0, <1>4 DEF TypeOK, BlockRecord
<1>7. \A d \in Dirs : b0 \in DirBlocks(inode[d]) => d = D
  BY <1>0, <1>4, OneDirectory DEF HasIn
<1>8. OnlyEntry(D, b0, e0)
  <2> SUFFICES ASSUME NEW d \in Dirs, NEW b, NEW e, HasIn(inode, blk, d, b, e), e.ino = e0.ino
               PROVE  d = D /\ b = b0 /\ e = e0
    BY DEF OnlyEntry
  <2>1. b \in EntryBlocks /\ b0 \in EntryBlocks /\ e \in blk[b].ents /\ e0 \in blk[b0].ents
    BY <1>4, <1>5 DEF HasIn
  <2>2. b = b0 /\ e = e0
    BY <1>0, <2>1 DEF DiskInv, EntriesOK
  <2>3. QED
    BY <1>7, <2>2 DEF HasIn
<1>9. OneLess(D, b0, e0)
  BY <1>0, <1>5, <1>6, <1>7 DEF HasIn, OneLess
<1>10. Dirs' = Dirs
  BY <1>0 DEF Dirs
<1>11. Orphans' /\ Tree!Next
  BY <1>0, <1>4, <1>8, <1>9, <1>10, RemoveTree DEF NamesInv
<1>12. op'.cmd \in {"none", "delete"}
  <2>1. CASE ok
    <3>1. op' = [op EXCEPT !.todo = FreeList(op.mine)]
      BY <2>1 DEF RemoveEntry, Proceed
    <3>2. QED
      BY <1>0, <3>1 DEF TypeOK, Operation
  <2>2. CASE ~ok
    BY <2>2 DEF RemoveEntry, Proceed, Finish, NoOp
  <2>3. QED
    BY <2>1, <2>2
<1>13. EntryLeaves
  BY <1>3, <1>8, <1>9, EntryLeavesIn
<1>14. QED
  BY <1>10, <1>11, <1>12, <1>13 DEF TreeKept, TreeStep, NamesInv, Rooted, Growing, Creating

-----------------------------------------------------------------------------
\* The image mkfs makes is the tree of an empty root.
LEMMA InitTree == Init => NamesInv /\ Tree!Init
<1> SUFFICES ASSUME Init PROVE NamesInv /\ Tree!Init
  OBVIOUS
<1>0. Root \in Inode /\ 1 \in Block /\ Root \in iused
  BY Ext2Assumption DEF Init, Root, Inode, Block
<1>1. /\ inode[Root] = DirInode(1) /\ \A i \in Inode : i # Root => inode[i].type = "none"
      /\ DirInode(1).type = "dir" /\ blk[1].ents = {} /\ blk[1].table = ZeroTable
  BY <1>0 DEF Init, DirInode, ZeroInode, ZeroBlock
<1>2. \A d : d \in Dirs <=> d = Root
  BY <1>0, <1>1 DEF Dirs, Init
<1>3. DirBlocks(inode[Root]) = {1}
  BY <1>1, NewInodeRefs
<1>4. \A d \in Dirs : \A b, e : ~HasIn(inode, blk, d, b, e)
  BY <1>1, <1>2, <1>3 DEF HasIn
<1>5. Named = {Root}
  <2>1. \A i : i \in Named <=> i = Root
    BY <1>4, NamedIn
  <2>2. QED
    BY <2>1 DEF Named
<1>6. Orphans
  BY <1>2, <1>5 DEF Orphans
<1>7. TreeEdges = {}
  <2>1. \A x : x \notin TreeEdges
    BY <1>4, <1>6, ArcsAre DEF ArcIn
  <2>2. QED
    BY <2>1
<1>8. Shape(inode[Root]) = Tree!DirNode
  BY <1>1 DEF Shape, Tree!DirNode
<1>9. TreeNodes = [i \in {Root} |-> Tree!DirNode]
  BY <1>5, <1>8, NodesAre
<1>10. Rooted /\ Growing
  BY DEF Init, NoOp, Rooted, Growing, Creating
<1>11. QED
  BY <1>6, <1>7, <1>9, <1>10 DEF NamesInv, Tree!Init

\* Every step of the driver is a step of the tree, or changes nothing of it.
LEMMA StepTree ==
  ASSUME Good, NamesInv, [Next]_vars
  PROVE  TreeKept
<1>1. CASE Request
  BY <1>1, RequestTree
<1>2. CASE Local
  BY <1>2, LocalTree
<1>3. ASSUME NEW ok \in BOOLEAN, Write(ok)
      PROVE  TreeKept
  BY <1>3, CountsTree, InodeBitmapTree, FreshBlockTree, PointerTree, DataTree, SizeTree,
     NamelessTree, AddEntryTree, ParentTree, RemoveEntryTree DEF Write
<1>4. CASE Fault
  BY <1>3, <1>4, FaultTree DEF Fault
<1>5. CASE Mount \/ UNCHANGED vars
  BY <1>5, FaultTree
<1>6. QED
  BY <1>1, <1>2, <1>3, <1>4, <1>5 DEF Next

\* What refinement needs of the driver: directories without a name are empty, a creation
\* runs in a directory with one, and a write never asks for less than the file has.
THEOREM NamesInvariant == Spec => []NamesInv
<1>1. TypeInv /\ SafeInv /\ FileInv /\ NamesInv /\ [Next]_vars => NamesInv'
  BY StepTree DEF Good, TreeKept
<1>2. QED
  BY <1>1, InitTree, TypeInvariant, SafeInvariant, FileInvariant, PTL DEF Spec

\* For every disk and every history of faults: what a mount finds is a tree of names, and
\* every write of ext2.c changes it by one name, by one size or not at all: adding the entry
\* is what creates, removing it is what deletes, the inode write is what resizes.
THEOREM DiskIsATree == Spec => ImplementsTree
<1>1. Init => Tree!Init
  BY InitTree
<1>2. TypeInv /\ SafeInv /\ FileInv /\ NamesInv /\ [Next]_vars => [Tree!Next]_(Tree!vars)
  BY StepTree DEF Good, TreeKept, TreeStep, TreeStays, Tree!vars
<1>3. QED
  BY <1>1, <1>2, TypeInvariant, SafeInvariant, FileInvariant, NamesInvariant, PTL
     DEF Spec, ImplementsTree, Tree!Spec

-----------------------------------------------------------------------------
(* The free counts.                                                        *)

\* No block is twice in what is left to free, and all of it from the first place on is in use.
Apart(t) == \A j, k \in 1 .. Len(t) : t[j] # Null /\ t[j] = t[k] => j = k
InUse(t, U, first) == \A k \in 1 .. Len(t) : first <= k /\ t[k] # Null => t[k] \in U

\* What a deletion has left to free is in use, but for the block it is freeing.
TodoOK ==
  op.cmd = "delete" =>
    /\ pc \in Freeing \cup {"ifree_bitmap"} => op.ino \in iused
    /\ Apart(op.todo)
    /\ InUse(op.todo, bused, IF pc \in {"free_desc", "free_super"} THEN 2 ELSE 1)

\* A block less to free.
LEMMA TailTodo ==
  ASSUME NEW t \in Seq(Ptr), t # <<>>, Apart(t), NEW U, InUse(t, U, 2)
  PROVE  Tail(t) \in Seq(Ptr) /\ Apart(Tail(t)) /\ InUse(Tail(t), U, 1)
<1>1. PICK s \in Seq(Ptr) : s = Tail(t) /\ Len(s) = Len(t) - 1 /\ \A i \in 1 .. Len(s) : s[i] = t[i + 1]
  BY HeadTailProperties
<1>2. Len(t) \in Nat /\ Len(s) \in Nat
  OBVIOUS
<1>3. \A i \in 1 .. Len(s) : i + 1 \in 1 .. Len(t) /\ 2 <= i + 1
  BY <1>1, <1>2
<1>4. Apart(s)
  <2>1. SUFFICES ASSUME NEW j \in 1 .. Len(s), NEW k \in 1 .. Len(s), s[j] # Null, s[j] = s[k]
                 PROVE  j = k
    BY DEF Apart
  <2>2. j + 1 = k + 1
    BY <1>1, <1>3, <2>1 DEF Apart
  <2>3. QED
    BY <2>2
<1>5. InUse(s, U, 1)
  BY <1>1, <1>3 DEF InUse
<1>6. QED
  BY <1>1, <1>4, <1>5

\* The first block to free is freed: the others are in use.
LEMMA HeadFreed ==
  ASSUME NEW t \in Seq(Ptr), t # <<>>, Apart(t), Head(t) # Null, NEW U, InUse(t, U, 1)
  PROVE  Head(t) \in U /\ InUse(t, U \ {Head(t)}, 2)
<1>1. Head(t) = t[1] /\ 1 \in 1 .. Len(t) /\ Len(t) \in Nat
  OBVIOUS
<1>2. t[1] \in U
  BY <1>1 DEF InUse
<1>3. ASSUME NEW k \in 1 .. Len(t), 2 <= k, t[k] # Null
      PROVE  t[k] \in U \ {t[1]}
  <2>1. 1 <= k /\ k # 1
    BY <1>3
  <2>2. t[k] \in U
    BY <1>3, <2>1 DEF InUse
  <2>3. t[k] # t[1]
    BY <1>1, <1>3, <2>1 DEF Apart
  <2>4. QED
    BY <2>2, <2>3
<1>4. QED
  BY <1>1, <1>2, <1>3 DEF InUse

\* A function on 1 .. n is a sequence.
LEMMA FunctionIsSeq ==
  ASSUME NEW S, NEW n \in Nat, NEW f \in [1 .. n -> S]
  PROVE  f \in Seq(S) /\ Len(f) = n
<1>1. f \in Seq(S)
  BY SeqDef
<1>2. DOMAIN f = 1 .. n /\ DOMAIN f = 1 .. Len(f) /\ Len(f) \in Nat
  BY <1>1, LenProperties
<1>3. QED
  BY <1>1, <1>2

\* The pointers a deletion frees are different ones: they form a tree.
LEMMA FreeListApart ==
  ASSUME TypeOK, NEW rec \in InodeRecord, TreeIn(blk, rec)
  PROVE  Apart(FreeList(rec))
<1> DEFINE data == [l \in 1 .. rec.size |-> BlockOf(rec, l - 1)]
           tables == IF rec.dbl = Null THEN <<>>
                     ELSE [k \in 1 .. Pointers |-> blk[rec.dbl].table[k - 1]]
           E(a, k, q) == Edge(blk, rec, a, k, q)
           S == RefsIn(blk, rec) \cup {Null}
<1>1. PICK n \in Nat : n = rec.size
  BY Records DEF InodeRecord
<1>2. \A l \in 1 .. n : Place(l - 1)
  <2>1. \A l \in 0 .. rec.size - 1 : Place(l)
    BY PlaceBelow
  <2>2. \A l \in 1 .. n : l - 1 \in 0 .. rec.size - 1
    BY <1>1
  <2>3. QED
    BY <2>1, <2>2
<1>3. data \in Seq(S) /\ Len(data) = n /\ \A l \in 1 .. n : data[l] = BlockIn(blk, rec, l - 1)
  <2>1. rec.size \in 0 .. LargestFile /\ LargestFile \in Nat
    BY Records DEF InodeRecord
  <2>2. \A l \in 1 .. rec.size : BlockOf(rec, l - 1) \in S
    BY <2>1, BlockOfRefs
  <2>3. data = [l \in 1 .. n |-> BlockOf(rec, l - 1)]
    BY <1>1
  <2>4. \A l \in 1 .. n : data[l] = BlockIn(blk, rec, l - 1)
    BY <2>3, BlockOfIn
  <2>5. data \in [1 .. n -> S]
    BY <1>1, <2>2, <2>3
  <2> HIDE DEF data, S
  <2>6. QED
    BY <2>4, <2>5, FunctionIsSeq
<1>4. PICK m \in Nat : /\ tables \in Seq(S) /\ Len(tables) = m
                       /\ \A k \in 1 .. m : rec.dbl # Null /\ tables[k] = blk[rec.dbl].table[k - 1]
                       /\ m <= Pointers
  <2>1. CASE rec.dbl = Null
    BY <2>1, Ext2Assumption
  <2>2. CASE rec.dbl # Null
    <3>1. \A k \in 1 .. Pointers : blk[rec.dbl].table[k - 1] \in S
      <4>1. KidsIn(blk, rec.dbl) \subseteq S
        BY DEF RefsIn, TablesIn
      <4>2. \A k \in 1 .. Pointers : k - 1 \in 0 .. Pointers - 1
        BY Ext2Assumption
      <4>3. \A k \in 0 .. Pointers - 1 : blk[rec.dbl].table[k] \in KidsIn(blk, rec.dbl) \cup {Null}
        BY <2>2 DEF KidsIn
      <4>4. QED
        BY <4>1, <4>2, <4>3
    <3>2. tables = [k \in 1 .. Pointers |-> blk[rec.dbl].table[k - 1]]
      BY <2>2
    <3> HIDE DEF tables
    <3>3. tables \in Seq(S) /\ Len(tables) = Pointers /\ Pointers \in Nat
          /\ \A k \in 1 .. Pointers : tables[k] = blk[rec.dbl].table[k - 1]
      BY <3>1, <3>2, Ext2Assumption
    <3>4. QED
      BY <2>2, <3>3
  <2>3. QED
    BY <2>1, <2>2
<1>5. rec.ind \in S /\ rec.dbl \in S
  BY DEF RefsIn, TablesIn
<1>6. FreeList(rec) = ((data \o <<rec.ind>>) \o tables) \o <<rec.dbl>>
  BY DEF FreeList
<1> HIDE DEF data, tables, S
<1>7. PICK w : /\ w = FreeList(rec) /\ Len(w) = n + m + 2
               /\ \A i \in 1 .. n : w[i] = data[i]
               /\ w[n + 1] = rec.ind /\ w[n + m + 2] = rec.dbl
               /\ \A i \in 1 .. m : w[n + 1 + i] = tables[i]
  <2>1. PICK T : T = S
    OBVIOUS
  <2>2. PICK d \in Seq(T), t \in Seq(T) : d = data /\ t = tables
    BY <1>3, <1>4, <2>1
  <2>3. PICK p \in T, q \in T : p = rec.ind /\ q = rec.dbl
    BY <1>5, <2>1
  <2>4. Len(d) = n /\ Len(t) = m
    BY <1>3, <1>4, <2>2
  <2> DEFINE v == ((d \o <<p>>) \o t) \o <<q>>
  <2>5. Len(v) = Len(d) + Len(t) + 2
    OBVIOUS
  <2>6. \A i \in 1 .. Len(d) : v[i] = d[i]
    OBVIOUS
  <2>7. v[Len(d) + 1] = p
    OBVIOUS
  <2>8. v[Len(d) + Len(t) + 2] = q
    OBVIOUS
  <2>9. \A i \in 1 .. Len(t) : v[Len(d) + 1 + i] = t[i]
    OBVIOUS
  <2>10. v = FreeList(rec)
    BY <1>6, <2>2, <2>3
  <2> HIDE DEF v
  <2>11. PICK w : w = v
    OBVIOUS
  <2>12. Len(w) = n + m + 2 /\ w[n + 1] = p /\ w[n + m + 2] = q
    BY <2>4, <2>5, <2>7, <2>8, <2>11
  <2>13. (\A i \in 1 .. n : w[i] = d[i]) /\ \A i \in 1 .. m : w[n + 1 + i] = t[i]
    BY <2>4, <2>6, <2>9, <2>11
  <2>14. QED
    BY <2>2, <2>3, <2>10, <2>11, <2>12, <2>13
\* Where the pointers after the data are stored.
<1> DEFINE A(i) == IF i = n + 1 \/ i = n + m + 2 THEN Null ELSE rec.dbl
           K(i) == IF i = n + 1 THEN NDirect ELSE IF i = n + m + 2 THEN NDirect + 1 ELSE i - (n + 2)
<1>8. ASSUME NEW i \in n + 1 .. n + m + 2, w[i] # Null
      PROVE  E(A(i), K(i), w[i]) /\ w[i] \in TablesIn(blk, rec)
  <2>1. CASE i = n + 1
    <3>1. A(i) = Null /\ K(i) = NDirect /\ w[i] = rec.ind
      BY <1>7, <2>1
    <3>2. E(Null, NDirect, rec.ind)
      BY Edges
    <3>3. QED
      BY <1>8, <3>1, <3>2 DEF TablesIn
  <2>2. CASE i = n + m + 2
    <3>1. A(i) = Null /\ K(i) = NDirect + 1 /\ w[i] = rec.dbl
      BY <1>7, <2>2
    <3>2. E(Null, NDirect + 1, rec.dbl)
      BY Edges
    <3>3. QED
      BY <1>8, <3>1, <3>2 DEF TablesIn
  <2>3. CASE i # n + 1 /\ i # n + m + 2
    <3>1. PICK k \in 1 .. m : i = n + 1 + k /\ k - 1 = i - (n + 2) /\ k - 1 \in 0 .. Pointers - 1
      <4>1. i - (n + 1) \in 1 .. m /\ i = n + 1 + (i - (n + 1)) /\ (i - (n + 1)) - 1 = i - (n + 2)
        BY <2>3
      <4>2. \A k \in 1 .. m : k - 1 \in 0 .. Pointers - 1
        BY <1>4, Ext2Assumption
      <4>3. QED
        BY <4>1, <4>2
    <3>2. w[i] = blk[rec.dbl].table[k - 1] /\ rec.dbl # Null
      BY <1>4, <1>7, <3>1
    <3>3. A(i) = rec.dbl /\ K(i) = k - 1
      BY <2>3, <3>1
    <3>4. rec.dbl \in TablesIn(blk, rec)
      BY <3>2 DEF TablesIn
    <3>5. E(rec.dbl, k - 1, blk[rec.dbl].table[k - 1])
      BY <3>1, <3>4, Edges
    <3>6. w[i] \in TablesIn(blk, rec)
      <4>1. w[i] \in KidsIn(blk, rec.dbl)
        BY <1>8, <3>1, <3>2 DEF KidsIn
      <4>2. QED
        BY <1>8, <4>1 DEF TablesIn
    <3>7. QED
      BY <3>2, <3>3, <3>5, <3>6
  <2>4. QED
    BY <2>1, <2>2, <2>3
<1>9. ASSUME NEW i \in n + 1 .. n + m + 2, NEW j \in n + 1 .. n + m + 2, w[i] # Null, w[i] = w[j]
      PROVE  i = j
  <2>1. \A a, b, k, l, q : q # Null /\ E(a, k, q) /\ E(b, l, q) => a = b /\ k = l
    BY TreeEdges2
  <2>2. E(A(i), K(i), w[i]) /\ E(A(j), K(j), w[i])
    BY <1>8, <1>9
  <2>3. A(i) = A(j) /\ K(i) = K(j)
    BY <1>9, <2>1, <2>2
  <2>4. \A k \in n + 1 .. n + m + 2 : k # n + 1 /\ k # n + m + 2 => rec.dbl # Null
    <3>1. ASSUME NEW k \in n + 1 .. n + m + 2, k # n + 1, k # n + m + 2
          PROVE  rec.dbl # Null
      <4>1. k - (n + 1) \in 1 .. m
        BY <3>1
      <4>2. QED
        BY <1>4, <4>1
    <3>2. QED
      BY <3>1
  <2>5. QED
    BY <2>3, <2>4, Ext2Assumption
<1>10. ASSUME NEW i \in 1 .. n, NEW j \in 1 .. n, w[i] # Null, w[i] = w[j]
       PROVE  i = j
  <2>1. PICK l : l = i - 1
    OBVIOUS
  <2>2. PICK k : k = j - 1
    OBVIOUS
  <2>3. Place(l) /\ Place(k) /\ w[i] = BlockIn(blk, rec, l) /\ w[j] = BlockIn(blk, rec, k)
    BY <1>2, <1>3, <1>7, <2>1, <2>2
  <2>4. l = k
    BY <1>10, <2>3, PlacesApart
  <2>5. QED
    BY <2>1, <2>2, <2>4
<1>11. ASSUME NEW i \in 1 .. n, w[i] # Null
       PROVE  w[i] \notin TablesIn(blk, rec)
  <2>1. PICK l : l = i - 1
    OBVIOUS
  <2>2. Place(l) /\ w[i] = BlockIn(blk, rec, l)
    BY <1>2, <1>3, <1>7, <2>1
  <2>3. QED
    BY <1>11, <2>2, PlaceNoTable
<1>12. \A i \in 1 .. n + m + 2 : i \in 1 .. n \/ i \in n + 1 .. n + m + 2
  OBVIOUS
<1>13. Apart(w)
  <2>1. SUFFICES ASSUME NEW j \in 1 .. n + m + 2, NEW k \in 1 .. n + m + 2, w[j] # Null, w[j] = w[k]
                 PROVE  j = k
    BY <1>7 DEF Apart
  <2>2. QED
    BY <1>8, <1>9, <1>10, <1>11, <1>12, <2>1
<1>14. QED
  BY <1>7, <1>13

\* Steps after which the bitmaps are ahead of the counts.
BlockMoves == {"block_desc", "block_super", "free_desc", "free_super"}
InodeMoves == {"inode_desc", "inode_super", "ifree_desc", "ifree_super"}
Moving == BlockMoves \cup InodeMoves
Counters == <<bused, iused, gd, sb, msb>>

\* The steps that change neither a bitmap nor a count, outside a deletion.
Others(ok) ==
  \/ Request \/ DiskFull \/ InodesFull \/ GrowDirectory \/ WriteAlloc \/ SetDirect \/ NeedTable
  \/ AllocBlockZero(ok) \/ WriteDots(ok) \/ WriteNewInode(ok) \/ AddEntry(ok) \/ NewDirBlock(ok)
  \/ WriteParent(ok) \/ SetIndirect(ok) \/ LinkChild(ok) \/ WriteData(ok) \/ WriteSize(ok)

\* They leave the counters alone and begin and end between two changes of them.
LEMMA OthersAre ==
  ASSUME Good, NEW ok \in BOOLEAN, Others(ok)
  PROVE  /\ UNCHANGED Counters /\ pc \notin Moving /\ pc' \notin Moving /\ pc' \notin Freed
         /\ faults' \in {faults, faults + 1} /\ (pc' = "remove_entry" => op'.todo = <<>>)
<1>1. CASE Request
  <2>1. UNCHANGED Counters /\ pc = "idle" /\ faults' = faults
    BY <1>1 DEF Request, Create, WriteFile, DeleteFile, disk, Counters
  <2>2. CASE \E d \in Inode, n \in Name : DeleteFile(d, n)
    <3>1. PICK d \in Inode, n \in Name : DeleteFile(d, n)
      BY <2>2
    <3>2. pc' = "remove_entry"
      BY <3>1 DEF DeleteFile
    <3>3. PICK i : op' = [NoOp EXCEPT !.cmd = "delete", !.dir = d, !.name = n, !.ino = i,
                                      !.mine = inode[i], !.parent = inode[d]]
      BY <3>1 DEF DeleteFile
    <3>4. op'.todo = <<>>
      BY <3>3 DEF NoOp
    <3>5. QED
      BY <2>1, <3>2, <3>4 DEF Moving, BlockMoves, InodeMoves, Freed, Freeing
  <2>3. CASE pc' \in {"inode_bitmap", "write_alloc"}
    BY <2>1, <2>3 DEF Moving, BlockMoves, InodeMoves, Freed, Freeing
  <2>4. QED
    BY <1>1, <2>2, <2>3 DEF Request, Create, WriteFile
<1>2. CASE DiskFull \/ InodesFull \/ GrowDirectory \/ WriteAlloc \/ SetDirect \/ NeedTable
  <2>1. UNCHANGED Counters /\ faults' = faults
    BY <1>2 DEF DiskFull, InodesFull, GrowDirectory, WriteAlloc, SetDirect, NeedTable, disk, Counters
  <2>2. /\ pc \in {"block_bitmap", "inode_bitmap", "add_entry", "write_alloc", "set_block"}
        /\ pc' \in {"idle", "block_bitmap", "write_data", "write_alloc"}
    BY <1>2 DEF DiskFull, InodesFull, GrowDirectory, WriteAlloc, SetDirect, NeedTable, Finish
  <2>3. QED
    BY <2>1, <2>2 DEF Moving, BlockMoves, InodeMoves, Freed, Freeing
<1>3. CASE AllocBlockZero(ok)
  <2>1. UNCHANGED Counters /\ pc = "block_zero" /\ faults' \in {faults, faults + 1}
    BY <1>3 DEF AllocBlockZero, Counters, Count
  <2>2. op.want \in DOMAIN Resume
    BY <2>1, GoodParts DEF LocalsOK, Allocating
  <2>3. pc' \in {"idle", "set_block", "link_child", "write_dots", "new_dir_block"}
    BY <1>3, <2>2 DEF AllocBlockZero, Proceed, Finish, Resume
  <2>4. QED
    BY <2>1, <2>3 DEF Moving, BlockMoves, InodeMoves, Freed, Freeing
<1>4. CASE \/ WriteDots(ok) \/ WriteNewInode(ok) \/ AddEntry(ok) \/ NewDirBlock(ok) \/ WriteParent(ok)
           \/ SetIndirect(ok) \/ LinkChild(ok) \/ WriteData(ok) \/ WriteSize(ok)
  <2>1. UNCHANGED Counters
    BY <1>4 DEF WriteDots, WriteNewInode, AddEntry, NewDirBlock, WriteParent, SetIndirect,
                LinkChild, WriteData, WriteSize, Counters
  <2>2. faults' \in {faults, faults + 1}
    BY <1>4 DEF WriteDots, WriteNewInode, AddEntry, NewDirBlock, WriteParent, SetIndirect,
                LinkChild, WriteData, WriteSize, Count
  <2>3. /\ pc \in {"write_dots", "write_new", "add_entry", "new_dir_block", "write_parent",
                   "set_block", "link_child", "write_data"}
        /\ pc' \in {"idle", "write_new", "add_entry", "write_parent", "write_alloc", "set_block",
                    "write_data"}
    BY <1>4 DEF WriteDots, WriteNewInode, AddEntry, NewDirBlock, WriteParent, SetIndirect,
                LinkChild, WriteData, WriteSize, Proceed, Finish
  <2>4. QED
    BY <2>1, <2>2, <2>3 DEF Moving, BlockMoves, InodeMoves, Freed, Freeing
<1>5. QED
  BY <1>1, <1>2, <1>3, <1>4 DEF Others

\* What the deletion frees is in use, whatever writes fail.
LEMMA TodoStep ==
  ASSUME Good, Good', TodoOK, Next
  PROVE  TodoOK'
<1>0. op.todo \in Seq(Ptr) /\ StageOK /\ StageOK' /\ TypeOK
  <2>1. op \in Operation /\ StageOK /\ TypeOK
    BY GoodParts
  <2>2. StageOK'
    BY DEF Good, SafeInv, OpInv
  <2>3. QED
    BY <2>1, <2>2 DEF Operation
<1>1. op'.cmd = "delete" <=> pc' \in {"remove_entry"} \cup Freed
  BY <1>0 DEF StageOK
<1>2. pc \in Freed => op.cmd = "delete"
  BY <1>0 DEF StageOK
<1>3. ASSUME pc \in Freeing, op.todo # <<>>, NextFree, UNCHANGED iused, op.ino \in iused,
             InUse(op.todo, bused', 2), Apart(op.todo)
      PROVE  TodoOK'
  <2>1. pc' = "free_bitmap" /\ op'.todo = Tail(op.todo) /\ op'.ino = op.ino
    BY <1>3, GoodParts DEF NextFree, Operation
  <2>2. Apart(Tail(op.todo)) /\ InUse(Tail(op.todo), bused', 1)
    BY <1>0, <1>3, TailTodo
  <2>3. QED
    BY <1>3, <2>1, <2>2 DEF TodoOK, Apart, InUse
<1>4. pc \in Freeing => /\ op.ino \in iused /\ Apart(op.todo)
                        /\ InUse(op.todo, bused, IF pc \in {"free_desc", "free_super"} THEN 2 ELSE 1)
                        /\ InUse(op.todo, bused, 2)
  BY <1>2 DEF TodoOK, Freed, Freeing, InUse
<1>5. ASSUME NEW ok \in BOOLEAN, Others(ok)
      PROVE  TodoOK'
  <2>1. pc' \notin Freed /\ (pc' = "remove_entry" => op'.todo = <<>>)
    BY <1>5, OthersAre
  <2>2. CASE pc' = "remove_entry"
    <3>1. Apart(op'.todo) /\ \A U : InUse(op'.todo, U, 1)
      BY <2>1, <2>2 DEF Apart, InUse
    <3>2. QED
      BY <2>2, <3>1 DEF TodoOK, Freeing, Apart, InUse
  <2>3. CASE pc' # "remove_entry"
    BY <1>1, <2>1, <2>3 DEF TodoOK
  <2>4. QED
    BY <2>2, <2>3
<1>6. CASE SkipNull
  <2>1. pc = "free_bitmap" /\ op.todo # <<>> /\ NextFree /\ UNCHANGED <<iused, bused>>
    BY <1>6 DEF SkipNull, disk
  <2>2. QED
    BY <1>3, <1>4, <2>1 DEF Freeing
<1>7. ASSUME NEW ok \in BOOLEAN,
             \/ AllocBlockBitmap(ok) \/ AllocBlockDesc(ok) \/ AllocBlockSuper(ok)
             \/ AllocInodeBitmap(ok) \/ AllocInodeDesc(ok) \/ AllocInodeSuper(ok)
      PROVE  TodoOK'
  <2>1. pc' \in {"idle", "block_desc", "block_super", "block_zero", "inode_desc", "inode_super",
                 "block_bitmap", "write_new"}
    BY <1>7 DEF AllocBlockBitmap, AllocBlockDesc, AllocBlockSuper, AllocInodeBitmap, AllocInodeDesc,
                AllocInodeSuper, Proceed, Finish
  <2>2. QED
    BY <1>1, <2>1 DEF TodoOK, Freed, Freeing
<1>8. ASSUME NEW ok \in BOOLEAN, RemoveEntry(ok)
      PROVE  TodoOK'
  <2>1. /\ pc = "remove_entry" /\ Proceed(ok, "free_bitmap", [op EXCEPT !.todo = FreeList(op.mine)])
        /\ UNCHANGED <<bused, iused>>
    BY <1>8 DEF RemoveEntry
  <2>2. CASE ok
    <3>1. pc' = "free_bitmap" /\ op' = [op EXCEPT !.todo = FreeList(op.mine)]
      BY <2>1, <2>2 DEF Proceed
    <3>2. op'.todo = FreeList(op.mine) /\ op'.ino = op.ino
      BY <3>1, GoodParts DEF Operation
    <3>3. op.ino \in Named /\ op.mine = inode[op.ino]
      BY <1>0, <2>1, GoodParts DEF StageOK, OpInv, DeleteOK
    <3>4. PICK i \in Inode : i = op.ino /\ i \in Owners /\ i \in iused
      <4>1. op.ino \in iused
        BY <3>3, GoodParts DEF DiskInv, InodesOK
      <4>2. op.ino \in Inode
        BY <1>0, <4>1 DEF TypeOK
      <4>3. QED
        BY <3>3, <4>1, <4>2 DEF Owners
    <3>5. inode[i] \in InodeRecord /\ TreeIn(blk, inode[i]) /\ RefsIn(blk, inode[i]) \subseteq bused
      <4>1. TreesOK /\ DiskInv
        BY GoodParts
      <4>2. inode[i] \in InodeRecord
        BY <1>0 DEF TypeOK
      <4>3. QED
        BY <3>4, <4>1, <4>2 DEF TreesOK, DiskInv, BlocksOK, Held
    <3>6. PICK t : t = FreeList(inode[i])
      OBVIOUS
    <3>7. Apart(t)
      BY <1>0, <3>5, <3>6, FreeListApart
    <3>8. t \in Seq(RefsIn(blk, inode[i]) \cup {Null})
      BY <1>0, <3>5, <3>6, FreeListRefs
    <3>9. InUse(t, bused', 1)
      <4>1. \A k \in 1 .. Len(t) : t[k] \in RefsIn(blk, inode[i]) \cup {Null}
        BY <3>8, ElementOfSeq
      <4>2. QED
        BY <2>1, <3>5, <4>1 DEF InUse
    <3>10. op'.todo = t /\ op'.ino \in iused'
      BY <2>1, <3>2, <3>3, <3>4, <3>6
    <3>11. QED
      BY <3>1, <3>7, <3>9, <3>10 DEF TodoOK, Apart, InUse
  <2>3. CASE ~ok
    <3>1. pc' = "idle"
      BY <2>1, <2>3 DEF Proceed, Finish
    <3>2. QED
      BY <1>1, <3>1 DEF TodoOK, Freed, Freeing
  <2>4. QED
    BY <2>2, <2>3
<1>9. ASSUME NEW ok \in BOOLEAN, FreeBlockBitmap(ok)
      PROVE  TodoOK'
  <2>1. /\ pc = "free_bitmap" /\ op.todo # <<>> /\ Head(op.todo) # Null
        /\ bused' = bused \ {Head(op.todo)} /\ UNCHANGED iused
        /\ IF ok THEN pc' = "free_desc" /\ op' = op ELSE NextFree
    BY <1>9 DEF FreeBlockBitmap, Victim
  <2>2. InUse(op.todo, bused, 1) /\ Apart(op.todo) /\ op.ino \in iused
    BY <1>4, <2>1 DEF Freeing
  <2>3. InUse(op.todo, bused', 2)
    BY <1>0, <2>1, <2>2, HeadFreed
  <2>4. CASE ok
    BY <2>1, <2>2, <2>3, <2>4 DEF TodoOK, Apart, InUse
  <2>5. CASE ~ok
    BY <1>3, <2>1, <2>2, <2>3, <2>5 DEF Freeing
  <2>6. QED
    BY <2>4, <2>5
<1>10. ASSUME NEW ok \in BOOLEAN, FreeBlockDesc(ok) \/ FreeBlockSuper(ok)
       PROVE  TodoOK'
  <2>1. /\ pc \in {"free_desc", "free_super"} /\ UNCHANGED <<bused, iused>>
        /\ (pc' = "free_super" /\ op' = op) \/ NextFree
    BY <1>10 DEF FreeBlockDesc, FreeBlockSuper
  <2>2. op.todo # <<>>
    BY <2>1, GoodParts DEF LocalsOK
  <2>3. CASE pc' = "free_super" /\ op' = op
    BY <1>4, <2>1, <2>3 DEF TodoOK, Apart, InUse, Freeing
  <2>4. CASE NextFree
    BY <1>3, <1>4, <2>1, <2>2, <2>4 DEF Freeing
  <2>5. QED
    BY <2>1, <2>3, <2>4
<1>11. ASSUME NEW ok \in BOOLEAN, ClearInode(ok)
       PROVE  TodoOK'
  <2>1. pc = "free_bitmap" /\ pc' = "ifree_bitmap" /\ op' = op /\ UNCHANGED <<bused, iused>>
    BY <1>11 DEF ClearInode
  <2>2. QED
    BY <1>4, <2>1 DEF TodoOK, Apart, InUse, Freeing
<1>12. ASSUME NEW ok \in BOOLEAN, FreeInodeBitmap(ok) \/ FreeInodeDesc(ok) \/ FreeInodeSuper(ok)
       PROVE  TodoOK'
  <2>1. /\ pc \in {"ifree_bitmap", "ifree_desc", "ifree_super"} /\ UNCHANGED bused
        /\ pc' = "idle" \/ (pc' \in {"ifree_desc", "ifree_super"} /\ op' = op)
    BY <1>12 DEF FreeInodeBitmap, FreeInodeDesc, FreeInodeSuper, Proceed, Finish
  <2>2. CASE pc' = "idle"
    BY <1>1, <2>2 DEF TodoOK, Freed, Freeing
  <2>3. CASE pc' \in {"ifree_desc", "ifree_super"} /\ op' = op
    <3>1. op.cmd = "delete"
      BY <1>2, <2>1 DEF Freed
    <3>2. QED
      BY <2>1, <2>3, <3>1 DEF TodoOK, Apart, InUse, Freeing
  <2>4. QED
    BY <2>1, <2>2, <2>3
<1>13. CASE WriteLost
  <2>1. UNCHANGED <<bused, iused>> /\ IF pc \notin Freeing THEN Finish
                                      ELSE IF op.todo # <<>> THEN NextFree
                                      ELSE pc' = "ifree_bitmap" /\ op' = op
    BY <1>13 DEF WriteLost, disk
  <2>2. CASE pc \notin Freeing
    <3>1. pc' = "idle"
      BY <2>1, <2>2 DEF Finish
    <3>2. QED
      BY <1>1, <3>1 DEF TodoOK, Freed, Freeing
  <2>3. CASE pc \in Freeing /\ op.todo # <<>>
    BY <1>3, <1>4, <2>1, <2>3
  <2>4. CASE pc \in Freeing /\ op.todo = <<>>
    <3>1. pc' = "ifree_bitmap" /\ op' = op /\ op.ino \in iused /\ Apart(op.todo)
      BY <1>4, <2>1, <2>4
    <3>2. InUse(op.todo, bused, 1)
      BY <2>4 DEF InUse
    <3>3. QED
      BY <2>1, <3>1, <3>2 DEF TodoOK, Apart, InUse, Freeing
  <2>5. QED
    BY <2>2, <2>3, <2>4
<1>14. CASE Crash \/ Mount
  <2>1. pc' \in {"idle", "down"}
    BY <1>14 DEF Crash, Mount
  <2>2. QED
    BY <1>1, <2>1 DEF TodoOK, Freed, Freeing
<1>15. ASSUME NEW ok \in BOOLEAN, Write(ok)
       PROVE  TodoOK'
  BY <1>5, <1>7, <1>8, <1>9, <1>10, <1>11, <1>12, <1>15 DEF Write, Others
<1>16. CASE Request \/ Local
  BY <1>5, <1>6, <1>16 DEF Local, Others
<1>17. CASE Fault
  BY <1>13, <1>14, <1>15, <1>17 DEF Fault
<1>18. QED
  BY <1>14, <1>15, <1>16, <1>17 DEF Next

\* An operation that is not running frees nothing.
LEMMA InitTodo == Init => TodoOK
  BY DEF Init, TodoOK, NoOp

\* A step of nobody frees nothing.
LEMMA StutterTodo == TodoOK /\ UNCHANGED vars => TodoOK'
  BY DEF vars, TodoOK, Apart, InUse

\* At every step of a deletion, whatever writes have failed: the inode it will release is
\* still in use and so are the blocks it has left to free, each of them once (a write that
\* fails in free_block passes on to the next block, and no block is freed twice).
THEOREM TodoInvariant == Spec => []TodoOK
<1>1. Good /\ Good' /\ TodoOK /\ [Next]_vars => TodoOK'
  BY TodoStep, StutterTodo
<1>2. TypeInv /\ TypeInv' /\ SafeInv /\ SafeInv' /\ FileInv /\ FileInv' /\ TodoOK /\ [Next]_vars
        => TodoOK'
  BY <1>1 DEF Good
<1>3. QED
  BY <1>2, InitTodo, TypeInvariant, SafeInvariant, FileInvariant, PTL DEF Spec

-----------------------------------------------------------------------------
(* What is left of a set, and how far a count may be from it.              *)

Left(S, U) == Cardinality(S \ U)
Within(x, y, f) == x - y \in -f .. f

\* Taking one out of what is left counts one less, if it was there.
LEMMA LeftTaken ==
  ASSUME NEW S, IsFiniteSet(S), NEW U, NEW x
  PROVE  /\ x \in S /\ x \notin U => Left(S, U \cup {x}) = Left(S, U) - 1
         /\ x \notin S => Left(S, U \cup {x}) = Left(S, U)
<1>1. IsFiniteSet(S \ U)
  BY FS_Subset
<1>2. S \ (U \cup {x}) = (S \ U) \ {x}
  OBVIOUS
<1>3. Cardinality((S \ U) \ {x}) = IF x \in S \ U THEN Cardinality(S \ U) - 1 ELSE Cardinality(S \ U)
  BY <1>1, FS_RemoveElement
<1>4. QED
  BY <1>2, <1>3 DEF Left

\* Giving one back counts one more.
LEMMA LeftGiven ==
  ASSUME NEW S, IsFiniteSet(S), NEW U, NEW x
  PROVE  /\ x \in S /\ x \in U => Left(S, U \ {x}) = Left(S, U) + 1
         /\ x \notin S => Left(S, U \ {x}) = Left(S, U)
<1>1. IsFiniteSet(S \ U)
  BY FS_Subset
<1>2. CASE x \in S /\ x \in U
  <2>1. S \ (U \ {x}) = (S \ U) \cup {x}
    BY <1>2
  <2>2. Cardinality((S \ U) \cup {x}) = IF x \in S \ U THEN Cardinality(S \ U) ELSE Cardinality(S \ U) + 1
    BY <1>1, FS_AddElement
  <2>3. QED
    BY <1>2, <2>1, <2>2 DEF Left
<1>3. CASE x \notin S
  <2>1. S \ (U \ {x}) = S \ U
    BY <1>3
  <2>2. QED
    BY <1>3, <2>1 DEF Left
<1>4. QED
  BY <1>2, <1>3

BlocksOf(g) == {b \in Block : BlockGroup(b) = g}
InodesOf(g) == {i \in Inode : InodeGroup(i) = g}

\* The disk and its groups are finite, and what is left in them is a number.
LEMMA LeftType ==
  /\ IsFiniteSet(Block) /\ IsFiniteSet(Inode)
  /\ \A g : IsFiniteSet(BlocksOf(g)) /\ IsFiniteSet(InodesOf(g))
  /\ \A U : Left(Block, U) \in Nat /\ Left(Inode, U) \in Nat
  /\ \A g, U : Left(BlocksOf(g), U) \in Nat /\ Left(InodesOf(g), U) \in Nat
<1>1. IsFiniteSet(Block) /\ IsFiniteSet(Inode)
  BY FS_Interval, Ext2Assumption DEF Block, Inode
<1>2. \A g : BlocksOf(g) \in SUBSET Block /\ InodesOf(g) \in SUBSET Inode
  BY DEF BlocksOf, InodesOf
<1>3. \A g : IsFiniteSet(BlocksOf(g)) /\ IsFiniteSet(InodesOf(g))
  BY <1>1, <1>2, FS_Subset
<1>4. \A S, U : IsFiniteSet(S) => Left(S, U) \in Nat
  <2>1. ASSUME NEW S, NEW U, IsFiniteSet(S)
        PROVE  Left(S, U) \in Nat
    <3>1. IsFiniteSet(S \ U)
      BY <2>1, FS_Subset
    <3>2. QED
      BY <3>1, FS_CardinalityType DEF Left
  <2>2. QED
    BY <2>1
<1>5. QED
  BY <1>1, <1>3, <1>4

\* The counts of CountDrift, as what is left of the disk and of a group.
LEMMA FreeAsLeft ==
  /\ \A g : /\ FreeInGroup(g).blocks = Left(BlocksOf(g), bused)
            /\ FreeInGroup(g).inodes = Left(InodesOf(g), iused)
  /\ FreeInAll.blocks = Left(Block, bused) /\ FreeInAll.inodes = Left(Inode, iused)
<1>1. ASSUME NEW g
      PROVE  /\ {b \in Block \ bused : BlockGroup(b) = g} = BlocksOf(g) \ bused
             /\ {i \in Inode \ iused : InodeGroup(i) = g} = InodesOf(g) \ iused
  BY DEF BlocksOf, InodesOf
<1>2. QED
  BY <1>1 DEF FreeInGroup, FreeInAll, Left

-----------------------------------------------------------------------------
(* The free counts at every step.                                          *)

\* How far the counts are behind the bitmap while a block or an inode moves.
BlockOff(g) ==
  IF pc = "block_desc" /\ BlockGroup(op.new) = g THEN 1
  ELSE IF pc = "free_desc" /\ BlockGroup(Victim) = g THEN -1 ELSE 0
BlockLag ==
  IF pc \in {"block_desc", "block_super"} THEN 1
  ELSE IF pc \in {"free_desc", "free_super"} THEN -1 ELSE 0
InodeOff(g) ==
  IF pc = "inode_desc" /\ InodeGroup(op.ino) = g THEN 1
  ELSE IF pc = "ifree_desc" /\ InodeGroup(op.ino) = g THEN -1 ELSE 0
InodeLag ==
  IF pc \in {"inode_desc", "inode_super"} THEN 1
  ELSE IF pc \in {"ifree_desc", "ifree_super"} THEN -1 ELSE 0

\* The counts of a group, of the superblock in memory and of the one on disk.
BlockCounts ==
  /\ \A g \in Groups : Within(gd[g].blocks, Left(BlocksOf(g), bused) + BlockOff(g), faults)
  /\ Within(msb.blocks, Left(Block, bused), faults)
  /\ Within(sb.blocks, Left(Block, bused) + BlockLag, faults)
InodeCounts ==
  /\ \A g \in Groups : Within(gd[g].inodes, Left(InodesOf(g), iused) + InodeOff(g), faults)
  /\ Within(msb.inodes, Left(Inode, iused), faults)
  /\ Within(sb.inodes, Left(Inode, iused) + InodeLag, faults)
CountInv == BlockCounts /\ InodeCounts

\* The counts are numbers.
LEMMA CountTypes ==
  ASSUME TypeOK
  PROVE  /\ \A g \in Groups : gd[g].blocks \in Int /\ gd[g].inodes \in Int
         /\ msb.blocks \in Int /\ msb.inodes \in Int /\ sb.blocks \in Int /\ sb.inodes \in Int
         /\ faults \in Nat
  BY DEF TypeOK, GroupCounts, FreeCounts

\* A step that leaves blocks alone, and moves none halfway but by a fault.
LEMMA BlockCountsKept ==
  ASSUME TypeOK, BlockCounts, faults' \in {faults, faults + 1}, UNCHANGED bused,
         \A g \in Groups : gd'[g].blocks = gd[g].blocks,
         msb'.blocks \in {msb.blocks, sb.blocks}, sb'.blocks \in {sb.blocks, msb.blocks},
         pc \notin BlockMoves \/ (faults' = faults + 1 /\ UNCHANGED <<msb, sb>>), pc' \notin BlockMoves
  PROVE  BlockCounts'
<1>1. /\ \A g \in Groups : BlockOff(g)' = 0 /\ BlockOff(g) \in {-1, 0, 1}
      /\ BlockLag' = 0 /\ BlockLag \in {-1, 0, 1}
  BY DEF BlockMoves, BlockOff, BlockLag
<1>2. pc \notin BlockMoves => (\A g \in Groups : BlockOff(g) = 0) /\ BlockLag = 0
  BY DEF BlockMoves, BlockOff, BlockLag
<1>3. ASSUME NEW g \in Groups
      PROVE  Within(gd'[g].blocks, Left(BlocksOf(g), bused') + BlockOff(g)', faults')
  <2>1. /\ gd'[g].blocks = gd[g].blocks /\ gd[g].blocks \in Int /\ Left(BlocksOf(g), bused) \in Nat
        /\ faults \in Nat /\ BlockOff(g)' = 0 /\ BlockOff(g) \in {-1, 0, 1}
        /\ pc \notin BlockMoves => BlockOff(g) = 0
        /\ Within(gd[g].blocks, Left(BlocksOf(g), bused) + BlockOff(g), faults)
    BY <1>1, <1>2, CountTypes, LeftType DEF BlockCounts
  <2>2. QED
    BY <2>1 DEF Within
<1>4. /\ msb.blocks \in Int /\ sb.blocks \in Int /\ faults \in Nat /\ Left(Block, bused) \in Nat
      /\ Within(msb.blocks, Left(Block, bused), faults)
      /\ Within(sb.blocks, Left(Block, bused) + BlockLag, faults)
  BY CountTypes, LeftType DEF BlockCounts
<1>5. Within(msb'.blocks, Left(Block, bused'), faults')
  BY <1>1, <1>2, <1>4 DEF Within
<1>6. Within(sb'.blocks, Left(Block, bused') + BlockLag', faults')
  BY <1>1, <1>2, <1>4 DEF Within
<1>7. QED
  BY <1>3, <1>5, <1>6 DEF BlockCounts

\* ... or inodes.
LEMMA InodeCountsKept ==
  ASSUME TypeOK, InodeCounts, faults' \in {faults, faults + 1}, UNCHANGED iused,
         \A g \in Groups : gd'[g].inodes = gd[g].inodes,
         msb'.inodes \in {msb.inodes, sb.inodes}, sb'.inodes \in {sb.inodes, msb.inodes},
         pc \notin InodeMoves \/ (faults' = faults + 1 /\ UNCHANGED <<msb, sb>>), pc' \notin InodeMoves
  PROVE  InodeCounts'
<1>1. /\ \A g \in Groups : InodeOff(g)' = 0 /\ InodeOff(g) \in {-1, 0, 1}
      /\ InodeLag' = 0 /\ InodeLag \in {-1, 0, 1}
  BY DEF InodeMoves, InodeOff, InodeLag
<1>2. pc \notin InodeMoves => (\A g \in Groups : InodeOff(g) = 0) /\ InodeLag = 0
  BY DEF InodeMoves, InodeOff, InodeLag
<1>3. ASSUME NEW g \in Groups
      PROVE  Within(gd'[g].inodes, Left(InodesOf(g), iused') + InodeOff(g)', faults')
  <2>1. /\ gd'[g].inodes = gd[g].inodes /\ gd[g].inodes \in Int /\ Left(InodesOf(g), iused) \in Nat
        /\ faults \in Nat /\ InodeOff(g)' = 0 /\ InodeOff(g) \in {-1, 0, 1}
        /\ pc \notin InodeMoves => InodeOff(g) = 0
        /\ Within(gd[g].inodes, Left(InodesOf(g), iused) + InodeOff(g), faults)
    BY <1>1, <1>2, CountTypes, LeftType DEF InodeCounts
  <2>2. QED
    BY <2>1 DEF Within
<1>4. /\ msb.inodes \in Int /\ sb.inodes \in Int /\ faults \in Nat /\ Left(Inode, iused) \in Nat
      /\ Within(msb.inodes, Left(Inode, iused), faults)
      /\ Within(sb.inodes, Left(Inode, iused) + InodeLag, faults)
  BY CountTypes, LeftType DEF InodeCounts
<1>5. Within(msb'.inodes, Left(Inode, iused'), faults')
  BY <1>1, <1>2, <1>4 DEF Within
<1>6. Within(sb'.inodes, Left(Inode, iused') + InodeLag', faults')
  BY <1>1, <1>2, <1>4 DEF Within
<1>7. QED
  BY <1>3, <1>5, <1>6 DEF InodeCounts

\* A step that changes no bitmap and no count.
LEMMA QuietCounts ==
  ASSUME TypeOK, CountInv, UNCHANGED Counters, faults' \in {faults, faults + 1},
         pc \notin Moving \/ faults' = faults + 1, pc' \notin Moving
  PROVE  CountInv'
<1>1. /\ UNCHANGED <<bused, iused, gd, sb, msb>> /\ pc' \notin BlockMoves /\ pc' \notin InodeMoves
  BY DEF Counters, Moving
<1>2. BlockCounts'
  BY <1>1, BlockCountsKept DEF CountInv, Counters, Moving
<1>3. InodeCounts'
  BY <1>1, InodeCountsKept DEF CountInv, Counters, Moving
<1>4. QED
  BY <1>2, <1>3 DEF CountInv

\* What Good says of the counts.
LEMMA GoodCounts ==
  ASSUME Good
  PROVE  /\ TypeOK /\ faults \in Nat /\ msb \in FreeCounts /\ sb \in FreeCounts
         /\ gd \in [Groups -> GroupCounts] /\ op \in Operation
  BY GoodParts DEF TypeOK

\* allocate_block marks the bitmap and counts in memory.
LEMMA TakeBlock ==
  ASSUME Good, CountInv, NEW ok \in BOOLEAN, AllocBlockBitmap(ok)
  PROVE  CountInv'
<1>1. PICK b \in Block : /\ b \in Block /\ b \notin bused /\ bused' = bused \cup {b}
                         /\ Proceed(ok, "block_desc", [op EXCEPT !.new = b])
  BY DEF AllocBlockBitmap, FirstFreeBlock, FreeBlocks
<1>2. /\ pc = "block_bitmap" /\ UNCHANGED <<iused, gd, sb>>
      /\ msb' = (IF ok THEN [msb EXCEPT !.blocks = @ - 1] ELSE msb)
      /\ faults' = (IF ok THEN faults ELSE faults + 1)
  BY DEF AllocBlockBitmap, Count
<1>3. /\ msb'.inodes = msb.inodes /\ faults \in Nat /\ op \in Operation /\ TypeOK
      /\ msb'.blocks = IF ok THEN msb.blocks - 1 ELSE msb.blocks
  BY <1>2, GoodCounts DEF FreeCounts
<1>4. IF ok THEN pc' = "block_desc" /\ op'.new = b ELSE pc' = "idle"
  BY <1>1, <1>3 DEF Proceed, Finish, Operation
<1>5. InodeCounts'
  BY <1>2, <1>3, <1>4, InodeCountsKept DEF CountInv, InodeMoves
<1>6. /\ BlockLag = 0 /\ BlockLag' = (IF ok THEN 1 ELSE 0)
      /\ \A g : BlockOff(g) = 0 /\ BlockOff(g)' = (IF ok /\ BlockGroup(b) = g THEN 1 ELSE 0)
  BY <1>2, <1>4 DEF BlockLag, BlockOff
<1>7. ASSUME NEW g \in Groups
      PROVE  Within(gd'[g].blocks, Left(BlocksOf(g), bused') + BlockOff(g)', faults')
  <2>1. b \in BlocksOf(g) <=> BlockGroup(b) = g
    BY <1>1 DEF BlocksOf
  <2>2. Left(BlocksOf(g), bused') = Left(BlocksOf(g), bused) - (IF BlockGroup(b) = g THEN 1 ELSE 0)
    <3>1. Left(BlocksOf(g), bused) \in Nat /\ IsFiniteSet(BlocksOf(g))
      BY LeftType
    <3>2. CASE BlockGroup(b) = g
      BY <1>1, <2>1, <3>1, <3>2, LeftTaken
    <3>3. CASE BlockGroup(b) # g
      BY <1>1, <2>1, <3>1, <3>3, LeftTaken
    <3>4. QED
      BY <3>2, <3>3
  <2>3. Left(BlocksOf(g), bused) \in Nat /\ gd[g].blocks \in Int
    BY <1>3, LeftType, CountTypes
  <2>4. Within(gd[g].blocks, Left(BlocksOf(g), bused) + BlockOff(g), faults)
    BY DEF CountInv, BlockCounts
  <2>5. QED
    BY <1>2, <1>3, <1>6, <2>2, <2>3, <2>4 DEF Within
<1>8. /\ Left(Block, bused') = Left(Block, bused) - 1 /\ Left(Block, bused) \in Nat
      /\ msb.blocks \in Int /\ sb.blocks \in Int
      /\ Within(msb.blocks, Left(Block, bused), faults)
      /\ Within(sb.blocks, Left(Block, bused) + BlockLag, faults)
  BY <1>1, <1>3, LeftTaken, LeftType, CountTypes DEF CountInv, BlockCounts
<1>9. Within(msb'.blocks, Left(Block, bused'), faults')
  BY <1>2, <1>3, <1>8 DEF Within
<1>10. Within(sb'.blocks, Left(Block, bused') + BlockLag', faults')
  BY <1>2, <1>3, <1>6, <1>8 DEF Within
<1>11. QED
  BY <1>5, <1>7, <1>9, <1>10 DEF CountInv, BlockCounts

\* ... then in the descriptor of the group.
LEMMA TakeBlockDesc ==
  ASSUME Good, CountInv, NEW ok \in BOOLEAN, AllocBlockDesc(ok)
  PROVE  CountInv'
<1>1. PICK h : h = BlockGroup(op.new)
  OBVIOUS
<1>2. /\ pc = "block_desc" /\ UNCHANGED <<bused, iused, sb, msb>>
      /\ gd' = [gd EXCEPT ![h].blocks = @ - 1]
      /\ faults' = (IF ok THEN faults ELSE faults + 1)
      /\ pc' = (IF ok THEN "block_super" ELSE "idle")
  BY <1>1 DEF AllocBlockDesc, Count, Proceed, Finish
<1>3. \A g \in Groups : /\ gd'[g].inodes = gd[g].inodes
                        /\ gd'[g].blocks = gd[g].blocks - (IF h = g THEN 1 ELSE 0)
  BY <1>2, GoodCounts DEF GroupCounts
<1>4. faults \in Nat /\ TypeOK
  BY GoodCounts
<1>5. InodeCounts'
  BY <1>2, <1>3, <1>4, InodeCountsKept DEF CountInv, InodeMoves
<1>6. /\ BlockLag = 1 /\ BlockLag' = (IF ok THEN 1 ELSE 0)
      /\ \A g : BlockOff(g) = (IF h = g THEN 1 ELSE 0) /\ BlockOff(g)' = 0
  BY <1>1, <1>2 DEF BlockLag, BlockOff
<1>7. ASSUME NEW g \in Groups
      PROVE  Within(gd'[g].blocks, Left(BlocksOf(g), bused') + BlockOff(g)', faults')
  <2>1. Left(BlocksOf(g), bused) \in Nat /\ gd[g].blocks \in Int
    BY <1>4, LeftType, CountTypes
  <2>2. Within(gd[g].blocks, Left(BlocksOf(g), bused) + BlockOff(g), faults)
    BY DEF CountInv, BlockCounts
  <2>3. QED
    BY <1>2, <1>3, <1>4, <1>6, <2>1, <2>2 DEF Within
<1>8. /\ Left(Block, bused) \in Nat /\ msb.blocks \in Int /\ sb.blocks \in Int
      /\ Within(msb.blocks, Left(Block, bused), faults)
      /\ Within(sb.blocks, Left(Block, bused) + BlockLag, faults)
  BY <1>4, LeftType, CountTypes DEF CountInv, BlockCounts
<1>9. Within(msb'.blocks, Left(Block, bused'), faults')
  BY <1>2, <1>4, <1>8 DEF Within
<1>10. Within(sb'.blocks, Left(Block, bused') + BlockLag', faults')
  BY <1>2, <1>4, <1>6, <1>8 DEF Within
<1>11. QED
  BY <1>5, <1>7, <1>9, <1>10 DEF CountInv, BlockCounts

\* ... then in the superblock, which takes the counts in memory.
LEMMA TakeBlockSuper ==
  ASSUME Good, CountInv, NEW ok \in BOOLEAN, AllocBlockSuper(ok)
  PROVE  CountInv'
<1>1. /\ pc = "block_super" /\ UNCHANGED <<bused, iused, gd, msb>> /\ sb' = msb
      /\ faults' = (IF ok THEN faults ELSE faults + 1)
      /\ pc' = (IF ok THEN "block_zero" ELSE "idle")
  BY DEF AllocBlockSuper, Count, Proceed, Finish
<1>2. faults \in Nat /\ TypeOK
  BY GoodCounts
<1>3. InodeCounts'
  BY <1>1, <1>2, InodeCountsKept DEF CountInv, InodeMoves
<1>4. BlockLag' = 0 /\ \A g : BlockOff(g) = 0 /\ BlockOff(g)' = 0
  BY <1>1 DEF BlockLag, BlockOff
<1>5. ASSUME NEW g \in Groups
      PROVE  Within(gd'[g].blocks, Left(BlocksOf(g), bused') + BlockOff(g)', faults')
  <2>1. Left(BlocksOf(g), bused) \in Nat /\ gd[g].blocks \in Int
    BY <1>2, LeftType, CountTypes
  <2>2. Within(gd[g].blocks, Left(BlocksOf(g), bused) + BlockOff(g), faults)
    BY DEF CountInv, BlockCounts
  <2>3. QED
    BY <1>1, <1>2, <1>4, <2>1, <2>2 DEF Within
<1>6. /\ Left(Block, bused) \in Nat /\ msb.blocks \in Int
      /\ Within(msb.blocks, Left(Block, bused), faults)
  BY <1>2, LeftType, CountTypes DEF CountInv, BlockCounts
<1>7. Within(msb'.blocks, Left(Block, bused'), faults')
  BY <1>1, <1>2, <1>6 DEF Within
<1>8. Within(sb'.blocks, Left(Block, bused') + BlockLag', faults')
  BY <1>1, <1>2, <1>4, <1>6 DEF Within
<1>9. QED
  BY <1>3, <1>5, <1>7, <1>8 DEF CountInv, BlockCounts

\* free_block clears a bit that is set, and counts in memory.
LEMMA GiveBlock ==
  ASSUME Good, TodoOK, CountInv, NEW ok \in BOOLEAN, FreeBlockBitmap(ok)
  PROVE  CountInv'
<1>1. PICK b : b = Victim
  OBVIOUS
<1>2. /\ pc = "free_bitmap" /\ UNCHANGED <<iused, gd, sb>> /\ op.todo # <<>> /\ b # Null
      /\ bused' = bused \ {b}
      /\ msb' = (IF ok THEN [msb EXCEPT !.blocks = @ + 1] ELSE msb)
      /\ faults' = (IF ok THEN faults ELSE faults + 1)
      /\ IF ok THEN pc' = "free_desc" /\ op' = op ELSE pc' = "free_bitmap"
  BY <1>1 DEF FreeBlockBitmap, NextFree, Count
<1>3. /\ msb'.inodes = msb.inodes /\ faults \in Nat /\ op \in Operation /\ TypeOK
      /\ msb'.blocks = IF ok THEN msb.blocks + 1 ELSE msb.blocks
  BY <1>2, GoodCounts DEF FreeCounts
<1>4. b \in bused /\ b \in Block
  <2>1. op.cmd = "delete"
    BY <1>2, GoodParts DEF StageOK, Freed, Freeing
  <2>2. Apart(op.todo) /\ InUse(op.todo, bused, 1)
    BY <1>2, <2>1 DEF TodoOK
  <2>3. op.todo \in Seq(Ptr)
    BY <1>3 DEF Operation
  <2>4. b \in bused
    BY <1>1, <1>2, <2>2, <2>3, HeadFreed DEF Victim
  <2>5. QED
    BY <1>3, <2>4 DEF TypeOK
<1>5. InodeCounts'
  BY <1>2, <1>3, InodeCountsKept DEF CountInv, InodeMoves
<1>6. /\ BlockLag = 0 /\ BlockLag' = (IF ok THEN -1 ELSE 0)
      /\ \A g : BlockOff(g) = 0 /\ BlockOff(g)' = (IF ok /\ BlockGroup(b) = g THEN -1 ELSE 0)
  BY <1>1, <1>2 DEF BlockLag, BlockOff, Victim
<1>7. ASSUME NEW g \in Groups
      PROVE  Within(gd'[g].blocks, Left(BlocksOf(g), bused') + BlockOff(g)', faults')
  <2>1. b \in BlocksOf(g) <=> BlockGroup(b) = g
    BY <1>2, <1>4 DEF BlocksOf
  <2>2. Left(BlocksOf(g), bused') = Left(BlocksOf(g), bused) + (IF BlockGroup(b) = g THEN 1 ELSE 0)
    <3>1. Left(BlocksOf(g), bused) \in Nat /\ IsFiniteSet(BlocksOf(g))
      BY LeftType
    <3>2. CASE BlockGroup(b) = g
      BY <1>2, <1>4, <2>1, <3>1, <3>2, LeftGiven
    <3>3. CASE BlockGroup(b) # g
      BY <1>2, <1>4, <2>1, <3>1, <3>3, LeftGiven
    <3>4. QED
      BY <3>2, <3>3
  <2>3. Left(BlocksOf(g), bused) \in Nat /\ gd[g].blocks \in Int
    BY <1>3, LeftType, CountTypes
  <2>4. Within(gd[g].blocks, Left(BlocksOf(g), bused) + BlockOff(g), faults)
    BY DEF CountInv, BlockCounts
  <2>5. QED
    BY <1>2, <1>3, <1>6, <2>2, <2>3, <2>4 DEF Within
<1>8. /\ Left(Block, bused') = Left(Block, bused) + 1 /\ Left(Block, bused) \in Nat
      /\ msb.blocks \in Int /\ sb.blocks \in Int
      /\ Within(msb.blocks, Left(Block, bused), faults)
      /\ Within(sb.blocks, Left(Block, bused) + BlockLag, faults)
  BY <1>2, <1>3, <1>4, LeftGiven, LeftType, CountTypes DEF CountInv, BlockCounts
<1>9. Within(msb'.blocks, Left(Block, bused'), faults')
  BY <1>2, <1>3, <1>8 DEF Within
<1>10. Within(sb'.blocks, Left(Block, bused') + BlockLag', faults')
  BY <1>2, <1>3, <1>6, <1>8 DEF Within
<1>11. QED
  BY <1>5, <1>7, <1>9, <1>10 DEF CountInv, BlockCounts

\* ... then in the descriptor of the group.
LEMMA GiveBlockDesc ==
  ASSUME Good, CountInv, NEW ok \in BOOLEAN, FreeBlockDesc(ok)
  PROVE  CountInv'
<1>1. PICK h : h = BlockGroup(Victim)
  OBVIOUS
<1>2. /\ pc = "free_desc" /\ UNCHANGED <<bused, iused, sb, msb>>
      /\ gd' = [gd EXCEPT ![h].blocks = @ + 1]
      /\ faults' = (IF ok THEN faults ELSE faults + 1)
      /\ pc' = (IF ok THEN "free_super" ELSE "free_bitmap")
  BY <1>1 DEF FreeBlockDesc, Count, NextFree
<1>3. \A g \in Groups : /\ gd'[g].inodes = gd[g].inodes
                        /\ gd'[g].blocks = gd[g].blocks + (IF h = g THEN 1 ELSE 0)
  BY <1>2, GoodCounts DEF GroupCounts
<1>4. faults \in Nat /\ TypeOK
  BY GoodCounts
<1>5. InodeCounts'
  BY <1>2, <1>3, <1>4, InodeCountsKept DEF CountInv, InodeMoves
<1>6. /\ BlockLag = -1 /\ BlockLag' = (IF ok THEN -1 ELSE 0)
      /\ \A g : BlockOff(g) = (IF h = g THEN -1 ELSE 0) /\ BlockOff(g)' = 0
  BY <1>1, <1>2 DEF BlockLag, BlockOff
<1>7. ASSUME NEW g \in Groups
      PROVE  Within(gd'[g].blocks, Left(BlocksOf(g), bused') + BlockOff(g)', faults')
  <2>1. Left(BlocksOf(g), bused) \in Nat /\ gd[g].blocks \in Int
    BY <1>4, LeftType, CountTypes
  <2>2. Within(gd[g].blocks, Left(BlocksOf(g), bused) + BlockOff(g), faults)
    BY DEF CountInv, BlockCounts
  <2>3. QED
    BY <1>2, <1>3, <1>4, <1>6, <2>1, <2>2 DEF Within
<1>8. /\ Left(Block, bused) \in Nat /\ msb.blocks \in Int /\ sb.blocks \in Int
      /\ Within(msb.blocks, Left(Block, bused), faults)
      /\ Within(sb.blocks, Left(Block, bused) + BlockLag, faults)
  BY <1>4, LeftType, CountTypes DEF CountInv, BlockCounts
<1>9. Within(msb'.blocks, Left(Block, bused'), faults')
  BY <1>2, <1>4, <1>8 DEF Within
<1>10. Within(sb'.blocks, Left(Block, bused') + BlockLag', faults')
  BY <1>2, <1>4, <1>6, <1>8 DEF Within
<1>11. QED
  BY <1>5, <1>7, <1>9, <1>10 DEF CountInv, BlockCounts

\* ... then in the superblock.
LEMMA GiveBlockSuper ==
  ASSUME Good, CountInv, NEW ok \in BOOLEAN, FreeBlockSuper(ok)
  PROVE  CountInv'
<1>1. /\ pc = "free_super" /\ UNCHANGED <<bused, iused, gd, msb>> /\ sb' = msb
      /\ faults' = (IF ok THEN faults ELSE faults + 1)
      /\ pc' = "free_bitmap"
  BY DEF FreeBlockSuper, Count, NextFree
<1>2. faults \in Nat /\ TypeOK
  BY GoodCounts
<1>3. InodeCounts'
  BY <1>1, <1>2, InodeCountsKept DEF CountInv, InodeMoves
<1>4. BlockLag' = 0 /\ \A g : BlockOff(g) = 0 /\ BlockOff(g)' = 0
  BY <1>1 DEF BlockLag, BlockOff
<1>5. ASSUME NEW g \in Groups
      PROVE  Within(gd'[g].blocks, Left(BlocksOf(g), bused') + BlockOff(g)', faults')
  <2>1. Left(BlocksOf(g), bused) \in Nat /\ gd[g].blocks \in Int
    BY <1>2, LeftType, CountTypes
  <2>2. Within(gd[g].blocks, Left(BlocksOf(g), bused) + BlockOff(g), faults)
    BY DEF CountInv, BlockCounts
  <2>3. QED
    BY <1>1, <1>2, <1>4, <2>1, <2>2 DEF Within
<1>6. /\ Left(Block, bused) \in Nat /\ msb.blocks \in Int
      /\ Within(msb.blocks, Left(Block, bused), faults)
  BY <1>2, LeftType, CountTypes DEF CountInv, BlockCounts
<1>7. Within(msb'.blocks, Left(Block, bused'), faults')
  BY <1>1, <1>2, <1>6 DEF Within
<1>8. Within(sb'.blocks, Left(Block, bused') + BlockLag', faults')
  BY <1>1, <1>2, <1>4, <1>6 DEF Within
<1>9. QED
  BY <1>3, <1>5, <1>7, <1>8 DEF CountInv, BlockCounts

\* allocate_inode: the same for inodes.
LEMMA TakeInode ==
  ASSUME Good, CountInv, NEW ok \in BOOLEAN, AllocInodeBitmap(ok)
  PROVE  CountInv'
<1>1. PICK i \in Inode : /\ i \in Inode /\ i \notin iused /\ iused' = iused \cup {i}
                         /\ Proceed(ok, "inode_desc", [op EXCEPT !.ino = i])
  BY DEF AllocInodeBitmap, FirstFreeInode, FreeInodes
<1>2. /\ pc = "inode_bitmap" /\ UNCHANGED <<bused, gd, sb>>
      /\ msb' = (IF ok THEN [msb EXCEPT !.inodes = @ - 1] ELSE msb)
      /\ faults' = (IF ok THEN faults ELSE faults + 1)
  BY DEF AllocInodeBitmap, Count
<1>3. /\ msb'.blocks = msb.blocks /\ faults \in Nat /\ op \in Operation /\ TypeOK
      /\ msb'.inodes = IF ok THEN msb.inodes - 1 ELSE msb.inodes
  BY <1>2, GoodCounts DEF FreeCounts
<1>4. IF ok THEN pc' = "inode_desc" /\ op'.ino = i ELSE pc' = "idle"
  BY <1>1, <1>3 DEF Proceed, Finish, Operation
<1>5. BlockCounts'
  BY <1>2, <1>3, <1>4, BlockCountsKept DEF CountInv, BlockMoves
<1>6. /\ InodeLag = 0 /\ InodeLag' = (IF ok THEN 1 ELSE 0)
      /\ \A g : InodeOff(g) = 0 /\ InodeOff(g)' = (IF ok /\ InodeGroup(i) = g THEN 1 ELSE 0)
  BY <1>2, <1>4 DEF InodeLag, InodeOff
<1>7. ASSUME NEW g \in Groups
      PROVE  Within(gd'[g].inodes, Left(InodesOf(g), iused') + InodeOff(g)', faults')
  <2>1. i \in InodesOf(g) <=> InodeGroup(i) = g
    BY <1>1 DEF InodesOf
  <2>2. Left(InodesOf(g), iused') = Left(InodesOf(g), iused) - (IF InodeGroup(i) = g THEN 1 ELSE 0)
    <3>1. Left(InodesOf(g), iused) \in Nat /\ IsFiniteSet(InodesOf(g))
      BY LeftType
    <3>2. CASE InodeGroup(i) = g
      BY <1>1, <2>1, <3>1, <3>2, LeftTaken
    <3>3. CASE InodeGroup(i) # g
      BY <1>1, <2>1, <3>1, <3>3, LeftTaken
    <3>4. QED
      BY <3>2, <3>3
  <2>3. Left(InodesOf(g), iused) \in Nat /\ gd[g].inodes \in Int
    BY <1>3, LeftType, CountTypes
  <2>4. Within(gd[g].inodes, Left(InodesOf(g), iused) + InodeOff(g), faults)
    BY DEF CountInv, InodeCounts
  <2>5. QED
    BY <1>2, <1>3, <1>6, <2>2, <2>3, <2>4 DEF Within
<1>8. /\ Left(Inode, iused') = Left(Inode, iused) - 1 /\ Left(Inode, iused) \in Nat
      /\ msb.inodes \in Int /\ sb.inodes \in Int
      /\ Within(msb.inodes, Left(Inode, iused), faults)
      /\ Within(sb.inodes, Left(Inode, iused) + InodeLag, faults)
  BY <1>1, <1>3, LeftTaken, LeftType, CountTypes DEF CountInv, InodeCounts
<1>9. Within(msb'.inodes, Left(Inode, iused'), faults')
  BY <1>2, <1>3, <1>8 DEF Within
<1>10. Within(sb'.inodes, Left(Inode, iused') + InodeLag', faults')
  BY <1>2, <1>3, <1>6, <1>8 DEF Within
<1>11. QED
  BY <1>5, <1>7, <1>9, <1>10 DEF CountInv, InodeCounts

\* ... then in the descriptor of the group.
LEMMA TakeInodeDesc ==
  ASSUME Good, CountInv, NEW ok \in BOOLEAN, AllocInodeDesc(ok)
  PROVE  CountInv'
<1>1. PICK h : h = InodeGroup(op.ino)
  OBVIOUS
<1>2. /\ pc = "inode_desc" /\ UNCHANGED <<iused, bused, sb, msb>>
      /\ gd' = [gd EXCEPT ![h].inodes = @ - 1]
      /\ faults' = (IF ok THEN faults ELSE faults + 1)
      /\ pc' = (IF ok THEN "inode_super" ELSE "idle")
  BY <1>1 DEF AllocInodeDesc, Count, Proceed, Finish
<1>3. \A g \in Groups : /\ gd'[g].blocks = gd[g].blocks
                        /\ gd'[g].inodes = gd[g].inodes - (IF h = g THEN 1 ELSE 0)
  BY <1>2, GoodCounts DEF GroupCounts
<1>4. faults \in Nat /\ TypeOK
  BY GoodCounts
<1>5. BlockCounts'
  BY <1>2, <1>3, <1>4, BlockCountsKept DEF CountInv, BlockMoves
<1>6. /\ InodeLag = 1 /\ InodeLag' = (IF ok THEN 1 ELSE 0)
      /\ \A g : InodeOff(g) = (IF h = g THEN 1 ELSE 0) /\ InodeOff(g)' = 0
  BY <1>1, <1>2 DEF InodeLag, InodeOff
<1>7. ASSUME NEW g \in Groups
      PROVE  Within(gd'[g].inodes, Left(InodesOf(g), iused') + InodeOff(g)', faults')
  <2>1. Left(InodesOf(g), iused) \in Nat /\ gd[g].inodes \in Int
    BY <1>4, LeftType, CountTypes
  <2>2. Within(gd[g].inodes, Left(InodesOf(g), iused) + InodeOff(g), faults)
    BY DEF CountInv, InodeCounts
  <2>3. QED
    BY <1>2, <1>3, <1>4, <1>6, <2>1, <2>2 DEF Within
<1>8. /\ Left(Inode, iused) \in Nat /\ msb.inodes \in Int /\ sb.inodes \in Int
      /\ Within(msb.inodes, Left(Inode, iused), faults)
      /\ Within(sb.inodes, Left(Inode, iused) + InodeLag, faults)
  BY <1>4, LeftType, CountTypes DEF CountInv, InodeCounts
<1>9. Within(msb'.inodes, Left(Inode, iused'), faults')
  BY <1>2, <1>4, <1>8 DEF Within
<1>10. Within(sb'.inodes, Left(Inode, iused') + InodeLag', faults')
  BY <1>2, <1>4, <1>6, <1>8 DEF Within
<1>11. QED
  BY <1>5, <1>7, <1>9, <1>10 DEF CountInv, InodeCounts

\* ... then in the superblock, which takes the counts in memory.
LEMMA TakeInodeSuper ==
  ASSUME Good, CountInv, NEW ok \in BOOLEAN, AllocInodeSuper(ok)
  PROVE  CountInv'
<1>1. /\ pc = "inode_super" /\ UNCHANGED <<iused, bused, gd, msb>> /\ sb' = msb
      /\ faults' = (IF ok THEN faults ELSE faults + 1)
      /\ pc' \in {"block_bitmap", "write_new", "idle"}
  BY DEF AllocInodeSuper, Count, Proceed, Finish
<1>2. faults \in Nat /\ TypeOK
  BY GoodCounts
<1>3. BlockCounts'
  BY <1>1, <1>2, BlockCountsKept DEF CountInv, BlockMoves
<1>4. InodeLag' = 0 /\ \A g : InodeOff(g) = 0 /\ InodeOff(g)' = 0
  BY <1>1 DEF InodeLag, InodeOff
<1>5. ASSUME NEW g \in Groups
      PROVE  Within(gd'[g].inodes, Left(InodesOf(g), iused') + InodeOff(g)', faults')
  <2>1. Left(InodesOf(g), iused) \in Nat /\ gd[g].inodes \in Int
    BY <1>2, LeftType, CountTypes
  <2>2. Within(gd[g].inodes, Left(InodesOf(g), iused) + InodeOff(g), faults)
    BY DEF CountInv, InodeCounts
  <2>3. QED
    BY <1>1, <1>2, <1>4, <2>1, <2>2 DEF Within
<1>6. /\ Left(Inode, iused) \in Nat /\ msb.inodes \in Int
      /\ Within(msb.inodes, Left(Inode, iused), faults)
  BY <1>2, LeftType, CountTypes DEF CountInv, InodeCounts
<1>7. Within(msb'.inodes, Left(Inode, iused'), faults')
  BY <1>1, <1>2, <1>6 DEF Within
<1>8. Within(sb'.inodes, Left(Inode, iused') + InodeLag', faults')
  BY <1>1, <1>2, <1>4, <1>6 DEF Within
<1>9. QED
  BY <1>3, <1>5, <1>7, <1>8 DEF CountInv, InodeCounts

\* The deletion releases its inode, which is still in use.
LEMMA GiveInode ==
  ASSUME Good, TodoOK, CountInv, NEW ok \in BOOLEAN, FreeInodeBitmap(ok)
  PROVE  CountInv'
<1>1. PICK i : i = op.ino
  OBVIOUS
<1>2. /\ pc = "ifree_bitmap" /\ UNCHANGED <<bused, gd, sb>>
      /\ iused' = iused \ {i}
      /\ msb' = (IF ok THEN [msb EXCEPT !.inodes = @ + 1] ELSE msb)
      /\ faults' = (IF ok THEN faults ELSE faults + 1)
      /\ IF ok THEN pc' = "ifree_desc" /\ op' = op ELSE pc' = "idle"
  BY <1>1 DEF FreeInodeBitmap, Proceed, Finish, Count
<1>3. /\ msb'.blocks = msb.blocks /\ faults \in Nat /\ op \in Operation /\ TypeOK
      /\ msb'.inodes = IF ok THEN msb.inodes + 1 ELSE msb.inodes
  BY <1>2, GoodCounts DEF FreeCounts
<1>4. i \in iused /\ i \in Inode
  <2>1. op.cmd = "delete"
    BY <1>2, GoodParts DEF StageOK, Freed
  <2>2. i \in iused
    BY <1>1, <1>2, <2>1 DEF TodoOK
  <2>3. QED
    BY <1>3, <2>2 DEF TypeOK
<1>5. BlockCounts'
  BY <1>2, <1>3, BlockCountsKept DEF CountInv, BlockMoves
<1>6. /\ InodeLag = 0 /\ InodeLag' = (IF ok THEN -1 ELSE 0)
      /\ \A g : InodeOff(g) = 0 /\ InodeOff(g)' = (IF ok /\ InodeGroup(i) = g THEN -1 ELSE 0)
  BY <1>1, <1>2 DEF InodeLag, InodeOff
<1>7. ASSUME NEW g \in Groups
      PROVE  Within(gd'[g].inodes, Left(InodesOf(g), iused') + InodeOff(g)', faults')
  <2>1. i \in InodesOf(g) <=> InodeGroup(i) = g
    BY <1>2, <1>4 DEF InodesOf
  <2>2. Left(InodesOf(g), iused') = Left(InodesOf(g), iused) + (IF InodeGroup(i) = g THEN 1 ELSE 0)
    <3>1. Left(InodesOf(g), iused) \in Nat /\ IsFiniteSet(InodesOf(g))
      BY LeftType
    <3>2. CASE InodeGroup(i) = g
      BY <1>2, <1>4, <2>1, <3>1, <3>2, LeftGiven
    <3>3. CASE InodeGroup(i) # g
      BY <1>2, <1>4, <2>1, <3>1, <3>3, LeftGiven
    <3>4. QED
      BY <3>2, <3>3
  <2>3. Left(InodesOf(g), iused) \in Nat /\ gd[g].inodes \in Int
    BY <1>3, LeftType, CountTypes
  <2>4. Within(gd[g].inodes, Left(InodesOf(g), iused) + InodeOff(g), faults)
    BY DEF CountInv, InodeCounts
  <2>5. QED
    BY <1>2, <1>3, <1>6, <2>2, <2>3, <2>4 DEF Within
<1>8. /\ Left(Inode, iused') = Left(Inode, iused) + 1 /\ Left(Inode, iused) \in Nat
      /\ msb.inodes \in Int /\ sb.inodes \in Int
      /\ Within(msb.inodes, Left(Inode, iused), faults)
      /\ Within(sb.inodes, Left(Inode, iused) + InodeLag, faults)
  BY <1>2, <1>3, <1>4, LeftGiven, LeftType, CountTypes DEF CountInv, InodeCounts
<1>9. Within(msb'.inodes, Left(Inode, iused'), faults')
  BY <1>2, <1>3, <1>8 DEF Within
<1>10. Within(sb'.inodes, Left(Inode, iused') + InodeLag', faults')
  BY <1>2, <1>3, <1>6, <1>8 DEF Within
<1>11. QED
  BY <1>5, <1>7, <1>9, <1>10 DEF CountInv, InodeCounts

\* ... then in the descriptor of the group.
LEMMA GiveInodeDesc ==
  ASSUME Good, CountInv, NEW ok \in BOOLEAN, FreeInodeDesc(ok)
  PROVE  CountInv'
<1>1. PICK h : h = InodeGroup(op.ino)
  OBVIOUS
<1>2. /\ pc = "ifree_desc" /\ UNCHANGED <<iused, bused, sb, msb>>
      /\ gd' = [gd EXCEPT ![h].inodes = @ + 1]
      /\ faults' = (IF ok THEN faults ELSE faults + 1)
      /\ pc' = (IF ok THEN "ifree_super" ELSE "idle")
  BY <1>1 DEF FreeInodeDesc, Count, Proceed, Finish
<1>3. \A g \in Groups : /\ gd'[g].blocks = gd[g].blocks
                        /\ gd'[g].inodes = gd[g].inodes + (IF h = g THEN 1 ELSE 0)
  BY <1>2, GoodCounts DEF GroupCounts
<1>4. faults \in Nat /\ TypeOK
  BY GoodCounts
<1>5. BlockCounts'
  BY <1>2, <1>3, <1>4, BlockCountsKept DEF CountInv, BlockMoves
<1>6. /\ InodeLag = -1 /\ InodeLag' = (IF ok THEN -1 ELSE 0)
      /\ \A g : InodeOff(g) = (IF h = g THEN -1 ELSE 0) /\ InodeOff(g)' = 0
  BY <1>1, <1>2 DEF InodeLag, InodeOff
<1>7. ASSUME NEW g \in Groups
      PROVE  Within(gd'[g].inodes, Left(InodesOf(g), iused') + InodeOff(g)', faults')
  <2>1. Left(InodesOf(g), iused) \in Nat /\ gd[g].inodes \in Int
    BY <1>4, LeftType, CountTypes
  <2>2. Within(gd[g].inodes, Left(InodesOf(g), iused) + InodeOff(g), faults)
    BY DEF CountInv, InodeCounts
  <2>3. QED
    BY <1>2, <1>3, <1>4, <1>6, <2>1, <2>2 DEF Within
<1>8. /\ Left(Inode, iused) \in Nat /\ msb.inodes \in Int /\ sb.inodes \in Int
      /\ Within(msb.inodes, Left(Inode, iused), faults)
      /\ Within(sb.inodes, Left(Inode, iused) + InodeLag, faults)
  BY <1>4, LeftType, CountTypes DEF CountInv, InodeCounts
<1>9. Within(msb'.inodes, Left(Inode, iused'), faults')
  BY <1>2, <1>4, <1>8 DEF Within
<1>10. Within(sb'.inodes, Left(Inode, iused') + InodeLag', faults')
  BY <1>2, <1>4, <1>6, <1>8 DEF Within
<1>11. QED
  BY <1>5, <1>7, <1>9, <1>10 DEF CountInv, InodeCounts

\* ... then in the superblock.
LEMMA GiveInodeSuper ==
  ASSUME Good, CountInv, NEW ok \in BOOLEAN, FreeInodeSuper(ok)
  PROVE  CountInv'
<1>1. /\ pc = "ifree_super" /\ UNCHANGED <<iused, bused, gd, msb>> /\ sb' = msb
      /\ faults' = (IF ok THEN faults ELSE faults + 1)
      /\ pc' = "idle"
  BY DEF FreeInodeSuper, Count, Finish
<1>2. faults \in Nat /\ TypeOK
  BY GoodCounts
<1>3. BlockCounts'
  BY <1>1, <1>2, BlockCountsKept DEF CountInv, BlockMoves
<1>4. InodeLag' = 0 /\ \A g : InodeOff(g) = 0 /\ InodeOff(g)' = 0
  BY <1>1 DEF InodeLag, InodeOff
<1>5. ASSUME NEW g \in Groups
      PROVE  Within(gd'[g].inodes, Left(InodesOf(g), iused') + InodeOff(g)', faults')
  <2>1. Left(InodesOf(g), iused) \in Nat /\ gd[g].inodes \in Int
    BY <1>2, LeftType, CountTypes
  <2>2. Within(gd[g].inodes, Left(InodesOf(g), iused) + InodeOff(g), faults)
    BY DEF CountInv, InodeCounts
  <2>3. QED
    BY <1>1, <1>2, <1>4, <2>1, <2>2 DEF Within
<1>6. /\ Left(Inode, iused) \in Nat /\ msb.inodes \in Int
      /\ Within(msb.inodes, Left(Inode, iused), faults)
  BY <1>2, LeftType, CountTypes DEF CountInv, InodeCounts
<1>7. Within(msb'.inodes, Left(Inode, iused'), faults')
  BY <1>1, <1>2, <1>6 DEF Within
<1>8. Within(sb'.inodes, Left(Inode, iused') + InodeLag', faults')
  BY <1>1, <1>2, <1>4, <1>6 DEF Within
<1>9. QED
  BY <1>3, <1>5, <1>7, <1>8 DEF CountInv, InodeCounts

\* mkfs counts what it leaves free.
LEMMA InitCounts == Init => CountInv
<1> SUFFICES ASSUME Init PROVE CountInv
  OBVIOUS
<1>1. /\ \A g \in Groups : gd[g] = FreeInGroup(g)
      /\ sb = FreeInAll /\ msb = FreeInAll /\ pc = "idle" /\ faults = 0
  BY DEF Init
<1>2. BlockLag = 0 /\ InodeLag = 0 /\ \A g : BlockOff(g) = 0 /\ InodeOff(g) = 0
  BY <1>1 DEF BlockLag, InodeLag, BlockOff, InodeOff
<1>3. \A x \in Nat : Within(x, x, 0) /\ Within(x, x + 0, 0)
  BY DEF Within
<1>4. QED
  BY <1>1, <1>2, <1>3, FreeAsLeft, LeftType DEF CountInv, BlockCounts, InodeCounts

\* Every step keeps the counts within the faults.
LEMMA CountStep ==
  ASSUME Good, TodoOK, CountInv, Next
  PROVE  CountInv'
<1>1. TypeOK
  BY GoodParts
<1>2. ASSUME NEW ok \in BOOLEAN, Others(ok)
      PROVE  CountInv'
  BY <1>1, <1>2, OthersAre, QuietCounts
<1>3. CASE SkipNull
  <2>1. UNCHANGED Counters /\ pc = "free_bitmap" /\ pc' = "free_bitmap" /\ faults' = faults
    BY <1>3 DEF SkipNull, NextFree, disk, Counters
  <2>2. QED
    BY <1>1, <2>1, QuietCounts DEF Moving, BlockMoves, InodeMoves
<1>4. ASSUME NEW ok \in BOOLEAN, RemoveEntry(ok) \/ ClearInode(ok)
      PROVE  CountInv'
  <2>1. /\ UNCHANGED Counters /\ pc \in {"remove_entry", "free_bitmap"}
        /\ pc' \in {"free_bitmap", "ifree_bitmap", "idle"} /\ faults' \in {faults, faults + 1}
    BY <1>4 DEF RemoveEntry, ClearInode, Proceed, Finish, Count, Counters
  <2>2. QED
    BY <1>1, <2>1, QuietCounts DEF Moving, BlockMoves, InodeMoves
<1>5. ASSUME NEW ok \in BOOLEAN, Write(ok)
      PROVE  CountInv'
  BY <1>2, <1>4, <1>5, TakeBlock, TakeBlockDesc, TakeBlockSuper, GiveBlock, GiveBlockDesc, GiveBlockSuper,
     TakeInode, TakeInodeDesc, TakeInodeSuper, GiveInode, GiveInodeDesc, GiveInodeSuper DEF Write, Others
<1>6. CASE WriteLost \/ Crash
  <2>1. /\ UNCHANGED Counters /\ faults' = faults + 1
        /\ pc' \in {"idle", "down", "free_bitmap", "ifree_bitmap"}
    BY <1>6 DEF WriteLost, Crash, Finish, NextFree, disk, Counters
  <2>2. QED
    BY <1>1, <2>1, QuietCounts DEF Moving, BlockMoves, InodeMoves
<1>7. CASE Mount
  <2>1. /\ UNCHANGED <<bused, iused, gd, sb, faults>> /\ msb' = sb /\ pc \in {"idle", "down"} /\ pc' = "idle"
    BY <1>7 DEF Mount, disk
  <2>2. BlockCounts'
    BY <1>1, <2>1, BlockCountsKept DEF CountInv, BlockMoves
  <2>3. InodeCounts'
    BY <1>1, <2>1, InodeCountsKept DEF CountInv, InodeMoves
  <2>4. QED
    BY <2>2, <2>3 DEF CountInv
<1>8. CASE Request \/ Local
  BY <1>2, <1>3, <1>8 DEF Local, Others
<1>9. CASE Fault
  BY <1>5, <1>6, <1>9 DEF Fault
<1>10. QED
  BY <1>5, <1>7, <1>8, <1>9 DEF Next

\* A step of nobody counts nothing.
LEMMA StutterCounts == CountInv /\ UNCHANGED vars => CountInv'
  BY DEF vars, CountInv, BlockCounts, InodeCounts, BlockLag, BlockOff, InodeLag, InodeOff, Victim

\* At every step, and not only between operations, each count is as far from the bitmap as
\* the faults so far allow, counted from where the operation is between its three writes.
THEOREM CountInvariant == Spec => []CountInv
<1>1. Good /\ TodoOK /\ CountInv /\ [Next]_vars => CountInv'
  BY CountStep, StutterCounts
<1>2. TypeInv /\ SafeInv /\ FileInv /\ TodoOK /\ CountInv /\ [Next]_vars => CountInv'
  BY <1>1 DEF Good
<1>3. QED
  BY <1>2, InitCounts, TypeInvariant, SafeInvariant, FileInvariant, TodoInvariant, PTL DEF Spec

\* For every disk and every history of faults: between operations the free counts of every
\* group and of the superblock are off by at most one for each failed write or power loss
\* (allocate_block, allocate_inode and free_block write bitmap, descriptor and superblock in
\* three steps, and ext2_mount takes the counts of the superblock as they are).
THEOREM CountsDriftByFaults == Spec => []CountDrift
<1>1. TypeOK /\ CountInv => CountDrift
  <2> SUFFICES ASSUME TypeOK, CountInv, pc = "idle"
               PROVE  /\ \A g \in Groups : /\ gd[g].blocks - FreeInGroup(g).blocks \in -faults .. faults
                                           /\ gd[g].inodes - FreeInGroup(g).inodes \in -faults .. faults
                      /\ msb.blocks - FreeInAll.blocks \in -faults .. faults
                      /\ msb.inodes - FreeInAll.inodes \in -faults .. faults
    BY DEF CountDrift
  <2>1. \A g : BlockOff(g) = 0 /\ InodeOff(g) = 0
    BY DEF BlockOff, InodeOff
  <2>2. \A n \in Nat : n + 0 = n
    OBVIOUS
  <2>3. QED
    BY <2>1, <2>2, FreeAsLeft, LeftType DEF CountInv, BlockCounts, InodeCounts, Within
<1>2. TypeInv => TypeOK
  BY DEF TypeInv
<1>3. QED
  BY <1>1, <1>2, CountInvariant, TypeInvariant, PTL

-----------------------------------------------------------------------------
(* The link counts of the directories.                                     *)

Subs(d) == {e \in Entries(inode[d]) : e.ino \in Dirs}
\* A subdirectory whose name is written and whose link is not.
LinkOff(d) ==
  IF pc = "write_parent" /\ op.cmd = "mkdir" /\ op.dir = d /\ op.parent = inode[d] THEN 1 ELSE 0
LinkedIn(n, S, f) == IsFiniteSet(S) /\ n \in 2 + Cardinality(S) - f .. 2 + Cardinality(S)
LinksInv == \A d \in Dirs : LinkedIn(inode[d].links + LinkOff(d), Subs(d), faults)

\* A directory that keeps its entries keeps its subdirectories.
LEMMA SubsStay ==
  ASSUME DirsStay
  PROVE  /\ \A d \in Dirs : Subs(d)' = Subs(d)
         /\ \A d \in Dirs' \ Dirs : Subs(d)' = {}
<1>1. \A d \in Dirs : \A e \in Entries(inode[d]) : e.ino \in Named
  BY DEF Named
<1>2. ASSUME NEW d \in Dirs
      PROVE  Subs(d)' = Subs(d)
  <2>1. Entries(inode[d])' = Entries(inode[d])
    BY DEF DirsStay, EntriesStay
  <2>2. \A e \in Entries(inode[d]) : e.ino \in Dirs' <=> e.ino \in Dirs
    BY <1>1 DEF DirsStay
  <2>3. QED
    BY <2>1, <2>2 DEF Subs
<1>3. ASSUME NEW d \in Dirs' \ Dirs
      PROVE  Subs(d)' = {}
  <2>1. Entries(inode[d])' = {}
    BY DEF DirsStay
  <2>2. QED
    BY <2>1 DEF Subs
<1>4. QED
  BY <1>2, <1>3

\* Link counts are numbers.
LEMMA LinkTypes ==
  ASSUME TypeOK
  PROVE  /\ faults \in Nat /\ \A d \in Dirs : inode[d].links \in Nat
         /\ \A d : LinkOff(d) \in {0, 1}
  BY DEF TypeOK, InodeRecord, Dirs, LinkOff

\* How a link count and its subdirectories may move.
LEMMA LinkedMoves ==
  ASSUME NEW n \in Nat, NEW S, NEW f \in Nat, LinkedIn(n, S, f)
  PROVE  /\ LinkedIn(n, S, f + 1)
         /\ \A m \in Nat : m + 1 = n => LinkedIn(m, S, f + 1)
         /\ \A e : e \notin S => LinkedIn(n + 1, S \cup {e}, f) /\ LinkedIn(n, S \cup {e}, f + 1)
<1>1. PICK c \in Nat : c = Cardinality(S)
  BY FS_CardinalityType DEF LinkedIn
<1>2. IsFiniteSet(S) /\ 2 + c - f <= n /\ n <= 2 + c
  BY <1>1 DEF LinkedIn
<1>3. ASSUME NEW e, e \notin S
      PROVE  IsFiniteSet(S \cup {e}) /\ Cardinality(S \cup {e}) = c + 1
  BY <1>1, <1>2, <1>3, FS_AddElement
<1>4. LinkedIn(n, S, f + 1) /\ \A m \in Nat : m + 1 = n => LinkedIn(m, S, f + 1)
  BY <1>1, <1>2 DEF LinkedIn
<1>5. ASSUME NEW e, e \notin S
      PROVE  LinkedIn(n + 1, S \cup {e}, f) /\ LinkedIn(n, S \cup {e}, f + 1)
  <2>1. IsFiniteSet(S \cup {e}) /\ Cardinality(S \cup {e}) = c + 1
    BY <1>3, <1>5
  <2>2. QED
    BY <1>2, <2>1 DEF LinkedIn
<1>6. QED
  BY <1>4, <1>5

\* Nothing under an empty directory.
LEMMA LinkedEmpty ==
  ASSUME NEW f \in Nat
  PROVE  LinkedIn(2, {}, f)
  BY FS_EmptySet DEF LinkedIn

\* A step that leaves the directories alone: a pending link is lost only by a fault.
LEMMA LinksKept ==
  ASSUME TypeOK, LinksInv, DirsStay, faults' \in {faults, faults + 1},
         \A d \in Dirs' : LinkOff(d)' = 0,
         (\A d \in Dirs : LinkOff(d) = 0) \/ faults' = faults + 1
  PROVE  LinksInv'
<1> SUFFICES ASSUME NEW d \in Dirs'
             PROVE  LinkedIn(inode'[d].links + 0, Subs(d)', faults')
  BY DEF LinksInv
<1>1. CASE d \in Dirs
  <2>1. inode'[d].links = inode[d].links /\ Subs(d)' = Subs(d)
    BY <1>1, SubsStay DEF DirsStay
  <2>2. LinkedIn(inode[d].links + LinkOff(d), Subs(d), faults)
    BY <1>1 DEF LinksInv
  <2>3. inode[d].links \in Nat /\ faults \in Nat /\ LinkOff(d) \in {0, 1}
    BY <1>1, LinkTypes
  <2>4. PICK n \in Nat : n = inode[d].links + LinkOff(d)
    BY <2>3
  <2>5. LinkedIn(n, Subs(d), faults)
    BY <2>2, <2>4
  <2>6. CASE LinkOff(d) = 0
    <3>1. n = inode[d].links
      BY <2>3, <2>4, <2>6
    <3>2. LinkedIn(n, Subs(d), faults')
      BY <2>3, <2>5, LinkedMoves
    <3>3. inode'[d].links + 0 = n
      BY <2>1, <2>3, <3>1
    <3>4. QED
      BY <2>1, <3>2, <3>3
  <2>7. CASE LinkOff(d) # 0
    <3>1. inode[d].links + 1 = n /\ faults' = faults + 1
      BY <1>1, <2>3, <2>4, <2>7
    <3>2. LinkedIn(inode[d].links, Subs(d), faults')
      BY <2>3, <2>5, <3>1, LinkedMoves
    <3>3. inode'[d].links + 0 = inode[d].links
      BY <2>1, <2>3
    <3>4. QED
      BY <2>1, <3>2, <3>3
  <2>8. QED
    BY <2>6, <2>7
<1>2. CASE d \notin Dirs
  <2>1. inode'[d].links = 2 /\ Subs(d)' = {}
    BY <1>2, SubsStay DEF DirsStay
  <2>2. faults' \in Nat
    BY LinkTypes
  <2>3. LinkedIn(2, {}, faults')
    BY <2>2, LinkedEmpty
  <2>4. inode'[d].links + 0 = 2
    BY <2>1
  <2>5. QED
    BY <2>1, <2>3, <2>4
<1>3. QED
  BY <1>1, <1>2

\* The steps that are neither a link of a new name nor a fault.
Unlinked(ok) ==
  \/ AllocBlockBitmap(ok) \/ AllocBlockDesc(ok) \/ AllocBlockSuper(ok) \/ AllocBlockZero(ok)
  \/ AllocInodeBitmap(ok) \/ AllocInodeDesc(ok) \/ AllocInodeSuper(ok)
  \/ WriteDots(ok) \/ WriteNewInode(ok) \/ NewDirBlock(ok)
  \/ SetIndirect(ok) \/ LinkChild(ok) \/ WriteData(ok) \/ WriteSize(ok)
  \/ FreeBlockBitmap(ok) \/ FreeBlockDesc(ok) \/ FreeBlockSuper(ok)
  \/ ClearInode(ok) \/ FreeInodeBitmap(ok) \/ FreeInodeDesc(ok) \/ FreeInodeSuper(ok)

\* None of them begins or ends with a name whose link is pending.
LEMMA NoLinkPending ==
  ASSUME Good, NEW ok \in BOOLEAN, Request \/ Local \/ Mount \/ Unlinked(ok)
  PROVE  /\ \A d : LinkOff(d) = 0 /\ LinkOff(d)' = 0
         /\ faults' \in {faults, faults + 1}
<1>1. CASE Request
  <2>1. pc = "idle" /\ pc' # "write_parent" /\ faults' = faults
    BY <1>1 DEF Request, Create, WriteFile, DeleteFile
  <2>2. QED
    BY <2>1 DEF LinkOff
<1>2. CASE Local
  <2>1. /\ pc \in {"block_bitmap", "inode_bitmap", "add_entry", "write_alloc", "set_block", "free_bitmap"}
        /\ pc' \in {"idle", "block_bitmap", "write_data", "write_alloc", "free_bitmap"} /\ faults' = faults
    BY <1>2 DEF Local, DiskFull, InodesFull, GrowDirectory, WriteAlloc, SetDirect, NeedTable,
                SkipNull, Finish, NextFree
  <2>2. QED
    BY <2>1 DEF LinkOff
<1>3. CASE Mount
  <2>1. pc \in {"idle", "down"} /\ pc' = "idle" /\ faults' = faults
    BY <1>3 DEF Mount
  <2>2. QED
    BY <2>1 DEF LinkOff
<1>4. CASE AllocBlockZero(ok)
  <2>1. pc = "block_zero" /\ faults' \in {faults, faults + 1}
    BY <1>4 DEF AllocBlockZero, Count
  <2>2. op.want \in DOMAIN Resume
    BY <2>1, GoodParts DEF LocalsOK, Allocating
  <2>3. pc' \in {"idle", "set_block", "link_child", "write_dots", "new_dir_block"}
    BY <1>4, <2>2 DEF AllocBlockZero, Proceed, Finish, Resume
  <2>4. QED
    BY <2>1, <2>3 DEF LinkOff
<1>5. CASE \/ AllocBlockBitmap(ok) \/ AllocBlockDesc(ok) \/ AllocBlockSuper(ok)
           \/ AllocInodeBitmap(ok) \/ AllocInodeDesc(ok) \/ AllocInodeSuper(ok)
  <2>1. /\ pc \in {"block_bitmap", "block_desc", "block_super", "inode_bitmap", "inode_desc", "inode_super"}
        /\ faults' \in {faults, faults + 1}
    BY <1>5 DEF AllocBlockBitmap, AllocBlockDesc, AllocBlockSuper, AllocInodeBitmap, AllocInodeDesc,
                AllocInodeSuper, Count
  <2>2. pc' \in {"idle", "block_desc", "block_super", "block_zero", "inode_desc", "inode_super",
                 "block_bitmap", "write_new"}
    BY <1>5 DEF AllocBlockBitmap, AllocBlockDesc, AllocBlockSuper, AllocInodeBitmap, AllocInodeDesc,
                AllocInodeSuper, Proceed, Finish
  <2>3. QED
    BY <2>1, <2>2 DEF LinkOff
<1>6. CASE \/ WriteDots(ok) \/ WriteNewInode(ok) \/ SetIndirect(ok) \/ LinkChild(ok) \/ WriteData(ok)
           \/ WriteSize(ok) \/ ClearInode(ok)
  <2>1. /\ pc \in {"write_dots", "write_new", "set_block", "link_child", "write_data", "free_bitmap"}
        /\ faults' \in {faults, faults + 1}
    BY <1>6 DEF WriteDots, WriteNewInode, SetIndirect, LinkChild, WriteData, WriteSize, ClearInode, Count
  <2>2. pc' \in {"idle", "write_new", "add_entry", "write_alloc", "set_block", "write_data", "ifree_bitmap"}
    BY <1>6 DEF WriteDots, WriteNewInode, SetIndirect, LinkChild, WriteData, WriteSize, ClearInode,
                Proceed, Finish
  <2>3. QED
    BY <2>1, <2>2 DEF LinkOff
<1>7. CASE \/ FreeBlockBitmap(ok) \/ FreeBlockDesc(ok) \/ FreeBlockSuper(ok)
           \/ FreeInodeBitmap(ok) \/ FreeInodeDesc(ok) \/ FreeInodeSuper(ok)
  <2>1. /\ pc \in {"free_bitmap", "free_desc", "free_super", "ifree_bitmap", "ifree_desc", "ifree_super"}
        /\ faults' \in {faults, faults + 1}
    BY <1>7 DEF FreeBlockBitmap, FreeBlockDesc, FreeBlockSuper, FreeInodeBitmap, FreeInodeDesc,
                FreeInodeSuper, Count
  <2>2. pc' \in {"idle", "free_bitmap", "free_desc", "free_super", "ifree_desc", "ifree_super"}
    BY <1>7 DEF FreeBlockBitmap, FreeBlockDesc, FreeBlockSuper, FreeInodeBitmap, FreeInodeDesc,
                FreeInodeSuper, NextFree, Proceed, Finish
  <2>3. QED
    BY <2>1, <2>2 DEF LinkOff
<1>8. CASE NewDirBlock(ok)
  <2>1. pc = "new_dir_block" /\ faults' \in {faults, faults + 1} /\ inode' = inode
    BY <1>8 DEF NewDirBlock, Count
  <2>2. CASE ok
    <3>1. op' = [op EXCEPT !.parent.direct[op.parent.size] = op.phys, !.parent.size = @ + 1]
      BY <1>8, <2>2 DEF NewDirBlock, Proceed
    <3>2. op \in Operation /\ op.parent \in InodeRecord /\ op.parent.size \in Nat
      BY GoodParts, Records DEF Operation, InodeRecord
    <3>3. op'.dir = op.dir /\ op'.parent.size = op.parent.size + 1
      BY <3>1, <3>2 DEF Operation, InodeRecord
    <3>4. op.parent = inode[op.dir]
      BY <2>1, GoodParts DEF OpInv, StageOK, CreateOK, Adding
    <3>5. op'.parent # inode'[op'.dir]
      BY <2>1, <3>2, <3>3, <3>4
    <3>6. QED
      BY <2>1, <3>5 DEF LinkOff
  <2>3. CASE ~ok
    <3>1. pc' = "idle"
      BY <1>8, <2>3 DEF NewDirBlock, Proceed, Finish
    <3>2. QED
      BY <2>1, <3>1 DEF LinkOff
  <2>4. QED
    BY <2>2, <2>3
<1>9. QED
  BY <1>1, <1>2, <1>3, <1>4, <1>5, <1>6, <1>7, <1>8 DEF Unlinked

\* Whatever the outcome, they leave the link counts as right as they were.
LEMMA UnlinkedLinks ==
  ASSUME Good, NamesInv, LinksInv, NEW ok \in BOOLEAN, Request \/ Local \/ Mount \/ Unlinked(ok)
  PROVE  LinksInv'
<1>1. TypeOK
  BY GoodParts
<1>2. DirsStay
  BY RequestTree, LocalTree, FaultTree, CountsTree, InodeBitmapTree, FreshBlockTree, PointerTree,
     DataTree, SizeTree, NamelessTree DEF Unlinked
<1>3. QED
  BY <1>1, <1>2, NoLinkPending, LinksKept

\* A fault loses the link that is pending, and no other.
LEMMA FaultLinks ==
  ASSUME Good, NamesInv, LinksInv, WriteLost \/ Crash
  PROVE  LinksInv'
<1>1. TypeOK /\ DirsStay
  BY GoodParts, FaultTree
<1>2. pc' \in {"idle", "down", "free_bitmap", "ifree_bitmap"} /\ faults' = faults + 1
  BY DEF WriteLost, Crash, Finish, NextFree
<1>3. \A d : LinkOff(d)' = 0
  BY <1>2 DEF LinkOff
<1>4. QED
  BY <1>1, <1>2, <1>3, LinksKept

\* A file that loses its name was no subdirectory.
LEMMA RemoveEntryLinks ==
  ASSUME Good, NamesInv, LinksInv, NEW ok \in BOOLEAN, RemoveEntry(ok)
  PROVE  LinksInv'
<1>1. /\ EntryLeaves /\ Dirs' = Dirs /\ inode' = inode /\ TypeOK /\ pc = "remove_entry"
      /\ faults' \in {faults, faults + 1} /\ pc' \in {"free_bitmap", "idle"}
  BY RemoveEntryTree, GoodParts DEF RemoveEntry, Count, Proceed, Finish
<1>2. NewEntry.ino = op.ino /\ op.ino \notin Dirs
  BY <1>1, GoodParts DEF NewEntry, OpInv, StageOK, DeleteOK, Dirs
<1>3. \A d \in Dirs : Subs(d)' = Subs(d)
  BY <1>1, <1>2 DEF EntryLeaves, Subs
<1>4. \A d : LinkOff(d) = 0 /\ LinkOff(d)' = 0
  BY <1>1 DEF LinkOff
<1>5. SUFFICES ASSUME NEW d \in Dirs
               PROVE  LinkedIn(inode[d].links + 0, Subs(d), faults')
  BY <1>1, <1>3, <1>4 DEF LinksInv
<1>6. LinkedIn(inode[d].links + 0, Subs(d), faults)
  BY <1>4 DEF LinksInv
<1>7. inode[d].links + 0 \in Nat /\ faults \in Nat
  BY <1>1, LinkTypes
<1>8. QED
  BY <1>1, <1>6, <1>7, LinkedMoves

\* The name of a new subdirectory comes before the link it is counted by.
LEMMA AddEntryLinks ==
  ASSUME Good, NamesInv, LinksInv, NEW ok \in BOOLEAN, AddEntry(ok)
  PROVE  LinksInv'
<1>1. /\ EntryJoins /\ Dirs' = Dirs /\ inode' = inode /\ TypeOK /\ pc = "add_entry" /\ pc \in Adding
      /\ faults' = (IF ok THEN faults ELSE faults + 1)
      /\ IF ok THEN pc' = "write_parent" /\ op' = op ELSE pc' = "idle"
  BY AddEntryTree, GoodParts DEF AddEntry, Count, Proceed, Finish, Adding
<1>2. /\ op.dir \in Dirs /\ op.parent = inode[op.dir] /\ op.ino \notin Named
      /\ IF op.cmd = "create" THEN inode[op.ino] = FileInode ELSE op.cmd = "mkdir" /\ op.ino \in Dirs
  <2>1. Creating
    BY <1>1, NewEntryIs
  <2>2. QED
    BY <1>1, <2>1, GoodParts DEF OpInv, CreateOK, Creating
<1>3. PICK D \in Dirs, e0 \in {NewEntry} : D = op.dir /\ e0 = NewEntry /\ e0.ino = op.ino /\ e0 \notin Entries(inode[D])
  <2>1. NewEntry.ino = op.ino
    BY DEF NewEntry
  <2>2. \A e \in Entries(inode[op.dir]) : e.ino \in Named
    BY <1>2 DEF Named
  <2>3. QED
    BY <1>2, <2>1, <2>2
<1>4. ASSUME NEW d \in Dirs
      PROVE  /\ LinkOff(d) = 0 /\ LinkedIn(inode[d].links + 0, Subs(d), faults)
             /\ inode[d].links + 0 \in Nat /\ faults \in Nat
  <2>1. LinkOff(d) = 0
    BY <1>1 DEF LinkOff
  <2>2. LinkedIn(inode[d].links + 0, Subs(d), faults)
    BY <2>1 DEF LinksInv
  <2>3. inode[d].links + 0 \in Nat /\ faults \in Nat
    BY <1>1, LinkTypes
  <2>4. QED
    BY <2>1, <2>2, <2>3
<1>5. SUFFICES ASSUME NEW d \in Dirs
               PROVE  LinkedIn(inode[d].links + LinkOff(d)', Subs(d)', faults')
  BY <1>1 DEF LinksInv
<1>6. CASE d # D \/ op.cmd = "create"
  <2>1. Subs(d)' = Subs(d)
    <3>1. CASE d # D
      BY <1>1, <1>3, <3>1 DEF EntryJoins, Subs
    <3>2. CASE op.cmd = "create"
      <4>1. e0.ino \notin Dirs
        BY <1>2, <1>3, <3>2 DEF Dirs, FileInode, ZeroInode
      <4>2. QED
        BY <1>1, <1>3, <4>1 DEF EntryJoins, Subs
    <3>3. QED
      BY <1>6, <3>1, <3>2
  <2>2. LinkOff(d)' = 0
    BY <1>1, <1>3, <1>6 DEF LinkOff
  <2>3. LinkedIn(inode[d].links + 0, Subs(d), faults')
    BY <1>1, <1>4, LinkedMoves
  <2>4. QED
    BY <2>1, <2>2, <2>3
<1>7. CASE d = D /\ op.cmd = "mkdir"
  <2>1. Subs(d)' = Subs(d) \cup {e0} /\ e0 \notin Subs(d)
    BY <1>1, <1>2, <1>3, <1>7 DEF EntryJoins, Subs
  <2>2. PICK n \in Nat : n = inode[d].links + 0
    BY <1>4
  <2>3. LinkedIn(n + 1, Subs(d) \cup {e0}, faults) /\ LinkedIn(n, Subs(d) \cup {e0}, faults + 1)
    BY <1>4, <2>1, <2>2, LinkedMoves
  <2>4. IF ok THEN LinkOff(d)' = 1 /\ faults' = faults ELSE LinkOff(d)' = 0 /\ faults' = faults + 1
    BY <1>1, <1>2, <1>3, <1>7 DEF LinkOff
  <2>5. n = inode[d].links
    BY <1>1, <2>2, LinkTypes
  <2>6. QED
    BY <2>1, <2>3, <2>4, <2>5
<1>8. QED
  BY <1>2, <1>6, <1>7

\* The directory's inode counts the link, or the link and the block with the name.
LEMMA ParentLinks ==
  ASSUME Good, NamesInv, LinksInv, NEW ok \in BOOLEAN, WriteParent(ok)
  PROVE  LinksInv'
<1> DEFINE L == IF op.cmd = "mkdir" THEN [op.parent EXCEPT !.links = @ + 1] ELSE op.parent
<1>1. /\ TypeOK /\ Dirs' = Dirs /\ pc = "write_parent" /\ pc \in Adding
      /\ inode' = [inode EXCEPT ![op.dir] = L] /\ op.parent \in InodeRecord
      /\ faults' \in {faults, faults + 1} /\ pc' \in {"idle", "write_alloc"}
      /\ IF op.parent = inode[op.dir] THEN EntriesStay ELSE EntryJoins /\ op.ino \notin Named
  BY ParentTree, GoodParts DEF WriteParent, Adding, Operation, Count, Proceed, Finish
<1>2. /\ op.dir \in Dirs /\ op.dir \in Inode
      /\ IF op.cmd = "create" THEN inode[op.ino] = FileInode ELSE op.cmd = "mkdir" /\ op.ino \in Dirs
      /\ op.parent = inode[op.dir] \/ Grown
  <2>1. Creating
    BY <1>1, NewEntryIs
  <2>2. QED
    BY <1>1, <2>1, GoodParts DEF OpInv, CreateOK, Creating, TypeOK, Dirs
<1>3. L.links = op.parent.links + (IF op.cmd = "mkdir" THEN 1 ELSE 0)
  BY <1>1, Records DEF InodeRecord
<1>4. op.parent.links = inode[op.dir].links
  BY <1>1, <1>2 DEF Grown, TypeOK, InodeRecord
<1>5. inode'[op.dir] = L /\ \A i \in Inode : i # op.dir => inode'[i] = inode[i]
  BY <1>1, <1>2 DEF TypeOK
<1> HIDE DEF L
<1>6. \A d : LinkOff(d)' = 0
  BY <1>1 DEF LinkOff
<1>7. SUFFICES ASSUME NEW d \in Dirs
               PROVE  LinkedIn(inode'[d].links + 0, Subs(d)', faults')
  BY <1>1, <1>6 DEF LinksInv
<1>8. /\ LinkedIn(inode[d].links + LinkOff(d), Subs(d), faults) /\ d \in Inode
      /\ inode[d].links \in Nat /\ LinkOff(d) \in {0, 1} /\ faults \in Nat
  BY <1>1, LinkTypes DEF LinksInv, Dirs, TypeOK
<1>9. PICK n \in Nat : n = inode[d].links + LinkOff(d)
  BY <1>8
<1>10. LinkedIn(n, Subs(d), faults')
  BY <1>1, <1>8, <1>9, LinkedMoves
<1>11. CASE d # op.dir \/ op.cmd = "create"
  <2>1. LinkOff(d) = 0
    BY <1>11 DEF LinkOff
  <2>2. inode'[d].links + 0 = n
    <3>1. inode'[d].links = inode[d].links
      <4>1. CASE d # op.dir
        BY <1>5, <1>8, <4>1
      <4>2. CASE d = op.dir
        BY <1>3, <1>4, <1>5, <1>8, <1>11, <4>2
      <4>3. QED
        BY <4>1, <4>2
    <3>2. QED
      BY <1>8, <1>9, <2>1, <3>1
  <2>3. Subs(d)' = Subs(d)
    <3>1. CASE op.parent = inode[op.dir]
      BY <1>1, <3>1 DEF EntriesStay, Subs
    <3>2. CASE op.parent # inode[op.dir] /\ d # op.dir
      BY <1>1, <3>2 DEF EntryJoins, Subs
    <3>3. CASE op.parent # inode[op.dir] /\ op.cmd = "create"
      <4>1. NewEntry.ino = op.ino /\ op.ino \notin Dirs
        BY <1>2, <3>3 DEF NewEntry, Dirs, FileInode, ZeroInode
      <4>2. QED
        BY <1>1, <3>3, <4>1 DEF EntryJoins, Subs
    <3>4. QED
      BY <1>11, <3>1, <3>2, <3>3
  <2>4. QED
    BY <1>10, <2>2, <2>3
<1>12. CASE d = op.dir /\ op.cmd = "mkdir" /\ op.parent = inode[op.dir]
  <2>1. LinkOff(d) = 1
    BY <1>1, <1>12 DEF LinkOff
  <2>2. inode'[d].links + 0 = n
    BY <1>3, <1>4, <1>5, <1>8, <1>9, <1>12, <2>1
  <2>3. Subs(d)' = Subs(d)
    BY <1>1, <1>12 DEF EntriesStay, Subs
  <2>4. QED
    BY <1>10, <2>2, <2>3
<1>13. CASE d = op.dir /\ op.cmd = "mkdir" /\ op.parent # inode[op.dir]
  <2>1. LinkOff(d) = 0
    BY <1>13 DEF LinkOff
  <2>2. inode'[d].links + 0 = n + 1
    <3>1. inode'[d].links = L.links /\ L.links = op.parent.links + 1
      BY <1>3, <1>5, <1>13
    <3>2. op.parent.links = inode[d].links
      BY <1>4, <1>13
    <3>3. inode'[d].links = inode[d].links + 1 /\ n = inode[d].links + 0
      BY <1>9, <2>1, <3>1, <3>2
    <3>4. QED
      BY <1>8, <3>3
  <2>3. PICK e0 \in {NewEntry} : e0 = NewEntry /\ e0.ino = op.ino
    BY DEF NewEntry
  <2>4. Subs(d)' = Subs(d) \cup {e0}
    BY <1>1, <1>2, <1>13, <2>3 DEF EntryJoins, Subs
  <2>5. e0 \notin Subs(d)
    <3>1. \A e \in Entries(inode[d]) : e.ino \in Named
      BY DEF Named
    <3>2. QED
      BY <1>1, <1>13, <2>3, <3>1 DEF Subs
  <2>6. faults' \in Nat
    BY <1>1, <1>8
  <2>7. LinkedIn(n + 1, Subs(d) \cup {e0}, faults')
    BY <1>10, <2>5, <2>6, LinkedMoves
  <2>8. QED
    BY <2>2, <2>4, <2>7
<1>14. QED
  BY <1>2, <1>11, <1>12, <1>13

\* The root mkfs makes has its two links and no subdirectory.
LEMMA InitLinks == Init => LinksInv
<1> SUFFICES ASSUME Init, NEW d \in Dirs
             PROVE  LinkedIn(inode[d].links + LinkOff(d), Subs(d), faults)
  BY DEF LinksInv
<1>0. d \in Inode /\ inode[d].type = "dir"
  BY Ext2Assumption DEF Init, Dirs
<1>1. inode[d] = DirInode(1)
  BY <1>0 DEF Init, ZeroInode
<1>2. inode[d].links = 2 /\ DirBlocks(inode[d]) = {1}
  <2>1. DirInode(1).links = 2
    BY DEF DirInode, ZeroInode
  <2>2. 1 \in Block
    BY Ext2Assumption DEF Block
  <2>3. blk[1].table = ZeroTable
    BY <2>2 DEF Init, ZeroBlock
  <2>4. QED
    BY <1>1, <2>1, <2>3, NewInodeRefs
<1>3. blk[1].ents = {}
  BY Ext2Assumption DEF Init, Block, ZeroBlock
<1>4. Subs(d) = {}
  BY <1>2, <1>3, EntriesIn DEF Subs, HasIn
<1>5. LinkOff(d) = 0 /\ faults = 0
  BY DEF Init, LinkOff
<1>6. inode[d].links + LinkOff(d) = 2
  BY <1>2, <1>5
<1>7. QED
  BY <1>4, <1>5, <1>6, LinkedEmpty

\* Every step keeps the link counts within the faults.
LEMMA LinksStep ==
  ASSUME Good, NamesInv, LinksInv, Next
  PROVE  LinksInv'
<1>1. ASSUME NEW ok \in BOOLEAN, Write(ok)
      PROVE  LinksInv'
  BY <1>1, UnlinkedLinks, RemoveEntryLinks, AddEntryLinks, ParentLinks DEF Write, Unlinked
<1>2. CASE Request \/ Local \/ Mount
  BY <1>2, UnlinkedLinks
<1>3. CASE Fault
  BY <1>1, <1>3, FaultLinks DEF Fault
<1>4. QED
  BY <1>1, <1>2, <1>3 DEF Next

\* A step of nobody links nothing.
LEMMA StutterLinks == LinksInv /\ UNCHANGED vars => LinksInv'
<1> SUFFICES ASSUME LinksInv, UNCHANGED vars
             PROVE  LinksInv'
  OBVIOUS
<1>1. /\ pc' = pc /\ op' = op /\ iused' = iused /\ inode' = inode /\ blk' = blk /\ faults' = faults
  BY DEF vars
<1>2. Dirs' = Dirs
  BY <1>1 DEF Dirs
<1>3. \A d : Entries(inode[d])' = Entries(inode[d])
  BY <1>1 DEF Entries, DirBlocks
<1>4. \A d : Subs(d)' = Subs(d)
  BY <1>2, <1>3 DEF Subs
<1>5. \A d : LinkOff(d)' = LinkOff(d)
  BY <1>1 DEF LinkOff
<1>6. QED
  BY <1>1, <1>2, <1>4, <1>5 DEF LinksInv

\* At every step the links of a directory, with the one that is still to be written, are those
\* of its subdirectories, but for one for each fault.
THEOREM LinksInvariant == Spec => []LinksInv
<1>1. Good /\ NamesInv /\ LinksInv /\ [Next]_vars => LinksInv'
  BY LinksStep, StutterLinks
<1>2. TypeInv /\ SafeInv /\ FileInv /\ NamesInv /\ LinksInv /\ [Next]_vars => LinksInv'
  BY <1>1 DEF Good
<1>3. QED
  BY <1>2, InitLinks, TypeInvariant, SafeInvariant, FileInvariant, NamesInvariant, PTL DEF Spec

\* For every disk and every history of faults: a directory never has a link too many and at
\* most one too few for each fault (ext2_create_directory writes the name first, the parent's
\* inode with the link last, and a deletion never takes a directory).
THEOREM LinksDriftByFaults == Spec => []LinksDrift
<1>1. TypeOK /\ LinksInv => LinksDrift
  <2> SUFFICES ASSUME TypeOK, LinksInv, NEW d \in Named \cap Dirs
               PROVE  LET subdirs == Cardinality({e \in Entries(inode[d]) : e.ino \in Dirs})
                          running == IF pc = "write_parent" /\ op.dir = d THEN 1 ELSE 0
                      IN  inode[d].links \in (2 + subdirs - faults - running) .. (2 + subdirs)
    BY DEF LinksDrift
  <2>1. LinkedIn(inode[d].links + LinkOff(d), Subs(d), faults)
    BY DEF LinksInv
  <2>2. PICK c \in Nat : c = Cardinality(Subs(d))
    BY <2>1, FS_CardinalityType DEF LinkedIn
  <2>3. inode[d].links \in Nat /\ faults \in Nat /\ LinkOff(d) \in {0, 1}
    BY LinkTypes
  <2>4. PICK r \in {0, 1} : r = IF pc = "write_parent" /\ op.dir = d THEN 1 ELSE 0
    OBVIOUS
  <2>5. LinkOff(d) <= r
    BY <2>4 DEF LinkOff
  <2>6. inode[d].links \in (2 + c - faults - r) .. (2 + c)
    BY <2>1, <2>2, <2>3, <2>5 DEF LinkedIn
  <2>7. QED
    BY <2>2, <2>4, <2>6 DEF Subs
<1>2. TypeInv => TypeOK
  BY DEF TypeInv
<1>3. QED
  BY <1>1, <1>2, LinksInvariant, TypeInvariant, PTL
==============================================================================
