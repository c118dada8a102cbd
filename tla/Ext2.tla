-------------------------------- MODULE Ext2 --------------------------------
(***************************************************************************)
(* The ext2 driver of kernel/ext2.c as the disk sees it: every call of     *)
(* ext2_write_block, ext2_write_inode, write_group_descriptor and          *)
(* write_superblock is one step, so that a power loss or a failing ATA     *)
(* command can fall between any two of them.                               *)
(*                                                                         *)
(* Sizes count blocks, a directory entry is a (name, inode) pair and a     *)
(* directory block holds DirSlots of them; what is inside a data block is  *)
(* the tag of the write that filled it.                                    *)
(***************************************************************************)
EXTENDS Integers, FiniteSets, Sequences

CONSTANTS
  Name,            \* names a directory entry can have
  NBlocks,         \* allocatable blocks: those mkfs leaves to files
  BlocksPerGroup,
  NInodes,
  InodesPerGroup,
  FirstIno,        \* first inode the driver may allocate (superblock.first_ino)
  NDirect,         \* direct pointers of an inode (12)
  Pointers,        \* pointers of an indirect block (block_size / 4)
  DirSlots,        \* entries a directory block has room for
  Sizes,           \* bound: the sizes writes ask for, in blocks
  MaxFaults        \* bound: failing writes and power losses in a behaviour

Root == 2
Null == 0

ASSUME Ext2Assumption ==
  /\ NBlocks \in Nat \ {0} /\ BlocksPerGroup \in Nat \ {0}
  /\ NInodes \in Nat /\ InodesPerGroup \in Nat \ {0}
  /\ FirstIno \in Nat /\ Root < FirstIno /\ Root <= NInodes
  /\ NDirect \in Nat \ {0} /\ Pointers \in Nat \ {0} /\ DirSlots \in Nat \ {0}
  /\ Sizes \subseteq Nat /\ MaxFaults \in Nat

VARIABLES
  bused, iused,    \* the block and inode bitmaps: what is marked in use
  gd,              \* group descriptors: free blocks and inodes of each group
  sb,              \* the free counts of the superblock on disk
  inode,           \* the inode table
  blk,             \* the contents of each block
  msb,             \* fs.superblock: the counts in memory
  pc, op,          \* the running operation: its next write and its locals
  faults           \* failed writes and power losses so far

disk == <<bused, iused, gd, sb, inode, blk>>
vars == <<bused, iused, gd, sb, inode, blk, msb, pc, op, faults>>

Block == 1 .. NBlocks
Inode == 1 .. NInodes
BlockGroup(b) == (b - 1) \div BlocksPerGroup
InodeGroup(i) == (i - 1) \div InodesPerGroup
Groups == {BlockGroup(b) : b \in Block} \cup {InodeGroup(i) : i \in Inode}

ZeroTable == [k \in 0 .. Pointers - 1 |-> Null]
NoOwner == <<Null, 0>>
\* A block as memset leaves it. "up" is the inode of its ".." entry.
ZeroBlock == [table |-> ZeroTable, ents |-> {}, own |-> NoOwner, up |-> Null]
ZeroInode ==
  [type |-> "none", size |-> 0, direct |-> [l \in 0 .. NDirect - 1 |-> Null],
   ind |-> Null, dbl |-> Null, links |-> 0]
FileInode == [ZeroInode EXCEPT !.type = "file", !.links = 1]
DirInode(b) ==
  [ZeroInode EXCEPT !.type = "dir", !.links = 2, !.size = 1, !.direct[0] = b]

NoGoal == -1
\* The locals of a running operation. "mine" is the inode in memory of the
\* file being written or deleted, "parent" that of the directory; "want" says
\* which variable allocate_block fills; "todo" is what is left to free.
NoOp ==
  [cmd |-> "none", dir |-> Null, name |-> Null, ino |-> Null, goal |-> NoGoal,
   logical |-> 0, phys |-> Null, new |-> Null, want |-> "none",
   mine |-> ZeroInode, parent |-> ZeroInode, todo |-> <<>>]

-----------------------------------------------------------------------------
(* What the directories name and what an inode's pointers reach.           *)

Entries(rec) == UNION {blk[rec.direct[l]].ents : l \in 0 .. rec.size - 1}
Dirs == {d \in iused : inode[d].type = "dir"}
Named == {Root} \cup {e.ino : e \in UNION {Entries(inode[d]) : d \in Dirs}}
Lookup(d, n) == {e.ino : e \in {f \in Entries(inode[d]) : f.name = n}}

\* inode_block: the block that holds block l of a file, or Null.
BlockOf(rec, l) ==
  LET via(t, k) == IF t = Null THEN Null ELSE blk[t].table[k]
  IN  IF l < NDirect THEN rec.direct[l]
      ELSE IF l < NDirect + Pointers THEN via(rec.ind, l - NDirect)
      ELSE via(via(rec.dbl, (l - NDirect - Pointers) \div Pointers),
               (l - NDirect - Pointers) % Pointers)

LargestFile == NDirect + Pointers + Pointers * Pointers

\* The pointers in the order the deletion frees them: the data below the size,
\* the indirect block, the tables of the doubly indirect block, that block.
FreeList(rec) ==
  LET data == [l \in 1 .. rec.size |-> BlockOf(rec, l - 1)]
      tables == IF rec.dbl = Null THEN <<>>
                ELSE [k \in 1 .. Pointers |-> blk[rec.dbl].table[k - 1]]
  IN  data \o <<rec.ind>> \o tables \o <<rec.dbl>>

-----------------------------------------------------------------------------
(* Steps and their failures.  A write that fails may have reached the disk *)
(* (ata_write_sectors polls the status after the data), so each writing    *)
(* action has an outcome "ok"; WriteLost is a write that did not land.     *)

Outcome == BOOLEAN
Finish == pc' = "idle" /\ op' = NoOp

\* Return -1 on failure, else go on with the next step.
Proceed(ok, next, o) == IF ok THEN pc' = next /\ op' = o ELSE Finish
Count(ok) == faults' = IF ok THEN faults ELSE faults + 1

\* Where the callers of allocate_block keep its result.
Delivered(o) ==
  CASE o.want = "indirect" -> [o EXCEPT !.mine.ind = o.new]
    [] o.want = "double"   -> [o EXCEPT !.mine.dbl = o.new]
    [] o.want = "child"    -> o
    [] OTHER               -> [o EXCEPT !.phys = o.new]
Resume ==
  [data |-> "set_block", indirect |-> "set_block", double |-> "set_block",
   child |-> "link_child", newdir |-> "write_dots", dirblock |-> "new_dir_block"]

-----------------------------------------------------------------------------
(* Slips the runs have to notice, each a definition below with one change. *)

\* FreeBlocks without the check of the group's count.
FreeBlocksByBitmap == Block \ bused

\* AllocBlockZero that forgets the memset.
AllocBlockStale(ok) ==
  /\ pc = "block_zero"
  /\ Proceed(ok, Resume[op.want], Delivered(op))
  /\ Count(ok)
  /\ UNCHANGED disk /\ UNCHANGED msb

\* Create that does not look the name up.
CreateTwice(cmd, d, n, k) ==
  /\ pc = "idle" /\ d \in Named \cap Dirs
  /\ pc' = "inode_bitmap"
  /\ op' = [NoOp EXCEPT !.cmd = cmd, !.dir = d, !.name = n, !.goal = k,
                        !.parent = inode[d]]
  /\ UNCHANGED <<disk, msb, faults>>

\* WriteDots with the new directory as its own parent.
WriteDotsSelf(ok) ==
  /\ pc = "write_dots"
  /\ blk' = [blk EXCEPT ![op.phys] = [ZeroBlock EXCEPT !.up = op.ino]]
  /\ Proceed(ok, "write_new", op)
  /\ Count(ok)
  /\ UNCHANGED <<bused, iused, gd, sb, inode, msb>>

\* WriteParent that counts a link for files too.
WriteParentLinks(ok) ==
  /\ pc = "write_parent"
  /\ inode' = [inode EXCEPT ![op.dir] = [op.parent EXCEPT !.links = @ + 1]]
  /\ Finish
  /\ Count(ok)
  /\ UNCHANGED <<bused, iused, gd, sb, blk, msb>>

\* WriteAlloc whose data loop starts at the second block.
WriteAllocSkip ==
  /\ pc = "write_alloc"
  /\ IF op.logical < op.goal
       THEN pc' = "block_bitmap" /\ op' = [op EXCEPT !.want = "data"]
       ELSE pc' = "write_data" /\ op' = [op EXCEPT !.logical = 1]
  /\ UNCHANGED <<disk, msb, faults>>

\* SkipNull as a "continue" that does not advance.
SkipNullForever ==
  /\ pc = "free_bitmap" /\ op.todo # <<>> /\ Head(op.todo) = Null
  /\ pc' = pc /\ op' = op
  /\ UNCHANGED <<disk, msb, faults>>

\* DeleteFile that frees the blocks while the name is still there.
DeleteFreesFirst(d, n) ==
  /\ pc = "idle" /\ d \in Named \cap Dirs
  /\ \E i \in Lookup(d, n) :
       /\ inode[i].type = "file"
       /\ op' = [NoOp EXCEPT !.cmd = "delete", !.dir = d, !.name = n, !.ino = i,
                             !.mine = inode[i], !.parent = inode[d],
                             !.todo = FreeList(inode[i])]
  /\ pc' = "free_bitmap"
  /\ UNCHANGED <<disk, msb, faults>>

\* DeleteFile that takes directories too.
DeleteAny(d, n) ==
  /\ pc = "idle" /\ d \in Named \cap Dirs
  /\ \E i \in Lookup(d, n) :
       op' = [NoOp EXCEPT !.cmd = "delete", !.dir = d, !.name = n, !.ino = i,
                          !.mine = inode[i], !.parent = inode[d]]
  /\ pc' = "remove_entry"
  /\ UNCHANGED <<disk, msb, faults>>

\* FreeBlockDesc that leaves the group's count alone.
FreeBlockUncounted(ok) ==
  /\ pc = "free_desc"
  /\ IF ok THEN pc' = "free_super" /\ op' = op
           ELSE pc' = "free_bitmap" /\ op' = [op EXCEPT !.todo = Tail(@)]
  /\ Count(ok)
  /\ UNCHANGED <<disk, msb>>

-----------------------------------------------------------------------------
(* allocate_block                                                          *)

FreeBlocks == {b \in Block : b \notin bused /\ gd[BlockGroup(b)].blocks > 0}
FirstFreeBlock(b) == b \in FreeBlocks /\ \A c \in FreeBlocks : b <= c

AllocBlockBitmap(ok) ==
  /\ pc = "block_bitmap"
  /\ \E b \in Block :
       /\ FirstFreeBlock(b)
       /\ bused' = bused \cup {b}
       /\ Proceed(ok, "block_desc", [op EXCEPT !.new = b])
  /\ msb' = IF ok THEN [msb EXCEPT !.blocks = @ - 1] ELSE msb
  /\ Count(ok)
  /\ UNCHANGED <<iused, gd, sb, inode, blk>>

AllocBlockDesc(ok) ==
  /\ pc = "block_desc"
  /\ gd' = [gd EXCEPT ![BlockGroup(op.new)].blocks = @ - 1]
  /\ Proceed(ok, "block_super", op)
  /\ Count(ok)
  /\ UNCHANGED <<bused, iused, sb, inode, blk, msb>>

AllocBlockSuper(ok) ==
  /\ pc = "block_super"
  /\ sb' = msb
  /\ Proceed(ok, "block_zero", op)
  /\ Count(ok)
  /\ UNCHANGED <<bused, iused, gd, inode, blk, msb>>

AllocBlockZero(ok) ==
  /\ pc = "block_zero"
  /\ blk' = [blk EXCEPT ![op.new] = ZeroBlock]
  /\ Proceed(ok, Resume[op.want], Delivered(op))
  /\ Count(ok)
  /\ UNCHANGED <<bused, iused, gd, sb, inode, msb>>

DiskFull ==
  /\ pc = "block_bitmap" /\ FreeBlocks = {}
  /\ Finish
  /\ UNCHANGED <<disk, msb, faults>>

-----------------------------------------------------------------------------
(* allocate_inode                                                          *)

FreeInodes ==
  {i \in Inode : FirstIno <= i /\ i \notin iused /\ gd[InodeGroup(i)].inodes > 0}
FirstFreeInode(i) == i \in FreeInodes /\ \A j \in FreeInodes : i <= j

AllocInodeBitmap(ok) ==
  /\ pc = "inode_bitmap"
  /\ \E i \in Inode :
       /\ FirstFreeInode(i)
       /\ iused' = iused \cup {i}
       /\ Proceed(ok, "inode_desc", [op EXCEPT !.ino = i])
  /\ msb' = IF ok THEN [msb EXCEPT !.inodes = @ - 1] ELSE msb
  /\ Count(ok)
  /\ UNCHANGED <<bused, gd, sb, inode, blk>>

AllocInodeDesc(ok) ==
  /\ pc = "inode_desc"
  /\ gd' = [gd EXCEPT ![InodeGroup(op.ino)].inodes = @ - 1]
  /\ Proceed(ok, "inode_super", op)
  /\ Count(ok)
  /\ UNCHANGED <<bused, iused, sb, inode, blk, msb>>

AllocInodeSuper(ok) ==
  /\ pc = "inode_super"
  /\ sb' = msb
  /\ IF op.cmd = "mkdir"
       THEN Proceed(ok, "block_bitmap", [op EXCEPT !.want = "newdir"])
       ELSE Proceed(ok, "write_new", op)
  /\ Count(ok)
  /\ UNCHANGED <<bused, iused, gd, inode, blk, msb>>

InodesFull ==
  /\ pc = "inode_bitmap" /\ FreeInodes = {}
  /\ Finish
  /\ UNCHANGED <<disk, msb, faults>>

-----------------------------------------------------------------------------
(* ext2_create_file and ext2_create_directory.  A goal other than NoGoal   *)
(* makes the creation the first half of ext2_write_file_by_path.           *)

Create(cmd, d, n, k) ==
  /\ pc = "idle"
  /\ d \in Named \cap Dirs /\ Lookup(d, n) = {}
  /\ pc' = "inode_bitmap"
  /\ op' = [NoOp EXCEPT !.cmd = cmd, !.dir = d, !.name = n, !.goal = k,
                        !.parent = inode[d]]
  /\ UNCHANGED <<disk, msb, faults>>

\* The block of a new directory, with its "." and ".." entries.
WriteDots(ok) ==
  /\ pc = "write_dots"
  /\ blk' = [blk EXCEPT ![op.phys] = [ZeroBlock EXCEPT !.up = op.dir]]
  /\ Proceed(ok, "write_new", op)
  /\ Count(ok)
  /\ UNCHANGED <<bused, iused, gd, sb, inode, msb>>

WriteNewInode(ok) ==
  /\ pc = "write_new"
  /\ inode' = [inode EXCEPT ![op.ino] =
                 IF op.cmd = "mkdir" THEN DirInode(op.phys) ELSE FileInode]
  /\ Proceed(ok, "add_entry", op)
  /\ Count(ok)
  /\ UNCHANGED <<bused, iused, gd, sb, blk, msb>>

-----------------------------------------------------------------------------
(* add_directory_entry: the first block with room takes the entry, else    *)
(* the directory grows by a block, which its inode names only afterwards.  *)

NewEntry == [name |-> op.name, ino |-> op.ino]
HasRoom(l) == Cardinality(blk[op.parent.direct[l]].ents) < DirSlots
Rooms == {l \in 0 .. op.parent.size - 1 : HasRoom(l)}

AddEntry(ok) ==
  /\ pc = "add_entry"
  /\ \E l \in Rooms :
       /\ \A m \in Rooms : l <= m
       /\ blk' = [blk EXCEPT ![op.parent.direct[l]].ents = @ \cup {NewEntry}]
  /\ Proceed(ok, "write_parent", op)
  /\ Count(ok)
  /\ UNCHANGED <<bused, iused, gd, sb, inode, msb>>

GrowDirectory ==
  /\ pc = "add_entry" /\ Rooms = {}
  /\ IF op.parent.size < NDirect
       THEN pc' = "block_bitmap" /\ op' = [op EXCEPT !.want = "dirblock"]
       ELSE Finish
  /\ UNCHANGED <<disk, msb, faults>>

NewDirBlock(ok) ==
  /\ pc = "new_dir_block"
  /\ blk' = [blk EXCEPT ![op.phys] = [ZeroBlock EXCEPT !.ents = {NewEntry}]]
  /\ Proceed(ok, "write_parent",
             [op EXCEPT !.parent.direct[op.parent.size] = op.phys,
                        !.parent.size = @ + 1])
  /\ Count(ok)
  /\ UNCHANGED <<bused, iused, gd, sb, inode, msb>>

\* The parent's inode, with one more link for a subdirectory's "..".
WriteParent(ok) ==
  /\ pc = "write_parent"
  /\ inode' = [inode EXCEPT ![op.dir] =
                 IF op.cmd = "mkdir" THEN [op.parent EXCEPT !.links = @ + 1]
                                     ELSE op.parent]
  /\ IF op.goal \notin 0 .. LargestFile
       THEN Finish
       ELSE Proceed(ok, "write_alloc",
                    [NoOp EXCEPT !.cmd = "write", !.ino = op.ino,
                                 !.goal = op.goal, !.mine = inode[op.ino]])
  /\ Count(ok)
  /\ UNCHANGED <<bused, iused, gd, sb, blk, msb>>

-----------------------------------------------------------------------------
(* ext2_write_file: new blocks first, then every data block, then the      *)
(* inode.  A shorter size is refused.                                      *)

WriteFile(d, n, k) ==
  /\ pc = "idle" /\ d \in Named \cap Dirs
  /\ \E i \in Lookup(d, n) :
       /\ inode[i].type = "file" /\ inode[i].size <= k /\ k <= LargestFile
       /\ op' = [NoOp EXCEPT !.cmd = "write", !.ino = i, !.goal = k,
                             !.mine = inode[i], !.logical = inode[i].size]
  /\ pc' = "write_alloc"
  /\ UNCHANGED <<disk, msb, faults>>

\* The first loop: one more block, or on to the data.
WriteAlloc ==
  /\ pc = "write_alloc"
  /\ IF op.logical < op.goal
       THEN pc' = "block_bitmap" /\ op' = [op EXCEPT !.want = "data"]
       ELSE pc' = "write_data" /\ op' = [op EXCEPT !.logical = 0]
  /\ UNCHANGED <<disk, msb, faults>>

NextLogical(o) == [o EXCEPT !.logical = @ + 1, !.phys = Null, !.new = Null]

\* set_inode_block: a direct pointer is set in the inode in memory.
SetDirect ==
  /\ pc = "set_block" /\ op.logical < NDirect
  /\ pc' = "write_alloc"
  /\ op' = NextLogical([op EXCEPT !.mine.direct[op.logical] = op.phys])
  /\ UNCHANGED <<disk, msb, faults>>

\* ... and a missing indirect block is allocated first.
Child == (op.logical - NDirect - Pointers) \div Pointers
InSingle(l) == NDirect <= l /\ l < NDirect + Pointers
MissingTable ==
  IF InSingle(op.logical)
    THEN IF op.mine.ind = Null THEN "indirect" ELSE "none"
    ELSE IF op.mine.dbl = Null THEN "double"
    ELSE IF blk[op.mine.dbl].table[Child] = Null THEN "child" ELSE "none"

NeedTable ==
  /\ pc = "set_block" /\ NDirect <= op.logical /\ MissingTable # "none"
  /\ pc' = "block_bitmap" /\ op' = [op EXCEPT !.want = MissingTable]
  /\ UNCHANGED <<disk, msb, faults>>

SetIndirect(ok) ==
  /\ pc = "set_block" /\ NDirect <= op.logical /\ MissingTable = "none"
  /\ LET single == InSingle(op.logical)
         t == IF single THEN op.mine.ind ELSE blk[op.mine.dbl].table[Child]
         k == IF single THEN op.logical - NDirect
                        ELSE (op.logical - NDirect - Pointers) % Pointers
     IN  blk' = [blk EXCEPT ![t].table[k] = op.phys]
  /\ Proceed(ok, "write_alloc", NextLogical(op))
  /\ Count(ok)
  /\ UNCHANGED <<bused, iused, gd, sb, inode, msb>>

\* The new table of a doubly indirect block is linked as soon as it is zeroed.
LinkChild(ok) ==
  /\ pc = "link_child"
  /\ blk' = [blk EXCEPT ![op.mine.dbl].table[Child] = op.new]
  /\ Proceed(ok, "set_block", op)
  /\ Count(ok)
  /\ UNCHANGED <<bused, iused, gd, sb, inode, msb>>

WriteData(ok) ==
  /\ pc = "write_data" /\ op.logical < op.goal
  /\ blk' = [blk EXCEPT ![BlockOf(op.mine, op.logical)] =
               [ZeroBlock EXCEPT !.own = <<op.ino, op.logical>>]]
  /\ Proceed(ok, "write_data", NextLogical(op))
  /\ Count(ok)
  /\ UNCHANGED <<bused, iused, gd, sb, inode, msb>>

WriteSize(ok) ==
  /\ pc = "write_data" /\ op.logical = op.goal
  /\ inode' = [inode EXCEPT ![op.ino] = [op.mine EXCEPT !.size = op.goal]]
  /\ Finish
  /\ Count(ok)
  /\ UNCHANGED <<bused, iused, gd, sb, blk, msb>>

-----------------------------------------------------------------------------
(* ext2_delete_file_by_path: the entry goes first, then every block, then  *)
(* the inode.  A failure after the first write is ignored.                 *)

DeleteFile(d, n) ==
  /\ pc = "idle" /\ d \in Named \cap Dirs
  /\ \E i \in Lookup(d, n) :
       /\ inode[i].type = "file"
       /\ op' = [NoOp EXCEPT !.cmd = "delete", !.dir = d, !.name = n, !.ino = i,
                             !.mine = inode[i], !.parent = inode[d]]
  /\ pc' = "remove_entry"
  /\ UNCHANGED <<disk, msb, faults>>

RemoveEntry(ok) ==
  /\ pc = "remove_entry"
  /\ \E l \in 0 .. op.parent.size - 1 :
       /\ NewEntry \in blk[op.parent.direct[l]].ents
       /\ blk' = [blk EXCEPT ![op.parent.direct[l]].ents = @ \ {NewEntry}]
  /\ Proceed(ok, "free_bitmap", [op EXCEPT !.todo = FreeList(op.mine)])
  /\ Count(ok)
  /\ UNCHANGED <<bused, iused, gd, sb, inode, msb>>

\* free_block; its caller takes the next block whatever it returns.
NextFree == pc' = "free_bitmap" /\ op' = [op EXCEPT !.todo = Tail(@)]
Victim == Head(op.todo)

SkipNull ==
  /\ pc = "free_bitmap" /\ op.todo # <<>> /\ Victim = Null
  /\ NextFree
  /\ UNCHANGED <<disk, msb, faults>>

FreeBlockBitmap(ok) ==
  /\ pc = "free_bitmap" /\ op.todo # <<>> /\ Victim # Null
  /\ bused' = bused \ {Victim}
  /\ IF ok THEN pc' = "free_desc" /\ op' = op ELSE NextFree
  /\ msb' = IF ok THEN [msb EXCEPT !.blocks = @ + 1] ELSE msb
  /\ Count(ok)
  /\ UNCHANGED <<iused, gd, sb, inode, blk>>

FreeBlockDesc(ok) ==
  /\ pc = "free_desc"
  /\ gd' = [gd EXCEPT ![BlockGroup(Victim)].blocks = @ + 1]
  /\ IF ok THEN pc' = "free_super" /\ op' = op ELSE NextFree
  /\ Count(ok)
  /\ UNCHANGED <<bused, iused, sb, inode, blk, msb>>

FreeBlockSuper(ok) ==
  /\ pc = "free_super"
  /\ sb' = msb
  /\ NextFree
  /\ Count(ok)
  /\ UNCHANGED <<bused, iused, gd, inode, blk, msb>>

ClearInode(ok) ==
  /\ pc = "free_bitmap" /\ op.todo = <<>>
  /\ inode' = [inode EXCEPT ![op.ino] = ZeroInode]
  /\ pc' = "ifree_bitmap" /\ op' = op
  /\ Count(ok)
  /\ UNCHANGED <<bused, iused, gd, sb, blk, msb>>

FreeInodeBitmap(ok) ==
  /\ pc = "ifree_bitmap"
  /\ iused' = iused \ {op.ino}
  /\ Proceed(ok, "ifree_desc", op)
  /\ msb' = IF ok THEN [msb EXCEPT !.inodes = @ + 1] ELSE msb
  /\ Count(ok)
  /\ UNCHANGED <<bused, gd, sb, inode, blk>>

FreeInodeDesc(ok) ==
  /\ pc = "ifree_desc"
  /\ gd' = [gd EXCEPT ![InodeGroup(op.ino)].inodes = @ + 1]
  /\ Proceed(ok, "ifree_super", op)
  /\ Count(ok)
  /\ UNCHANGED <<bused, iused, sb, inode, blk, msb>>

FreeInodeSuper(ok) ==
  /\ pc = "ifree_super"
  /\ sb' = msb
  /\ Finish
  /\ Count(ok)
  /\ UNCHANGED <<bused, iused, gd, inode, blk, msb>>

-----------------------------------------------------------------------------
(* Failures, power loss and ext2_mount.                                    *)

Freeing == {"free_bitmap", "free_desc", "free_super"}
Writing ==
  {"block_bitmap", "block_desc", "block_super", "block_zero", "inode_bitmap",
   "inode_desc", "inode_super", "write_dots", "write_new", "add_entry",
   "new_dir_block", "write_parent", "set_block", "link_child", "write_data",
   "remove_entry", "ifree_bitmap", "ifree_desc", "ifree_super"} \cup Freeing

\* A read or a write fails and leaves the disk as it was.
WriteLost ==
  /\ pc \in Writing
  /\ IF pc \notin Freeing THEN Finish
     ELSE IF op.todo # <<>> THEN NextFree
     ELSE pc' = "ifree_bitmap" /\ op' = op
  /\ faults' = faults + 1
  /\ UNCHANGED <<disk, msb>>

Crash ==
  /\ pc \in Writing
  /\ pc' = "down" /\ op' = NoOp
  /\ faults' = faults + 1
  /\ UNCHANGED <<disk, msb>>

\* At boot and by the fs command: the counts come back from the disk.
Mount ==
  /\ pc \in {"idle", "down"}
  /\ pc' = "idle"
  /\ msb' = sb
  /\ UNCHANGED <<disk, op, faults>>

-----------------------------------------------------------------------------
FreeInGroup(g) ==
  [blocks |-> Cardinality({b \in Block \ bused : BlockGroup(b) = g}),
   inodes |-> Cardinality({i \in Inode \ iused : InodeGroup(i) = g})]
FreeInAll ==
  [blocks |-> Cardinality(Block \ bused), inodes |-> Cardinality(Inode \ iused)]

\* The image mkfs makes: an empty root directory in block 1.
Init ==
  /\ bused = {1} /\ iused = {i \in Inode : i < FirstIno}
  /\ gd = [g \in Groups |-> FreeInGroup(g)]
  /\ sb = FreeInAll
  /\ inode = [i \in Inode |-> IF i = Root THEN DirInode(1) ELSE ZeroInode]
  /\ blk = [b \in Block |-> IF b = 1 THEN [ZeroBlock EXCEPT !.up = Root]
                                     ELSE ZeroBlock]
  /\ msb = sb
  /\ pc = "idle" /\ op = NoOp /\ faults = 0

Request ==
  \E d \in Inode, n \in Name :
    \/ Create("create", d, n, NoGoal)
    \/ Create("mkdir", d, n, NoGoal)
    \/ \E k \in Sizes : Create("create", d, n, k) \/ WriteFile(d, n, k)
    \/ DeleteFile(d, n)

Local ==
  \/ DiskFull \/ InodesFull \/ GrowDirectory \/ WriteAlloc \/ SetDirect \/ NeedTable
  \/ SkipNull

Write(ok) ==
  \/ AllocBlockBitmap(ok) \/ AllocBlockDesc(ok) \/ AllocBlockSuper(ok) \/ AllocBlockZero(ok)
  \/ AllocInodeBitmap(ok) \/ AllocInodeDesc(ok) \/ AllocInodeSuper(ok)
  \/ WriteDots(ok) \/ WriteNewInode(ok)
  \/ AddEntry(ok) \/ NewDirBlock(ok) \/ WriteParent(ok)
  \/ SetIndirect(ok) \/ LinkChild(ok) \/ WriteData(ok) \/ WriteSize(ok)
  \/ RemoveEntry(ok) \/ FreeBlockBitmap(ok) \/ FreeBlockDesc(ok) \/ FreeBlockSuper(ok)
  \/ ClearInode(ok) \/ FreeInodeBitmap(ok) \/ FreeInodeDesc(ok) \/ FreeInodeSuper(ok)

Fault == faults < MaxFaults /\ (WriteLost \/ Crash \/ Write(FALSE))

Next == Request \/ Local \/ Write(TRUE) \/ Fault \/ Mount

Spec == Init /\ [][Next]_vars
\* A started operation runs on: the kernel's thread does nothing else.
FairSpec == Spec /\ WF_vars(Local \/ Write(TRUE))
-----------------------------------------------------------------------------
(* What has to hold.                                                       *)

Ptr == Block \cup {Null}
InodeRecord ==
  [type : {"none", "file", "dir"}, size : 0 .. LargestFile,
   direct : [0 .. NDirect - 1 -> Ptr], ind : Ptr, dbl : Ptr, links : Nat]
\* A directory's blocks are all named by direct pointers.
DirFits(rec) == rec.size <= NDirect /\ \A l \in 0 .. rec.size - 1 : rec.direct[l] # Null
Entry == [name : Name, ino : Inode]
BlockRecord ==
  [table : [0 .. Pointers - 1 -> Ptr], ents : SUBSET Entry,
   own : (Inode \cup {Null}) \X Nat, up : Inode \cup {Null}]
FreeCounts == [blocks : Int, inodes : Int]
GroupCounts == [blocks : Nat, inodes : Nat]
Operation ==
  [cmd : {"none", "create", "mkdir", "write", "delete"}, dir : Inode \cup {Null},
   name : Name \cup {Null}, ino : Inode \cup {Null}, goal : Int, logical : Nat,
   phys : Ptr, new : Ptr, want : {"none"} \cup DOMAIN Resume,
   mine : InodeRecord, parent : InodeRecord, todo : Seq(Ptr)]

\* Every variable keeps its type: pointers stay on the disk, and the 16-bit free
\* counts of a group never go below zero, however far faults made them drift.
TypeOK ==
  /\ bused \subseteq Block /\ iused \subseteq Inode
  /\ gd \in [Groups -> GroupCounts] /\ sb \in FreeCounts /\ msb \in FreeCounts
  /\ inode \in [Inode -> InodeRecord]
  /\ \A i \in Inode : inode[i].type = "dir" => DirFits(inode[i])
  /\ blk \in [Block -> BlockRecord]
  /\ pc \in {"idle", "down", "write_alloc"} \cup Writing
  /\ op \in Operation
  /\ faults \in Nat

\* The blocks an inode's pointers reach: tables of pointers, and all of them.
Kids(t) == IF t = Null THEN {} ELSE {blk[t].table[k] : k \in 0 .. Pointers - 1} \ {Null}
Tables(rec) == ({rec.ind, rec.dbl} \cup Kids(rec.dbl)) \ {Null}
Refs(rec) ==
  ({rec.direct[l] : l \in 0 .. NDirect - 1} \cup Tables(rec)
     \cup UNION {Kids(t) : t \in Tables(rec)}) \ {Null}

\* Whatever a directory names exists and is marked in use, with every block its
\* pointers reach, at every write a power loss may follow: allocate_block and
\* allocate_inode mark the bitmaps first, deletion unlinks the name first.
NamedIsAllocated ==
  \A i \in Named : /\ i \in iused /\ inode[i].type # "none"
                   /\ Refs(inode[i]) \subseteq bused

\* No block belongs to two named inodes, nor to a file both as data and as a
\* table: a block freed by a deletion, or leaked by a failed write, never
\* comes back while something still points at it.
NoSharedBlock ==
  \A i \in Named :
    /\ \A j \in Named \ {i} : Refs(inode[i]) \cap Refs(inode[j]) = {}
    /\ \A l, m \in 0 .. inode[i].size - 1 :
         /\ l # m => BlockOf(inode[i], l) # BlockOf(inode[i], m)
         /\ BlockOf(inode[i], l) \notin Tables(inode[i])

\* A name is bound once in its directory, and an inode to one name: there are
\* no hard links, and a retried creation finds the first one's entry.
OneName ==
  \A d, c \in Dirs : \A e \in Entries(inode[d]), f \in Entries(inode[c]) :
    (e.ino = f.ino \/ (d = c /\ e.name = f.name)) => (d = c /\ e = f)

\* Every block below a named file's size holds what was written to that place of
\* that file: never a block of zeros, another file's data or a pointer table,
\* although the size is written in one step and the blocks in many.
FileIntact ==
  \A i \in Named : inode[i].type = "file" =>
    \A l \in 0 .. inode[i].size - 1 :
      LET b == BlockOf(inode[i], l) IN b # Null /\ blk[b].own = <<i, l>>

\* A named directory has its ".." entry, pointing at the directory that names it.
DotDotIntact ==
  \A d \in Named \cap Dirs : \A e \in Entries(inode[d]) :
    e.ino \in Dirs => blk[inode[e.ino].direct[0]].up = d

\* The link count of a directory never counts a subdirectory that is not there,
\* and misses at most one for each fault (ext2_create_directory raises it last).
LinksDrift ==
  \A d \in Named \cap Dirs :
    LET subdirs == Cardinality({e \in Entries(inode[d]) : e.ino \in Dirs})
        running == IF pc = "write_parent" /\ op.dir = d THEN 1 ELSE 0
    IN  inode[d].links \in (2 + subdirs - faults - running) .. (2 + subdirs)

\* Between operations the free counts of a group and of the superblock differ
\* from the bitmaps by at most one for each fault so far: nothing but a failed
\* write or a power loss makes them drift, and one makes them drift by one.
CountDrift ==
  LET Near(x, y) == x - y \in -faults .. faults IN
  pc = "idle" =>
    /\ \A g \in Groups : /\ Near(gd[g].blocks, FreeInGroup(g).blocks)
                         /\ Near(gd[g].inodes, FreeInGroup(g).inodes)
    /\ Near(msb.blocks, FreeInAll.blocks) /\ Near(msb.inodes, FreeInAll.inodes)

\* Every operation ends, with a result or with an error, unless power is lost:
\* the loops of ext2_write_file, set_inode_block and the deletion make progress.
OperationEnds == pc \notin {"idle", "down"} ~> pc \in {"idle", "down"}

\* Deleting a file without a fault frees every block its inode reached.
DeleteFreesFile ==
  pc = "ifree_super" /\ faults = 0 => Refs(op.mine) \cap bused = {}
-----------------------------------------------------------------------------
(* The tree of names the disk holds, as the next mount would find it.      *)

TreeEdges ==
  UNION {{[dir |-> d, name |-> e.name, ino |-> e.ino] : e \in Entries(inode[d])} :
         d \in Named \cap Dirs}
TreeNodes ==
  [i \in Named |-> [kind |-> inode[i].type,
                    size |-> IF inode[i].type = "file" THEN inode[i].size ELSE 0]]
Tree == INSTANCE FileTree WITH tree <- TreeEdges, node <- TreeNodes

\* The disk implements the tree: each write changes it by at most one name or one
\* size, and a power loss, a failed write or a mount changes nothing.
ImplementsTree == Tree!Spec
=============================================================================
