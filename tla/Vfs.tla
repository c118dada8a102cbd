---------------------------------- MODULE Vfs ----------------------------------
(***************************************************************************)
(* The descriptor table of vfs.c over a mounted disk, or over ramfs where  *)
(* none was mounted.  A descriptor is a path and an offset: every read and *)
(* write looks the path up again, and ramfs takes the first file whose     *)
(* name begins with it.  A call is one step of the kernel's only thread;   *)
(* ret is what it returns.                                                 *)
(***************************************************************************)
EXTENDS Integers, SequencesExt, FiniteSetsExt

CONSTANTS
  Path,     \* names of regular files
  Device,   \* names of devices that swallow what is written, as /dev/null
  Extending, \* for each path the paths that begin with it, itself among them
  MaxFd,    \* VFS_MAX_FDS - 1; descriptors below 3 are the console's
  DiskFull  \* the disk may be full

ASSUME VfsAssumption ==
  /\ MaxFd \in Nat /\ MaxFd >= 2 /\ Path \cap Device = {} /\ DiskFull \in BOOLEAN
  /\ Path \cup Device \subseteq STRING \ {""}
  /\ Extending \in [Path -> SUBSET Path] /\ \A p \in Path : p \in Extending[p]

VARIABLES
  mounted,  \* the disk could be mounted
  root,     \* who is logged in is root
  files,    \* the bytes of each file, and whether the user owns it
  order,    \* the files of ramfs as they were created
  fds,      \* descriptors[3 .. MaxFd]
  ret       \* what the last call returned

vfsVars == <<mounted, root, files, order, fds, ret>>

Fd == 3 .. MaxFd
Free == [path |-> "", write |-> FALSE, offset |-> 0]
Used == {d \in Fd : fds[d] # Free}
Empty == [data |-> <<>>, mine |-> TRUE]

\* ramfs_find_file compares as many characters as the path has.
Candidates(p) == {i \in DOMAIN order : p \in Path /\ order[i] \in Extending[p]}
\* The files a path leads to: one or none.
Found(p) ==
  IF mounted THEN {p} \cap DOMAIN files
  ELSE {order[i] : i \in {j \in Candidates(p) : j = Min(Candidates(p))}}
Holder(p) == CHOOSE f \in Found(p) : TRUE

\* ext2 never makes a file shorter.
Fits(data, f) == mounted => Len(data) >= Len(files[f].data)

-----------------------------------------------------------------------------
(* Slips the runs have to notice, each a definition below with one change. *)

\* Permitted that lets everybody write what everybody reads.
PermittedToAll(p, w, f) == root \/ p \in DOMAIN f

\* Writable at every offset, as if ext2 could write a part of a file.
WritableAnywhere(d, data) == \A f \in Found(fds[d].path) : Fits(data, f)

-----------------------------------------------------------------------------
\* has_permission, with the modes ext2.c gives: the owner writes, all read.  A device
\* has no inode, which refuses it to all but root.
Permitted(p, w, f) == root \/ (p \in DOMAIN f /\ (w => f[p].mine))

\* The table of ramfs once it has a file p.
Listed(p) == IF mounted THEN order ELSE Append(order, p)

\* A missing file is created before the permission and the table are looked at.
VfsOpen(p, w, create) ==
  /\ p \in Path \cup Device
  /\ LET found == Found(p) # {} \/ p \in Device
         makes == ~found /\ create
         f == IF makes THEN [q \in DOMAIN files \cup {p} |-> IF q = p THEN Empty ELSE files[q]]
              ELSE files
         free == {d \in Fd : fds[d] = Free}
     IN  /\ files' = f
         /\ order' = IF makes THEN Listed(p) ELSE order
         /\ IF (~found /\ ~create) \/ ~Permitted(p, w, f) \/ free = {}
              THEN ret' = -1 /\ UNCHANGED fds
              ELSE /\ ret' = Min(free)
                   /\ fds' = [fds EXCEPT ![ret'] = [path |-> p, write |-> w, offset |-> 0]]
  /\ UNCHANGED <<mounted, root>>

\* Nothing is created on a full disk, nor in the full table of ramfs.
VfsOpenFails(p, create) ==
  /\ DiskFull /\ create /\ p \in Path /\ Found(p) = {}
  /\ ret' = -1
  /\ UNCHANGED <<mounted, root, files, order, fds>>

\* What a read puts into its caller's buffer.
Bytes(d) == IF Found(fds[d].path) = {} THEN <<>> ELSE files[Holder(fds[d].path)].data

\* Of a regular file the bytes arrive, but 0 is returned; of these devices nothing does.
VfsRead(d) ==
  /\ d \in Used
  /\ ret' = IF fds[d].write THEN -1 ELSE 0
  /\ UNCHANGED <<mounted, root, files, order, fds>>

\* A regular file is written whole, at offset 0.
Writable(d, data) == \A f \in Found(fds[d].path) : fds[d].offset = 0 /\ Fits(data, f)

VfsWrite(d, data) ==
  /\ d \in Used /\ fds[d].write
  /\ LET p == fds[d].path
     IN  IF Writable(d, data)
           THEN /\ ret' = Len(data)
                /\ fds' = [fds EXCEPT ![d].offset = @ + Len(data)]
                /\ files' = IF p \in Device THEN files
                            ELSE [files EXCEPT ![Holder(p)].data = data]
           ELSE ret' = -1 /\ UNCHANGED <<files, fds>>
  /\ UNCHANGED <<mounted, root, order>>

\* Blocks are allocated before any is written: a full disk leaves the file as it was.
VfsWriteFails(d) ==
  /\ DiskFull /\ mounted /\ d \in Used /\ fds[d].write /\ fds[d].path \in Path
  /\ ret' = -1
  /\ UNCHANGED <<mounted, root, files, order, fds>>

VfsClose(d) ==
  /\ IF d \in Used THEN ret' = 0 /\ fds' = [fds EXCEPT ![d] = Free]
     ELSE ret' = -1 /\ UNCHANGED fds
  /\ UNCHANGED <<mounted, root, files, order>>

\* Without a disk there are no accounts: nobody logs in, who is root.
VfsInit ==
  /\ mounted \in BOOLEAN /\ root \in BOOLEAN /\ (~mounted => root)
  /\ fds = [d \in Fd |-> Free] /\ order = <<>> /\ ret = 0
=============================================================================
