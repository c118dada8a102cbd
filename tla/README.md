# piux, specified in TLA+

This directory is the formal model of piux: a 32-bit x86 hobby operating system with one kernel
thread, polled device drivers, an ext2 file system on an ATA disk, a small TCP/IP stack, an
installer and a text window manager. It holds TLA+ modules translated from the C code in `src/`,
the TLC configurations that check them on small instances, and proofs that TLAPS checks for
every value of the constants.

`PROJECT.json` lists the components, runs, mutants, hazards and theorems, and maps every
definition to the lines of code it stands for.

## 1. The system

The kernel runs one thread. `kernel_main` mounts the disk, runs the login and the shell
(`kmain.c`), and a command runs to its end before the next one is read. Concurrency comes from
four places only: the interrupt of the mouse, the network whose frames arrive at any time and
are handled whenever some loop polls the card (a handler that sends may poll again inside itself),
the keys and motions that pWM takes while a command runs, and the disk whose power may go away
between two writes.

The source also has a table of processes, a loader of ELF files, system calls and a heap. None of it
runs: no command creates a process, `elf_load` refuses every file because `vfs_read` returns 0 for a
regular file (`vfs.c:194`), system calls come from ring 3 alone, where nothing can be started, and
`kmalloc` has no caller. They are not modelled.

| component | state | operations | what is hard | what makes it correct |
|---|---|---|---|---|
| ext2 (`kernel/ext2.c`) | on disk: block and inode bitmaps, group descriptors, superblock counts, inode table, blocks; in memory: `fs.superblock` | mount, find, create file and directory, write (grow), delete | each operation is 5 to 30 separate writes; no journal, no repair, errors return at once | a name always leads to an allocated, unshared file; names change atomically; counts drift by faults only |
| ATA (`kernel/ata.c`) | none that lasts | read and write sectors by polling | a command fails before or after its data landed | its outcomes are the faults of the model |
| VFS (`kernel/vfs.c`), ramfs (`kernel/ramfs.c`) | descriptor table (path, offset, flags), device table; table of files in memory | open, read, write, seek, close | a descriptor is a path; the table is small; creation before the checks; lookup by prefix in ramfs | a command leaves no descriptor behind; a user changes no file of root's |
| network core (`eth.c`, `arp.c`, `ip.c`, `icmp.c`, `udp.c`) | the frame buffer of `net_poll`, ARP cache and pending answer, ICMP answer, UDP slot | poll, resolve, send, handlers | `arp_resolve` polls inside a handler: the loop is re-entered over one buffer | an answer goes to who asked; a handled frame is the frame that arrived |
| TCP (`tcp.c`) | state, sequence numbers, one receive buffer | connect, send, receive, close, handler | loss, duplication, reordering, FIN, no retransmission | bytes reach the caller in order, without holes |
| TLS, HTTP (`tls.c`, `http.c`) | engine state, closed flag; download counters | connect, pump, read; GET to a descriptor | the pump must poll; loops until closed | the download ends, and what it saves is part of the body |
| DHCP, DNS (`dhcp.c`, `net.c`) | exchange in `udp` slot, addresses | configure, resolve | fixed transaction id, late answers | the address taken is the one acknowledged |
| RTL8139, PCI (`rtl8139.c`, `pci.c`) | receive ring, transmit slot | init, send, receive | the driver and the card wrap at different places | not modelled |
| keyboard, mouse | modifier state; packet bytes, ring of 32 events | interrupt, poll, read | the interrupt and the poll share the i8042 | a packet is three bytes of one motion |
| accounts (`auth.c`), boot (`kmain.c`), installer (`installer.c`) | records under `/etc/.config`, first boot marker | create user, login, install | power loss between steps, second run | installation ends with an account that can log in |
| shell (`kmain.c`) | line, cursor, history, row of the screen | keys, recall, entering | redrawing from where the old line began | the screen shows the line |
| pWM (`tui/wm/wm.c`) | terminals: input, history, scroll; number of windows, focus | keys, commands, close, new | indices that move under a running command | terminals are independent; the focused one is on the screen |
| numix (`bin/numix.c`) | cursor | recursive descent | precedence, signs, errors | agrees with arithmetic |
| commands, video, system | little | print, draw, port writes | nothing that lasts | not modelled, but for the keys of nano |

Interactions: commands call `vfs_*`, `ext2_*` and the network; `vfs` calls `ext2` by path on
every read and write, and `ext2` calls `ata`; `http` drives `tcp` and writes through `vfs`;
`tcp`, `icmp`, `udp` send through `ip_send`, which asks `arp_resolve`, which calls `net_poll`,
which calls the handlers of `arp`, `ip`, `icmp`, `udp` and `tcp` again; `keyboard_read_char` and
pWM poll the network and the mouse while they wait.

## 2. Plan

Modules in the order they are written, the most important behaviour first.

| # | module | models | abstract specification | checked | proofs | proved |
|---|---|---|---|---|---|---|
| 1 | `Ext2` | `kernel/ext2.c` over a disk that fails | `FileTree` | section 3 | `Ext2Proofs` | `TypeOK`, `NamedIsAllocated`, `OneName`, `DotDotIntact`, `NoSharedBlock`, `FileIntact`, `ImplementsTree`, `CountDrift`, `LinksDrift` |
| 2 | `NetStack` | `net_poll`, ARP, ICMP and TCP with the nested poll, against a peer over a lossy network | `ByteStream`: what a caller reads is a prefix of what the peer sent | section 4 | `NetStackProofs` | `TypeOK`, `BothKnow`; with room in the cache `ClosedByPeer`, `AckedIsHeld`, `ImplementsStream` |
| 3 | `Input` | mouse interrupt, poll, ring, keyboard | the motions sent, the keys held | section 5 | `InputProofs` | `TypeOK`, `MotionsInOrder`, `KeysAreTyped`, `ModifiersTrack` |
| 4 | `Vfs`, `Download` | descriptors and permissions over disk or ramfs; the commands that move files through them, and the HTTP loop | - | section 6 | `DownloadProofs` | `TypeOK`, `BodySplit`, `NoLeak`, `SavedIsOnePart`, `OwnedKept` |
| 5 | `Boot` | first boot, installer, records, login, power loss | - | section 7 | `BootProofs` | `TypeOK`, `InstalledIsWhole`, `SessionIsRecorded`, `RecordsOnlyGrow` |
| 6 | `Pwm` | terminals, focus, history, closing and reopening | a set of independent terminals | section 8 | `PwmProofs` | `TypeOK`, `Independent`, `WindowUnderCursor`, `OnlyFocusChanges` |
| 7 | `Exchanges` | DHCP, ping and DNS: one slot, fixed identifiers, late answers | a question and its answer | section 9 | `ExchangesProofs` | `TypeOK`, `AddressIsLeased`, `PingIsAnswered` |
| 8 | `Shell`, `Numix` | the line editor and what a line stands for; the calculator | the values of the tokens | section 10 | `ShellProofs` | `TypeOK`, `ScreenShowsLine` of `Shell` |

All eight are written, model-checked and proved about. Two
parts could follow: the records inside a directory block of ext2 (split, reuse, removal, sector-torn
writes), and the receive ring of the RTL8139, once driver and card agree on its size.

`Download` composes `Vfs` with what `NetStack` promises: a stream that `ImplementsStream` shows to come in
order. `Vfs` and `Boot` use a tree of files in place of `Ext2`, each operation atomic, which `ImplementsTree` justifies.
`Exchanges` runs over the polling of `NetStack`, one frame at a time. `Shell` takes what a command answers as
the constant `Run`, for which `MCShell` gives `Numix`'s `cmd_numix`.

## 3. Ext2: the file system

### Correspondence

`Ext2.tla` is the driver as the disk sees it. `bused`, `iused`, `gd`, `sb`, `inode` and `blk`
are what is on disk; `msb` is `fs.superblock`, the copy in memory; `pc` and `op` are the
operation the one kernel thread is inside and its C locals. Every call of `ext2_write_block`,
`ext2_write_inode`, `write_group_descriptor` and `write_superblock` is one step, so other
failures can fall between any two.

| code | actions |
|---|---|
| `allocate_block` | `AllocBlockBitmap`, `AllocBlockDesc`, `AllocBlockSuper`, `AllocBlockZero`, `DiskFull` |
| `allocate_inode` | `AllocInodeBitmap`, `AllocInodeDesc`, `AllocInodeSuper`, `InodesFull` |
| `ext2_create_file`, `ext2_create_directory` | `Create`, `WriteDots`, `WriteNewInode`, then `add_directory_entry` |
| `add_directory_entry` | `AddEntry`, `GrowDirectory`, `NewDirBlock`, `WriteParent` |
| `ext2_write_file`, `set_inode_block` | `WriteFile`, `WriteAlloc`, `SetDirect`, `NeedTable`, `SetIndirect`, `LinkChild`, `WriteData`, `WriteSize` |
| `ext2_delete_file_by_path`, `free_block`, `free_inode` | `DeleteFile`, `RemoveEntry`, `SkipNull`, `FreeBlockBitmap`, `FreeBlockDesc`, `FreeBlockSuper`, `ClearInode`, `FreeInodeBitmap`, `FreeInodeDesc`, `FreeInodeSuper` |
| a read or write that returns -1 | `WriteLost` (it did not land), an action with `ok = FALSE` (it landed, `ata_write_sectors` reports failure) |
| power loss, `ext2_mount` | `Crash`, `Mount` |

`allocate_block` is called from five places; `op.want` names the variable its result fills and
`Resume` the step its caller goes on with. `ext2_write_file_by_path` on a missing name creates it
first: a `Create` with a `goal`. A failure inside the deletion after the unlink is ignored by the
code and by the model.

Data is abstracted: a size counts blocks; a block is a table of pointers, a set of entries or a
tag `own` saying which write filled it, and zeroing gives all three their empty value, so that a
data block read as a table, or the reverse, is visible. Paths are the directory they lead to.

### Runs

| run | instance | shows |
|---|---|---|
| `ext2_names` | 2 names, 4 inodes (two to allocate), 5 blocks in two groups, one entry a block, directories of up to 2 blocks, one fault | names are unique, `..` and link counts right, and the driver implements `FileTree` |
| `ext2_blocks` | 2 names, 7 blocks in two groups, 4 inodes, 1 direct and 1 pointer per table (files of up to 3 blocks need the single and the double indirect block), one fault | a named inode never reaches a free, shared or foreign block, and its data is intact |
| `ext2_deep` | 1 name, 8 blocks, 2 pointers per table, sizes 2 and 4 (a double indirect table that is linked while the file grows), one fault | types, drift of the counts, every operation ends |
| `ext2_delete` | as `ext2_deep` with 7 blocks and no fault | a deletion after a growth that met a full disk does **not** free every block (finding) |

Why the bounds are enough. The hazards need a disk that fills up in the middle of an operation,
two groups so that the search passes from one to the next, an allocation that reuses what a
deletion freed, and a file at each pointer depth: all four happen within these instances. One
fault reaches every state between two writes followed by any number of good operations (and any
number of mounts); a second fault adds combinations of leaks. `MaxFaults` bounds the faults,
`Sizes` the sizes asked for; nothing else is cut.

### Properties and what they mean for the code

* `NamedIsAllocated`, `NoSharedBlock`: the order of the writes. Allocation marks the bitmap before
  anything points at the block, deletion removes the name before it frees. A power loss leaves
  leaks and never a name for free space.
* `FileIntact`: every block below a file's size holds that file's data. The size is written last.
* `OneName`, `DotDotIntact`, `LinksDrift`: a retried creation, a directory that grows while its
  inode is held in memory, and a `mkdir` cut short.
* `CountDrift`: the 16-bit free counts differ from the bitmaps by no more than the faults so far.
* `ImplementsTree`: for a caller, each operation happens at one write, the one that changes the
  entry or the size. All other steps are stutters. The mapping takes the entries of
  the directories that have a name as the tree and the on-disk inodes with a name as the nodes.
* `OperationEnds` (liveness): under `FairSpec`, weak fairness of the operation's own steps. The code
  justifies it: the kernel's single thread runs an operation to its end, and only `Crash` or a
  failing write, which is an end too, stops it. Faults are not fair, they need not happen.
* `DeleteFreesFile` is refuted. After a growth that ran out of blocks, blocks linked into an
  indirect table already on disk lie past the size; `ext2_delete_file_by_path` frees blocks by
  size (`ext2.c:717`) and the comment at `ext2.c:695` promises them all.

### Proof

`Ext2Proofs.tla` proves `TypeCorrect`: `Spec => []TypeOK`, for every `NBlocks`, group size, number
of inodes, direct pointers, pointers per table, entries per block and number of faults, from
`Ext2Assumption` alone (the sizes are positive, the root inode exists and is reserved).

`TypeOK` is not inductive: `gd[g].blocks @ - 1` stays a natural number because the bitmap step
before it saw a positive count and nothing touched it since; `parent.direct[size]` is in its domain
because `GrowDirectory` compared the size with `NDirect` before three more writes; `Head(todo)`
exists because the free step's guard saw it. `TypeInv` therefore adds `LocalsOK`, what the locals of
the running operation are at each program counter. The proof is one lemma per action, under each
one step for the state on disk, one for the control state and one for `LocalsOK`; faults
keep it because every failing step ends the operation or goes to a step with weaker demands.

`TypeOK` says more than types here: a directory keeps to its direct blocks (`DirFits`), which is
what lets `ext2_find_inode_in_dir` read `direct[l]` alone, and free counts never wrap below zero,
although faults make them drift away from the bitmaps.

The second part proves `NamedIsAllocated`, `OneName` and `DotDotIntact` from the invariant `SafeInv`, which
has two halves. `DiskInv` is what the disk keeps at every single write: whatever an inode with a name, or a directory
that waits for one, points at is marked used (`BlocksOK`), two such inodes have no block in common, each entry leads to
an inode of its own, and an entry that leads to a directory leads to one whose `..` is the directory the entry is in
(`EntriesOK`). None of the three properties is inductive alone: that the block about to be linked is unreached was
established several writes earlier, by the bitmap step. `OpInv` says what the locals of the running operation hold in the
meantime: `Fresh(op.phys)`, used and reached from nowhere, between allocation and linking; the directory grown in
memory but not on disk (`Grown`); the name still missing before `AddEntry` (`NewName`); the pointers that a deletion
is about to free, which no inode with a name reaches once its own name is gone (`DeleteOK`). A fault
ends the operation and drops its locals, which is why leaks are all it can leave.

The third part proves `FileIntact` and `NoSharedBlock`, on top of `SafeInv`. The pointers of an inode are a tree (`TreeIn`: no
two of its edges, direct, indirect or in the double indirect table, lead to the same block), and the copy in memory that
`ext2_write_file` fills while the file grows agrees with the inode on disk below the old size (`MineTree`). The last blocks
placed are `Null` before `SetDirect` and not after, those before `logical` are filled in the second loop (`MineOK`).
The arithmetic of `inode_block` (`\div`, `%`) is done once, in the lemmas on `BlockIn`.

From it follows `ImplementsTree` (`DiskIsATree`). The mapping needs three facts that no other property does, the
invariant `NamesInv`: a directory without a name is empty (`Orphans`), so that naming one adds one entry and not a subtree; a
creation runs in a directory that still has its name (`Rooted`); a write asks for no less than the file has
(`Growing`). Three lemmas say what the abstract steps are in terms of blocks and entries (`AddTree`, `RemoveTree`,
`ResizeTree`) and one when a write is a stutter (`QuietTree`); then each action has its lemma. `AddEntry` is `AddName`, and so is
`WriteParent` when the directory has grown by the block that holds the entry; `RemoveEntry` is `RemoveName`, `WriteSize` is
`Resize` or a stutter, and all others, faults and mounts among them, are stutters: data, tables and new directories go to blocks no
directory has (`FreshNoEntries`, `MineApart`), and inodes are made and cleared while nothing names them (`NamelessTree`).

The fourth part proves `CountDrift`, which is about the moments between operations, from `CountInv`, which is about every
write: each count differs from what the bitmap leaves free by at most the faults so far, once the step that the running operation still
owes is added (`BlockOff`, `BlockLag` and the same for inodes: the bitmap is written first, then the group, then the superblock). A
fault leaves the debt unpaid and is itself the one that pays for it. That needs a fact about deletions,
`TodoOK`: the blocks left to free are marked used, each of them once. Were a block freed twice, the count would
go up with no bit to clear; they are apart because the pointers of a file are a tree (`FileInv`), and stay so when a write of
`free_block` fails, whether it reached the disk or not, and the deletion goes on with the next block. The superblock on disk, of which `CountDrift` says nothing
because mounting reads it back, is in `CountInv` for that reason.

The fifth part proves `LinksDrift` from `LinksInv`, which counts the link that is owed between `AddEntry` and `WriteParent` (`LinkOff`) and
speaks of every directory, with a name or without. The lemmas of the refinement already said what a write does to the entries (`DirsStay`,
`EntryJoins`, `EntryLeaves`); here they say when the set of subdirectories grows. It never shrinks: a deletion takes a name from a
directory only when it leads to a file.

All of it is for every geometry, number of faults and history, from `Ext2Assumption` and nothing else. Only
model-checked is liveness, which is out of the prover's reach.

### Not modelled

The packing of entries in a directory block (record lengths, split and reuse: section 2);
sizes below a block, and the copy of part of a block; symbolic names of paths; a power loss inside
one block write, which is several sectors; reading a file (no state); `mke2fs`, which is outside
`src/` and is the initial state.

## 4. NetStack: the polled network

### Correspondence

`NetStack.tla` is the receive path of the kernel. `cache` and `slot` are the ARP cache, `buffer`
is what `tcp.c:170` will see in `net_poll`'s static frame, `tcp` holds the static variables of
`tcp.c`, and `calls` is the stack of calls of `ip_send` that have not returned: each record names
the segment, its next hop, whether `arp_resolve` still waits (`at`), and the statement its caller
goes on with (`k`). `pc` is where `http_get_to_fd` or `tcp_connect` is, or the shell that polls
while it waits for a key. `wire` is what the card has sent and `srv` what the server of each
connection knows.

| code | actions |
|---|---|
| `net_poll`, `ip_handle_packet` | `NetPoll` and the handlers under it, started by `CallerPoll` or `ResolvePoll` |
| `arp_cache_insert`, `arp_resolve` | `Insert`; `Resolved`, `ResolvePoll`, `ResolveFails` |
| `ip_send` | `IpSend` (up to the point where it waits), and the `...Done` action of its caller |
| `tcp_handle_packet` | `HandleSynAck`, `HandleReset`, `HandleData`, `HandleFin`, `HandleOther`; what follows a send in the same handler is `DataDone`, `FinDone`, `AckDone` |
| `tcp_connect`, `tcp_send`, `tcp_wait_activity`, `tcp_receive` | `Connect`, `SynDone`, `ConnectCheck`, `ConnectFails`; `RequestDone`; `EmptyPoll`, `CallerPoll`; `Take` |
| the network and the server (outside `src/`) | `Frames`, `ServerReceive`, `ServerAborts` |

The network is a set: a poll may deliver any frame that was ever sendable, again and again or
never, which is loss, duplication and reordering together. A data segment counts as one sequence
number; only order and identity matter to the properties. The last data segment comes with the FIN
in it or ahead of it.

### Runs

| run | instance | shows |
|---|---|---|
| `net_stream` | 2 neighbours and 2 cache slots, 2 connections, 3 segments, window 2, sends nested 2 deep | with room in the cache, the caller reads a stream (`ImplementsStream`), nothing acknowledged is lost (`AckedIsHeld`), and connections do not leak into each other (`BothKnow`, `ClosedByPeer`) |
| `net_nested` | 2 neighbours and one slot, sends nested 3 deep | one call of `net_poll` handles several frames inside each other (finding) |

`Length` 3 over `Window` 2 lets an old, a current and an early segment be under way at once; the
second connection meets every frame of the first. `MaxConns` bounds connections, `MaxDepth` the
calls inside each other (a deeper one is cut, which the recursion of the code does not do).
`Slots` is 2 where the code has 8: what matters is whether every neighbour fits. `Polite` says that
echo requests come only from neighbours already in the cache, so that answering one sends at once.
These two are what `net_stream` assumes, and `net_nested` shows why: as soon as the gateway's entry
is evicted, the acknowledgement in `HandleData` waits for an address, the nested poll handles the next
frame first, and the outer handler goes on with the inner one's bytes.

### Properties

* `ImplementsStream`: the reads refine `ByteStream`, the order and the identity of the pieces being
  the server's, across two connections.
* `AckedIsHeld`: the receive buffer holds one segment and is overwritten by the next one in order;
  this is right only because a caller takes it between any two polls.
* `ClosedByPeer`, `BothKnow`: a late frame of an earlier connection neither opens nor closes this one;
  the port, raised by every `tcp_connect`, is all that tells them apart.
* `OneFramePerPoll` is refuted; `eth.h:18` promises it.

### Proof

`NetStackProofs.tla` has two parts. Without any assumption but `NetAssumption`, `StackInv` is inductive: the stack of calls
is well formed however deep the handlers poll inside each other, every call below the top waits for an address, and
a connection that is established was opened at its server. That gives `TypeOK` and `BothKnow`.

The rest is proved under `Room`: `Polite`, and no more neighbours than cache slots. This is the hypothesis under which
`net_stream` runs too; the refuted `OneFramePerPoll` shows what happens without it, and the code does not enforce it: on a
network with more than eight neighbours that talk to the machine none of these theorems applies.
`NetInv` starts from the cache: entries are distinct and fill the slots in order, or every
neighbour is in it (`Filled`), so nothing is ever evicted and the gateway, once found, stays found (`Heard`). Hence only the SYN can wait for an
address, and inside that wait nothing but an echo is answered (`Nested`). `Progress` ties `pc`, the state of the
connection, the buffer and what was read: `recvNext` is one more than what was read and what lies in the buffer. `InStep` and `Ends` say of the
frames that are still under way what they may carry. `AckedIsHeld` and `ClosedByPeer` follow at once, and with `Taken`
every step is one of `ByteStream` or a stutter: `ReadersSeeTheStream` is the refinement, for any number of connections and
pieces, any window and any nesting.

### Not modelled

`send_next` and the acknowledgement numbers the client checks nowhere; the closing handshake
(`tcp_close` at the end of a download finds the connection closed, and callers that
fail earlier leave it open, as `RequestDone` does); checksums, ports other than the client's,
fragments (dropped by `ip.c`); `ping` and what is built on UDP, which section 9 has. The download loop does
not end when the request or an acknowledgement is lost, because nothing is sent twice and
`tcp_wait_activity`'s result is ignored; there is no property of it, since none would hold.

## 5. Input: keyboard and mouse on one controller

### Correspondence

The i8042 has one output byte for two devices (`out`, which names its source as the status bit does).
`mouse_irq_handler` takes it from the interrupt (`Interrupt`, which runs to its end between two
foreground steps) or from `mouse_poll` (`Aux1`, `Aux2`, `Aux3`, `PutByte`, `QueuePacket`, `Take`: one access
to a port or to shared state each); `keyboard_try_read_char` is `Key1`, `Key2`, `Key3`. `mode` says
whether pWM's loop runs, which polls both, or `keyboard_read_char` in the shell, which polls the
keyboard alone. `InitOk` and `InitFails` are `mouse_init`: its early returns leave the packet and
the ring alone. `interrupts` is chosen at the start: `mouse_init` keeps the interrupt bit of the command
byte as the firmware left it, so that both kinds of machine exist.

Bytes of the mouse are numbered, so that order and loss show; `Sync` says which bytes of a packet look
like a first one. Scancodes are classes: the prefix, a modifier, a character.

### Runs

| run | instance | shows |
|---|---|---|
| `input_events` | both settings of the interrupt; three-byte packets whose second byte looks like a first one; ring of 2 (one slot stays free); 6 bytes, so two packets, between starts; left and right ctrl and one character | types and bounds always; polled, the order of motions, the source of keys, the modifiers |

`MaxBytes` bounds what the mouse sends between two starts, `MaxCodes` what the keyboard holds back. Two
packets fill the ring while nobody takes from it.

### Properties

* `MotionsInOrder` ties the ring, the half packet, the output byte and the byte in a register to the
  count of what the mouse sent: nothing is lost, doubled or moved on the polled path.
* `KeysAreTyped`: two reads of the status and one of the data are three chances for the mouse. It is
  stated for polled machines only, because with the interrupt on it does not hold: the
  interrupt may take the byte whose presence the first status read saw, and the old byte is then read as a key.
* `ModifiersTrack`: the decoder's state follows the keys, prefix and all, across refused bytes and
  changes between pWM and shell. With both shift keys down the code forgets one of them on the first
  release; the model has one key of each kind.

Liveness is not stated, since it would not hold: on polled machines (the firmware left the interrupt bit
off, `mouse.c:50`) nothing reads the mouse once pWM has stopped, and its next byte keeps the keyboard's from
ever reaching the output. `docs/PWM-COMMANDS.md:19` says that `pwm --stop` returns to the shell; from then on
the first motion ends typing there.

### Proof

`InputProofs.tla` proves the four properties for every set of keys, three- and four-byte packets, every choice of bytes that
look like a first one, every ring and every number of bytes and scancodes (`InputAssumption`; its `MaxBytes >= PacketLength` says
that the bound lets a whole packet come). The invariant is `InputInv`:

* `StillThere` is why the two reads of the status are enough when the machine is polled: from the read to the use of
  the byte it is still there and still from the same device, since whoever could take it is the foreground itself, and the devices
  wait until the byte is taken. With the interrupt on that fails, and the theorems say so by `Polled`.
* `Motions` numbers every byte between the mouse and the packet: the half packet holds the numbers from `Base` on, the byte in the
  register and the output byte are the next ones, and the ring is empty on the way to `QueuePacket`, so
  that a packet never meets a full ring. `MotionsInOrder` alone is not inductive, as it does not say what is in the
  half packet; that the first byte of a packet is in sync is the lemma `FirstInSync`.
* `Tracks` says that the scancodes on their way, the output byte first and then `codes`, lead the decoder from what it knows to the keys
  held down. `Through` carries the decoder's states between them as a function, which makes a scancode at the end
  (`ThroughMore`) and one taken in front (`ThroughRest`) a step each, without recursion.
* `Bounded` and `Output` are the bounds of the packet between steps. `TypesHold` speaks of the packet after the
  handler ran: within it, a full packet that the interrupt finds between `PutByte` and `QueuePacket` gets one byte more, which
  the array of `mouse.c` has room for with three-byte packets and not with four (see the hazards).

Not modelled: what a wrong command byte does to the keyboard (after `mouse_init` took a scancode for
it), the commands inside `mouse_init`, four-byte packets under the interrupt (where the array
has no byte to spare), the key tables.

## 6. Vfs and Download: files through descriptors

### Correspondence

`Vfs.tla` has the descriptor table `fds` and one definition per call, with `ret` as its result; a call is
one step, since nothing else runs. The disk below is `files`, a function from paths to
bytes: what `ImplementsTree` leaves of `Ext2`, with its rules that a file is replaced whole and never
shrinks and that a full disk changes nothing. When no disk could be mounted (`mounted`, chosen in
`VfsInit`) the same calls go to ramfs: `order` is its table, and a path leads to the first file there that begins
with it (`Found`, `Holder`; `ramfs_find_file` compares as many characters as the path has). Then there are no accounts
either, and whoever types is root. Nothing can be created when ramfs's table is full, which `VfsOpenFails` has.

`Download.tla` runs the commands `net get`, `net https`,
`net fetch` and `cat` one after another. `Piece` is one turn of the loop in `http_get_to_fd`, `PeerCloses` the
server's end at any point. The stream is in order and without holes: `NetStack`'s `ImplementsStream`.
`net https` always fails in `tls_connect`: `tls_pump` never polls the card.

### Run

| run | instance | shows |
|---|---|---|
| `download_body` | a disk or ramfs; root or a user; one descriptor; a file of root's; two paths of which one begins with the other; three responses (an empty line in the body, a misleading CR, no end of headers), cut into pieces of up to 4 bytes; a disk that may be full | headers come off (`BodySplit`), what is saved is one part of the body (`SavedIsOnePart`), descriptors are closed (`NoLeak`), permissions hold (`OwnedKept`), commands end (`CommandEnds`) |

One descriptor is enough: commands open one at a time, and a leaked one shows at once. Pieces of 0
to 4 bytes put every cut through the four bytes of the empty line. Any number of commands may follow each
other.

### Properties

* `BodySplit`: `carry` holds three bytes between two segments; what is handed on is exactly what comes after the
  first empty line, wherever the segments were cut.
* `SavedIsOnePart`: `vfs_write` writes a regular file at offset 0 only (`vfs.c:208`) and ext2 never makes one
  shorter, so of a body in several pieces at most one is stored. The property says that it is a
  contiguous part and as long as what `vfs_write` returned, never a mixture.
* `NoLeak`, `OwnedKept`: through every early return, and although the missing file is created before the
  permission and the table are looked at.
* `CommandEnds` assumes `WF(Step)`, the command that runs, and `WF(PeerCloses)`: a server or its reset ends
  every connection. Where frames may be lost for good the loop does not end (section 4).

What the model makes plain and no property states, because the code does not do it: `http_get_to_fd` counts
the pieces `vfs_write` refused too, while `http.h:8` says "Returns total body bytes written"; a read of a
regular file returns 0 although the bytes arrived (`vfs.c:194`), so `cat` and `net fetch` print nothing.

### Proof

`DownloadProofs.tla` proves the five safety properties for any responses, any size of segment, any files and any number of
descriptors, from `DownloadInv`:

* `Parsed` is `BodySplit` with what makes it inductive: `header` says whether the end of the headers is in what was received, and until
  then `carry` is exactly its last three bytes (all of it, if shorter). The heart are the lemmas on sequences: the end of the headers in
  `carry` and the new segment is the one in all that was received (`PlacesInEnd`, `BodyOfEnd`: an empty line that ends within
  the first three bytes of the chunk would have been seen before, `NoneBefore`), what is kept of the chunk is what would be kept
  of everything (`KeptAgain`), and once the headers are over the body grows by the segment (`BodyGrows`). That three bytes are the right number shows in
  `NoneBefore` and nowhere else.
* `Descriptors`: the one descriptor in use is the command's, its path is the command's and leads to a file, and whether
  it writes is a matter of where the command is. `NoLeak` is the case of the idle shell.
* `Saved`: the descriptor's offset is the number of bytes written, so that `vfs_write`, which wants 0, takes one piece only; and what is in the
  file is a part of what was handed on, which appending to the latter does not change (`StillAPart`).
* `Stored`: what `ToSet(order) = DOMAIN files` needs over the creation of files: the table lists no file twice.

`OwnedKept` uses that a user exists on a mounted disk only, where a path leads to itself: with ramfs's lookup by prefix a write could go to another
file, but there whoever types is root. `VfsAssumption` says that no name is empty, since the empty path is how `fds` marks a free descriptor.

Not modelled: `vfs_seek`, which no command calls; devices that are read (`/dev/console`, `/dev/hda`); I/O errors
in the middle of a write; `elf_load`, which reads as `cat` does; `pix install`, which is two times `net https`
(both fail, and leave an empty package behind that `pix where` finds).

## 7. Boot: first boot, installation, login

### Correspondence

`Boot.tla` follows `kernel_main` from power on to a session. `pc` is the stage; `todo` holds the calls
that stage has still to make, as data (`LayoutCalls`, `SystemCalls`, `AccountCalls`, `CompletionCalls`), in the
order of `installer.c` and `auth.c`. A call is one or two operations of ext2, each one step and
atomic: `MakeDirectory`, `CreateFile`, `WriteFile`. Any of them may fail (`CallFails`), the power may go away between
any two (`PowerLoss`), and what is on disk is what the next `PowerOn` finds, first boot menu included.

| code | actions |
|---|---|
| `kernel_main`, `keyboard_load_layout_from_config` | `PowerOn`, `PowerOnUnmounted` |
| `first_boot_menu` | `Install`, `ShellOnly`, `Leave`, and `Off` in `CallFails` and `StageEnds` |
| `installer_run` and its stages | `StageEnds`, the lists of calls |
| `write_config`, `append_config_line`, `write_new_file`, `ensure_directory`, `write_auth_record` | `MakeDirectory`, `CreateFile`, `WriteFile` with `Content` and `Fits` |
| `authenticate` | `Login` with `Hits` and `SudoerOf` |

Files are sequences of lines. `ext2_write_file` refuses to make a file shorter (`ext2.c:427`); `Size` therefore counts, for the two files that
end in a user's name and are written anew, the name's length, so that an attempt with a shorter name is refused.

### Run

| run | instance | shows |
|---|---|---|
| `boot_install` | users of two and three letters, two passwords, two records, both layouts; any number of attempts, errors and power losses | an installation that completes is whole (`InstalledIsWhole`), no account is lost (`RecordsOnlyGrow`), a session is one record's (`SessionIsRecorded`) |

Two names and two passwords give accounts that differ in either, and the same account twice with another
sudo flag. `Records` stands for `AUTH_RECORD_SIZE`, the array of 256 bytes `write_auth_record` reads the old records into; with
2 the third attempt meets the limit.

### Properties

* `InstalledIsWhole`: at the moment the marker is about to be written, the files left by any number of
  abandoned attempts agree on the account just entered, and it can log in. It rests on the order of the calls and on
  every stage giving up at the first error.
* `RecordsOnlyGrow`: `passwd` is read and written back longer; no step takes an account away.
* `SessionIsRecorded`: the name, password and sudo flag come from one record, the first that matches, also when an abandoned attempt
  left the same user and password with another flag.

Two things a reader should know follow from the model. After an attempt that was cut short, one with a
shorter name cannot complete, since `sudoers` would get shorter. And a power loss between the creation of
`passwd` and its first write, followed by "shell only", leaves a login at which no account exists.

### Proof

`BootProofs.tla` proves the four properties for any users, passwords and number of records. `BootInv` says how far the stage has come: there is a `k` such that
`todo` is what is left of the stage's calls after the first `k` (`ProgressAt`), and each of these left its mark on the disk
(`Done`): a directory that exists, a file whose last line or whose lines are the call's. When nothing is left, all of
them hold together, which is `InstalledIsWhole`; that no later call of a stage undoes an earlier one is the lemma `DoneStays`.
`Records` bounds `passwd` (`FilesOK`), and `users` never gets longer than `passwd`, because the record is written
first. `RecordsOnlyGrow` is proved of every step, `PowerLoss` and `CallFails` included. `BootAssumption` says that no user's name is empty, which
`valid_username` sees to.

Not modelled: the menus' keys, reading and hashing passwords (two different passwords are different), the boot loader, the set-up of the
hardware, DHCP at boot (section 9).

## 8. Pwm: terminals in windows

### Correspondence

`Pwm.tla` has `terminals`, `count` and `active` as `wm.c` has them: an array in the order of the windows, a slot's
content surviving the terminal that leaves it. One turn of `pwm_run`'s loop is one step (`NewTerminal`, `CloseTerminal`, `FocusKey`,
`Type`, `Backspace`, `ArrowUp`, `ArrowDown`, `Enter`, `handle_mouse`), and so is one turn of `pwm_command_read_char` while
nano reads keys (`EditorKey`, `EditorQuits`, and `handle_mouse` again, which moves the focus under the running
command). `window_geometry` decides whose cell the mouse is in, `drawn_window` what `draw_desktop` draws.

`own` is no state of the code: it is what each terminal would hold were terminals independent, kept by the same keys.
A terminal is no longer followed once it took a slot used before, or the focus moved while a command
was reading keys; there the code does not keep them apart.

### Run

| run | instance | shows |
|---|---|---|
| `pwm_windows` | 3 slots, lines of one character out of two (symmetric), histories of 2, outputs of 2 lines, an odd 3 by 3 screen, 6 terminals opened, characters typed and commands entered | `Independent`, `WindowUnderCursor`, `OnlyFocusChanges` |

Three slots give every layout but that of four windows and a closing in the middle of the row, where two slots move. `MaxKeys`
bounds what makes the state grow; arrows, closing, focus and mouse are unbounded.
Histories of 2 overflow within 6 keys.

### Properties

* `Independent`: through closings that move the slots, recalls and focus changes, a followed terminal has its own
  line, its last commands and its place among them.
* `WindowUnderCursor`: the two computations of the layout, one for drawing and one for the mouse, agree, except in the last column of
  an odd screen with two or four windows, which is drawn but belongs to nobody.
* `OnlyFocusChanges`: a step that keeps the number of windows changes only a terminal that has or gets the focus.

The documentation promises more than `Independent` says. `PWM-COMMANDS.md:9` calls the terminals independent, but
a new one starts with the input and history its slot held before (`wm.c:375`), and a command during which the
mouse moved the focus clears the input of another terminal (`wm.c:432`). Line 73 says that the wheel is the only
mouse interaction, but motion moves the focus.

### Proof

`PwmProofs.tla` proves all four for any size of screen, lines and histories and up to four windows (`PWM_MAX_WINDOWS`; the
layout is defined for one to four, so `PwmAssumption` has that bound). `PwmInv` adds to the types that slots never
used are blank, that a terminal's history holds no more than its array (`Sound`), and that each followed terminal holds what its record in `own`
says (`Holds`): the last lines of its log, the line recalled, the place among them; while a command reads keys in it,
only its history, since its line is out of use until the command is over. The work is in `CloseTerminal`, which
moves the slots after the closed one down (`Removal` relates the slots and `own`'s indices before and after), and in `save_history`
on a full history (`Saving`). `WindowUnderCursor` does not depend on any state: it is arithmetic on halves of the screen, case by case for
the four layouts.

Not modelled: frames, colours, drawing, the prompt's text, lines wider than a window, how the output of a command is made.

## 9. Exchanges: DHCP, ping, DNS

### Correspondence

`Exchanges.tla` is what is built on datagrams: one slot for the last UDP packet, one flag for the echo reply, fixed
numbers in every request. `pc` is the wait, `attempts` the polls it has left. `PollOffer` and `PollAck` are the two
loops of `dhcp_configure`, `PollPing` that of `icmp_wait_echo_reply`, `PollAnswer` that of `net_dns_query`; `IdlePoll` is the shell polling
while it waits for a key. The second loop checks the type, the first does not (`Offered`, `Acknowledged`). `air` is every packet that may
arrive: loss, delay, repetition and reordering, also across a reboot (`Boot`). Servers keep `lease`; `OtherMachine` is a
machine with the same kernel, and the same transaction number, that asks at the same time.

Packets carry the number of the exchange they answer as `re`, which the code cannot see. `strayed` says
that this exchange took an answer to another one.

### Run

| run | instance | shows |
|---|---|---|
| `exchanges_answers` | two servers with one address each, two hosts, another machine, waits of 2 polls, 3 boots, pings and lookups | `AddressIsLeased`, `PingIsAnswered`, `ExchangeEnds` |

Three exchanges put answers of two earlier ones into the third; two polls leave room for an unwanted answer before
the wanted one. `MaxExchanges` bounds them, so the system stops at the end and deadlock is not checked.

### Properties

* `AddressIsLeased`: with two servers' offers and answers in any order, the address configured is one its server gave to this machine.
* `PingIsAnswered`: "Reply from" a host means that this host answered this request.
  Both exclude what strayed: since identifiers never change, an answer to an earlier boot or to the other
  machine, or a late echo reply, is accepted, and with it neither holds.
* `ExchangeEnds` (liveness) under `WF(Kernel)`: the one thread runs on. Nothing is assumed of answers.

Facts of the code that show in the model: an offer is taken whatever its type and hardware address, so that a stray refusal makes the
kernel ask for 0.0.0.0; leases are never renewed; `net ping` waits although its request could not be sent (`bin/net.c:201`); and no name is ever
resolved, because a label's start is counted twice (`net.c:70`-`75`) and the answer is skipped by 4 bytes in place of 5 (`net.c:108`).
The repository's `README.md:667` says that there is no DHCP and no DNS; the code has both.

### Proof

`ExchangesProofs.tla` proves the three safety properties for any number of servers, addresses, hosts, polls and boots. `ExchangeInv` speaks of all packets in
the air and of the one in the slot: an acknowledgement to the present exchange is there only after the request went out, is for the address asked for, and
that address is leased to this machine (`AckOK`); likewise a reply to the present ping (`EchoOK`). The flag of the ping, set before
the wait, is another ping's (`Flag`): then `strayed` is true, and nothing is claimed.

Not modelled: the bytes of the packets, checksums, name compression, `net udp`, `net send` and `net arp`, which send and
wait for nothing here. The receive ring of the RTL8139 below all this is left out: the card is told of a ring of 8 KB and the
driver wraps at 9708 bytes (`rtl8139.c:105`), so after the first turn frames come from the wrong place.

## 10. Shell and Numix

### Correspondence

`Shell.tla` is the line editor of `kmain.c`: `line` and `pos` are `buffer`, `length` and `pos`; `row` and `x` are the row of the screen that
has the prompt and the cursor on it, changed only through `Redraw`, which is `redraw_input_line` (back to where the old line
began, the new line, blanks over the rest of the old one, back to the cursor). `Enter` remembers the line,
takes `sudo` off and splits name and parameter. `Numix.tla` is the calculator function by function (`Number`, `ipow`, `Primary`, `Power`, `Unary`, `Term`,
`Expr`), and beside it the meaning of a line without a parser: split the tokens at the operator that binds least, and take the set
of values the parts can have (`Values`), with the quotients given by their defining equation.

### Run

| run | instance | shows |
|---|---|---|
| `shell_lines` | integers of 4 bits, nesting up to 3; a history of one line out of: all expressions of up to three operands over the eight binary operators, everything of up to three symbols, four lines to edit; a row of 11 columns, lines of up to 21 characters | `ScreenShowsLine`, `NumixAgrees` |

`Keys` bounds the keys: 6 on a line to edit, 2 (recall and enter) on the others; the system stops when they are used
up, so deadlock is not checked. The four lines to edit are a short one, one under `sudo`, one that ends a character before the row does and
one that leaves room for one more character. With 4 bits every operator overflows.

### Properties

* `ScreenShowsLine`: the redrawing knows the old line only by two numbers; through inserting, deleting, moving and recalling the row
  shows the line, with nothing of an older one. It is stated while `inRow`: a line that reaches the end of the row, and a recall with the cursor
  inside the line (`kmain.c:322` passes the old length as the old cursor, and the line is drawn into the
  prompt), are drawn wrongly by the code.
* `NumixAgrees`: every answer is the value of the line and an error means that there is none: precedence, right-associative powers,
  signs, rounding of `/` and `//`, the sign of `%`, overflow before it happens.

### Proof

`ShellProofs.tla` proves `TypeOK` and `ScreenShowsLine` for every width, prompt, buffer and history, every set of characters and every
command. `ScreenShowsLine` compares the row with a line written out by concatenation; `ShellInv` says it cell by cell (`Shows`: the
prompt's character, the line's, or blank), since that is what a redrawing can be reasoned about with, and adds that a row that is
followed has room for its line and that what the history keeps fits the buffer. `Redrawn` is the heart: from a row that shows the old line, redrawing
with the true old length and cursor gives one that shows the new line. Each key then has to call it with the right numbers,
and the recalls that do not (`kmain.c:322`) are the ones that leave `inRow`. That the cursor is where the next
character goes is part of it. `ShellAssumption` says that the prompt is shorter than the screen is wide and that
characters are characters; it says nothing of commands.

Not modelled: the other commands (they print), printing of numbers, Ctrl keys, scrolling of the screen. `Numix` declares RECURSIVE operators, so
only TLC can speak of it; `Shell` does not.

## 11. What is checked and what is proved

Proved, for every value of the constants that the assumptions allow:

| module | theorems | of the properties | assumes |
|---|---|---|---|
| `Ext2Proofs` | `TypeCorrect`, `NamesAreAllocated`, `NamesAreUnique`, `DotDotPointsUp` | `TypeOK`, `NamedIsAllocated`, `OneName`, `DotDotIntact` | `Ext2Assumption` |
| | `FilesAreIntact`, `BlocksAreNotShared`, `DiskIsATree` | `FileIntact`, `NoSharedBlock`, `ImplementsTree` | |
| | `CountsDriftByFaults`, `LinksDriftByFaults` | `CountDrift`, `LinksDrift` | |
| `NetStackProofs` | `TypesHold`, `ConnectionsAreShared` | `TypeOK`, `BothKnow` | `NetAssumption` |
| | `PeersClose`, `AcknowledgedIsHeld`, `ReadersSeeTheStream` | `ClosedByPeer`, `AckedIsHeld`, `ImplementsStream` | and `Room` |
| `InputProofs` | `TypesHold`, `MotionsAreInOrder`, `KeysAreTheKeyboards`, `ModifiersAreHeld` | `TypeOK`, `MotionsInOrder`, `KeysAreTyped`, `ModifiersTrack` | `InputAssumption` |
| `DownloadProofs` | `TypesHold`, `BodiesAreSplit`, `DescriptorsAreFreed`, `SavedPartsAreWhole`, `OwnersKeepTheirFiles` | `TypeOK`, `BodySplit`, `NoLeak`, `SavedIsOnePart`, `OwnedKept` | `DownloadAssumption`, `VfsAssumption` |
| `BootProofs` | `TypesHold`, `InstallationsAreWhole`, `SessionsAreRecorded`, `RecordsAreKept` | `TypeOK`, `InstalledIsWhole`, `SessionIsRecorded`, `RecordsOnlyGrow` | `BootAssumption` |
| `PwmProofs` | `TypesHold`, `TerminalsAreIndependent`, `TheMouseFindsWhatIsDrawn`, `OthersAreLeftAlone` | `TypeOK`, `Independent`, `WindowUnderCursor`, `OnlyFocusChanges` | `PwmAssumption` |
| `ExchangesProofs` | `TypesHold`, `AddressesAreLeased`, `PingsAreAnswered` | `TypeOK`, `AddressIsLeased`, `PingIsAnswered` | `ExchangesAssumption` |
| `ShellProofs` | `TheLineStaysInItsBuffer`, `TheScreenShowsTheLine` | `TypeOK`, `ScreenShowsLine` | `ShellAssumption` |

Each of these modules also has the inductive invariant as a theorem of its own. The assumptions on constants are evaluated by TLC in every run of the
component; beyond positive sizes they say that values used as marks (the empty name, the missing neighbour) are nobody's name, and `Room` is no
assumption of a module but the hypothesis of five theorems. The bounds of the models (`MaxFaults`, `MaxConns`, `MaxKeys`, `MaxExchanges`) are constants
like others: the theorems hold for every value of them.

Checked by TLC only, on the instances of the tables: the liveness properties `OperationEnds`, `CommandEnds` and `ExchangeEnds`, since the prover has no fairness; and
`NumixAgrees`, which would take induction over data and a module with RECURSIVE operators.

Two runs expect a violation and stand for disagreements between code and comment: `ext2_delete` (section 3) and `net_nested` (section 4).
