-------------------------------- MODULE Download --------------------------------
(***************************************************************************)
(* The commands that move files through descriptors: net get, net https,   *)
(* net fetch and cat, with http_get_to_fd, which takes the headers off a   *)
(* response that arrives in pieces and hands the body on, piece by piece.  *)
(* A byte is "r" (CR), "n" (LF) or anything else.                          *)
(***************************************************************************)
EXTENDS Vfs

CONSTANTS
  Response,    \* what servers send
  MaxPiece,    \* bytes of the largest segment
  Temp,        \* /tmp/http_fetch.txt
  Owned        \* files that are there at first, root's own

ASSUME DownloadAssumption ==
  /\ Response \subseteq Seq(STRING) /\ MaxPiece \in Nat \ {0}
  /\ Temp \in Path /\ Owned \subseteq Path

VARIABLES
  cmd, pc, fd,       \* the command that runs, where, and its descriptor
  response, taken,   \* what the server sends on this connection, how much was received
  closed,            \* tcp_is_closed()
  carry, header,     \* http_get_to_fd's carry and header_done
  total,             \* its total_bytes, and then its result
  handed, written,   \* the bytes handed to vfs_write, and how many of them it wrote
  shown              \* the bytes the command printed

http == <<response, taken, closed, carry, header, total, handed, written>>
vars == <<vfsVars, cmd, pc, fd, http, shown>>

-----------------------------------------------------------------------------
(* The end of the headers.                                                 *)

EndsAt(s) == {i \in 4 .. Len(s) : SubSeq(s, i - 3, i) = <<"r", "n", "r", "n">>}
From(s, i) == SubSeq(s, i, Len(s))
Ending(s, n) == IF Len(s) <= n THEN s ELSE SubSeq(s, Len(s) - n + 1, Len(s))

\* The slips the runs have to notice: a chunk carried over whole, ...
KeepAll(chunk) == chunk
\* ... or too little of it, ...
KeepTwo(chunk) == Ending(chunk, 2)
\* ... the end of the loop looked for in the chunk, which has the carry in it, ...
EndedWhenEmpty(n) == closed /\ carry = <<>> /\ n = 0
\* ... and an early return when nothing came.
AfterLoopReturns == IF total > 0 THEN "close" ELSE "idle"

\* What is kept of a chunk without the end of the headers.
Keep(chunk) == Ending(chunk, 3)

-----------------------------------------------------------------------------
(* The commands.                                                           *)

\* A command leaves no locals behind.
Fresh ==
  /\ response' = <<>> /\ taken' = 0 /\ closed' = FALSE /\ carry' = <<>> /\ header' = FALSE
  /\ total' = 0 /\ handed' = <<>> /\ written' = 0

Start(c, p) ==
  /\ pc = "idle"
  /\ cmd' = [name |-> c, path |-> p] /\ pc' = "open"
  /\ shown' = <<>>
  /\ UNCHANGED <<vfsVars, fd, http>>

\* cat opens for reading; fetch reads its temporary file after it wrote it.
OpenFile ==
  /\ pc \in {"open", "reopen"}
  /\ LET reads == cmd.name = "cat" \/ pc = "reopen"
     IN  \/ /\ VfsOpen(cmd.path, ~reads, ~reads)
            /\ fd' = ret'
            /\ pc' = IF ret' = -1 THEN "idle"
                     ELSE IF reads THEN "read"
                     ELSE IF cmd.name = "https" THEN "tls" ELSE "connect"
         \/ VfsOpenFails(cmd.path, ~reads) /\ fd' = -1 /\ pc' = "idle"
  /\ IF pc' = "idle" THEN Fresh ELSE UNCHANGED http
  /\ UNCHANGED <<cmd, shown>>

Connect ==
  /\ pc = "connect"
  /\ \/ pc' = "loop" /\ response' \in Response /\ UNCHANGED total
     \/ pc' = "close" /\ total' = -1 /\ UNCHANGED response
  /\ UNCHANGED <<vfsVars, cmd, fd, taken, closed, carry, header, handed, written, shown>>

\* tls_connect pumps without polling the card, and gives up.
TlsFails ==
  /\ pc = "tls"
  /\ pc' = "close" /\ total' = -1
  /\ UNCHANGED <<vfsVars, cmd, fd, response, taken, closed, carry, header, handed, written, shown>>

\* The result of vfs_write is not looked at.
HandOver(data) ==
  /\ handed' = handed \o data /\ total' = total + Len(data)
  /\ IF data = <<>> THEN UNCHANGED <<vfsVars, written>>
     ELSE /\ VfsWrite(fd, data) \/ VfsWriteFails(fd)
          /\ written' = IF ret' = -1 THEN written ELSE written + ret'

\* What http_get_to_fd does with the carry and n bytes received.
Parse(n) ==
  LET chunk == carry \o SubSeq(response, taken + 1, taken + n)
      ends == EndsAt(chunk)
  IN  /\ header' = (header \/ ends # {})
      /\ carry' = IF header' THEN <<>> ELSE Keep(chunk)
      /\ HandOver(IF header THEN chunk ELSE IF ends = {} THEN <<>> ELSE From(chunk, Min(ends) + 1))

Ended(n) == closed /\ n = 0
AfterLoop == "close"

\* When the server closed, what it sent last is there at once.
Piece(n) ==
  /\ pc = "loop"
  /\ taken + n <= Len(response)
  /\ closed => n = Len(response) - taken
  /\ taken' = taken + n
  /\ Parse(n)
  /\ pc' = IF Ended(n) THEN AfterLoop ELSE "loop"
  /\ UNCHANGED <<cmd, fd, response, closed, shown>>

\* The server closes with its next segment, the last one or not, or in place of it.
PeerCloses ==
  /\ pc = "loop" /\ ~closed
  /\ closed' = TRUE
  /\ \E n \in 0 .. MaxPiece :
       taken + n <= Len(response) /\ response' = SubSeq(response, 1, taken + n)
  /\ UNCHANGED <<vfsVars, cmd, pc, fd, taken, carry, header, total, handed, written, shown>>

Close ==
  /\ pc \in {"close", "closeread"}
  /\ VfsClose(fd)
  /\ fd' = -1
  /\ IF pc = "close" /\ cmd.name = "fetch" /\ total > 0
       THEN pc' = "reopen" /\ UNCHANGED http
       ELSE pc' = "idle" /\ Fresh
  /\ UNCHANGED <<cmd, shown>>

\* What is printed is as long as the result says.
Read ==
  /\ pc = "read"
  /\ VfsRead(fd)
  /\ shown' = IF ret' > 0 THEN SubSeq(Bytes(fd), 1, ret') ELSE <<>>
  /\ pc' = "closeread"
  /\ UNCHANGED <<cmd, fd, http>>

-----------------------------------------------------------------------------
Init ==
  /\ VfsInit
  /\ files = [p \in IF mounted THEN Owned ELSE {} |-> [data |-> <<"o">>, mine |-> FALSE]]
  /\ cmd = [name |-> "none", path |-> Temp] /\ pc = "idle" /\ fd = -1
  /\ response = <<>> /\ taken = 0 /\ closed = FALSE /\ carry = <<>> /\ header = FALSE
  /\ total = 0 /\ handed = <<>> /\ written = 0 /\ shown = <<>>

Commands ==
  \/ \E p \in Path \cup Device : Start("get", p) \/ Start("https", p) \/ Start("cat", p)
  \/ Start("fetch", Temp)

Pieces == \E n \in 0 .. MaxPiece : Piece(n)

Step == OpenFile \/ Connect \/ TlsFails \/ Pieces \/ Close \/ Read

Next == Commands \/ Step \/ PeerCloses

Spec == Init /\ [][Next]_vars

\* A command runs on, and every server closes in the end.
FairSpec == Spec /\ WF_vars(Step) /\ WF_vars(PeerCloses)
-----------------------------------------------------------------------------
(* What has to hold.                                                       *)

Byte == (UNION {{s[i] : i \in 1 .. Len(s)} : s \in Response}) \cup {"o"}
Waiting == {"connect", "tls", "loop", "close", "read", "closeread"}

\* The variables keep their types, what is carried over fits its array of four bytes,
\* a command that goes on has an open descriptor, and ramfs no file twice.
TypeOK ==
  /\ mounted \in BOOLEAN /\ root \in BOOLEAN /\ DOMAIN files \subseteq Path
  /\ ~mounted => ToSet(order) = DOMAIN files /\ Len(order) = Cardinality(DOMAIN files)
  /\ \A p \in DOMAIN files : files[p] \in [data : Seq(Byte), mine : BOOLEAN]
  /\ fds \in [Fd -> [path : Path \cup Device \cup {""}, write : BOOLEAN, offset : Nat]]
  /\ ret \in Int /\ shown \in Seq(Byte)
  /\ cmd \in [name : {"none", "get", "https", "fetch", "cat"}, path : Path \cup Device]
  /\ pc \in {"idle", "open", "reopen"} \cup Waiting
  /\ pc \in Waiting => fd \in Used
  /\ response \in Seq(Byte) /\ taken \in 0 .. Len(response) /\ closed \in BOOLEAN
  /\ carry \in Seq(Byte) /\ Len(carry) < 4 /\ header \in BOOLEAN
  /\ total \in Int /\ handed \in Seq(Byte) /\ written \in Nat

Received == SubSeq(response, 1, taken)
Body(s) == IF EndsAt(s) = {} THEN <<>> ELSE From(s, Min(EndsAt(s)) + 1)

\* However a response is cut into segments, what goes to the descriptor is what comes
\* after the first empty line.
BodySplit == handed = Body(Received)

\* Between commands every descriptor is free, whatever failed in them.
NoLeak == pc = "idle" => Used = {}

\* No command of a user changes a file of root's.
OwnedKept == [][\A p \in DOMAIN files : ~root /\ ~files[p].mine => files'[p] = files[p]]_vars

\* Every command ends, when every server closes in the end.
CommandEnds == pc # "idle" ~> pc = "idle"

\* What a download leaves in a file is one unbroken part of the body, as long as the
\* bytes that were counted as written: vfs_write refuses a later piece (vfs.c:208) and
\* ext2 a first piece shorter than the file, and no two pieces are ever mixed.
SavedIsOnePart ==
  (pc = "close" /\ cmd.path \in Path /\ written > 0) =>
    \E i \in 0 .. Len(handed) - written :
      files[Holder(cmd.path)].data = SubSeq(handed, i + 1, i + written)
=============================================================================
