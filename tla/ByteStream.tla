----------------------------- MODULE ByteStream -----------------------------
(***************************************************************************)
(* What a caller of the TCP client may rely on: on each connection it      *)
(* reads what the server sent on that connection, in order, each piece     *)
(* once, and possibly not all of it.                                       *)
(***************************************************************************)
EXTENDS Naturals, Sequences

CONSTANT Length   \* pieces the server sends on a connection

VARIABLES conn,   \* the number of the connection
          read    \* what was read on it

Init == conn = 0 /\ read = <<>>

Open == conn' = conn + 1 /\ read' = <<>>

Read ==
  /\ Len(read) < Length
  /\ read' = Append(read, <<conn, Len(read) + 1>>)
  /\ conn' = conn

Spec == Init /\ [][Open \/ Read]_<<conn, read>>
=============================================================================
