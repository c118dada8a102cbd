------------------------------ MODULE FileTree ------------------------------
(***************************************************************************)
(* What the ext2 driver promises its callers, power losses included: a     *)
(* tree of names that changes one name at a time, in which a file keeps    *)
(* its kind while it has a name and never gets shorter.                    *)
(***************************************************************************)
EXTENDS Integers

CONSTANTS Name, Inode, Root

VARIABLES
  tree,   \* the entries: name "name" of directory "dir" is inode "ino"
  node    \* kind and size in blocks of each named inode

vars == <<tree, node>>

Edge == [dir : Inode, name : Name, ino : Inode]
Kind == {"file", "dir"}
FileNode(k) == [kind |-> "file", size |-> k]
DirNode == [kind |-> "dir", size |-> 0]

Linked == DOMAIN node
Bound(d, n) == \E e \in tree : e.dir = d /\ e.name = n

Init ==
  /\ tree = {}
  /\ node = [i \in {Root} |-> DirNode]

\* A new name of a directory, for an inode that had none.
AddName(d, n, i, new) ==
  /\ d \in Linked /\ node[d] = DirNode /\ ~Bound(d, n)
  /\ i \in Inode \ Linked
  /\ tree' = tree \cup {[dir |-> d, name |-> n, ino |-> i]}
  /\ node' = [j \in Linked \cup {i} |-> IF j = i THEN new ELSE node[j]]

\* Only files lose their name, and with it everything.
RemoveName(e) ==
  /\ node[e.ino].kind = "file"
  /\ tree' = tree \ {e}
  /\ node' = [j \in Linked \ {e.ino} |-> node[j]]

Resize(i) ==
  /\ node[i].kind = "file" /\ DOMAIN node' = Linked
  /\ LET k == node'[i].size
     IN  k \in Nat /\ node[i].size < k /\ node' = [node EXCEPT ![i].size = k]
  /\ UNCHANGED tree

Next ==
  \/ \E d, i \in Inode, n \in Name : AddName(d, n, i, FileNode(0)) \/ AddName(d, n, i, DirNode)
  \/ \E e \in tree : RemoveName(e)
  \/ \E i \in Linked : Resize(i)

Spec == Init /\ [][Next]_vars
=============================================================================
