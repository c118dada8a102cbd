---------------------------- MODULE DownloadProofs ----------------------------
(***************************************************************************)
(* What the downloads keep for every response, however it is cut into      *)
(* segments, for every set of files and any number of descriptors.         *)
(***************************************************************************)
EXTENDS Download, FiniteSetTheorems, SequenceTheorems,
        NaturalsInduction, WellFoundedInduction, TLAPS

-----------------------------------------------------------------------------
Writing == {"connect", "tls", "loop", "close"}

\* The files, and the table of ramfs, which lists each once.
FileRec == [data : Seq(Byte), mine : BOOLEAN]
Tabled(f, o) ==
  /\ o \in Seq(Path) /\ ToSet(o) = DOMAIN f
  /\ IsFiniteSet(DOMAIN f) /\ Len(o) = Cardinality(DOMAIN f)
Stored ==
  /\ mounted \in BOOLEAN /\ root \in BOOLEAN /\ (~mounted => root)
  /\ DOMAIN files \subseteq Path /\ files \in [DOMAIN files -> FileRec]
  /\ ~mounted => Tabled(files, order)

FdRec == [path : Path \cup Device \cup {""}, write : BOOLEAN, offset : Nat]

\* The only open descriptor is the command's: its path leads to a file, which the user may
\* write if the descriptor is for writing.
Descriptors ==
  /\ fds \in [Fd -> FdRec]
  /\ Used = IF pc \in Waiting THEN {fd} ELSE {}
  /\ pc \in Waiting =>
       /\ fd \in Fd /\ fds[fd].path = cmd.path /\ (fds[fd].write <=> pc \in Writing)
       /\ cmd.path \in Path => Found(cmd.path) # {}
       /\ ~root /\ cmd.path \in Path /\ fds[fd].write => files[cmd.path].mine

\* A command, and what it has seen.
Running ==
  /\ cmd \in [name : {"none", "get", "https", "fetch", "cat"}, path : Path \cup Device]
  /\ pc \in {"idle", "open", "reopen"} \cup Waiting
  /\ ret \in Int /\ shown \in Seq(Byte) /\ total \in Int /\ written \in Nat /\ closed \in BOOLEAN
  /\ response \in Seq(Byte) /\ taken \in 0 .. Len(response)
  /\ pc \in {"idle", "open", "connect", "tls"} => taken = 0 /\ written = 0

\* The headers are looked for in all that came; until they end, its last three bytes are kept.
Parsed ==
  /\ header \in BOOLEAN /\ (header <=> EndsAt(Received) # {})
  /\ carry = (IF header THEN <<>> ELSE Ending(Received, 3))
  /\ handed = Body(Received)

\* Only the first piece of the body is ever written to a file.
Saved ==
  pc \in Writing /\ cmd.path \in Path =>
    /\ fds[fd].offset = written
    /\ written > 0 => \E i \in 0 .. Len(handed) - written :
         files[Holder(cmd.path)].data = SubSeq(handed, i + 1, i + written)

DownloadInv == Stored /\ Descriptors /\ Running /\ Parsed /\ Saved

-----------------------------------------------------------------------------
(* The end of the headers.                                                 *)

\* A set of numbers has a least one, which Min finds.
LEMMA Least ==
  ASSUME NEW S \in SUBSET Nat, S # {}
  PROVE  Min(S) \in S /\ \A j \in S : Min(S) <= j
  <1> DEFINE R == {ss \in Nat \X Nat : ss[1] < ss[2]}
  <1>1. IsWellFoundedOn(R, Nat)
    BY NatLessThanWellFounded DEF OpToRel
  <1>2. \A x \in Nat, y \in Nat : x < y => <<x, y>> \in R
    OBVIOUS
  <1> HIDE DEF R
  <1>3. PICK n \in S : TRUE
    OBVIOUS
  <1>4. PICK x \in S : \A y \in S : ~(<<y, x>> \in R)
    BY <1>1, <1>3, WFMin
  <1>5. ASSUME NEW y \in S PROVE x <= y
    <2>1. ~(y < x) /\ x \in Nat /\ y \in Nat
      BY <1>2, <1>4
    <2>2. QED
      BY <2>1
  <1>6. QED
    BY <1>5 DEF Min

\* Min of a set whose least element is known.
LEMMA LeastIs ==
  ASSUME NEW S \in SUBSET Nat, NEW m \in S, \A j \in S : m <= j
  PROVE  Min(S) = m
  <1>1. Min(S) \in S /\ \A j \in S : Min(S) <= j
    BY Least
  <1>2. Min(S) <= m /\ m <= Min(S) /\ Min(S) \in Nat /\ m \in Nat
    BY <1>1
  <1>3. QED
    BY <1>2

\* The four characters that end with the i-th.
At(s, i) == s[i - 3] = "r" /\ s[i - 2] = "n" /\ s[i - 1] = "r" /\ s[i] = "n"

\* Where the empty line ends.
LEMMA EndsAtIs ==
  ASSUME NEW S, NEW s \in Seq(S)
  PROVE  /\ EndsAt(s) = {i \in 4 .. Len(s) : At(s, i)}
         /\ EndsAt(s) \in SUBSET Nat /\ Len(s) \in Nat
  <1> DEFINE T == S \cup {"r", "n"}
             e == <<"r", "n", "r", "n">>
  <1>1. e \in Seq(T) /\ Len(e) = 4 /\ e[1] = "r" /\ e[2] = "n" /\ e[3] = "r" /\ e[4] = "n"
    OBVIOUS
  <1>2. \A i \in 1 .. Len(s) : s[i] \in T
    BY ElementOfSeq
  <1>3. Len(s) \in Nat
    BY LenProperties
  <1> HIDE DEF e, T
  <1>4. ASSUME NEW i \in 4 .. Len(s)
        PROVE  SubSeq(s, i - 3, i) = e <=> At(s, i)
    <2> DEFINE t == SubSeq(s, i - 3, i)
    <2>1. i \in Int /\ i - 3 \in Int /\ i - 3 <= i /\ \A j \in i - 3 .. i : s[j] \in T
      BY <1>2, <1>3
    <2>2. t \in Seq(T) /\ Len(t) = 4 /\ \A j \in 1 .. 4 : t[j] = s[i - 3 + j - 1]
      <3>1. /\ t \in Seq(T) /\ Len(t) = IF i - 3 <= i THEN i - (i - 3) + 1 ELSE 0
            /\ \A j \in 1 .. i - (i - 3) + 1 : t[j] = s[i - 3 + j - 1]
        BY <2>1, SubSeqProperties
      <3>2. i - (i - 3) + 1 = 4
        BY <2>1
      <3>3. QED
        BY <2>1, <3>1, <3>2
    <2> HIDE DEF t
    <2>3. t[1] = s[i - 3] /\ t[2] = s[i - 2] /\ t[3] = s[i - 1] /\ t[4] = s[i]
      <3>1. i - 3 + 1 - 1 = i - 3 /\ i - 3 + 2 - 1 = i - 2 /\ i - 3 + 3 - 1 = i - 1 /\ i - 3 + 4 - 1 = i
        BY <2>1
      <3>2. 1 \in 1 .. 4 /\ 2 \in 1 .. 4 /\ 3 \in 1 .. 4 /\ 4 \in 1 .. 4
        OBVIOUS
      <3>3. QED
        BY <2>2, <3>1, <3>2
    <2>4. ASSUME At(s, i) PROVE t = e
      <3>1. \A j \in 1 .. Len(t) : t[j] = e[j]
        <4>1. \A j \in 1 .. 4 : j = 1 \/ j = 2 \/ j = 3 \/ j = 4
          OBVIOUS
        <4>2. t[1] = e[1] /\ t[2] = e[2] /\ t[3] = e[3] /\ t[4] = e[4]
          BY <1>1, <2>3, <2>4 DEF At
        <4>3. QED
          BY <2>2, <4>1, <4>2
      <3>2. QED
        BY <1>1, <2>2, <3>1, SeqEqual
    <2>5. t = e => At(s, i)
      BY <1>1, <2>3 DEF At
    <2>6. QED
      BY <2>4, <2>5 DEF t
  <1>5. EndsAt(s) = {i \in 4 .. Len(s) : At(s, i)}
    BY <1>4 DEF EndsAt, e
  <1>6. QED
    BY <1>3, <1>5

UpToThree(n) == IF n <= 3 THEN n ELSE 3

\* The last characters of a sequence.
LEMMA EndingIs ==
  ASSUME NEW S, NEW s \in Seq(S), NEW l \in Nat, l = UpToThree(Len(s))
  PROVE  /\ Ending(s, 3) \in Seq(S) /\ Len(Ending(s, 3)) = l
         /\ \A i \in 1 .. l : Ending(s, 3)[i] = s[Len(s) - l + i]
  <1>1. Len(s) \in Nat
    BY LenProperties
  <1>2. CASE Len(s) <= 3
    BY <1>1, <1>2 DEF Ending, UpToThree
  <1>3. CASE ~(Len(s) <= 3)
    <2> DEFINE m == Len(s) - 3 + 1
               n == Len(s)
    <2>1. m \in Int /\ n \in Int /\ m <= n /\ n - m + 1 = 3 /\ m \in 1 .. n
      BY <1>1, <1>3
    <2>2. \A i \in m .. n : s[i] \in S
      <3>1. \A i \in m .. n : i \in 1 .. Len(s)
        BY <2>1
      <3>2. QED
        BY <3>1, ElementOfSeq
    <2>3. Ending(s, 3) = SubSeq(s, m, n)
      BY <1>3 DEF Ending
    <2> HIDE DEF m, n
    <2>4. /\ SubSeq(s, m, n) \in Seq(S) /\ Len(SubSeq(s, m, n)) = n - m + 1
          /\ \A i \in 1 .. n - m + 1 : SubSeq(s, m, n)[i] = s[m + i - 1]
      BY <2>1, <2>2, SubSeqProperties
    <2>5. \A i \in 1 .. 3 : m + i - 1 = Len(s) - 3 + i
      BY <1>1 DEF m
    <2>6. l = 3
      BY <1>3 DEF UpToThree
    <2>7. QED
      BY <2>1, <2>3, <2>4, <2>5, <2>6
  <1>4. QED
    BY <1>2, <1>3

\* What comes after a place.
LEMMA FromIs ==
  ASSUME NEW S, NEW s \in Seq(S), NEW i \in Nat, i < Len(s) + 1
  PROVE  /\ From(s, i + 1) \in Seq(S) /\ Len(From(s, i + 1)) = Len(s) - i
         /\ \A j \in 1 .. Len(s) - i : From(s, i + 1)[j] = s[i + j]
  <1> DEFINE m == i + 1
             n == Len(s)
  <1>1. n \in Nat /\ m \in Int /\ n \in Int /\ n - m + 1 = n - i
    BY LenProperties
  <1>2. \A j \in m .. n : s[j] \in S
    <2>1. \A j \in m .. n : j \in 1 .. Len(s)
      BY <1>1
    <2>2. QED
      BY <2>1, ElementOfSeq
  <1>3. From(s, i + 1) = SubSeq(s, m, n)
    BY DEF From
  <1>4. (IF m <= n THEN n - m + 1 ELSE 0) = n - i
    <2>1. n \in Nat /\ i \in Nat /\ i < n + 1
      BY <1>1
    <2> HIDE DEF n
    <2>2. QED
      BY <2>1
  <1>5. \A j \in 1 .. n - i : m + j - 1 = i + j
    BY <1>1
  <1> HIDE DEF m, n
  <1>6. /\ SubSeq(s, m, n) \in Seq(S) /\ Len(SubSeq(s, m, n)) = IF m <= n THEN n - m + 1 ELSE 0
        /\ \A j \in 1 .. n - m + 1 : SubSeq(s, m, n)[j] = s[m + j - 1]
    BY <1>1, <1>2, SubSeqProperties
  <1>7. QED
    BY <1>1, <1>3, <1>4, <1>5, <1>6 DEF n

-----------------------------------------------------------------------------
(* A chunk is the end of all that came.                                    *)

\* c is what the sequence w holds after its first k characters.
EndOf(c, w, k) == Len(w) = k + Len(c) /\ \A i \in 1 .. Len(c) : c[i] = w[k + i]

\* What was kept of r, with p after it, is the end of r with p after it; and no empty line
\* that ends in p begins before it.
LEMMA Kept ==
  ASSUME NEW S, NEW r \in Seq(S), NEW p \in Seq(S), NEW l \in Nat,
         l = UpToThree(Len(r))
  PROVE  /\ Ending(r, 3) \o p \in Seq(S) /\ Len(r) - l \in Nat
         /\ EndOf(Ending(r, 3) \o p, r \o p, Len(r) - l)
         /\ Len(Ending(r, 3) \o p) = l + Len(p)
  <1> DEFINE c == Ending(r, 3)
  <1>1. c \in Seq(S) /\ Len(c) = l /\ \A i \in 1 .. l : c[i] = r[Len(r) - l + i]
    BY EndingIs
  <1> HIDE DEF c
  <1>2. PICK a \in Nat, b \in Nat : a = Len(r) /\ b = Len(p)
    BY LenProperties
  <1>3. l = UpToThree(a)
    BY <1>2
  <1>4. l <= a /\ a - l \in Nat
    BY <1>3 DEF UpToThree
  <1>5. /\ c \o p \in Seq(S) /\ Len(c \o p) = l + b
        /\ \A i \in 1 .. l + b : (c \o p)[i] = IF i <= l THEN c[i] ELSE p[i - l]
    <2>1. /\ c \o p \in Seq(S) /\ Len(c \o p) = Len(c) + Len(p)
          /\ \A i \in 1 .. Len(c) + Len(p) :
               (c \o p)[i] = IF i <= Len(c) THEN c[i] ELSE p[i - Len(c)]
      BY <1>1, ConcatProperties
    <2>2. Len(c) = l /\ Len(p) = b
      BY <1>1, <1>2
    <2>3. QED
      BY <2>1, <2>2
  <1>6. /\ Len(r \o p) = a + b
        /\ \A i \in 1 .. a + b : (r \o p)[i] = IF i <= a THEN r[i] ELSE p[i - a]
    BY <1>2, ConcatProperties
  <1>7. \A i \in 1 .. l : c[i] = r[a - l + i]
    BY <1>1, <1>2
  <1>8. ASSUME NEW i \in 1 .. l + b
        PROVE  (c \o p)[i] = (r \o p)[a - l + i]
    <2>1. PICK j \in Nat : j = a - l + i
      BY <1>4
    <2>2. j \in 1 .. a + b
      BY <1>4, <2>1
    <2>3. CASE i <= l
      <3>1. i \in 1 .. l /\ j <= a
        BY <1>4, <2>1, <2>3
      <3>2. (c \o p)[i] = r[j]
        BY <1>5, <1>7, <2>1, <2>3, <3>1
      <3>3. QED
        BY <1>6, <2>1, <2>2, <3>1, <3>2
    <2>4. CASE ~(i <= l)
      <3>1. ~(j <= a) /\ j - a = i - l
        BY <1>4, <2>1, <2>4
      <3>2. (c \o p)[i] = p[i - l]
        BY <1>5, <2>4
      <3>3. (r \o p)[j] = p[j - a]
        BY <1>6, <2>2, <3>1
      <3>4. QED
        BY <2>1, <3>1, <3>2, <3>3
    <2>5. QED
      BY <2>3, <2>4
  <1>9. Len(r \o p) = a - l + Len(c \o p) /\ Len(c \o p) = l + b
    BY <1>4, <1>5, <1>6
  <1>10. \A i \in 1 .. Len(c \o p) : (c \o p)[i] = (r \o p)[a - l + i]
    BY <1>8, <1>9
  <1>11. EndOf(c \o p, r \o p, a - l)
    BY <1>9, <1>10 DEF EndOf
  <1>12. QED
    BY <1>4, <1>5, <1>9, <1>11, <1>2 DEF c

\* The places where an empty line ends, in the end of a sequence and in all of it.
LEMMA PlacesInEnd ==
  ASSUME NEW S, NEW c \in Seq(S), NEW w \in Seq(S), NEW k \in Nat, EndOf(c, w, k),
         NEW i \in Int
  PROVE  i \in EndsAt(c) <=> i >= 4 /\ i + k \in EndsAt(w)
  <1>1. /\ EndsAt(c) = {j \in 4 .. Len(c) : At(c, j)} /\ EndsAt(w) = {j \in 4 .. Len(w) : At(w, j)}
        /\ Len(c) \in Nat /\ Len(w) \in Nat /\ Len(w) = k + Len(c)
        /\ \A j \in 1 .. Len(c) : c[j] = w[k + j]
    BY EndsAtIs DEF EndOf
  <1>2. ASSUME i \in 4 .. Len(c)
        PROVE  At(c, i) <=> At(w, i + k)
    <2>1. i - 3 \in 1 .. Len(c) /\ i - 2 \in 1 .. Len(c) /\ i - 1 \in 1 .. Len(c) /\ i \in 1 .. Len(c)
      BY <1>1, <1>2
    <2>2. /\ k + (i - 3) = i + k - 3 /\ k + (i - 2) = i + k - 2 /\ k + (i - 1) = i + k - 1
          /\ k + i = i + k
      OBVIOUS
    <2>3. /\ c[i - 3] = w[i + k - 3] /\ c[i - 2] = w[i + k - 2] /\ c[i - 1] = w[i + k - 1]
          /\ c[i] = w[i + k]
      BY <1>1, <2>1, <2>2
    <2>4. QED
      BY <2>3 DEF At
  <1>3. i \in 4 .. Len(c) <=> i >= 4 /\ i + k \in 4 .. Len(w)
    BY <1>1
  <1>4. QED
    BY <1>1, <1>2, <1>3

\* What comes after the empty line of the end comes after that of all.
LEMMA BodyOfEnd ==
  ASSUME NEW S, NEW c \in Seq(S), NEW w \in Seq(S), NEW k \in Nat, EndOf(c, w, k),
         \A j \in EndsAt(w) : j - k >= 4
  PROVE  /\ EndsAt(c) = {} <=> EndsAt(w) = {}
         /\ Body(c) = Body(w)
  <1>1. \A i \in Int : i \in EndsAt(c) <=> i >= 4 /\ i + k \in EndsAt(w)
    BY PlacesInEnd
  <1>2. /\ EndsAt(c) \in SUBSET Nat /\ EndsAt(w) \in SUBSET Nat
        /\ Len(c) \in Nat /\ Len(w) = k + Len(c)
        /\ \A j \in EndsAt(c) : j \in 4 .. Len(c)
    BY EndsAtIs DEF EndOf
  <1>3. \A j \in EndsAt(w) : j - k \in EndsAt(c)
    <2>1. ASSUME NEW j \in EndsAt(w) PROVE j - k \in EndsAt(c)
      <3>1. j \in Int /\ j - k \in Int /\ j - k + k = j /\ j - k >= 4
        BY <1>2
      <3>2. QED
        BY <1>1, <3>1
    <2>2. QED
      BY <2>1
  <1>4. \A i \in EndsAt(c) : i + k \in EndsAt(w)
    BY <1>1, <1>2
  <1>5. EndsAt(c) = {} <=> EndsAt(w) = {}
    BY <1>3, <1>4
  <1>6. CASE EndsAt(w) = {}
    BY <1>5, <1>6 DEF Body
  <1>7. CASE EndsAt(w) # {}
    <2> DEFINE m == Min(EndsAt(c))
    <2>1. m \in EndsAt(c) /\ \A j \in EndsAt(c) : m <= j
      BY <1>2, <1>5, <1>7, Least
    <2> HIDE DEF m
    <2>2. m \in Nat /\ m \in 4 .. Len(c) /\ m + k \in EndsAt(w)
      BY <1>2, <1>4, <2>1
    <2>3. \A j \in EndsAt(w) : m + k <= j
      <3>1. ASSUME NEW j \in EndsAt(w) PROVE m + k <= j
        <4>1. m <= j - k /\ j \in Nat
          BY <1>2, <1>3, <2>1
        <4>2. QED
          BY <2>2, <4>1
      <3>2. QED
        BY <3>1
    <2>4. Min(EndsAt(w)) = m + k
      BY <1>2, <2>2, <2>3, LeastIs
    <2>5. /\ From(c, m + 1) \in Seq(S) /\ Len(From(c, m + 1)) = Len(c) - m
          /\ \A j \in 1 .. Len(c) - m : From(c, m + 1)[j] = c[m + j]
      <3>1. m < Len(c) + 1
        BY <1>2, <2>2
      <3>2. QED
        BY <2>2, <3>1, FromIs
    <2> DEFINE n == m + k
    <2>6. n \in Nat /\ n < Len(w) + 1 /\ Len(w) - n = Len(c) - m
      BY <1>2, <2>2
    <2>7. \A j \in 1 .. Len(c) - m : c[m + j] = w[n + j]
      <3>1. ASSUME NEW j \in 1 .. Len(c) - m PROVE c[m + j] = w[n + j]
        <4>1. m + j \in 1 .. Len(c) /\ k + (m + j) = n + j
          BY <1>2, <2>2
        <4>2. QED
          BY <4>1 DEF EndOf
      <3>2. QED
        BY <3>1
    <2> HIDE DEF n
    <2>8. /\ From(w, n + 1) \in Seq(S) /\ Len(From(w, n + 1)) = Len(w) - n
          /\ \A j \in 1 .. Len(w) - n : From(w, n + 1)[j] = w[n + j]
      BY <2>6, FromIs
    <2>9. From(c, m + 1) = From(w, n + 1)
      <3> DEFINE x == From(c, m + 1)
                 y == From(w, n + 1)
      <3>1. x \in Seq(S) /\ y \in Seq(S) /\ Len(x) = Len(y) /\ \A j \in 1 .. Len(x) : x[j] = y[j]
        BY <2>5, <2>6, <2>7, <2>8
      <3> HIDE DEF x, y
      <3>2. x = y
        BY <3>1, SeqEqual
      <3>3. QED
        BY <3>2 DEF x, y
    <2>10. QED
      BY <1>5, <1>7, <2>4, <2>9 DEF Body, m, n
  <1>8. QED
    BY <1>5, <1>6, <1>7

\* What was there is still there when more comes.
LEMMA MoreCame ==
  ASSUME NEW S, NEW r \in Seq(S), NEW p \in Seq(S)
  PROVE  /\ r \o p \in Seq(S) /\ Len(r \o p) = Len(r) + Len(p) /\ Len(r) \in Nat /\ Len(p) \in Nat
         /\ \A i \in 1 .. Len(r) : (r \o p)[i] = r[i]
         /\ \A i \in 1 .. Len(p) : (r \o p)[Len(r) + i] = p[i]
         /\ \A i \in 1 .. Len(r) : i \in EndsAt(r) <=> i \in EndsAt(r \o p)
  <1>1. PICK a \in Nat, b \in Nat : a = Len(r) /\ b = Len(p)
    BY LenProperties
  <1> DEFINE w == r \o p
  <1>2. /\ w \in Seq(S) /\ Len(w) = a + b
        /\ \A i \in 1 .. a + b : w[i] = IF i <= a THEN r[i] ELSE p[i - a]
    BY <1>1, ConcatProperties
  <1> HIDE DEF w
  <1>3. \A i \in 1 .. a : w[i] = r[i]
    BY <1>2
  <1>4. \A i \in 1 .. b : w[a + i] = p[i]
    <2>1. ASSUME NEW i \in 1 .. b PROVE w[a + i] = p[i]
      <3>1. PICK j \in Nat : j = a + i
        OBVIOUS
      <3>2. j \in 1 .. a + b /\ ~(j <= a) /\ j - a = i
        BY <3>1
      <3>3. w[j] = p[j - a]
        BY <1>2, <3>2
      <3>4. QED
        BY <3>1, <3>2, <3>3
    <2>2. QED
      BY <2>1
  <1>5. /\ EndsAt(r) = {i \in 4 .. a : At(r, i)}
        /\ EndsAt(w) = {i \in 4 .. a + b : At(w, i)}
    BY <1>1, <1>2, EndsAtIs
  <1>6. ASSUME NEW i \in 1 .. a
        PROVE  i \in EndsAt(r) <=> i \in EndsAt(w)
    <2>1. CASE i >= 4
      <3>1. i - 3 \in 1 .. a /\ i - 2 \in 1 .. a /\ i - 1 \in 1 .. a /\ i \in 4 .. a /\ i \in 4 .. a + b
        BY <2>1
      <3>2. At(r, i) <=> At(w, i)
        BY <1>3, <3>1 DEF At
      <3>3. QED
        BY <1>5, <3>1, <3>2
    <2>2. CASE ~(i >= 4)
      BY <1>5, <2>2
    <2>3. QED
      BY <2>1, <2>2
  <1>7. QED
    BY <1>1, <1>2, <1>3, <1>4, <1>6 DEF w

\* An empty line that ends in what came now begins in what was kept.
LEMMA NoneBefore ==
  ASSUME NEW S, NEW r \in Seq(S), NEW p \in Seq(S), EndsAt(r) = {},
         NEW j \in EndsAt(r \o p)
  PROVE  j - (Len(r) - UpToThree(Len(r))) >= 4
  <1>1. PICK a \in Nat : a = Len(r)
    BY LenProperties
  <1>2. /\ \A i \in 1 .. a : i \notin EndsAt(r \o p)
        /\ j \in Nat /\ j >= 4
    <2>1. r \o p \in Seq(S) /\ \A i \in 1 .. a : i \in EndsAt(r) <=> i \in EndsAt(r \o p)
      BY <1>1, MoreCame
    <2>2. EndsAt(r \o p) = {i \in 4 .. Len(r \o p) : At(r \o p, i)} /\ Len(r \o p) \in Nat
      BY <2>1, EndsAtIs
    <2>3. j \in 4 .. Len(r \o p)
      BY <2>2
    <2>4. QED
      BY <2>1, <2>2, <2>3
  <1>3. j > a
    BY <1>2
  <1>4. CASE a <= 3
    BY <1>1, <1>2, <1>4 DEF UpToThree
  <1>5. CASE ~(a <= 3)
    BY <1>1, <1>2, <1>3, <1>5 DEF UpToThree
  <1>6. QED
    BY <1>4, <1>5

\* What is kept of what was kept and came is what would be kept of all.
LEMMA KeptAgain ==
  ASSUME NEW S, NEW r \in Seq(S), NEW p \in Seq(S)
  PROVE  Ending(Ending(r, 3) \o p, 3) = Ending(r \o p, 3)
  <1>1. PICK a \in Nat, b \in Nat : a = Len(r) /\ b = Len(p)
    BY LenProperties
  <1>2. PICK l \in Nat : l = UpToThree(a)
    BY DEF UpToThree
  <1> DEFINE c == Ending(r, 3) \o p
             w == r \o p
  <1>3. c \in Seq(S) /\ Len(c) = l + b /\ EndOf(c, w, a - l) /\ a - l \in Nat
    <2>1. l = UpToThree(Len(r))
      BY <1>1, <1>2
    <2>2. c \in Seq(S)
      BY <2>1, Kept
    <2>3. Len(c) = l + Len(p)
      BY <2>1, Kept
    <2>4. EndOf(c, w, Len(r) - l) /\ Len(r) - l \in Nat
      BY <2>1, Kept
    <2>5. QED
      BY <1>1, <2>2, <2>3, <2>4
  <1>4. w \in Seq(S) /\ Len(w) = a + b
    BY <1>1, MoreCame
  <1> HIDE DEF c, w
  <1>5. PICK m \in Nat : m = UpToThree(l + b)
    BY DEF UpToThree
  <1>6. PICK k \in Nat, n \in Nat : k = l + b /\ n = a + b
    OBVIOUS
  <1>7. m = UpToThree(k) /\ m = UpToThree(n) /\ m <= k
    BY <1>2, <1>5, <1>6 DEF UpToThree
  <1>8. Len(c) = k /\ Len(w) = n
    BY <1>3, <1>4, <1>6
  <1> DEFINE x == Ending(c, 3)
             y == Ending(w, 3)
  <1>9. x \in Seq(S) /\ Len(x) = m /\ \A i \in 1 .. m : x[i] = c[k - m + i]
    <2>1. m = UpToThree(Len(c))
      BY <1>7, <1>8
    <2>2. x \in Seq(S) /\ Len(x) = m /\ \A i \in 1 .. m : x[i] = c[Len(c) - m + i]
      BY <1>3, <2>1, EndingIs
    <2>3. QED
      BY <1>8, <2>2
  <1>10. y \in Seq(S) /\ Len(y) = m /\ \A i \in 1 .. m : y[i] = w[n - m + i]
    <2>1. m = UpToThree(Len(w))
      BY <1>7, <1>8
    <2>2. y \in Seq(S) /\ Len(y) = m /\ \A i \in 1 .. m : y[i] = w[Len(w) - m + i]
      BY <1>4, <2>1, EndingIs
    <2>3. QED
      BY <1>8, <2>2
  <1> HIDE DEF x, y
  <1>11. ASSUME NEW i \in 1 .. m PROVE x[i] = y[i]
    <2>1. PICK j \in Nat : j = k - m + i
      BY <1>7
    <2>2. j \in 1 .. k /\ a - l + j = n - m + i
      BY <1>3, <1>7, <1>6, <2>1
    <2>3. c[j] = w[a - l + j]
      BY <1>3, <1>8, <2>2 DEF EndOf
    <2>4. QED
      BY <1>9, <1>10, <2>1, <2>2, <2>3
  <1>12. x = y
    BY <1>9, <1>10, <1>11, SeqEqual
  <1>13. QED
    BY <1>12 DEF x, y, c, w

\* After the headers all that comes is body.
LEMMA BodyGrows ==
  ASSUME NEW S, NEW r \in Seq(S), NEW p \in Seq(S), EndsAt(r) # {}
  PROVE  EndsAt(r \o p) # {} /\ Body(r \o p) = Body(r) \o p
  <1>1. PICK a \in Nat, b \in Nat : a = Len(r) /\ b = Len(p)
    BY LenProperties
  <1> DEFINE w == r \o p
  <1>2. /\ w \in Seq(S) /\ Len(w) = a + b
        /\ \A i \in 1 .. a : w[i] = r[i]
        /\ \A i \in 1 .. b : w[a + i] = p[i]
        /\ \A i \in 1 .. a : i \in EndsAt(r) <=> i \in EndsAt(w)
    BY <1>1, MoreCame
  <1> HIDE DEF w
  <1>3. /\ EndsAt(r) \in SUBSET Nat /\ EndsAt(w) \in SUBSET Nat
        /\ EndsAt(r) = {i \in 4 .. a : At(r, i)} /\ \A i \in EndsAt(w) : i >= 4
    BY <1>1, <1>2, EndsAtIs
  <1>4. PICK m \in Nat : m = Min(EndsAt(r)) /\ m \in EndsAt(r) /\ \A j \in EndsAt(r) : m <= j
    BY <1>3, Least
  <1>5. m \in 1 .. a /\ m \in EndsAt(w)
    BY <1>2, <1>3, <1>4
  <1>6. \A j \in EndsAt(w) : m <= j
    <2>1. ASSUME NEW j \in EndsAt(w) PROVE m <= j
      <3>1. j \in Nat /\ j >= 4
        BY <1>3
      <3>2. CASE j <= a
        <4>1. j \in EndsAt(r)
          BY <1>2, <3>1, <3>2
        <4>2. QED
          BY <1>4, <4>1
      <3>3. CASE ~(j <= a)
        BY <1>5, <3>1, <3>3
      <3>4. QED
        BY <3>2, <3>3
    <2>2. QED
      BY <2>1
  <1>7. Min(EndsAt(w)) = m
    BY <1>3, <1>5, <1>6, LeastIs
  <1> DEFINE x == From(r, m + 1)
             y == From(w, m + 1)
             z == x \o p
  <1>8. m < a + 1 /\ m < a + b + 1 /\ a - m \in Nat /\ a + b - m = a - m + b
    BY <1>5
  <1>9. PICK d \in Nat, n \in Nat : d = a - m /\ n = d + b
    BY <1>8
  <1>10. x \in Seq(S) /\ Len(x) = d /\ \A j \in 1 .. d : x[j] = r[m + j]
    <2>1. m < Len(r) + 1 /\ Len(r) - m = d
      BY <1>1, <1>8, <1>9
    <2>2. x \in Seq(S) /\ Len(x) = Len(r) - m /\ \A j \in 1 .. Len(r) - m : x[j] = r[m + j]
      BY <2>1, FromIs
    <2>3. QED
      BY <2>1, <2>2
  <1>11. y \in Seq(S) /\ Len(y) = n /\ \A j \in 1 .. n : y[j] = w[m + j]
    <2>1. m < Len(w) + 1 /\ Len(w) - m = n
      BY <1>2, <1>8, <1>9
    <2>2. y \in Seq(S) /\ Len(y) = Len(w) - m /\ \A j \in 1 .. Len(w) - m : y[j] = w[m + j]
      <3>1. w \in Seq(S) /\ m < Len(w) + 1
        BY <1>2, <2>1
      <3> HIDE DEF w
      <3>2. QED
        BY <3>1, FromIs
    <2>3. QED
      BY <2>1, <2>2
  <1> HIDE DEF x, y
  <1>12. /\ z \in Seq(S) /\ Len(z) = d + b
         /\ \A j \in 1 .. d : z[j] = x[j]
         /\ \A j \in 1 .. b : z[d + j] = p[j]
    <2>1. /\ z \in Seq(S) /\ Len(z) = Len(x) + Len(p)
          /\ \A j \in 1 .. Len(x) : z[j] = x[j]
          /\ \A j \in 1 .. Len(p) : z[Len(x) + j] = p[j]
      <3>1. x \in Seq(S)
        BY <1>10
      <3>2. QED
        BY <3>1, MoreCame
    <2>2. Len(x) = d /\ Len(p) = b
      BY <1>1, <1>10
    <2>3. QED
      BY <2>1, <2>2
  <1> HIDE DEF z
  <1>13. Len(y) = n /\ Len(z) = n
    BY <1>11, <1>9, <1>12
  <1>14. ASSUME NEW j \in 1 .. n PROVE y[j] = z[j]
    <2>1. y[j] = w[m + j]
      BY <1>11
    <2>2. CASE j <= d
      <3>1. j \in 1 .. d /\ m + j \in 1 .. a
        BY <1>9, <2>2
      <3>2. z[j] = r[m + j]
        BY <1>10, <1>12, <3>1
      <3>3. QED
        BY <1>2, <2>1, <3>1, <3>2
    <2>3. CASE ~(j <= d)
      <3>1. PICK i \in Nat : j = d + i
        <4>1. j - d \in Nat
          BY <2>3
        <4>2. j = d + (j - d)
          OBVIOUS
        <4>3. QED
          BY <4>1, <4>2
      <3>2. i \in 1 .. b /\ m + j = a + i
        BY <1>9, <2>3, <3>1
      <3>3. z[j] = p[i]
        <4>1. z[d + i] = p[i]
          BY <1>12, <3>2
        <4>2. QED
          BY <3>1, <4>1
      <3>4. w[m + j] = p[i]
        <4>1. w[a + i] = p[i]
          BY <1>2, <3>2
        <4>2. QED
          BY <3>2, <4>1
      <3>5. QED
        BY <2>1, <3>3, <3>4
    <2>4. QED
      BY <2>2, <2>3
  <1>15. y = z
    BY <1>11, <1>12, <1>13, <1>14, SeqEqual
  <1>16. QED
    BY <1>4, <1>5, <1>7, <1>15 DEF Body, x, y, z, w

-----------------------------------------------------------------------------
(* What is received.                                                       *)

\* Servers send bytes.
LEMMA ResponseBytes ==
  ASSUME NEW t \in Response
  PROVE  t \in Seq(Byte)
  <1>1. t \in Seq(STRING)
    BY DownloadAssumption
  <1>2. \A i \in 1 .. Len(t) : t[i] \in Byte
    <2> DEFINE B == {t[i] : i \in 1 .. Len(t)}
               A == {{s[i] : i \in 1 .. Len(s)} : s \in Response}
    <2>1. \A i \in 1 .. Len(t) : t[i] \in B
      OBVIOUS
    <2>2. B \in A
      OBVIOUS
    <2>3. \A x : (\E b \in A : x \in b) => x \in Byte
      BY DEF Byte
    <2> HIDE DEF A, B
    <2>4. QED
      BY <2>1, <2>2, <2>3
  <1>3. Len(t) \in Nat /\ SubSeq(t, 1, Len(t)) = t
    BY <1>1, LenProperties, SubSeqFull
  <1>4. 1 \in Int /\ Len(t) \in Int
    BY <1>3
  <1>5. SubSeq(t, 1, Len(t)) \in Seq(Byte)
    BY <1>2, <1>4, SubSeqProperties
  <1>6. QED
    BY <1>3, <1>5

\* The body of a sequence, if any.
LEMMA BodyBytes ==
  ASSUME NEW S, NEW s \in Seq(S)
  PROVE  Body(s) \in Seq(S)
  <1>1. CASE EndsAt(s) = {}
    BY <1>1 DEF Body
  <1>2. CASE EndsAt(s) # {}
    <2>1. PICK m \in Nat : m = Min(EndsAt(s)) /\ m < Len(s) + 1
      <3>1. EndsAt(s) \in SUBSET Nat /\ EndsAt(s) = {i \in 4 .. Len(s) : At(s, i)} /\ Len(s) \in Nat
        BY EndsAtIs
      <3> DEFINE m == Min(EndsAt(s))
      <3>2. m \in EndsAt(s)
        BY <1>2, <3>1, Least
      <3> HIDE DEF m
      <3>3. m \in Nat /\ m \in 4 .. Len(s)
        BY <3>1, <3>2
      <3>4. m < Len(s) + 1
        BY <3>1, <3>3
      <3>5. QED
        BY <3>3, <3>4 DEF m
    <2>2. From(s, m + 1) \in Seq(S)
      BY <2>1, FromIs
    <2>3. QED
      BY <1>2, <2>1, <2>2 DEF Body
  <1>3. QED
    BY <1>1, <1>2

\* What came, and the piece that comes.
LEMMA Came ==
  ASSUME response \in Seq(Byte), taken \in 0 .. Len(response), NEW n \in Nat,
         taken + n <= Len(response)
  PROVE  LET p == SubSeq(response, taken + 1, taken + n)
         IN  /\ Received \in Seq(Byte) /\ p \in Seq(Byte)
             /\ SubSeq(response, 1, taken + n) = Received \o p
  <1> DEFINE k == taken + n
             p == SubSeq(response, taken + 1, k)
  <1>1. PICK l \in Nat : l = Len(response)
    BY LenProperties
  <1>2. k \in Nat /\ taken \in Nat /\ taken <= k /\ k <= l
    BY <1>1
  <1>3. \A i \in 1 .. l : response[i] \in Byte
    BY <1>1, ElementOfSeq
  <1>4. p \in Seq(Byte)
    <2>1. taken + 1 \in Int /\ k \in Int /\ \A i \in taken + 1 .. k : response[i] \in Byte
      BY <1>2, <1>3
    <2>2. QED
      BY <2>1, SubSeqProperties
  <1>5. Received \in Seq(Byte)
    <2>1. 1 \in Int /\ taken \in Int /\ \A i \in 1 .. taken : response[i] \in Byte
      BY <1>2, <1>3
    <2>2. QED
      BY <2>1, SubSeqProperties DEF Received
  <1>6. SubSeq(response, 1, taken) \o p = SubSeq(response, 1, k)
    <2>1. /\ 1 \in 1 .. Len(response) + 1 /\ taken \in 1 - 1 .. Len(response)
          /\ k \in taken .. Len(response)
      BY <1>1, <1>2
    <2> HIDE DEF k
    <2>2. SubSeq(response, 1, taken) \o SubSeq(response, taken + 1, k) = SubSeq(response, 1, k)
      BY <2>1, ConcatAdjacentSubSeq
    <2>3. QED
      BY <2>2
  <1>7. QED
    BY <1>4, <1>5, <1>6 DEF Received

\* http_get_to_fd with the next piece: it hands over what comes after the empty line.
LEMMA PieceParsed ==
  ASSUME Running, Parsed, NEW n \in 0 .. MaxPiece, Piece(n)
  PROVE  /\ Parsed' /\ carry' \in Seq(Byte)
         /\ \E d \in Seq(Byte) : HandOver(d)
  <1> DEFINE r == Received
             p == SubSeq(response, taken + 1, taken + n)
             c == carry \o p
             w == r \o p
  <1>1. /\ response \in Seq(Byte) /\ taken \in 0 .. Len(response) /\ n \in Nat
        /\ taken + n <= Len(response) /\ response' = response /\ taken' = taken + n
    BY DownloadAssumption DEF Running, Piece
  <1>2. r \in Seq(Byte) /\ p \in Seq(Byte) /\ Received' = w
    <2>1. r \in Seq(Byte) /\ p \in Seq(Byte) /\ SubSeq(response, 1, taken + n) = w
      BY <1>1, Came
    <2>2. Received' = SubSeq(response, 1, taken + n)
      BY <1>1 DEF Received
    <2>3. QED
      BY <2>1, <2>2
  <1>3. /\ header \in BOOLEAN /\ (header <=> EndsAt(r) # {}) /\ handed = Body(r)
        /\ carry = (IF header THEN <<>> ELSE Ending(r, 3))
    BY DEF Parsed
  <1>4. /\ header' = (header \/ EndsAt(c) # {})
        /\ carry' = IF header' THEN <<>> ELSE Keep(c)
        /\ HandOver(IF header THEN c ELSE IF EndsAt(c) = {} THEN <<>> ELSE From(c, Min(EndsAt(c)) + 1))
    BY DEF Piece, Parse
  <1> HIDE DEF r, p
  <1>5. w \in Seq(Byte)
    BY <1>2, MoreCame
  <1>6. CASE header
    <2>1. c = p
      <3>1. <<>> \o p = p
        BY <1>2, ConcatEmptySeq
      <3>2. QED
        BY <1>3, <1>6, <3>1
    <2>2. HandOver(p)
      BY <1>4, <1>6, <2>1
    <2>3. handed' = Body(r) \o p
      BY <1>3, <2>2 DEF HandOver
    <2>4. EndsAt(w) # {} /\ Body(w) = Body(r) \o p
      BY <1>2, <1>3, <1>6, BodyGrows
    <2>5. header' = TRUE /\ carry' = <<>>
      BY <1>4, <1>6
    <2>6. Parsed'
      BY <1>2, <2>3, <2>4, <2>5 DEF Parsed, Body
    <2>7. QED
      BY <1>2, <2>2, <2>5, <2>6
  <1>7. CASE ~header
    <2>1. EndsAt(r) = {} /\ handed = <<>> /\ c = Ending(r, 3) \o p
      BY <1>3, <1>7 DEF Body
    <2>2. PICK a \in Nat, l \in Nat : a = Len(r) /\ l = UpToThree(a)
      BY <1>2, LenProperties DEF UpToThree
    <2>3. c \in Seq(Byte) /\ EndOf(c, w, a - l) /\ a - l \in Nat
      <3>1. l = UpToThree(Len(r))
        BY <2>2
      <3>2. c \in Seq(Byte) /\ EndOf(c, w, Len(r) - l) /\ Len(r) - l \in Nat
        BY <1>2, <2>1, <3>1, Kept
      <3>3. QED
        BY <2>2, <3>2
    <2>4. \A j \in EndsAt(w) : j - (a - l) >= 4
      BY <1>2, <2>1, <2>2, NoneBefore
    <2> HIDE DEF c, w
    <2>5. (EndsAt(c) = {} <=> EndsAt(w) = {}) /\ Body(c) = Body(w)
      BY <1>5, <2>3, <2>4, BodyOfEnd
    <2>6. HandOver(Body(c))
      BY <1>4, <1>7 DEF Body
    <2>7. Body(c) \in Seq(Byte)
      BY <2>3, BodyBytes
    <2>8. handed' = Body(w)
      <3>1. handed' = <<>> \o Body(c)
        BY <2>1, <2>6 DEF HandOver
      <3>2. <<>> \o Body(c) = Body(c)
        BY <2>7, ConcatEmptySeq
      <3>3. QED
        BY <2>5, <3>1, <3>2
    <2>9. header' = (EndsAt(w) # {})
      BY <1>4, <1>7, <2>5
    <2>10. Ending(c, 3) = Ending(w, 3) /\ Ending(c, 3) \in Seq(Byte)
      <3>1. Ending(Ending(r, 3) \o p, 3) = Ending(w, 3)
        BY <1>2, KeptAgain DEF w
      <3>2. PICK m \in Nat : m = UpToThree(Len(c))
        BY <2>3, LenProperties DEF UpToThree
      <3>3. Ending(c, 3) \in Seq(Byte)
        BY <2>3, <3>2, EndingIs
      <3>4. QED
        BY <2>1, <3>1, <3>3
    <2>11. carry' = (IF header' THEN <<>> ELSE Ending(w, 3)) /\ carry' \in Seq(Byte)
      BY <1>4, <2>10 DEF Keep
    <2>12. Parsed'
      BY <1>2, <2>8, <2>9, <2>11 DEF Parsed, w
    <2>13. QED
      BY <2>6, <2>7, <2>11, <2>12
  <1>8. QED
    BY <1>3, <1>6, <1>7

-----------------------------------------------------------------------------
(* The files and the descriptors.                                          *)

\* The files of ramfs that begin with a path, and the first of them.
CandidatesIn(o, p) == {i \in DOMAIN o : p \in Path /\ o[i] \in Extending[p]}
FirstIn(o, p) == {o[i] : i \in {j \in CandidatesIn(o, p) : j = Min(CandidatesIn(o, p))}}

\* A file that is listed is found, or another one is.
LEMMA ListedIsFound ==
  ASSUME NEW o \in Seq(Path), NEW p \in Path, NEW i \in DOMAIN o, o[i] = p
  PROVE  FirstIn(o, p) # {}
  <1> DEFINE C == CandidatesIn(o, p)
  <1>1. DOMAIN o = 1 .. Len(o) /\ Len(o) \in Nat
    BY LenProperties
  <1>2. i \in C
    BY VfsAssumption DEF CandidatesIn
  <1>3. C \in SUBSET Nat
    BY <1>1 DEF CandidatesIn
  <1> HIDE DEF C
  <1>4. Min(C) \in C
    BY <1>2, <1>3, Least
  <1> DEFINE m == Min(C)
  <1>5. FirstIn(o, p) = {o[k] : k \in {j \in C : j = m}}
    BY DEF FirstIn, C
  <1> HIDE DEF m
  <1>6. m \in C
    BY <1>4 DEF m
  <1>7. QED
    BY <1>5, <1>6

\* What a path leads to depends on the table and on the files that are there.
LEMMA FoundIs ==
  /\ \A p : Found(p) = IF mounted THEN {p} \cap DOMAIN files ELSE FirstIn(order, p)
  /\ \A p : Found(p)' = IF mounted' THEN {p} \cap DOMAIN files' ELSE FirstIn(order', p)
  <1>1. \A p : Candidates(p) = CandidatesIn(order, p) /\ Candidates(p)' = CandidatesIn(order', p)
    BY DEF Candidates, CandidatesIn
  <1>2. \A p : Found(p) = IF mounted THEN {p} \cap DOMAIN files ELSE FirstIn(order, p)
    BY <1>1 DEF Found, FirstIn
  <1>3. \A p : Found(p)' = IF mounted' THEN {p} \cap DOMAIN files' ELSE FirstIn(order', p)
    BY <1>1 DEF Found, FirstIn
  <1>4. QED
    BY <1>2, <1>3

\* A path leads to a file that is there; on a disk, to the file of that name.
LEMMA FoundFiles ==
  ASSUME Stored, NEW p
  PROVE  /\ Found(p) \subseteq DOMAIN files
         /\ Found(p) # {} => Holder(p) \in Found(p) /\ Holder(p) \in DOMAIN files
         /\ mounted /\ Found(p) # {} => Holder(p) = p /\ p \in DOMAIN files
  <1>1. Found(p) \subseteq DOMAIN files
    <2>1. CASE mounted
      BY <2>1 DEF Found
    <2>2. CASE ~mounted
      <3>1. ToSet(order) = DOMAIN files
        BY <2>2 DEF Stored, Tabled
      <3>2. FirstIn(order, p) \subseteq ToSet(order)
        BY DEF FirstIn, CandidatesIn, ToSet
      <3>3. QED
        BY <2>2, <3>1, <3>2, FoundIs
    <2>3. QED
      BY <2>1, <2>2
  <1>2. Found(p) # {} => Holder(p) \in Found(p)
    BY DEF Holder
  <1>3. mounted => Found(p) \subseteq {p}
    BY DEF Found
  <1>4. QED
    BY <1>1, <1>2, <1>3

\* The table of ramfs with one more file in it.
LEMMA OneMore ==
  ASSUME NEW o \in Seq(Path), NEW p \in Path
  PROVE  /\ Append(o, p) \in Seq(Path) /\ Len(Append(o, p)) = Len(o) + 1 /\ Len(o) \in Nat
         /\ ToSet(Append(o, p)) = ToSet(o) \cup {p}
         /\ Append(o, p)[Len(o) + 1] = p /\ Len(o) + 1 \in DOMAIN Append(o, p)
  <1>1. PICK n \in Nat : n = Len(o)
    BY LenProperties
  <1> DEFINE t == Append(o, p)
  <1>2. /\ t \in Seq(Path) /\ Len(t) = n + 1 /\ t[n + 1] = p
        /\ \A i \in 1 .. n : t[i] = o[i]
    BY <1>1, AppendProperties
  <1>3. DOMAIN o = 1 .. n /\ DOMAIN t = 1 .. n + 1
    BY <1>1, <1>2, LenProperties
  <1> HIDE DEF t
  <1>4. ToSet(t) = ToSet(o) \cup {p}
    <2>1. ToSet(t) = {t[i] : i \in 1 .. n + 1} /\ ToSet(o) = {o[i] : i \in 1 .. n}
      BY <1>3 DEF ToSet
    <2>2. \A i \in 1 .. n + 1 : i \in 1 .. n \/ i = n + 1
      OBVIOUS
    <2>3. 1 .. n \subseteq 1 .. n + 1 /\ n + 1 \in 1 .. n + 1
      OBVIOUS
    <2>4. QED
      BY <1>2, <2>1, <2>2, <2>3
  <1>5. n + 1 \in DOMAIN t
    BY <1>3
  <1>6. QED
    BY <1>1, <1>2, <1>4, <1>5 DEF t

\* The lowest free descriptor.
LEMMA LowestFree ==
  ASSUME {d \in Fd : fds[d] = Free} # {}
  PROVE  LET m == Min({d \in Fd : fds[d] = Free}) IN m \in Fd /\ m \in Int /\ fds[m] = Free
  <1> DEFINE F == {d \in Fd : fds[d] = Free}
  <1>1. Fd \subseteq Nat
    <2>1. MaxFd \in Nat
      BY VfsAssumption
    <2>2. ASSUME NEW d \in 3 .. MaxFd PROVE d \in Nat
      BY <2>1
    <2>3. QED
      BY <2>2 DEF Fd
  <1>2. F \in SUBSET Nat /\ F # {}
    BY <1>1
  <1>3. \A d \in F : d \in Fd /\ fds[d] = Free
    OBVIOUS
  <1> HIDE DEF F
  <1>4. Min(F) \in F
    BY <1>2, Least
  <1> DEFINE m == Min(F)
  <1>5. m \in F
    BY <1>4
  <1> HIDE DEF m
  <1>6. m \in Fd /\ m \in Int /\ fds[m] = Free
    BY <1>2, <1>3, <1>5
  <1>7. QED
    BY <1>6 DEF m, F

\* A file that is created is new.
LEMMA NewFile ==
  ASSUME Stored, NEW p \in Path, Found(p) = {}
  PROVE  p \notin DOMAIN files
  <1>1. CASE mounted
    BY <1>1, FoundIs
  <1>2. CASE ~mounted
    <2>1. SUFFICES ASSUME p \in DOMAIN files PROVE FALSE
      OBVIOUS
    <2>2. order \in Seq(Path) /\ p \in ToSet(order)
      BY <1>2, <2>1 DEF Stored, Tabled
    <2>3. PICK i \in DOMAIN order : order[i] = p
      BY <2>2 DEF ToSet
    <2>4. FirstIn(order, p) # {}
      BY <2>2, <2>3, ListedIsFound
    <2>5. QED
      BY <1>2, <2>4, FoundIs
  <1>3. QED
    BY <1>1, <1>2

\* vfs_open creates the file.
LEMMA Creates ==
  ASSUME Stored, NEW p \in Path, Found(p) = {}, UNCHANGED <<mounted, root>>,
         files' = [q \in DOMAIN files \cup {p} |-> IF q = p THEN Empty ELSE files[q]],
         order' = Listed(p)
  PROVE  /\ Stored' /\ Found(p)' # {}
         /\ \A f \in DOMAIN files : f \in DOMAIN files' /\ files'[f] = files[f]
         /\ p \in DOMAIN files' /\ files'[p].mine
  <1>1. p \notin DOMAIN files
    BY NewFile
  <1>2. /\ DOMAIN files' = DOMAIN files \cup {p} /\ files'[p] = Empty
        /\ \A f \in DOMAIN files : f \in DOMAIN files' /\ files'[f] = files[f]
    BY <1>1
  <1>3. Empty \in FileRec /\ Empty.mine
    <2>1. <<>> \in Seq(Byte)
      BY EmptySeq
    <2> DEFINE e == <<>>
    <2>2. e \in Seq(Byte) /\ Empty = [data |-> e, mine |-> TRUE]
      BY <2>1 DEF Empty
    <2> HIDE DEF e
    <2>3. QED
      BY <2>2 DEF FileRec
  <1>4. DOMAIN files' \subseteq Path /\ files' \in [DOMAIN files' -> FileRec]
    <2>1. (\A q \in DOMAIN files : files[q] \in FileRec) /\ DOMAIN files \subseteq Path
      BY DEF Stored
    <2>2. \A q \in DOMAIN files \cup {p} : (IF q = p THEN Empty ELSE files[q]) \in FileRec
      BY <1>3, <2>1
    <2>3. files' \in [DOMAIN files \cup {p} -> FileRec]
      BY <2>2
    <2>4. QED
      BY <1>2, <2>1, <2>3
  <1>5. CASE mounted
    <2>1. Found(p)' # {}
      BY <1>2, <1>5, FoundIs
    <2>2. Stored'
      BY <1>4, <1>5 DEF Stored
    <2>3. QED
      BY <1>2, <1>3, <2>1, <2>2
  <1>6. CASE ~mounted
    <2>1. /\ order \in Seq(Path) /\ ToSet(order) = DOMAIN files
          /\ IsFiniteSet(DOMAIN files) /\ Len(order) = Cardinality(DOMAIN files)
          /\ order' = Append(order, p)
      BY <1>6 DEF Stored, Tabled, Listed
    <2>2. /\ order' \in Seq(Path) /\ Len(order') = Len(order) + 1 /\ Len(order) \in Nat
          /\ ToSet(order') = ToSet(order) \cup {p}
          /\ order'[Len(order) + 1] = p /\ Len(order) + 1 \in DOMAIN order'
      BY <2>1, OneMore
    <2>3. IsFiniteSet(DOMAIN files') /\ Cardinality(DOMAIN files') = Cardinality(DOMAIN files) + 1
      <3>1. /\ IsFiniteSet(DOMAIN files \cup {p})
            /\ Cardinality(DOMAIN files \cup {p}) = Cardinality(DOMAIN files) + 1
        BY <1>1, <2>1, FS_AddElement
      <3>2. QED
        BY <1>2, <3>1
    <2>4. Tabled(files', order')
      BY <1>2, <2>1, <2>2, <2>3 DEF Tabled
    <2>5. Stored'
      BY <1>4, <1>6, <2>4 DEF Stored, Tabled
    <2>6. Found(p)' # {}
      BY <1>6, <2>2, ListedIsFound, FoundIs
    <2>7. QED
      BY <1>2, <1>3, <2>5, <2>6
  <1>7. QED
    BY <1>5, <1>6 DEF Stored

\* vfs_open creates a file or none, and the path of an open descriptor leads to a file.
LEMMA Opens ==
  ASSUME Stored, NEW p \in Path \cup Device, NEW w \in BOOLEAN, NEW create \in BOOLEAN,
         VfsOpen(p, w, create)
  PROVE  /\ Stored' /\ ret' \in Int /\ UNCHANGED <<mounted, root>>
         /\ \A f \in DOMAIN files : f \in DOMAIN files' /\ files'[f] = files[f]
         /\ \/ ret' = -1 /\ fds' = fds
            \/ /\ ret' \in Fd /\ fds[ret'] = Free
               /\ fds' = [fds EXCEPT ![ret'] = [path |-> p, write |-> w, offset |-> 0]]
               /\ p \in Path => Found(p)' # {}
               /\ ~root /\ p \in Path /\ w => p \in DOMAIN files' /\ files'[p].mine
  <1> DEFINE found == Found(p) # {} \/ p \in Device
             makes == ~found /\ create
             g == [q \in DOMAIN files \cup {p} |-> IF q = p THEN Empty ELSE files[q]]
             free == {d \in Fd : fds[d] = Free}
             opened == [path |-> p, write |-> w, offset |-> 0]
  <1>1. /\ files' = IF makes THEN g ELSE files
        /\ order' = IF makes THEN Listed(p) ELSE order
        /\ mounted' = mounted /\ root' = root
        /\ \/ ret' = -1 /\ fds' = fds
           \/ /\ found \/ create
              /\ Permitted(p, w, files') /\ free # {}
              /\ ret' = Min(free) /\ fds' = [fds EXCEPT ![ret'] = opened]
    BY DEF VfsOpen
  <1>2. free # {} => Min(free) \in Fd /\ Min(free) \in Int /\ fds[Min(free)] = Free
    BY LowestFree
  <1> HIDE DEF found, free, opened
  <1>3. \/ ret' = -1 /\ fds' = fds
        \/ /\ found \/ create
           /\ Permitted(p, w, files')
           /\ ret' \in Fd /\ ret' \in Int /\ fds[ret'] = Free
           /\ fds' = [fds EXCEPT ![ret'] = opened]
    BY <1>1, <1>2
  <1>4. ret' \in Int /\ UNCHANGED <<mounted, root>>
    BY <1>1, <1>3
  <1>5. CASE makes
    <2>1. p \in Path /\ Found(p) = {} /\ files' = g /\ order' = Listed(p)
      BY <1>1, <1>5 DEF found
    <2>2. /\ Stored' /\ Found(p)' # {}
          /\ \A f \in DOMAIN files : f \in DOMAIN files' /\ files'[f] = files[f]
          /\ p \in DOMAIN files' /\ files'[p].mine
      BY <1>1, <2>1, Creates
    <2>3. QED
      BY <1>3, <1>4, <2>2 DEF opened
  <1>6. CASE ~makes
    <2>1. files' = files /\ order' = order
      BY <1>1, <1>6
    <2>2. Stored'
      BY <1>1, <2>1 DEF Stored, Tabled, ToSet
    <2>3. p \in Path /\ (found \/ create) => Found(p)' # {}
      <3>1. Found(p)' = Found(p)
        BY <1>1, <2>1, FoundIs
      <3>2. p \in Path => p \notin Device
        BY VfsAssumption
      <3>3. QED
        BY <1>6, <3>1, <3>2 DEF found
    <2>4. QED
      BY <1>3, <1>4, <2>1, <2>2, <2>3 DEF Permitted, opened
  <1>7. QED
    BY <1>5, <1>6

-----------------------------------------------------------------------------
(* The steps.                                                              *)

\* Nothing is received before anything is sent.
LEMMA Nothing ==
  ASSUME NEW s
  PROVE  /\ SubSeq(s, 1, 0) = <<>> /\ EndsAt(<<>>) = {} /\ Ending(<<>>, 3) = <<>>
         /\ Body(<<>>) = <<>>
  <1>1. SubSeq(s, 1, 0) = <<>>
    <2>1. 1 \in Int /\ 0 \in Int /\ 0 < 1
      OBVIOUS
    <2>2. QED
      BY <2>1, SubSeqEmpty
  <1> DEFINE e == <<>>
  <1>2. e \in Seq(Byte) /\ Len(e) = 0
    BY EmptySeq
  <1> HIDE DEF e
  <1>3. EndsAt(e) = {i \in 4 .. Len(e) : At(e, i)}
    BY <1>2, EndsAtIs
  <1>4. EndsAt(e) = {}
    BY <1>2, <1>3
  <1>5. Ending(e, 3) = e
    BY <1>2 DEF Ending
  <1>6. Body(e) = e
    BY <1>4 DEF Body, e
  <1>7. QED
    BY <1>1, <1>4, <1>5, <1>6 DEF e

\* A command that is over leaves nothing.
LEMMA FreshParsed ==
  ASSUME Fresh
  PROVE  Parsed' /\ total' \in Int /\ written' = 0 /\ taken' = 0 /\ response' = <<>> /\ closed' = FALSE
  <1>1. /\ response' = <<>> /\ taken' = 0 /\ closed' = FALSE /\ carry' = <<>> /\ header' = FALSE
        /\ total' = 0 /\ handed' = <<>> /\ written' = 0
    BY DEF Fresh
  <1>2. Received' = <<>>
    BY <1>1, Nothing DEF Received
  <1>3. Parsed'
    BY <1>1, <1>2, Nothing DEF Parsed
  <1>4. QED
    BY <1>1, <1>3

\* What was parsed stays when nothing new is received.
LEMMA SameParsed ==
  ASSUME Parsed, Received' = Received, UNCHANGED <<carry, header, handed>>
  PROVE  Parsed'
  <1>1. EndsAt(Received') = EndsAt(Received) /\ Body(Received') = Body(Received)
    OBVIOUS
  <1>2. QED
    BY <1>1 DEF Parsed

\* The files, where only the command goes on.
LEMMA FilesAlone ==
  ASSUME Stored, Descriptors, UNCHANGED <<mounted, root, files, order, fds, cmd, fd>>,
         pc' \in Waiting <=> pc \in Waiting, pc' \in Writing <=> pc \in Writing
  PROVE  /\ Stored' /\ Descriptors' /\ \A p : Found(p)' = Found(p) /\ Holder(p)' = Holder(p)
  <1>1. UNCHANGED <<mounted, root, files, order, fds>>
    OBVIOUS
  <1>2. Stored'
    BY <1>1 DEF Stored, Tabled, ToSet
  <1>3. \A p : Found(p)' = Found(p) /\ Holder(p)' = Holder(p)
    <2>1. \A p : Found(p)' = Found(p)
      BY <1>1, FoundIs
    <2>2. QED
      BY <2>1 DEF Holder
  <1>4. Used' = Used
    BY <1>1 DEF Used
  <1>5. Descriptors'
    BY <1>1, <1>3, <1>4 DEF Descriptors
  <1>6. QED
    BY <1>2, <1>3, <1>5

\* The shell starts a command.
LEMMA StartKeeps ==
  ASSUME DownloadInv, Commands
  PROVE  DownloadInv'
  <1>1. Stored /\ Descriptors /\ Running /\ Parsed
    BY DEF DownloadInv
  <1>2. /\ pc = "idle" /\ pc' = "open" /\ shown' = <<>> /\ UNCHANGED <<vfsVars, fd, http>>
        /\ cmd' \in [name : {"none", "get", "https", "fetch", "cat"}, path : Path \cup Device]
    BY DownloadAssumption DEF Commands, Start
  <1>3. Stored'
    BY <1>1, <1>2 DEF Stored, Tabled, ToSet, vfsVars
  <1>4. Descriptors'
    BY <1>1, <1>2 DEF Descriptors, Used, Waiting, vfsVars
  <1>5. shown' \in Seq(Byte)
    BY <1>2
  <1>6. Running'
    BY <1>1, <1>2, <1>5 DEF Running, vfsVars, http
  <1>7. Parsed'
    BY <1>1, <1>2, SameParsed DEF Received, http
  <1>8. Saved'
    BY <1>2 DEF Saved, Writing
  <1>9. QED
    BY <1>3, <1>4, <1>6, <1>7, <1>8 DEF DownloadInv

\* The opening of the file, to be written or to be read.
LEMMA OpenKeeps ==
  ASSUME DownloadInv, OpenFile
  PROVE  DownloadInv'
  <1> DEFINE reads == cmd.name = "cat" \/ pc = "reopen"
  <1>1. Stored /\ Descriptors /\ Running /\ Parsed
    BY DEF DownloadInv
  <1>2. /\ pc \in {"open", "reopen"} /\ UNCHANGED <<cmd, shown>>
        /\ IF pc' = "idle" THEN Fresh ELSE UNCHANGED http
        /\ \/ /\ VfsOpen(cmd.path, ~reads, ~reads)
              /\ fd' = ret'
              /\ pc' = IF ret' = -1 THEN "idle"
                       ELSE IF reads THEN "read"
                       ELSE IF cmd.name = "https" THEN "tls" ELSE "connect"
           \/ VfsOpenFails(cmd.path, ~reads) /\ fd' = -1 /\ pc' = "idle"
    BY DEF OpenFile
  <1>3. reads \in BOOLEAN /\ (pc = "reopen" => reads) /\ cmd.path \in Path \cup Device
    BY <1>1 DEF Running
  <1> HIDE DEF reads
  <1>4. pc \notin Waiting /\ \A d \in Fd : fds[d] = Free
    <2>1. pc \notin Waiting
      BY <1>2 DEF Waiting
    <2>2. QED
      BY <1>1, <2>1 DEF Descriptors, Used
  <1>5. Parsed' /\ total' \in Int /\ written' \in Nat /\ closed' \in BOOLEAN
        /\ response' \in Seq(Byte) /\ taken' \in 0 .. Len(response')
        /\ (pc' \in {"idle", "open", "connect", "tls"} => taken' = 0 /\ written' = 0)
    <2>1. CASE pc' = "idle"
      <3>1. response' \in Seq(Byte) /\ Len(response') = 0 /\ taken' = 0
        <4>1. response' = <<>> /\ taken' = 0
          BY <1>2, <2>1, FreshParsed
        <4>2. QED
          BY <4>1, EmptySeq
      <3>2. Parsed' /\ total' \in Int /\ written' = 0 /\ closed' \in BOOLEAN
        BY <1>2, <2>1, FreshParsed
      <3>3. QED
        BY <3>1, <3>2
    <2>2. CASE pc' # "idle"
      <3>1. UNCHANGED http
        BY <1>2, <2>2
      <3>2. Parsed'
        BY <1>1, <3>1, SameParsed DEF Received, http
      <3>3. pc' \in {"connect", "tls"} => pc = "open"
        BY <1>2, <1>3
      <3>4. pc' \in {"read", "tls", "connect"}
        BY <1>2, <2>2
      <3>5. QED
        BY <1>1, <3>1, <3>2, <3>3, <3>4 DEF Running, http
    <2>3. QED
      BY <2>1, <2>2
  <1>6. CASE VfsOpenFails(cmd.path, ~reads) /\ fd' = -1 /\ pc' = "idle"
    <2>1. UNCHANGED <<mounted, root, files, order, fds>> /\ ret' \in Int /\ pc' = "idle"
      BY <1>6 DEF VfsOpenFails
    <2>2. Stored'
      BY <1>1, <2>1 DEF Stored, Tabled, ToSet
    <2>3. Descriptors'
      BY <1>1, <1>4, <2>1 DEF Descriptors, Used, Waiting
    <2>4. Running'
      BY <1>1, <1>2, <1>5, <2>1 DEF Running
    <2>5. Saved'
      BY <2>1 DEF Saved, Writing
    <2>6. QED
      BY <1>5, <2>2, <2>3, <2>4, <2>5 DEF DownloadInv
  <1>7. CASE /\ VfsOpen(cmd.path, ~reads, ~reads)
             /\ fd' = ret'
             /\ pc' = IF ret' = -1 THEN "idle"
                      ELSE IF reads THEN "read"
                      ELSE IF cmd.name = "https" THEN "tls" ELSE "connect"
    <2>p. PICK p \in Path \cup Device : p = cmd.path
      BY <1>3
    <2>w. PICK w \in BOOLEAN : w = ~reads
      BY <1>3
    <2> DEFINE opened == [path |-> p, write |-> w, offset |-> 0]
    <2>1. /\ Stored' /\ ret' \in Int /\ UNCHANGED <<mounted, root>>
          /\ \/ ret' = -1 /\ fds' = fds
             \/ /\ ret' \in Fd /\ fds' = [fds EXCEPT ![ret'] = opened]
                /\ p \in Path => Found(p)' # {}
                /\ ~root /\ p \in Path /\ w => files'[p].mine
      <3>1. VfsOpen(p, w, w)
        BY <1>7, <2>p, <2>w
      <3>2. QED
        BY <1>1, <3>1, Opens
    <2>2. Running'
      <3>1. pc' \in {"idle", "open", "reopen"} \cup Waiting
        BY <1>7 DEF Waiting
      <3>2. QED
        BY <1>1, <1>2, <1>5, <2>1, <3>1 DEF Running
    <2>3. CASE ret' = -1 /\ fds' = fds
      <3>1. pc' = "idle"
        BY <1>7, <2>3
      <3>2. Descriptors'
        BY <1>1, <1>4, <2>3, <3>1 DEF Descriptors, Used, Waiting
      <3>3. Saved'
        BY <3>1 DEF Saved, Writing
      <3>4. QED
        BY <1>5, <2>1, <2>2, <3>2, <3>3 DEF DownloadInv
    <2>4. CASE /\ ret' \in Fd /\ fds' = [fds EXCEPT ![ret'] = opened]
               /\ p \in Path => Found(p)' # {}
               /\ ~root /\ p \in Path /\ w => files'[p].mine
      <3>1. ret' # -1 /\ fd' \in Fd /\ fd' = ret'
        BY <1>7, <2>4 DEF Fd
      <3>2. pc' \in Waiting /\ (pc' \in Writing <=> w)
        BY <1>3, <1>7, <2>w, <3>1 DEF Waiting, Writing
      <3>3. opened \in FdRec /\ opened # Free /\ opened.path = p /\ opened.write = w /\ opened.offset = 0
        <4>1. p # ""
          BY VfsAssumption
        <4>2. opened \in FdRec /\ opened.path = p /\ opened.write = w /\ opened.offset = 0
          BY <4>1 DEF FdRec
        <4>3. Free.path = ""
          BY DEF Free
        <4>4. QED
          BY <4>1, <4>2, <4>3
      <3> HIDE DEF opened
      <3>4. fds' \in [Fd -> FdRec] /\ fds'[fd'] = opened /\ \A d \in Fd : d # fd' => fds'[d] = Free
        BY <1>1, <1>4, <2>4, <3>1, <3>3 DEF Descriptors
      <3>5. Used' = {fd'}
        BY <3>1, <3>3, <3>4 DEF Used
      <3>6. Descriptors'
        BY <1>2, <2>p, <2>1, <2>4, <3>1, <3>2, <3>3, <3>4, <3>5 DEF Descriptors
      <3>7. Saved'
        <4>1. pc' \in Writing => written' = 0
          BY <1>5, <1>7 DEF Writing
        <4>2. QED
          BY <3>3, <3>4, <4>1 DEF Saved
      <3>8. QED
        BY <1>5, <2>1, <2>2, <3>6, <3>7 DEF DownloadInv
    <2>5. QED
      BY <2>1, <2>3, <2>4
  <1>8. QED
    BY <1>2, <1>6, <1>7

\* The connection is made, or not.
LEMMA ConnectKeeps ==
  ASSUME DownloadInv, Connect
  PROVE  DownloadInv'
  <1>1. Stored /\ Descriptors /\ Running /\ Parsed /\ Saved
    BY DEF DownloadInv
  <1>2. /\ pc = "connect" /\ pc' \in {"loop", "close"}
        /\ response' \in Response \/ UNCHANGED response
        /\ total' = -1 \/ UNCHANGED total
        /\ UNCHANGED <<vfsVars, cmd, fd, taken, closed, carry, header, handed, written, shown>>
    BY DEF Connect
  <1>3. taken = 0 /\ written = 0
    BY <1>1, <1>2 DEF Running
  <1>4. Stored' /\ Descriptors'
    BY <1>1, <1>2, FilesAlone DEF Waiting, Writing, vfsVars
  <1>5. response' \in Seq(Byte)
    BY <1>1, <1>2, ResponseBytes DEF Running
  <1>6. Len(response') \in Nat
    BY <1>5, LenProperties
  <1>7. pc' \in Waiting
    BY <1>2 DEF Waiting
  <1>8. Running'
    BY <1>1, <1>2, <1>3, <1>5, <1>6, <1>7 DEF Running, vfsVars
  <1>9. Received' = Received
    BY <1>2, <1>3, Nothing DEF Received
  <1>10. Parsed'
    BY <1>1, <1>2, <1>9, SameParsed
  <1>11. Saved'
    BY <1>1, <1>2, <1>3 DEF Saved, Writing, vfsVars
  <1>12. QED
    BY <1>4, <1>8, <1>10, <1>11 DEF DownloadInv

\* The handshake of TLS gives up.
LEMMA TlsKeeps ==
  ASSUME DownloadInv, TlsFails
  PROVE  DownloadInv'
  <1>1. Stored /\ Descriptors /\ Running /\ Parsed /\ Saved
    BY DEF DownloadInv
  <1>2. /\ pc = "tls" /\ pc' = "close" /\ total' = -1
        /\ UNCHANGED <<vfsVars, cmd, fd, response, taken, closed, carry, header, handed, written, shown>>
    BY DEF TlsFails
  <1>3. taken = 0 /\ written = 0
    BY <1>1, <1>2 DEF Running
  <1>4. Stored' /\ Descriptors'
    BY <1>1, <1>2, FilesAlone DEF Waiting, Writing, vfsVars
  <1>5. pc' \in Waiting
    BY <1>2 DEF Waiting
  <1>6. Running'
    BY <1>1, <1>2, <1>5 DEF Running, vfsVars
  <1>7. Parsed'
    BY <1>1, <1>2, SameParsed DEF Received
  <1>8. Saved'
    BY <1>1, <1>2, <1>3 DEF Saved, Writing, vfsVars
  <1>9. QED
    BY <1>4, <1>6, <1>7, <1>8 DEF DownloadInv

\* What is at the start of a part is what is at the start of the whole.
LEMMA PartOfPart ==
  ASSUME NEW S, NEW s \in Seq(S), NEW m \in Nat, m <= Len(s), NEW k \in 0 .. m
  PROVE  /\ SubSeq(s, 1, m) \in Seq(S) /\ Len(SubSeq(s, 1, m)) = m
         /\ SubSeq(SubSeq(s, 1, m), 1, k) = SubSeq(s, 1, k)
  <1> DEFINE t == SubSeq(s, 1, m)
             a == SubSeq(t, 1, k)
             b == SubSeq(s, 1, k)
  <1>1. t \in Seq(S) /\ Len(t) = m /\ \A i \in 1 .. m : t[i] = s[i]
    BY LenProperties, SubSeqProperties
  <1>2. b \in Seq(S) /\ Len(b) = k /\ \A i \in 1 .. k : b[i] = s[i]
    BY LenProperties, SubSeqProperties
  <1> HIDE DEF t
  <1>3. a \in Seq(S) /\ Len(a) = k /\ \A i \in 1 .. k : a[i] = t[i]
    BY <1>1, LenProperties, SubSeqProperties
  <1> HIDE DEF a, b
  <1>4. a = b
    BY <1>1, <1>2, <1>3, SeqEqual
  <1>5. QED
    BY <1>1, <1>4 DEF t, a, b

\* The server closes: nothing comes after what it sent.
LEMMA PeerClosesKeeps ==
  ASSUME DownloadInv, PeerCloses
  PROVE  DownloadInv'
  <1>1. Stored /\ Descriptors /\ Running /\ Parsed /\ Saved
    BY DEF DownloadInv
  <1>2. /\ pc = "loop" /\ closed' = TRUE
        /\ UNCHANGED <<vfsVars, cmd, pc, fd, taken, carry, header, total, handed, written, shown>>
    BY DEF PeerCloses
  <1>3. PICK n \in 0 .. MaxPiece : taken + n <= Len(response) /\ response' = SubSeq(response, 1, taken + n)
    BY DEF PeerCloses
  <1>4. response \in Seq(Byte) /\ Len(response) \in Nat /\ taken \in 0 .. Len(response)
    BY <1>1, LenProperties DEF Running
  <1>5. PICK m \in Nat : m = taken + n
    BY <1>3, <1>4, DownloadAssumption
  <1>6. taken \in 0 .. m /\ m <= Len(response)
    BY <1>3, <1>4, <1>5, DownloadAssumption
  <1>7. /\ response' \in Seq(Byte) /\ Len(response') = m
        /\ SubSeq(response', 1, taken) = SubSeq(response, 1, taken)
    BY <1>3, <1>4, <1>5, <1>6, PartOfPart
  <1>8. Stored' /\ Descriptors'
    BY <1>1, <1>2, FilesAlone DEF vfsVars
  <1>9. Running'
    BY <1>1, <1>2, <1>6, <1>7 DEF Running, vfsVars
  <1>10. Parsed'
    BY <1>1, <1>2, <1>7, SameParsed DEF Received
  <1>11. Saved'
    <2>1. \A p : Holder(p)' = Holder(p)
      BY <1>1, <1>2, FilesAlone DEF vfsVars
    <2>2. QED
      BY <1>1, <1>2, <2>1 DEF Saved, Writing, vfsVars
  <1>12. QED
    BY <1>8, <1>9, <1>10, <1>11 DEF DownloadInv

\* The descriptor is closed, whatever the command did.
LEMMA CloseKeeps ==
  ASSUME DownloadInv, Close
  PROVE  DownloadInv'
  <1>1. Stored /\ Descriptors /\ Running /\ Parsed
    BY DEF DownloadInv
  <1>2. /\ pc \in {"close", "closeread"} /\ VfsClose(fd) /\ UNCHANGED <<cmd, shown>>
        /\ \/ pc' = "reopen" /\ UNCHANGED http
           \/ pc' = "idle" /\ Fresh
    BY DEF Close
  <1>3. pc \in Waiting /\ pc' \notin Waiting /\ pc' \in {"idle", "open", "reopen"} \cup Waiting
    BY <1>2 DEF Waiting
  <1>4. fd \in Fd /\ Used = {fd} /\ fds \in [Fd -> FdRec]
    BY <1>1, <1>3 DEF Descriptors
  <1>5. /\ ret' = 0 /\ fds' = [fds EXCEPT ![fd] = Free]
        /\ UNCHANGED <<mounted, root, files, order>>
    BY <1>2, <1>4 DEF VfsClose
  <1>6. Stored'
    BY <1>1, <1>5 DEF Stored, Tabled, ToSet
  <1>7. Descriptors'
    <2>1. Free \in FdRec
      BY DEF Free, FdRec
    <2>2. fds' \in [Fd -> FdRec]
      BY <1>4, <1>5, <2>1
    <2>3. \A d \in Fd : fds'[d] = Free
      BY <1>4, <1>5 DEF Used
    <2>4. Used' = {}
      BY <2>3 DEF Used
    <2>5. QED
      BY <1>3, <2>2, <2>4 DEF Descriptors
  <1>8. /\ Parsed' /\ total' \in Int /\ written' \in Nat /\ closed' \in BOOLEAN
        /\ response' \in Seq(Byte) /\ taken' \in 0 .. Len(response')
        /\ (pc' \in {"idle", "open", "connect", "tls"} => taken' = 0 /\ written' = 0)
    <2>1. CASE pc' = "idle" /\ Fresh
      <3>1. response' \in Seq(Byte) /\ Len(response') = 0 /\ taken' = 0
        <4>1. response' = <<>> /\ taken' = 0
          BY <2>1, FreshParsed
        <4>2. QED
          BY <4>1, EmptySeq
      <3>2. Parsed' /\ total' \in Int /\ written' = 0 /\ closed' \in BOOLEAN
        BY <2>1, FreshParsed
      <3>3. QED
        BY <3>1, <3>2
    <2>2. CASE pc' = "reopen" /\ UNCHANGED http
      <3>1. Parsed'
        BY <1>1, <2>2, SameParsed DEF Received, http
      <3>2. QED
        BY <1>1, <2>2, <3>1 DEF Running, http
    <2>3. QED
      BY <1>2, <2>1, <2>2
  <1>9. Running'
    BY <1>1, <1>2, <1>3, <1>5, <1>8 DEF Running
  <1>10. Saved'
    BY <1>2 DEF Saved, Writing
  <1>11. QED
    BY <1>6, <1>7, <1>8, <1>9, <1>10 DEF DownloadInv

\* A file is read, which prints nothing: 0 is returned.
LEMMA ReadKeeps ==
  ASSUME DownloadInv, Read
  PROVE  DownloadInv'
  <1>1. Stored /\ Descriptors /\ Running /\ Parsed
    BY DEF DownloadInv
  <1>2. /\ pc = "read" /\ pc' = "closeread" /\ UNCHANGED <<cmd, fd, http>>
        /\ ret' \in {-1, 0} /\ UNCHANGED <<mounted, root, files, order, fds>>
    BY DEF Read, VfsRead
  <1>3. shown' = <<>>
    <2>1. ~(ret' > 0)
      BY <1>2
    <2>2. shown' = IF ret' > 0 THEN SubSeq(Bytes(fd), 1, ret') ELSE <<>>
      BY Zenon DEF Read
    <2>3. QED
      BY <2>1, <2>2
  <1>4. Stored'
    BY <1>1, <1>2 DEF Stored, Tabled, ToSet
  <1>5. Used' = Used /\ \A p : Found(p)' = Found(p)
    BY <1>2, FoundIs DEF Used
  <1>6. pc \in Waiting /\ pc' \in Waiting /\ pc \notin Writing /\ pc' \notin Writing
    BY <1>2 DEF Waiting, Writing
  <1>7. Descriptors'
    BY <1>1, <1>2, <1>5, <1>6 DEF Descriptors
  <1>8. shown' \in Seq(Byte)
    BY <1>3
  <1>9. Running'
    BY <1>1, <1>2, <1>6, <1>8 DEF Running, http
  <1>10. Parsed'
    BY <1>1, <1>2, SameParsed DEF Received, http
  <1>11. Saved'
    BY <1>6 DEF Saved
  <1>12. QED
    BY <1>4, <1>7, <1>9, <1>10, <1>11 DEF DownloadInv

\* A part of a sequence.
LEMMA SubSeqIs ==
  ASSUME NEW S, NEW s \in Seq(S), NEW i \in Nat, NEW w \in Nat, i + w <= Len(s)
  PROVE  /\ SubSeq(s, i + 1, i + w) \in Seq(S) /\ Len(SubSeq(s, i + 1, i + w)) = w
         /\ \A j \in 1 .. w : SubSeq(s, i + 1, i + w)[j] = s[i + j]
  <1> DEFINE t == SubSeq(s, i + 1, i + w)
  <1>1. i + 1 \in 1 .. Len(s) + 1 /\ i + w \in i .. Len(s) /\ Len(s) \in Nat
    BY LenProperties
  <1>2. t \in Seq(S) /\ Len(t) = (IF i + 1 <= i + w THEN (i + w) - (i + 1) + 1 ELSE 0)
        /\ \A j \in 1 .. (i + w) - (i + 1) + 1 : t[j] = s[(i + 1) + j - 1]
    BY <1>1, SubSeqProperties
  <1> HIDE DEF t
  <1>3. Len(t) = w
    BY <1>2
  <1>4. \A j \in 1 .. w : t[j] = s[i + j]
    <2> TAKE j \in 1 .. w
    <2>1. j \in 1 .. (i + w) - (i + 1) + 1 /\ (i + 1) + j - 1 = i + j
      OBVIOUS
    <2>2. QED
      BY <1>2, <2>1
  <1>5. QED
    BY <1>2, <1>3, <1>4 DEF t

\* A part of the body is still a part when more of the body comes.
LEMMA StillAPart ==
  ASSUME NEW S, NEW h \in Seq(S), NEW d \in Seq(S), NEW w \in Nat, NEW i \in 0 .. Len(h) - w
  PROVE  /\ i \in 0 .. Len(h \o d) - w
         /\ SubSeq(h \o d, i + 1, i + w) = SubSeq(h, i + 1, i + w)
  <1>1. h \o d \in Seq(S) /\ Len(h \o d) = Len(h) + Len(d) /\ Len(h) \in Nat /\ Len(d) \in Nat
    BY ConcatProperties, LenProperties
  <1>2. i \in 0 .. Len(h \o d) - w
    BY <1>1
  <1>3. \A j \in 1 .. Len(h) : (h \o d)[j] = h[j]
    BY MoreCame
  <1>4. PICK x \in Seq(S) : x = h \o d
    BY <1>1
  <1>5. Len(x) \in Nat /\ i + 1 \in Nat /\ i + w \in Nat /\ i + w <= Len(h) /\ i + w <= Len(x)
    BY <1>1, <1>4
  <1> DEFINE a == SubSeq(x, i + 1, i + w)
             b == SubSeq(h, i + 1, i + w)
  <1>6. a \in Seq(S) /\ Len(a) = w /\ \A j \in 1 .. w : a[j] = x[i + j]
    <2>1. i \in Nat /\ i + w <= Len(x)
      BY <1>1, <1>5
    <2>2. QED
      BY <2>1, SubSeqIs
  <1>7. b \in Seq(S) /\ Len(b) = w /\ \A j \in 1 .. w : b[j] = h[i + j]
    <2>1. i \in Nat /\ i + w <= Len(h)
      BY <1>1, <1>5
    <2>2. QED
      BY <2>1, SubSeqIs
  <1>8. \A j \in 1 .. w : x[i + j] = h[i + j]
    BY <1>1, <1>3, <1>4, <1>5
  <1> HIDE DEF a, b
  <1>9. a = b
    BY <1>6, <1>7, <1>8, SeqEqual
  <1>10. QED
    BY <1>2, <1>4, <1>9 DEF a, b

\* What comes last is a part.
LEMMA LastIsAPart ==
  ASSUME NEW S, NEW h \in Seq(S), NEW d \in Seq(S)
  PROVE  /\ Len(h) \in 0 .. Len(h \o d) - Len(d)
         /\ SubSeq(h \o d, Len(h) + 1, Len(h) + Len(d)) = d
  <1>1. h \o d \in Seq(S) /\ Len(h \o d) = Len(h) + Len(d) /\ Len(h) \in Nat /\ Len(d) \in Nat
    BY ConcatProperties, LenProperties
  <1>2. PICK x \in Seq(S), i \in Nat, w \in Nat : x = h \o d /\ i = Len(h) /\ w = Len(d)
    BY <1>1
  <1>3. \A j \in 1 .. w : x[i + j] = d[j]
    BY <1>2, MoreCame
  <1> DEFINE t == SubSeq(x, i + 1, i + w)
  <1>4. t \in Seq(S) /\ Len(t) = w /\ \A j \in 1 .. w : t[j] = x[i + j]
    <2>1. i + w <= Len(x)
      BY <1>1, <1>2
    <2>2. QED
      BY <2>1, SubSeqIs
  <1> HIDE DEF t
  <1>5. t = d
    BY <1>2, <1>3, <1>4, SeqEqual
  <1>6. QED
    BY <1>1, <1>2, <1>5 DEF t

\* A piece arrives, is parsed, and what it has of the body is written or refused.
LEMMA PieceKeeps ==
  ASSUME DownloadInv, NEW n \in 0 .. MaxPiece, Piece(n)
  PROVE  DownloadInv'
  <1>1. Stored /\ Descriptors /\ Running /\ Parsed /\ Saved
    BY DEF DownloadInv
  <1>2. /\ pc = "loop" /\ pc' \in {"loop", "close"}
        /\ taken + n <= Len(response) /\ taken' = taken + n
        /\ UNCHANGED <<cmd, fd, response, closed, shown>>
    BY Zenon DEF Piece, AfterLoop
  <1>3. Parsed' /\ carry' \in Seq(Byte)
    BY <1>1, PieceParsed
  <1>4. PICK d \in Seq(Byte) : HandOver(d)
    BY <1>1, PieceParsed
  <1>5. response \in Seq(Byte) /\ Len(response) \in Nat /\ taken \in 0 .. Len(response)
        /\ written \in Nat /\ total \in Int
    BY <1>1, LenProperties DEF Running
  <1>6. taken' \in 0 .. Len(response')
    BY <1>2, <1>5, DownloadAssumption
  <1>7. Len(d) \in Nat /\ (d # <<>> => Len(d) > 0)
    BY LenProperties, EmptySeq
  <1>8. handed \in Seq(Byte) /\ handed' = handed \o d
    <2>1. Received \in Seq(Byte)
      BY <1>5, PartOfPart DEF Received
    <2>2. handed \in Seq(Byte)
      BY <1>1, <2>1, BodyBytes DEF Parsed
    <2>3. QED
      BY <1>4, <2>2 DEF HandOver
  <1>9. total' \in Int
    <2>1. total' = total + Len(d)
      BY <1>4 DEF HandOver
    <2>2. QED
      BY <1>5, <1>7, <2>1
  <1>10. pc \in Waiting /\ pc' \in Waiting /\ pc \in Writing /\ pc' \in Writing
    BY <1>2 DEF Waiting, Writing
  <1>11. fd \in Fd /\ Used = {fd} /\ fds \in [Fd -> FdRec] /\ fds[fd].path = cmd.path
    BY <1>1, <1>10 DEF Descriptors
  <1>12. ASSUME ret' \in Int, written' \in Nat
         PROVE  Running'
    BY <1>1, <1>2, <1>5, <1>6, <1>9, <1>10, <1>12 DEF Running
  <1>13. CASE UNCHANGED <<mounted, root, files, order, fds, written>> /\ ret' \in Int
    <2>1. Stored' /\ Descriptors' /\ \A p : Holder(p)' = Holder(p)
      BY <1>1, <1>2, <1>10, <1>13, FilesAlone
    <2>2. Running'
      BY <1>5, <1>12, <1>13
    <2>3. Saved'
      <3>1. SUFFICES ASSUME cmd.path \in Path
                     PROVE  /\ fds[fd].offset = written
                            /\ written > 0 => \E i \in 0 .. Len(handed') - written :
                                 files[Holder(cmd.path)].data = SubSeq(handed', i + 1, i + written)
        BY <1>2, <1>13, <2>1 DEF Saved
      <3>2. /\ fds[fd].offset = written
            /\ written > 0 => \E i \in 0 .. Len(handed) - written :
                 files[Holder(cmd.path)].data = SubSeq(handed, i + 1, i + written)
        BY <1>1, <1>10, <3>1 DEF Saved
      <3>3. SUFFICES ASSUME written > 0
                     PROVE  \E i \in 0 .. Len(handed') - written :
                              files[Holder(cmd.path)].data = SubSeq(handed', i + 1, i + written)
        BY <3>2
      <3>4. PICK i \in 0 .. Len(handed) - written :
              files[Holder(cmd.path)].data = SubSeq(handed, i + 1, i + written)
        BY <3>2, <3>3
      <3>5. /\ i \in 0 .. Len(handed') - written
            /\ SubSeq(handed', i + 1, i + written) = SubSeq(handed, i + 1, i + written)
        BY <1>5, <1>8, StillAPart
      <3>6. QED
        BY <3>4, <3>5
    <2>4. QED
      BY <1>3, <2>1, <2>2, <2>3 DEF DownloadInv
  <1>14. CASE /\ d # <<>> /\ Writable(fd, d) /\ ret' = Len(d) /\ written' = written + Len(d)
              /\ fds[fd].write
              /\ fds' = [fds EXCEPT ![fd].offset = @ + Len(d)]
              /\ files' = IF cmd.path \in Device THEN files
                          ELSE [files EXCEPT ![Holder(cmd.path)].data = d]
              /\ UNCHANGED <<mounted, root, order>>
    <2>1. Running'
      BY <1>5, <1>7, <1>12, <1>14
    <2>2. fds[fd] \in FdRec /\ cmd.path \in Path \cup Device
      BY <1>1, <1>11 DEF Running
    <2>a. PICK o \in Nat, l \in Nat : o = fds[fd].offset /\ l = Len(d)
      BY <1>7, <2>2 DEF FdRec
    <2>b. o + l \in Nat
      OBVIOUS
    <2> DEFINE r == [fds[fd] EXCEPT !.offset = o + l]
    <2>3. /\ r \in FdRec /\ r.path = cmd.path /\ r.write /\ r.offset = fds[fd].offset + Len(d)
          /\ r # Free
      <3>1. r \in FdRec /\ r.path = cmd.path /\ r.write /\ r.offset = fds[fd].offset + Len(d)
        <4>1. r \in FdRec /\ r.path = fds[fd].path /\ r.write = fds[fd].write /\ r.offset = o + l
          BY <2>2, <2>b DEF FdRec
        <4>2. QED
          BY <1>11, <1>14, <2>a, <4>1
      <3>2. r.path # "" /\ Free.path = ""
        BY <2>2, <3>1, VfsAssumption DEF Free
      <3>3. QED
        BY <3>1, <3>2
    <2>4. fds' = [fds EXCEPT ![fd] = r]
      BY <1>11, <1>14, <2>a
    <2> HIDE DEF r
    <2>5. fds' \in [Fd -> FdRec] /\ fds'[fd'] = r /\ Used' = {fd'}
      <3>1. fds' \in [Fd -> FdRec] /\ fds'[fd] = r /\ \A e \in Fd : e # fd => fds'[e] = fds[e]
        BY <1>11, <2>3, <2>4
      <3>2. \A e \in Fd : fds'[e] # Free <=> e = fd
        BY <1>11, <2>3, <3>1 DEF Used
      <3>3. QED
        BY <1>2, <1>11, <3>1, <3>2 DEF Used
    <2>6. CASE cmd.path \in Device
      <3>1. files' = files /\ cmd.path \notin Path
        BY <1>14, <2>6, VfsAssumption
      <3>2. Stored'
        <4>1. UNCHANGED <<mounted, root, order, files>>
          BY <1>14, <3>1
        <4>2. QED
          BY <1>1, <4>1 DEF Stored, Tabled, ToSet
      <3>3. Descriptors'
        BY <1>2, <1>10, <1>11, <2>3, <2>5, <3>1 DEF Descriptors
      <3>4. Saved'
        BY <1>2, <3>1 DEF Saved
      <3>5. QED
        BY <1>3, <2>1, <3>2, <3>3, <3>4 DEF DownloadInv
    <2>7. CASE cmd.path \in Path
      <3>1. PICK p \in Path : p = cmd.path
        BY <2>7
      <3>2. PICK f : f = Holder(p)
        OBVIOUS
      <3>3. Found(p) # {} /\ f \in DOMAIN files /\ f \in Found(p)
            /\ (~root => f = p /\ files[p].mine)
        <4>1. Found(p) # {} /\ (~root => files[p].mine)
          BY <1>1, <1>10, <1>11, <1>14, <3>1 DEF Descriptors
        <4>2. f \in DOMAIN files /\ f \in Found(p) /\ (mounted => f = p)
          BY <1>1, <3>2, <4>1, FoundFiles
        <4>3. ~root => mounted
          BY <1>1 DEF Stored
        <4>4. QED
          BY <4>1, <4>2, <4>3
      <3> DEFINE g == [files[f] EXCEPT !.data = d]
      <3>4. g \in FileRec /\ g.data = d /\ g.mine = files[f].mine
        BY <1>1, <3>3 DEF Stored, FileRec
      <3>5. files' = [files EXCEPT ![f] = g]
        BY <1>14, <3>1, <3>2, VfsAssumption
      <3> HIDE DEF g
      <3>6. /\ DOMAIN files' = DOMAIN files /\ files' \in [DOMAIN files' -> FileRec]
            /\ files'[f] = g /\ \A q \in DOMAIN files : files'[q].mine = files[q].mine
        BY <1>1, <3>3, <3>4, <3>5 DEF Stored
      <3>7. Stored'
        BY <1>1, <1>14, <3>6 DEF Stored, Tabled, ToSet
      <3>8. \A q : Found(q)' = Found(q)
        BY <1>14, <3>6, FoundIs
      <3>9. Descriptors'
        <4>1. Found(cmd.path)' = Found(cmd.path)
          BY <1>2, <3>1, <3>8
        <4>2. ~root => files'[p].mine
          BY <3>3, <3>6
        <4>3. QED
          BY <1>2, <1>10, <1>11, <1>14, <2>3, <2>5, <3>1, <3>3, <4>1, <4>2 DEF Descriptors
      <3>10. Saved'
        <4>1. fds[fd].offset = 0 /\ written = 0
          BY <1>1, <1>10, <1>11, <1>14, <3>1, <3>3 DEF Saved, Writable
        <4>2. fds'[fd'].offset = written'
          BY <1>7, <1>14, <2>3, <2>5, <4>1
        <4>3. Holder(cmd.path)' = f
          <5>1. Holder(p)' = Holder(p)
            BY <3>8 DEF Holder
          <5>2. QED
            BY <1>2, <3>1, <3>2, <5>1
        <4>4. written' = Len(d)
          BY <1>7, <1>14, <4>1
        <4>5. /\ Len(handed) \in 0 .. Len(handed') - written'
              /\ SubSeq(handed', Len(handed) + 1, Len(handed) + written') = d
          BY <1>8, <4>4, LastIsAPart
        <4>6. files'[Holder(cmd.path)'].data = d
          BY <3>4, <3>6, <4>3
        <4>7. QED
          BY <4>2, <4>5, <4>6 DEF Saved
      <3>11. QED
        BY <1>3, <2>1, <3>7, <3>9, <3>10 DEF DownloadInv
    <2>8. QED
      BY <2>2, <2>6, <2>7
  <1>15. CASE d = <<>>
    <2>1. UNCHANGED <<vfsVars, written>>
      BY <1>4, <1>15 DEF HandOver
    <2>2. UNCHANGED <<mounted, root, files, order, fds, written>> /\ ret' \in Int
      BY <1>1, <2>1 DEF vfsVars, Running
    <2>3. QED
      BY <1>13, <2>2
  <1>16. CASE d # <<>>
    <2>1. /\ VfsWrite(fd, d) \/ VfsWriteFails(fd)
          /\ written' = IF ret' = -1 THEN written ELSE written + ret'
      BY <1>4, <1>16 DEF HandOver
    <2>2. CASE VfsWriteFails(fd)
      <3>1. ret' = -1 /\ UNCHANGED <<mounted, root, files, order, fds>>
        BY <2>2 DEF VfsWriteFails
      <3>2. QED
        BY <1>13, <2>1, <3>1
    <2>3. CASE VfsWrite(fd, d) /\ ~Writable(fd, d)
      <3>1. ret' = -1 /\ UNCHANGED <<mounted, root, files, order, fds>>
        BY <2>3 DEF VfsWrite
      <3>2. QED
        BY <1>13, <2>1, <3>1
    <2>4. CASE VfsWrite(fd, d) /\ Writable(fd, d)
      <3>1. /\ ret' = Len(d) /\ fds[fd].write
            /\ fds' = [fds EXCEPT ![fd].offset = @ + Len(d)]
            /\ files' = IF cmd.path \in Device THEN files
                        ELSE [files EXCEPT ![Holder(cmd.path)].data = d]
            /\ UNCHANGED <<mounted, root, order>>
        BY <1>11, <2>4 DEF VfsWrite
      <3>2. ret' # -1
        BY <1>7, <3>1
      <3>3. QED
        BY <1>14, <1>16, <2>1, <2>4, <3>1, <3>2
    <2>5. QED
      BY <2>1, <2>2, <2>3, <2>4
  <1>17. QED
    BY <1>15, <1>16

\* Nothing changes when no step is taken.
LEMMA StutterKeeps ==
  ASSUME DownloadInv, UNCHANGED vars
  PROVE  DownloadInv'
  <1>1. Stored /\ Descriptors /\ Running /\ Parsed /\ Saved
    BY DEF DownloadInv
  <1>2. UNCHANGED <<mounted, root, files, order, fds, ret, cmd, pc, fd>> /\ UNCHANGED http /\ UNCHANGED shown
    BY DEF vars, vfsVars
  <1>3. Stored' /\ Descriptors' /\ \A p : Holder(p)' = Holder(p)
    BY <1>1, <1>2, FilesAlone
  <1>4. Running'
    BY <1>1, <1>2 DEF Running, http
  <1>5. Parsed'
    BY <1>1, <1>2, SameParsed DEF Received, http
  <1>6. Saved'
    BY <1>1, <1>2, <1>3 DEF Saved, http
  <1>7. QED
    BY <1>3, <1>4, <1>5, <1>6 DEF DownloadInv

\* At first no descriptor is used, and only root has files.
LEMMA InitHolds ==
  ASSUME Init
  PROVE  DownloadInv
  <1>1. /\ mounted \in BOOLEAN /\ root \in BOOLEAN /\ (~mounted => root)
        /\ fds = [d \in Fd |-> Free] /\ order = <<>> /\ ret = 0
        /\ files = [p \in IF mounted THEN Owned ELSE {} |-> [data |-> <<"o">>, mine |-> FALSE]]
        /\ cmd = [name |-> "none", path |-> Temp] /\ pc = "idle" /\ fd = -1
        /\ response = <<>> /\ taken = 0 /\ closed = FALSE /\ carry = <<>> /\ header = FALSE
        /\ total = 0 /\ handed = <<>> /\ written = 0 /\ shown = <<>>
    BY DEF Init, VfsInit
  <1>2. Stored
    <2> DEFINE F == IF mounted THEN Owned ELSE {}
               o == [data |-> <<"o">>, mine |-> FALSE]
    <2>1. o \in FileRec
      <3>1. "o" \in Byte
        BY DEF Byte
      <3>2. <<"o">> \in Seq(Byte)
        BY <3>1
      <3> DEFINE b == <<"o">>
      <3> HIDE DEF b
      <3>3. [data |-> b, mine |-> FALSE] \in FileRec
        BY <3>2 DEF FileRec, b
      <3>4. QED
        BY <3>3 DEF b
    <2> HIDE DEF o
    <2>2. F \subseteq Path /\ (~mounted => F = {})
      BY DownloadAssumption
    <2> HIDE DEF F
    <2>3. files = [p \in F |-> o]
      BY <1>1 DEF F, o
    <2>4. DOMAIN files = F /\ files \in [F -> FileRec]
      BY <2>1, <2>3
    <2>5. ~mounted => Tabled(files, order)
      <3>1. order \in Seq(Path) /\ Len(order) = 0 /\ ToSet(order) = {}
        BY <1>1, EmptySeq DEF ToSet
      <3>2. IsFiniteSet({}) /\ Cardinality({}) = 0
        BY FS_EmptySet
      <3>3. QED
        BY <2>2, <2>4, <3>1, <3>2 DEF Tabled
    <2>6. QED
      BY <1>1, <2>2, <2>4, <2>5 DEF Stored
  <1>3. Descriptors
    <2>1. Free \in FdRec
      BY DEF Free, FdRec
    <2>2. fds \in [Fd -> FdRec] /\ Used = {}
      BY <1>1, <2>1 DEF Used
    <2>3. QED
      BY <1>1, <2>2 DEF Descriptors, Waiting
  <1>4. Running
    <2>1. response \in Seq(Byte) /\ Len(response) = 0 /\ shown \in Seq(Byte)
      BY <1>1, EmptySeq
    <2>2. cmd \in [name : {"none", "get", "https", "fetch", "cat"}, path : Path \cup Device]
      BY <1>1, DownloadAssumption
    <2>3. taken \in 0 .. Len(response) /\ taken = 0 /\ written = 0 /\ pc = "idle"
      BY <1>1, <2>1
    <2>4. closed \in BOOLEAN
      BY <1>1
    <2>5. ret \in Int /\ total \in Int /\ written \in Nat
      BY <1>1
    <2>6. QED
      BY <2>1, <2>2, <2>3, <2>4, <2>5 DEF Running
  <1>5. Parsed
    <2>1. Received = <<>>
      BY <1>1, Nothing DEF Received
    <2>2. QED
      BY <1>1, <2>1, Nothing DEF Parsed
  <1>6. Saved
    BY <1>1 DEF Saved, Writing
  <1>7. QED
    BY <1>2, <1>3, <1>4, <1>5, <1>6 DEF DownloadInv

\* Every step of a command, of the shell and of the server keeps the invariant.
LEMMA StepKeeps ==
  ASSUME DownloadInv, [Next]_vars
  PROVE  DownloadInv'
  <1>1. CASE Commands
    BY <1>1, StartKeeps
  <1>2. CASE OpenFile
    BY <1>2, OpenKeeps
  <1>3. CASE Connect
    BY <1>3, ConnectKeeps
  <1>4. CASE TlsFails
    BY <1>4, TlsKeeps
  <1>5. CASE Pieces
    <2>1. PICK n \in 0 .. MaxPiece : Piece(n)
      BY <1>5 DEF Pieces
    <2>2. QED
      BY <2>1, PieceKeeps
  <1>6. CASE Close
    BY <1>6, CloseKeeps
  <1>7. CASE Read
    BY <1>7, ReadKeeps
  <1>8. CASE PeerCloses
    BY <1>8, PeerClosesKeeps
  <1>9. CASE UNCHANGED vars
    BY <1>9, StutterKeeps
  <1>10. QED
    BY <1>1, <1>2, <1>3, <1>4, <1>5, <1>6, <1>7, <1>8, <1>9 DEF Next, Step

-----------------------------------------------------------------------------
(* What the commands promise.                                              *)

\* The invariant of the downloads holds in every behaviour.
THEOREM DownloadInvariant == Spec => []DownloadInv
  <1>1. Init => DownloadInv
    BY InitHolds
  <1>2. DownloadInv /\ [Next]_vars => DownloadInv'
    BY StepKeeps
  <1>3. QED
    BY <1>1, <1>2, PTL DEF Spec

\* The variables keep their types: http_get_to_fd's carry, an array of four bytes, never
\* holds more than three, and a command that goes on has an open descriptor.
THEOREM TypesHold == Spec => []TypeOK
  <1>1. DownloadInv => TypeOK
    <2> SUFFICES ASSUME DownloadInv PROVE TypeOK
      OBVIOUS
    <2>1. Stored /\ Descriptors /\ Running /\ Parsed
      BY DEF DownloadInv
    <2>2. Received \in Seq(Byte)
      BY <2>1, PartOfPart, LenProperties DEF Received, Running
    <2>3. carry \in Seq(Byte) /\ Len(carry) < 4
      <3>1. CASE header
        <4>1. carry = <<>>
          BY <2>1, <3>1 DEF Parsed
        <4>2. QED
          BY <4>1, EmptySeq
      <3>2. CASE ~header
        <4>1. carry = Ending(Received, 3)
          BY <2>1, <3>2 DEF Parsed
        <4>2. PICK l \in Nat : l = UpToThree(Len(Received)) /\ l < 4
          <5>1. Len(Received) \in Nat
            BY <2>2, LenProperties
          <5>2. QED
            BY <5>1 DEF UpToThree
        <4>3. QED
          BY <2>2, <4>1, <4>2, EndingIs
      <3>3. QED
        BY <3>1, <3>2
    <2>4. handed \in Seq(Byte) /\ header \in BOOLEAN
      BY <2>1, <2>2, BodyBytes DEF Parsed
    <2>5. pc \in Waiting => fd \in Used
      BY <2>1 DEF Descriptors
    <2>6. \A p \in DOMAIN files : files[p] \in [data : Seq(Byte), mine : BOOLEAN]
      BY <2>1 DEF Stored, FileRec
    <2>7. QED
      BY <2>1, <2>3, <2>4, <2>5, <2>6 DEF TypeOK, Stored, Tabled, Descriptors, FdRec, Running
  <1>2. QED
    BY <1>1, DownloadInvariant, PTL

\* For every response, however TCP cuts it into segments, http_get_to_fd hands on exactly
\* the bytes that follow the first empty line.
THEOREM BodiesAreSplit == Spec => []BodySplit
  <1>1. DownloadInv => BodySplit
    BY DEF DownloadInv, Parsed, BodySplit
  <1>2. QED
    BY <1>1, DownloadInvariant, PTL

\* A command of the shell that returns has closed the descriptor it opened, whichever
\* of its calls failed.
THEOREM DescriptorsAreFreed == Spec => []NoLeak
  <1>1. DownloadInv => NoLeak
    BY DEF DownloadInv, Descriptors, NoLeak, Waiting
  <1>2. QED
    BY <1>1, DownloadInvariant, PTL

\* A file that was downloaded holds one unbroken part of the body, as long as vfs_write
\* said it wrote: pieces are never mixed.
THEOREM SavedPartsAreWhole == Spec => []SavedIsOnePart
  <1>1. DownloadInv => SavedIsOnePart
    BY DEF DownloadInv, Saved, SavedIsOnePart, Writing
  <1>2. QED
    BY <1>1, DownloadInvariant, PTL

\* A step of a user leaves the files of root as they are: what it writes, it may write.
LEMMA OwnersKept ==
  ASSUME DownloadInv, [Next]_vars, NEW p \in DOMAIN files, ~root, ~files[p].mine
  PROVE  files'[p] = files[p]
  <1>1. Stored /\ Descriptors /\ Running /\ mounted
    BY DEF DownloadInv, Stored
  <1>2. CASE OpenFile
    <2>1. PICK q \in Path \cup Device, w \in BOOLEAN : VfsOpen(q, w, w) \/ UNCHANGED files
      <3>1. cmd.path \in Path \cup Device
        BY <1>1 DEF Running
      <3>2. PICK w \in BOOLEAN : w = ~(cmd.name = "cat" \/ pc = "reopen")
        OBVIOUS
      <3>3. VfsOpen(cmd.path, w, w) \/ UNCHANGED files
        BY <1>2, <3>2 DEF OpenFile, VfsOpenFails
      <3>4. QED
        BY <3>1, <3>3
    <2>2. CASE VfsOpen(q, w, w)
      BY <1>1, <2>2, Opens
    <2>3. QED
      BY <2>1, <2>2
  <1>3. CASE Pieces
    <2>1. PICK n \in 0 .. MaxPiece : Piece(n)
      BY <1>3 DEF Pieces
    <2>2. pc = "loop" /\ \E d \in Seq(Byte) : HandOver(d)
      BY <2>1, PieceParsed, Zenon DEF Piece, DownloadInv
    <2>3. PICK d \in Seq(Byte) : HandOver(d)
      BY <2>2
    <2>4. UNCHANGED files \/ VfsWrite(fd, d)
      BY <2>3 DEF HandOver, VfsWriteFails, vfsVars
    <2>5. CASE VfsWrite(fd, d)
      <3>1. /\ fds[fd].path = cmd.path /\ fds[fd].write
            /\ cmd.path \in Path => Found(cmd.path) # {} /\ files[cmd.path].mine
        BY <1>1, <2>2, <2>5 DEF Descriptors, Waiting, Writing, VfsWrite
      <3>2. \/ UNCHANGED files
            \/ cmd.path \in Path /\ files' = [files EXCEPT ![Holder(cmd.path)].data = d]
        BY <1>1, <2>5, <3>1 DEF VfsWrite, Running
      <3>3. cmd.path \in Path => Holder(cmd.path) = cmd.path
        BY <1>1, <3>1, FoundFiles
      <3>4. QED
        BY <3>1, <3>2, <3>3
    <2>6. QED
      BY <2>4, <2>5
  <1>4. CASE Commands \/ Connect \/ TlsFails \/ PeerCloses \/ UNCHANGED vars
    BY <1>4 DEF Commands, Start, Connect, TlsFails, PeerCloses, vars, vfsVars
  <1>5. CASE Close \/ Read
    BY <1>5 DEF Close, VfsClose, Read, VfsRead
  <1>6. QED
    BY <1>2, <1>3, <1>4, <1>5 DEF Next, Step

\* No command of a user changes a file of root's, although every write looks its path up
\* again and has_permission is asked only when the file is opened.
THEOREM OwnersKeepTheirFiles == Spec => OwnedKept
  <1>1. DownloadInv /\ [Next]_vars
          => [\A p \in DOMAIN files : ~root /\ ~files[p].mine => files'[p] = files[p]]_vars
    BY OwnersKept
  <1>2. QED
    BY <1>1, DownloadInvariant, PTL DEF Spec, OwnedKept
================================================================================
