------------------------------- MODULE BootProofs -------------------------------
(***************************************************************************)
(* Module Boot keeps accounts and installations whole, for every set of    *)
(* users and passwords and every history of errors and power losses.       *)
(***************************************************************************)
EXTENDS Boot, SequenceTheorems, WellFoundedInduction, TLAPS

\* What is left of the calls C after the first k.
Rest(C, k) == [j \in 1 .. Len(C) - k |-> C[k + j]]

\* The calls of the stage the boot is in.
CallsOf ==
  CASE pc = "layout" -> LayoutCalls(layout)
    [] pc = "system" -> SystemCalls
    [] pc = "user" -> IF who = Nobody THEN <<>> ELSE AccountCalls(who)
    [] pc = "complete" -> CompletionCalls
    [] pc = "mark" -> MarkCalls
    [] OTHER -> <<>>
Strict == pc \in {"layout", "system", "user"}

\* What the disk has after a call.
Done(c) ==
  /\ c.call = "directory" => c.path \in dirs
  /\ c.call = "append" => Lines(c.path) # <<>> /\ Last(Lines(c.path)) = c.lines[1]
  /\ c.call = "config" => Lines(c.path) = c.lines

\* Of the calls of a stage some are done and the others left; the record of an account
\* comes before the line that lists its name.
ProgressAt(k) ==
  /\ todo = Rest(CallsOf, k)
  /\ Strict => \A j \in 1 .. k : Done(CallsOf[j])
  /\ pc = "user" /\ 0 < k /\ k < Len(CallsOf) => Len(Lines("users")) < Len(Lines("passwd"))
Progress == \E k \in 0 .. Len(CallsOf) : ProgressAt(k)

\* The kinds of lines of the files that are read back.
FilesOK ==
  /\ Lines("passwd") \in Seq(Account) /\ Len(Lines("passwd")) <= Records
  /\ Lines("users") \in Seq(User) /\ Len(Lines("users")) <= Len(Lines("passwd"))
  /\ Lines("sudo-user") \in Seq(User) /\ Len(Lines("sudo-user")) <= 1
  /\ Lines("keyboard.conf") \in Seq({"us", "it"})
  /\ dirs \subseteq User \cup {"/", "etc", "home", ".config"}

StageOK ==
  /\ pc \in Stage /\ layout \in {"us", "it"}
  /\ who \in Account \cup {Nobody} /\ session \in Account \cup {Nobody}
  /\ pc \notin {"user", "complete"} => who = Nobody
  /\ pc = "complete" => who # Nobody
  /\ pc \in {"system", "user", "complete"} => Lines("keyboard.conf") = <<layout>>

\* InstalledIsWhole and SessionIsRecorded, in terms of Lines alone.
Installed ==
  pc = "complete" =>
    /\ Lines("passwd") # <<>> /\ Last(Lines("passwd")) = who
    /\ Lines("sudoers") = Rules(who)
    /\ who.sudoer => Lines("sudo-user") = <<who.user>>
    /\ who.user \in dirs
    /\ Lines("users") # <<>> /\ Last(Lines("users")) = who.user
Recorded ==
  session # Nobody => \E i \in DOMAIN Lines("passwd") : session = Lines("passwd")[i]

BootInv == FilesOK /\ StageOK /\ Progress /\ Installed /\ Recorded
-----------------------------------------------------------------------------
(* Sequences and the calls of a stage.                                     *)

\* What is left after k calls, and after one more.
LEMMA RestFacts ==
  ASSUME NEW S, NEW C \in Seq(S), NEW k \in 0 .. Len(C)
  PROVE  /\ Rest(C, k) = <<>> <=> k = Len(C)
         /\ k < Len(C) => /\ Rest(C, k) # <<>> /\ Head(Rest(C, k)) = C[k + 1]
                          /\ Tail(Rest(C, k)) = Rest(C, k + 1)
         /\ Rest(C, 0) = C
  <1>1. Len(C) \in Nat
    OBVIOUS
  <1>2. \A j \in 1 .. Len(C) : C[j] \in S
    OBVIOUS
  <1>3. ASSUME NEW m \in 0 .. Len(C)
        PROVE  /\ Rest(C, m) \in Seq(S) /\ Len(Rest(C, m)) = Len(C) - m
               /\ \A j \in 1 .. Len(C) - m : Rest(C, m)[j] = C[m + j]
    <2> DEFINE n == Len(C) - m
    <2>1. n \in Nat
      BY <1>1
    <2>2. ASSUME NEW j \in 1 .. n PROVE C[m + j] \in S
      <3>1. m + j \in 1 .. Len(C)
        BY <1>1
      <3>2. QED
        BY <1>2, <3>1
    <2>3. Rest(C, m) = [j \in 1 .. n |-> C[m + j]]
      BY DEF Rest
    <2> HIDE DEF n
    <2>4. Rest(C, m) \in Seq(S) /\ Len(Rest(C, m)) = n
      BY <2>1, <2>2, <2>3
    <2>5. \A j \in 1 .. n : Rest(C, m)[j] = C[m + j]
      BY <2>3
    <2>6. QED
      BY <2>4, <2>5 DEF n
  <1>4. Rest(C, k) = <<>> <=> k = Len(C)
    <2>1. Len(Rest(C, k)) = Len(C) - k /\ Rest(C, k) \in Seq(S)
      BY <1>3
    <2>2. Rest(C, k) = <<>> <=> Len(Rest(C, k)) = 0
      BY <2>1
    <2>3. QED
      BY <1>1, <2>1, <2>2
  <1>5. ASSUME k < Len(C)
        PROVE  /\ Rest(C, k) # <<>> /\ Head(Rest(C, k)) = C[k + 1]
               /\ Tail(Rest(C, k)) = Rest(C, k + 1)
    <2> DEFINE r == Rest(C, k)
               t == Rest(C, k + 1)
    <2>0. k + 1 \in 0 .. Len(C) /\ 1 \in 1 .. Len(C) - k
      BY <1>1, <1>5
    <2>1. /\ r \in Seq(S) /\ Len(r) = Len(C) - k /\ r[1] = C[k + 1]
          /\ \A j \in 1 .. Len(C) - k : r[j] = C[k + j]
      BY <1>3, <2>0
    <2>2. /\ t \in Seq(S) /\ Len(t) = Len(C) - (k + 1)
          /\ \A j \in 1 .. Len(C) - (k + 1) : t[j] = C[(k + 1) + j]
      BY <1>3, <2>0
    <2> HIDE DEF r, t
    <2>3. r # <<>> /\ Head(r) = C[k + 1]
      BY <1>4, <1>5, <2>1 DEF r
    <2>4. Tail(r) \in Seq(S) /\ Len(Tail(r)) = Len(C) - (k + 1)
      BY <1>1, <2>1, <2>3
    <2>5. ASSUME NEW j \in 1 .. Len(C) - (k + 1)
          PROVE  Tail(r)[j] = t[j]
      <3>1. j + 1 \in 1 .. Len(C) - k /\ k + (j + 1) = (k + 1) + j
        BY <1>1, <1>5
      <3>2. r[j + 1] = C[k + (j + 1)] /\ t[j] = C[(k + 1) + j]
        BY <2>1, <2>2, <3>1
      <3>3. Tail(r)[j] = r[j + 1]
        BY <1>1, <2>1, <2>3
      <3>4. QED
        BY <3>1, <3>2, <3>3
    <2>6. Tail(r) = t
      BY <2>2, <2>4, <2>5, SeqEqual
    <2>7. QED
      BY <2>3, <2>6 DEF r, t
  <1>6. Rest(C, 0) = C
    <2>1. Rest(C, 0) \in Seq(S) /\ Len(Rest(C, 0)) = Len(C)
      BY <1>1, <1>3
    <2>2. \A j \in 1 .. Len(C) : Rest(C, 0)[j] = C[j]
      BY <1>1 DEF Rest
    <2>3. QED
      BY <2>1, <2>2, SeqEqual
  <1>7. QED
    BY <1>4, <1>5, <1>6

\* A set of numbers has a least one.
LEMMA Least ==
  ASSUME NEW S \in SUBSET Nat, NEW n \in S
  PROVE  \E i \in S : \A j \in S : i <= j
  <1> DEFINE R == {ss \in Nat \X Nat : ss[1] < ss[2]}
  <1>1. IsWellFoundedOn(R, Nat)
    BY NatLessThanWellFounded DEF OpToRel
  <1>2. \A x \in Nat, y \in Nat : x < y => <<x, y>> \in R
    OBVIOUS
  <1> HIDE DEF R
  <1>3. PICK x \in S : \A y \in S : ~(<<y, x>> \in R)
    BY <1>1, WFMin
  <1>4. ASSUME NEW y \in S PROVE x <= y
    <2>1. <<y, x>> \notin R
      BY <1>3
    <2>2. ~(y < x)
      BY <1>2, <2>1
    <2>3. x \in Nat /\ y \in Nat
      OBVIOUS
    <2>4. QED
      BY <2>2, <2>3
  <1>5. QED
    BY <1>4

\* What is asked of the calls of a stage: no file is written twice, and the files that
\* are read back get lines of their kind.
Kinds == {"directory", "config", "new", "append"}
CallOK(c) ==
  /\ c.call \in Kinds
  /\ c.call = "directory" => c.path \in User \cup {"/", "etc", "home", ".config"}
  /\ c.call # "directory" /\ c.path = "passwd" =>
       c.call = "append" /\ c.lines \in Seq(Account) /\ Len(c.lines) = 1
  /\ c.call # "directory" /\ c.path = "users" =>
       c.call = "append" /\ c.lines \in Seq(User) /\ Len(c.lines) = 1
  /\ c.call # "directory" /\ c.path = "sudo-user" => c.lines \in Seq(User) /\ Len(c.lines) = 1
  /\ c.call # "directory" /\ c.path = "keyboard.conf" => c.lines \in Seq({"us", "it"})
  /\ c.call = "append" => c.path \in {"passwd", "users"}
CallsOK(C) ==
  /\ \A i \in 1 .. Len(C) : CallOK(C[i])
  /\ \A i, j \in 1 .. Len(C) :
       C[i].call # "directory" /\ C[j].call # "directory" /\ C[i].path = C[j].path => i = j

\* The calls for an account, one by one.
LEMMA AccountList ==
  ASSUME NEW a \in Account
  PROVE  AccountCalls(a) =
           IF a.sudoer
           THEN <<Append1("passwd", a), Config("sudoers", Rules(a)), Config("sudo-user", <<a.user>>),
                  Dir(a.user), Append1("users", a.user)>>
           ELSE <<Append1("passwd", a), Config("sudoers", Rules(a)), Dir(a.user),
                  Append1("users", a.user)>>
  <1>1. ASSUME NEW u, NEW v, NEW w, NEW x, NEW y
        PROVE  /\ <<u, v>> \o <<w>> \o <<x, y>> = <<u, v, w, x, y>>
               /\ <<u, v>> \o <<>> \o <<x, y>> = <<u, v, x, y>>
    <2> DEFINE S == {u, v, w, x, y}
    <2>1. /\ <<u, v>> \in Seq(S) /\ <<w>> \in Seq(S) /\ <<>> \in Seq(S) /\ <<x, y>> \in Seq(S)
          /\ <<u, v, w>> \in Seq(S) /\ <<u, v, w, x, y>> \in Seq(S) /\ <<u, v, x, y>> \in Seq(S)
      OBVIOUS
    <2> HIDE DEF S
    <2>2. <<u, v>> \o <<w>> = <<u, v, w>>
      <3>1. <<u, v>> \o <<w>> \in Seq(S) /\ Len(<<u, v>> \o <<w>>) = 3
        BY <2>1, ConcatProperties
      <3>2. \A n \in 1 .. 3 : (<<u, v>> \o <<w>>)[n] = <<u, v, w>>[n]
        BY <2>1, ConcatProperties
      <3>3. QED
        BY <2>1, <3>1, <3>2, SeqEqual
    <2>3. <<u, v>> \o <<>> = <<u, v>>
      BY <2>1, ConcatEmptySeq
    <2>4. <<u, v, w>> \o <<x, y>> = <<u, v, w, x, y>>
      <3>1. <<u, v, w>> \o <<x, y>> \in Seq(S) /\ Len(<<u, v, w>> \o <<x, y>>) = 5
        BY <2>1, ConcatProperties
      <3>2. \A n \in 1 .. 5 : (<<u, v, w>> \o <<x, y>>)[n] = <<u, v, w, x, y>>[n]
        BY <2>1, ConcatProperties
      <3>3. QED
        BY <2>1, <3>1, <3>2, SeqEqual
    <2>5. <<u, v>> \o <<x, y>> = <<u, v, x, y>>
      <3>1. <<u, v>> \o <<x, y>> \in Seq(S) /\ Len(<<u, v>> \o <<x, y>>) = 4
        BY <2>1, ConcatProperties
      <3>2. \A n \in 1 .. 4 : (<<u, v>> \o <<x, y>>)[n] = <<u, v, x, y>>[n]
        BY <2>1, ConcatProperties
      <3>3. QED
        BY <2>1, <3>1, <3>2, SeqEqual
    <2>6. QED
      BY <2>2, <2>3, <2>4, <2>5
  <1> DEFINE P == Append1("passwd", a)
             Q == Config("sudoers", Rules(a))
             Z == Config("sudo-user", <<a.user>>)
             X == Dir(a.user)
             Y == Append1("users", a.user)
  <1>2. AccountCalls(a) = <<P, Q>> \o (IF a.sudoer THEN <<Z>> ELSE <<>>) \o <<X, Y>>
    BY DEF AccountCalls
  <1> HIDE DEF P, Q, Z, X, Y
  <1>3. /\ <<P, Q>> \o <<Z>> \o <<X, Y>> = <<P, Q, Z, X, Y>>
        /\ <<P, Q>> \o <<>> \o <<X, Y>> = <<P, Q, X, Y>>
    BY <1>1
  <1>4. AccountCalls(a) = IF a.sudoer THEN <<P, Q, Z, X, Y>> ELSE <<P, Q, X, Y>>
    BY <1>2, <1>3
  <1>5. QED
    BY <1>4 DEF P, Q, Z, X, Y

\* The first and the last of them, and the files of the others.
LEMMA AccountFiles ==
  ASSUME NEW a \in Account
  PROVE  LET C == AccountCalls(a)
         IN  /\ \E S : C \in Seq(S)
             /\ Len(C) > 1 /\ C[1] = Append1("passwd", a) /\ C # <<>>
             /\ C[Len(C)] = Append1("users", a.user)
             /\ \A i \in 1 .. Len(C) : C[i].call # "directory" =>
                  /\ C[i].path = "passwd" => i = 1
                  /\ C[i].path = "users" => i = Len(C)
                  /\ C[i].path \in {"passwd", "sudoers", "sudo-user", "users"}
  <1> DEFINE P == Append1("passwd", a)
             Q == Config("sudoers", Rules(a))
             Z == Config("sudo-user", <<a.user>>)
             X == Dir(a.user)
             Y == Append1("users", a.user)
  <1>1. AccountCalls(a) = IF a.sudoer THEN <<P, Q, Z, X, Y>> ELSE <<P, Q, X, Y>>
    BY AccountList
  <1>2. /\ P.path = "passwd" /\ Q.path = "sudoers" /\ Z.path = "sudo-user"
        /\ X.call = "directory" /\ Y.path = "users"
    BY DEF Append1, Config, Dir
  <1> HIDE DEF P, Q, Z, X, Y
  <1>3. <<P, Q, Z, X, Y>> \in Seq({P, Q, Z, X, Y}) /\ <<P, Q, X, Y>> \in Seq({P, Q, X, Y})
    OBVIOUS
  <1> DEFINE F(C) == /\ \E S : C \in Seq(S)
                     /\ Len(C) > 1 /\ C[1] = P /\ C # <<>> /\ C[Len(C)] = Y
                     /\ \A i \in 1 .. Len(C) : C[i].call # "directory" =>
                          /\ C[i].path = "passwd" => i = 1
                          /\ C[i].path = "users" => i = Len(C)
                          /\ C[i].path \in {"passwd", "sudoers", "sudo-user", "users"}
  <1>4. F(<<P, Q, Z, X, Y>>)
    <2>1. \A i \in 1 .. 5 : <<P, Q, Z, X, Y>>[i].call # "directory" =>
            /\ <<P, Q, Z, X, Y>>[i].path = "passwd" => i = 1
            /\ <<P, Q, Z, X, Y>>[i].path = "users" => i = 5
            /\ <<P, Q, Z, X, Y>>[i].path \in {"passwd", "sudoers", "sudo-user", "users"}
      BY <1>2
    <2>2. \E S : <<P, Q, Z, X, Y>> \in Seq(S)
      BY <1>3
    <2>3. /\ Len(<<P, Q, Z, X, Y>>) = 5 /\ <<P, Q, Z, X, Y>>[1] = P /\ <<P, Q, Z, X, Y>>[5] = Y /\ <<P, Q, Z, X, Y>> # <<>>
      OBVIOUS
    <2>4. QED
      BY <2>1, <2>2, <2>3
  <1>5. F(<<P, Q, X, Y>>)
    <2>1. \A i \in 1 .. 4 : <<P, Q, X, Y>>[i].call # "directory" =>
            /\ <<P, Q, X, Y>>[i].path = "passwd" => i = 1
            /\ <<P, Q, X, Y>>[i].path = "users" => i = 4
            /\ <<P, Q, X, Y>>[i].path \in {"passwd", "sudoers", "sudo-user", "users"}
      BY <1>2
    <2>2. \E S : <<P, Q, X, Y>> \in Seq(S)
      BY <1>3
    <2>3. /\ Len(<<P, Q, X, Y>>) = 4 /\ <<P, Q, X, Y>>[1] = P /\ <<P, Q, X, Y>>[4] = Y /\ <<P, Q, X, Y>> # <<>>
      OBVIOUS
    <2>4. QED
      BY <2>1, <2>2, <2>3
  <1>6. F(AccountCalls(a))
    <2> HIDE DEF F
    <2>1. QED
      BY <1>1, <1>4, <1>5
  <1>7. QED
    BY <1>6 DEF P, Y

\* The lists of the installer.
LEMMA StageCalls ==
  /\ \A l \in {"us", "it"} : LayoutCalls(l) \in Seq({Dir(".config"), Config("keyboard.conf", <<l>>)})
                             /\ CallsOK(LayoutCalls(l))
  /\ CallsOK(SystemCalls)
  /\ \A a \in Account : CallsOK(AccountCalls(a))
  /\ CallsOK(CompletionCalls) /\ CallsOK(MarkCalls)
  <1>1. ASSUME NEW l \in {"us", "it"} PROVE CallsOK(LayoutCalls(l))
    BY DEF LayoutCalls, CallsOK, CallOK, Kinds, Dir, Config
  <1>2. CallsOK(SystemCalls)
    BY DEF SystemCalls, CallsOK, CallOK, Kinds, Dir, Config, New
  <1>3. ASSUME NEW a \in Account PROVE CallsOK(AccountCalls(a))
    <2>1. a.user \in User /\ a.sudoer \in BOOLEAN
      BY DEF Account
    <2>a. <<a>> \in Seq(Account) /\ Len(<<a>>) = 1 /\ <<a.user>> \in Seq(User) /\ Len(<<a.user>>) = 1
      BY <2>1
    <2>b. /\ CallOK(Append1("passwd", a)) /\ CallOK(Config("sudoers", Rules(a)))
          /\ CallOK(Config("sudo-user", <<a.user>>)) /\ CallOK(Dir(a.user))
          /\ CallOK(Append1("users", a.user))
      BY <2>1, <2>a DEF CallOK, Kinds, Dir, Config, Append1
    <2>c. /\ Append1("passwd", a).path = "passwd" /\ Config("sudoers", Rules(a)).path = "sudoers"
          /\ Config("sudo-user", <<a.user>>).path = "sudo-user" /\ Dir(a.user).call = "directory"
          /\ Append1("users", a.user).path = "users"
      BY DEF Dir, Config, Append1
    <2>2. CASE a.sudoer
      BY <2>2, <2>b, <2>c, AccountList DEF CallsOK
    <2>3. CASE ~a.sudoer
      BY <2>3, <2>b, <2>c, AccountList DEF CallsOK
    <2>4. QED
      BY <2>2, <2>3
  <1>4. CallsOK(CompletionCalls) /\ CallsOK(MarkCalls)
    BY DEF CompletionCalls, MarkCalls, CallsOK, CallOK, Kinds, Config
  <1>5. QED
    BY <1>1, <1>2, <1>3, <1>4 DEF LayoutCalls

\* The calls of the stage the boot is in.
LEMMA CallsOfOK ==
  ASSUME StageOK
  PROVE  /\ CallsOK(CallsOf) /\ \E S : CallsOf \in Seq(S)
         /\ CallsOf # <<>> => pc \in {"layout", "system", "user", "complete", "mark"}
  <1>1. /\ layout \in {"us", "it"} /\ who \in Account \cup {Nobody}
        /\ pc \in {"user", "complete"} /\ who # Nobody => who \in Account
    BY DEF StageOK
  <1>2. CallsOK(<<>>)
    BY DEF CallsOK
  <1>3. CallsOK(CallsOf)
    BY <1>1, <1>2, StageCalls DEF CallsOf
  <1>4. \E S : CallsOf \in Seq(S)
    <2>1. ASSUME NEW u, NEW v, NEW w, NEW x, NEW y, NEW z
          PROVE  /\ <<u>> \in Seq({u}) /\ <<u, v>> \in Seq({u, v})
                 /\ <<u, v, w, x>> \in Seq({u, v, w, x}) /\ <<u, v, w, x, y>> \in Seq({u, v, w, x, y})
                 /\ <<u, v, w, x, y, z>> \in Seq({u, v, w, x, y, z})
      OBVIOUS
    <2>2. CASE pc = "layout"
      BY <2>1, <2>2 DEF CallsOf, LayoutCalls
    <2>3. CASE pc = "system"
      BY <2>1, <2>3 DEF CallsOf, SystemCalls
    <2>4. CASE pc = "user" /\ who # Nobody
      <3>1. who \in Account /\ CallsOf = AccountCalls(who)
        BY <1>1, <2>4 DEF CallsOf
      <3>2. QED
        BY <3>1, AccountFiles
    <2>5. CASE pc = "complete"
      BY <2>1, <2>5 DEF CallsOf, CompletionCalls
    <2>6. CASE pc = "mark"
      BY <2>1, <2>6 DEF CallsOf, MarkCalls
    <2>7. CASE pc \notin {"layout", "system", "user", "complete", "mark"} \/ (pc = "user" /\ who = Nobody)
      <3>1. CallsOf = <<>> /\ <<>> \in Seq({})
        BY <2>7 DEF CallsOf
      <3>2. QED
        BY <3>1
    <2>8. QED
      BY <2>2, <2>3, <2>4, <2>5, <2>6, <2>7
  <1>5. QED
    BY <1>3, <1>4 DEF CallsOf

\* The files that the calls of each stage write.
LEMMA StageFiles ==
  ASSUME StageOK, NEW i \in 1 .. Len(CallsOf), CallsOf[i].call # "directory"
  PROVE  /\ pc \in {"system", "user", "complete"} => CallsOf[i].path # "keyboard.conf"
         /\ pc = "layout" => CallsOf[i].path \notin {"passwd", "users"}
         /\ pc \in {"system", "complete", "mark"} =>
              CallsOf[i].path \notin {"passwd", "users", "sudoers", "sudo-user"}
         /\ pc = "user" /\ CallsOf[i].path = "passwd" => i = 1
         /\ pc = "user" /\ CallsOf[i].path = "users" => i = Len(CallsOf) /\ i > 1
  <1>1. CASE pc = "layout"
    BY <1>1 DEF CallsOf, LayoutCalls, Dir, Config
  <1>2. CASE pc = "system"
    BY <1>2 DEF CallsOf, SystemCalls, Dir, Config, New
  <1>3. CASE pc \in {"complete", "mark"}
    BY <1>3 DEF CallsOf, CompletionCalls, MarkCalls, Config
  <1>4. CASE pc = "user"
    <2>1. who \in Account /\ CallsOf = AccountCalls(who)
      <3>1. CallsOf # <<>>
        OBVIOUS
      <3>2. QED
        BY <1>4, <3>1 DEF CallsOf, StageOK
    <2>2. QED
      BY <1>4, <2>1, AccountFiles
  <1>5. QED
    <2>1. CallsOf # <<>>
      OBVIOUS
    <2>2. QED
      BY <1>1, <1>2, <1>3, <1>4, <2>1, CallsOfOK

\* The record of an account is the first thing written for it.
LEMMA RecordFirst ==
  ASSUME StageOK, pc = "user", CallsOf # <<>>
  PROVE  /\ CallsOf[1] = Append1("passwd", who) /\ Len(CallsOf) > 1 /\ who \in Account
  <1>1. who \in Account /\ CallsOf = AccountCalls(who)
    BY DEF CallsOf, StageOK
  <1>2. QED
    BY <1>1, AccountFiles

\* The call that is next.
LEMMA NextCall ==
  ASSUME BootInv, NEW k \in 0 .. Len(CallsOf), ProgressAt(k), Busy
  PROVE  /\ k < Len(CallsOf) /\ k + 1 \in 1 .. Len(CallsOf) /\ Current = CallsOf[k + 1]
         /\ Tail(todo) = Rest(CallsOf, k + 1) /\ CallOK(Current)
         /\ pc \in {"layout", "system", "user", "complete", "mark"}
  <1>1. PICK S : CallsOf \in Seq(S)
    BY CallsOfOK DEF BootInv
  <1>2. Len(CallsOf) \in Nat /\ todo = Rest(CallsOf, k) /\ todo # <<>>
    BY <1>1 DEF ProgressAt, Busy
  <1>3. k < Len(CallsOf)
    BY <1>1, <1>2, RestFacts
  <1>4. Current = CallsOf[k + 1] /\ Tail(todo) = Rest(CallsOf, k + 1)
    BY <1>1, <1>2, <1>3, RestFacts DEF Current
  <1>5. k + 1 \in 1 .. Len(CallsOf) /\ CallsOf # <<>>
    BY <1>1, <1>2, <1>3
  <1>6. QED
    BY <1>3, <1>4, <1>5, CallsOfOK DEF CallsOK, BootInv
-----------------------------------------------------------------------------
(* The steps.                                                              *)

\* A sequence and what it is extended by.
LEMMA Extended ==
  ASSUME NEW S, NEW s \in Seq(S), NEW t \in Seq(S)
  PROVE  /\ s \o t \in Seq(S) /\ Len(s \o t) = Len(s) + Len(t)
         /\ \A i \in DOMAIN s : i \in DOMAIN (s \o t) /\ (s \o t)[i] = s[i]
         /\ IsPrefix(s, s \o t) /\ IsPrefix(s, s)
  <1>1. /\ s \o t \in Seq(S) /\ Len(s \o t) = Len(s) + Len(t)
        /\ \A i \in 1 .. Len(s) + Len(t) : (s \o t)[i] = IF i <= Len(s) THEN s[i] ELSE t[i - Len(s)]
    BY ConcatProperties
  <1>2. /\ DOMAIN s = 1 .. Len(s) /\ DOMAIN (s \o t) = 1 .. Len(s) + Len(t)
        /\ Len(s) \in Nat /\ Len(t) \in Nat
    BY <1>1
  <1>3. \A i \in DOMAIN s : i \in DOMAIN (s \o t) /\ (s \o t)[i] = s[i]
    BY <1>1, <1>2
  <1>4. SubSeq(s, 1, Len(s)) = SubSeq(s \o t, 1, Len(s))
    BY <1>1, <1>2, <1>3
  <1>5. QED
    BY <1>1, <1>2, <1>3, <1>4 DEF IsPrefix

\* A call that succeeds, or fails where that is ignored.
Advances ==
  /\ Busy /\ Pop /\ UNCHANGED <<pc, who, layout, session>>
  /\ dirs \subseteq dirs' /\ dirs' \subseteq User \cup {"/", "etc", "home", ".config"}
  /\ \A p : Lines(p)' # Lines(p) =>
       /\ Current.call \notin {"directory", "new"} /\ p = Current.path
       /\ Lines(p)' = Content(Current)
  /\ Len(Lines("passwd")') <= Records
  /\ Strict => \A c : c = Current => Done(c)'
  /\ Strict /\ Current.call = "append" =>
       \A p : p = Current.path => Lines(p)' = Lines(p) \o Current.lines

\* What such a call does to the files that are read back.
LEMMA AdvanceLines ==
  ASSUME BootInv, Advances, NEW k \in 0 .. Len(CallsOf), ProgressAt(k)
  PROVE  /\ \/ Lines("passwd")' = Lines("passwd")
            \/ /\ pc = "user" /\ k = 0 /\ Current.lines \in Seq(Account) /\ Len(Current.lines) = 1
               /\ Lines("passwd")' = Lines("passwd") \o Current.lines
         /\ \/ Lines("users")' = Lines("users")
            \/ /\ pc = "user" /\ k + 1 = Len(CallsOf) /\ k > 0
               /\ Current.lines \in Seq(User) /\ Len(Current.lines) = 1
               /\ Lines("users")' = Lines("users") \o Current.lines
         /\ \/ Lines("sudo-user")' = Lines("sudo-user")
            \/ /\ Lines("sudo-user")' \in Seq(User) /\ Len(Lines("sudo-user")') = 1
               /\ pc # "complete"
         /\ \/ Lines("keyboard.conf")' = Lines("keyboard.conf")
            \/ Lines("keyboard.conf")' \in Seq({"us", "it"}) /\ pc \notin {"system", "user", "complete"}
         /\ Lines("sudoers")' = Lines("sudoers") \/ pc # "complete"
  <1>1. /\ k < Len(CallsOf) /\ k + 1 \in 1 .. Len(CallsOf) /\ Current = CallsOf[k + 1]
        /\ CallOK(Current) /\ pc \in {"layout", "system", "user", "complete", "mark"}
    BY NextCall DEF Advances
  <1>2. ASSUME NEW p, Lines(p)' # Lines(p)
        PROVE  /\ Current.call \notin {"directory", "new"} /\ p = Current.path
               /\ Lines(p)' = IF Current.call = "append" THEN Lines(p) \o Current.lines
                              ELSE Current.lines
    BY <1>2 DEF Advances, Content
  <1>3. Current.call # "directory" =>
         /\ pc \in {"system", "user", "complete"} => Current.path # "keyboard.conf"
         /\ pc = "layout" => Current.path \notin {"passwd", "users"}
         /\ pc \in {"system", "complete", "mark"} =>
              Current.path \notin {"passwd", "users", "sudoers", "sudo-user"}
         /\ pc = "user" /\ Current.path = "passwd" => k + 1 = 1
         /\ pc = "user" /\ Current.path = "users" => k + 1 = Len(CallsOf) /\ k + 1 > 1
    BY <1>1, StageFiles DEF BootInv
  <1>4. k \in Nat
    OBVIOUS
  <1>5. QED
    BY <1>1, <1>2, <1>3, <1>4 DEF CallOK

\* The accounts stay, and the files keep their kind.
LEMMA AdvanceFiles ==
  ASSUME BootInv, Advances
  PROVE  FilesOK' /\ Recorded' /\ IsPrefix(Lines("passwd"), Lines("passwd")')
  <1>1. PICK k \in 0 .. Len(CallsOf) : ProgressAt(k)
    BY DEF BootInv, Progress
  <1> DEFINE P == Lines("passwd")
             U == Lines("users")
             x == Current.lines
  <1>2. /\ P \in Seq(Account) /\ U \in Seq(User) /\ Len(U) <= Len(P) /\ Len(P) \in Nat /\ Len(U) \in Nat
    BY DEF BootInv, FilesOK
  <1>3. /\ P' = P \/ (pc = "user" /\ k = 0 /\ x \in Seq(Account) /\ Len(x) = 1 /\ P' = P \o x)
        /\ U' = U \/ (/\ pc = "user" /\ k + 1 = Len(CallsOf) /\ k > 0 /\ x \in Seq(User)
                      /\ Len(x) = 1 /\ U' = U \o x)
    BY <1>1, AdvanceLines
  <1>4. k < Len(CallsOf) /\ Len(CallsOf) \in Nat /\ CallsOf # <<>> /\ k \in Nat
    <2>1. PICK S : CallsOf \in Seq(S)
      BY CallsOfOK DEF BootInv
    <2>2. QED
      BY <1>1, <2>1, NextCall DEF Advances
  <1>5. /\ P' \in Seq(Account) /\ IsPrefix(P, P')
        /\ \A i \in DOMAIN P : i \in DOMAIN P' /\ P'[i] = P[i]
        /\ P' # P => Len(P') = Len(P) + 1
    <2>1. CASE P' = P
      <3>1. IsPrefix(P, P)
        BY <1>2, Extended
      <3>2. QED
        BY <1>2, <2>1, <3>1
    <2>2. CASE P' # P
      <3>1. x \in Seq(Account) /\ Len(x) = 1 /\ P' = P \o x
        BY <1>3, <2>2
      <3> HIDE DEF P, x
      <3>2. /\ P \o x \in Seq(Account) /\ Len(P \o x) = Len(P) + Len(x) /\ IsPrefix(P, P \o x)
            /\ \A i \in DOMAIN P : i \in DOMAIN (P \o x) /\ (P \o x)[i] = P[i]
        BY <1>2, <3>1, Extended
      <3>3. QED
        BY <3>1, <3>2
    <2>3. QED
      BY <2>1, <2>2
  <1>6. U' \in Seq(User) /\ (U' # U => Len(U') = Len(U) + 1)
    <2>1. CASE U' = U
      BY <1>2, <2>1
    <2>2. CASE U' # U
      <3>1. x \in Seq(User) /\ Len(x) = 1 /\ U' = U \o x
        BY <1>3, <2>2
      <3> HIDE DEF U, x
      <3>2. U \o x \in Seq(User) /\ Len(U \o x) = Len(U) + Len(x)
        BY <1>2, <3>1, Extended
      <3>3. QED
        BY <3>1, <3>2
    <2>3. QED
      BY <2>1, <2>2
  <1>7. U' # U => P' = P /\ Len(U) < Len(P)
    <2>1. pc = "user" /\ 0 < k /\ k < Len(CallsOf) => Len(U) < Len(P)
      BY <1>1 DEF ProgressAt
    <2>2. QED
      BY <1>3, <1>4, <2>1
  <1>8. Len(U') <= Len(P')
    BY <1>2, <1>5, <1>6, <1>7
  <1>9. FilesOK'
    <2>1. /\ Lines("sudo-user")' \in Seq(User) /\ Len(Lines("sudo-user")') <= 1
          /\ Lines("keyboard.conf")' \in Seq({"us", "it"})
      <3> DEFINE V == Lines("sudo-user")
                 W == Lines("keyboard.conf")
      <3>1. V \in Seq(User) /\ Len(V) <= 1 /\ W \in Seq({"us", "it"})
        BY DEF BootInv, FilesOK
      <3>2. /\ V' = V \/ (V' \in Seq(User) /\ Len(V') = 1)
            /\ W' = W \/ W' \in Seq({"us", "it"})
        BY <1>1, AdvanceLines
      <3>3. V' \in Seq(User) /\ Len(V') <= 1
        <4>1. CASE V' = V
          BY <3>1, <4>1
        <4>2. CASE V' # V
          <5>1. V' \in Seq(User) /\ Len(V') = 1
            BY <3>2, <4>2
          <5> HIDE DEF V
          <5>2. QED
            BY <5>1
        <4>3. QED
          BY <4>1, <4>2
      <3>4. W' \in Seq({"us", "it"})
        BY <3>1, <3>2
      <3>5. QED
        BY <3>3, <3>4
    <2>2. QED
      BY <1>5, <1>6, <1>8, <2>1 DEF FilesOK, Advances
  <1>10. Recorded'
    BY <1>5 DEF BootInv, Recorded, Advances
  <1>11. QED
    BY <1>5, <1>9, <1>10

\* What an earlier call did stays done.
LEMMA DoneStays ==
  ASSUME BootInv, Advances, NEW k \in 0 .. Len(CallsOf), ProgressAt(k),
         NEW c, c.call = "directory" \/ c.path # Current.path \/ Current.call = "directory",
         Done(c)
  PROVE  Done(c)'
  <1>1. c.call # "directory" => Lines(c.path)' = Lines(c.path)
    BY DEF Advances
  <1>2. QED
    BY <1>1 DEF Done, Advances

\* The calls that were done and the one that is.
LEMMA AdvanceProgress ==
  ASSUME BootInv, Advances
  PROVE  Progress'
  <1>1. PICK k \in 0 .. Len(CallsOf) : ProgressAt(k)
    BY DEF BootInv, Progress
  <1>2. CallsOf' = CallsOf /\ (Strict' <=> Strict) /\ pc' = pc
    BY DEF Advances, CallsOf, Strict
  <1>3. /\ k < Len(CallsOf) /\ k + 1 \in 1 .. Len(CallsOf) /\ Current = CallsOf[k + 1]
        /\ Tail(todo) = Rest(CallsOf, k + 1) /\ pc \in {"layout", "system", "user", "complete", "mark"}
    BY <1>1, NextCall DEF Advances
  <1>4. Len(CallsOf) \in Nat /\ k \in Nat /\ CallsOf # <<>>
    <2>1. PICK S : CallsOf \in Seq(S)
      BY CallsOfOK DEF BootInv
    <2>2. QED
      BY <1>3, <2>1
  <1>5. todo' = Rest(CallsOf, k + 1)
    BY <1>3 DEF Advances, Pop
  <1>6. ASSUME Strict, NEW j \in 1 .. k + 1
        PROVE  Done(CallsOf[j])'
    <2>1. CASE j = k + 1
      <3>1. PICK c : c = CallsOf[j]
        OBVIOUS
      <3>2. CallsOf'[j] = c /\ Current = c
        BY <1>2, <1>3, <2>1, <3>1
      <3>3. Done(c)'
        BY <1>6, <3>2 DEF Advances
      <3>4. QED
        BY <3>2, <3>3 DEF Done
    <2>2. CASE j \in 1 .. k
      <3>1. Done(CallsOf[j])
        BY <1>1, <1>6, <2>2 DEF ProgressAt
      <3>2. j \in 1 .. Len(CallsOf) /\ j # k + 1
        BY <1>3, <1>4, <2>2
      <3>3. PICK c : c = CallsOf[j]
        OBVIOUS
      <3>4. c.call = "directory" \/ c.path # Current.path \/ Current.call = "directory"
        BY <1>3, <3>2, <3>3, CallsOfOK DEF CallsOK, BootInv
      <3>5. Done(c)'
        BY <1>1, <3>1, <3>3, <3>4, DoneStays
      <3>6. CallsOf'[j] = c
        BY <1>2, <3>3
      <3>7. QED
        BY <3>5, <3>6 DEF Done
    <2>3. QED
      BY <1>4, <2>1, <2>2
  <1>7. pc = "user" /\ k + 1 < Len(CallsOf) => Len(Lines("users")') < Len(Lines("passwd")')
    <2>1. SUFFICES ASSUME pc = "user", k + 1 < Len(CallsOf)
                   PROVE  Len(Lines("users")') < Len(Lines("passwd")')
      OBVIOUS
    <2> DEFINE P == Lines("passwd")
               U == Lines("users")
    <2>2. /\ P \in Seq(Account) /\ U \in Seq(User) /\ Len(U) <= Len(P)
          /\ Len(P) \in Nat /\ Len(U) \in Nat
      BY DEF BootInv, FilesOK
    <2>3. U' = U
      BY <1>1, <1>4, <2>1, AdvanceLines
    <2>4. CASE k = 0
      <3>1. Current = Append1("passwd", who) /\ who \in Account
        BY <1>3, <1>4, <2>1, <2>4, RecordFirst DEF BootInv
      <3>2. P' = P \o <<who>>
        <4>1. Strict
          BY <2>1 DEF Strict
        <4>2. Current.lines = <<who>> /\ Current.call = "append" /\ Current.path = "passwd"
          BY <3>1 DEF Append1
        <4>3. QED
          BY <4>1, <4>2 DEF Advances
      <3>3. <<who>> \in Seq(Account) /\ Len(<<who>>) = 1
        BY <3>1
      <3> HIDE DEF P
      <3>4. Len(P') = Len(P) + 1
        BY <2>2, <3>2, <3>3, Extended
      <3>5. QED
        BY <2>2, <2>3, <3>4 DEF P
    <2>5. CASE k > 0
      <3>1. Len(U) < Len(P)
        BY <1>1, <1>3, <2>1, <2>5 DEF ProgressAt
      <3>2. P' = P
        BY <1>1, <2>5, AdvanceLines
      <3>3. QED
        BY <2>3, <3>1, <3>2
    <2>6. QED
      BY <1>4, <2>4, <2>5
  <1>8. QED
    <2>1. k + 1 \in 0 .. Len(CallsOf')
      BY <1>2, <1>3, <1>4
    <2>2. todo' = Rest(CallsOf', k + 1)
      BY <1>2, <1>5
    <2>3. Strict' => \A j \in 1 .. k + 1 : Done(CallsOf[j])'
      BY <1>2, <1>6
    <2>4. pc' = "user" /\ k + 1 < Len(CallsOf') => Len(Lines("users")') < Len(Lines("passwd")')
      BY <1>2, <1>7
    <2>5. QED
      BY <2>1, <2>2, <2>3, <2>4 DEF Progress, ProgressAt

\* One more line is the last one.
LEMMA Appended ==
  ASSUME NEW S, NEW s \in Seq(S), NEW t \in Seq(S), Len(t) = 1
  PROVE  s \o t # <<>> /\ Last(s \o t) = t[1]
  <1>1. /\ s \o t \in Seq(S) /\ Len(s \o t) = Len(s) + 1
        /\ (s \o t)[Len(s) + 1] = t[1] /\ Len(s) \in Nat
    <2>1. Len(s) + 1 \in 1 .. Len(s) + Len(t) /\ (Len(s) + 1) - Len(s) = 1 /\ ~(Len(s) + 1 <= Len(s))
      OBVIOUS
    <2>2. QED
      BY <2>1, ConcatProperties
  <1>2. s \o t # <<>>
    BY <1>1
  <1>3. QED
    BY <1>1, <1>2 DEF Last

\* A call leaves the stage what it is; the one that is complete loses nothing.
LEMMA AdvanceKeeps ==
  ASSUME BootInv, Advances
  PROVE  BootInv' /\ IsPrefix(Lines("passwd"), Lines("passwd")')
  <1>1. PICK k \in 0 .. Len(CallsOf) : ProgressAt(k)
    BY DEF BootInv, Progress
  <1>2. /\ Lines("keyboard.conf")' = Lines("keyboard.conf") \/ pc \notin {"system", "user", "complete"}
        /\ pc = "complete" => /\ Lines("passwd")' = Lines("passwd")
                              /\ Lines("users")' = Lines("users")
                              /\ Lines("sudo-user")' = Lines("sudo-user")
                              /\ Lines("sudoers")' = Lines("sudoers")
    <2>1. Lines("keyboard.conf")' = Lines("keyboard.conf") \/ pc \notin {"system", "user", "complete"}
      BY <1>1, AdvanceLines
    <2>2. pc = "complete" => Lines("passwd")' = Lines("passwd") /\ Lines("users")' = Lines("users")
      BY <1>1, AdvanceLines
    <2>3. pc = "complete" => /\ Lines("sudo-user")' = Lines("sudo-user")
                             /\ Lines("sudoers")' = Lines("sudoers")
      BY <1>1, AdvanceLines
    <2>4. QED
      BY <2>1, <2>2, <2>3
  <1>3. StageOK'
    BY <1>2 DEF BootInv, StageOK, Advances
  <1>4. Installed'
    BY <1>2 DEF BootInv, Installed, Advances, Rules
  <1>5. QED
    BY <1>3, <1>4, AdvanceFiles, AdvanceProgress DEF BootInv

\* What is not there yet is empty, and stays so when it is created.
LEMMA CreatedIsEmpty ==
  ASSUME CreateFile
  PROVE  \A p : Lines(p)' = Lines(p)
  <1>1. ASSUME NEW p PROVE Lines(p)' = Lines(p)
    <2>1. file' = [q \in DOMAIN file \cup {Current.path} |-> Lines(q)]
      BY DEF CreateFile
    <2> DEFINE D == DOMAIN file \cup {Current.path}
    <2>2. DOMAIN file' = D /\ (p \in D => file'[p] = Lines(p))
      BY <2>1
    <2>3. p \notin D => Lines(p) = <<>>
      BY DEF Lines, Exists
    <2>4. QED
      BY <2>2, <2>3 DEF Lines, Exists
  <1>2. QED
    BY <1>1

\* ext2_write_file and what calls it.
LEMMA WrittenIsContent ==
  ASSUME WriteFile
  PROVE  /\ \A p : p # Current.path \/ Current.call = "new" => Lines(p)' = Lines(p)
         /\ \A p : p = Current.path /\ Current.call # "new" => Lines(p)' = Content(Current)
  <1>1. CASE Current.call = "new"
    BY <1>1 DEF WriteFile, Lines, Exists
  <1>2. CASE Current.call # "new"
    <2>1. file' = [file EXCEPT ![Current.path] = Content(Current)] /\ Current.path \in DOMAIN file
      BY <1>2 DEF WriteFile, Exists
    <2>2. /\ DOMAIN file' = DOMAIN file
          /\ \A p \in DOMAIN file : file'[p] = IF p = Current.path THEN Content(Current) ELSE file[p]
      BY <2>1
    <2>3. QED
      BY <1>2, <2>1, <2>2 DEF Lines, Exists
  <1>3. QED
    BY <1>1, <1>2

\* ensure_directory: the directory is there, whether or not it was before.
LEMMA MakeDirectoryAdvances ==
  ASSUME BootInv, MakeDirectory
  PROVE  Advances
  <1>1. PICK k \in 0 .. Len(CallsOf) : ProgressAt(k)
    BY DEF BootInv, Progress
  <1>2. CallOK(Current) /\ Current.call = "directory"
    BY <1>1, NextCall DEF MakeDirectory
  <1>3. /\ \A p : Lines(p)' = Lines(p)
        /\ Len(Lines("passwd")) <= Records /\ dirs \subseteq User \cup {"/", "etc", "home", ".config"}
    BY DEF BootInv, FilesOK, MakeDirectory, Lines, Exists
  <1>4. \A c : c = Current => Done(c)'
    BY <1>2 DEF Done, MakeDirectory
  <1>5. QED
    BY <1>2, <1>3, <1>4 DEF Advances, MakeDirectory, CallOK

\* write_config, append_config_line and write_auth_record: the file holds what was meant.
LEMMA WriteFileAdvances ==
  ASSUME BootInv, WriteFile
  PROVE  Advances
  <1>1. PICK k \in 0 .. Len(CallsOf) : ProgressAt(k)
    BY DEF BootInv, Progress
  <1>2. CallOK(Current) /\ Current.call # "directory"
    BY <1>1, NextCall DEF WriteFile
  <1>3. /\ Len(Lines("passwd")) <= Records /\ dirs \subseteq User \cup {"/", "etc", "home", ".config"}
        /\ Lines("passwd") \in Seq(Account) /\ Lines("users") \in Seq(User)
    BY DEF BootInv, FilesOK
  <1>4. Len(Lines("passwd")') <= Records
    <2>1. CASE Lines("passwd")' = Lines("passwd")
      BY <1>3, <2>1
    <2>2. CASE Lines("passwd")' # Lines("passwd")
      <3>1. Current.path = "passwd" /\ Lines("passwd")' = Content(Current)
        BY <2>2, WrittenIsContent
      <3>2. Len(Content(Current)) <= Records
        BY <3>1 DEF WriteFile, Fits
      <3>3. QED
        BY <3>1, <3>2
    <2>3. QED
      BY <2>1, <2>2
  <1>5. ASSUME NEW c, c = Current, Strict
        PROVE  Done(c)'
    <2>1. CASE c.call = "append"
      <3>1. Lines(c.path)' = Lines(c.path) \o c.lines
        BY <1>5, <2>1, WrittenIsContent DEF Content
      <3>2. PICK S : Lines(c.path) \in Seq(S) /\ c.lines \in Seq(S) /\ Len(c.lines) = 1
        BY <1>2, <1>3, <1>5, <2>1 DEF CallOK
      <3> DEFINE s == Lines(c.path)
                 t == c.lines
      <3>3. s \in Seq(S) /\ t \in Seq(S) /\ Len(t) = 1
        BY <3>2
      <3> HIDE DEF s, t
      <3>4. s \o t # <<>> /\ Last(s \o t) = t[1]
        BY <3>3, Appended
      <3>5. QED
        BY <2>1, <3>1, <3>4 DEF Done, s, t
    <2>2. CASE c.call = "config"
      <3>1. Lines(c.path)' = c.lines
        BY <1>5, <2>2, WrittenIsContent DEF Content
      <3>2. QED
        BY <1>2, <1>5, <2>2, <3>1 DEF Done
    <2>3. CASE c.call = "new"
      BY <2>3 DEF Done
    <2>4. QED
      BY <1>2, <1>5, <2>1, <2>2, <2>3 DEF CallOK, Kinds
  <1>6. \A p : Lines(p)' # Lines(p) =>
          /\ Current.call \notin {"directory", "new"} /\ p = Current.path
          /\ Lines(p)' = Content(Current)
    BY <1>2, WrittenIsContent
  <1>7. Current.call = "append" => \A p : p = Current.path => Lines(p)' = Lines(p) \o Current.lines
    BY WrittenIsContent DEF Content
  <1>8. QED
    BY <1>2, <1>3, <1>4, <1>5, <1>6, <1>7 DEF Advances, WriteFile
-----------------------------------------------------------------------------
(* The stages, one after the other.                                        *)

\* The lists that a stage starts with.
LEMMA Lists ==
  /\ \A l : Rest(LayoutCalls(l), 0) = LayoutCalls(l) /\ Len(LayoutCalls(l)) = 2
  /\ Rest(SystemCalls, 0) = SystemCalls /\ Len(SystemCalls) = 6
  /\ \A a \in Account : Rest(AccountCalls(a), 0) = AccountCalls(a) /\ Len(AccountCalls(a)) \in Nat
  /\ Rest(CompletionCalls, 0) = CompletionCalls /\ Len(CompletionCalls) = 2
  /\ Rest(MarkCalls, 0) = MarkCalls /\ Len(MarkCalls) = 1
  /\ Rest(<<>>, 0) = <<>> /\ Len(<<>>) = 0
  <1>0. ASSUME NEW S, NEW C \in Seq(S) PROVE Rest(C, 0) = C /\ Len(C) \in Nat
    BY RestFacts
  <1>1. ASSUME NEW u, NEW v, NEW w, NEW x, NEW y, NEW z
        PROVE  /\ Rest(<<u>>, 0) = <<u>> /\ Rest(<<u, v>>, 0) = <<u, v>>
               /\ Rest(<<u, v, w, x, y, z>>, 0) = <<u, v, w, x, y, z>>
    <2>1. /\ <<u>> \in Seq({u}) /\ <<u, v>> \in Seq({u, v})
          /\ <<u, v, w, x, y, z>> \in Seq({u, v, w, x, y, z})
      OBVIOUS
    <2>2. QED
      BY <1>0, <2>1
  <1>2. ASSUME NEW a \in Account
        PROVE  Rest(AccountCalls(a), 0) = AccountCalls(a) /\ Len(AccountCalls(a)) \in Nat
    <2>1. PICK S : AccountCalls(a) \in Seq(S)
      BY AccountFiles
    <2>2. QED
      BY <1>0, <2>1
  <1>3. Rest(<<>>, 0) = <<>>
    <2>1. <<>> \in Seq({})
      OBVIOUS
    <2>2. QED
      BY <1>0, <2>1
  <1>4. ASSUME NEW l
        PROVE  Rest(LayoutCalls(l), 0) = LayoutCalls(l) /\ Len(LayoutCalls(l)) = 2
    BY <1>1 DEF LayoutCalls
  <1>5. Rest(SystemCalls, 0) = SystemCalls /\ Len(SystemCalls) = 6
    BY <1>1 DEF SystemCalls
  <1>6. Rest(CompletionCalls, 0) = CompletionCalls /\ Len(CompletionCalls) = 2
    BY <1>1 DEF CompletionCalls
  <1>7. Rest(MarkCalls, 0) = MarkCalls /\ Len(MarkCalls) = 1
    BY <1>1 DEF MarkCalls
  <1>8. QED
    BY <1>2, <1>3, <1>4, <1>5, <1>6, <1>7

\* A step that leaves the disk alone and starts a stage with all its calls.
LEMMA StageStarts ==
  ASSUME BootInv, UNCHANGED disk, StageOK', Installed', Recorded',
         NEW C, Rest(C, 0) = C, Len(C) \in Nat, CallsOf' = C, todo' = C
  PROVE  BootInv'
  <1>1. \A p : Lines(p)' = Lines(p)
    BY DEF disk, Lines, Exists
  <1>2. FilesOK'
    BY <1>1 DEF BootInv, FilesOK, disk
  <1>3. 0 \in 0 .. Len(CallsOf') /\ todo' = Rest(CallsOf', 0)
    OBVIOUS
  <1>4. Progress'
    BY <1>3 DEF Progress, ProgressAt
  <1>5. QED
    BY <1>2, <1>4 DEF BootInv

\* A step that changes no line of a file and nothing else.
LEMMA NothingChanges ==
  ASSUME BootInv, \A p : Lines(p)' = Lines(p), UNCHANGED <<dirs, pc, todo, who, layout, session>>
  PROVE  BootInv'
  <1>1. CallsOf' = CallsOf /\ (Strict' <=> Strict)
    BY DEF CallsOf, Strict
  <1>2. FilesOK'
    BY DEF BootInv, FilesOK
  <1>3. StageOK'
    BY DEF BootInv, StageOK
  <1>4. Installed'
    BY DEF BootInv, Installed
  <1>5. Recorded'
    BY DEF BootInv, Recorded
  <1>6. PICK k \in 0 .. Len(CallsOf) : ProgressAt(k)
    BY DEF BootInv, Progress
  <1>7. ASSUME Strict, NEW j \in 1 .. k PROVE Done(CallsOf[j])'
    <2>1. PICK c : c = CallsOf[j]
      OBVIOUS
    <2>2. Done(c)
      BY <1>6, <1>7, <2>1 DEF ProgressAt
    <2>3. Done(c)' /\ CallsOf'[j] = c
      BY <1>1, <2>1, <2>2 DEF Done
    <2>4. QED
      BY <2>3 DEF Done
  <1>8. todo' = Rest(CallsOf', k) /\ k \in 0 .. Len(CallsOf')
    BY <1>1, <1>6 DEF ProgressAt
  <1>9. pc' = "user" /\ 0 < k /\ k < Len(CallsOf') => Len(Lines("users")') < Len(Lines("passwd")')
    BY <1>1, <1>6 DEF ProgressAt
  <1>10. Progress'
    BY <1>1, <1>7, <1>8, <1>9 DEF Progress, ProgressAt
  <1>11. QED
    BY <1>2, <1>3, <1>4, <1>5, <1>10 DEF BootInv

\* Nothing runs, or what runs has no call left.
LEMMA NotBusy ==
  ASSUME BootInv, ~Busy
  PROVE  Strict => \A j \in 1 .. Len(CallsOf) : Done(CallsOf[j])
  <1>1. PICK k \in 0 .. Len(CallsOf) : ProgressAt(k)
    BY DEF BootInv, Progress
  <1>2. PICK S : CallsOf \in Seq(S)
    BY CallsOfOK DEF BootInv
  <1>3. k = Len(CallsOf)
    BY <1>1, <1>2, RestFacts DEF Busy, ProgressAt
  <1>4. QED
    BY <1>1, <1>3 DEF ProgressAt

\* Outside the stages of the installer no call is left over.
LEMMA NoStage ==
  ASSUME BootInv, CallsOf = <<>>
  PROVE  todo = <<>>
  <1>1. PICK k \in 0 .. Len(CallsOf) : ProgressAt(k)
    BY DEF BootInv, Progress
  <1>2. k = 0 /\ todo = Rest(<<>>, k)
    BY <1>1 DEF ProgressAt
  <1>3. QED
    BY <1>2, Lists

\* The power goes, or something powers the machine off.
LEMMA OffKeeps ==
  ASSUME BootInv, Off, UNCHANGED <<disk, layout>>
  PROVE  BootInv'
  <1>1. CallsOf' = <<>> /\ todo' = <<>>
    BY DEF Off, CallsOf
  <1>2. StageOK'
    BY DEF Off, StageOK, BootInv, Stage
  <1>3. Installed' /\ Recorded'
    BY DEF Off, Installed, Recorded
  <1>4. QED
    BY <1>1, <1>2, <1>3, StageStarts, Lists

\* kernel_main: what is read back at power on is a layout, and no call is left over.
LEMMA PowerOnKeeps ==
  ASSUME BootInv, PowerOn \/ PowerOnUnmounted
  PROVE  BootInv'
  <1>1. pc = "off" /\ pc' \in {"menu", "login", "session"} /\ UNCHANGED <<disk, todo, who, session>>
    BY DEF PowerOn, PowerOnUnmounted, AfterMenu
  <1>2. layout' \in {"us", "it"}
    <2>1. CASE Lines("keyboard.conf") = <<>> \/ layout' = "us"
      BY <2>1 DEF PowerOn, PowerOnUnmounted
    <2>2. CASE Lines("keyboard.conf") # <<>> /\ layout' # "us"
      <3>1. Lines("keyboard.conf") \in Seq({"us", "it"}) /\ Lines("keyboard.conf") # <<>>
        BY <2>2 DEF BootInv, FilesOK
      <3>2. Lines("keyboard.conf")[1] \in {"us", "it"}
        BY <3>1
      <3>3. layout' = file["keyboard.conf"][1] /\ Lines("keyboard.conf") = file["keyboard.conf"]
        BY <2>2 DEF PowerOn, PowerOnUnmounted, Lines
      <3>4. QED
        BY <3>2, <3>3
    <2>3. QED
      BY <2>1, <2>2
  <1>3. CallsOf = <<>> /\ CallsOf' = <<>>
    BY <1>1 DEF CallsOf
  <1>4. StageOK'
    BY <1>1, <1>2 DEF StageOK, BootInv, Stage
  <1>5. Installed' /\ Recorded'
    BY <1>1 DEF BootInv, Installed, Recorded, disk, Lines, Exists
  <1>6. QED
    BY <1>1, <1>3, <1>4, <1>5, NoStage, StageStarts, Lists

\* first_boot_menu: either choice starts its stage with all the calls of it.
LEMMA MenuKeeps ==
  ASSUME BootInv, (\E l \in {"us", "it"} : Install(l)) \/ ShellOnly
  PROVE  BootInv'
  <1>1. Installed' /\ Recorded'
    BY DEF BootInv, Installed, Recorded, Install, ShellOnly, disk, Lines, Exists
  <1>2. ASSUME NEW l \in {"us", "it"}, Install(l) PROVE BootInv'
    <2>1. CallsOf' = LayoutCalls(l) /\ todo' = LayoutCalls(l)
      BY <1>2 DEF Install, CallsOf
    <2>2. StageOK'
      BY <1>2 DEF Install, StageOK, BootInv, Stage
    <2>3. QED
      BY <1>1, <1>2, <2>1, <2>2, StageStarts, Lists DEF Install
  <1>3. ASSUME ShellOnly PROVE BootInv'
    <2>1. CallsOf' = MarkCalls /\ todo' = MarkCalls
      BY <1>3 DEF ShellOnly, CallsOf
    <2>2. StageOK'
      BY <1>3 DEF ShellOnly, StageOK, BootInv, Stage
    <2>3. QED
      BY <1>1, <1>3, <2>1, <2>2, StageStarts, Lists DEF ShellOnly
  <1>4. QED
    BY <1>2, <1>3

\* installer_run: the account entered is the one whose calls follow.
LEMMA EnterAccountKeeps ==
  ASSUME BootInv, NEW a \in Account, EnterAccount(a)
  PROVE  BootInv'
  <1>1. a # Nobody
    <2>1. a.user \in User /\ Nobody.user = ""
      BY DEF Account, Nobody
    <2>2. "" \notin User
      BY BootAssumption
    <2>3. QED
      BY <2>1, <2>2
  <1>2. CallsOf' = AccountCalls(a) /\ todo' = AccountCalls(a)
    BY <1>1 DEF EnterAccount, CallsOf
  <1>3. StageOK'
    BY DEF EnterAccount, StageOK, BootInv, Stage, disk, Lines, Exists
  <1>4. Installed' /\ Recorded'
    BY DEF BootInv, Installed, Recorded, EnterAccount, disk, Lines, Exists
  <1>5. QED
    BY <1>2, <1>3, <1>4, StageStarts, Lists DEF EnterAccount

\* A stage that has made all its calls; the account's calls are what Installed asks for.
LEMMA StageEndsKeeps ==
  ASSUME BootInv, StageEnds
  PROVE  BootInv'
  <1>1. /\ ~Busy /\ UNCHANGED <<disk, layout>>
        /\ Strict => \A j \in 1 .. Len(CallsOf) : Done(CallsOf[j])
    BY NotBusy DEF StageEnds
  <1>2. /\ \A p : Lines(p)' = Lines(p)
        /\ session' = session => Recorded'
    BY <1>1 DEF BootInv, Recorded, disk, Lines, Exists
  <1>3. CASE pc = "layout"
    <2>1. pc' = "system" /\ todo' = SystemCalls /\ UNCHANGED <<who, session>> /\ who = Nobody
      BY <1>3 DEF StageEnds, BootInv, StageOK
    <2>2. CallsOf' = SystemCalls
      BY <2>1 DEF CallsOf
    <2>3. Lines("keyboard.conf") = <<layout>>
      <3>1. CallsOf = <<Dir(".config"), Config("keyboard.conf", <<layout>>)>>
        BY <1>3 DEF CallsOf, LayoutCalls
      <3>2. Done(Config("keyboard.conf", <<layout>>))
        BY <1>1, <1>3, <3>1 DEF Strict
      <3>3. QED
        BY <3>2 DEF Done, Config
    <2>4. StageOK' /\ Installed'
      BY <1>1, <1>2, <2>1, <2>3 DEF BootInv, StageOK, Installed, Stage
    <2>5. QED
      BY <1>1, <1>2, <2>1, <2>2, <2>4, StageStarts, Lists
  <1>4. CASE pc = "system"
    <2>1. /\ pc' = "user" /\ todo' = todo /\ UNCHANGED <<who, session>> /\ who = Nobody
          /\ Lines("keyboard.conf") = <<layout>>
      BY <1>4 DEF StageEnds, BootInv, StageOK
    <2>2. CallsOf' = <<>> /\ todo' = <<>>
      BY <1>1, <2>1 DEF CallsOf, Busy
    <2>3. StageOK' /\ Installed'
      BY <1>1, <1>2, <2>1 DEF BootInv, StageOK, Installed, Stage
    <2>4. QED
      BY <1>1, <1>2, <2>1, <2>2, <2>3, StageStarts, Lists
  <1>5. CASE pc = "user"
    <2>1. /\ pc' = "complete" /\ todo' = CompletionCalls /\ UNCHANGED <<who, session>>
          /\ who # Nobody /\ who \in Account /\ Lines("keyboard.conf") = <<layout>>
      BY <1>5 DEF StageEnds, BootInv, StageOK
    <2>2. CallsOf' = CompletionCalls /\ CallsOf = AccountCalls(who)
      BY <1>5, <2>1 DEF CallsOf
    <2>3. StageOK'
      BY <1>1, <1>2, <2>1 DEF BootInv, StageOK, Stage
    <2>4. /\ Done(Append1("passwd", who)) /\ Done(Config("sudoers", Rules(who)))
          /\ who.sudoer => Done(Config("sudo-user", <<who.user>>))
          /\ Done(Dir(who.user)) /\ Done(Append1("users", who.user))
      <3> DEFINE P == Append1("passwd", who)
                 Q == Config("sudoers", Rules(who))
                 Z == Config("sudo-user", <<who.user>>)
                 X == Dir(who.user)
                 Y == Append1("users", who.user)
      <3>1. CallsOf = IF who.sudoer THEN <<P, Q, Z, X, Y>> ELSE <<P, Q, X, Y>>
        BY <2>1, <2>2, AccountList
      <3>2. \A j \in 1 .. Len(CallsOf) : Done(CallsOf[j])
        BY <1>1, <1>5 DEF Strict
      <3> HIDE DEF P, Q, Z, X, Y
      <3>3. Done(P) /\ Done(Q) /\ (who.sudoer => Done(Z)) /\ Done(X) /\ Done(Y)
        <4>1. CASE who.sudoer
          BY <3>1, <3>2, <4>1
        <4>2. CASE ~who.sudoer
          BY <3>1, <3>2, <4>2
        <4>3. QED
          BY <4>1, <4>2
      <3>4. QED
        BY <3>3 DEF P, Q, Z, X, Y
    <2>5. /\ Lines("passwd") # <<>> /\ Last(Lines("passwd")) = who
          /\ Lines("sudoers") = Rules(who)
          /\ who.sudoer => Lines("sudo-user") = <<who.user>>
          /\ who.user \in dirs
          /\ Lines("users") # <<>> /\ Last(Lines("users")) = who.user
      BY <2>4 DEF Done, Append1, Config, Dir
    <2>6. Installed'
      BY <1>1, <1>2, <2>1, <2>5 DEF Installed, disk, Rules
    <2>7. QED
      BY <1>1, <1>2, <2>1, <2>2, <2>3, <2>6, StageStarts, Lists
  <1>6. CASE pc = "complete"
    BY <1>1, <1>6, OffKeeps DEF StageEnds
  <1>7. CASE pc = "mark"
    <2>1. /\ pc' \in {"login", "session"} /\ todo' = todo /\ UNCHANGED <<who, session>> /\ who = Nobody
      BY <1>7 DEF StageEnds, BootInv, StageOK, AfterMenu
    <2>2. CallsOf' = <<>> /\ todo' = <<>>
      BY <1>1, <2>1 DEF CallsOf, Busy
    <2>3. StageOK' /\ Installed'
      BY <1>1, <1>2, <2>1 DEF BootInv, StageOK, Installed, Stage
    <2>4. QED
      BY <1>1, <1>2, <2>1, <2>2, <2>3, StageStarts, Lists
  <1>8. QED
    BY <1>3, <1>4, <1>5, <1>6, <1>7 DEF StageEnds

\* The first record that matches, when there is one.
LEMMA FirstHit ==
  ASSUME BootInv, NEW u \in User, NEW p \in Password, Hits(u, p) # {}
  PROVE  LET r == [user |-> u, password |-> p, sudoer |-> SudoerOf(u, p)]
         IN  r \in Account /\ \E i \in DOMAIN Lines("passwd") : r = Lines("passwd")[i]
  <1> DEFINE P == Lines("passwd")
             H == Hits(u, p)
  <1>1. P \in Seq(Account)
    BY DEF BootInv, FilesOK
  <1>2. H = {i \in DOMAIN P : P[i].user = u /\ P[i].password = p} /\ (H # {} => file["passwd"] = P)
    BY DEF Hits, Matches, Lines
  <1>3. H \in SUBSET Nat
    BY <1>1, <1>2
  <1>4. \E i \in H : \A j \in H : i <= j
    BY <1>3, Least
  <1> DEFINE f == CHOOSE i \in H : \A j \in H : i <= j
  <1>5. f \in H
    BY <1>4
  <1>6. SudoerOf(u, p) = P[f].sudoer
    BY <1>2 DEF SudoerOf
  <1> HIDE DEF f, H
  <1>7. f \in DOMAIN P /\ P[f].user = u /\ P[f].password = p
    BY <1>2, <1>5
  <1> HIDE DEF P
  <1>8. P[f] \in Account
    BY <1>1, <1>7
  <1>9. P[f] = [user |-> u, password |-> p, sudoer |-> P[f].sudoer]
    BY <1>7, <1>8 DEF Account
  <1>10. QED
    BY <1>6, <1>7, <1>8, <1>9 DEF P

\* authenticate: the session is what a record says, and nothing on the disk changes.
LEMMA LoginKeeps ==
  ASSUME BootInv, NEW u \in User, NEW p \in Password, Login(u, p)
  PROVE  BootInv'
  <1>1. CASE Hits(u, p) = {}
    BY <1>1, NothingChanges DEF Login, disk, Lines, Exists
  <1>2. CASE Hits(u, p) # {}
    <2> DEFINE r == [user |-> u, password |-> p, sudoer |-> SudoerOf(u, p)]
    <2>1. r \in Account /\ \E i \in DOMAIN Lines("passwd") : r = Lines("passwd")[i]
      BY <1>2, FirstHit
    <2>2. /\ pc = "login" /\ pc' = "session" /\ session' = r /\ UNCHANGED <<disk, todo, who, layout>>
      BY <1>2 DEF Login
    <2> HIDE DEF r
    <2>3. Lines("passwd")' = Lines("passwd")
      BY <2>2 DEF disk, Lines, Exists
    <2>4. Recorded' /\ Installed'
      BY <2>1, <2>2, <2>3 DEF Recorded, Installed
    <2>5. StageOK'
      BY <2>1, <2>2 DEF BootInv, StageOK, Stage
    <2>6. CallsOf = <<>> /\ CallsOf' = <<>>
      BY <2>2 DEF CallsOf
    <2>7. QED
      BY <2>2, <2>4, <2>5, <2>6, NoStage, StageStarts, Lists
  <1>3. QED
    BY <1>1, <1>2

\* Every step keeps the invariant, and what is in the file of the accounts.
LEMMA StepKeeps ==
  ASSUME BootInv, [Next]_vars
  PROVE  BootInv' /\ IsPrefix(Lines("passwd"), Lines("passwd")')
  <1>1. Lines("passwd") \in Seq(Account)
    BY DEF BootInv, FilesOK
  <1>2. IsPrefix(Lines("passwd"), Lines("passwd"))
    BY <1>1, Extended
  <1>3. UNCHANGED disk => Lines("passwd")' = Lines("passwd")
    BY DEF disk, Lines, Exists
  <1>4. ASSUME MakeDirectory \/ WriteFile PROVE BootInv' /\ IsPrefix(Lines("passwd"), Lines("passwd")')
    BY <1>4, MakeDirectoryAdvances, WriteFileAdvances, AdvanceKeeps
  <1>5. ASSUME CreateFile PROVE BootInv' /\ IsPrefix(Lines("passwd"), Lines("passwd")')
    <2>1. \A p : Lines(p)' = Lines(p)
      BY <1>5, CreatedIsEmpty
    <2>2. UNCHANGED <<dirs, pc, todo, who, layout, session>>
      BY <1>5 DEF CreateFile
    <2>3. BootInv'
      BY <2>1, <2>2, NothingChanges
    <2>4. QED
      BY <1>2, <2>1, <2>3
  <1>6. ASSUME CallFails PROVE BootInv' /\ IsPrefix(Lines("passwd"), Lines("passwd")')
    <2>1. CASE GivesUp
      <3>1. Off /\ UNCHANGED <<disk, layout>>
        BY <1>6, <2>1 DEF CallFails
      <3>2. QED
        BY <1>2, <1>3, <3>1, OffKeeps
    <2>2. CASE ~GivesUp
      <3>1. Busy /\ Pop /\ UNCHANGED <<disk, layout, pc, who, session>> /\ ~Strict
        BY <1>6, <2>2 DEF CallFails, GivesUp, Strict
      <3>2. \A p : Lines(p)' = Lines(p)
        BY <3>1 DEF disk, Lines, Exists
      <3>3. Advances
        BY <3>1, <3>2 DEF Advances, disk, BootInv, FilesOK
      <3>4. QED
        BY <3>3, AdvanceKeeps
    <2>3. QED
      BY <2>1, <2>2
  <1>7. ASSUME UNCHANGED vars PROVE BootInv' /\ IsPrefix(Lines("passwd"), Lines("passwd")')
    <2>1. \A p : Lines(p)' = Lines(p)
      BY <1>7 DEF vars, disk, Lines, Exists
    <2>2. BootInv'
      BY <1>7, <2>1, NothingChanges DEF vars, disk
    <2>3. QED
      BY <1>2, <2>1, <2>2
  <1>8. ASSUME \/ PowerOn \/ PowerOnUnmounted \/ PowerLoss
               \/ \E l \in {"us", "it"} : Install(l)
               \/ ShellOnly \/ Leave \/ StageEnds
               \/ \E a \in Account : EnterAccount(a)
               \/ \E u \in User, p \in Password : Login(u, p)
        PROVE  BootInv' /\ IsPrefix(Lines("passwd"), Lines("passwd")')
    <2>1. UNCHANGED disk
      BY <1>8 DEF PowerOn, PowerOnUnmounted, PowerLoss, Install, ShellOnly, Leave, StageEnds,
                  EnterAccount, Login
    <2>2. ASSUME PowerLoss \/ Leave PROVE BootInv'
      BY <2>2, OffKeeps DEF PowerLoss, Leave
    <2>3. BootInv'
      BY <1>8, <2>2, PowerOnKeeps, MenuKeeps, StageEndsKeeps, EnterAccountKeeps, LoginKeeps
    <2>4. QED
      BY <1>2, <1>3, <2>1, <2>3
  <1>9. QED
    BY <1>4, <1>5, <1>6, <1>7, <1>8 DEF Next, Calls

\* A disk that mke2fs made has nothing on it.
LEMMA InitHolds == Init => BootInv
  <1> SUFFICES ASSUME Init PROVE BootInv
    OBVIOUS
  <1>1. \A p : Lines(p) = <<>>
    BY DEF Init, Lines, Exists
  <1>2. <<>> \in Seq(Account) /\ <<>> \in Seq(User) /\ <<>> \in Seq({"us", "it"}) /\ Len(<<>>) = 0
    OBVIOUS
  <1>3. FilesOK
    <2>1. Records \in Nat /\ dirs = {"/"}
      BY BootAssumption DEF Init
    <2>2. Len(<<>>) <= Records
      BY <1>2, <2>1
    <2>3. dirs \subseteq User \cup {"/", "etc", "home", ".config"}
      BY <2>1
    <2> DEFINE e == <<>>
    <2>4. /\ e \in Seq(Account) /\ e \in Seq(User) /\ e \in Seq({"us", "it"}) /\ Len(e) = 0
          /\ Len(e) <= Records /\ \A p : Lines(p) = e
      BY <1>1, <1>2, <2>2
    <2> HIDE DEF e
    <2>5. /\ Lines("passwd") = e /\ Lines("users") = e /\ Lines("sudo-user") = e
          /\ Lines("keyboard.conf") = e /\ 0 <= 0 /\ 0 <= 1
      BY <2>4
    <2>6. /\ Len(Lines("users")) <= Len(Lines("passwd")) /\ Len(Lines("sudo-user")) <= 1
          /\ Len(Lines("passwd")) <= Records
      BY <2>4, <2>5
    <2>7. QED
      BY <2>3, <2>4, <2>5, <2>6 DEF FilesOK
  <1>4. StageOK /\ Installed /\ Recorded
    BY DEF Init, StageOK, Installed, Recorded, Stage
  <1>5. CallsOf = <<>> /\ ~Strict /\ todo = <<>>
    BY DEF Init, CallsOf, Strict
  <1>6. ProgressAt(0) /\ 0 \in 0 .. Len(CallsOf)
    BY <1>5, Lists DEF ProgressAt, Init
  <1>7. QED
    BY <1>3, <1>4, <1>6 DEF BootInv, Progress

\* The inductive invariant: how far the installer is, and what it left on the disk.
THEOREM BootInvariant == Spec => []BootInv
  <1>1. Init => BootInv
    BY InitHolds
  <1>2. BootInv /\ [Next]_vars => BootInv'
    BY StepKeeps
  <1>3. QED
    BY <1>1, <1>2, PTL DEF Spec

\* installer_run and write_auth_record: whatever the disk held, every stage works on what it
\* should, the records of the accounts fit their array and no name is listed without one.
THEOREM TypesHold == Spec => []TypeOK
  <1>1. BootInv => TypeOK
    <2> SUFFICES ASSUME BootInv PROVE TypeOK
      OBVIOUS
    <2>1. FilesOK /\ StageOK
      BY DEF BootInv
    <2>2. Busy => pc \in {"layout", "system", "user", "complete", "mark"}
      BY NoStage, CallsOfOK DEF BootInv, Busy
    <2>3. \A i \in DOMAIN Lines("passwd") : file["passwd"][i] \in Account
      BY <2>1 DEF FilesOK, Lines
    <2>4. \A i \in DOMAIN Lines("users") : file["users"][i] \in User
      BY <2>1 DEF FilesOK, Lines
    <2>5. QED
      BY <2>1, <2>2, <2>3, <2>4 DEF TypeOK, FilesOK, StageOK
  <1>2. QED
    BY <1>1, BootInvariant, PTL

\* installer_run: an installation that is about to be marked complete is whole, whatever
\* errors and power losses earlier attempts met.
THEOREM InstallationsAreWhole == Spec => []InstalledIsWhole
  <1>1. BootInv => InstalledIsWhole
    <2> SUFFICES ASSUME BootInv, pc = "complete" PROVE InstalledIsWhole
      BY DEF InstalledIsWhole
    <2>1. /\ Lines("passwd") # <<>> /\ Last(Lines("passwd")) = who
          /\ Lines("sudoers") = Rules(who)
          /\ who.sudoer => Lines("sudo-user") = <<who.user>>
          /\ who.user \in dirs
          /\ Lines("users") # <<>> /\ Last(Lines("users")) = who.user
      BY DEF BootInv, Installed
    <2>2. Lines("passwd") \in Seq(Account) /\ Lines("keyboard.conf") = <<layout>>
      BY DEF BootInv, FilesOK, StageOK
    <2>3. Lines("passwd") = file["passwd"] /\ Lines("users") = file["users"]
      BY <2>1 DEF Lines
    <2>4. Len(Lines("passwd")) \in DOMAIN Lines("passwd") /\ Lines("passwd")[Len(Lines("passwd"))] = who
      BY <2>1, <2>2 DEF Last
    <2>5. Hits(who.user, who.password) # {}
      BY <2>3, <2>4 DEF Hits, Matches
    <2>6. QED
      BY <2>1, <2>2, <2>3, <2>5 DEF InstalledIsWhole
  <1>2. QED
    BY <1>1, BootInvariant, PTL

\* authenticate: whoever is logged in has the name, password and flag of one record.
THEOREM SessionsAreRecorded == Spec => []SessionIsRecorded
  <1>1. BootInv => SessionIsRecorded
    <2> SUFFICES ASSUME BootInv, session # Nobody PROVE SessionIsRecorded
      BY DEF SessionIsRecorded
    <2>1. PICK i \in DOMAIN Lines("passwd") : session = Lines("passwd")[i]
      BY DEF BootInv, Recorded
    <2>2. Lines("passwd")[i] = file["passwd"][i]
      BY <2>1 DEF Lines
    <2>3. QED
      BY <2>1, <2>2 DEF SessionIsRecorded
  <1>2. QED
    BY <1>1, BootInvariant, PTL

\* write_auth_record: no attempt, error or power loss takes an account away.
THEOREM RecordsAreKept == Spec => RecordsOnlyGrow
  <1>1. BootInv /\ [Next]_vars => [IsPrefix(Lines("passwd"), Lines("passwd")')]_vars
    BY StepKeeps
  <1>2. QED
    BY <1>1, BootInvariant, PTL DEF Spec, RecordsOnlyGrow
================================================================================
