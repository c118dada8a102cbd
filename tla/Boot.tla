---------------------------------- MODULE Boot ----------------------------------
(***************************************************************************)
(* From power on to a session: kernel_main, the first boot menu, the       *)
(* installer and the login.  The installer is a list of calls on the file  *)
(* system, each of at most two operations of ext2 (create, write); the     *)
(* power may go away between any two, and every operation may fail.  What  *)
(* was written stays, and the next power on finds it.  An operation itself *)
(* is atomic, as FileTree says of Ext2.                                    *)
(***************************************************************************)
EXTENDS Integers, SequencesExt

CONSTANTS
  User, Password,  \* what can be entered for an account
  NameLen,         \* the length of each user's name
  Records          \* account records that fit AUTH_RECORD_SIZE

ASSUME BootAssumption ==
  /\ NameLen \in [User -> Nat \ {0}] /\ Records \in Nat \ {0}
  /\ User \cap {"", "root", ".config", "etc", "home"} = {}

VARIABLES
  file,     \* on disk: path -> lines of the file
  dirs,     \* on disk: the directories
  pc, todo, \* the stage of the boot, and the calls it has left
  who,      \* the account the installer was given
  layout,   \* of the keyboard driver
  session   \* who is logged in

disk == <<file, dirs>>
vars == <<disk, pc, todo, who, layout, session>>

Account == [user : User, password : Password, sudoer : BOOLEAN]
Nobody == [user |-> "", password |-> "", sudoer |-> FALSE]
Exists(p) == p \in DOMAIN file
Lines(p) == IF Exists(p) THEN file[p] ELSE <<>>

-----------------------------------------------------------------------------
(* The calls of the installer.                                             *)

Dir(p) == [call |-> "directory", path |-> p, lines |-> <<>>]
Config(p, lines) == [call |-> "config", path |-> p, lines |-> lines]
New(p) == [call |-> "new", path |-> p, lines |-> <<>>]
Append1(p, line) == [call |-> "append", path |-> p, lines |-> <<line>>]

Rules(a) == IF a.sudoer THEN <<"root", a.user>> ELSE <<"root">>

LayoutCalls(l) == <<Dir(".config"), Config("keyboard.conf", <<l>>)>>

\* Eighteen directories, of which later calls need three; fstab is written with length 0.
SystemCalls ==
  <<Dir("etc"), Dir("home"), Dir(".config"),
    Config("system.conf", <<"ext2">>), Config("disk.conf", <<"ext2">>), New("fstab")>>

AccountCalls(a) ==
  <<Append1("passwd", a), Config("sudoers", Rules(a))>>
  \o (IF a.sudoer THEN <<Config("sudo-user", <<a.user>>)>> ELSE <<>>)
  \o <<Dir(a.user), Append1("users", a.user)>>

CompletionCalls == <<Config("installed", <<"yes">>), Config(".piux-first-boot", <<"1">>)>>
MarkCalls == <<Config(".piux-first-boot", <<"1">>)>>

-----------------------------------------------------------------------------
(* What one call does to the disk.                                         *)

Parent(p) ==
  CASE p = "fstab" -> "etc"
    [] p \in User -> "home"
    [] p \in {".piux-first-boot", "etc", "home", ".config"} -> "/"
    [] OTHER -> ".config"

\* The two files that end in the name of a user and are written anew.
NameAtEnd(p, lines) ==
  IF p \in {"sudoers", "sudo-user"} /\ lines # <<>> /\ Last(lines) \in User
    THEN NameLen[Last(lines)] ELSE 0
Size(p, lines) == Len(lines) + NameAtEnd(p, lines)

\* A slip: the record of an account in place of those before it.
ContentOverwrites(c) == c.lines

\* append_config_line and write_auth_record read the file and write it back longer.
Content(c) == IF c.call = "append" THEN Lines(c.path) \o c.lines ELSE c.lines

\* A slip: no bound on the records.
FitsAny(c) == Size(c.path, Content(c)) >= Size(c.path, Lines(c.path))

\* ext2_write_file makes no file shorter; the array of write_auth_record bounds the records.
Fits(c) ==
  /\ Size(c.path, Content(c)) >= Size(c.path, Lines(c.path))
  /\ c.path = "passwd" => Len(Content(c)) <= Records

Current == Head(todo)
Busy == todo # <<>>
Pop == todo' = Tail(todo)

MakeDirectory ==
  /\ Busy /\ Current.call = "directory"
  /\ Parent(Current.path) \in dirs
  /\ dirs' = dirs \cup {Current.path}
  /\ Pop
  /\ UNCHANGED <<file, pc, who, layout, session>>

CreateFile ==
  /\ Busy /\ Current.call # "directory" /\ ~Exists(Current.path)
  /\ Parent(Current.path) \in dirs
  /\ file' = [p \in DOMAIN file \cup {Current.path} |-> Lines(p)]
  /\ UNCHANGED <<dirs, pc, todo, who, layout, session>>

\* fstab, when it is there, is left alone; written, it stays empty.
WriteFile ==
  /\ Busy /\ Current.call # "directory" /\ Exists(Current.path)
  /\ Fits(Current)
  /\ file' = IF Current.call = "new" THEN file ELSE [file EXCEPT ![Current.path] = Content(Current)]
  /\ Pop
  /\ UNCHANGED <<dirs, pc, who, layout, session>>

Off == pc' = "off" /\ todo' = <<>> /\ who' = Nobody /\ session' = Nobody

\* A slip: an error does not end the installation.
GivesUpNever == FALSE

\* Every stage but the last gives up on an error; first_boot_menu then powers off.
GivesUp == pc \notin {"complete", "mark"}

CallFails ==
  /\ Busy
  /\ IF GivesUp THEN Off ELSE Pop /\ UNCHANGED <<pc, who, session>>
  /\ UNCHANGED <<disk, layout>>

-----------------------------------------------------------------------------
(* The stages.                                                             *)

AfterMenu == IF Exists("passwd") THEN "login" ELSE "session"

\* keyboard_load_layout_from_config, then first_boot_menu and the test for accounts.
PowerOn ==
  /\ pc = "off"
  /\ layout' = IF Lines("keyboard.conf") = <<>> THEN "us" ELSE file["keyboard.conf"][1]
  /\ pc' = IF Exists(".piux-first-boot") THEN AfterMenu ELSE "menu"
  /\ UNCHANGED <<disk, todo, who, session>>

\* A disk that cannot be mounted has no marker, no layout and no accounts.
PowerOnUnmounted ==
  /\ pc = "off"
  /\ layout' = "us" /\ pc' = "session"
  /\ UNCHANGED <<disk, todo, who, session>>

\* keyboard_set_layout comes before the layout is saved.
Install(l) ==
  /\ pc = "menu"
  /\ pc' = "layout" /\ layout' = l /\ todo' = LayoutCalls(l)
  /\ UNCHANGED <<disk, who, session>>

ShellOnly ==
  /\ pc = "menu"
  /\ pc' = "mark" /\ todo' = MarkCalls
  /\ UNCHANGED <<disk, who, layout, session>>

\* Shutdown in the menu, escape in the layouts, a name or a password that is refused.
Leave ==
  /\ pc = "menu" \/ (pc = "user" /\ ~Busy)
  /\ Off
  /\ UNCHANGED <<disk, layout>>

EnterAccount(a) ==
  /\ pc = "user" /\ ~Busy /\ who = Nobody
  /\ who' = a /\ todo' = AccountCalls(a)
  /\ UNCHANGED <<disk, pc, layout, session>>

StageEnds ==
  /\ ~Busy
  /\ \/ pc = "layout" /\ pc' = "system" /\ todo' = SystemCalls /\ UNCHANGED <<who, session>>
     \/ pc = "system" /\ pc' = "user" /\ UNCHANGED <<todo, who, session>>
     \/ /\ pc = "user" /\ who # Nobody
        /\ pc' = "complete" /\ todo' = CompletionCalls /\ UNCHANGED <<who, session>>
     \/ pc = "complete" /\ Off  \* reboot_system
     \/ pc = "mark" /\ pc' = AfterMenu /\ UNCHANGED <<todo, who, session>>
  /\ UNCHANGED <<disk, layout>>

Matches(r, u, p) == r.user = u /\ r.password = p
Hits(u, p) == {i \in DOMAIN Lines("passwd") : Matches(file["passwd"][i], u, p)}

\* A slip: the flag of the last record that was scanned.
SudoerOfLast(u, p) == Last(file["passwd"]).sudoer

\* The first record that matches is the one whose flag counts.
SudoerOf(u, p) ==
  file["passwd"][CHOOSE i \in Hits(u, p) : \A j \in Hits(u, p) : i <= j].sudoer

Login(u, p) ==
  /\ pc = "login"
  /\ IF Hits(u, p) = {} THEN UNCHANGED <<pc, session>>
     ELSE /\ pc' = "session"
          /\ session' = [user |-> u, password |-> p, sudoer |-> SudoerOf(u, p)]
  /\ UNCHANGED <<disk, todo, who, layout>>

\* Also what reboot and shutdown come to.
PowerLoss ==
  /\ pc # "off"
  /\ Off
  /\ UNCHANGED <<disk, layout>>

-----------------------------------------------------------------------------
\* A disk that mke2fs made.
Init ==
  /\ file = [p \in {} |-> <<>>] /\ dirs = {"/"}
  /\ pc = "off" /\ todo = <<>> /\ who = Nobody /\ layout = "us" /\ session = Nobody

Calls == MakeDirectory \/ CreateFile \/ WriteFile \/ CallFails

Next ==
  \/ PowerOn \/ PowerOnUnmounted \/ PowerLoss
  \/ \E l \in {"us", "it"} : Install(l)
  \/ ShellOnly \/ Leave \/ StageEnds \/ Calls
  \/ \E a \in Account : EnterAccount(a)
  \/ \E u \in User, p \in Password : Login(u, p)

Spec == Init /\ [][Next]_vars
-----------------------------------------------------------------------------
(* What has to hold.                                                       *)

Stage == {"off", "menu", "layout", "system", "user", "complete", "mark", "login", "session"}

\* Every stage works on what it should, and the files hold lines of their kind: accounts in
\* passwd, never more than its array has room for, users in users and one name in sudo-user.
TypeOK ==
  /\ pc \in Stage /\ layout \in {"us", "it"}
  /\ who \in Account \cup {Nobody} /\ session \in Account \cup {Nobody}
  /\ Busy => pc \in {"layout", "system", "user", "complete", "mark"}
  /\ dirs \subseteq User \cup {"/", "etc", "home", ".config"}
  /\ Len(Lines("passwd")) <= Records /\ \A i \in DOMAIN Lines("passwd") : file["passwd"][i] \in Account
  /\ \A i \in DOMAIN Lines("users") : file["users"][i] \in User
  /\ Len(Lines("users")) <= Len(Lines("passwd"))
  /\ Len(Lines("sudo-user")) <= 1

\* installer_run: when the installation is about to be marked complete, whatever earlier
\* attempts left behind, every file speaks of the account just entered, which can log in.
InstalledIsWhole ==
  pc = "complete" =>
    /\ Hits(who.user, who.password) # {} /\ Last(file["passwd"]) = who
    /\ Lines("sudoers") = Rules(who)
    /\ who.sudoer => Lines("sudo-user") = <<who.user>>
    /\ who.user \in dirs /\ Last(file["users"]) = who.user
    /\ Lines("keyboard.conf") = <<layout>>

\* write_auth_record: no attempt, error or power loss takes an account away.
RecordsOnlyGrow == [][IsPrefix(Lines("passwd"), Lines("passwd")')]_vars

\* authenticate: a session has the name, the password and the sudo flag of one record.
SessionIsRecorded ==
  session # Nobody => session \in {file["passwd"][i] : i \in DOMAIN Lines("passwd")}
=============================================================================
