-------------------------------- MODULE FileTable --------------------------------
(***************************************************************************)
(* Descriptors, file structures and the references between them (FIO.C,    *)
(* SYS2.C, and what fork, exit, dup, pipe and chdir do to them).  A call   *)
(* that looks a name up holds a reference to the inode and may sleep       *)
(* before it goes on; so may the iput of a last close.  What is in the     *)
(* file is left out, the offset is kept, in two words.                     *)
(***************************************************************************)
EXTENDS Integers, FiniteSets

CONSTANTS
    Proc,      \* processes
    Inode,     \* ordinary and special files
    Device,    \* the special files
    Dead,      \* special files without a driver
    NFILE,     \* file structures
    NOFILE,    \* descriptors of a process
    WORD,      \* what a word counts to: 2^16
    BLOCK,     \* bytes of a block: 512
    Args,      \* what seek is called with
    Size,      \* what a file holds, for seeks relative to its end
    MaxCalls   \* bound: calls that take or move a file structure

VARIABLES
    ofile,     \* u_ofile: descriptor -> file structure or 0
    file,      \* file structures: f_count, f_flag, f_inode, f_offset
    icount,    \* i_count of each inode
    open,      \* devices whose handler was called and not yet told to close
    cdir,      \* u_cdir
    at,        \* where a process is in a call that slept
    alive, calls,
    meant      \* for the properties: the offset the calls on it add up to

vars == <<ofile, file, icount, open, cdir, at, alive, calls, meant>>

----
Pipe == "pipe"
Dir == "dir"
Words == 0..WORD - 1
FileAssumption ==
    /\ Proc # {} /\ IsFiniteSet(Proc) /\ Device \subseteq Inode /\ Dead \subseteq Device /\ {Pipe, Dir} \cap Inode = {}
    /\ {NFILE, NOFILE, MaxCalls} \subseteq Nat /\ {WORD, BLOCK} \subseteq Nat \ {0} /\ WORD % BLOCK = 0 /\ WORD % 2 = 0
    /\ Args \subseteq Words /\ Size \in Words \X Words

Idle == [step |-> "user", inode |-> Dir]
Unused == [count |-> 0, flag |-> {}, inode |-> Dir, offset |-> <<0, 0>>]
Slots == 1..NFILE
Descriptors(p) == {d \in 0..NOFILE - 1 : ofile[p][d] # 0}

Init ==
    /\ ofile = [p \in Proc |-> [d \in 0..NOFILE - 1 |-> 0]]
    /\ file = [s \in Slots |-> Unused]
    /\ alive = {CHOOSE p \in Proc : TRUE}
    /\ icount = [i \in Inode \cup {Pipe, Dir} |-> IF i = Dir THEN 1 ELSE 0]
    /\ open = {}
    /\ cdir = [p \in Proc |-> Dir]
    /\ at = [p \in Proc |-> Idle]
    /\ calls = 0
    /\ meant = [s \in Slots |-> 0]

Enters(p) == p \in alive /\ at[p] = Idle /\ calls < MaxCalls /\ calls' = calls + 1
Least(S) == CHOOSE x \in S : \A y \in S : x <= y
FreeDescriptors(p) == 0..NOFILE - 1 \ Descriptors(p)
FreeSlots == {s \in Slots : file[s].count = 0}
ufalloc(p) == Least(FreeDescriptors(p))
CanAlloc(p) == FreeDescriptors(p) # {} /\ FreeSlots # {}

(* A name is looked up: the inode is held, and its lock may be waited for. *)
Namei(p, step, i) ==
    /\ Enters(p)
    /\ at' = [at EXCEPT ![p] = [step |-> step, inode |-> i]]
    /\ icount' = [icount EXCEPT ![i] = @ + 1]
    /\ UNCHANGED <<ofile, file, open, cdir, alive, meant>>
StartOpen(p) == \E i \in Inode : Namei(p, "open", i)
StartChdir(p) == \E i \in Inode \cup {Dir} : Namei(p, "chdir", i)

(* open1 after its checks and prele: none of the rest sleeps.              *)
Refuse(p) ==
    /\ at[p].step \in {"open", "chdir"}
    /\ icount' = [icount EXCEPT ![at[p].inode] = @ - 1]
    /\ at' = [at EXCEPT ![p] = Idle]
    /\ UNCHANGED <<ofile, file, open, cdir, alive, calls, meant>>
open1(p, flag) ==
    LET s == Least(FreeSlots)
        i == at[p].inode
    IN  /\ at[p].step = "open" /\ CanAlloc(p) /\ i \notin Dead
        /\ ofile' = [ofile EXCEPT ![p][ufalloc(p)] = s]
        /\ file' = [file EXCEPT ![s] = [count |-> 1, flag |-> flag, inode |-> i, offset |-> <<0, 0>>]]
        /\ meant' = [meant EXCEPT ![s] = 0]
        /\ open' = open \cup ({i} \cap Device)
        /\ at' = [at EXCEPT ![p] = Idle]
        /\ UNCHANGED <<icount, cdir, alive, calls>>
(* The table is full, or the driver is missing and everything is undone:   *)
(* the offset and the inode stay in the file structure.                    *)
OpenFails(p) ==
    LET s == Least(FreeSlots)
    IN  /\ at[p].step = "open"
        /\ ~CanAlloc(p) \/ at[p].inode \in Dead
        /\ file' = IF CanAlloc(p) THEN [file EXCEPT ![s] = [Unused EXCEPT !.inode = at[p].inode]] ELSE file
        /\ icount' = [icount EXCEPT ![at[p].inode] = @ - 1]
        /\ at' = [at EXCEPT ![p] = Idle]
        /\ UNCHANGED <<ofile, open, cdir, alive, calls, meant>>

(* pipe takes two file structures or, having taken one, gives it back.     *)
PipeEnd(flag) == [count |-> 1, flag |-> flag, inode |-> Pipe, offset |-> <<0, 0>>]
pipe(p) ==
    LET r == Least(FreeSlots)
        w == Least(FreeSlots \ {r})
        d == ufalloc(p)
        e == Least(FreeDescriptors(p) \ {d})
    IN  /\ icount[Pipe] = 0
        /\ Enters(p)
        /\ IF Cardinality(FreeDescriptors(p)) >= 2 /\ Cardinality(FreeSlots) >= 2
           THEN /\ ofile' = [ofile EXCEPT ![p][d] = r, ![p][e] = w]
                /\ file' = [file EXCEPT ![r] = PipeEnd({"read"}), ![w] = PipeEnd({"write"})]
                /\ icount' = [icount EXCEPT ![Pipe] = 2]
                /\ meant' = [meant EXCEPT ![r] = 0, ![w] = 0]
           ELSE UNCHANGED <<ofile, file, icount, meant>>
        /\ UNCHANGED <<open, cdir, at, alive>>

dup(p, d) ==
    /\ ofile[p][d] # 0
    /\ Enters(p)
    /\ IF FreeDescriptors(p) = {} THEN UNCHANGED <<ofile, file>>
       ELSE /\ ofile' = [ofile EXCEPT ![p][ufalloc(p)] = ofile[p][d]]
            /\ file' = [file EXCEPT ![ofile[p][d]].count = @ + 1]
    /\ UNCHANGED <<icount, open, cdir, at, alive, meant>>

Holders(p, s) == Cardinality({d \in Descriptors(p) : ofile[p][d] = s})
fork(p, q) ==
    /\ q \notin alive
    /\ Enters(p)
    /\ alive' = alive \cup {q}
    /\ ofile' = [ofile EXCEPT ![q] = ofile[p]]
    /\ file' = [s \in Slots |-> [file[s] EXCEPT !.count = @ + Holders(p, s)]]
    /\ cdir' = [cdir EXCEPT ![q] = cdir[p]]
    /\ icount' = [icount EXCEPT ![cdir[p]] = @ + 1]
    /\ UNCHANGED <<open, at, meant>>

----
(* A slip: the driver is told at the last use of each structure.          *)
ToldAlways(i) == open \ {i}
(* closef: the last reference tells the driver and puts the inode, asleep, *)
(* before the count of the file structure comes down.                      *)
LastUse(s) == file[s].count <= 1
Told(i) == IF icount[i] <= 1 THEN open \ {i} ELSE open
Drop(p, d, next) ==
    LET s == ofile[p][d]
        i == file[s].inode
    IN  /\ ofile' = [ofile EXCEPT ![p][d] = 0]
        /\ IF LastUse(s)
           THEN /\ open' = Told(i)
                /\ at' = [at EXCEPT ![p] = [step |-> next, inode |-> i, slot |-> s]]
                /\ UNCHANGED file
           ELSE /\ file' = [file EXCEPT ![s].count = @ - 1]
                /\ at' = [at EXCEPT ![p] = IF next = "exiting" THEN [step |-> "exit", inode |-> Dir] ELSE Idle]
                /\ UNCHANGED open
        /\ UNCHANGED <<icount, cdir, alive, meant>>
close(p, d) ==
    /\ p \in alive /\ at[p] = Idle /\ ofile[p][d] # 0
    /\ Drop(p, d, "closing")
    /\ UNCHANGED calls
Iput(p) ==
    /\ at[p].step \in {"closing", "exiting"}
    /\ icount' = [icount EXCEPT ![at[p].inode] = @ - 1]
    /\ file' = [file EXCEPT ![at[p].slot].count = @ - 1]
    /\ at' = [at EXCEPT ![p] = IF at[p].step = "exiting" THEN [step |-> "exit", inode |-> Dir] ELSE Idle]
    /\ UNCHANGED <<ofile, open, cdir, alive, calls, meant>>
chdir(p) ==
    /\ at[p].step = "chdir"
    /\ cdir' = [cdir EXCEPT ![p] = at[p].inode]
    /\ at[p].inode = Dir
    /\ icount' = [icount EXCEPT ![cdir[p]] = @ - 1]
    /\ at' = [at EXCEPT ![p] = Idle]
    /\ UNCHANGED <<ofile, file, open, alive, calls, meant>>
exit(p) ==
    /\ p \in alive /\ at[p] = Idle
    /\ Cardinality(alive) > 1
    /\ at' = [at EXCEPT ![p] = [step |-> "exit", inode |-> Dir]]
    /\ UNCHANGED <<ofile, file, icount, open, cdir, alive, calls, meant>>
ExitCloses(p) ==
    /\ at[p].step = "exit" /\ Descriptors(p) # {}
    /\ Drop(p, Least(Descriptors(p)), "exiting")
    /\ UNCHANGED calls
ExitEnds(p) ==
    /\ at[p].step = "exit" /\ Descriptors(p) = {}
    /\ alive' = alive \ {p}
    /\ at' = [at EXCEPT ![p] = Idle]
    /\ icount' = [icount EXCEPT ![cdir[p]] = @ - 1]
    /\ UNCHANGED <<ofile, file, open, cdir, calls, meant>>

----
(* Two-word arithmetic: the value of a pair of words, and dpadd.           *)
Value(n) == n[1] * WORD + n[2]
dpadd(n, y) == LET low == n[2] + y IN <<(n[1] + low \div WORD) % WORD, low % WORD>>
Negative(x) == x >= WORD \div 2
Signed(x) == IF Negative(x) THEN x - WORD ELSE x

SeekTo(arg, t) ==
    IF t > 2
    THEN LET high == arg \div (WORD \div BLOCK)
         IN  <<IF t = 3 \/ ~Negative(arg) THEN high ELSE high + WORD - BLOCK, (arg * BLOCK) % WORD>>
    ELSE <<IF t # 0 /\ Negative(arg) THEN WORD - 1 ELSE 0, arg>>
Base(f, t) == CASE t \in {1, 4} -> f.offset [] t \in {2, 5} -> Size [] OTHER -> <<0, 0>>
seek(p, d, arg, t) ==
    LET s == ofile[p][d]
        n == SeekTo(arg, t)
        b == Base(file[s], t)
        far == IF t > 2 THEN BLOCK ELSE 1
        way == IF t \in {0, 3} THEN arg ELSE Signed(arg)
    IN  /\ ofile[p][d] # 0 /\ file[s].inode # Pipe
        /\ Enters(p)
        /\ file' = [file EXCEPT ![s].offset = dpadd(<<(n[1] + b[1]) % WORD, n[2]>>, b[2])]
        /\ meant' = [meant EXCEPT ![s] =
             ((CASE t \in {1, 4} -> meant[s] [] t \in {2, 5} -> Value(Size) [] OTHER -> 0) + way * far) % (WORD * WORD)]
        /\ UNCHANGED <<ofile, icount, open, cdir, at, alive>>

(* rdwr: the transfer sleeps, and only then the offset moves by what was   *)
(* transferred.                                                            *)
rdwr(p, d, mode) ==
    /\ ofile[p][d] # 0
    /\ mode \in file[ofile[p][d]].flag /\ file[ofile[p][d]].inode # Pipe
    /\ Enters(p)
    /\ at' = [at EXCEPT ![p] = [step |-> "transfer", inode |-> Dir, slot |-> ofile[p][d]]]
    /\ UNCHANGED <<ofile, file, icount, open, cdir, alive, meant>>
Transferred(p, n) ==
    /\ at[p].step = "transfer"
    /\ file' = [file EXCEPT ![at[p].slot].offset = dpadd(@, n)]
    /\ meant' = [meant EXCEPT ![at[p].slot] = (@ + n) % (WORD * WORD)]
    /\ at' = [at EXCEPT ![p] = Idle]
    /\ UNCHANGED <<ofile, icount, open, cdir, alive, calls>>

Next == \E p \in Proc :
    \/ StartOpen(p) \/ StartChdir(p) \/ Refuse(p) \/ OpenFails(p) \/ pipe(p) \/ chdir(p)
    \/ \E flag \in {{"read"}, {"write"}, {"read", "write"}} : open1(p, flag)
    \/ \E q \in Proc : fork(p, q)
    \/ exit(p) \/ ExitCloses(p) \/ ExitEnds(p) \/ Iput(p)
    \/ \E d \in 0..NOFILE - 1 :
         \/ dup(p, d) \/ close(p, d)
         \/ \E arg \in Args, t \in 0..5 : seek(p, d, arg, t)
         \/ \E mode \in {"read", "write"} : rdwr(p, d, mode)
    \/ \E n \in Args : Transferred(p, n)
Spec == Init /\ [][Next]_vars

----
(* Who refers to a file structure: descriptors, and a last close that has  *)
(* not yet let go; and to an inode: structures, searches, directories.     *)
Letting(r, s)   == r.step \in {"closing", "exiting"} /\ r.slot = s
Searching(r, i) == r.step \in {"open", "chdir"} /\ r.inode = i
Holds(s)    == {h \in Proc \X (0..NOFILE - 1) : ofile[h[1]][h[2]] = s}
Lasts(s)    == {p \in Proc : Letting(at[p], s)}
Opens(i)    == {s \in Slots : file[s].count > 0 /\ file[s].inode = i}
Searches(i) == {p \in Proc : Searching(at[p], i)}
Homes(i)    == {p \in alive : cdir[p] = i}
Users(s)      == Cardinality(Holds(s)) + Cardinality(Lasts(s))
References(i) == Cardinality(Opens(i)) + Cardinality(Searches(i)) + Cardinality(Homes(i))

(* Whatever fails half way, each file structure counts the descriptors     *)
(* that name it and each inode the structures, searches and directories    *)
(* that hold it; a driver is told to close only when no structure is left  *)
(* ("only on the last close"); and an offset is the sum of what moved it,  *)
(* in two words, with the sign of the seek's argument.                     *)
Counted ==
    /\ \A s \in Slots : file[s].count = Users(s)
    /\ \A i \in Inode \cup {Pipe, Dir} : icount[i] = References(i)
    /\ \A s \in Slots : Users(s) > 0 /\ file[s].inode \in Device =>
            file[s].inode \in open \/ Lasts(s) # {}
    /\ \A s \in Slots : file[s].count > 0 => Value(file[s].offset) = meant[s]
====
