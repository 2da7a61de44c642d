---------------------------- MODULE ProcSwapProofs ----------------------------
(***************************************************************************)
(* The inductive invariant IInv of processes and swapping, for any number  *)
(* of processes, texts, pages and sectors.  ProcSwapInv's properties say   *)
(* who owns what; LocalOK to ExecOK say what each program point knows of   *)
(* the slot, the lock, the swapper and the text it works on.  Every action *)
(* has a lemma <Action>Keeps: what it does to the registers and the slot,  *)
(* then one step per part of IInv it can disturb.  The lemmas StepKeeps,   *)
(* StandKeeps, NoticedKeeps and SwapperKeeps carry the parts it cannot.    *)
(* fault # "none" stands for the four races the code does not survive and  *)
(* the panics it means: IInv says nothing past one.                        *)
(***************************************************************************)
EXTENDS ProcSwapInv, ChainLemmas

(* What a process's slot and registers say where it is.                    *)
StatusOK(p, r, v) ==
    /\ r.stat = "none" => r = Free /\ v = Home
    /\ v.pc = "user" => v = Home
    /\ r.stat \in {"zombie", "idle"} => v.pc = "user" /\ r.chan = "none"
    /\ r.stat = "zombie" => r.text = 0
    /\ r.stat = "idle" => r.load
    /\ r.stat = "sleep" <=> r.chan \in {"io", "swapmap"}
    /\ r.stat = "wait" <=> r.chan \in {"child", "tty"}
    /\ r.chan = "swapmap" => v.pc = "getswap"
    /\ r.chan = "child" => v.pc = "wait"
    /\ r.chan = "tty" => v.pc = "user"
    /\ p = 1 => r.stat \notin {"none", "zombie"} /\ v.pc \notin {"save", "die"}

Saving(v)  == v.pc \in {"getswap", "writing", "back"}
Growing(v) == v.pc = "claim" \/ (v.for = "text" /\ Saving(v))
Valve(v)   == v.for = "valve" /\ Saving(v)
PurposeOK(r, v) ==
    /\ v.pc \in {"getswap", "writing"} => v.for # "none"
    /\ v.for = "image" => v.pc \in {"getswap", "writing"} /\ r.load
    /\ v.for = "valve" => Saving(v) \/ v.pc \in {"commit", "committed"}
    /\ v.for = "text" => Saving(v) \/ v.pc \in {"claim", "load", "proto", "commit", "committed"}
    /\ v.pc = "back" => v.for \in {"text", "valve"}

AttachOK(r, v) ==
    /\ v.pc = "reload" \/ Valve(v) => v.xp # 0 /\ r.text = v.xp
    /\ v.pc \in {"load", "proto"} => v.xp # 0
    /\ Growing(v) \/ v.pc \in {"load", "proto"} => v.otp = r.text
    /\ v.pc = "commit" => r.text # 0 /\ r.ref
    /\ v.pc = "committed" => r.text = 0 /\ v.xp # 0 /\ r.ref
    /\ v.pc \in {"save", "die"} => r.text = 0
    /\ v.pc \in {"writing", "reload"} /\ r.text # 0 => ~r.ref
    /\ r.load /\ r.text # 0 /\ v.pc \notin {"writing", "reload"} /\ ~(v.for = "valve" /\ v.pc = "getswap")
        => r.ref

Swelled(v) == v.pc = "back" /\ v.for = "text"
SizeOK(r, v) ==
    /\ Swelled(v) => r.size = DBLK + TSIZE
    /\ v.pc = "committed" => r.size = DBLK
    /\ v.da # 0 => v.pc = "committed" \/ (r.size # DBLK /\ ~Swelled(v))

LocalOK == \A p \in Proc :
    /\ StatusOK(p, proc[p], u[p])
    /\ PurposeOK(proc[p], u[p])
    /\ AttachOK(proc[p], u[p])
    /\ SizeOK(proc[p], u[p])

(* The bootstrap is alone in the machine.                                  *)
Small(p) == Alive(p) /\ proc[p].size # DBLK /\ ~Swelled(u[p])
Rest(n)  == n..NCORE
BootOK == \A p \in Proc : Small(p) =>
    /\ p = 1 /\ proc[p].addr = 1 /\ proc[p].size = 1 /\ proc[p].load
    /\ proc[p].text = 0 \/ u[p].pc = "commit"
    /\ u[p].for = "none" /\ u[p].otp = 0
    /\ \A q \in Proc : q # p => proc[q].stat = "none"
    /\ sched.pc \in {"loop", "runin", "runout"}
    /\ u[p].pc \in {"user", "header", "attach", "claim", "load", "proto", "commit"}
    /\ u[p].da = (IF u[p].pc \in {"user", "header"} THEN 0 ELSE 2)
    /\ u[p].pc \in {"user", "header"} => core = Rest(2)
    /\ u[p].pc = "attach" => core = Rest(DBLK + 2)
    /\ u[p].pc \in {"claim", "load", "proto"} => u[p].ta = DBLK + 2 /\ core = Rest(DBLK + TSIZE + 2)
    /\ \A x \in Slot : text[x] = NoText \/ (u[p].pc \in {"load", "proto"} /\ x = u[p].xp) \/ u[p].pc = "commit"

RunOK == \A p \in Proc : u[p].pc \in {"attach", "claim", "commit"} => run = p

Locking(v) == v.pc \in {"writing", "reload", "load", "proto"}
LockOK == \A p \in Proc :
    /\ proc[p].lock <=> Locking(u[p]) \/ (sched.pc = "out" /\ sched.p = p)
    /\ Locking(u[p]) => proc[p].load

SchedOK ==
    /\ sched.pc \in {"out", "intext", "indata"} => sched.p # 0 /\ Alive(sched.p) /\ ~proc[sched.p].load
    /\ sched.pc = "intext" => proc[sched.p].text # 0 /\ ~proc[sched.p].ref
    /\ sched.pc = "indata" /\ proc[sched.p].text # 0 => proc[sched.p].ref
    /\ \A p \in Proc : Alive(p) /\ ~proc[p].load /\ proc[p].text # 0 /\ proc[p].ref
        => sched.pc = "indata" /\ sched.p = p

Execing(v) == v.pc \in {"header", "attach", "reload", "claim", "load", "proto", "commit", "committed", "args"}
              \/ v.for \in {"text", "valve"}
ExecOK == \A p \in Proc :
    /\ Execing(u[p]) => u[p].ip \in Prog /\ ilock[u[p].ip] = p
    /\ Growing(u[p]) => Entry(u[p].ip) = {}
    /\ u[p].pc \in {"load", "proto"} =>
        LET e == text[u[p].xp] IN e.ip = u[p].ip /\ e.count = 1 /\ e.ccount = 0 /\ e.caddr = u[p].ta

FamilyOK ==
    /\ \A p \in Proc :
        /\ p # 1 /\ proc[p].stat # "none" => proc[p].par \in Proc \ {p} /\ Alive(proc[p].par)
        /\ proc[p].chan = "child" => Zombies(p) = {}
        /\ u[p].pc = "wait" => Children(p) # {}
        /\ u[p].pc = "reap" => u[p].a \in Zombies(p)
        /\ u[p].for = "image" => p # 1 /\ proc[p].stat # "none" /\ proc[proc[p].par].stat = "idle"
        /\ proc[p].stat = "idle" => \E q \in Children(p) : u[q].for = "image"
    /\ \A p, q \in Proc : u[p].for = "image" /\ u[q].for = "image" /\ proc[p].par = proc[q].par => p = q

CountOK ==
    /\ \A x \in Slot :
        /\ text[x].count = Cardinality(Refs(x))
        /\ text[x].ccount = Cardinality(CoreRefs(x))
        /\ text[x].ip # NoProg <=> text[x].count > 0
    /\ \A x, y \in Slot : text[x].ip = text[y].ip /\ text[x].ip # NoProg => x = y

Apart(units, free, of) ==
    /\ free \subseteq units
    /\ \A h \in Holders : of[h] \subseteq units \ free
    /\ \A k \in units \ free : \E h \in Holders : k \in of[h]
    /\ \A g, h \in Holders : g # h => of[g] \cap of[h] = {}
CoreOK == Apart(1..NCORE, core, CoreOf)
SwapOK == Apart(1..NSWAP, swap, SwapOf)

Good == LocalOK /\ BootOK /\ RunOK /\ LockOK /\ SchedOK /\ ExecOK /\ FamilyOK /\ CountOK /\ CoreOK /\ SwapOK
IInv == TypeOK /\ (fault = "none" => Good)

----
(* Numbers and sets of units. *)

(* The constants are numbers, and none of the sizes is 0. *)
LEMMA Numbers ==
    /\ NPROC \in Nat /\ NTEXT \in Nat /\ DBLK \in Nat /\ TSIZE \in Nat /\ NCORE \in Nat
    /\ NSWAP \in Nat /\ SECTORS \in Nat /\ MaxCalls \in Nat
    /\ NPROC >= 1 /\ NTEXT >= 1 /\ DBLK >= 1 /\ TSIZE >= 1 /\ NCORE >= 1 /\ NSWAP >= 1 /\ SECTORS >= 1
  BY SwapAssumption

(* 0 is no process and no text. *)
LEMMA ProcFacts == Proc \subseteq Nat /\ 0 \notin Proc /\ 1 \in Proc /\ Slot \subseteq Nat /\ 0 \notin Slot
  BY Numbers DEF Proc, Slot

(* Malloc finds room at the least address that has any.                    *)
LEMMA MallocFits ==
    ASSUME NEW N \in Nat, NEW F, F \subseteq 1..N, NEW n \in Nat
    PROVE  /\ Malloc(F, n) \in Nat
           /\ Malloc(F, n) # 0 => Malloc(F, n) \in F /\ Run(Malloc(F, n), n) \subseteq F
           /\ \A a \in F : Run(a, n) \subseteq F => Malloc(F, n) # 0 /\ Malloc(F, n) <= a
  <1> DEFINE Q == Fits(F, n)
  <1>1. Q \subseteq 1..N /\ \A a \in Q : a \in F /\ Run(a, n) \subseteq F BY DEF Fits
  <1>2. CASE Q = {} BY <1>2 DEF Malloc, Fits
  <1>3. CASE Q # {}
    <2>1. Least(Q) \in Q /\ \A y \in Q : Least(Q) <= y
      <3> HIDE DEF Q
      <3> QED BY <1>1, <1>3, LeastExists DEF Least
    <2>2. Malloc(F, n) = Least(Q) BY <1>3 DEF Malloc
    <2>3. \A a \in F : Run(a, n) \subseteq F => a \in Q BY DEF Fits
    <2>4. PICK a \in Q : a = Malloc(F, n) BY <2>1, <2>2
    <2>5. a \in 1..N /\ a \in F /\ Run(a, n) \subseteq F BY <1>1
    <2>6. \A b \in F : Run(b, n) \subseteq F => a <= b BY <2>1, <2>2, <2>3, <2>4
    <2> HIDE DEF Q
    <2> QED BY <2>4, <2>5, <2>6
  <1> QED BY <1>2, <1>3

(* The first free slot, process or program.                                *)
LEMMA LeastIn ==
    ASSUME NEW N \in Nat, NEW Q, Q \subseteq 1..N, Q # {} PROVE Least(Q) \in Q BY LeastExists DEF Least

----
(* Units are dealt out: of is a division of them, D before and E after.    *)

(* A step that leaves every holder what it has keeps the division. *)
LEMMA Stays ==
    ASSUME NEW U, NEW F, NEW D, Apart(U, F, D), NEW E, \A g \in Holders : E[g] = D[g]
    PROVE  Apart(U, F, E) BY DEF Apart

----
(* A step of one process: its slot becomes r and its registers v.          *)

Mine(p, r, v) ==
    /\ p \in Proc /\ r \in ProcSlot /\ v \in Locals
    /\ proc' = [proc EXCEPT ![p] = r]
    /\ u' = [u EXCEPT ![p] = v]
RegsOK(p, r, v) == StatusOK(p, r, v) /\ PurposeOK(r, v) /\ AttachOK(r, v) /\ SizeOK(r, v)

(* The tables after a step of p. *)
LEMMA MineIs ==
    ASSUME TypeOK, NEW p, NEW r, NEW v, Mine(p, r, v)
    PROVE  /\ proc' \in [Proc -> ProcSlot] /\ u' \in [Proc -> Locals]
           /\ proc'[p] = r /\ u'[p] = v
           /\ \A q \in Proc : q # p => proc'[q] = proc[q] /\ u'[q] = u[q] BY DEF TypeOK, Mine

(* A step of p keeps what is true of each process by itself if it keeps it *)
(* for p.                                                                  *)
LEMMA MineLocal ==
    ASSUME TypeOK, LocalOK, NEW p, NEW r, NEW v, Mine(p, r, v), RegsOK(p, r, v) PROVE LocalOK'
  <1>1. ASSUME NEW q \in Proc PROVE RegsOK(q, proc'[q], u'[q])
    <2>1. CASE q = p BY <2>1, MineIs
    <2>2. CASE q # p BY <2>2, MineIs DEF LocalOK, RegsOK
    <2> QED BY <2>1, <2>2
  <1> QED BY <1>1 DEF LocalOK, RegsOK

(* A process that does not sleep between two steps is the one in the       *)
(* kernel.                                                                 *)
LEMMA MineRun ==
    ASSUME TypeOK, RunOK, NEW p, NEW r, NEW v, Mine(p, r, v),
           run \in {0, p}, v.pc \in {"attach", "claim", "commit"} => run' = p PROVE RunOK'
  <1>1. ASSUME NEW q \in Proc, u'[q].pc \in {"attach", "claim", "commit"} PROVE run' = q
    <2>1. CASE q = p BY <1>1, <2>1, MineIs
    <2>2. CASE q # p BY <1>1, <2>2, MineIs, ProcFacts DEF RunOK
    <2> QED BY <2>1, <2>2
  <1> QED BY <1>1 DEF RunOK

(* What the swapper has under way stays as it is: it is at most woken.     *)
SameSched == sched' = sched \/ (sched.pc = "runout" /\ sched' = [sched EXCEPT !.pc = "loop"])

(* The swapper's registers after it is woken, or is not. *)
LEMMA SameSchedIs ==
    ASSUME TypeOK, SameSched
    PROVE  /\ sched'.p = sched.p /\ sched'.a = sched.a /\ sched'.ta = sched.ta
           /\ sched'.pc \in {"loop", "runin", "runout", "intext", "indata", "out"}
           /\ \A l \in {"out", "intext", "indata", "runin"} : sched'.pc = l <=> sched.pc = l
           /\ sched' \in [pc : {"loop", "runin", "runout", "intext", "indata", "out"},
                          p : {0} \cup Proc, a : Nat, ta : Nat] BY DEF TypeOK, SameSched

(* SLOCK is set on p exactly while it writes its image or reads a text. *)
LEMMA MineLock ==
    ASSUME TypeOK, LockOK, NEW p, NEW r, NEW v, Mine(p, r, v), SameSched,
           r.lock <=> Locking(v) \/ (sched.pc = "out" /\ sched.p = p),
           Locking(v) => r.load PROVE LockOK'
  <1>1. ASSUME NEW q \in Proc
        PROVE  /\ proc'[q].lock <=> Locking(u'[q]) \/ (sched.pc = "out" /\ sched.p = q)
               /\ Locking(u'[q]) => proc'[q].load
    <2>1. CASE q = p BY <2>1, MineIs
    <2>2. CASE q # p BY <2>2, MineIs DEF LockOK
    <2> QED BY <2>1, <2>2
  <1>2. sched'.p = sched.p /\ (sched'.pc = "out" <=> sched.pc = "out") BY SameSchedIs
  <1> QED BY <1>1, <1>2 DEF LockOK

(* A step of p leaves alone the process the swapper has in hand. *)
LEMMA MineSched ==
    ASSUME TypeOK, SchedOK, NEW p, NEW r, NEW v, Mine(p, r, v), SameSched,
           \/ /\ proc[p].load
              /\ r.load \/ r.text = 0 \/ ~r.ref \/ ~Live(r)
           \/ /\ r.load = proc[p].load /\ r.text = proc[p].text /\ r.ref = proc[p].ref
              /\ Live(r) <=> Live(proc[p])
    PROVE  SchedOK'
  <1>1. sched'.p = sched.p /\ \A l \in {"out", "intext", "indata"} : sched'.pc = l <=> sched.pc = l
    BY SameSchedIs
  <1>2. ASSUME sched.pc \in {"out", "intext", "indata"}
        PROVE  /\ sched.p \in Proc /\ Live(proc'[sched.p]) /\ ~proc'[sched.p].load
               /\ proc'[sched.p].text = proc[sched.p].text /\ proc'[sched.p].ref = proc[sched.p].ref
    <2>1. sched.p \in Proc /\ Live(proc[sched.p]) /\ ~proc[sched.p].load BY <1>2 DEF SchedOK, TypeOK, Alive
    <2>2. CASE sched.p # p BY <2>1, <2>2, MineIs
    <2>3. CASE sched.p = p BY <2>1, <2>3, MineIs
    <2> QED BY <2>1, <2>2, <2>3
  <1>3. ASSUME NEW q \in Proc, Live(proc'[q]), ~proc'[q].load, proc'[q].text # 0, proc'[q].ref
        PROVE  sched.pc = "indata" /\ sched.p = q
    <2>1. CASE q # p BY <2>1, <1>3, MineIs DEF SchedOK, Alive, Live
    <2>2. CASE q = p BY <2>2, <1>3, MineIs DEF SchedOK, Alive, Live
    <2> QED BY <2>1, <2>2
  <1>4. sched.pc = "intext" => proc[sched.p].text # 0 /\ ~proc[sched.p].ref BY DEF SchedOK
  <1>5. sched.pc = "indata" /\ proc[sched.p].text # 0 => proc[sched.p].ref BY DEF SchedOK
  <1> QED BY <1>1, <1>2, <1>3, <1>4, <1>5, ProcFacts DEF SchedOK, Alive, Live

(* A step of a process that has its full block leaves nobody small. *)
LEMMA MineBoot ==
    ASSUME TypeOK, BootOK, NEW p, NEW r, NEW v, Mine(p, r, v), Live(proc[p]), ~Small(p),
           Live(r) => r.size = DBLK \/ Swelled(v) PROVE BootOK'
  <1>1. ASSUME NEW q \in Proc, Small(q)' PROVE FALSE
    <2>1. q # p BY <1>1, MineIs DEF Small, Alive, Live
    <2>2. Small(q) BY <1>1, <2>1, MineIs DEF Small, Alive
    <2>3. proc[p].stat = "none" BY <2>1, <2>2 DEF BootOK, Mine
    <2> QED BY <2>3 DEF Live
  <1> QED BY <1>1 DEF BootOK
Up(r) == r.stat \in {"run", "sleep", "wait"}

(* A step of p that changes neither its parent nor whether it lives keeps  *)
(* the families.                                                           *)
LEMMA MineFamily ==
    ASSUME TypeOK, FamilyOK, NEW p, NEW r, NEW v, Mine(p, r, v),
           Up(proc[p]), Up(r), r.par = proc[p].par,
           v.for = "image" <=> u[p].for = "image",
           r.chan = "child" => Zombies(p) = {},
           v.pc = "wait" => Children(p) # {},
           v.pc = "reap" => v.a \in Zombies(p) PROVE FamilyOK'
  <1>1. ASSUME NEW q \in Proc
        PROVE  /\ proc'[q].par = proc[q].par
               /\ \A s \in {"none", "zombie", "idle"} : proc'[q].stat = s <=> proc[q].stat = s
               /\ u'[q].for = "image" <=> u[q].for = "image"
    <2>1. CASE q = p BY <2>1, MineIs DEF Up
    <2>2. CASE q # p BY <2>2, MineIs
    <2> QED BY <2>1, <2>2
  <1>2. ASSUME NEW q \in Proc
        PROVE  Children(q)' = Children(q) /\ Zombies(q)' = Zombies(q) /\ (Alive(q)' <=> Alive(q))
    BY <1>1 DEF Children, Zombies, Alive, Live
  <1>3. ASSUME NEW q \in Proc
        PROVE  /\ proc'[q].chan = "child" => Zombies(q) = {}
               /\ u'[q].pc = "wait" => Children(q) # {}
               /\ u'[q].pc = "reap" => u'[q].a \in Zombies(q)
    <2>1. CASE q = p BY <2>1, MineIs
    <2>2. CASE q # p BY <2>2, MineIs DEF FamilyOK
    <2> QED BY <2>1, <2>2
  <1>4. ASSUME NEW q \in Proc, q # 1, proc'[q].stat # "none"
        PROVE  proc'[q].par \in Proc \ {q} /\ Live(proc'[proc'[q].par])
    <2>1. proc[q].par \in Proc \ {q} /\ Live(proc[proc[q].par]) BY <1>1, <1>4 DEF FamilyOK, Alive
    <2>2. Live(proc'[proc[q].par]) BY <1>1, <2>1 DEF Live
    <2> QED BY <1>1, <2>1, <2>2
  <1>5. ASSUME NEW q \in Proc, u'[q].for = "image"
        PROVE  q # 1 /\ proc'[q].stat # "none" /\ proc'[proc'[q].par].stat = "idle"
    <2>1. q # 1 /\ proc[q].stat # "none" /\ proc[proc[q].par].stat = "idle" BY <1>1, <1>5 DEF FamilyOK
    <2>2. proc[q].par \in Proc BY <2>1 DEF FamilyOK
    <2> QED BY <1>1, <2>1, <2>2
  <1>6. \A q \in Proc : proc'[q].stat = "idle" => \E c \in Children(q)' : u'[c].for = "image"
    <2>1. ASSUME NEW q \in Proc, proc'[q].stat = "idle" PROVE \E c \in Children(q) : u[c].for = "image"
      BY <1>1, <2>1 DEF FamilyOK
    <2> QED BY <2>1, <1>1, <1>2 DEF Children
  <1>7. \A q, c \in Proc : u'[q].for = "image" /\ u'[c].for = "image" /\ proc'[q].par = proc'[c].par => q = c
    BY <1>1 DEF FamilyOK
  <1> QED BY <1>2, <1>3, <1>4, <1>5, <1>6, <1>7 DEF FamilyOK, Alive

(* A step of p changes no text but one p has in its hands, and leaves the  *)
(* inodes others have locked.                                              *)
LEMMA MineExec ==
    ASSUME TypeOK, ExecOK, NEW p, NEW r, NEW v, Mine(p, r, v),
           \A g \in Prog : ilock[g] \notin {0, p} => ilock'[g] = ilock[g],
           \A x \in Slot : \/ text'[x].ip \in {text[x].ip, NoProg}
                           \/ u[p].ip \in Prog /\ ilock[u[p].ip] = p /\ text'[x].ip = u[p].ip,
           \A q \in Proc : q # p /\ u[q].pc \in {"load", "proto"} => text'[u[q].xp] = text[u[q].xp],
           Execing(v) => v.ip \in Prog /\ ilock'[v.ip] = p,
           Growing(v) => \A x \in Slot : text'[x].ip # v.ip,
           v.pc \in {"load", "proto"} =>
               text'[v.xp].ip = v.ip /\ text'[v.xp].count = 1 /\ text'[v.xp].ccount = 0 /\ text'[v.xp].caddr = v.ta
    PROVE  ExecOK'
  <1>1. ASSUME NEW q \in Proc, Execing(u'[q]) PROVE u'[q].ip \in Prog /\ ilock'[u'[q].ip] = q
    <2>1. CASE q = p BY <1>1, <2>1, MineIs
    <2>2. CASE q # p BY <1>1, <2>2, MineIs, ProcFacts DEF ExecOK
    <2> QED BY <2>1, <2>2
  <1>2. ASSUME NEW q \in Proc, Growing(u'[q]), NEW x \in Slot PROVE text'[x].ip # u'[q].ip
    <2>1. CASE q = p BY <1>2, <2>1, MineIs
    <2>2. CASE q # p
      <3>1. u'[q] = u[q] /\ Execing(u[q]) BY <1>2, <2>2, MineIs DEF Growing, Execing
      <3>2. u[q].ip \in Prog /\ ilock[u[q].ip] = q /\ u[q].ip # NoProg BY <3>1, SwapAssumption DEF ExecOK
      <3>3. text[x].ip # u[q].ip BY <1>2, <3>1 DEF ExecOK, Entry
      <3> QED BY <3>1, <3>2, <3>3, <2>2 DEF Mine
    <2> QED BY <2>1, <2>2
  <1>3. ASSUME NEW q \in Proc, u'[q].pc \in {"load", "proto"}
        PROVE  /\ text'[u'[q].xp].ip = u'[q].ip /\ text'[u'[q].xp].count = 1
               /\ text'[u'[q].xp].ccount = 0 /\ text'[u'[q].xp].caddr = u'[q].ta
    <2>1. CASE q = p BY <1>3, <2>1, MineIs
    <2>2. CASE q # p
      <3>1. u'[q] = u[q] BY <2>2, MineIs
      <3>2. text'[u[q].xp] = text[u[q].xp] BY <1>3, <2>2, <3>1
      <3> QED BY <1>3, <3>1, <3>2 DEF ExecOK
    <2> QED BY <2>1, <2>2
  <1> QED BY <1>1, <1>2, <1>3 DEF ExecOK, Entry

----
(* References. *)

(* A set of references is finite. *)
LEMMA RefSets ==
    ASSUME NEW S, S \subseteq Kinds \X Proc PROVE IsFiniteSet(S) /\ Cardinality(S) \in Nat
  <1>1. IsFiniteSet(Proc) BY Numbers, FS_Interval DEF Proc
  <1>2. IsFiniteSet(Kinds)
    <2>1. IsFiniteSet({}) /\ IsFiniteSet({"attached"}) /\ IsFiniteSet({"attached", "building"})
          /\ IsFiniteSet({"attached", "building", "kept"})
      <3>1. IsFiniteSet({}) BY FS_EmptySet
      <3>2. IsFiniteSet({} \cup {"attached"}) BY <3>1, FS_AddElement
      <3>3. IsFiniteSet({"attached"} \cup {"building"}) BY <3>2, FS_AddElement
      <3>4. IsFiniteSet({"attached", "building"} \cup {"kept"}) BY <3>3, FS_AddElement
      <3> QED BY <3>1, <3>2, <3>3, <3>4
    <2>2. IsFiniteSet({"attached", "building", "kept"} \cup {"held"}) BY <2>1, FS_AddElement
    <2>3. Kinds = {"attached", "building", "kept"} \cup {"held"} BY DEF Kinds
    <2> QED BY <2>2, <2>3
  <1>3. IsFiniteSet(Kinds \X Proc) BY <1>1, <1>2, FS_Product
  <1>4. IsFiniteSet(S) BY <1>3, FS_Subset
  <1> QED BY <1>4, FS_CardinalityType

(* References are pairs of a kind and a process; those in core are some of *)
(* them.                                                                   *)
LEMMA RefsIn == \A x : Refs(x) \subseteq Kinds \X Proc /\ CoreRefs(x) \subseteq Refs(x)
  BY DEF Refs, CoreRefs, RefersInCore

(* A step of p changes no references but its own. *)
LEMMA MineRefs ==
    ASSUME TypeOK, NEW p, NEW r, NEW v, Mine(p, r, v), NEW x
    PROVE  /\ Refs(x)' \subseteq Kinds \X Proc /\ CoreRefs(x)' \subseteq Kinds \X Proc
           /\ \A k \in Kinds : <<k, p>> \in Refs(x)' <=> Refers(k, r, v, x)
           /\ \A k \in Kinds : <<k, p>> \in CoreRefs(x)' <=> RefersInCore(k, r, v, x)
           /\ \A c \in Kinds \X Proc : c[2] # p => (c \in Refs(x)' <=> c \in Refs(x))
           /\ \A c \in Kinds \X Proc : c[2] # p => (c \in CoreRefs(x)' <=> c \in CoreRefs(x))
  <1>1. \A c : c \in Refs(x)' <=> c \in Kinds \X Proc /\ Refers(c[1], proc'[c[2]], u'[c[2]], x) BY DEF Refs
  <1>2. \A c : c \in CoreRefs(x)' <=> c \in Kinds \X Proc /\ RefersInCore(c[1], proc'[c[2]], u'[c[2]], x)
    BY DEF CoreRefs
  <1>3. \A c : c \in Refs(x) <=> c \in Kinds \X Proc /\ Refers(c[1], proc[c[2]], u[c[2]], x) BY DEF Refs
  <1>4. \A c : c \in CoreRefs(x) <=> c \in Kinds \X Proc /\ RefersInCore(c[1], proc[c[2]], u[c[2]], x)
    BY DEF CoreRefs
  <1>5. p \in Proc /\ proc'[p] = r /\ u'[p] = v BY MineIs DEF Mine
  <1>6. \A q \in Proc : q # p => proc'[q] = proc[q] /\ u'[q] = u[q] BY MineIs
  <1>7. \A c \in Kinds \X Proc : c[2] \in Proc OBVIOUS
  <1>8. \A k \in Kinds : <<k, p>> \in Kinds \X Proc /\ <<k, p>>[1] = k /\ <<k, p>>[2] = p BY <1>5
  <1> QED BY <1>1, <1>2, <1>3, <1>4, <1>5, <1>6, <1>7, <1>8

(* What p refers to with r and v, it refers to now.                        *)
SameRefs(p, r, v, x) == \A k \in Kinds :
    /\ Refers(k, r, v, x) <=> Refers(k, proc[p], u[p], x)
    /\ RefersInCore(k, r, v, x) <=> RefersInCore(k, proc[p], u[p], x)

(* A step of p that refers to what it did changes no reference. *)
LEMMA RefsStay ==
    ASSUME TypeOK, NEW p, NEW r, NEW v, Mine(p, r, v), NEW x, SameRefs(p, r, v, x)
    PROVE  Refs(x)' = Refs(x) /\ CoreRefs(x)' = CoreRefs(x)
  <1>1. ASSUME NEW c \in Kinds \X Proc
        PROVE  (c \in Refs(x)' <=> c \in Refs(x)) /\ (c \in CoreRefs(x)' <=> c \in CoreRefs(x))
    <2>1. CASE c[2] = p
      <3>1. PICK k \in Kinds : c = <<k, p>> BY <2>1
      <3>2. (c \in Refs(x) <=> Refers(k, proc[p], u[p], x)) /\ (c \in CoreRefs(x) <=> RefersInCore(k, proc[p], u[p], x))
        BY <3>1 DEF Refs, CoreRefs, Mine
      <3>3. (c \in Refs(x)' <=> Refers(k, r, v, x)) /\ (c \in CoreRefs(x)' <=> RefersInCore(k, r, v, x))
        BY <3>1, MineRefs
      <3> QED BY <3>2, <3>3 DEF SameRefs
    <2>2. CASE c[2] # p BY <2>2, MineRefs
    <2> QED BY <2>1, <2>2
  <1>2. Refs(x)' \subseteq Kinds \X Proc /\ CoreRefs(x)' \subseteq Kinds \X Proc
        /\ Refs(x) \subseteq Kinds \X Proc /\ CoreRefs(x) \subseteq Kinds \X Proc BY MineRefs, RefsIn
  <1> QED BY <1>1, <1>2

(* Such a step keeps the counts if it changes no count. *)
LEMMA MineCount ==
    ASSUME TypeOK, CountOK, NEW p, NEW r, NEW v, Mine(p, r, v),
           \A x \in Slot : SameRefs(p, r, v, x),
           \A x \in Slot : text'[x].count = text[x].count /\ text'[x].ccount = text[x].ccount /\ text'[x].ip = text[x].ip
    PROVE  CountOK'
  <1>1. \A x \in Slot : Refs(x)' = Refs(x) /\ CoreRefs(x)' = CoreRefs(x) BY RefsStay
  <1> QED BY <1>1 DEF CountOK

(* One reference makes the counts positive, the only one makes them 1.     *)
LEMMA Counted ==
    ASSUME TypeOK, CountOK, NEW x \in Slot
    PROVE  /\ text[x].count \in Nat /\ text[x].ccount \in Nat /\ text[x].ccount <= text[x].count
           /\ \A c \in Refs(x) : text[x].count >= 1 /\ text[x].ip # NoProg
           /\ \A c \in CoreRefs(x) : text[x].ccount >= 1
           /\ text[x].count = 1 => \A c, d \in Refs(x) : c = d
           /\ text[x].ip = NoProg => Refs(x) = {} /\ CoreRefs(x) = {} /\ text[x].count = 0 /\ text[x].ccount = 0
  <1> DEFINE A == Refs(x)
             B == CoreRefs(x)
  <1>1. IsFiniteSet(A) /\ IsFiniteSet(B) /\ Cardinality(A) \in Nat /\ Cardinality(B) \in Nat /\ B \subseteq A
    BY RefsIn, RefSets
  <1>2. Cardinality(B) <= Cardinality(A) BY <1>1, FS_Subset
  <1>3. ASSUME NEW S, IsFiniteSet(S), NEW c \in S PROVE Cardinality(S) >= 1
    <2>1. Cardinality(S) \in Nat /\ Cardinality(S) # 0 BY <1>3, FS_EmptySet, FS_CardinalityType
    <2> QED BY <2>1
  <1>4. ASSUME Cardinality(A) = 1, NEW c \in A, NEW d \in A PROVE c = d
    <2>1. SUFFICES ASSUME c # d PROVE FALSE OBVIOUS
    <2>2. IsFiniteSet(A \ {c}) /\ Cardinality(A \ {c}) = 0 BY <1>1, <1>4, FS_RemoveElement
    <2> QED BY <2>1, <2>2, FS_EmptySet
  <1>5. text[x].count = Cardinality(A) /\ text[x].ccount = Cardinality(B) /\ (text[x].ip # NoProg <=> text[x].count > 0)
    BY DEF CountOK
  <1> HIDE DEF A, B
  <1>6. Cardinality(A) = 0 => A = {} /\ B = {} /\ Cardinality(B) = 0 BY <1>1, FS_EmptySet
  <1>7. text[x].count \in Nat /\ text[x].ccount \in Nat BY <1>1, <1>5
  <1>8. \A c \in A : text[x].count >= 1 /\ text[x].ip # NoProg BY <1>1, <1>3, <1>5
  <1>9. \A c \in B : text[x].ccount >= 1 BY <1>1, <1>3, <1>5
  <1>10. text[x].count = 1 => \A c, d \in A : c = d BY <1>4, <1>5
  <1>11. text[x].ip = NoProg => A = {} /\ B = {} /\ text[x].count = 0 /\ text[x].ccount = 0
    BY <1>1, <1>5, <1>6
  <1> QED BY <1>2, <1>5, <1>7, <1>8, <1>9, <1>10, <1>11 DEF A, B

(* A text that is being built is nobody else's.                            *)
LEMMA Built ==
    ASSUME TypeOK, CountOK, ExecOK, LocalOK, NEW q \in Proc, u[q].pc \in {"load", "proto"}
    PROVE  /\ u[q].xp \in Slot
           /\ Refs(u[q].xp) = {<<"building", q>>}
  <1>1. u[q].xp \in Slot BY DEF TypeOK, Locals, LocalOK, AttachOK
  <1>2. <<"building", q>> \in Refs(u[q].xp) BY DEF Refs, Refers, Kinds
  <1>3. text[u[q].xp].count = 1 BY DEF ExecOK
  <1> QED BY <1>1, <1>2, <1>3, Counted

----
(* Who holds what. *)

(* The holders, one by one. *)
LEMMA HolderIs ==
    /\ \A p \in Proc : {<<"block", p>>, <<"exec", p>>, <<"ta", p>>, <<"status", p>>} \subseteq Holders
    /\ \A x \in Slot : <<"text", x>> \in Holders
    /\ {<<"data", 0>>, <<"ctext", 0>>} \subseteq Holders
    /\ \A h \in Holders :
        \/ \E p \in Proc : h \in {<<"block", p>>, <<"exec", p>>, <<"ta", p>>, <<"status", p>>}
        \/ \E x \in Slot : h = <<"text", x>>
        \/ h \in {<<"data", 0>>, <<"ctext", 0>>} BY DEF Holders

(* What each holder has of core. *)
LEMMA CoreAt ==
    /\ \A p \in Proc : /\ CoreOf[<<"block", p>>] = CoreBlock(proc[p], u[p])
                       /\ CoreOf[<<"exec", p>>] = CoreExec(proc[p], u[p])
                       /\ CoreOf[<<"ta", p>>] = CoreTa(u[p])
                       /\ CoreOf[<<"status", p>>] = {}
    /\ \A x \in Slot : CoreOf[<<"text", x>>] = CoreText(text[x])
    /\ CoreOf[<<"data", 0>>] = CoreData(sched, proc[sched.p].size)
    /\ CoreOf[<<"ctext", 0>>] = CoreCtext(sched) BY DEF CoreOf, Holders
(* What each holder has of core after a step. *)
LEMMA CoreThen ==
    /\ \A p \in Proc : /\ CoreOf'[<<"block", p>>] = CoreBlock(proc'[p], u'[p])
                       /\ CoreOf'[<<"exec", p>>] = CoreExec(proc'[p], u'[p])
                       /\ CoreOf'[<<"ta", p>>] = CoreTa(u'[p])
                       /\ CoreOf'[<<"status", p>>] = {}
    /\ \A x \in Slot : CoreOf'[<<"text", x>>] = CoreText(text'[x])
    /\ CoreOf'[<<"data", 0>>] = CoreData(sched', proc'[sched'.p].size)
    /\ CoreOf'[<<"ctext", 0>>] = CoreCtext(sched') BY DEF CoreOf, Holders
(* What each holder has of the swap device. *)
LEMMA SwapAt ==
    /\ \A p \in Proc : /\ SwapOf[<<"block", p>>] = SwapImage(proc[p], u[p])
                       /\ SwapOf[<<"status", p>>] = SwapStatus(proc[p], u[p])
                       /\ SwapOf[<<"exec", p>>] = {} /\ SwapOf[<<"ta", p>>] = {}
    /\ \A x \in Slot : SwapOf[<<"text", x>>] = SwapText(text[x])
    /\ SwapOf[<<"data", 0>>] = SwapData(sched, proc[sched.p].img)
    /\ SwapOf[<<"ctext", 0>>] = {} BY DEF SwapOf, Holders
(* What each holder has of the swap device after a step. *)
LEMMA SwapThen ==
    /\ \A p \in Proc : /\ SwapOf'[<<"block", p>>] = SwapImage(proc'[p], u'[p])
                       /\ SwapOf'[<<"status", p>>] = SwapStatus(proc'[p], u'[p])
                       /\ SwapOf'[<<"exec", p>>] = {} /\ SwapOf'[<<"ta", p>>] = {}
    /\ \A x \in Slot : SwapOf'[<<"text", x>>] = SwapText(text'[x])
    /\ SwapOf'[<<"data", 0>>] = SwapData(sched', proc'[sched'.p].img)
    /\ SwapOf'[<<"ctext", 0>>] = {} BY DEF SwapOf, Holders

(* A step of p changes the core of p and of texts only.                    *)
LEMMA MineCore ==
    ASSUME TypeOK, NEW p, NEW r, NEW v, Mine(p, r, v), SameSched,
           sched.p = p => r.size = proc[p].size \/ sched.pc \notin {"intext", "indata"},
           NEW g \in Holders
    PROVE  CoreOf'[g] = IF g = <<"block", p>> THEN CoreBlock(r, v)
                        ELSE IF g = <<"exec", p>> THEN CoreExec(r, v)
                        ELSE IF g = <<"ta", p>> THEN CoreTa(v)
                        ELSE IF g[1] = "text" THEN CoreText(text'[g[2]])
                        ELSE CoreOf[g]
  <1>1. p \in Proc /\ proc'[p] = r /\ u'[p] = v /\ \A q \in Proc : q # p => proc'[q] = proc[q] /\ u'[q] = u[q]
    BY MineIs DEF Mine
  <1>2. ASSUME NEW q \in Proc, g \in {<<"block", q>>, <<"exec", q>>, <<"ta", q>>, <<"status", q>>}
        PROVE  CoreOf'[g] = IF g = <<"block", p>> THEN CoreBlock(r, v)
                            ELSE IF g = <<"exec", p>> THEN CoreExec(r, v)
                            ELSE IF g = <<"ta", p>> THEN CoreTa(v) ELSE CoreOf[g]
    <2>1. CASE q = p BY <1>1, <1>2, <2>1, CoreAt, CoreThen
    <2>2. CASE q # p
      <3>1. g # <<"block", p>> /\ g # <<"exec", p>> /\ g # <<"ta", p>> /\ g # <<"status", p>> BY <1>2, <2>2
      <3>2. proc'[q] = proc[q] /\ u'[q] = u[q] BY <1>1, <2>2
      <3>3. CoreOf'[g] = CoreOf[g] BY <1>2, <3>2, CoreAt, CoreThen
      <3> QED BY <3>1, <3>3
    <2> QED BY <2>1, <2>2
  <1>3. ASSUME NEW x \in Slot, g = <<"text", x>> PROVE CoreOf'[g] = CoreText(text'[g[2]]) BY <1>3, CoreThen
  <1>4. ASSUME g = <<"data", 0>> PROVE CoreOf'[g] = CoreOf[g]
    <2>1. sched'.p = sched.p /\ sched'.a = sched.a
          /\ (sched'.pc \in {"intext", "indata"} <=> sched.pc \in {"intext", "indata"}) BY SameSchedIs
    <2>2. CASE sched.pc \in {"intext", "indata"}
      <3>1. proc'[sched.p].size = proc[sched.p].size
        <4>1. CASE sched.p = p BY <1>1, <2>2, <4>1
        <4>2. CASE sched.p # p BY <4>2 DEF Mine, TypeOK
        <4> QED BY <4>1, <4>2
      <3> QED BY <1>4, <2>1, <3>1, CoreAt, CoreThen DEF CoreData
    <2>3. CASE sched.pc \notin {"intext", "indata"} BY <1>4, <2>1, <2>3, CoreAt, CoreThen DEF CoreData
    <2> QED BY <2>2, <2>3
  <1>5. ASSUME g = <<"ctext", 0>> PROVE CoreOf'[g] = CoreOf[g]
    <2>1. sched'.ta = sched.ta /\ (sched'.pc = "intext" <=> sched.pc = "intext") BY SameSchedIs
    <2> QED BY <1>5, <2>1, CoreAt, CoreThen DEF CoreCtext
  <1> QED BY <1>2, <1>3, <1>4, <1>5, HolderIs

(* A step of p changes the swap space of p and of texts only. *)
LEMMA MineSwap ==
    ASSUME TypeOK, NEW p, NEW r, NEW v, Mine(p, r, v), SameSched,
           sched.p = p => r.img = proc[p].img \/ sched.pc # "out",
           NEW g \in Holders
    PROVE  SwapOf'[g] = IF g = <<"block", p>> THEN SwapImage(r, v)
                        ELSE IF g = <<"status", p>> THEN SwapStatus(r, v)
                        ELSE IF g[1] = "text" THEN SwapText(text'[g[2]])
                        ELSE SwapOf[g]
  <1>1. p \in Proc /\ proc'[p] = r /\ u'[p] = v /\ \A q \in Proc : q # p => proc'[q] = proc[q] /\ u'[q] = u[q]
    BY MineIs DEF Mine
  <1>2. ASSUME NEW q \in Proc, g \in {<<"block", q>>, <<"exec", q>>, <<"ta", q>>, <<"status", q>>}
        PROVE  SwapOf'[g] = IF g = <<"block", p>> THEN SwapImage(r, v)
                            ELSE IF g = <<"status", p>> THEN SwapStatus(r, v) ELSE SwapOf[g]
    <2>1. CASE q = p BY <1>1, <1>2, <2>1, SwapAt, SwapThen
    <2>2. CASE q # p
      <3>1. g # <<"block", p>> /\ g # <<"exec", p>> /\ g # <<"ta", p>> /\ g # <<"status", p>> BY <1>2, <2>2
      <3>2. proc'[q] = proc[q] /\ u'[q] = u[q] BY <1>1, <2>2
      <3>3. SwapOf'[g] = SwapOf[g] BY <1>2, <3>2, SwapAt, SwapThen
      <3> QED BY <3>1, <3>3
    <2> QED BY <2>1, <2>2
  <1>3. ASSUME NEW x \in Slot, g = <<"text", x>> PROVE SwapOf'[g] = SwapText(text'[g[2]]) BY <1>3, SwapThen
  <1>4. ASSUME g = <<"data", 0>> PROVE SwapOf'[g] = SwapOf[g]
    <2>1. sched'.p = sched.p /\ sched'.a = sched.a /\ (sched'.pc = "out" <=> sched.pc = "out")
      BY SameSchedIs
    <2>2. CASE sched.pc = "out"
      <3>1. proc'[sched.p].img = proc[sched.p].img
        <4>1. CASE sched.p = p BY <1>1, <2>2, <4>1
        <4>2. CASE sched.p # p BY <4>2 DEF Mine, TypeOK
        <4> QED BY <4>1, <4>2
      <3> QED BY <1>4, <2>1, <3>1, SwapAt, SwapThen DEF SwapData
    <2>3. CASE sched.pc # "out" BY <1>4, <2>1, <2>3, SwapAt, SwapThen DEF SwapData
    <2> QED BY <2>2, <2>3
  <1>5. ASSUME g = <<"ctext", 0>> PROVE SwapOf'[g] = SwapOf[g] BY <1>5, SwapAt, SwapThen
  <1> QED BY <1>2, <1>3, <1>4, <1>5, HolderIs

(* A step of p that moves no core, and one that moves no swap space.       *)
LEMMA MineCoreStays ==
    ASSUME TypeOK, CoreOK, NEW p, NEW r, NEW v, Mine(p, r, v), SameSched,
           CoreBlock(r, v) = CoreBlock(proc[p], u[p]), CoreExec(r, v) = CoreExec(proc[p], u[p]),
           CoreTa(v) = CoreTa(u[p]),
           sched.p = p => r.size = proc[p].size \/ sched.pc \notin {"intext", "indata"},
           \A x \in Slot : CoreText(text'[x]) = CoreText(text[x]),
           core' = core PROVE CoreOK'
  <1>1. ASSUME NEW g \in Holders PROVE CoreOf'[g] = CoreOf[g]
    <2> DEFINE e == CoreOf'[g]
    <2>1. e = IF g = <<"block", p>> THEN CoreBlock(r, v)
              ELSE IF g = <<"exec", p>> THEN CoreExec(r, v)
              ELSE IF g = <<"ta", p>> THEN CoreTa(v)
              ELSE IF g[1] = "text" THEN CoreText(text'[g[2]])
              ELSE CoreOf[g] BY MineCore
    <2> HIDE DEF e
    <2>2. p \in Proc BY DEF Mine
    <2>3. ASSUME g[1] = "text" PROVE e = CoreOf[g]
      <3>1. PICK x \in Slot : g = <<"text", x>> BY <2>3, HolderIs
      <3>2. g # <<"block", p>> /\ g # <<"exec", p>> /\ g # <<"ta", p>> /\ g # <<"status", p>> /\ g[2] = x
        BY <3>1
      <3> QED BY <2>1, <2>3, <3>1, <3>2, CoreAt
    <2>4. ASSUME g[1] # "text" PROVE e = CoreOf[g] BY <2>1, <2>2, <2>4, CoreAt
    <2>5. e = CoreOf[g] BY <2>3, <2>4
    <2> QED BY <2>5 DEF e
  <1>2. Apart(1..NCORE, core, CoreOf) BY DEF CoreOK
  <1> QED BY <1>1, <1>2, Stays DEF CoreOK

(* A step of p that moves no swap space keeps its division. *)
LEMMA MineSwapStays ==
    ASSUME TypeOK, SwapOK, NEW p, NEW r, NEW v, Mine(p, r, v), SameSched,
           SwapImage(r, v) = SwapImage(proc[p], u[p]), SwapStatus(r, v) = SwapStatus(proc[p], u[p]),
           sched.p = p => r.img = proc[p].img \/ sched.pc # "out",
           \A x \in Slot : SwapText(text'[x]) = SwapText(text[x]),
           swap' = swap PROVE SwapOK'
  <1>1. ASSUME NEW g \in Holders PROVE SwapOf'[g] = SwapOf[g]
    <2> DEFINE e == SwapOf'[g]
    <2>1. e = IF g = <<"block", p>> THEN SwapImage(r, v)
              ELSE IF g = <<"status", p>> THEN SwapStatus(r, v)
              ELSE IF g[1] = "text" THEN SwapText(text'[g[2]])
              ELSE SwapOf[g] BY MineSwap
    <2> HIDE DEF e
    <2>2. p \in Proc BY DEF Mine
    <2>3. ASSUME g[1] = "text" PROVE e = SwapOf[g]
      <3>1. PICK x \in Slot : g = <<"text", x>> BY <2>3, HolderIs
      <3>2. g # <<"block", p>> /\ g # <<"exec", p>> /\ g # <<"ta", p>> /\ g # <<"status", p>> /\ g[2] = x
        BY <3>1
      <3> QED BY <2>1, <2>3, <3>1, <3>2, SwapAt
    <2>4. ASSUME g[1] # "text" PROVE e = SwapOf[g] BY <2>1, <2>2, <2>4, SwapAt
    <2>5. e = SwapOf[g] BY <2>3, <2>4
    <2> QED BY <2>5 DEF e
  <1>2. Apart(1..NSWAP, swap, SwapOf) BY DEF SwapOK
  <1> QED BY <1>1, <1>2, Stays DEF SwapOK

----
(* What holds of the process inside the kernel. *)

(* A process that runs is in core, in nobody's hands, and has its          *)
(* program's inode.                                                        *)
LEMMA AtFacts ==
    ASSUME IInv, NEW p \in Proc, NEW l, At(p, l)
    PROVE  /\ TypeOK /\ Good /\ fault = "none"
           /\ proc[p] \in ProcSlot /\ u[p] \in Locals /\ u[p].pc = l /\ run \in {0, p}
           /\ proc[p].stat = "run" /\ proc[p].load /\ proc[p].chan = "none"
           /\ Up(proc[p]) /\ Live(proc[p]) /\ Alive(p)
           /\ RegsOK(p, proc[p], u[p])
           /\ sched.p = p => sched.pc \notin {"out", "intext", "indata"}
           /\ proc[p].lock <=> Locking(u[p])
           /\ Execing(u[p]) => u[p].ip \in Prog /\ ilock[u[p].ip] = p
  <1>1. TypeOK /\ Good /\ fault = "none" BY DEF IInv, At
  <1>2. proc[p] \in ProcSlot /\ u[p] \in Locals BY <1>1 DEF TypeOK
  <1>3. RegsOK(p, proc[p], u[p]) BY <1>1 DEF Good, LocalOK, RegsOK
  <1>4. proc[p].stat = "run" /\ proc[p].load /\ u[p].pc = l /\ run \in {0, p} BY DEF At
  <1>5. proc[p].chan = "none" BY <1>2, <1>3, <1>4 DEF RegsOK, StatusOK, ProcSlot
  <1>6. sched.p = p => sched.pc \notin {"out", "intext", "indata"} BY <1>1, <1>4 DEF Good, SchedOK
  <1>7. proc[p].lock <=> Locking(u[p]) BY <1>1, <1>6 DEF Good, LockOK
  <1>8. Execing(u[p]) => u[p].ip \in Prog /\ ilock[u[p].ip] = p BY <1>1 DEF Good, ExecOK
  <1>9. Up(proc[p]) /\ Live(proc[p]) /\ Alive(p) BY <1>4 DEF Up, Live, Alive
  <1> QED BY <1>1, <1>2, <1>3, <1>4, <1>5, <1>6, <1>7, <1>8, <1>9

(* The fields that decide what a process refers to. *)
LEMMA SameRefsFrom ==
    ASSUME NEW p, NEW r, NEW v, r.text = proc[p].text, r.ref = proc[p].ref,
           Retargeted(v) <=> Retargeted(u[p]), Retargeted(v) => v.otp = u[p].otp,
           v.pc \in {"load", "proto"} <=> u[p].pc \in {"load", "proto"},
           v.pc = "committed" <=> u[p].pc = "committed",
           v.pc \in {"load", "proto", "committed"} => v.xp = u[p].xp
    PROVE  \A x : SameRefs(p, r, v, x) BY DEF SameRefs, Refers, RefersInCore, Kinds

(* A step of p that leaves the bootstrap alone in the machine.             *)
LEMMA MineAlone ==
    ASSUME TypeOK, BootOK, NEW p, NEW r, NEW v, Mine(p, r, v), Small(p), SameSched,
           Live(r) /\ r.size # DBLK /\ ~Swelled(v) =>
             /\ r.addr = 1 /\ r.size = 1 /\ r.load
             /\ r.text = 0 \/ v.pc = "commit"
             /\ v.for = "none" /\ v.otp = 0
             /\ v.pc \in {"user", "header", "attach", "claim", "load", "proto", "commit"}
             /\ v.da = (IF v.pc \in {"user", "header"} THEN 0 ELSE 2)
             /\ v.pc \in {"user", "header"} => core' = Rest(2)
             /\ v.pc = "attach" => core' = Rest(DBLK + 2)
             /\ v.pc \in {"claim", "load", "proto"} => v.ta = DBLK + 2 /\ core' = Rest(DBLK + TSIZE + 2)
             /\ \A x \in Slot : text'[x] = NoText \/ (v.pc \in {"load", "proto"} /\ x = v.xp) \/ v.pc = "commit"
    PROVE  BootOK'
  <1>1. p = 1 /\ (\A q \in Proc : q # p => proc[q].stat = "none") /\ sched.pc \in {"loop", "runin", "runout"}
    BY DEF BootOK, Mine
  <1>2. sched'.pc \in {"loop", "runin", "runout"} BY <1>1, SameSchedIs
  <1>3. \A q \in Proc : q # p => proc'[q].stat = "none" BY <1>1, MineIs
  <1>4. ASSUME NEW q \in Proc, Small(q)' PROVE q = p /\ Live(r) /\ r.size # DBLK /\ ~Swelled(v)
    BY <1>3, <1>4, MineIs DEF Small, Alive, Live, Mine
  <1>5. proc'[p] = r /\ u'[p] = v BY MineIs
  <1> QED BY <1>1, <1>2, <1>3, <1>4, <1>5 DEF BootOK

(* A step that moves no memory: p keeps what it holds and refers to.       *)
SameHands(p, r, v) ==
    /\ Up(proc[p]) /\ Up(r)
    /\ r.load = proc[p].load /\ r.lock = proc[p].lock /\ r.addr = proc[p].addr /\ r.size = proc[p].size
    /\ r.img = proc[p].img /\ r.text = proc[p].text /\ r.par = proc[p].par /\ r.ref = proc[p].ref
    /\ v.for = "image" <=> u[p].for = "image"
    /\ Locking(v) <=> Locking(u[p])
    /\ Locking(v) => r.load
    /\ CoreExec(r, v) = CoreExec(proc[p], u[p]) /\ CoreTa(v) = CoreTa(u[p])
    /\ SwapImage(r, v) = SwapImage(proc[p], u[p]) /\ SwapStatus(r, v) = SwapStatus(proc[p], u[p])
    /\ \A x : SameRefs(p, r, v, x)

(* A step of p that moves no memory and changes no text keeps the          *)
(* invariant.                                                              *)
LEMMA Quiet ==
    ASSUME IInv, fault = "none", NEW p, NEW r, NEW v, Mine(p, r, v), SameSched,
           SameHands(p, r, v), RegsOK(p, r, v), UNCHANGED <<core, swap, text, fault>>,
           run \in {0, p}, run' \in {0} \cup Proc, v.pc \in {"attach", "claim", "commit"} => run' = p,
           r.chan = "child" => Zombies(p) = {},
           v.pc = "wait" => Children(p) # {},
           v.pc = "reap" => v.a \in Zombies(p),
           ilock' \in [Prog -> {0} \cup Proc], calls' \in 0..MaxCalls,
           \A g \in Prog : ilock[g] \notin {0, p} => ilock'[g] = ilock[g],
           Execing(v) => v.ip \in Prog /\ ilock'[v.ip] = p,
           Growing(v) => Entry(v.ip) = {},
           v.pc \in {"load", "proto"} => u[p].pc \in {"load", "proto"} /\ v.ip = u[p].ip /\ v.xp = u[p].xp /\ v.ta = u[p].ta,
           BootOK' PROVE IInv'
  <1>1. TypeOK /\ Good BY DEF IInv
  <1>2. TypeOK' BY <1>1, MineIs, SameSchedIs DEF TypeOK
  <1>3. LocalOK' BY <1>1, MineLocal DEF Good
  <1>4. RunOK' BY <1>1, MineRun DEF Good
  <1>5. LockOK'
    <2>1. r.lock <=> Locking(v) \/ (sched.pc = "out" /\ sched.p = p)
      BY <1>1 DEF Good, LockOK, SameHands, Mine
    <2> QED BY <1>1, <2>1, MineLock DEF Good, SameHands
  <1>6. SchedOK'
    <2>1. Live(r) /\ Live(proc[p]) BY DEF SameHands, Up, Live
    <2> QED BY <1>1, <2>1, MineSched DEF Good, SameHands
  <1>7. ExecOK'
    <2>1. v.pc \in {"load", "proto"} =>
               text'[v.xp].ip = v.ip /\ text'[v.xp].count = 1 /\ text'[v.xp].ccount = 0 /\ text'[v.xp].caddr = v.ta
      BY <1>1 DEF Good, ExecOK, Mine
    <2>2. Growing(v) => \A x \in Slot : text'[x].ip # v.ip BY DEF Entry
    <2>3. (\A q \in Proc : q # p /\ u[q].pc \in {"load", "proto"} => text'[u[q].xp] = text[u[q].xp])
          /\ \A x \in Slot : text'[x].ip \in {text[x].ip, NoProg} OBVIOUS
    <2>4. ExecOK BY <1>1 DEF Good
    <2> QED BY <1>1, <2>1, <2>2, <2>3, <2>4, MineExec
  <1>8. FamilyOK'
    <2>1. Up(proc[p]) /\ Up(r) /\ r.par = proc[p].par /\ (v.for = "image" <=> u[p].for = "image")
      BY DEF SameHands
    <2>2. FamilyOK BY <1>1 DEF Good
    <2> QED BY <1>1, <2>1, <2>2, MineFamily
  <1>9. CountOK'
    <2>1. \A x \in Slot : SameRefs(p, r, v, x) BY DEF SameHands
    <2> QED BY <1>1, <2>1, MineCount DEF Good
  <1>10. CoreOK'
    <2>1. CoreBlock(r, v) = CoreBlock(proc[p], u[p]) BY DEF SameHands, CoreBlock, Up, Live
    <2>2. CoreExec(r, v) = CoreExec(proc[p], u[p]) /\ CoreTa(v) = CoreTa(u[p]) /\ r.size = proc[p].size
      BY DEF SameHands
    <2>3. \A x \in Slot : CoreText(text'[x]) = CoreText(text[x]) OBVIOUS
    <2>4. CoreOK BY <1>1 DEF Good
    <2> QED BY <1>1, <2>1, <2>2, <2>3, <2>4, MineCoreStays
  <1>11. SwapOK'
    <2>1. SwapImage(r, v) = SwapImage(proc[p], u[p]) /\ SwapStatus(r, v) = SwapStatus(proc[p], u[p]) /\ r.img = proc[p].img
      BY DEF SameHands
    <2>2. \A x \in Slot : SwapText(text'[x]) = SwapText(text[x]) OBVIOUS
    <2>3. SwapOK BY <1>1 DEF Good
    <2> QED BY <1>1, <2>1, <2>2, <2>3, MineSwapStays
  <1> QED BY <1>2, <1>3, <1>4, <1>5, <1>6, <1>7, <1>8, <1>9, <1>10, <1>11 DEF IInv, Good

----
(* Steps that move no memory. *)

SlotSame(q, r) ==
    /\ r.load = q.load /\ r.lock = q.lock /\ r.addr = q.addr /\ r.size = q.size
    /\ r.img = q.img /\ r.text = q.text /\ r.par = q.par /\ r.ref = q.ref

(* Going to sleep changes the state and the channel only. *)
LEMMA AsleepIs ==
    ASSUME NEW q \in ProcSlot, NEW s \in {"run", "sleep", "wait"}, NEW c \in {"none", "io", "swapmap", "child", "tty"}
    PROVE  /\ Asleep(q, s, c) \in ProcSlot /\ SlotSame(q, Asleep(q, s, c))
           /\ Asleep(q, s, c).stat = s /\ Asleep(q, s, c).chan = c /\ Up(Asleep(q, s, c))
  BY DEF Asleep, ProcSlot, SlotSame, Up
(* The same of a sleep for a transfer. *)
LEMMA IoIs ==
    ASSUME NEW q \in ProcSlot
    PROVE  /\ Io(q) \in ProcSlot /\ SlotSame(q, Io(q))
           /\ Io(q).stat = "sleep" /\ Io(q).chan = "io" /\ Up(Io(q)) BY AsleepIs DEF Io
(* The same of setrun. *)
LEMMA RunnableIs ==
    ASSUME NEW q \in ProcSlot
    PROVE  /\ Runnable(q) \in ProcSlot /\ SlotSame(q, Runnable(q))
           /\ Runnable(q).stat = "run" /\ Runnable(q).chan = "none" /\ Up(Runnable(q))
  BY DEF Runnable, ProcSlot, SlotSame, Up

RegsSame(w, v) ==
    /\ v.ip = w.ip /\ v.a = w.a /\ v.da = w.da /\ v.ta = w.ta
    /\ v.xp = w.xp /\ v.otp = w.otp /\ v.for = w.for
(* Going on to another place changes no register. *)
LEMMA MovesIs ==
    ASSUME NEW w \in Locals, NEW l \in Labels
    PROVE  [w EXCEPT !.pc = l] \in Locals /\ [w EXCEPT !.pc = l].pc = l /\ RegsSame(w, [w EXCEPT !.pc = l])
  BY DEF Locals, RegsSame
(* The registers of a process that runs its program. *)
LEMMA HomeIs ==
    /\ Home \in Locals /\ Home.pc = "user" /\ Home.ip = NoProg /\ Home.a = 0 /\ Home.da = 0 /\ Home.ta = 0
    /\ Home.xp = 0 /\ Home.otp = 0 /\ Home.for = "none"
    /\ \A l \in Labels : [Home EXCEPT !.pc = l] \in Locals /\ [Home EXCEPT !.pc = l].pc = l
                         /\ RegsSame(Home, [Home EXCEPT !.pc = l])
    /\ [Home EXCEPT !.pc = "user"] = Home BY DEF Home, Locals, Labels, RegsSame

(* The bootstrap is in one of a few places and has no text until its exec. *)
LEMMA NotSmall ==
    ASSUME IInv, fault = "none", NEW p \in Proc,
           \/ u[p].pc \notin {"user", "header", "attach", "claim", "load", "proto", "commit"}
           \/ proc[p].text # 0 /\ u[p].pc # "commit"
    PROVE  ~Small(p) BY DEF IInv, Good, BootOK

(* A step that changes no size leaves nobody small. *)
LEMMA QuietBoot ==
    ASSUME IInv, fault = "none", NEW p, NEW r, NEW v, Mine(p, r, v), Live(proc[p]), ~Small(p),
           r.size = proc[p].size, Swelled(u[p]) => Swelled(v) PROVE BootOK'
  <1>1. proc[p].size = DBLK \/ Swelled(u[p]) BY DEF Small, Alive
  <1>2. TypeOK /\ BootOK BY DEF IInv, Good
  <1> QED BY <1>1, <1>2, MineBoot

(* A process inside the kernel goes on, or goes to sleep, with what it has. *)
Ashore == {"user", "header", "args", "wait", "reap"}
(* A process inside the kernel that goes on, or to sleep, with all it has  *)
(* keeps the invariant.                                                    *)
LEMMA QuietAt ==
    ASSUME IInv, NEW p \in Proc, NEW l, At(p, l),
           NEW r \in ProcSlot, SlotSame(proc[p], r), Up(r), NEW v \in Locals,
           proc' = [proc EXCEPT ![p] = r], u' = [u EXCEPT ![p] = v],
           UNCHANGED <<core, swap, text, sched, fault>>,
           \/ v = u[p] /\ l \notin {"writing", "reload"}
           \/ l = "load" /\ v.pc = "proto" /\ RegsSame(u[p], v)
           \/ l \in Ashore /\ v.pc \in Ashore /\ v.for = "none" /\ v.da = 0,
           StatusOK(p, r, v),
           run' \in {0} \cup Proc, v.pc \in {"attach", "claim", "commit"} => run' = p,
           r.chan = "child" => Zombies(p) = {},
           v.pc = "wait" => Children(p) # {},
           v.pc = "reap" => v.a \in Zombies(p),
           ilock' \in [Prog -> {0} \cup Proc], calls' \in 0..MaxCalls,
           \A g \in Prog : ilock[g] \notin {0, p} => ilock'[g] = ilock[g],
           Execing(v) => v.ip \in Prog /\ ilock'[v.ip] = p,
           Small(p) /\ l \in Ashore => v.otp = 0 /\ v.pc \in {"user", "header"} PROVE IInv'
  <1>1. /\ TypeOK /\ Good /\ fault = "none"
        /\ proc[p] \in ProcSlot /\ u[p] \in Locals /\ u[p].pc = l /\ run \in {0, p}
        /\ Up(proc[p]) /\ Live(proc[p])
        /\ RegsOK(p, proc[p], u[p])
        /\ proc[p].stat = "run" /\ proc[p].load
        /\ (proc[p].lock <=> Locking(u[p])) BY AtFacts
  <1>2. Mine(p, r, v) /\ SameSched BY <1>1 DEF Mine, SameSched
  <1>3. \A x : SameRefs(p, r, v, x)
    <2>1. l \in Ashore => u[p].for = "none" BY <1>1 DEF RegsOK, PurposeOK, Saving, Ashore, Locals
    <2>2. /\ Retargeted(v) <=> Retargeted(u[p])
          /\ Retargeted(v) => v.otp = u[p].otp
          /\ v.pc \in {"load", "proto"} <=> u[p].pc \in {"load", "proto"}
          /\ v.pc = "committed" <=> u[p].pc = "committed"
          /\ v.pc \in {"load", "proto", "committed"} => v.xp = u[p].xp
      BY <1>1, <2>1 DEF Retargeted, RegsSame, Ashore
    <2> QED BY <2>2, SameRefsFrom DEF SlotSame
  <1>4. l \in Ashore => u[p].da = 0 \/ proc[p].size = DBLK
    <2>1. CASE Small(p)
      <3>1. u[p].pc \in {"user", "header", "attach", "claim", "load", "proto", "commit"}
            /\ u[p].da = (IF u[p].pc \in {"user", "header"} THEN 0 ELSE 2) BY <1>1, <2>1 DEF Good, BootOK
      <3> QED BY <1>1, <3>1 DEF Ashore
    <2>2. CASE ~Small(p) BY <1>1, <2>2 DEF Small, Alive, RegsOK, SizeOK, Swelled, Ashore
    <2> QED BY <2>1, <2>2
  <1>5. SameHands(p, r, v)
    <2>1. l \in Ashore => u[p].for = "none" BY <1>1 DEF RegsOK, PurposeOK, Saving, Ashore, Locals
    <2>2. CoreExec(r, v) = CoreExec(proc[p], u[p]) BY <1>1, <1>4 DEF CoreExec, SlotSame, RegsSame
    <2>3. CoreTa(v) = CoreTa(u[p]) BY <1>1 DEF CoreTa, SlotSame, RegsSame, Ashore
    <2>4. SwapImage(r, v) = SwapImage(proc[p], u[p]) /\ SwapStatus(r, v) = SwapStatus(proc[p], u[p])
      BY <1>1 DEF SwapImage, SwapStatus, SlotSame, Up, Live, RegsSame, Ashore
    <2>5. (v.for = "image" <=> u[p].for = "image") /\ (Locking(v) <=> Locking(u[p]))
      BY <1>1, <2>1 DEF RegsSame, Ashore, Locking
    <2>6. Locking(v) => r.load BY <1>1 DEF SlotSame
    <2> QED BY <1>1, <1>3, <2>2, <2>3, <2>4, <2>5, <2>6 DEF SlotSame, SameHands
  <1>6. RegsOK(p, r, v)
    <2>1. l \in Ashore => u[p].for = "none" BY <1>1 DEF RegsOK, PurposeOK, Saving, Ashore, Locals
    <2>2. PurposeOK(r, v) BY <1>1 DEF RegsOK, PurposeOK, Saving, Ashore, SlotSame, RegsSame
    <2>3. AttachOK(r, v)
      BY <1>1, <2>1 DEF RegsOK, AttachOK, Ashore, SlotSame, RegsSame, Growing, Valve, Saving
    <2>4. SizeOK(r, v) BY <1>1 DEF RegsOK, SizeOK, Ashore, SlotSame, RegsSame, Swelled
    <2> QED BY <2>2, <2>3, <2>4 DEF RegsOK
  <1>7. BootOK'
    <2>1. CASE ~Small(p)
      <3>1. Swelled(u[p]) => Swelled(v) BY <1>1 DEF Swelled, Ashore
      <3> QED BY <1>1, <1>2, <2>1, <3>1, QuietBoot DEF SlotSame
    <2>2. CASE Small(p)
      <3>1. /\ proc[p].addr = 1 /\ proc[p].size = 1 /\ proc[p].load
            /\ proc[p].text = 0 \/ u[p].pc = "commit"
            /\ u[p].for = "none" /\ u[p].otp = 0
            /\ u[p].pc \in {"user", "header", "attach", "claim", "load", "proto", "commit"}
            /\ u[p].da = (IF u[p].pc \in {"user", "header"} THEN 0 ELSE 2)
            /\ u[p].pc \in {"user", "header"} => core = Rest(2)
            /\ u[p].pc = "attach" => core = Rest(DBLK + 2)
            /\ u[p].pc \in {"claim", "load", "proto"} => u[p].ta = DBLK + 2 /\ core = Rest(DBLK + TSIZE + 2)
            /\ \A x \in Slot : text[x] = NoText \/ (u[p].pc \in {"load", "proto"} /\ x = u[p].xp) \/ u[p].pc = "commit"
        BY <1>1, <2>2 DEF Good, BootOK
      <3>2. /\ r.addr = 1 /\ r.size = 1 /\ r.load
            /\ r.text = 0 \/ v.pc = "commit"
            /\ v.for = "none" /\ v.otp = 0
            /\ v.pc \in {"user", "header", "attach", "claim", "load", "proto", "commit"}
            /\ v.da = (IF v.pc \in {"user", "header"} THEN 0 ELSE 2)
            /\ v.pc \in {"user", "header"} => core' = Rest(2)
            /\ v.pc = "attach" => core' = Rest(DBLK + 2)
            /\ v.pc \in {"claim", "load", "proto"} => v.ta = DBLK + 2 /\ core' = Rest(DBLK + TSIZE + 2)
            /\ \A x \in Slot : text'[x] = NoText \/ (v.pc \in {"load", "proto"} /\ x = v.xp) \/ v.pc = "commit"
        <4>1. CASE l \in Ashore BY <1>1, <2>2, <3>1, <4>1 DEF SlotSame, Ashore
        <4>2. CASE l \notin Ashore BY <1>1, <3>1, <4>2 DEF SlotSame, RegsSame
        <4> QED BY <4>1, <4>2
      <3>3. TypeOK /\ BootOK BY <1>1 DEF Good
      <3> QED BY <1>2, <2>2, <3>2, <3>3, MineAlone
    <2> QED BY <2>1, <2>2
  <1>8. /\ v.pc \in {"load", "proto"} => u[p].pc \in {"load", "proto"} /\ v.ip = u[p].ip /\ v.xp = u[p].xp /\ v.ta = u[p].ta
        /\ Growing(v) => Entry(v.ip) = {}
    <2>1. Growing(v) => v = u[p] BY <1>1 DEF Growing, Saving, Ashore
    <2>2. Growing(u[p]) => Entry(u[p].ip) = {} BY <1>1 DEF Good, ExecOK
    <2> QED BY <1>1, <2>1, <2>2 DEF RegsSame, Ashore
  <1> QED BY <1>1, <1>2, <1>5, <1>6, <1>7, <1>8, Quiet

(* No swap space: the process sleeps on swapmap. *)
LEMMA SwapWaitsKeeps ==
    ASSUME IInv, NEW p \in Proc, SwapWaits(p) PROVE IInv'
  <1>1. PICK r : r = Asleep(proc[p], "sleep", "swapmap") OBVIOUS
  <1>2. PICK v : v = u[p] OBVIOUS
  <1>3. At(p, "getswap") BY DEF SwapWaits
  <1>4. /\ TypeOK /\ Good /\ fault = "none"
        /\ proc[p] \in ProcSlot /\ u[p] \in Locals /\ u[p].pc = "getswap"
        /\ proc[p].stat = "run" /\ proc[p].chan = "none" /\ Up(proc[p]) /\ run \in {0, p}
        /\ RegsOK(p, proc[p], u[p])
        /\ (Execing(u[p]) => u[p].ip \in Prog /\ ilock[u[p].ip] = p) BY <1>3, AtFacts
  <1>5. r \in ProcSlot /\ SlotSame(proc[p], r) /\ Up(r) /\ r.stat = "sleep" /\ r.chan = "swapmap"
    BY <1>1, <1>4, AsleepIs
  <1>6. v \in Locals /\ v = u[p] BY <1>2, <1>4
  <1>7. /\ proc' = [proc EXCEPT ![p] = r] /\ u' = [u EXCEPT ![p] = v]
        /\ UNCHANGED <<core, swap, text, sched, fault>> BY <1>1, <1>2, <1>4 DEF SwapWaits, TypeOK
  <1>8. StatusOK(p, r, v) BY <1>4, <1>5, <1>6 DEF RegsOK, StatusOK, SlotSame
  <1>9. /\ run' \in {0} \cup Proc /\ ilock' \in [Prog -> {0} \cup Proc] /\ calls' \in 0..MaxCalls
        /\ \A g \in Prog : ilock[g] \notin {0, p} => ilock'[g] = ilock[g]
        /\ Execing(v) => v.ip \in Prog /\ ilock'[v.ip] = p BY <1>4, <1>5, <1>6 DEF SwapWaits, TypeOK
  <1> QED BY <1>3, <1>4, <1>5, <1>6, <1>7, <1>8, <1>9, QuietAt DEF Ashore

(* The program waits for a slow device. *)
LEMMA PauseKeeps ==
    ASSUME IInv, NEW p \in Proc, Pause(p) PROVE IInv'
  <1>1. PICK r : r = Asleep(proc[p], "wait", "tty") OBVIOUS
  <1>2. PICK v : v = u[p] OBVIOUS
  <1>3. At(p, "user") BY DEF Pause, Program
  <1>4. /\ TypeOK /\ Good /\ fault = "none"
        /\ proc[p] \in ProcSlot /\ u[p] \in Locals /\ u[p].pc = "user"
        /\ proc[p].stat = "run" /\ proc[p].chan = "none" /\ Up(proc[p]) /\ run \in {0, p}
        /\ RegsOK(p, proc[p], u[p])
        /\ (Execing(u[p]) => u[p].ip \in Prog /\ ilock[u[p].ip] = p) BY <1>3, AtFacts
  <1>5. r \in ProcSlot /\ SlotSame(proc[p], r) /\ Up(r) /\ r.stat = "wait" /\ r.chan = "tty"
    BY <1>1, <1>4, AsleepIs
  <1>6. v \in Locals /\ v = u[p] BY <1>2, <1>4
  <1>7. /\ proc' = [proc EXCEPT ![p] = r] /\ u' = [u EXCEPT ![p] = v]
        /\ UNCHANGED <<core, swap, text, sched, fault>> BY <1>1, <1>2, <1>4 DEF Pause, TypeOK
  <1>8. StatusOK(p, r, v) BY <1>4, <1>5, <1>6 DEF RegsOK, StatusOK, SlotSame
  <1>9. /\ run' \in {0} \cup Proc /\ ilock' \in [Prog -> {0} \cup Proc] /\ calls' \in 0..MaxCalls
        /\ \A g \in Prog : ilock[g] \notin {0, p} => ilock'[g] = ilock[g]
        /\ Execing(v) => v.ip \in Prog /\ ilock'[v.ip] = p BY <1>4, <1>5, <1>6 DEF Pause, TypeOK
  <1>10. ~Small(p) BY <1>4, NotSmall DEF Pause, Program
  <1> QED BY <1>3, <1>4, <1>5, <1>6, <1>7, <1>8, <1>9, <1>10, QuietAt DEF Ashore

(* The image of the program is read. *)
LEMMA LoadedKeeps ==
    ASSUME IInv, NEW p \in Proc, Loaded(p) PROVE IInv'
  <1>1. PICK r : r = Io(proc[p]) OBVIOUS
  <1>2. PICK v : v = [u[p] EXCEPT !.pc = "proto"] OBVIOUS
  <1>3. At(p, "load") BY DEF Loaded
  <1>4. /\ TypeOK /\ Good /\ fault = "none"
        /\ proc[p] \in ProcSlot /\ u[p] \in Locals /\ u[p].pc = "load"
        /\ proc[p].stat = "run" /\ proc[p].chan = "none" /\ Up(proc[p]) /\ run \in {0, p}
        /\ RegsOK(p, proc[p], u[p])
        /\ (Execing(u[p]) => u[p].ip \in Prog /\ ilock[u[p].ip] = p) BY <1>3, AtFacts
  <1>5. r \in ProcSlot /\ SlotSame(proc[p], r) /\ Up(r) /\ r.stat = "sleep" /\ r.chan = "io"
    BY <1>1, <1>4, IoIs
  <1>6. v \in Locals /\ v.pc = "proto" /\ RegsSame(u[p], v) BY <1>2, <1>4, MovesIs DEF Labels
  <1>7. /\ proc' = [proc EXCEPT ![p] = r] /\ u' = [u EXCEPT ![p] = v]
        /\ UNCHANGED <<core, swap, text, sched, fault>> BY <1>1, <1>2, <1>4 DEF Loaded, Goto, TypeOK
  <1>8. StatusOK(p, r, v) BY <1>4, <1>5, <1>6 DEF RegsOK, StatusOK, SlotSame
  <1>9. /\ run' \in {0} \cup Proc /\ ilock' \in [Prog -> {0} \cup Proc] /\ calls' \in 0..MaxCalls
        /\ \A g \in Prog : ilock[g] \notin {0, p} => ilock'[g] = ilock[g]
        /\ Execing(v) => v.ip \in Prog /\ ilock'[v.ip] = p
    BY <1>4, <1>5, <1>6 DEF Loaded, Execing, RegsSame, TypeOK
  <1> QED BY <1>3, <1>4, <1>5, <1>6, <1>7, <1>8, <1>9, QuietAt DEF Ashore

(* iput sleeps in the middle of xfree. *)
LEMMA IputWaitsKeeps ==
    ASSUME IInv, NEW p \in Proc, IputWaits(p) PROVE IInv'
  <1>1. PICK r : r = Io(proc[p]) OBVIOUS
  <1>2. PICK v : v = u[p] OBVIOUS
  <1>3. At(p, "committed") BY DEF IputWaits
  <1>4. /\ TypeOK /\ Good /\ fault = "none"
        /\ proc[p] \in ProcSlot /\ u[p] \in Locals /\ u[p].pc = "committed"
        /\ proc[p].stat = "run" /\ proc[p].chan = "none" /\ Up(proc[p]) /\ run \in {0, p}
        /\ RegsOK(p, proc[p], u[p])
        /\ (Execing(u[p]) => u[p].ip \in Prog /\ ilock[u[p].ip] = p) BY <1>3, AtFacts
  <1>5. r \in ProcSlot /\ SlotSame(proc[p], r) /\ Up(r) /\ r.stat = "sleep" /\ r.chan = "io"
    BY <1>1, <1>4, IoIs
  <1>6. v \in Locals /\ v = u[p] BY <1>2, <1>4
  <1>7. /\ proc' = [proc EXCEPT ![p] = r] /\ u' = [u EXCEPT ![p] = v]
        /\ UNCHANGED <<core, swap, text, sched, fault>> BY <1>1, <1>2, <1>4 DEF IputWaits, TypeOK
  <1>8. StatusOK(p, r, v) BY <1>4, <1>5, <1>6 DEF RegsOK, StatusOK, SlotSame
  <1>9. /\ run' \in {0} \cup Proc /\ ilock' \in [Prog -> {0} \cup Proc] /\ calls' \in 0..MaxCalls
        /\ \A g \in Prog : ilock[g] \notin {0, p} => ilock'[g] = ilock[g]
        /\ Execing(v) => v.ip \in Prog /\ ilock'[v.ip] = p BY <1>4, <1>5, <1>6 DEF IputWaits, TypeOK
  <1> QED BY <1>3, <1>4, <1>5, <1>6, <1>7, <1>8, <1>9, QuietAt DEF Ashore

(* wait sleeps when no child is a zombie. *)
LEMMA WaitSleepsKeeps ==
    ASSUME IInv, NEW p \in Proc, WaitSleeps(p) PROVE IInv'
  <1>1. PICK r : r = Asleep(proc[p], "wait", "child") OBVIOUS
  <1>2. PICK v : v = u[p] OBVIOUS
  <1>3. At(p, "wait") BY DEF WaitSleeps
  <1>4. /\ TypeOK /\ Good /\ fault = "none"
        /\ proc[p] \in ProcSlot /\ u[p] \in Locals /\ u[p].pc = "wait"
        /\ proc[p].stat = "run" /\ proc[p].chan = "none" /\ Up(proc[p]) /\ run \in {0, p}
        /\ RegsOK(p, proc[p], u[p])
        /\ (Execing(u[p]) => u[p].ip \in Prog /\ ilock[u[p].ip] = p) BY <1>3, AtFacts
  <1>5. r \in ProcSlot /\ SlotSame(proc[p], r) /\ Up(r) /\ r.stat = "wait" /\ r.chan = "child"
    BY <1>1, <1>4, AsleepIs
  <1>6. v \in Locals /\ v = u[p] BY <1>2, <1>4
  <1>7. /\ proc' = [proc EXCEPT ![p] = r] /\ u' = [u EXCEPT ![p] = v]
        /\ UNCHANGED <<core, swap, text, sched, fault>> BY <1>1, <1>2, <1>4 DEF WaitSleeps, TypeOK
  <1>8. StatusOK(p, r, v) BY <1>4, <1>5, <1>6 DEF RegsOK, StatusOK, SlotSame
  <1>9. /\ run' \in {0} \cup Proc /\ ilock' \in [Prog -> {0} \cup Proc] /\ calls' \in 0..MaxCalls
        /\ \A g \in Prog : ilock[g] \notin {0, p} => ilock'[g] = ilock[g]
        /\ Execing(v) => v.ip \in Prog /\ ilock'[v.ip] = p BY <1>4, <1>5, <1>6 DEF WaitSleeps, TypeOK
  <1>10. ~Small(p) BY <1>4, NotSmall
  <1>11. Zombies(p) = {} /\ Children(p) # {} BY <1>4 DEF WaitSleeps, Good, FamilyOK
  <1> QED BY <1>3, <1>4, <1>5, <1>6, <1>7, <1>8, <1>9, <1>10, <1>11, QuietAt DEF Ashore

(* wait begins. *)
LEMMA WaitKeeps ==
    ASSUME IInv, NEW p \in Proc, Wait(p) PROVE IInv'
  <1>1. PICK r : r = proc[p] OBVIOUS
  <1>2. PICK v : v = [Home EXCEPT !.pc = "wait"] OBVIOUS
  <1>3. At(p, "user") BY DEF Wait, Program
  <1>4. /\ TypeOK /\ Good /\ fault = "none"
        /\ proc[p] \in ProcSlot /\ u[p] \in Locals /\ u[p].pc = "user"
        /\ proc[p].stat = "run" /\ proc[p].chan = "none" /\ Up(proc[p]) /\ run \in {0, p}
        /\ RegsOK(p, proc[p], u[p])
        /\ (Execing(u[p]) => u[p].ip \in Prog /\ ilock[u[p].ip] = p) BY <1>3, AtFacts
  <1>5. r \in ProcSlot /\ SlotSame(proc[p], r) /\ Up(r) /\ r.stat = "run" /\ r.chan = "none"
    BY <1>1, <1>4 DEF SlotSame
  <1>6. v \in Locals /\ v.pc = "wait" /\ RegsSame(Home, v) BY <1>2, <1>4, HomeIs DEF Labels
  <1>7. /\ proc' = [proc EXCEPT ![p] = r] /\ u' = [u EXCEPT ![p] = v]
        /\ UNCHANGED <<core, swap, text, sched, fault>> BY <1>1, <1>2, <1>4 DEF Wait, Goto, TypeOK
  <1>8. StatusOK(p, r, v) BY <1>4, <1>5, <1>6 DEF RegsOK, StatusOK, SlotSame
  <1>9. /\ run' \in {0} \cup Proc /\ ilock' \in [Prog -> {0} \cup Proc] /\ calls' \in 0..MaxCalls
        /\ \A g \in Prog : ilock[g] \notin {0, p} => ilock'[g] = ilock[g]
        /\ Execing(v) => v.ip \in Prog /\ ilock'[v.ip] = p
    BY <1>4, <1>5, <1>6, HomeIs DEF Wait, Execing, RegsSame, TypeOK
  <1>10. ~Small(p) /\ Children(p) # {} BY <1>4, NotSmall DEF Wait, Program
  <1>11. v.for = "none" /\ v.da = 0 BY <1>6, HomeIs DEF RegsSame
  <1> QED BY <1>3, <1>4, <1>5, <1>6, <1>7, <1>8, <1>9, <1>10, <1>11, QuietAt DEF Ashore

(* wait reads the status of a zombie. *)
LEMMA StatusKeeps ==
    ASSUME IInv, NEW p \in Proc, Status(p) PROVE IInv'
  <1>1. PICK r : r = Io(proc[p]) OBVIOUS
  <1>2. PICK v : v = [[u[p] EXCEPT !.a = Least(Zombies(p))] EXCEPT !.pc = "reap"] OBVIOUS
  <1>3. At(p, "wait") BY DEF Status
  <1>4. /\ TypeOK /\ Good /\ fault = "none"
        /\ proc[p] \in ProcSlot /\ u[p] \in Locals /\ u[p].pc = "wait"
        /\ proc[p].stat = "run" /\ proc[p].chan = "none" /\ Up(proc[p]) /\ run \in {0, p}
        /\ RegsOK(p, proc[p], u[p])
        /\ (Execing(u[p]) => u[p].ip \in Prog /\ ilock[u[p].ip] = p) BY <1>3, AtFacts
  <1>0. Least(Zombies(p)) \in Zombies(p) /\ Least(Zombies(p)) \in Nat
    <2>1. Zombies(p) \subseteq 1..NPROC /\ Zombies(p) # {} BY DEF Status, Zombies, Children, Proc
    <2> QED BY <2>1, Numbers, LeastIn
  <1>5. r \in ProcSlot /\ SlotSame(proc[p], r) /\ Up(r) /\ r.stat = "sleep" /\ r.chan = "io"
    BY <1>1, <1>4, IoIs
  <1>6. v \in Locals /\ v.pc = "reap" /\ v.a \in Zombies(p) /\ v.da = u[p].da /\ v.for = u[p].for
    BY <1>2, <1>4, <1>0 DEF Labels, Locals
  <1>7. /\ proc' = [proc EXCEPT ![p] = r] /\ u' = [u EXCEPT ![p] = v]
        /\ UNCHANGED <<core, swap, text, sched, fault>> BY <1>1, <1>2, <1>4 DEF Status, Goto, TypeOK
  <1>8. StatusOK(p, r, v) BY <1>4, <1>5, <1>6 DEF RegsOK, StatusOK, SlotSame
  <1>9. /\ run' \in {0} \cup Proc /\ ilock' \in [Prog -> {0} \cup Proc] /\ calls' \in 0..MaxCalls
        /\ \A g \in Prog : ilock[g] \notin {0, p} => ilock'[g] = ilock[g]
        /\ Execing(v) => v.ip \in Prog /\ ilock'[v.ip] = p
    BY <1>4, <1>5, <1>6 DEF Status, Execing, RegsOK, PurposeOK, Saving, TypeOK
  <1>10. ~Small(p) BY <1>4, NotSmall
  <1>11. v.for = "none" /\ v.da = 0
    BY <1>4, <1>6, <1>10, AtFacts, <1>3 DEF RegsOK, PurposeOK, SizeOK, Saving, Locals, Small, Swelled
  <1> QED BY <1>3, <1>4, <1>5, <1>6, <1>7, <1>8, <1>9, <1>10, <1>11, QuietAt DEF Ashore

(* exec finds no program. *)
LEMMA ExecBadKeeps ==
    ASSUME IInv, NEW p \in Proc, ExecBad(p) PROVE IInv'
  <1>1. PICK r : r = proc[p] OBVIOUS
  <1>2. PICK v : v = Home OBVIOUS
  <1>3. At(p, "header") BY DEF ExecBad
  <1>4. /\ TypeOK /\ Good /\ fault = "none"
        /\ proc[p] \in ProcSlot /\ u[p] \in Locals /\ u[p].pc = "header"
        /\ proc[p].stat = "run" /\ proc[p].chan = "none" /\ Up(proc[p]) /\ run \in {0, p}
        /\ RegsOK(p, proc[p], u[p])
        /\ (Execing(u[p]) => u[p].ip \in Prog /\ ilock[u[p].ip] = p) BY <1>3, AtFacts
  <1>5. r \in ProcSlot /\ SlotSame(proc[p], r) /\ Up(r) /\ r.stat = "run" /\ r.chan = "none"
    BY <1>1, <1>4 DEF SlotSame
  <1>6. v \in Locals /\ v.pc = "user" /\ v = Home /\ v.for = "none" /\ v.da = 0 /\ v.otp = 0
    BY <1>2, <1>4, HomeIs
  <1>7. /\ proc' = [proc EXCEPT ![p] = r] /\ u' = [u EXCEPT ![p] = v]
        /\ UNCHANGED <<core, swap, text, sched, fault>>
    BY <1>1, <1>2, <1>4, HomeIs DEF ExecBad, Goto, Returns, TypeOK
  <1>8. StatusOK(p, r, v) BY <1>4, <1>5, <1>6 DEF RegsOK, StatusOK, SlotSame
  <1>9. /\ run' \in {0} \cup Proc /\ ilock' \in [Prog -> {0} \cup Proc] /\ calls' \in 0..MaxCalls
        /\ \A g \in Prog : ilock[g] \notin {0, p} => ilock'[g] = ilock[g]
        /\ Execing(v) => v.ip \in Prog /\ ilock'[v.ip] = p
    BY <1>4, <1>5, <1>6, HomeIs DEF ExecBad, Returns, Unlocked, Execing, TypeOK
  <1> QED BY <1>3, <1>4, <1>5, <1>6, <1>7, <1>8, <1>9, QuietAt DEF Ashore

(* exec returns to the new program. *)
LEMMA ExecDoneKeeps ==
    ASSUME IInv, NEW p \in Proc, ExecDone(p) PROVE IInv'
  <1>1. PICK r : r = proc[p] OBVIOUS
  <1>2. PICK v : v = Home OBVIOUS
  <1>3. At(p, "args") BY DEF ExecDone
  <1>4. /\ TypeOK /\ Good /\ fault = "none"
        /\ proc[p] \in ProcSlot /\ u[p] \in Locals /\ u[p].pc = "args"
        /\ proc[p].stat = "run" /\ proc[p].chan = "none" /\ Up(proc[p]) /\ run \in {0, p}
        /\ RegsOK(p, proc[p], u[p])
        /\ (Execing(u[p]) => u[p].ip \in Prog /\ ilock[u[p].ip] = p) BY <1>3, AtFacts
  <1>5. r \in ProcSlot /\ SlotSame(proc[p], r) /\ Up(r) /\ r.stat = "run" /\ r.chan = "none"
    BY <1>1, <1>4 DEF SlotSame
  <1>6. v \in Locals /\ v.pc = "user" /\ v = Home /\ v.for = "none" /\ v.da = 0 /\ v.otp = 0
    BY <1>2, <1>4, HomeIs
  <1>7. /\ proc' = [proc EXCEPT ![p] = r] /\ u' = [u EXCEPT ![p] = v]
        /\ UNCHANGED <<core, swap, text, sched, fault>>
    BY <1>1, <1>2, <1>4, HomeIs DEF ExecDone, Goto, Returns, TypeOK
  <1>8. StatusOK(p, r, v) BY <1>4, <1>5, <1>6 DEF RegsOK, StatusOK, SlotSame
  <1>9. /\ run' \in {0} \cup Proc /\ ilock' \in [Prog -> {0} \cup Proc] /\ calls' \in 0..MaxCalls
        /\ \A g \in Prog : ilock[g] \notin {0, p} => ilock'[g] = ilock[g]
        /\ Execing(v) => v.ip \in Prog /\ ilock'[v.ip] = p
    BY <1>4, <1>5, <1>6, HomeIs DEF ExecDone, Returns, Unlocked, Execing, TypeOK
  <1> QED BY <1>3, <1>4, <1>5, <1>6, <1>7, <1>8, <1>9, QuietAt DEF Ashore

(* The bound on calls. *)
LEMMA CallType == ASSUME TypeOK, Call PROVE calls' \in 0..MaxCalls BY Numbers DEF TypeOK, Call
(* exec locks the inode of the program and reads its header. *)
LEMMA ExecKeeps ==
    ASSUME IInv, NEW p \in Proc, NEW g \in Prog, Exec(p, g) PROVE IInv'
  <1>1. PICK r : r = Io(proc[p]) OBVIOUS
  <1>2. PICK v : v = [[Home EXCEPT !.ip = g] EXCEPT !.pc = "header"] OBVIOUS
  <1>3. At(p, "user") BY DEF Exec
  <1>4. /\ TypeOK /\ Good /\ fault = "none"
        /\ proc[p] \in ProcSlot /\ u[p] \in Locals /\ u[p].pc = "user"
        /\ proc[p].stat = "run" /\ proc[p].chan = "none" /\ Up(proc[p]) /\ run \in {0, p}
        /\ RegsOK(p, proc[p], u[p])
        /\ (Execing(u[p]) => u[p].ip \in Prog /\ ilock[u[p].ip] = p) BY <1>3, AtFacts
  <1>5. r \in ProcSlot /\ SlotSame(proc[p], r) /\ Up(r) /\ r.stat = "sleep" /\ r.chan = "io"
    BY <1>1, <1>4, IoIs
  <1>6. v \in Locals /\ v.pc = "header" /\ v.ip = g /\ v.for = "none" /\ v.da = 0 /\ v.otp = 0
    BY <1>2, <1>4 DEF Home, Locals, Labels
  <1>7. /\ proc' = [proc EXCEPT ![p] = r] /\ u' = [u EXCEPT ![p] = v]
        /\ UNCHANGED <<core, swap, text, sched, fault>> BY <1>1, <1>2, <1>4 DEF Exec, Goto, TypeOK
  <1>8. StatusOK(p, r, v) BY <1>4, <1>5, <1>6 DEF RegsOK, StatusOK, SlotSame
  <1>9. /\ run' \in {0} \cup Proc /\ ilock' \in [Prog -> {0} \cup Proc]
        /\ \A h \in Prog : ilock[h] \notin {0, p} => ilock'[h] = ilock[h]
        /\ Execing(v) => v.ip \in Prog /\ ilock'[v.ip] = p BY <1>4, <1>5, <1>6 DEF Exec, Execing, TypeOK
  <1>10. calls' \in 0..MaxCalls BY <1>4, CallType DEF Exec
  <1> QED BY <1>3, <1>4, <1>5, <1>6, <1>7, <1>8, <1>9, <1>10, QuietAt DEF Ashore

(* A process that is woken where it sleeps. *)
LEMMA WakesKeeps ==
    ASSUME IInv, fault = "none", NEW p \in Proc, run = 0, UNCHANGED <<core, swap, text, ilock, run, fault, calls>>,
           proc' = [proc EXCEPT ![p] = Runnable(@)], sched' = Runout(~proc[p].load), Up(proc[p]),
           NEW v, u' = [u EXCEPT ![p] = v], StatusOK(p, Runnable(proc[p]), v),
           v = u[p] \/ (v = Home /\ u[p].pc \in {"user", "wait"}) PROVE IInv'
  <1>1. PICK r : r = Runnable(proc[p]) OBVIOUS
  <1>2. /\ TypeOK /\ Good
        /\ proc[p] \in ProcSlot /\ u[p] \in Locals BY DEF IInv, TypeOK
  <1>3. RegsOK(p, proc[p], u[p]) BY <1>2 DEF Good, LocalOK, RegsOK
  <1>4. r \in ProcSlot /\ SlotSame(proc[p], r) /\ Up(r) /\ r.stat = "run" /\ r.chan = "none"
    BY <1>1, <1>2, RunnableIs
  <1>5. v \in Locals BY <1>2, HomeIs
  <1>6. Mine(p, r, v) /\ SameSched BY <1>1, <1>2, <1>4, <1>5 DEF Mine, SameSched, Runout, TypeOK
  <1>7. u[p].pc \in {"user", "wait"} => u[p].for = "none" /\ (u[p].da = 0 \/ proc[p].size = DBLK)
    <2>1. u[p].pc \in {"user", "wait"} => u[p].for = "none"
      BY <1>2, <1>3 DEF RegsOK, PurposeOK, Saving, Locals
    <2>2. u[p].pc = "user" => u[p].da = 0 BY <1>3, HomeIs DEF RegsOK, StatusOK
    <2>3. u[p].pc = "wait" => u[p].da = 0 \/ proc[p].size = DBLK
      <3>1. u[p].pc = "wait" => ~Small(p) BY NotSmall
      <3> QED BY <1>2, <3>1 DEF Small, Alive, Live, Up, Swelled
    <2> QED BY <2>1, <2>2, <2>3
  <1>8. \A x : SameRefs(p, r, v, x) BY <1>4, <1>7, SameRefsFrom, HomeIs DEF SlotSame, Retargeted
  <1>9. SameHands(p, r, v)
    <2>1. CoreExec(r, v) = CoreExec(proc[p], u[p]) BY <1>4, <1>7, HomeIs DEF CoreExec, SlotSame
    <2>2. CoreTa(v) = CoreTa(u[p]) BY HomeIs DEF CoreTa
    <2>3. SwapImage(r, v) = SwapImage(proc[p], u[p]) /\ SwapStatus(r, v) = SwapStatus(proc[p], u[p])
      BY <1>4, HomeIs DEF SwapImage, SwapStatus, SlotSame, Up, Live
    <2>4. (v.for = "image" <=> u[p].for = "image") /\ (Locking(v) <=> Locking(u[p]))
      BY <1>7, HomeIs DEF Locking
    <2>5. Locking(v) => r.load BY <1>2, <1>4, <2>4 DEF Good, LockOK, SlotSame
    <2> QED BY <1>4, <1>8, <2>1, <2>2, <2>3, <2>4, <2>5 DEF SlotSame, SameHands
  <1>10. RegsOK(p, r, v)
    <2>1. PurposeOK(r, v) BY <1>3, <1>4, HomeIs DEF RegsOK, PurposeOK, Saving, SlotSame
    <2>2. AttachOK(r, v) BY <1>3, <1>4, <1>7, HomeIs DEF RegsOK, AttachOK, SlotSame, Growing, Valve, Saving
    <2>3. SizeOK(r, v) BY <1>3, <1>4, HomeIs DEF RegsOK, SizeOK, SlotSame, Swelled
    <2> QED BY <1>1, <2>1, <2>2, <2>3 DEF RegsOK
  <1>11. BootOK'
    <2>1. CASE ~Small(p)
      <3>1. Swelled(u[p]) => Swelled(v) BY DEF Swelled
      <3>2. Live(proc[p]) BY DEF Up, Live
      <3> QED BY <1>4, <1>6, <2>1, <3>1, <3>2, QuietBoot DEF SlotSame
    <2>2. CASE Small(p)
      <3>1. /\ proc[p].addr = 1 /\ proc[p].size = 1 /\ proc[p].load
            /\ proc[p].text = 0 \/ u[p].pc = "commit"
            /\ u[p].for = "none" /\ u[p].otp = 0
            /\ u[p].pc \in {"user", "header", "attach", "claim", "load", "proto", "commit"}
            /\ u[p].da = (IF u[p].pc \in {"user", "header"} THEN 0 ELSE 2)
            /\ u[p].pc \in {"user", "header"} => core = Rest(2)
            /\ u[p].pc = "attach" => core = Rest(DBLK + 2)
            /\ u[p].pc \in {"claim", "load", "proto"} => u[p].ta = DBLK + 2 /\ core = Rest(DBLK + TSIZE + 2)
            /\ \A x \in Slot : text[x] = NoText \/ (u[p].pc \in {"load", "proto"} /\ x = u[p].xp) \/ u[p].pc = "commit"
        BY <1>2, <2>2 DEF Good, BootOK
      <3>2. u[p].pc = "user" => u[p] = Home BY <1>3 DEF RegsOK, StatusOK
      <3>3. v = u[p] BY <3>1, <3>2
      <3>4. TypeOK /\ BootOK BY <1>2 DEF Good
      <3> QED BY <1>4, <1>6, <2>2, <3>1, <3>3, <3>4, MineAlone DEF SlotSame
    <2> QED BY <2>1, <2>2
  <1>12. /\ v.pc \in {"attach", "claim", "commit"} => run' = p
         /\ v.pc = "wait" => Children(p) # {}
         /\ v.pc = "reap" => v.a \in Zombies(p) BY <1>2, HomeIs DEF Good, RunOK, FamilyOK
  <1>13. /\ Execing(v) => v.ip \in Prog /\ ilock'[v.ip] = p
         /\ Growing(v) => Entry(v.ip) = {}
    <2>1. CASE v = u[p] BY <1>2, <2>1 DEF Good, ExecOK
    <2>2. CASE v = Home BY <2>2, HomeIs DEF Execing, Growing, Saving
    <2> QED BY <2>1, <2>2
  <1>14. v.pc \in {"load", "proto"} => u[p].pc \in {"load", "proto"} /\ v.ip = u[p].ip /\ v.xp = u[p].xp /\ v.ta = u[p].ta
    BY HomeIs
  <1>15. /\ ilock' \in [Prog -> {0} \cup Proc] /\ calls' \in 0..MaxCalls /\ run' \in {0} \cup Proc
    BY <1>2 DEF TypeOK
  <1> QED BY <1>4, <1>6, <1>9, <1>10, <1>11, <1>12, <1>13, <1>14, <1>15, Quiet

(* A transfer ends and its process is woken. *)
LEMMA IoDoneKeeps ==
    ASSUME IInv, NEW p \in Proc, IoDone(p) PROVE IInv'
  <1>1. fault = "none" /\ run = 0 /\ proc[p].chan = "io" BY DEF IoDone, Between
  <1>2. proc[p] \in ProcSlot /\ RegsOK(p, proc[p], u[p]) /\ u' = [u EXCEPT ![p] = u[p]]
    BY <1>1 DEF IInv, Good, TypeOK, LocalOK, RegsOK, IoDone
  <1>3. proc[p].stat = "sleep" /\ Up(proc[p]) BY <1>1, <1>2 DEF RegsOK, StatusOK, Up
  <1>4. StatusOK(p, Runnable(proc[p]), u[p]) BY <1>1, <1>2, <1>3, RunnableIs DEF RegsOK, StatusOK, SlotSame
  <1> QED BY <1>1, <1>2, <1>3, <1>4, WakesKeeps DEF IoDone

(* A signal ends an interruptible sleep. *)
LEMMA PsignalKeeps ==
    ASSUME IInv, NEW p \in Proc, Psignal(p) PROVE IInv'
  <1>1. fault = "none" /\ run = 0 /\ proc[p].stat = "wait" BY DEF Psignal, Between
  <1>2. proc[p] \in ProcSlot /\ RegsOK(p, proc[p], u[p]) /\ u' = [u EXCEPT ![p] = Home]
    BY <1>1, HomeIs DEF IInv, Good, TypeOK, LocalOK, RegsOK, Psignal, Goto
  <1>3. u[p].pc \in {"user", "wait"} /\ Up(proc[p]) BY <1>1, <1>2 DEF RegsOK, StatusOK, Up
  <1>4. StatusOK(p, Runnable(proc[p]), Home)
    BY <1>1, <1>2, <1>3, RunnableIs, HomeIs DEF RegsOK, StatusOK, SlotSame
  <1> QED BY <1>1, <1>2, <1>3, <1>4, WakesKeeps DEF Psignal

----
(* Steps that move memory: what a few holders and the free list had is     *)
(* dealt out again among them.                                             *)

Redealt(M, D, F, E, G) ==
    /\ M \subseteq Holders
    /\ \A g \in Holders \ M : E[g] = D[g]
    /\ \A g, h \in M : g # h => E[g] \cap E[h] = {}
    /\ \A g \in M : E[g] \cap G = {}
    /\ \A k : (k \in G \/ \E g \in M : k \in E[g]) <=> (k \in F \/ \E g \in M : k \in D[g])

(* Units dealt out again among some holders and the free list are still    *)
(* divided.                                                                *)
LEMMA Redeal ==
    ASSUME NEW U, NEW F, NEW D, Apart(U, F, D), NEW M, NEW E, NEW G, Redealt(M, D, F, E, G)
    PROVE  Apart(U, G, E)
  <1> DEFINE Pool == {k \in U : k \in F \/ \E g \in M : k \in D[g]}
  <1>0. /\ M \subseteq Holders
        /\ \A g \in Holders \ M : E[g] = D[g]
        /\ \A g, h \in M : g # h => E[g] \cap E[h] = {}
        /\ \A g \in M : E[g] \cap G = {}
        /\ \A k : (k \in G \/ \E g \in M : k \in E[g]) <=> (k \in F \/ \E g \in M : k \in D[g])
    BY DEF Redealt
  <1>1. \A k : k \in Pool <=> k \in F \/ \E g \in M : k \in D[g] BY <1>0 DEF Apart
  <1>2. \A k : k \in Pool <=> k \in G \/ \E g \in M : k \in E[g] BY <1>0, <1>1
  <1>3. Pool \subseteq U /\ G \subseteq Pool /\ \A g \in M : E[g] \subseteq Pool BY <1>0, <1>2
  <1>4. \A g \in Holders \ M : D[g] \subseteq U /\ D[g] \cap Pool = {} BY <1>0, <1>1 DEF Apart
  <1>5. \A k \in U : k \in Pool \/ \E g \in Holders \ M : k \in D[g] BY <1>1 DEF Apart
  <1> HIDE DEF Pool
  <1>6. \A h \in Holders : E[h] \subseteq U \ G BY <1>0, <1>3, <1>4
  <1>7. \A k \in U \ G : \E h \in Holders : k \in E[h]
    <2>1. ASSUME NEW k \in U, k \notin G PROVE \E h \in Holders : k \in E[h]
      <3>1. CASE k \in Pool BY <1>0, <1>2, <2>1, <3>1
      <3>2. CASE k \notin Pool BY <1>0, <1>5, <2>1, <3>2
      <3> QED BY <3>1, <3>2
    <2> QED BY <2>1
  <1>8. ASSUME NEW g \in Holders, NEW h \in Holders, g # h PROVE E[g] \cap E[h] = {}
    <2>1. CASE g \in M /\ h \in M BY <1>0, <1>8, <2>1
    <2>2. CASE g \in M /\ h \notin M BY <1>0, <1>3, <1>4, <2>2
    <2>3. CASE g \notin M /\ h \in M BY <1>0, <1>3, <1>4, <2>3
    <2>4. CASE g \notin M /\ h \notin M BY <1>0, <1>8, <2>4 DEF Apart
    <2> QED BY <2>1, <2>2, <2>3, <2>4
  <1> QED BY <1>3, <1>6, <1>7, <1>8 DEF Apart

(* Five sets that have no member in common.                                *)
Five(a, b, c, d, e) ==
    /\ a \cap b = {} /\ a \cap c = {} /\ a \cap d = {} /\ a \cap e = {}
    /\ b \cap c = {} /\ b \cap d = {} /\ b \cap e = {}
    /\ c \cap d = {} /\ c \cap e = {} /\ d \cap e = {}

CoreTextAt(T, y) == IF y \in Slot THEN CoreText(T[y]) ELSE {}
SwapTextAt(T, y) == IF y \in Slot THEN SwapText(T[y]) ELSE {}

(* What p, a text y and the free list have.                                *)
LEMMA CoreHeld ==
    ASSUME CoreOK, NEW p \in Proc, NEW y
    PROVE  /\ Five(core, CoreBlock(proc[p], u[p]), CoreExec(proc[p], u[p]), CoreTa(u[p]), CoreTextAt(text, y))
           /\ core \subseteq 1..NCORE /\ CoreBlock(proc[p], u[p]) \subseteq 1..NCORE
           /\ CoreExec(proc[p], u[p]) \subseteq 1..NCORE /\ CoreTa(u[p]) \subseteq 1..NCORE
           /\ CoreTextAt(text, y) \subseteq 1..NCORE
  <1> DEFINE b == <<"block", p>>
             e == <<"exec", p>>
             t == <<"ta", p>>
             x == <<"text", y>>
  <1>1. {b, e, t} \subseteq Holders /\ b # e /\ b # t /\ e # t /\ x \notin {b, e, t} /\ (y \in Slot => x \in Holders)
    BY HolderIs
  <1>2. /\ CoreOf[b] = CoreBlock(proc[p], u[p]) /\ CoreOf[e] = CoreExec(proc[p], u[p]) /\ CoreOf[t] = CoreTa(u[p])
        /\ y \in Slot => CoreOf[x] = CoreTextAt(text, y) BY CoreAt DEF CoreTextAt
  <1>3. y \notin Slot => CoreTextAt(text, y) = {} BY DEF CoreTextAt
  <1> HIDE DEF b, e, t, x
  <1> QED BY <1>1, <1>2, <1>3 DEF CoreOK, Apart, Five

(* What p, a text y and the free list have of the swap device. *)
LEMMA SwapHeld ==
    ASSUME SwapOK, NEW p \in Proc, NEW y
    PROVE  /\ Five(swap, SwapImage(proc[p], u[p]), SwapStatus(proc[p], u[p]), SwapTextAt(text, y), {})
           /\ swap \subseteq 1..NSWAP /\ SwapImage(proc[p], u[p]) \subseteq 1..NSWAP
           /\ SwapStatus(proc[p], u[p]) \subseteq 1..NSWAP /\ SwapTextAt(text, y) \subseteq 1..NSWAP
  <1> DEFINE b == <<"block", p>>
             e == <<"status", p>>
             x == <<"text", y>>
  <1>1. {b, e} \subseteq Holders /\ b # e /\ x \notin {b, e} /\ (y \in Slot => x \in Holders) BY HolderIs
  <1>2. /\ SwapOf[b] = SwapImage(proc[p], u[p]) /\ SwapOf[e] = SwapStatus(proc[p], u[p])
        /\ y \in Slot => SwapOf[x] = SwapTextAt(text, y) BY SwapAt DEF SwapTextAt
  <1>3. y \notin Slot => SwapTextAt(text, y) = {} BY DEF SwapTextAt
  <1> HIDE DEF b, e, x
  <1> QED BY <1>1, <1>2, <1>3 DEF SwapOK, Apart, Five

(* The other processes hold what they held.                                *)
OthersCore(p, P, W) == \A q \in Proc : q # p =>
    /\ CoreBlock(P[q], W[q]) = CoreBlock(proc[q], u[q])
    /\ CoreExec(P[q], W[q]) = CoreExec(proc[q], u[q])
    /\ CoreTa(W[q]) = CoreTa(u[q])
OthersSwap(p, P, W) == \A q \in Proc : q # p =>
    /\ SwapImage(P[q], W[q]) = SwapImage(proc[q], u[q])
    /\ SwapStatus(P[q], W[q]) = SwapStatus(proc[q], u[q])
(* The swapper has in hand what it had.                                    *)
SchedHolds(s, P) ==
    /\ CoreData(s, P[s.p].size) = CoreData(sched, proc[sched.p].size)
    /\ CoreCtext(s) = CoreCtext(sched)
    /\ SwapData(s, P[s.p].img) = SwapData(sched, proc[sched.p].img)

(* A process of which nothing changes holds the core it held. *)
LEMMA CoreUnmoved ==
    ASSUME NEW q \in Proc, CoreBlock(proc'[q], u'[q]) = CoreBlock(proc[q], u[q]),
           CoreExec(proc'[q], u'[q]) = CoreExec(proc[q], u[q]), CoreTa(u'[q]) = CoreTa(u[q]),
           NEW g \in {<<"block", q>>, <<"exec", q>>, <<"ta", q>>, <<"status", q>>}
    PROVE  CoreOf'[g] = CoreOf[g] BY CoreAt, CoreThen
(* The same of the swap device. *)
LEMMA SwapUnmoved ==
    ASSUME NEW q \in Proc, SwapImage(proc'[q], u'[q]) = SwapImage(proc[q], u[q]),
           SwapStatus(proc'[q], u'[q]) = SwapStatus(proc[q], u[q]),
           NEW g \in {<<"block", q>>, <<"exec", q>>, <<"ta", q>>, <<"status", q>>}
    PROVE  SwapOf'[g] = SwapOf[g] BY SwapAt, SwapThen

(* Core dealt out again among p, a text y and the free list is still       *)
(* divided.                                                                *)
LEMMA CoreMoves ==
    ASSUME CoreOK, NEW p \in Proc, NEW y, OthersCore(p, proc', u'), SchedHolds(sched', proc'),
           \A x \in Slot : x # y => CoreText(text'[x]) = CoreText(text[x]),
           NEW B, NEW E, NEW T, NEW X,
           B = CoreBlock(proc'[p], u'[p]), E = CoreExec(proc'[p], u'[p]), T = CoreTa(u'[p]),
           X = CoreTextAt(text', y),
           Five(core', B, E, T, X),
           core' \cup B \cup E \cup T \cup X
             = core \cup CoreBlock(proc[p], u[p]) \cup CoreExec(proc[p], u[p]) \cup CoreTa(u[p]) \cup CoreTextAt(text, y)
    PROVE  CoreOK'
  <1>0. \A q \in Proc : q # p => /\ CoreBlock(proc'[q], u'[q]) = CoreBlock(proc[q], u[q])
                                  /\ CoreExec(proc'[q], u'[q]) = CoreExec(proc[q], u[q])
                                  /\ CoreTa(u'[q]) = CoreTa(u[q]) BY DEF OthersCore
  <1> DEFINE b == <<"block", p>>
             e == <<"exec", p>>
             t == <<"ta", p>>
             x == <<"text", y>>
             M == {b, e, t} \cup (IF y \in Slot THEN {x} ELSE {})
  <1>1. {b, e, t} \subseteq Holders /\ b # e /\ b # t /\ e # t /\ x \notin {b, e, t} /\ (y \in Slot => x \in Holders)
    BY HolderIs
  <1>2. /\ CoreOf[b] = CoreBlock(proc[p], u[p]) /\ CoreOf[e] = CoreExec(proc[p], u[p]) /\ CoreOf[t] = CoreTa(u[p])
        /\ y \in Slot => CoreOf[x] = CoreTextAt(text, y) BY CoreAt DEF CoreTextAt
  <1>3. CoreOf'[b] = B /\ CoreOf'[e] = E /\ CoreOf'[t] = T /\ (y \in Slot => CoreOf'[x] = X)
    BY CoreThen DEF CoreTextAt
  <1>4. y \notin Slot => CoreTextAt(text, y) = {} /\ X = {} BY DEF CoreTextAt
  <1>5. ASSUME NEW g \in Holders \ M PROVE CoreOf'[g] = CoreOf[g]
    <2>1. ASSUME NEW q \in Proc, g \in {<<"block", q>>, <<"exec", q>>, <<"ta", q>>, <<"status", q>>}
          PROVE  CoreOf'[g] = CoreOf[g]
      <3>1. CASE q = p BY <1>5, <2>1, <3>1, CoreAt, CoreThen
      <3>2. CASE q # p BY <1>0, <2>1, <3>2, CoreUnmoved
      <3> QED BY <3>1, <3>2
    <2>2. ASSUME NEW z \in Slot, g = <<"text", z>> PROVE CoreOf'[g] = CoreOf[g]
      <3>1. z # y BY <1>5, <2>2
      <3> QED BY <2>2, <3>1, CoreAt, CoreThen
    <2>3. ASSUME g \in {<<"data", 0>>, <<"ctext", 0>>} PROVE CoreOf'[g] = CoreOf[g]
      BY <2>3, CoreAt, CoreThen DEF SchedHolds
    <2> QED BY <2>1, <2>2, <2>3, HolderIs
  <1>6. M \subseteq Holders BY <1>1
  <1>7. \A g : g \in M <=> g = b \/ g = e \/ g = t \/ (y \in Slot /\ g = x) OBVIOUS
  <1> HIDE DEF b, e, t, x, M
  <1>8. \A g, h \in M : g # h => CoreOf'[g] \cap CoreOf'[h] = {} BY <1>1, <1>3, <1>7 DEF Five
  <1>9. \A g \in M : CoreOf'[g] \cap core' = {} BY <1>3, <1>7 DEF Five
  <1>10. \A k : (k \in core' \/ \E g \in M : k \in CoreOf'[g]) <=> k \in core' \cup B \cup E \cup T \cup X
    BY <1>3, <1>4, <1>7
  <1>11. \A k : (k \in core \/ \E g \in M : k \in CoreOf[g])
            <=> k \in core \cup CoreBlock(proc[p], u[p]) \cup CoreExec(proc[p], u[p]) \cup CoreTa(u[p]) \cup CoreTextAt(text, y)
    BY <1>2, <1>4, <1>7
  <1>12. Apart(1..NCORE, core, CoreOf) BY DEF CoreOK
  <1>13. Apart(1..NCORE, core', CoreOf')
    <2>1. Redealt(M, CoreOf, core, CoreOf', core') BY <1>5, <1>6, <1>8, <1>9, <1>10, <1>11 DEF Redealt
    <2> QED BY <1>12, <2>1, Redeal
  <1> QED BY <1>13 DEF CoreOK

(* The same of the swap device. *)
LEMMA SwapMoves ==
    ASSUME SwapOK, NEW p \in Proc, NEW y, OthersSwap(p, proc', u'), SchedHolds(sched', proc'),
           \A x \in Slot : x # y => SwapText(text'[x]) = SwapText(text[x]),
           NEW B, NEW E, NEW X,
           B = SwapImage(proc'[p], u'[p]), E = SwapStatus(proc'[p], u'[p]), X = SwapTextAt(text', y),
           Five(swap', B, E, X, {}),
           swap' \cup B \cup E \cup X
             = swap \cup SwapImage(proc[p], u[p]) \cup SwapStatus(proc[p], u[p]) \cup SwapTextAt(text, y)
    PROVE  SwapOK'
  <1>0. \A q \in Proc : q # p => /\ SwapImage(proc'[q], u'[q]) = SwapImage(proc[q], u[q])
                                  /\ SwapStatus(proc'[q], u'[q]) = SwapStatus(proc[q], u[q])
    BY DEF OthersSwap
  <1> DEFINE b == <<"block", p>>
             e == <<"status", p>>
             x == <<"text", y>>
             M == {b, e} \cup (IF y \in Slot THEN {x} ELSE {})
  <1>1. {b, e} \subseteq Holders /\ b # e /\ x \notin {b, e} /\ (y \in Slot => x \in Holders) BY HolderIs
  <1>2. /\ SwapOf[b] = SwapImage(proc[p], u[p]) /\ SwapOf[e] = SwapStatus(proc[p], u[p])
        /\ y \in Slot => SwapOf[x] = SwapTextAt(text, y) BY SwapAt DEF SwapTextAt
  <1>3. SwapOf'[b] = B /\ SwapOf'[e] = E /\ (y \in Slot => SwapOf'[x] = X) BY SwapThen DEF SwapTextAt
  <1>4. y \notin Slot => SwapTextAt(text, y) = {} /\ X = {} BY DEF SwapTextAt
  <1>5. ASSUME NEW g \in Holders \ M PROVE SwapOf'[g] = SwapOf[g]
    <2>1. ASSUME NEW q \in Proc, g \in {<<"block", q>>, <<"exec", q>>, <<"ta", q>>, <<"status", q>>}
          PROVE  SwapOf'[g] = SwapOf[g]
      <3>1. CASE q = p BY <1>5, <2>1, <3>1, SwapAt, SwapThen
      <3>2. CASE q # p BY <1>0, <2>1, <3>2, SwapUnmoved
      <3> QED BY <3>1, <3>2
    <2>2. ASSUME NEW z \in Slot, g = <<"text", z>> PROVE SwapOf'[g] = SwapOf[g]
      <3>1. z # y BY <1>5, <2>2
      <3> QED BY <2>2, <3>1, SwapAt, SwapThen
    <2>3. ASSUME g \in {<<"data", 0>>, <<"ctext", 0>>} PROVE SwapOf'[g] = SwapOf[g]
      BY <2>3, SwapAt, SwapThen DEF SchedHolds
    <2> QED BY <2>1, <2>2, <2>3, HolderIs
  <1>6. M \subseteq Holders BY <1>1
  <1>7. \A g : g \in M <=> g = b \/ g = e \/ (y \in Slot /\ g = x) OBVIOUS
  <1> HIDE DEF b, e, x, M
  <1>8. \A g, h \in M : g # h => SwapOf'[g] \cap SwapOf'[h] = {} BY <1>1, <1>3, <1>7 DEF Five
  <1>9. \A g \in M : SwapOf'[g] \cap swap' = {} BY <1>3, <1>7 DEF Five
  <1>10. \A k : (k \in swap' \/ \E g \in M : k \in SwapOf'[g]) <=> k \in swap' \cup B \cup E \cup X
    BY <1>3, <1>4, <1>7
  <1>11. \A k : (k \in swap \/ \E g \in M : k \in SwapOf[g])
            <=> k \in swap \cup SwapImage(proc[p], u[p]) \cup SwapStatus(proc[p], u[p]) \cup SwapTextAt(text, y)
    BY <1>2, <1>4, <1>7
  <1>12. Apart(1..NSWAP, swap, SwapOf) BY DEF SwapOK
  <1>13. Apart(1..NSWAP, swap', SwapOf')
    <2>1. Redealt(M, SwapOf, swap, SwapOf', swap') BY <1>5, <1>6, <1>8, <1>9, <1>10, <1>11 DEF Redealt
    <2> QED BY <1>12, <2>1, Redeal
  <1> QED BY <1>13 DEF SwapOK

----
(* Counting references: those of one process and those of the others.      *)

One(b) == IF b THEN 1 ELSE 0
Tally(r, v, x) == One(Refers("attached", r, v, x)) + One(Refers("building", r, v, x))
                  + One(Refers("kept", r, v, x)) + One(Refers("held", r, v, x))
CoreTally(r, v, x) == One(RefersInCore("attached", r, v, x)) + One(RefersInCore("building", r, v, x))
                      + One(RefersInCore("kept", r, v, x)) + One(RefersInCore("held", r, v, x))

(* Adding a member counts one more. *)
LEMMA AddIf ==
    ASSUME NEW S, IsFiniteSet(S), NEW e, e \notin S, NEW R, NEW T, T = IF e \in R THEN S \cup {e} ELSE S
    PROVE  IsFiniteSet(T) /\ Cardinality(T) = Cardinality(S) + (IF e \in R THEN 1 ELSE 0)
  <1>1. Cardinality(S) \in Nat BY FS_CardinalityType
  <1>2. CASE e \in R
    <2>1. IsFiniteSet(S \cup {e}) /\ Cardinality(S \cup {e}) = Cardinality(S) + 1 BY FS_AddElement
    <2> QED BY <1>2, <2>1
  <1>3. CASE e \notin R BY <1>1, <1>3
  <1> QED BY <1>2, <1>3

Others(S, p) == {c \in S : c[2] # p}
(* A set of references counts p's, kind by kind, and those of the others. *)
LEMMA OwnCount ==
    ASSUME NEW p \in Proc, NEW S, S \subseteq Kinds \X Proc
    PROVE  /\ Cardinality(Others(S, p)) \in Nat
           /\ Cardinality(S) = Cardinality(Others(S, p)) + (One(<<"attached", p>> \in S)
                + One(<<"building", p>> \in S) + One(<<"kept", p>> \in S) + One(<<"held", p>> \in S))
  <1> DEFINE A == Others(S, p)
             B == IF <<"attached", p>> \in S THEN A \cup {<<"attached", p>>} ELSE A
             C == IF <<"building", p>> \in S THEN B \cup {<<"building", p>>} ELSE B
             D == IF <<"kept", p>> \in S THEN C \cup {<<"kept", p>>} ELSE C
             E == IF <<"held", p>> \in S THEN D \cup {<<"held", p>>} ELSE D
  <1>1. A \subseteq Kinds \X Proc /\ \A c \in A : c[2] # p BY DEF Others
  <1>2. IsFiniteSet(A) /\ Cardinality(A) \in Nat BY <1>1, RefSets
  <1>3. <<"attached", p>> \notin A /\ <<"building", p>> \notin B /\ <<"kept", p>> \notin C /\ <<"held", p>> \notin D
    BY <1>1
  <1>4. E = S
    <2>1. \A c \in S : c \in E
      <3>1. ASSUME NEW c \in S, c[2] = p PROVE c \in {<<"attached", p>>, <<"building", p>>, <<"kept", p>>, <<"held", p>>}
        BY <3>1 DEF Kinds
      <3>2. \A c \in S : c[2] # p => c \in A BY DEF Others
      <3> QED BY <3>1, <3>2
    <2>2. \A c \in E : c \in S BY DEF Others
    <2> QED BY <2>1, <2>2
  <1>5. B = (IF <<"attached", p>> \in S THEN A \cup {<<"attached", p>>} ELSE A)
        /\ C = (IF <<"building", p>> \in S THEN B \cup {<<"building", p>>} ELSE B)
        /\ D = (IF <<"kept", p>> \in S THEN C \cup {<<"kept", p>>} ELSE C)
        /\ E = (IF <<"held", p>> \in S THEN D \cup {<<"held", p>>} ELSE D) OBVIOUS
  <1> HIDE DEF A, B, C, D, E
  <1>6. IsFiniteSet(B) /\ Cardinality(B) = Cardinality(A) + One(<<"attached", p>> \in S)
    BY <1>2, <1>3, <1>5, AddIf DEF One
  <1>7. IsFiniteSet(C) /\ Cardinality(C) = Cardinality(B) + One(<<"building", p>> \in S)
    BY <1>3, <1>5, <1>6, AddIf DEF One
  <1>8. IsFiniteSet(D) /\ Cardinality(D) = Cardinality(C) + One(<<"kept", p>> \in S)
    BY <1>3, <1>5, <1>7, AddIf DEF One
  <1>9. Cardinality(E) = Cardinality(D) + One(<<"held", p>> \in S) BY <1>3, <1>5, <1>8, AddIf DEF One
  <1>11. PICK a \in Nat : a = One(<<"attached", p>> \in S) BY DEF One
  <1>12. PICK b \in Nat : b = One(<<"building", p>> \in S) BY DEF One
  <1>13. PICK k \in Nat : k = One(<<"kept", p>> \in S) BY DEF One
  <1>14. PICK h \in Nat : h = One(<<"held", p>> \in S) BY DEF One
  <1>15. Cardinality(E) = Cardinality(A) + (a + b + k + h)
    BY <1>2, <1>6, <1>7, <1>8, <1>9, <1>11, <1>12, <1>13, <1>14
  <1> QED BY <1>2, <1>4, <1>11, <1>12, <1>13, <1>14, <1>15 DEF A

(* The references of the processes other than p stay.                      *)
OthersRefer(p, P, W) == \A q \in Proc : q # p => \A k \in Kinds, x \in Slot :
    /\ Refers(k, P[q], W[q], x) <=> Refers(k, proc[q], u[q], x)
    /\ RefersInCore(k, P[q], W[q], x) <=> RefersInCore(k, proc[q], u[q], x)

(* A text is referred to by p, as its tally says, and by the others as     *)
(* before.                                                                 *)
LEMMA TallyCount ==
    ASSUME NEW p \in Proc, NEW x \in Slot, OthersRefer(p, proc', u'),
           NEW r, NEW v, proc'[p] = r, u'[p] = v
    PROVE  \E m, n \in Nat :
             /\ Cardinality(Refs(x)) = m + Tally(proc[p], u[p], x)
             /\ Cardinality(Refs(x)') = m + Tally(r, v, x)
             /\ Cardinality(CoreRefs(x)) = n + CoreTally(proc[p], u[p], x)
             /\ Cardinality(CoreRefs(x)') = n + CoreTally(r, v, x)
  <1>1. \A q \in Proc, k \in Kinds :
           /\ <<k, q>> \in Refs(x) <=> Refers(k, proc[q], u[q], x)
           /\ <<k, q>> \in CoreRefs(x) <=> RefersInCore(k, proc[q], u[q], x) BY DEF Refs, CoreRefs
  <1>2. \A q \in Proc, k \in Kinds :
           /\ <<k, q>> \in Refs(x)' <=> Refers(k, proc'[q], u'[q], x)
           /\ <<k, q>> \in CoreRefs(x)' <=> RefersInCore(k, proc'[q], u'[q], x) BY DEF Refs, CoreRefs
  <1>3. Refs(x) \subseteq Kinds \X Proc /\ CoreRefs(x) \subseteq Kinds \X Proc
        /\ Refs(x)' \subseteq Kinds \X Proc /\ CoreRefs(x)' \subseteq Kinds \X Proc BY DEF Refs, CoreRefs
  <1>4. PICK S1 : S1 = Refs(x) OBVIOUS
  <1>5. PICK S2 : S2 = Refs(x)' OBVIOUS
  <1>6. PICK S3 : S3 = CoreRefs(x) OBVIOUS
  <1>7. PICK S4 : S4 = CoreRefs(x)' OBVIOUS
  <1>8. \A q \in Proc, k \in Kinds : q # p =>
           (<<k, q>> \in S1 <=> <<k, q>> \in S2) /\ (<<k, q>> \in S3 <=> <<k, q>> \in S4)
    BY <1>1, <1>2, <1>4, <1>5, <1>6, <1>7 DEF OthersRefer
  <1>9. \A c \in Kinds \X Proc : c = <<c[1], c[2]>> /\ c[1] \in Kinds /\ c[2] \in Proc OBVIOUS
  <1>10. Others(S1, p) = Others(S2, p) /\ Others(S3, p) = Others(S4, p)
    <2>1. \A c \in Kinds \X Proc : c[2] # p => (c \in S1 <=> c \in S2) /\ (c \in S3 <=> c \in S4)
      BY <1>8, <1>9
    <2>2. S1 \subseteq Kinds \X Proc /\ S2 \subseteq Kinds \X Proc /\ S3 \subseteq Kinds \X Proc /\ S4 \subseteq Kinds \X Proc
      BY <1>3, <1>4, <1>5, <1>6, <1>7
    <2> QED BY <2>1, <2>2 DEF Others
  <1>11. {"attached", "building", "kept", "held"} \subseteq Kinds BY DEF Kinds
  <1>12. PICK m \in Nat : m = Cardinality(Others(S1, p)) BY <1>3, <1>4, OwnCount
  <1>13. PICK n \in Nat : n = Cardinality(Others(S3, p)) BY <1>3, <1>6, OwnCount
  <1>14. Cardinality(S1) = m + Tally(proc[p], u[p], x)
    BY <1>1, <1>3, <1>4, <1>11, <1>12, OwnCount DEF Tally, One
  <1>15. Cardinality(S2) = m + Tally(r, v, x)
    BY <1>2, <1>3, <1>5, <1>10, <1>11, <1>12, OwnCount DEF Tally, One
  <1>16. Cardinality(S3) = n + CoreTally(proc[p], u[p], x)
    BY <1>1, <1>3, <1>6, <1>11, <1>13, OwnCount DEF CoreTally, One
  <1>17. Cardinality(S4) = n + CoreTally(r, v, x)
    BY <1>2, <1>3, <1>7, <1>10, <1>11, <1>13, OwnCount DEF CoreTally, One
  <1> QED BY <1>4, <1>5, <1>6, <1>7, <1>12, <1>13, <1>14, <1>15, <1>16, <1>17

(* Tallies are numbers. *)
LEMMA TallyType ==
    ASSUME NEW r, NEW v, NEW x PROVE Tally(r, v, x) \in Nat /\ CoreTally(r, v, x) \in Nat
  BY DEF Tally, CoreTally, One

(* The counts of a text change by what p's references to it do.            *)
LEMMA CountMoves ==
    ASSUME CountOK, NEW p \in Proc, OthersRefer(p, proc', u'), NEW r, NEW v, proc'[p] = r, u'[p] = v,
           \A x \in Slot :
             /\ text'[x].count + Tally(proc[p], u[p], x) = text[x].count + Tally(r, v, x)
             /\ text'[x].ccount + CoreTally(proc[p], u[p], x) = text[x].ccount + CoreTally(r, v, x)
             /\ text'[x].count \in Nat /\ text'[x].ccount \in Nat
             /\ text'[x].ip # NoProg <=> text'[x].count > 0,
           \A x, y \in Slot : text'[x].ip = text'[y].ip /\ text'[x].ip # NoProg => x = y PROVE CountOK'
  <1>1. ASSUME NEW x \in Slot
        PROVE  text'[x].count = Cardinality(Refs(x)') /\ text'[x].ccount = Cardinality(CoreRefs(x)')
    <2>1. PICK m, n \in Nat :
             /\ Cardinality(Refs(x)) = m + Tally(proc[p], u[p], x)
             /\ Cardinality(Refs(x)') = m + Tally(r, v, x)
             /\ Cardinality(CoreRefs(x)) = n + CoreTally(proc[p], u[p], x)
             /\ Cardinality(CoreRefs(x)') = n + CoreTally(r, v, x) BY TallyCount
    <2>2. text[x].count = Cardinality(Refs(x)) /\ text[x].ccount = Cardinality(CoreRefs(x)) BY DEF CountOK
    <2>3. /\ Tally(proc[p], u[p], x) \in Nat /\ CoreTally(proc[p], u[p], x) \in Nat
          /\ Tally(r, v, x) \in Nat /\ CoreTally(r, v, x) \in Nat BY TallyType
    <2> QED BY <2>1, <2>2, <2>3
  <1> QED BY <1>1 DEF CountOK

(* What the others have does not change when p's slot and registers do.    *)
LEMMA MineOthers ==
    ASSUME TypeOK, NEW p, NEW r, NEW v, Mine(p, r, v)
    PROVE  OthersCore(p, proc', u') /\ OthersSwap(p, proc', u') /\ OthersRefer(p, proc', u')
  <1>1. \A q \in Proc : q # p => proc'[q] = proc[q] /\ u'[q] = u[q] BY MineIs
  <1> QED BY <1>1 DEF OthersCore, OthersSwap, OthersRefer

(* The swapper has in hand what it had when a process inside the kernel    *)
(* takes a step.                                                           *)
LEMMA AtHolds ==
    ASSUME IInv, NEW p \in Proc, NEW l, At(p, l), NEW r, NEW v, Mine(p, r, v), SameSched
    PROVE  SchedHolds(sched', proc')
  <1>1. TypeOK /\ (sched.p = p => sched.pc \notin {"out", "intext", "indata"}) BY AtFacts
  <1>2. /\ sched'.p = sched.p /\ sched'.a = sched.a /\ sched'.ta = sched.ta
        /\ \A m \in {"out", "intext", "indata", "runin"} : sched'.pc = m <=> sched.pc = m
    BY <1>1, SameSchedIs
  <1>3. CASE sched.pc \in {"out", "intext", "indata"}
    <2>1. sched.p # p BY <1>1, <1>3
    <2>2. proc'[sched.p] = proc[sched.p] BY <1>1, <2>1 DEF Mine, TypeOK
    <2> QED BY <1>2, <2>2 DEF SchedHolds, CoreData, CoreCtext, SwapData
  <1>4. CASE sched.pc \notin {"out", "intext", "indata"}
    BY <1>2, <1>4 DEF SchedHolds, CoreData, CoreCtext, SwapData
  <1> QED BY <1>3, <1>4

CoreSplit(c, r, v, X) == Five(c, CoreBlock(r, v), CoreExec(r, v), CoreTa(v), X)
CoreSum(c, r, v, X)   == c \cup CoreBlock(r, v) \cup CoreExec(r, v) \cup CoreTa(v) \cup X
SwapSplit(c, r, v, X) == Five(c, SwapImage(r, v), SwapStatus(r, v), X, {})
SwapSum(c, r, v, X)   == c \cup SwapImage(r, v) \cup SwapStatus(r, v) \cup X

(* A step of p deals out again what p, a text y and the free list have.    *)
LEMMA StepCore ==
    ASSUME IInv, NEW p \in Proc, NEW l, At(p, l), NEW r, NEW v, Mine(p, r, v), SameSched,
           NEW y, \A x \in Slot : x # y => CoreText(text'[x]) = CoreText(text[x]),
           CoreSplit(core', r, v, CoreTextAt(text', y)),
           CoreSum(core', r, v, CoreTextAt(text', y)) = CoreSum(core, proc[p], u[p], CoreTextAt(text, y))
    PROVE  CoreOK'
  <1>1. TypeOK /\ CoreOK BY AtFacts DEF Good
  <1>2. OthersCore(p, proc', u') /\ SchedHolds(sched', proc') /\ proc'[p] = r /\ u'[p] = v
    BY <1>1, MineIs, MineOthers, AtHolds
  <1>3. PICK X : X = CoreTextAt(text', y) OBVIOUS
  <1>4. PICK B : B = CoreBlock(r, v) OBVIOUS
  <1>5. PICK E : E = CoreExec(r, v) OBVIOUS
  <1>6. PICK T : T = CoreTa(v) OBVIOUS
  <1>7. Five(core', B, E, T, X) BY <1>3, <1>4, <1>5, <1>6 DEF CoreSplit
  <1>8. core' \cup B \cup E \cup T \cup X
          = core \cup CoreBlock(proc[p], u[p]) \cup CoreExec(proc[p], u[p]) \cup CoreTa(u[p]) \cup CoreTextAt(text, y)
    BY <1>3, <1>4, <1>5, <1>6 DEF CoreSum
  <1>9. B = CoreBlock(proc'[p], u'[p]) /\ E = CoreExec(proc'[p], u'[p]) /\ T = CoreTa(u'[p])
    BY <1>2, <1>4, <1>5, <1>6
  <1> QED BY ONLY <1>1, <1>2, <1>3, <1>7, <1>8, <1>9, CoreMoves, p \in Proc,
                  \A x \in Slot : x # y => CoreText(text'[x]) = CoreText(text[x])

(* The same of the swap device. *)
LEMMA StepSwap ==
    ASSUME IInv, NEW p \in Proc, NEW l, At(p, l), NEW r, NEW v, Mine(p, r, v), SameSched,
           NEW y, \A x \in Slot : x # y => SwapText(text'[x]) = SwapText(text[x]),
           SwapSplit(swap', r, v, SwapTextAt(text', y)),
           SwapSum(swap', r, v, SwapTextAt(text', y)) = SwapSum(swap, proc[p], u[p], SwapTextAt(text, y))
    PROVE  SwapOK'
  <1>1. TypeOK /\ SwapOK BY AtFacts DEF Good
  <1>2. OthersSwap(p, proc', u') /\ SchedHolds(sched', proc') /\ proc'[p] = r /\ u'[p] = v
    BY <1>1, MineIs, MineOthers, AtHolds
  <1>3. PICK X : X = SwapTextAt(text', y) OBVIOUS
  <1>4. PICK B : B = SwapImage(r, v) OBVIOUS
  <1>5. PICK E : E = SwapStatus(r, v) OBVIOUS
  <1>6. Five(swap', B, E, X, {}) BY <1>3, <1>4, <1>5 DEF SwapSplit
  <1>7. swap' \cup B \cup E \cup X
          = swap \cup SwapImage(proc[p], u[p]) \cup SwapStatus(proc[p], u[p]) \cup SwapTextAt(text, y)
    BY <1>3, <1>4, <1>5 DEF SwapSum
  <1>8. B = SwapImage(proc'[p], u'[p]) /\ E = SwapStatus(proc'[p], u'[p]) BY <1>2, <1>4, <1>5
  <1> QED BY ONLY <1>1, <1>2, <1>3, <1>6, <1>7, <1>8, SwapMoves, p \in Proc,
                  \A x \in Slot : x # y => SwapText(text'[x]) = SwapText(text[x])

(* What they had before.                                                   *)
LEMMA Had ==
    ASSUME IInv, fault = "none", NEW p \in Proc, NEW y
    PROVE  /\ CoreSplit(core, proc[p], u[p], CoreTextAt(text, y))
           /\ SwapSplit(swap, proc[p], u[p], SwapTextAt(text, y))
           /\ CoreTextAt(text, 0) = {} /\ CoreTextAt(text', 0) = {}
           /\ SwapTextAt(text, 0) = {} /\ SwapTextAt(text', 0) = {}
           /\ y \in Slot => /\ CoreTextAt(text, y) = CoreText(text[y]) /\ CoreTextAt(text', y) = CoreText(text'[y])
                            /\ SwapTextAt(text, y) = SwapText(text[y]) /\ SwapTextAt(text', y) = SwapText(text'[y])
  <1>1. CoreOK /\ SwapOK BY DEF IInv, Good
  <1> QED BY <1>1, CoreHeld, SwapHeld, ProcFacts DEF CoreSplit, SwapSplit, CoreTextAt, SwapTextAt

(* A text that somebody builds is in nobody else's hands.                  *)
LEMMA NotBuilt ==
    ASSUME TypeOK, Good, NEW p \in Proc, NEW y \in Slot,
           \/ text[y].ip = NoProg
           \/ \E k \in Kinds : Refers(k, proc[p], u[p], y)
           \/ Execing(u[p]) /\ text[y].ip = u[p].ip,
           NEW q \in Proc, q # p, u[q].pc \in {"load", "proto"} PROVE u[q].xp # y
  <1>1. SUFFICES ASSUME u[q].xp = y PROVE FALSE OBVIOUS
  <1>2. text[y].ip = u[q].ip /\ u[q].ip \in Prog /\ ilock[u[q].ip] = q BY <1>1 DEF Good, ExecOK, Execing
  <1>3. CASE text[y].ip = NoProg BY <1>2, <1>3, SwapAssumption
  <1>4. CASE \E k \in Kinds : Refers(k, proc[p], u[p], y)
    <2>1. PICK k \in Kinds : Refers(k, proc[p], u[p], y) BY <1>4
    <2>2. <<k, p>> \in Refs(y) BY <2>1 DEF Refs
    <2>3. Refs(y) = {<<"building", q>>} BY <1>1, Built DEF Good
    <2> QED BY <2>2, <2>3
  <1>5. CASE Execing(u[p]) /\ text[y].ip = u[p].ip BY <1>2, <1>5 DEF Good, ExecOK
  <1> QED BY <1>3, <1>4, <1>5

(* A step of p that may move memory and changes the text y only.           *)
LEMMA StepKeeps ==
    ASSUME IInv, NEW p \in Proc, NEW l, At(p, l), NEW r, NEW v, Mine(p, r, v), SameSched,
           RegsOK(p, r, v), Up(r), r.par = proc[p].par,
           v.for = "image" <=> u[p].for = "image",
           r.chan # "child", v.pc \notin {"wait", "reap"},
           r.lock <=> Locking(v), Locking(v) => r.load,
           r.load \/ r.text = 0 \/ ~r.ref,
           fault' = "none", text' \in [Slot -> TextSlot], run' \in {0} \cup Proc,
           v.pc \in {"attach", "claim", "commit"} => run' = p,
           ilock' \in [Prog -> {0} \cup Proc], calls' \in 0..MaxCalls,
           \A g \in Prog : ilock[g] \notin {0, p} => ilock'[g] = ilock[g],
           Execing(v) => v.ip \in Prog /\ ilock'[v.ip] = p,
           NEW y, \A x \in Slot : x # y => text'[x] = text[x],
           y \in Slot => /\ \/ text[y].ip = NoProg
                            \/ \E k \in Kinds : Refers(k, proc[p], u[p], y)
                            \/ Execing(u[p]) /\ text[y].ip = u[p].ip
                         /\ text'[y].ip \in {text[y].ip, NoProg} \/ (Execing(u[p]) /\ text'[y].ip = u[p].ip),
           Growing(v) => \A x \in Slot : text'[x].ip # v.ip,
           v.pc \in {"load", "proto"} =>
               text'[v.xp].ip = v.ip /\ text'[v.xp].count = 1 /\ text'[v.xp].ccount = 0 /\ text'[v.xp].caddr = v.ta,
           BootOK', CountOK', CoreOK', SwapOK' PROVE IInv'
  <1>1. /\ TypeOK /\ Good /\ proc[p].load /\ Up(proc[p]) /\ run \in {0, p}
        /\ (sched.p = p => sched.pc \notin {"out", "intext", "indata"}) BY AtFacts
  <1>2. core' \subseteq 1..NCORE /\ swap' \subseteq 1..NSWAP BY DEF CoreOK, SwapOK, Apart
  <1>3. TypeOK' BY <1>1, <1>2, MineIs, SameSchedIs DEF TypeOK
  <1>4. LocalOK' BY <1>1, MineLocal DEF Good
  <1>5. RunOK' BY <1>1, MineRun DEF Good
  <1>6. LockOK' BY <1>1, MineLock DEF Good
  <1>7. SchedOK' BY <1>1, MineSched DEF Good
  <1>8. ExecOK'
    <2>1. \A q \in Proc : q # p /\ u[q].pc \in {"load", "proto"} => text'[u[q].xp] = text[u[q].xp]
      <3>1. ASSUME NEW q \in Proc, q # p, u[q].pc \in {"load", "proto"} PROVE text'[u[q].xp] = text[u[q].xp]
        <4>1. u[q].xp \in Slot BY <1>1, <3>1, Built DEF Good
        <4>2. y \in Slot => u[q].xp # y BY <1>1, <3>1, NotBuilt
        <4> QED BY <4>1, <4>2
      <3> QED BY <3>1
    <2>2. \A x \in Slot : \/ text'[x].ip \in {text[x].ip, NoProg}
                          \/ u[p].ip \in Prog /\ ilock[u[p].ip] = p /\ text'[x].ip = u[p].ip
      BY <1>1 DEF Good, ExecOK
    <2>3. ExecOK BY <1>1 DEF Good
    <2> QED BY <1>1, <2>1, <2>2, <2>3, MineExec
  <1>9. FamilyOK'
    <2>1. FamilyOK BY <1>1 DEF Good
    <2> QED BY <1>1, <2>1, MineFamily
  <1> QED BY <1>3, <1>4, <1>5, <1>6, <1>7, <1>8, <1>9 DEF IInv, Good

(* With a process that is not the bootstrap goes the last of its exec's    *)
(* new block.                                                              *)
LEMMA NoBlock ==
    ASSUME IInv, NEW p \in Proc, NEW l, At(p, l), ~Small(p), l # "back"
    PROVE  proc[p].size = DBLK /\ (l # "committed" => u[p].da = 0)
  <1>1. RegsOK(p, proc[p], u[p]) /\ Alive(p) /\ u[p].pc = l BY AtFacts
  <1> QED BY <1>1 DEF Small, RegsOK, SizeOK, Swelled

(* exit takes a sector for the status, or panics. *)
LEMMA SaveKeeps ==
    ASSUME IInv, NEW p \in Proc, Save(p) PROVE IInv'
  <1>1. At(p, "save") BY DEF Save
  <1>2. /\ TypeOK /\ Good /\ fault = "none"
        /\ proc[p] \in ProcSlot /\ u[p] \in Locals /\ u[p].pc = "save" /\ run \in {0, p}
        /\ proc[p].stat = "run" /\ proc[p].load /\ proc[p].chan = "none" /\ Up(proc[p]) /\ Live(proc[p])
        /\ RegsOK(p, proc[p], u[p])
        /\ (proc[p].lock <=> Locking(u[p]))
        /\ (Execing(u[p]) => u[p].ip \in Prog /\ ilock[u[p].ip] = p) BY <1>1, AtFacts
  <1>3. PICK a : a = Malloc(swap, 1) OBVIOUS
  <1>4. a \in Nat /\ (a # 0 => a \in swap) BY <1>2, <1>3, MallocFits, Numbers DEF TypeOK
  <1>5. CASE fault' = "panic" BY <1>2, <1>5 DEF Save, IInv, TypeOK
  <1>6. CASE fault' # "panic"
    <2>1. PICK r : r = Io(proc[p]) OBVIOUS
    <2>2. PICK v : v = [[u[p] EXCEPT !.a = a] EXCEPT !.pc = "die"] OBVIOUS
    <2>3. /\ a # 0 /\ swap' = swap \ {a} /\ run' = 0 /\ UNCHANGED <<core, text, ilock, sched, fault, calls>>
          /\ proc' = [proc EXCEPT ![p] = r] /\ u' = [u EXCEPT ![p] = v]
      BY <1>2, <1>3, <1>6, <2>1, <2>2 DEF Save, Goto, TypeOK
    <2>4. r \in ProcSlot /\ SlotSame(proc[p], r) /\ Up(r) /\ r.stat = "sleep" /\ r.chan = "io"
      BY <1>2, <2>1, IoIs
    <2>5. /\ v \in Locals /\ v.pc = "die" /\ v.a = a /\ v.ip = u[p].ip /\ v.da = u[p].da /\ v.for = u[p].for
          /\ v.xp = u[p].xp /\ v.otp = u[p].otp BY <1>2, <1>4, <2>2 DEF Locals, Labels
    <2>6. Mine(p, r, v) /\ SameSched BY <2>3, <2>4, <2>5 DEF Mine, SameSched
    <2>7. u[p].for = "none" /\ ~Small(p) /\ proc[p].text = 0
      BY <1>2, NotSmall DEF RegsOK, PurposeOK, AttachOK, Saving, Locals
    <2>8. RegsOK(p, r, v)
      BY <1>2, <2>4, <2>5, <2>7 DEF RegsOK, StatusOK, PurposeOK, AttachOK, SizeOK, SlotSame, Saving, Growing,
        Valve, Swelled
    <2>9. BootOK' BY <1>2, <2>4, <2>6, <2>7, QuietBoot DEF SlotSame, Swelled
    <2>10. CountOK'
      <3>1. \A x : SameRefs(p, r, v, x) BY <1>2, <2>4, <2>5, <2>7, SameRefsFrom DEF SlotSame, Retargeted
      <3> QED BY <1>2, <2>3, <2>6, <3>1, MineCount DEF Good
    <2>11. CoreOK'
      BY <1>2, <2>3, <2>4, <2>5, <2>6, MineCoreStays DEF Good, SlotSame, CoreBlock, CoreExec, CoreTa, Up, Live
    <2>12. SwapOK'
      <3>1. /\ SwapImage(proc[p], u[p]) = {} /\ SwapStatus(proc[p], u[p]) = {}
            /\ SwapImage(r, v) = {} /\ SwapStatus(r, v) = {a}
        BY <1>2, <2>4, <2>5 DEF SwapImage, SwapStatus, SlotSame
      <3>2. /\ SwapSplit(swap', r, v, SwapTextAt(text', 0))
            /\ SwapSum(swap', r, v, SwapTextAt(text', 0)) = SwapSum(swap, proc[p], u[p], SwapTextAt(text, 0))
        BY <1>2, <1>4, <2>3, <3>1, Had DEF SwapSplit, SwapSum, Five
      <3>3. \A x \in Slot : x # 0 => SwapText(text'[x]) = SwapText(text[x]) BY <2>3
      <3> QED BY <1>1, <2>6, <3>2, <3>3, StepSwap
    <2>13. /\ r.par = proc[p].par /\ r.chan # "child" /\ v.pc \notin {"wait", "reap", "attach", "claim", "commit", "load", "proto"}
           /\ r.load /\ (r.lock <=> Locking(v)) /\ ~Execing(v) /\ ~Growing(v)
           /\ (v.for = "image" <=> u[p].for = "image")
      BY <1>2, <2>4, <2>5, <2>7 DEF SlotSame, Locking, Execing, Growing, Saving
    <2>14. /\ fault' = "none" /\ text' \in [Slot -> TextSlot] /\ run' \in {0} \cup Proc
           /\ ilock' \in [Prog -> {0} \cup Proc] /\ calls' \in 0..MaxCalls /\ UNCHANGED <<text, ilock>>
      BY <1>2, <2>3 DEF TypeOK
    <2> QED BY <1>1, <2>4, <2>6, <2>8, <2>9, <2>10, <2>11, <2>12, <2>13, <2>14, StepKeeps, ProcFacts
  <1> QED BY <1>5, <1>6

(* The first room there is in the free core behind the bootstrap.          *)
LEMMA RestMalloc ==
    ASSUME NEW k \in Nat \ {0}, NEW m \in Nat \ {0}, k + m <= NCORE + 1
    PROVE  /\ Malloc(Rest(k), m) = k /\ Run(k, m) \subseteq Rest(k)
           /\ Rest(k) \ Run(k, m) = Rest(k + m)
  <1>1. NCORE \in Nat BY Numbers
  <1>2. Rest(k) \subseteq 1..NCORE /\ k \in Rest(k) /\ Run(k, m) \subseteq Rest(k) BY <1>1 DEF Rest, Run
  <1>3. Malloc(Rest(k), m) \in Nat /\ Malloc(Rest(k), m) # 0 /\ Malloc(Rest(k), m) \in Rest(k) /\ Malloc(Rest(k), m) <= k
    BY <1>1, <1>2, MallocFits
  <1>4. \A j \in Rest(k) : k <= j /\ j \in Nat BY <1>1 DEF Rest
  <1>5. Malloc(Rest(k), m) = k BY <1>3, <1>4
  <1>6. Rest(k) \ Run(k, m) = Rest(k + m) BY <1>1 DEF Rest, Run
  <1> QED BY <1>2, <1>5, <1>6

(* The bootstrap in one of its places: where it is and what core is free. *)
LEMMA SmallIs ==
    ASSUME IInv, fault = "none", NEW p \in Proc, Small(p)
    PROVE  /\ p = 1 /\ proc[p].addr = 1 /\ proc[p].size = 1 /\ proc[p].load
           /\ proc[p].text = 0 \/ u[p].pc = "commit"
           /\ u[p].for = "none" /\ u[p].otp = 0
           /\ u[p].pc \in {"user", "header", "attach", "claim", "load", "proto", "commit"}
           /\ u[p].da = (IF u[p].pc \in {"user", "header"} THEN 0 ELSE 2)
           /\ u[p].pc \in {"user", "header"} => core = Rest(2)
           /\ u[p].pc = "attach" => core = Rest(DBLK + 2)
           /\ u[p].pc \in {"claim", "load", "proto"} => u[p].ta = DBLK + 2 /\ core = Rest(DBLK + TSIZE + 2)
           /\ \A x \in Slot : text[x] = NoText \/ (u[p].pc \in {"load", "proto"} /\ x = u[p].xp) \/ u[p].pc = "commit"
           /\ DBLK # 1 BY DEF IInv, Good, BootOK, Small

(* exec takes the block the bootstrap needs; the others have theirs. *)
LEMMA ExecBlockKeeps ==
    ASSUME IInv, NEW p \in Proc, ExecBlock(p) PROVE IInv'
  <1>1. At(p, "header") BY DEF ExecBlock
  <1>2. /\ TypeOK /\ Good /\ fault = "none"
        /\ proc[p] \in ProcSlot /\ u[p] \in Locals /\ u[p].pc = "header" /\ run \in {0, p}
        /\ proc[p].stat = "run" /\ proc[p].load /\ proc[p].chan = "none" /\ Up(proc[p]) /\ Live(proc[p]) /\ Alive(p)
        /\ RegsOK(p, proc[p], u[p])
        /\ (proc[p].lock <=> Locking(u[p]))
        /\ (Execing(u[p]) => u[p].ip \in Prog /\ ilock[u[p].ip] = p) BY <1>1, AtFacts
  <1>3. u[p].for = "none" /\ u[p].da = 0 /\ (proc[p].size # DBLK => Small(p))
    <2>1. u[p].for = "none" /\ (proc[p].size # DBLK => Small(p))
      BY <1>2 DEF RegsOK, PurposeOK, Saving, Locals, Small, Swelled
    <2>2. CASE Small(p) BY <1>2, <2>2, SmallIs
    <2>3. CASE ~Small(p) BY <1>1, <2>1, <2>3, NoBlock
    <2> QED BY <2>1, <2>2, <2>3
  <1>4. PICK d \in Nat : d = IF proc[p].size = DBLK THEN 0 ELSE 2 OBVIOUS
  <1>5. PICK r : r = proc[p] OBVIOUS
  <1>6. PICK v : v = [[u[p] EXCEPT !.da = d] EXCEPT !.pc = "attach"] OBVIOUS
  <1>7. Small(p) => Malloc(core, DBLK) = 2 /\ Run(2, DBLK) \subseteq core /\ core \ Run(2, DBLK) = Rest(DBLK + 2)
    BY <1>2, SmallIs, RestMalloc, CoreAssumption, Numbers
  <1>8. /\ v \in Locals /\ v.pc = "attach" /\ v.da = d /\ v.ip = u[p].ip /\ v.for = u[p].for
        /\ v.xp = u[p].xp /\ v.otp = u[p].otp BY <1>2, <1>6 DEF Locals, Labels
  <1>9. /\ proc' = [proc EXCEPT ![p] = r] /\ u' = [u EXCEPT ![p] = v]
        /\ core' = IF proc[p].size = DBLK THEN core ELSE core \ Run(2, DBLK)
        /\ run' = p /\ UNCHANGED <<swap, text, ilock, sched, fault, calls>>
    <2>1. proc' = [proc EXCEPT ![p] = r] /\ run' = p /\ UNCHANGED <<swap, text, ilock, sched, fault, calls>>
      BY <1>2, <1>5 DEF ExecBlock, TypeOK
    <2>2. CASE proc[p].size = DBLK
      <3>1. v = [u[p] EXCEPT !.pc = "attach"] BY <1>2, <1>3, <1>4, <1>6, <2>2 DEF Locals
      <3> QED BY <2>1, <2>2, <3>1 DEF ExecBlock, Goto
    <2>3. CASE proc[p].size # DBLK BY <1>3, <1>4, <1>6, <1>7, <2>1, <2>3 DEF ExecBlock, Goto
    <2> QED BY <2>2, <2>3
  <1>10. Mine(p, r, v) /\ SameSched BY <1>2, <1>5, <1>8, <1>9 DEF Mine, SameSched
  <1>11. RegsOK(p, r, v)
    BY <1>2, <1>3, <1>4, <1>5, <1>8 DEF RegsOK, StatusOK, PurposeOK, AttachOK, SizeOK, Saving, Growing, Valve,
      Swelled
  <1>12. BootOK'
    <2>1. CASE Small(p) BY <1>2, <1>4, <1>5, <1>7, <1>8, <1>9, <1>10, <2>1, SmallIs, MineAlone DEF Good
    <2>2. CASE ~Small(p) BY <1>2, <1>3, <1>5, <1>10, <2>2, MineBoot DEF Good
    <2> QED BY <2>1, <2>2
  <1>13. CountOK'
    <2>1. \A x : SameRefs(p, r, v, x) BY <1>2, <1>3, <1>5, <1>8, SameRefsFrom DEF Retargeted
    <2> QED BY <1>2, <1>9, <1>10, <2>1, MineCount DEF Good
  <1>14. CoreOK'
    <2>1. /\ CoreExec(proc[p], u[p]) = {} /\ CoreTa(u[p]) = {} /\ CoreTa(v) = {}
          /\ CoreBlock(r, v) = CoreBlock(proc[p], u[p])
          /\ CoreExec(r, v) = IF proc[p].size = DBLK THEN {} ELSE Run(2, DBLK)
      BY <1>2, <1>3, <1>4, <1>5, <1>8 DEF CoreExec, CoreTa, CoreBlock
    <2>2. /\ CoreSplit(core', r, v, CoreTextAt(text', 0))
          /\ CoreSum(core', r, v, CoreTextAt(text', 0)) = CoreSum(core, proc[p], u[p], CoreTextAt(text, 0))
      BY <1>2, <1>3, <1>7, <1>9, <2>1, Had DEF CoreSplit, CoreSum, Five
    <2>3. \A x \in Slot : x # 0 => CoreText(text'[x]) = CoreText(text[x]) BY <1>9
    <2> QED BY <1>1, <1>10, <2>2, <2>3, StepCore
  <1>15. SwapOK' BY <1>2, <1>5, <1>8, <1>9, <1>10, MineSwapStays DEF Good, SwapImage, SwapStatus
  <1>16. /\ r.par = proc[p].par /\ Up(r) /\ r.chan # "child" /\ v.pc \notin {"wait", "reap", "load", "proto"}
         /\ r.load /\ (r.lock <=> Locking(v)) /\ ~Growing(v) /\ Execing(u[p])
         /\ (v.for = "image" <=> u[p].for = "image")
    BY <1>2, <1>3, <1>5, <1>8 DEF Locking, Execing, Growing, Saving
  <1>17. /\ fault' = "none" /\ text' \in [Slot -> TextSlot] /\ run' \in {0} \cup Proc
         /\ ilock' \in [Prog -> {0} \cup Proc] /\ calls' \in 0..MaxCalls /\ UNCHANGED <<text, ilock>> /\ run' = p
         /\ v.ip \in Prog /\ ilock'[v.ip] = p BY <1>2, <1>8, <1>9, <1>16 DEF TypeOK
  <1> QED BY <1>1, <1>10, <1>11, <1>12, <1>13, <1>14, <1>15, <1>16, <1>17, StepKeeps, ProcFacts

(* xalloc finds no entry, and takes core for the text or leaves to get it. *)
LEMMA AttachNewKeeps ==
    ASSUME IInv, NEW p \in Proc, AttachNew(p) PROVE IInv'
  <1>1. At(p, "attach") /\ Entry(u[p].ip) = {} BY DEF AttachNew
  <1>2. /\ TypeOK /\ Good /\ fault = "none"
        /\ proc[p] \in ProcSlot /\ u[p] \in Locals /\ u[p].pc = "attach" /\ run \in {0, p}
        /\ proc[p].stat = "run" /\ proc[p].load /\ proc[p].chan = "none" /\ Up(proc[p]) /\ Live(proc[p]) /\ Alive(p)
        /\ RegsOK(p, proc[p], u[p])
        /\ (proc[p].lock <=> Locking(u[p]))
        /\ (Execing(u[p]) => u[p].ip \in Prog /\ ilock[u[p].ip] = p) BY <1>1, AtFacts
  <1>3. u[p].for = "none" BY <1>2 DEF RegsOK, PurposeOK, Saving, Locals
  <1>4. PICK a : a = Malloc(core, TSIZE) OBVIOUS
  <1>5. a \in Nat /\ (a # 0 => Run(a, TSIZE) \subseteq core) BY <1>2, <1>4, MallocFits, Numbers DEF TypeOK
  <1>6. Small(p) => a = DBLK + 2 /\ core \ Run(a, TSIZE) = Rest(DBLK + TSIZE + 2)
    <2>1. DBLK + 2 \in Nat \ {0} /\ DBLK + 2 + TSIZE <= NCORE + 1 /\ DBLK + 2 + TSIZE = DBLK + TSIZE + 2
      BY CoreAssumption, Numbers
    <2> QED BY <1>2, <1>4, <2>1, SmallIs, RestMalloc, Numbers
  <1>7. PICK r : r = proc[p] OBVIOUS
  <1>8. PICK f \in {"none", "text"} : f = IF a # 0 THEN "none" ELSE "text" OBVIOUS
  <1>9. PICK l \in {"claim", "getswap"} : l = IF a # 0 THEN "claim" ELSE "getswap" OBVIOUS
  <1>10. PICK t \in Nat : t = IF a # 0 THEN a ELSE u[p].ta BY <1>2, <1>5 DEF Locals
  <1>11. PICK v : v = [u[p] EXCEPT !.ta = t, !.otp = proc[p].text, !.for = f, !.pc = l] OBVIOUS
  <1>12. /\ v \in Locals /\ v.pc = l /\ v.ip = u[p].ip /\ v.a = u[p].a /\ v.da = u[p].da /\ v.ta = t
         /\ v.xp = u[p].xp /\ v.otp = proc[p].text /\ v.for = f BY <1>2, <1>11 DEF Locals, Labels, ProcSlot
  <1>13. /\ proc' = [proc EXCEPT ![p] = r] /\ u' = [u EXCEPT ![p] = v]
         /\ core' = IF a # 0 THEN core \ Run(a, TSIZE) ELSE core
         /\ run' = p /\ UNCHANGED <<swap, text, ilock, sched, fault, calls>>
    <2>1. proc' = [proc EXCEPT ![p] = r] /\ run' = p /\ UNCHANGED <<swap, text, ilock, sched, fault, calls>>
      BY <1>2, <1>7 DEF AttachNew, TypeOK
    <2>2. CASE a # 0
      <3>1. v = [[[u[p] EXCEPT !.otp = proc[p].text] EXCEPT !.ta = a] EXCEPT !.pc = "claim"]
        BY <1>2, <1>3, <1>8, <1>9, <1>10, <1>11, <2>2 DEF Locals
      <3> QED BY <1>4, <2>1, <2>2, <3>1 DEF AttachNew, Goto
    <2>3. CASE a = 0
      <3>1. v = [[[u[p] EXCEPT !.otp = proc[p].text] EXCEPT !.for = "text"] EXCEPT !.pc = "getswap"]
        BY <1>2, <1>8, <1>9, <1>10, <1>11, <2>3 DEF Locals
      <3> QED BY <1>4, <2>1, <2>3, <3>1 DEF AttachNew, Goto
    <2> QED BY <1>5, <2>2, <2>3
  <1>14. Mine(p, r, v) /\ SameSched BY <1>2, <1>7, <1>12, <1>13 DEF Mine, SameSched
  <1>15. RegsOK(p, r, v)
    BY <1>2, <1>3, <1>7, <1>8, <1>9, <1>12 DEF RegsOK, StatusOK, PurposeOK, AttachOK, SizeOK, Saving, Growing,
      Valve, Swelled
  <1>16. BootOK'
    <2>1. CASE Small(p)
      <3>1. a # 0 /\ l = "claim" /\ f = "none" /\ t = DBLK + 2 /\ core' = Rest(DBLK + TSIZE + 2)
        BY <1>6, <1>8, <1>9, <1>10, <1>13, <2>1, Numbers
      <3>2. /\ r.addr = 1 /\ r.size = 1 /\ r.load
            /\ r.text = 0 \/ v.pc = "commit"
            /\ v.for = "none" /\ v.otp = 0 /\ v.pc = "claim"
            /\ v.da = 2 /\ v.ta = DBLK + 2
            /\ \A x \in Slot : text'[x] = NoText BY <1>2, <1>7, <1>12, <1>13, <2>1, <3>1, SmallIs
      <3> QED BY <1>2, <1>14, <2>1, <3>1, <3>2, MineAlone DEF Good
    <2>2. CASE ~Small(p) BY <1>1, <1>2, <1>7, <1>14, <2>2, MineBoot, NoBlock DEF Good
    <2> QED BY <2>1, <2>2
  <1>17. CountOK'
    <2>1. \A x : SameRefs(p, r, v, x) BY <1>2, <1>3, <1>7, <1>8, <1>9, <1>12, SameRefsFrom DEF Retargeted
    <2> QED BY <1>2, <1>13, <1>14, <2>1, MineCount DEF Good
  <1>18. CoreOK'
    <2>1. /\ CoreTa(u[p]) = {} /\ CoreBlock(r, v) = CoreBlock(proc[p], u[p])
          /\ CoreExec(r, v) = CoreExec(proc[p], u[p])
          /\ CoreTa(v) = IF a # 0 THEN Run(a, TSIZE) ELSE {}
      BY <1>2, <1>3, <1>7, <1>8, <1>9, <1>10, <1>12 DEF CoreExec, CoreTa, CoreBlock
    <2>2. /\ CoreSplit(core', r, v, CoreTextAt(text', 0))
          /\ CoreSum(core', r, v, CoreTextAt(text', 0)) = CoreSum(core, proc[p], u[p], CoreTextAt(text, 0))
      BY <1>2, <1>5, <1>13, <2>1, Had DEF CoreSplit, CoreSum, Five
    <2>3. \A x \in Slot : x # 0 => CoreText(text'[x]) = CoreText(text[x]) BY <1>13
    <2> QED BY <1>1, <1>14, <2>2, <2>3, StepCore
  <1>19. SwapOK' BY <1>2, <1>7, <1>9, <1>12, <1>13, <1>14, MineSwapStays DEF Good, SwapImage, SwapStatus
  <1>20. /\ r.par = proc[p].par /\ Up(r) /\ r.chan # "child" /\ v.pc \notin {"wait", "reap", "load", "proto"}
         /\ r.load /\ (r.lock <=> Locking(v)) /\ Execing(u[p]) /\ (v.for = "image" <=> u[p].for = "image")
    BY <1>2, <1>3, <1>7, <1>8, <1>9, <1>12 DEF Locking, Execing
  <1>21. \A x \in Slot : text'[x].ip # v.ip BY <1>1, <1>12, <1>13 DEF Entry
  <1>22. /\ fault' = "none" /\ text' \in [Slot -> TextSlot] /\ run' \in {0} \cup Proc
         /\ ilock' \in [Prog -> {0} \cup Proc] /\ calls' \in 0..MaxCalls /\ UNCHANGED <<text, ilock>> /\ run' = p
         /\ v.ip \in Prog /\ ilock'[v.ip] = p BY <1>2, <1>12, <1>13, <1>20 DEF TypeOK
  <1> QED BY <1>1, <1>14, <1>15, <1>16, <1>17, <1>18, <1>19, <1>20, <1>21, <1>22, StepKeeps, ProcFacts

(* One text's entry changes.                                               *)
LEMMA EntryIs ==
    ASSUME TypeOK, NEW x \in Slot, NEW e \in TextSlot, text' = [text EXCEPT ![x] = e]
    PROVE  text' \in [Slot -> TextSlot] /\ text'[x] = e /\ \A z \in Slot : z # x => text'[z] = text[z]
  BY DEF TypeOK

(* The tallies of who refers to what.                                      *)
LEMMA TalliesAre ==
    ASSUME NEW r, NEW v, NEW x
    PROVE  /\ Tally(r, v, x) = (IF r.text = x THEN 1 ELSE 0) + (IF v.pc \in {"load", "proto"} /\ v.xp = x THEN 1 ELSE 0)
                               + (IF Retargeted(v) /\ v.otp = x THEN 1 ELSE 0) + (IF v.pc = "committed" /\ v.xp = x THEN 1 ELSE 0)
           /\ CoreTally(r, v, x) = (IF r.text = x /\ r.ref THEN 1 ELSE 0)
                               + (IF Retargeted(v) /\ v.otp = x THEN 1 ELSE 0) + (IF v.pc = "committed" /\ v.xp = x THEN 1 ELSE 0)
  BY DEF Tally, CoreTally, Refers, RefersInCore, One

(* xalloc finds the text in the table, in core or not. *)
LEMMA AttachSharedKeeps ==
    ASSUME IInv, NEW p \in Proc, AttachShared(p) PROVE IInv'
  <1>1. At(p, "attach") BY DEF AttachShared
  <1>2. /\ TypeOK /\ Good /\ fault = "none"
        /\ proc[p] \in ProcSlot /\ u[p] \in Locals /\ u[p].pc = "attach" /\ run \in {0, p}
        /\ proc[p].stat = "run" /\ proc[p].load /\ proc[p].chan = "none" /\ Up(proc[p]) /\ Live(proc[p]) /\ Alive(p)
        /\ RegsOK(p, proc[p], u[p])
        /\ (proc[p].lock <=> Locking(u[p]))
        /\ (Execing(u[p]) => u[p].ip \in Prog /\ ilock[u[p].ip] = p) BY <1>1, AtFacts
  <1>3. u[p].for = "none" /\ ~proc[p].lock /\ Execing(u[p]) /\ (proc[p].text # 0 => proc[p].ref)
    BY <1>2 DEF RegsOK, PurposeOK, AttachOK, Saving, Locals, Locking, Execing
  <1>4. PICK a : a = Malloc(core, TSIZE) OBVIOUS
  <1>5. a \in Nat /\ (a # 0 => Run(a, TSIZE) \subseteq core) BY <1>2, <1>4, MallocFits, Numbers DEF TypeOK
  <1>6. PICK x \in Entry(u[p].ip) : AttachTo(p, x, a) BY <1>4 DEF AttachShared
  <1>7. x \in Slot /\ text[x].ip = u[p].ip /\ u[p].ip \in Prog /\ text[x] \in TextSlot /\ text[x].count > 0
        /\ text[x].count \in Nat /\ text[x].ccount \in Nat /\ text[x].ip # NoProg
    BY <1>2, <1>3, SwapAssumption DEF Entry, TypeOK, TextSlot, Good, CountOK
  <1>8. UNCHANGED <<swap, ilock, sched, fault, calls>> BY DEF AttachShared
  <1>9. ~Small(p) BY <1>2, <1>7, SmallIs DEF NoText
  <1>10. PICK in \in BOOLEAN : in <=> text[x].ccount # 0 OBVIOUS
  <1>11. PICK n \in Nat : n = IF in THEN text[x].ccount + 1 ELSE text[x].ccount BY <1>7
  <1>12. PICK e \in TextSlot : /\ e = [text[x] EXCEPT !.count = text[x].count + 1, !.ccount = n]
                              /\ e.count = text[x].count + 1 /\ e.ccount = n
                              /\ e.ip = text[x].ip /\ e.caddr = text[x].caddr /\ e.daddr = text[x].daddr
    <2>1. PICK m \in Nat : m = text[x].count + 1 BY <1>7
    <2>2. [text[x] EXCEPT !.count = m, !.ccount = n] \in TextSlot BY <1>7 DEF TextSlot
    <2> QED BY <1>7, <2>1, <2>2 DEF TextSlot
  <1>13. /\ text' \in [Slot -> TextSlot] /\ text'[x] = e /\ \A z \in Slot : z # x => text'[z] = text[z]
    <2>1. CASE in
      <3>1. text' = [text EXCEPT ![x].count = @ + 1, ![x].ccount = @ + 1] BY <1>6, <1>10, <2>1 DEF AttachTo
      <3>2. text' = [text EXCEPT ![x] = e] BY <1>2, <1>7, <1>11, <1>12, <2>1, <3>1 DEF TypeOK
      <3> QED BY <1>2, <1>7, <1>12, <3>2, EntryIs
    <2>2. CASE ~in
      <3>1. text' = [text EXCEPT ![x].count = @ + 1] BY <1>6, <1>10, <2>2 DEF AttachTo
      <3>2. e = [text[x] EXCEPT !.count = @ + 1] BY <1>7, <1>11, <1>12, <2>2 DEF TextSlot
      <3>3. text' = [text EXCEPT ![x] = e] BY <1>2, <1>7, <3>1, <3>2 DEF TypeOK
      <3> QED BY <1>2, <1>7, <1>12, <3>3, EntryIs
    <2> QED BY <1>10, <2>1, <2>2
  <1>14. PICK q : q = [proc[p] EXCEPT !.text = x, !.ref = in, !.lock = (~in /\ a # 0)] OBVIOUS
  <1>15. /\ q \in ProcSlot /\ q.text = x /\ q.ref = in /\ q.lock = (~in /\ a # 0) /\ q.load /\ q.addr = proc[p].addr
         /\ q.size = proc[p].size /\ q.img = proc[p].img /\ q.par = proc[p].par /\ q.stat = "run" /\ q.chan = "none"
    BY <1>2, <1>7, <1>14 DEF ProcSlot
  <1>16. PICK r : r = IF ~in /\ a # 0 THEN Io(q) ELSE q OBVIOUS
  <1>17. /\ r \in ProcSlot /\ SlotSame(q, r) /\ Up(r)
         /\ in \/ a = 0 => r.stat = "run" /\ r.chan = "none"
         /\ ~in /\ a # 0 => r.stat = "sleep" /\ r.chan = "io" BY <1>15, <1>16, IoIs DEF SlotSame, Up
  <1>18. PICK l \in {"commit", "reload", "getswap"} : l = IF in THEN "commit" ELSE IF a # 0 THEN "reload" ELSE "getswap"
    OBVIOUS
  <1>19. PICK f \in {"none", "valve"} : f = IF ~in /\ a = 0 THEN "valve" ELSE "none" OBVIOUS
  <1>20. PICK t \in Nat : t = IF ~in /\ a # 0 THEN a ELSE u[p].ta BY <1>2, <1>5 DEF Locals
  <1>21. PICK v : v = [u[p] EXCEPT !.xp = x, !.otp = proc[p].text, !.ta = t, !.for = f, !.pc = l] OBVIOUS
  <1>22. /\ v \in Locals /\ v.pc = l /\ v.ip = u[p].ip /\ v.a = u[p].a /\ v.da = u[p].da /\ v.ta = t
         /\ v.xp = x /\ v.otp = proc[p].text /\ v.for = f BY <1>2, <1>7, <1>21 DEF Locals, Labels, ProcSlot
  <1>23. /\ proc' = [proc EXCEPT ![p] = r] /\ u' = [u EXCEPT ![p] = v]
         /\ core' = IF ~in /\ a # 0 THEN core \ Run(a, TSIZE) ELSE core
         /\ run' = IF ~in /\ a # 0 THEN 0 ELSE p
    <2>1. CASE in
      <3>1. v = [[u[p] EXCEPT !.xp = x, !.otp = proc[p].text] EXCEPT !.pc = "commit"]
        BY <1>2, <1>3, <1>18, <1>19, <1>20, <1>21, <2>1 DEF Locals
      <3>2. r = [proc[p] EXCEPT !.text = x, !.ref = TRUE] BY <1>2, <1>3, <1>14, <1>16, <2>1 DEF ProcSlot
      <3>3. /\ proc' = [proc EXCEPT ![p].text = x, ![p].ref = TRUE]
            /\ u' = [u EXCEPT ![p] = v] /\ run' = p /\ UNCHANGED core
        BY <1>6, <1>10, <2>1, <3>1 DEF AttachTo, Goto
      <3> QED BY <1>2, <2>1, <3>2, <3>3 DEF TypeOK
    <2>2. CASE ~in /\ a # 0
      <3>1. v = [[[u[p] EXCEPT !.xp = x, !.otp = proc[p].text] EXCEPT !.ta = a] EXCEPT !.pc = "reload"]
        BY <1>2, <1>3, <1>18, <1>19, <1>20, <1>21, <2>2 DEF Locals
      <3>2. q = [proc[p] EXCEPT !.text = x, !.ref = FALSE, !.lock = TRUE] BY <1>2, <1>14, <2>2 DEF ProcSlot
      <3>3. /\ proc' = [proc EXCEPT ![p] = Io([proc[p] EXCEPT !.text = x, !.ref = FALSE, !.lock = TRUE])]
            /\ u' = [u EXCEPT ![p] = v] /\ run' = 0 /\ core' = core \ Run(a, TSIZE)
        BY <1>6, <1>10, <2>2, <3>1 DEF AttachTo, Goto
      <3> QED BY <1>16, <2>2, <3>2, <3>3
    <2>3. CASE ~in /\ a = 0
      <3>1. v = [[[u[p] EXCEPT !.xp = x, !.otp = proc[p].text] EXCEPT !.for = "valve"] EXCEPT !.pc = "getswap"]
        BY <1>2, <1>3, <1>18, <1>19, <1>20, <1>21, <2>3 DEF Locals
      <3>2. r = [proc[p] EXCEPT !.text = x, !.ref = FALSE] BY <1>2, <1>3, <1>14, <1>16, <2>3 DEF ProcSlot
      <3>3. /\ proc' = [proc EXCEPT ![p].text = x, ![p].ref = FALSE]
            /\ u' = [u EXCEPT ![p] = v] /\ run' = p /\ UNCHANGED core
        BY <1>6, <1>10, <2>3, <3>1 DEF AttachTo, Goto
      <3> QED BY <1>2, <2>3, <3>2, <3>3 DEF TypeOK
    <2> QED BY <1>5, <1>10, <2>1, <2>2, <2>3
  <1>0. Mine(p, r, v) /\ SameSched BY <1>8, <1>17, <1>22, <1>23 DEF Mine, SameSched
  <1>24. RegsOK(p, r, v)
    <2>1. StatusOK(p, r, v) BY <1>2, <1>15, <1>17, <1>18, <1>22 DEF RegsOK, StatusOK, SlotSame
    <2>2. PurposeOK(r, v) BY <1>15, <1>17, <1>18, <1>19, <1>22 DEF PurposeOK, Saving
    <2>3. AttachOK(r, v)
      BY <1>7, <1>15, <1>17, <1>18, <1>19, <1>22, ProcFacts DEF AttachOK, Saving, Growing, Valve, SlotSame
    <2>4. SizeOK(r, v) BY <1>2, <1>15, <1>17, <1>18, <1>22 DEF RegsOK, SizeOK, Swelled, SlotSame
    <2> QED BY <2>1, <2>2, <2>3, <2>4 DEF RegsOK
  <1>25. BootOK' BY <1>1, <1>2, <1>9, <1>15, <1>17, <1>0, MineBoot, NoBlock DEF Good, SlotSame
  <1>26. CountOK'
    <2>1. \A z \in Slot :
             /\ Tally(proc[p], u[p], z) = (IF proc[p].text = z THEN 1 ELSE 0)
             /\ CoreTally(proc[p], u[p], z) = (IF proc[p].text = z THEN 1 ELSE 0)
      BY <1>2, <1>3, TalliesAre, ProcFacts DEF Retargeted
    <2>2. Retargeted(v) /\ v.pc \notin {"load", "proto", "committed"} BY <1>18, <1>19, <1>22 DEF Retargeted
    <2>3. \A z \in Slot :
             /\ Tally(r, v, z) = (IF x = z THEN 1 ELSE 0) + (IF proc[p].text = z THEN 1 ELSE 0)
             /\ CoreTally(r, v, z) = (IF x = z /\ in THEN 1 ELSE 0) + (IF proc[p].text = z THEN 1 ELSE 0)
      BY <1>15, <1>17, <1>22, <2>2, TalliesAre DEF SlotSame
    <2>4. \A z \in Slot : text[z].count \in Nat /\ text[z].ccount \in Nat /\ (text[z].ip # NoProg <=> text[z].count > 0)
      BY <1>2 DEF TypeOK, TextSlot, Good, CountOK
    <2>5. \A z \in Slot :
             /\ text'[z].count + Tally(proc[p], u[p], z) = text[z].count + Tally(r, v, z)
             /\ text'[z].ccount + CoreTally(proc[p], u[p], z) = text[z].ccount + CoreTally(r, v, z)
             /\ text'[z].count \in Nat /\ text'[z].ccount \in Nat
             /\ text'[z].ip # NoProg <=> text'[z].count > 0
      <3>1. ASSUME NEW z \in Slot, z # x
            PROVE  /\ text'[z].count + Tally(proc[p], u[p], z) = text[z].count + Tally(r, v, z)
                   /\ text'[z].ccount + CoreTally(proc[p], u[p], z) = text[z].ccount + CoreTally(r, v, z)
                   /\ text'[z].count \in Nat /\ text'[z].ccount \in Nat
                   /\ text'[z].ip # NoProg <=> text'[z].count > 0 BY <1>13, <2>1, <2>3, <2>4, <3>1
      <3>2. /\ text'[x].count + Tally(proc[p], u[p], x) = text[x].count + Tally(r, v, x)
            /\ text'[x].ccount + CoreTally(proc[p], u[p], x) = text[x].ccount + CoreTally(r, v, x)
            /\ text'[x].count \in Nat /\ text'[x].ccount \in Nat
            /\ text'[x].ip # NoProg <=> text'[x].count > 0 BY <1>7, <1>11, <1>12, <1>13, <2>1, <2>3, <2>4
      <3> QED BY <3>1, <3>2
    <2>6. \A z, w \in Slot : text'[z].ip = text'[w].ip /\ text'[z].ip # NoProg => z = w
      <3>1. \A z \in Slot : text'[z].ip = text[z].ip BY <1>12, <1>13
      <3> QED BY <1>2, <3>1 DEF Good, CountOK
    <2>7. OthersRefer(p, proc', u') /\ proc'[p] = r /\ u'[p] = v /\ CountOK
      BY <1>2, <1>0, MineIs, MineOthers DEF Good
    <2> QED BY <2>5, <2>6, <2>7, CountMoves
  <1>27. \A z \in Slot : CoreText(text'[z]) = CoreText(text[z]) /\ SwapText(text'[z]) = SwapText(text[z])
    <2>1. CoreText(e) = CoreText(text[x]) /\ SwapText(e) = SwapText(text[x])
      <3>1. e.ccount > 0 <=> text[x].ccount > 0
        <4>1. CASE in BY <1>7, <1>10, <1>11, <1>12, <4>1
        <4>2. CASE ~in BY <1>7, <1>10, <1>11, <1>12, <4>2
        <4> QED BY <4>1, <4>2
      <3> QED BY <1>12, <3>1 DEF CoreText, SwapText
    <2> QED BY <1>13, <2>1
  <1>28. CoreOK'
    <2>1. /\ CoreTa(u[p]) = {} /\ CoreBlock(r, v) = CoreBlock(proc[p], u[p])
          /\ CoreExec(r, v) = CoreExec(proc[p], u[p])
          /\ CoreTa(v) = IF ~in /\ a # 0 THEN Run(a, TSIZE) ELSE {}
      BY <1>2, <1>3, <1>15, <1>17, <1>18, <1>19, <1>20, <1>22, <1>0 DEF CoreExec, CoreTa, CoreBlock, Up, Live,
        SlotSame
    <2>2. core' = IF ~in /\ a # 0 THEN core \ Run(a, TSIZE) ELSE core BY <1>23
    <2>3. /\ CoreSplit(core', r, v, CoreTextAt(text', 0))
          /\ CoreSum(core', r, v, CoreTextAt(text', 0)) = CoreSum(core, proc[p], u[p], CoreTextAt(text, 0))
      BY <1>2, <1>5, <2>1, <2>2, Had DEF CoreSplit, CoreSum, Five
    <2> QED BY <1>1, <1>0, <1>27, <2>3, StepCore
  <1>29. SwapOK'
    BY <1>2, <1>8, <1>15, <1>17, <1>18, <1>22, <1>0, <1>27, MineSwapStays DEF Good, SwapImage, SwapStatus, Up,
      Live, SlotSame
  <1>30. /\ r.par = proc[p].par /\ r.chan # "child" /\ v.pc \notin {"wait", "reap", "load", "proto"}
         /\ r.load /\ (r.lock <=> Locking(v)) /\ (v.for = "image" <=> u[p].for = "image") /\ ~Growing(v)
    BY <1>2, <1>3, <1>10, <1>15, <1>17, <1>18, <1>19, <1>22 DEF Locking, Growing, Saving, SlotSame
  <1>31. /\ fault' = "none" /\ run' \in {0} \cup Proc /\ (v.pc \in {"attach", "claim", "commit"} => run' = p)
         /\ ilock' \in [Prog -> {0} \cup Proc] /\ calls' \in 0..MaxCalls /\ UNCHANGED ilock
         /\ v.ip \in Prog /\ ilock'[v.ip] = p BY <1>2, <1>3, <1>8, <1>10, <1>23, <1>18, <1>22 DEF TypeOK
  <1>32. text'[x].ip = text[x].ip BY <1>12, <1>13
  <1> QED BY <1>1, <1>3, <1>7, <1>13, <1>17, <1>0, <1>24, <1>25, <1>26, <1>28, <1>29, <1>30, <1>31, <1>32, StepKeeps

(* The text is read back, unless somebody read it first. *)
LEMMA ReloadedKeeps ==
    ASSUME IInv, NEW p \in Proc, Reloaded(p) PROVE IInv'
  <1>1. At(p, "reload") BY DEF Reloaded
  <1>2. /\ TypeOK /\ Good /\ fault = "none"
        /\ proc[p] \in ProcSlot /\ u[p] \in Locals /\ u[p].pc = "reload" /\ run \in {0, p}
        /\ proc[p].stat = "run" /\ proc[p].load /\ proc[p].chan = "none" /\ Up(proc[p]) /\ Live(proc[p]) /\ Alive(p)
        /\ RegsOK(p, proc[p], u[p])
        /\ (Execing(u[p]) => u[p].ip \in Prog /\ ilock[u[p].ip] = p) BY <1>1, AtFacts
  <1>3. u[p].for = "none" /\ Execing(u[p]) /\ u[p].xp \in Slot /\ proc[p].text = u[p].xp /\ ~proc[p].ref
    BY <1>2, ProcFacts DEF RegsOK, PurposeOK, AttachOK, Saving, Locals, Execing, ProcSlot
  <1>4. PICK x \in Slot : x = u[p].xp BY <1>3
  <1>5. text[x] \in TextSlot /\ text[x].ccount \in Nat /\ text[x].count \in Nat /\ u[p].ta \in Nat
    BY <1>2 DEF TypeOK, TextSlot, Locals
  <1>6. PICK n \in Nat : n = text[x].ccount + 1 BY <1>5
  <1>7. PICK e : e = [text[x] EXCEPT !.caddr = u[p].ta, !.ccount = n] OBVIOUS
  <1>8. /\ e \in TextSlot /\ e.count = text[x].count /\ e.ccount = n
        /\ e.ip = text[x].ip /\ e.caddr = u[p].ta /\ e.daddr = text[x].daddr BY <1>5, <1>7 DEF TextSlot
  <1>9. PICK r : r = [proc[p] EXCEPT !.lock = FALSE, !.ref = TRUE] OBVIOUS
  <1>10. /\ r \in ProcSlot /\ ~r.lock /\ r.ref /\ r.stat = "run" /\ r.load /\ r.addr = proc[p].addr /\ r.size = proc[p].size
         /\ r.img = proc[p].img /\ r.text = x /\ r.par = proc[p].par /\ r.chan = "none"
    BY <1>2, <1>3, <1>4, <1>9 DEF ProcSlot
  <1>11. PICK v : v = [[u[p] EXCEPT !.ta = 0] EXCEPT !.pc = "commit"] OBVIOUS
  <1>12. /\ v \in Locals /\ v.pc = "commit" /\ v.ip = u[p].ip /\ v.a = u[p].a /\ v.da = u[p].da
         /\ v.xp = x /\ v.otp = u[p].otp /\ v.for = "none" BY <1>2, <1>3, <1>4, <1>11 DEF Locals, Labels
  <1>13. /\ proc' = [proc EXCEPT ![p] = r] /\ u' = [u EXCEPT ![p] = v] /\ text' = [text EXCEPT ![x] = e]
         /\ fault' = (IF text[x].ccount # 0 THEN "twice" ELSE "none")
         /\ run' = p /\ UNCHANGED <<core, swap, ilock, sched, calls>>
    <2>1. proc' = [proc EXCEPT ![p] = r] BY <1>2, <1>9 DEF Reloaded, TypeOK
    <2>2. u' = [u EXCEPT ![p] = v] BY <1>11 DEF Reloaded, Goto
    <2>3. text' = [text EXCEPT ![x] = e] BY <1>2, <1>4, <1>6, <1>7 DEF Reloaded, TypeOK
    <2> QED BY <1>2, <1>4, <2>1, <2>2, <2>3 DEF Reloaded
  <1>14. text' \in [Slot -> TextSlot] /\ text'[x] = e /\ \A z \in Slot : z # x => text'[z] = text[z]
    BY <1>2, <1>8, <1>13, EntryIs
  <1>15. Mine(p, r, v) /\ SameSched /\ Up(r) BY <1>10, <1>12, <1>13 DEF Mine, SameSched, Up
  <1>16. CASE text[x].ccount # 0
    <2>1. TypeOK' BY <1>2, <1>13, <1>14, <1>15, <1>16, MineIs DEF TypeOK
    <2> QED BY <1>13, <1>16, <2>1 DEF IInv
  <1>17. CASE text[x].ccount = 0
    <2>1. RegsOK(p, r, v)
      BY <1>2, <1>3, <1>10, <1>12, ProcFacts DEF RegsOK, StatusOK, PurposeOK, AttachOK, SizeOK, Saving,
        Growing, Valve, Swelled
    <2>2. BootOK' BY <1>1, <1>2, <1>10, <1>15, MineBoot, NoBlock, NotSmall DEF Good
    <2>3. CountOK'
      <3>1. \A z \in Slot :
               /\ Tally(proc[p], u[p], z) = (IF x = z THEN 1 ELSE 0) + (IF u[p].otp = z THEN 1 ELSE 0)
               /\ CoreTally(proc[p], u[p], z) = (IF u[p].otp = z THEN 1 ELSE 0)
        BY <1>2, <1>3, <1>4, TalliesAre DEF Retargeted
      <3>2. \A z \in Slot :
               /\ Tally(r, v, z) = (IF x = z THEN 1 ELSE 0) + (IF u[p].otp = z THEN 1 ELSE 0)
               /\ CoreTally(r, v, z) = (IF x = z THEN 1 ELSE 0) + (IF u[p].otp = z THEN 1 ELSE 0)
        BY <1>10, <1>12, TalliesAre DEF Retargeted
      <3>3. \A z \in Slot : text[z].count \in Nat /\ text[z].ccount \in Nat /\ (text[z].ip # NoProg <=> text[z].count > 0)
        BY <1>2 DEF TypeOK, TextSlot, Good, CountOK
      <3>4. \A z \in Slot :
               /\ text'[z].count + Tally(proc[p], u[p], z) = text[z].count + Tally(r, v, z)
               /\ text'[z].ccount + CoreTally(proc[p], u[p], z) = text[z].ccount + CoreTally(r, v, z)
               /\ text'[z].count \in Nat /\ text'[z].ccount \in Nat
               /\ text'[z].ip # NoProg <=> text'[z].count > 0 BY <1>6, <1>8, <1>14, <3>1, <3>2, <3>3
      <3>5. \A z, w \in Slot : text'[z].ip = text'[w].ip /\ text'[z].ip # NoProg => z = w
        <4>1. \A z \in Slot : text'[z].ip = text[z].ip BY <1>8, <1>14
        <4> QED BY <1>2, <4>1 DEF Good, CountOK
      <3>6. OthersRefer(p, proc', u') /\ proc'[p] = r /\ u'[p] = v /\ CountOK
        BY <1>2, <1>15, MineIs, MineOthers DEF Good
      <3> QED BY <3>4, <3>5, <3>6, CountMoves
    <2>4. CoreOK'
      <3>1. /\ CoreTa(u[p]) = Run(u[p].ta, TSIZE) /\ CoreBlock(r, v) = CoreBlock(proc[p], u[p])
            /\ CoreExec(r, v) = CoreExec(proc[p], u[p]) /\ CoreTa(v) = {}
        BY <1>2, <1>3, <1>10, <1>12, <1>15 DEF CoreExec, CoreTa, CoreBlock, Up, Live
      <3>2. CoreText(text[x]) = {} /\ CoreText(text'[x]) = Run(u[p].ta, TSIZE)
        BY <1>6, <1>8, <1>14, <1>17 DEF CoreText
      <3>3. /\ CoreTextAt(text, x) = {} /\ CoreTextAt(text', x) = Run(u[p].ta, TSIZE)
            /\ CoreSplit(core, proc[p], u[p], CoreTextAt(text, x)) BY <1>2, <3>2, Had
      <3>4. /\ CoreSplit(core', r, v, CoreTextAt(text', x))
            /\ CoreSum(core', r, v, CoreTextAt(text', x)) = CoreSum(core, proc[p], u[p], CoreTextAt(text, x))
        BY <1>13, <3>1, <3>3 DEF CoreSplit, CoreSum, Five
      <3> QED BY <1>1, <1>14, <1>15, <3>4, StepCore
    <2>5. SwapOK'
      <3>1. \A z \in Slot : SwapText(text'[z]) = SwapText(text[z]) BY <1>8, <1>14 DEF SwapText
      <3> QED BY <1>2, <1>10, <1>12, <1>13, <1>15, <3>1, MineSwapStays DEF Good, SwapImage, SwapStatus, Up, Live
    <2>6. /\ r.par = proc[p].par /\ r.chan # "child" /\ v.pc \notin {"wait", "reap", "load", "proto"}
          /\ r.load /\ (r.lock <=> Locking(v)) /\ (v.for = "image" <=> u[p].for = "image") /\ ~Growing(v)
      BY <1>3, <1>10, <1>12 DEF Locking, Growing, Saving
    <2>7. /\ fault' = "none" /\ run' \in {0} \cup Proc /\ run' = p
          /\ ilock' \in [Prog -> {0} \cup Proc] /\ calls' \in 0..MaxCalls /\ UNCHANGED ilock
          /\ v.ip \in Prog /\ ilock'[v.ip] = p BY <1>2, <1>3, <1>12, <1>13, <1>17 DEF TypeOK
    <2>8. text'[x].ip = text[x].ip BY <1>8, <1>14
    <2>9. \E k \in Kinds : Refers(k, proc[p], u[p], x) BY <1>3, <1>4 DEF Kinds, Refers
    <2> QED BY <1>1, <1>14, <1>15, <2>1, <2>2, <2>3, <2>4, <2>5, <2>6, <2>7, <2>8, <2>9, StepKeeps
  <1> QED BY <1>16, <1>17

(* xalloc takes a slot and swap space for the new text, or panics. *)
LEMMA ClaimKeeps ==
    ASSUME IInv, NEW p \in Proc, Claim(p) PROVE IInv'
  <1>1. At(p, "claim") BY DEF Claim
  <1>2. /\ TypeOK /\ Good /\ fault = "none"
        /\ proc[p] \in ProcSlot /\ u[p] \in Locals /\ u[p].pc = "claim" /\ run \in {0, p}
        /\ proc[p].stat = "run" /\ proc[p].load /\ proc[p].chan = "none" /\ Up(proc[p]) /\ Live(proc[p]) /\ Alive(p)
        /\ RegsOK(p, proc[p], u[p])
        /\ (Execing(u[p]) => u[p].ip \in Prog /\ ilock[u[p].ip] = p) BY <1>1, AtFacts
  <1>3. /\ u[p].for \in {"none", "text"} /\ Execing(u[p]) /\ Growing(u[p]) /\ u[p].ip \in Prog /\ u[p].ip # NoProg
        /\ \A z \in Slot : text[z].ip # u[p].ip
    BY <1>2, SwapAssumption DEF RegsOK, PurposeOK, Saving, Locals, Execing, Growing, Good, ExecOK, Entry
  <1>4. PICK S : S = {x \in Slot : text[x].ip = NoProg} OBVIOUS
  <1>5. PICK d : d = Malloc(swap, TSIZE * SECTORS) OBVIOUS
  <1>6. d \in Nat /\ (d # 0 => Run(d, TSIZE * SECTORS) \subseteq swap)
    <2>1. TSIZE * SECTORS \in Nat BY Numbers
    <2> QED BY <1>2, <1>5, <2>1, MallocFits, Numbers DEF TypeOK
  <1>7. UNCHANGED <<core, ilock, sched, calls>> BY DEF Claim
  <1>8. CASE fault' = "panic"
    <2>1. UNCHANGED <<swap, proc, text, u, run>> BY <1>2, <1>8 DEF Claim
    <2> QED BY <1>2, <1>7, <1>8, <2>1 DEF IInv, TypeOK
  <1>9. CASE fault' # "panic"
    <2>1. PICK x : x = Least(S) OBVIOUS
    <2>2. /\ S # {} /\ d # 0 /\ swap' = swap \ Run(d, TSIZE * SECTORS)
          /\ text' = [text EXCEPT ![x] = [@ EXCEPT !.ip = u[p].ip, !.count = 1, !.caddr = u[p].ta, !.daddr = d]]
          /\ proc' = [proc EXCEPT ![p] = Io([@ EXCEPT !.lock = TRUE])]
          /\ Goto(p, [u[p] EXCEPT !.xp = x], "load")
          /\ run' = 0 /\ UNCHANGED fault BY <1>4, <1>5, <1>9, <2>1 DEF Claim
    <2>3. x \in Slot /\ text[x].ip = NoProg /\ text[x] \in TextSlot
      <3>1. S \subseteq 1..NTEXT BY <1>4 DEF Slot
      <3>2. x \in S BY <2>1, <2>2, <3>1, LeastIn, Numbers
      <3> QED BY <1>2, <1>4, <3>2 DEF TypeOK
    <2>4. text[x].count = 0 /\ text[x].ccount = 0 BY <1>2, <2>3, Counted DEF Good
    <2>5. PICK e : e = [text[x] EXCEPT !.ip = u[p].ip, !.count = 1, !.caddr = u[p].ta, !.daddr = d] OBVIOUS
    <2>6. /\ e \in TextSlot /\ e.count = 1 /\ e.ccount = 0
          /\ e.ip = u[p].ip /\ e.caddr = u[p].ta /\ e.daddr = d
      BY <1>2, <1>3, <1>6, <2>3, <2>4, <2>5 DEF TextSlot, Locals
    <2>7. text' \in [Slot -> TextSlot] /\ text'[x] = e /\ \A z \in Slot : z # x => text'[z] = text[z]
      <3>1. text' = [text EXCEPT ![x] = e] BY <2>2, <2>5
      <3> QED BY <1>2, <2>3, <2>6, <3>1, EntryIs
    <2>8. PICK q : q = [proc[p] EXCEPT !.lock = TRUE] OBVIOUS
    <2>9. /\ q \in ProcSlot /\ q.lock /\ q.load /\ q.addr = proc[p].addr /\ q.size = proc[p].size
          /\ q.img = proc[p].img /\ q.text = proc[p].text /\ q.par = proc[p].par /\ q.ref = proc[p].ref
      BY <1>2, <2>8 DEF ProcSlot
    <2>10. PICK r : r = Io(q) OBVIOUS
    <2>11. /\ r \in ProcSlot /\ Up(r) /\ r.stat = "sleep" /\ r.chan = "io"
           /\ r.lock /\ r.load /\ r.addr = proc[p].addr /\ r.size = proc[p].size
           /\ r.img = proc[p].img /\ r.text = proc[p].text /\ r.par = proc[p].par /\ r.ref = proc[p].ref
      BY <2>9, <2>10, IoIs DEF SlotSame
    <2>12. PICK v : v = [[u[p] EXCEPT !.xp = x] EXCEPT !.pc = "load"] OBVIOUS
    <2>13. /\ v \in Locals /\ v.pc = "load" /\ v.ip = u[p].ip /\ v.a = u[p].a /\ v.da = u[p].da /\ v.ta = u[p].ta
           /\ v.xp = x /\ v.otp = u[p].otp /\ v.for = u[p].for BY <1>2, <2>3, <2>12 DEF Locals, Labels
    <2>14. Mine(p, r, v) /\ SameSched
      BY <1>7, <2>2, <2>8, <2>10, <2>11, <2>12, <2>13 DEF Mine, SameSched, Goto
    <2>15. RegsOK(p, r, v)
      BY <1>2, <1>3, <2>3, <2>11, <2>13, ProcFacts DEF RegsOK, StatusOK, PurposeOK, AttachOK, SizeOK, Saving,
        Growing, Valve, Swelled
    <2>16. BootOK'
      <3>1. CASE Small(p)
        <4>1. /\ r.addr = 1 /\ r.size = 1 /\ r.load /\ r.text = 0
              /\ v.for = "none" /\ v.otp = 0 /\ v.da = 2
              /\ v.ta = DBLK + 2 /\ core' = Rest(DBLK + TSIZE + 2)
              /\ \A z \in Slot : text'[z] = NoText \/ z = v.xp
          BY <1>2, <1>7, <2>7, <2>11, <2>13, <3>1, SmallIs
        <4> QED BY <1>2, <2>13, <2>14, <3>1, <4>1, MineAlone DEF Good
      <3>2. CASE ~Small(p) BY <1>1, <1>2, <2>11, <2>14, <3>2, MineBoot, NoBlock DEF Good
      <3> QED BY <3>1, <3>2
    <2>17. CountOK'
      <3>1. \A z \in Slot :
               /\ Tally(proc[p], u[p], z) = (IF proc[p].text = z THEN 1 ELSE 0)
               /\ CoreTally(proc[p], u[p], z) = (IF proc[p].text = z /\ proc[p].ref THEN 1 ELSE 0)
        BY <1>2, <1>3, TalliesAre DEF Retargeted
      <3>2. \A z \in Slot :
               /\ Tally(r, v, z) = (IF proc[p].text = z THEN 1 ELSE 0) + (IF x = z THEN 1 ELSE 0)
               /\ CoreTally(r, v, z) = (IF proc[p].text = z /\ proc[p].ref THEN 1 ELSE 0)
        BY <1>3, <2>11, <2>13, TalliesAre DEF Retargeted
      <3>3. \A z \in Slot : text[z].count \in Nat /\ text[z].ccount \in Nat /\ (text[z].ip # NoProg <=> text[z].count > 0)
        BY <1>2 DEF TypeOK, TextSlot, Good, CountOK
      <3>4. \A z \in Slot :
               /\ text'[z].count + Tally(proc[p], u[p], z) = text[z].count + Tally(r, v, z)
               /\ text'[z].ccount + CoreTally(proc[p], u[p], z) = text[z].ccount + CoreTally(r, v, z)
               /\ text'[z].count \in Nat /\ text'[z].ccount \in Nat
               /\ text'[z].ip # NoProg <=> text'[z].count > 0 BY <1>3, <2>4, <2>6, <2>7, <3>1, <3>2, <3>3
      <3>5. \A z, w \in Slot : text'[z].ip = text'[w].ip /\ text'[z].ip # NoProg => z = w
        BY <1>2, <1>3, <2>6, <2>7 DEF Good, CountOK
      <3>6. OthersRefer(p, proc', u') /\ proc'[p] = r /\ u'[p] = v /\ CountOK
        BY <1>2, <2>14, MineIs, MineOthers DEF Good
      <3> QED BY <3>4, <3>5, <3>6, CountMoves
    <2>18. CoreOK'
      <3>1. /\ CoreTa(v) = CoreTa(u[p]) /\ CoreBlock(r, v) = CoreBlock(proc[p], u[p])
            /\ CoreExec(r, v) = CoreExec(proc[p], u[p])
        BY <1>2, <1>3, <2>11, <2>13 DEF CoreExec, CoreTa, CoreBlock, Up, Live
      <3>2. \A z \in Slot : CoreText(text'[z]) = CoreText(text[z]) BY <2>4, <2>6, <2>7 DEF CoreText
      <3> QED BY <1>2, <1>7, <2>11, <2>14, <3>1, <3>2, MineCoreStays DEF Good
    <2>19. SwapOK'
      <3>1. /\ SwapImage(proc[p], u[p]) = {} /\ SwapStatus(proc[p], u[p]) = {}
            /\ SwapImage(r, v) = {} /\ SwapStatus(r, v) = {} BY <1>2, <2>11, <2>13 DEF SwapImage, SwapStatus
      <3>2. SwapText(text[x]) = {} /\ SwapText(text'[x]) = Run(d, TSIZE * SECTORS)
        BY <1>3, <2>3, <2>6, <2>7 DEF SwapText
      <3>3. /\ SwapTextAt(text, x) = {} /\ SwapTextAt(text', x) = Run(d, TSIZE * SECTORS)
            /\ SwapSplit(swap, proc[p], u[p], SwapTextAt(text, x)) BY <1>2, <2>3, <3>2, Had
      <3>4. /\ SwapSplit(swap', r, v, SwapTextAt(text', x))
            /\ SwapSum(swap', r, v, SwapTextAt(text', x)) = SwapSum(swap, proc[p], u[p], SwapTextAt(text, x))
        BY <1>6, <2>2, <3>1, <3>3 DEF SwapSplit, SwapSum, Five
      <3> QED BY <1>1, <2>7, <2>14, <3>4, StepSwap
    <2>20. /\ r.par = proc[p].par /\ r.chan # "child" /\ v.pc \notin {"wait", "reap", "attach", "claim", "commit"}
           /\ r.load /\ (r.lock <=> Locking(v)) /\ (v.for = "image" <=> u[p].for = "image") /\ ~Growing(v)
      BY <1>3, <2>11, <2>13 DEF Locking, Growing, Saving
    <2>21. /\ fault' = "none" /\ run' \in {0} \cup Proc
           /\ ilock' \in [Prog -> {0} \cup Proc] /\ calls' \in 0..MaxCalls /\ UNCHANGED ilock
           /\ v.ip \in Prog /\ ilock'[v.ip] = p BY <1>2, <1>3, <1>7, <2>2, <2>13 DEF TypeOK
    <2>22. text'[v.xp].ip = v.ip /\ text'[v.xp].count = 1 /\ text'[v.xp].ccount = 0 /\ text'[v.xp].caddr = v.ta
      BY <2>6, <2>7, <2>13
    <2> QED BY <1>1, <1>3, <2>3, <2>6, <2>7, <2>11, <2>14, <2>15, <2>16, <2>17, <2>18, <2>19, <2>20, <2>21, <2>22, StepKeeps
  <1> QED BY <1>8, <1>9

(* readi fails, and slot, core and swap space are given back. *)
LEMMA LoadFailsKeeps ==
    ASSUME IInv, NEW p \in Proc, LoadFails(p) PROVE IInv'
  <1>1. At(p, "load") BY DEF LoadFails
  <1>2. /\ TypeOK /\ Good /\ fault = "none"
        /\ proc[p] \in ProcSlot /\ u[p] \in Locals /\ u[p].pc = "load" /\ run \in {0, p}
        /\ proc[p].stat = "run" /\ proc[p].load /\ proc[p].chan = "none" /\ Up(proc[p]) /\ Live(proc[p]) /\ Alive(p)
        /\ RegsOK(p, proc[p], u[p])
        /\ (proc[p].lock <=> Locking(u[p]))
        /\ (Execing(u[p]) => u[p].ip \in Prog /\ ilock[u[p].ip] = p) BY <1>1, AtFacts
  <1>3. /\ u[p].for \in {"none", "text"} /\ Execing(u[p]) /\ u[p].xp \in Slot /\ u[p].otp = proc[p].text
        /\ (proc[p].text # 0 => proc[p].ref)
    BY <1>2, ProcFacts DEF RegsOK, PurposeOK, AttachOK, Saving, Locals, Execing
  <1>4. PICK x \in Slot : x = u[p].xp BY <1>3
  <1>5. /\ text[x] \in TextSlot /\ text[x].count = 1 /\ text[x].ccount = 0 /\ text[x].ip # NoProg
        /\ text[x].daddr \in Nat /\ u[p].ta \in Nat /\ u[p].da \in Nat
    <2>1. text[x].ip = u[p].ip /\ text[x].count = 1 /\ text[x].ccount = 0 BY <1>2, <1>4 DEF Good, ExecOK
    <2> QED BY <1>2, <1>3, <2>1, SwapAssumption DEF TypeOK, TextSlot, Locals
  <1>6. PICK r : r = [proc[p] EXCEPT !.lock = FALSE] OBVIOUS
  <1>7. /\ r \in ProcSlot /\ ~r.lock /\ r.ref = proc[p].ref /\ r.stat = "run" /\ r.load /\ r.addr = proc[p].addr /\ r.size = proc[p].size
        /\ r.img = proc[p].img /\ r.text = proc[p].text /\ r.par = proc[p].par /\ r.chan = "none"
    BY <1>2, <1>6 DEF ProcSlot
  <1>8. Small(p) => proc[p].text = 0 /\ u[p].da = 2 /\ u[p].ta = DBLK + 2 /\ core = Rest(DBLK + TSIZE + 2)
    BY <1>2, SmallIs
  <1>9. proc[p].size = DBLK <=> ~Small(p) BY <1>1, NoBlock DEF Small
  <1>10. /\ proc' = [proc EXCEPT ![p] = r] /\ u' = [u EXCEPT ![p] = Home] /\ text' = [text EXCEPT ![x] = NoText]
         /\ core' = core \cup Run(u[p].ta, TSIZE) \cup (IF proc[p].size = DBLK THEN {} ELSE Run(u[p].da, DBLK))
         /\ swap' = swap \cup Run(text[x].daddr, TSIZE * SECTORS)
         /\ ilock' = Unlocked(p) /\ run' = 0 /\ UNCHANGED <<sched, fault, calls>>
    <2>1. proc' = [proc EXCEPT ![p] = r] BY <1>2, <1>6 DEF LoadFails, TypeOK
    <2>2. u' = [u EXCEPT ![p] = Home] BY HomeIs DEF LoadFails, Returns, Goto
    <2> QED BY <1>4, <2>1, <2>2 DEF LoadFails, Returns
  <1>11. NoText \in TextSlot /\ NoText.ip = NoProg /\ NoText.count = 0 /\ NoText.ccount = 0
    BY DEF NoText, TextSlot
  <1>12. text' \in [Slot -> TextSlot] /\ text'[x] = NoText /\ \A z \in Slot : z # x => text'[z] = text[z]
    BY <1>2, <1>10, <1>11, EntryIs
  <1>13. Mine(p, r, Home) /\ SameSched /\ Up(r) BY <1>7, <1>10, HomeIs DEF Mine, SameSched, Up
  <1>14. RegsOK(p, r, Home)
    BY <1>2, <1>3, <1>7, HomeIs DEF RegsOK, StatusOK, PurposeOK, AttachOK, SizeOK, Saving, Growing, Valve,
      Swelled
  <1>15. BootOK'
    <2>1. CASE Small(p)
      <3>1. core' = Rest(2)
        <4>1. core' = Rest(DBLK + TSIZE + 2) \cup Run(DBLK + 2, TSIZE) \cup Run(2, DBLK)
          BY <1>8, <1>9, <1>10, <2>1
        <4> QED BY <4>1, CoreAssumption, Numbers DEF Rest, Run
      <3>2. /\ r.addr = 1 /\ r.size = 1 /\ r.load /\ r.text = 0
            /\ \A z \in Slot : text'[z] = NoText BY <1>2, <1>4, <1>7, <1>12, <2>1, SmallIs
      <3> QED BY <1>2, <1>13, <2>1, <3>1, <3>2, MineAlone, HomeIs DEF Good
    <2>2. CASE ~Small(p) BY <1>1, <1>2, <1>7, <1>13, <2>2, MineBoot, NoBlock DEF Good
    <2> QED BY <2>1, <2>2
  <1>16. CountOK'
    <2>1. \A z \in Slot :
             /\ Tally(proc[p], u[p], z) = (IF proc[p].text = z THEN 1 ELSE 0) + (IF x = z THEN 1 ELSE 0)
             /\ CoreTally(proc[p], u[p], z) = (IF proc[p].text = z /\ proc[p].ref THEN 1 ELSE 0)
      BY <1>2, <1>3, <1>4, TalliesAre DEF Retargeted
    <2>2. \A z \in Slot :
             /\ Tally(r, Home, z) = (IF proc[p].text = z THEN 1 ELSE 0)
             /\ CoreTally(r, Home, z) = (IF proc[p].text = z /\ proc[p].ref THEN 1 ELSE 0)
      BY <1>7, TalliesAre, HomeIs DEF Retargeted
    <2>3. \A z \in Slot : text[z].count \in Nat /\ text[z].ccount \in Nat /\ (text[z].ip # NoProg <=> text[z].count > 0)
      BY <1>2 DEF TypeOK, TextSlot, Good, CountOK
    <2>4. \A z \in Slot :
             /\ text'[z].count + Tally(proc[p], u[p], z) = text[z].count + Tally(r, Home, z)
             /\ text'[z].ccount + CoreTally(proc[p], u[p], z) = text[z].ccount + CoreTally(r, Home, z)
             /\ text'[z].count \in Nat /\ text'[z].ccount \in Nat
             /\ text'[z].ip # NoProg <=> text'[z].count > 0 BY <1>5, <1>11, <1>12, <2>1, <2>2, <2>3
    <2>5. \A z, w \in Slot : text'[z].ip = text'[w].ip /\ text'[z].ip # NoProg => z = w
      BY <1>2, <1>11, <1>12 DEF Good, CountOK
    <2>6. OthersRefer(p, proc', u') /\ proc'[p] = r /\ u'[p] = Home /\ CountOK
      BY <1>2, <1>13, MineIs, MineOthers DEF Good
    <2> QED BY <2>4, <2>5, <2>6, CountMoves
  <1>17. CoreOK'
    <2>1. /\ CoreTa(u[p]) = Run(u[p].ta, TSIZE) /\ CoreTa(Home) = {} /\ CoreBlock(r, Home) = CoreBlock(proc[p], u[p])
          /\ CoreExec(proc[p], u[p]) = (IF proc[p].size = DBLK THEN {} ELSE Run(u[p].da, DBLK))
          /\ CoreExec(r, Home) = {}
      BY <1>2, <1>3, <1>7, <1>8, <1>9, <1>13, HomeIs DEF CoreExec, CoreTa, CoreBlock, Up, Live
    <2>2. CoreText(text[x]) = {} /\ CoreText(text'[x]) = {} BY <1>5, <1>11, <1>12 DEF CoreText
    <2>3. /\ CoreTextAt(text, x) = {} /\ CoreTextAt(text', x) = {}
          /\ CoreSplit(core, proc[p], u[p], CoreTextAt(text, x)) BY <1>2, <2>2, Had
    <2>4. /\ CoreSplit(core', r, Home, CoreTextAt(text', x))
          /\ CoreSum(core', r, Home, CoreTextAt(text', x)) = CoreSum(core, proc[p], u[p], CoreTextAt(text, x))
      <3>1. core' = core \cup CoreTa(u[p]) \cup CoreExec(proc[p], u[p]) BY <1>10, <2>1
      <3>2. CoreTa(Home) = {} /\ CoreExec(r, Home) = {} /\ CoreBlock(r, Home) = CoreBlock(proc[p], u[p])
        BY <2>1
      <3> QED BY ONLY <3>1, <3>2, <2>3 DEF CoreSplit, CoreSum, Five
    <2> QED BY <1>1, <1>12, <1>13, <2>4, StepCore
  <1>18. SwapOK'
    <2>1. /\ SwapImage(proc[p], u[p]) = {} /\ SwapStatus(proc[p], u[p]) = {}
          /\ SwapImage(r, Home) = {} /\ SwapStatus(r, Home) = {}
      BY <1>2, <1>7, HomeIs DEF SwapImage, SwapStatus
    <2>2. SwapText(text[x]) = Run(text[x].daddr, TSIZE * SECTORS) /\ SwapText(text'[x]) = {}
      BY <1>5, <1>11, <1>12 DEF SwapText
    <2>3. /\ SwapTextAt(text, x) = Run(text[x].daddr, TSIZE * SECTORS) /\ SwapTextAt(text', x) = {}
          /\ SwapSplit(swap, proc[p], u[p], SwapTextAt(text, x)) BY <1>2, <2>2, Had
    <2>4. /\ SwapSplit(swap', r, Home, SwapTextAt(text', x))
          /\ SwapSum(swap', r, Home, SwapTextAt(text', x)) = SwapSum(swap, proc[p], u[p], SwapTextAt(text, x))
      BY <1>10, <2>1, <2>3 DEF SwapSplit, SwapSum, Five
    <2> QED BY <1>1, <1>12, <1>13, <2>4, StepSwap
  <1>19. /\ r.par = proc[p].par /\ r.chan # "child" /\ Home.pc = "user"
         /\ r.load /\ (r.lock <=> Locking(Home)) /\ (Home.for = "image" <=> u[p].for = "image") /\ ~Growing(Home) /\ ~Execing(Home)
    BY <1>3, <1>7, HomeIs DEF Locking, Growing, Saving, Execing
  <1>20. /\ fault' = "none" /\ run' \in {0} \cup Proc
         /\ ilock' \in [Prog -> {0} \cup Proc] /\ calls' \in 0..MaxCalls
         /\ \A g \in Prog : ilock[g] \notin {0, p} => ilock'[g] = ilock[g]
    BY <1>2, <1>10 DEF TypeOK, Unlocked
  <1>21. \E k \in Kinds : Refers(k, proc[p], u[p], x) BY <1>2, <1>4 DEF Kinds, Refers
  <1>22. text'[x].ip = NoProg BY <1>11, <1>12
  <1> QED BY <1>1, <1>12, <1>13, <1>14, <1>15, <1>16, <1>17, <1>18, <1>19, <1>20, <1>21, <1>22, StepKeeps

(* The text is on the swap device and in core, with one process. *)
LEMMA ProtoKeeps ==
    ASSUME IInv, NEW p \in Proc, Proto(p) PROVE IInv'
  <1>1. At(p, "proto") BY DEF Proto
  <1>2. /\ TypeOK /\ Good /\ fault = "none"
        /\ proc[p] \in ProcSlot /\ u[p] \in Locals /\ u[p].pc = "proto" /\ run \in {0, p}
        /\ proc[p].stat = "run" /\ proc[p].load /\ proc[p].chan = "none" /\ Up(proc[p]) /\ Live(proc[p]) /\ Alive(p)
        /\ RegsOK(p, proc[p], u[p])
        /\ (proc[p].lock <=> Locking(u[p]))
        /\ (Execing(u[p]) => u[p].ip \in Prog /\ ilock[u[p].ip] = p) BY <1>1, AtFacts
  <1>3. /\ u[p].for \in {"none", "text"} /\ Execing(u[p]) /\ u[p].xp \in Slot /\ u[p].otp = proc[p].text
        /\ (proc[p].text # 0 => proc[p].ref)
    BY <1>2, ProcFacts DEF RegsOK, PurposeOK, AttachOK, Saving, Locals, Execing
  <1>4. PICK x \in Slot : x = u[p].xp BY <1>3
  <1>5. /\ text[x] \in TextSlot /\ text[x].count = 1 /\ text[x].ccount = 0 /\ text[x].caddr = u[p].ta
    BY <1>2, <1>4 DEF Good, ExecOK, TypeOK
  <1>6. PICK e : e = [text[x] EXCEPT !.ccount = 1] OBVIOUS
  <1>7. /\ e \in TextSlot /\ e.count = 1 /\ e.ccount = 1
        /\ e.ip = text[x].ip /\ e.caddr = u[p].ta /\ e.daddr = text[x].daddr BY <1>5, <1>6 DEF TextSlot
  <1>8. PICK r : r = [proc[p] EXCEPT !.lock = FALSE, !.text = x, !.ref = TRUE] OBVIOUS
  <1>9. /\ r \in ProcSlot /\ ~r.lock /\ r.ref /\ r.stat = "run" /\ r.load /\ r.addr = proc[p].addr /\ r.size = proc[p].size
        /\ r.img = proc[p].img /\ r.text = x /\ r.par = proc[p].par /\ r.chan = "none"
    BY <1>2, <1>8 DEF ProcSlot
  <1>10. PICK v : v = [[u[p] EXCEPT !.ta = 0] EXCEPT !.pc = "commit"] OBVIOUS
  <1>11. /\ v \in Locals /\ v.pc = "commit" /\ v.ip = u[p].ip /\ v.a = u[p].a /\ v.da = u[p].da
         /\ v.xp = x /\ v.otp = proc[p].text /\ v.for = u[p].for
    BY <1>2, <1>3, <1>4, <1>10 DEF Locals, Labels
  <1>12. /\ proc' = [proc EXCEPT ![p] = r] /\ u' = [u EXCEPT ![p] = v] /\ text' = [text EXCEPT ![x] = e]
         /\ run' = p /\ UNCHANGED <<core, swap, ilock, sched, fault, calls>>
    <2>1. proc' = [proc EXCEPT ![p] = r] BY <1>2, <1>4, <1>8 DEF Proto, TypeOK
    <2>2. u' = [u EXCEPT ![p] = v] BY <1>10 DEF Proto, Goto
    <2>3. text' = [text EXCEPT ![x] = e] BY <1>2, <1>4, <1>6 DEF Proto, TypeOK
    <2> QED BY <2>1, <2>2, <2>3 DEF Proto
  <1>13. text' \in [Slot -> TextSlot] /\ text'[x] = e /\ \A z \in Slot : z # x => text'[z] = text[z]
    BY <1>2, <1>7, <1>12, EntryIs
  <1>14. Mine(p, r, v) /\ SameSched /\ Up(r) BY <1>9, <1>11, <1>12 DEF Mine, SameSched, Up
  <1>15. RegsOK(p, r, v)
    BY <1>2, <1>3, <1>9, <1>11, ProcFacts DEF RegsOK, StatusOK, PurposeOK, AttachOK, SizeOK, Saving, Growing,
      Valve, Swelled
  <1>16. BootOK'
    <2>1. CASE Small(p)
      <3>1. /\ r.addr = 1 /\ r.size = 1 /\ r.load
            /\ v.for = "none" /\ v.otp = 0 /\ v.da = 2 BY <1>2, <1>9, <1>11, <2>1, SmallIs
      <3> QED BY <1>2, <1>11, <1>14, <2>1, <3>1, MineAlone DEF Good
    <2>2. CASE ~Small(p) BY <1>1, <1>2, <1>9, <1>14, <2>2, MineBoot, NoBlock DEF Good
    <2> QED BY <2>1, <2>2
  <1>17. CountOK'
    <2>1. \A z \in Slot :
             /\ Tally(proc[p], u[p], z) = (IF proc[p].text = z THEN 1 ELSE 0) + (IF x = z THEN 1 ELSE 0)
             /\ CoreTally(proc[p], u[p], z) = (IF proc[p].text = z THEN 1 ELSE 0)
      BY <1>2, <1>3, <1>4, TalliesAre, ProcFacts DEF Retargeted
    <2>2. \A z \in Slot :
             /\ Tally(r, v, z) = (IF x = z THEN 1 ELSE 0) + (IF proc[p].text = z THEN 1 ELSE 0)
             /\ CoreTally(r, v, z) = (IF x = z THEN 1 ELSE 0) + (IF proc[p].text = z THEN 1 ELSE 0)
      BY <1>9, <1>11, TalliesAre DEF Retargeted
    <2>3. \A z \in Slot : text[z].count \in Nat /\ text[z].ccount \in Nat /\ (text[z].ip # NoProg <=> text[z].count > 0)
      BY <1>2 DEF TypeOK, TextSlot, Good, CountOK
    <2>4. \A z \in Slot :
             /\ text'[z].count + Tally(proc[p], u[p], z) = text[z].count + Tally(r, v, z)
             /\ text'[z].ccount + CoreTally(proc[p], u[p], z) = text[z].ccount + CoreTally(r, v, z)
             /\ text'[z].count \in Nat /\ text'[z].ccount \in Nat
             /\ text'[z].ip # NoProg <=> text'[z].count > 0 BY <1>5, <1>7, <1>13, <2>1, <2>2, <2>3
    <2>5. \A z, w \in Slot : text'[z].ip = text'[w].ip /\ text'[z].ip # NoProg => z = w
      <3>1. \A z \in Slot : text'[z].ip = text[z].ip BY <1>7, <1>13
      <3> QED BY <1>2, <3>1 DEF Good, CountOK
    <2>6. OthersRefer(p, proc', u') /\ proc'[p] = r /\ u'[p] = v /\ CountOK
      BY <1>2, <1>14, MineIs, MineOthers DEF Good
    <2> QED BY <2>4, <2>5, <2>6, CountMoves
  <1>18. CoreOK'
    <2>1. /\ CoreTa(u[p]) = Run(u[p].ta, TSIZE) /\ CoreBlock(r, v) = CoreBlock(proc[p], u[p])
          /\ CoreExec(r, v) = CoreExec(proc[p], u[p]) /\ CoreTa(v) = {}
      BY <1>2, <1>3, <1>9, <1>11, <1>14 DEF CoreExec, CoreTa, CoreBlock, Up, Live
    <2>2. CoreText(text[x]) = {} /\ CoreText(text'[x]) = Run(u[p].ta, TSIZE)
      BY <1>5, <1>7, <1>13 DEF CoreText
    <2>3. /\ CoreTextAt(text, x) = {} /\ CoreTextAt(text', x) = Run(u[p].ta, TSIZE)
          /\ CoreSplit(core, proc[p], u[p], CoreTextAt(text, x)) BY <1>2, <2>2, Had
    <2>4. /\ CoreSplit(core', r, v, CoreTextAt(text', x))
          /\ CoreSum(core', r, v, CoreTextAt(text', x)) = CoreSum(core, proc[p], u[p], CoreTextAt(text, x))
      BY <1>12, <2>1, <2>3 DEF CoreSplit, CoreSum, Five
    <2> QED BY <1>1, <1>13, <1>14, <2>4, StepCore
  <1>19. SwapOK'
    <2>1. \A z \in Slot : SwapText(text'[z]) = SwapText(text[z]) BY <1>7, <1>13 DEF SwapText
    <2> QED BY <1>2, <1>9, <1>11, <1>12, <1>14, <2>1, MineSwapStays DEF Good, SwapImage, SwapStatus, Up, Live
  <1>20. /\ r.par = proc[p].par /\ r.chan # "child" /\ v.pc \notin {"wait", "reap", "load", "proto"}
         /\ r.load /\ (r.lock <=> Locking(v)) /\ (v.for = "image" <=> u[p].for = "image") /\ ~Growing(v)
    BY <1>3, <1>9, <1>11 DEF Locking, Growing, Saving
  <1>21. /\ fault' = "none" /\ run' \in {0} \cup Proc /\ run' = p
         /\ ilock' \in [Prog -> {0} \cup Proc] /\ calls' \in 0..MaxCalls /\ UNCHANGED ilock
         /\ v.ip \in Prog /\ ilock'[v.ip] = p BY <1>2, <1>3, <1>11, <1>12 DEF TypeOK
  <1>22. text'[x].ip = text[x].ip BY <1>7, <1>13
  <1>23. \E k \in Kinds : Refers(k, proc[p], u[p], x) BY <1>2, <1>4 DEF Kinds, Refers
  <1> QED BY <1>1, <1>13, <1>14, <1>15, <1>16, <1>17, <1>18, <1>19, <1>20, <1>21, <1>22, <1>23, StepKeeps

(* One reference less, of one who had the text in core. *)
LEMMA XfreeIs ==
    ASSUME TypeOK, CountOK, NEW x \in Slot, NEW c \in CoreRefs(x), text' = XfreeText(x)
    PROVE  /\ text' \in [Slot -> TextSlot] /\ \A z \in Slot : z # x => text'[z] = text[z]
           /\ text'[x].count = text[x].count - 1 /\ text'[x].ccount = text[x].ccount - 1
           /\ text[x].count \in Nat \ {0} /\ text[x].ccount \in Nat \ {0}
           /\ text'[x].ip = IF text[x].count = 1 THEN NoProg ELSE text[x].ip
           /\ CoreText(text[x]) = CoreText(text'[x]) \cup XccFrees(x) /\ CoreText(text'[x]) \cap XccFrees(x) = {}
           /\ SwapText(text[x]) = SwapText(text'[x]) \cup XfreeSwap(x) /\ SwapText(text'[x]) \cap XfreeSwap(x) = {}
  <1>1. /\ text[x] \in TextSlot /\ text[x].count \in Nat /\ text[x].ccount \in Nat /\ text[x].ccount <= text[x].count
        /\ text[x].ccount >= 1 /\ text[x].ip # NoProg /\ x # 0 BY Counted, RefsIn, ProcFacts DEF TypeOK
  <1>2. PICK a \in Nat : a = IF text[x].ccount = 1 THEN 0 ELSE text[x].caddr BY <1>1 DEF TextSlot
  <1>3. PICK n \in Nat : n = text[x].ccount - 1 BY <1>1
  <1>4. PICK m \in Nat : m = text[x].count - 1 BY <1>1
  <1>5. PICK d : d = [[text[x] EXCEPT !.ccount = n, !.caddr = a] EXCEPT !.count = m] OBVIOUS
  <1>6. /\ d \in TextSlot /\ d.count = m /\ d.ccount = n /\ d.caddr = a /\ d.ip = text[x].ip /\ d.daddr = text[x].daddr
    BY <1>1, <1>5 DEF TextSlot
  <1>7. PICK e : e = IF text[x].count = 1 THEN NoText ELSE d OBVIOUS
  <1>8. NoText \in TextSlot /\ NoText.ip = NoProg /\ NoText.count = 0 /\ NoText.ccount = 0
    BY DEF NoText, TextSlot
  <1>9. e \in TextSlot BY <1>6, <1>7, <1>8
  <1>10. Xccdec(text, x) = [text EXCEPT ![x] = [text[x] EXCEPT !.ccount = n, !.caddr = a]]
    <2>1. text \in [Slot -> TextSlot] /\ ~(x = 0 \/ text[x].ccount = 0) BY <1>1 DEF TypeOK
    <2>2. Xccdec(text, x) = [text EXCEPT ![x].ccount = n, ![x].caddr = a]
      <3>1. CASE text[x].ccount = 1 BY <1>1, <1>2, <1>3, <2>1, <3>1 DEF Xccdec
      <3>2. CASE text[x].ccount # 1 BY <1>1, <1>2, <1>3, <2>1, <3>2 DEF Xccdec
      <3> QED BY <3>1, <3>2
    <2> QED BY <2>1, <2>2
  <1>11. text' = [text EXCEPT ![x] = e]
    <2>1. PICK T : T = Xccdec(text, x) OBVIOUS
    <2>2. /\ T = [text EXCEPT ![x] = [text[x] EXCEPT !.ccount = n, !.caddr = a]]
          /\ T[x] = [text[x] EXCEPT !.ccount = n, !.caddr = a] /\ T[x].count = text[x].count
      BY <1>1, <1>10, <2>1 DEF TypeOK, TextSlot
    <2>3. text' = IF T[x].count = 1 THEN [T EXCEPT ![x] = NoText] ELSE [T EXCEPT ![x].count = @ - 1]
      BY <1>1, <2>1 DEF XfreeText
    <2>4. CASE text[x].count = 1 BY <1>1, <1>7, <2>2, <2>3, <2>4 DEF TypeOK
    <2>5. CASE text[x].count # 1
      <3>1. text' = [T EXCEPT ![x] = [T[x] EXCEPT !.count = m]] BY <1>4, <2>2, <2>3, <2>5
      <3>2. e = [T[x] EXCEPT !.count = m] BY <1>5, <1>7, <2>2, <2>5
      <3> QED BY <2>2, <3>1, <3>2 DEF TypeOK
    <2> QED BY <2>4, <2>5
  <1>12. text' \in [Slot -> TextSlot] /\ text'[x] = e /\ \A z \in Slot : z # x => text'[z] = text[z]
    BY <1>9, <1>11, EntryIs
  <1>13. text[x].count = 1 => text[x].ccount = 1 /\ m = 0 /\ n = 0 BY <1>1, <1>3, <1>4
  <1>14. e.count = m /\ e.ccount = n BY <1>6, <1>7, <1>8, <1>13
  <1>15. e.ip = IF text[x].count = 1 THEN NoProg ELSE text[x].ip BY <1>6, <1>7, <1>8
  <1>16. XccFrees(x) = (IF text[x].ccount = 1 THEN Run(text[x].caddr, TSIZE) ELSE {}) BY <1>1 DEF XccFrees
  <1>17. CoreText(text[x]) = Run(text[x].caddr, TSIZE) BY <1>1 DEF CoreText
  <1>18. CoreText(e) = IF text[x].ccount = 1 THEN {} ELSE Run(text[x].caddr, TSIZE)
    <2>1. CASE text[x].ccount = 1 BY <1>1, <1>3, <1>14, <2>1 DEF CoreText
    <2>2. CASE text[x].ccount # 1
      <3>1. e = d /\ n > 0 /\ a = text[x].caddr BY <1>1, <1>2, <1>3, <1>7, <1>13, <2>2
      <3> QED BY <1>6, <2>2, <3>1 DEF CoreText
    <2> QED BY <2>1, <2>2
  <1>19. /\ XfreeSwap(x) = (IF text[x].count = 1 THEN Run(text[x].daddr, TSIZE * SECTORS) ELSE {})
         /\ SwapText(text[x]) = Run(text[x].daddr, TSIZE * SECTORS) BY <1>1 DEF XfreeSwap, SwapText
  <1>20. SwapText(e) = IF text[x].count = 1 THEN {} ELSE Run(text[x].daddr, TSIZE * SECTORS)
    BY <1>1, <1>6, <1>7, <1>8 DEF SwapText
  <1>21. text'[x].count = text[x].count - 1 /\ text'[x].ccount = text[x].ccount - 1
    BY <1>3, <1>4, <1>12, <1>14
  <1>22. CoreText(text[x]) = CoreText(text'[x]) \cup XccFrees(x) /\ CoreText(text'[x]) \cap XccFrees(x) = {}
    BY <1>12, <1>16, <1>17, <1>18
  <1>23. SwapText(text[x]) = SwapText(text'[x]) \cup XfreeSwap(x) /\ SwapText(text'[x]) \cap XfreeSwap(x) = {}
    BY <1>12, <1>19, <1>20
  <1> QED BY <1>1, <1>12, <1>15, <1>21, <1>22, <1>23

(* exec gives up the old image and the old text. *)
LEMMA CommitKeeps ==
    ASSUME IInv, NEW p \in Proc, Commit(p) PROVE IInv'
  <1>1. At(p, "commit") BY DEF Commit
  <1>2. /\ TypeOK /\ Good /\ fault = "none"
        /\ proc[p] \in ProcSlot /\ u[p] \in Locals /\ u[p].pc = "commit" /\ run \in {0, p}
        /\ proc[p].stat = "run" /\ proc[p].load /\ proc[p].chan = "none" /\ Up(proc[p]) /\ Live(proc[p]) /\ Alive(p)
        /\ RegsOK(p, proc[p], u[p])
        /\ (proc[p].lock <=> Locking(u[p]))
        /\ (Execing(u[p]) => u[p].ip \in Prog /\ ilock[u[p].ip] = p) BY <1>1, AtFacts
  <1>3. /\ Execing(u[p]) /\ proc[p].text \in Slot /\ proc[p].ref /\ u[p].for # "image" /\ Retargeted(u[p])
        /\ u[p].otp \in {0} \cup Slot
    BY <1>2, ProcFacts DEF RegsOK, PurposeOK, AttachOK, Execing, Retargeted, ProcSlot, Locals
  <1>4. PICK x \in {0} \cup Slot : x = u[p].otp BY <1>3
  <1>28. x # 0 <=> x \in Slot BY ProcFacts
  <1>5. PICK y \in Slot : y = proc[p].text BY <1>3
  <1>6. proc[p].size = DBLK <=> ~Small(p) BY <1>1, NoBlock DEF Small
  <1>7. Small(p) => u[p].da = 2 BY <1>2, SmallIs
  <1>8. PICK a \in Nat : a = IF proc[p].size = DBLK THEN proc[p].addr ELSE u[p].da
    BY <1>2 DEF ProcSlot, Locals
  <1>9. PICK r : r = [proc[p] EXCEPT !.text = 0, !.size = DBLK, !.addr = a] OBVIOUS
  <1>10. /\ r \in ProcSlot /\ (r.lock <=> proc[p].lock) /\ r.ref /\ r.stat = "run" /\ r.load /\ r.addr = a /\ r.size = DBLK
         /\ r.img = proc[p].img /\ r.text = 0 /\ r.par = proc[p].par /\ r.chan = "none"
    BY <1>2, <1>3, <1>9, Numbers DEF ProcSlot
  <1>11. PICK v : v = [[u[p] EXCEPT !.xp = y, !.da = a] EXCEPT !.pc = "committed"] OBVIOUS
  <1>12. /\ v \in Locals /\ v.pc = "committed" /\ v.ip = u[p].ip /\ v.a = u[p].a /\ v.da = a
         /\ v.xp = y /\ v.otp = u[p].otp /\ v.for = u[p].for BY <1>2, <1>11 DEF Locals, Labels
  <1>13. /\ proc' = [proc EXCEPT ![p] = r] /\ u' = [u EXCEPT ![p] = v] /\ text' = XfreeText(x)
         /\ core' = core \cup XccFrees(x) \cup (IF proc[p].size = DBLK THEN {} ELSE Block(p))
         /\ swap' = swap \cup XfreeSwap(x)
         /\ run' = p /\ UNCHANGED <<ilock, sched, fault, calls>>
    <2>1. proc' = [proc EXCEPT ![p] = r]
      <3>1. CASE proc[p].size = DBLK BY <1>2, <1>8, <1>9, <3>1 DEF Commit, TypeOK
      <3>2. CASE proc[p].size # DBLK BY <1>2, <1>8, <1>9, <3>2 DEF Commit, TypeOK
      <3> QED BY <3>1, <3>2
    <2>2. u' = [u EXCEPT ![p] = v]
      <3>1. CASE proc[p].size = DBLK BY <1>5, <1>8, <1>11, <3>1 DEF Commit, Goto
      <3>2. CASE proc[p].size # DBLK
        <4>1. v = [[u[p] EXCEPT !.xp = proc[p].text, !.da = @] EXCEPT !.pc = "committed"]
          BY <1>2, <1>5, <1>8, <1>11, <3>2 DEF Locals
        <4> QED BY <3>2, <4>1 DEF Commit, Goto
      <3> QED BY <3>1, <3>2
    <2> QED BY <1>4, <2>1, <2>2 DEF Commit
  <1>14. Mine(p, r, v) /\ SameSched /\ Up(r) BY <1>10, <1>12, <1>13 DEF Mine, SameSched, Up
  <1>15. RegsOK(p, r, v)
    BY <1>2, <1>3, <1>10, <1>12, ProcFacts DEF RegsOK, StatusOK, PurposeOK, AttachOK, SizeOK, Saving, Growing,
      Valve, Swelled
  <1>16. BootOK'
    <2>1. CASE Small(p) BY <1>2, <1>10, <1>14, <2>1, MineAlone DEF Good
    <2>2. CASE ~Small(p) BY <1>1, <1>2, <1>10, <1>14, <2>2, MineBoot DEF Good
    <2> QED BY <2>1, <2>2
  <1>17. ASSUME x # 0
         PROVE  /\ x \in Slot /\ text' \in [Slot -> TextSlot] /\ \A z \in Slot : z # x => text'[z] = text[z]
                /\ text'[x].count = text[x].count - 1 /\ text'[x].ccount = text[x].ccount - 1
                /\ text[x].count \in Nat \ {0} /\ text[x].ccount \in Nat \ {0}
                /\ text'[x].ip = (IF text[x].count = 1 THEN NoProg ELSE text[x].ip)
                /\ CoreText(text[x]) = CoreText(text'[x]) \cup XccFrees(x) /\ CoreText(text'[x]) \cap XccFrees(x) = {}
                /\ SwapText(text[x]) = SwapText(text'[x]) \cup XfreeSwap(x) /\ SwapText(text'[x]) \cap XfreeSwap(x) = {}
    <2>1. <<"kept", p>> \in CoreRefs(x) /\ x \in Slot
      BY <1>3, <1>4, <1>17 DEF CoreRefs, RefersInCore, Refers, Kinds
    <2>2. TypeOK /\ CountOK BY <1>2 DEF Good
    <2> QED BY <1>13, <2>1, <2>2, XfreeIs
  <1>18. ASSUME x = 0 PROVE text' = text /\ XccFrees(x) = {} /\ XfreeSwap(x) = {}
    BY <1>13, <1>18 DEF XfreeText, XccFrees, XfreeSwap
  <1>19. text' \in [Slot -> TextSlot] /\ \A z \in Slot : z # x => text'[z] = text[z]
    BY <1>2, <1>17, <1>18 DEF TypeOK
  <1>20. CountOK'
    <2>1. \A z \in Slot :
             /\ Tally(proc[p], u[p], z) = (IF y = z THEN 1 ELSE 0) + (IF x = z THEN 1 ELSE 0)
             /\ CoreTally(proc[p], u[p], z) = (IF y = z THEN 1 ELSE 0) + (IF x = z THEN 1 ELSE 0)
      BY <1>2, <1>3, <1>4, <1>5, TalliesAre
    <2>2. \A z \in Slot :
             /\ Tally(r, v, z) = (IF y = z THEN 1 ELSE 0)
             /\ CoreTally(r, v, z) = (IF y = z THEN 1 ELSE 0)
      BY <1>10, <1>12, TalliesAre, ProcFacts DEF Retargeted
    <2>3. \A z \in Slot : text[z].count \in Nat /\ text[z].ccount \in Nat /\ (text[z].ip # NoProg <=> text[z].count > 0)
      BY <1>2 DEF TypeOK, TextSlot, Good, CountOK
    <2>4. \A z \in Slot :
             /\ text'[z].count + Tally(proc[p], u[p], z) = text[z].count + Tally(r, v, z)
             /\ text'[z].ccount + CoreTally(proc[p], u[p], z) = text[z].ccount + CoreTally(r, v, z)
             /\ text'[z].count \in Nat /\ text'[z].ccount \in Nat
             /\ text'[z].ip # NoProg <=> text'[z].count > 0
      <3>1. ASSUME NEW z \in Slot, z # x
            PROVE  /\ text'[z].count + Tally(proc[p], u[p], z) = text[z].count + Tally(r, v, z)
                   /\ text'[z].ccount + CoreTally(proc[p], u[p], z) = text[z].ccount + CoreTally(r, v, z)
                   /\ text'[z].count \in Nat /\ text'[z].ccount \in Nat
                   /\ text'[z].ip # NoProg <=> text'[z].count > 0 BY <1>19, <2>1, <2>2, <2>3, <3>1
      <3>2. ASSUME x \in Slot
            PROVE  /\ text'[x].count + Tally(proc[p], u[p], x) = text[x].count + Tally(r, v, x)
                   /\ text'[x].ccount + CoreTally(proc[p], u[p], x) = text[x].ccount + CoreTally(r, v, x)
                   /\ text'[x].count \in Nat /\ text'[x].ccount \in Nat
                   /\ text'[x].ip # NoProg <=> text'[x].count > 0 BY <1>17, <1>28, <2>1, <2>2, <2>3, <3>2
      <3> QED BY <3>1, <3>2
    <2>5. \A z, w \in Slot : text'[z].ip = text'[w].ip /\ text'[z].ip # NoProg => z = w
      <3>1. \A z \in Slot : text'[z].ip \in {NoProg, text[z].ip} BY <1>17, <1>18, <1>19
      <3> QED BY <1>2, <3>1 DEF Good, CountOK
    <2>6. OthersRefer(p, proc', u') /\ proc'[p] = r /\ u'[p] = v /\ CountOK
      BY <1>2, <1>14, MineIs, MineOthers DEF Good
    <2> QED BY <2>4, <2>5, <2>6, CountMoves
  <1>21. /\ CoreTextAt(text, x) = CoreTextAt(text', x) \cup XccFrees(x) /\ CoreTextAt(text', x) \cap XccFrees(x) = {}
         /\ SwapTextAt(text, x) = SwapTextAt(text', x) \cup XfreeSwap(x) /\ SwapTextAt(text', x) \cap XfreeSwap(x) = {}
    BY <1>17, <1>18 DEF CoreTextAt, SwapTextAt
  <1>22. /\ CoreSplit(core, proc[p], u[p], CoreTextAt(text, x))
         /\ SwapSplit(swap, proc[p], u[p], SwapTextAt(text, x)) BY <1>2, Had
  <1>23. CoreOK'
    <2>1. CoreTa(u[p]) = {} /\ CoreTa(v) = {} /\ CoreExec(r, v) = {}
          /\ CoreBlock(proc[p], u[p]) = Block(p) /\ CoreBlock(r, v) = Run(a, DBLK)
      BY <1>2, <1>3, <1>10, <1>12, <1>14 DEF CoreExec, CoreTa, CoreBlock, Up, Live, Block
    <2>2. CASE proc[p].size = DBLK
      <3>1. CoreExec(proc[p], u[p]) = {} /\ Block(p) = Run(a, DBLK) /\ core' = core \cup XccFrees(x)
        BY <1>8, <1>13, <2>2 DEF CoreExec, Block
      <3>2. /\ CoreSplit(core', r, v, CoreTextAt(text', x))
            /\ CoreSum(core', r, v, CoreTextAt(text', x)) = CoreSum(core, proc[p], u[p], CoreTextAt(text, x))
        BY ONLY <2>1, <3>1, <1>21, <1>22 DEF CoreSplit, CoreSum, Five
      <3> QED BY <1>1, <1>14, <1>19, <3>2, StepCore
    <2>3. CASE proc[p].size # DBLK
      <3>1. CoreExec(proc[p], u[p]) = Run(a, DBLK) /\ core' = core \cup XccFrees(x) \cup Block(p)
        BY <1>6, <1>7, <1>8, <1>13, <2>3 DEF CoreExec
      <3>2. /\ CoreSplit(core', r, v, CoreTextAt(text', x))
            /\ CoreSum(core', r, v, CoreTextAt(text', x)) = CoreSum(core, proc[p], u[p], CoreTextAt(text, x))
        BY ONLY <2>1, <3>1, <1>21, <1>22 DEF CoreSplit, CoreSum, Five
      <3> QED BY <1>1, <1>14, <1>19, <3>2, StepCore
    <2> QED BY <2>2, <2>3
  <1>24. SwapOK'
    <2>1. /\ SwapImage(proc[p], u[p]) = {} /\ SwapStatus(proc[p], u[p]) = {}
          /\ SwapImage(r, v) = {} /\ SwapStatus(r, v) = {} BY <1>2, <1>10, <1>12 DEF SwapImage, SwapStatus
    <2>2. /\ SwapSplit(swap', r, v, SwapTextAt(text', x))
          /\ SwapSum(swap', r, v, SwapTextAt(text', x)) = SwapSum(swap, proc[p], u[p], SwapTextAt(text, x))
      BY <1>13, <1>21, <1>22, <2>1 DEF SwapSplit, SwapSum, Five
    <2> QED BY <1>1, <1>14, <1>19, <2>2, StepSwap
  <1>25. /\ r.par = proc[p].par /\ r.chan # "child" /\ v.pc \notin {"wait", "reap", "load", "proto"}
         /\ r.load /\ (r.lock <=> Locking(v)) /\ (v.for = "image" <=> u[p].for = "image") /\ ~Growing(v)
    BY <1>2, <1>3, <1>10, <1>12 DEF Locking, Growing, Saving
  <1>26. /\ fault' = "none" /\ run' \in {0} \cup Proc /\ run' = p
         /\ ilock' \in [Prog -> {0} \cup Proc] /\ calls' \in 0..MaxCalls /\ UNCHANGED ilock
         /\ v.ip \in Prog /\ ilock'[v.ip] = p BY <1>2, <1>3, <1>12, <1>13 DEF TypeOK
  <1>27. x \in Slot => /\ text'[x].ip \in {text[x].ip, NoProg}
                       /\ \E k \in Kinds : Refers(k, proc[p], u[p], x)
    BY <1>3, <1>4, <1>17, ProcFacts DEF Kinds, Refers
  <1> QED BY <1>1, <1>14, <1>15, <1>16, <1>19, <1>20, <1>23, <1>24, <1>25, <1>26, <1>27, StepKeeps

(* exec takes the new image. *)
LEMMA CommittedKeeps ==
    ASSUME IInv, NEW p \in Proc, Committed(p) PROVE IInv'
  <1>1. At(p, "committed") BY DEF Committed
  <1>2. /\ TypeOK /\ Good /\ fault = "none"
        /\ proc[p] \in ProcSlot /\ u[p] \in Locals /\ u[p].pc = "committed" /\ run \in {0, p}
        /\ proc[p].stat = "run" /\ proc[p].load /\ proc[p].chan = "none" /\ Up(proc[p]) /\ Live(proc[p]) /\ Alive(p)
        /\ RegsOK(p, proc[p], u[p])
        /\ (proc[p].lock <=> Locking(u[p]))
        /\ (Execing(u[p]) => u[p].ip \in Prog /\ ilock[u[p].ip] = p) BY <1>1, AtFacts
  <1>3. /\ Execing(u[p]) /\ proc[p].text = 0 /\ u[p].xp \in Slot /\ proc[p].ref /\ u[p].for # "image"
        /\ proc[p].size = DBLK /\ ~Small(p) /\ u[p].da \in Nat
    BY <1>2, NotSmall, ProcFacts DEF RegsOK, PurposeOK, AttachOK, SizeOK, Execing, Locals, Saving
  <1>4. PICK x \in Slot : x = u[p].xp BY <1>3
  <1>5. PICK q : q = [proc[p] EXCEPT !.text = x, !.addr = u[p].da] OBVIOUS
  <1>6. /\ q \in ProcSlot /\ (q.lock <=> proc[p].lock) /\ q.ref /\ q.load /\ q.addr = u[p].da /\ q.size = DBLK
        /\ q.img = proc[p].img /\ q.text = x /\ q.par = proc[p].par BY <1>2, <1>3, <1>5 DEF ProcSlot
  <1>7. PICK r : r = Io(q) OBVIOUS
  <1>8. /\ r \in ProcSlot /\ Up(r) /\ (r.lock <=> proc[p].lock) /\ r.ref /\ r.load /\ r.addr = u[p].da /\ r.size = DBLK
        /\ r.img = proc[p].img /\ r.text = x /\ r.par = proc[p].par /\ r.stat = "sleep" /\ r.chan = "io"
    BY <1>6, <1>7, IoIs DEF SlotSame
  <1>9. PICK v : v = [[Home EXCEPT !.ip = u[p].ip] EXCEPT !.pc = "args"] OBVIOUS
  <1>10. /\ v \in Locals /\ v.pc = "args" /\ v.ip = u[p].ip /\ v.da = 0 /\ v.for = "none" /\ v.otp = 0 /\ v.xp = 0
    BY <1>2, <1>9, SwapAssumption DEF Home, Locals, Labels
  <1>11. /\ proc' = [proc EXCEPT ![p] = r] /\ u' = [u EXCEPT ![p] = v]
         /\ fault' = (IF proc[p].addr # u[p].da THEN "moved" ELSE "none")
         /\ run' = 0 /\ UNCHANGED <<core, swap, text, ilock, sched, calls>>
    BY <1>2, <1>4, <1>5, <1>7, <1>9 DEF Committed, Goto
  <1>12. Mine(p, r, v) /\ SameSched BY <1>8, <1>10, <1>11 DEF Mine, SameSched
  <1>13. CASE proc[p].addr # u[p].da
    <2>1. TypeOK' BY <1>2, <1>11, <1>12, <1>13, MineIs DEF TypeOK
    <2> QED BY <1>11, <1>13, <2>1 DEF IInv
  <1>14. CASE proc[p].addr = u[p].da
    <2>1. RegsOK(p, r, v)
      BY <1>2, <1>3, <1>8, <1>10, ProcFacts DEF RegsOK, StatusOK, PurposeOK, AttachOK, SizeOK, Saving,
        Growing, Valve, Swelled
    <2>2. BootOK' BY <1>2, <1>3, <1>8, <1>12, MineBoot DEF Good
    <2>3. CountOK'
      <3>1. \A z \in Slot :
               /\ Tally(proc[p], u[p], z) = (IF x = z THEN 1 ELSE 0)
               /\ CoreTally(proc[p], u[p], z) = (IF x = z THEN 1 ELSE 0)
        BY <1>2, <1>3, <1>4, TalliesAre, ProcFacts DEF Retargeted
      <3>2. \A z \in Slot :
               /\ Tally(r, v, z) = (IF x = z THEN 1 ELSE 0)
               /\ CoreTally(r, v, z) = (IF x = z THEN 1 ELSE 0) BY <1>8, <1>10, TalliesAre DEF Retargeted
      <3>3. \A z \in Slot : text[z].count \in Nat /\ text[z].ccount \in Nat /\ (text[z].ip # NoProg <=> text[z].count > 0)
        BY <1>2 DEF TypeOK, TextSlot, Good, CountOK
      <3>4. \A z \in Slot :
               /\ text'[z].count + Tally(proc[p], u[p], z) = text[z].count + Tally(r, v, z)
               /\ text'[z].ccount + CoreTally(proc[p], u[p], z) = text[z].ccount + CoreTally(r, v, z)
               /\ text'[z].count \in Nat /\ text'[z].ccount \in Nat
               /\ text'[z].ip # NoProg <=> text'[z].count > 0 BY <1>11, <3>1, <3>2, <3>3
      <3>5. \A z, w \in Slot : text'[z].ip = text'[w].ip /\ text'[z].ip # NoProg => z = w
        BY <1>2, <1>11 DEF Good, CountOK
      <3>6. OthersRefer(p, proc', u') /\ proc'[p] = r /\ u'[p] = v /\ CountOK
        BY <1>2, <1>12, MineIs, MineOthers DEF Good
      <3> QED BY <3>4, <3>5, <3>6, CountMoves
    <2>4. CoreOK'
      <3>1. /\ CoreTa(u[p]) = CoreTa(v) /\ CoreBlock(r, v) = CoreBlock(proc[p], u[p])
            /\ CoreExec(r, v) = CoreExec(proc[p], u[p])
        BY <1>2, <1>3, <1>8, <1>10, <1>14 DEF CoreExec, CoreTa, CoreBlock, Up, Live
      <3> QED BY <1>2, <1>3, <1>8, <1>11, <1>12, <3>1, MineCoreStays DEF Good
    <2>5. SwapOK'
      <3>1. SwapImage(r, v) = SwapImage(proc[p], u[p]) /\ SwapStatus(r, v) = SwapStatus(proc[p], u[p])
        BY <1>2, <1>8, <1>10 DEF SwapImage, SwapStatus
      <3> QED BY <1>2, <1>8, <1>11, <1>12, <3>1, MineSwapStays DEF Good
    <2>6. /\ r.par = proc[p].par /\ r.chan # "child" /\ v.pc \notin {"wait", "reap", "load", "proto", "attach", "claim", "commit"}
          /\ r.load /\ (r.lock <=> Locking(v)) /\ (v.for = "image" <=> u[p].for = "image") /\ ~Growing(v)
      BY <1>2, <1>3, <1>8, <1>10 DEF Locking, Growing, Saving
    <2>7. /\ fault' = "none" /\ run' \in {0} \cup Proc /\ text' \in [Slot -> TextSlot]
          /\ ilock' \in [Prog -> {0} \cup Proc] /\ calls' \in 0..MaxCalls /\ UNCHANGED <<text, ilock>>
          /\ v.ip \in Prog /\ ilock'[v.ip] = p BY <1>2, <1>3, <1>10, <1>11, <1>14 DEF TypeOK
    <2> QED BY <1>1, <1>8, <1>12, <2>1, <2>2, <2>3, <2>4, <2>5, <2>6, <2>7, StepKeeps, ProcFacts
  <1> QED BY <1>13, <1>14

(* exit gives up the text. *)
LEMMA ExitKeeps ==
    ASSUME IInv, NEW p \in Proc, Exit(p) PROVE IInv'
  <1>1. At(p, "user") /\ proc[p].text # 0 /\ p # 1 BY DEF Exit, Program
  <1>2. /\ TypeOK /\ Good /\ fault = "none"
        /\ proc[p] \in ProcSlot /\ u[p] \in Locals /\ u[p].pc = "user" /\ run \in {0, p}
        /\ proc[p].stat = "run" /\ proc[p].load /\ proc[p].chan = "none" /\ Up(proc[p]) /\ Live(proc[p]) /\ Alive(p)
        /\ RegsOK(p, proc[p], u[p])
        /\ (proc[p].lock <=> Locking(u[p]))
        /\ (Execing(u[p]) => u[p].ip \in Prog /\ ilock[u[p].ip] = p) BY <1>1, AtFacts
  <1>3. u[p] = Home /\ proc[p].text \in Slot /\ proc[p].ref /\ ~Small(p)
    BY <1>1, <1>2, NotSmall, HomeIs DEF RegsOK, StatusOK, AttachOK, ProcSlot
  <1>4. PICK x \in Slot : x = proc[p].text BY <1>3
  <1>5. x # 0 /\ text[x].count \in Nat BY <1>1, <1>2, <1>4 DEF TypeOK, TextSlot
  <1>6. PICK s \in BOOLEAN : s <=> XfreeSleeps(x) OBVIOUS
  <1>7. PICK q : q = [proc[p] EXCEPT !.text = 0, !.ref = FALSE] OBVIOUS
  <1>8. /\ q \in ProcSlot /\ (q.lock <=> proc[p].lock) /\ ~q.ref /\ q.load /\ q.addr = proc[p].addr /\ q.size = proc[p].size
        /\ q.img = proc[p].img /\ q.text = 0 /\ q.par = proc[p].par /\ q.stat = "run" /\ q.chan = "none"
    BY <1>2, <1>7 DEF ProcSlot
  <1>9. PICK r : r = IF s THEN Io(q) ELSE q OBVIOUS
  <1>10. /\ r \in ProcSlot /\ (r.lock <=> proc[p].lock) /\ ~r.ref /\ r.load /\ r.addr = proc[p].addr /\ r.size = proc[p].size
         /\ r.img = proc[p].img /\ r.text = 0 /\ r.par = proc[p].par
         /\ (r.stat = "run" /\ r.chan = "none") \/ (r.stat = "sleep" /\ r.chan = "io")
    <2>1. CASE s BY <1>8, <1>9, <2>1, IoIs DEF SlotSame
    <2>2. CASE ~s BY <1>8, <1>9, <2>2
    <2> QED BY <2>1, <2>2
  <1>11. Up(r) /\ Live(r) BY <1>10 DEF Up, Live
  <1>12. PICK v : v = [Home EXCEPT !.pc = "save"] OBVIOUS
  <1>13. /\ v \in Locals /\ v.pc = "save" /\ v.ip = NoProg /\ v.a = 0 /\ v.da = 0 /\ v.ta = 0
         /\ v.xp = 0 /\ v.otp = 0 /\ v.for = "none" BY <1>12, SwapAssumption DEF Home, Locals, Labels
  <1>14. /\ proc' = [proc EXCEPT ![p] = r] /\ u' = [u EXCEPT ![p] = v] /\ text' = XfreeText(x)
         /\ core' = core \cup XccFrees(x) /\ swap' = swap \cup XfreeSwap(x)
         /\ run' = (IF s THEN 0 ELSE p) /\ UNCHANGED <<ilock, sched, fault, calls>>
    <2>1. u' = [u EXCEPT ![p] = v] BY <1>3, <1>12 DEF Exit, Goto
    <2>2. CASE s BY <1>2, <1>4, <1>6, <1>7, <1>9, <2>1, <2>2 DEF Exit
    <2>3. CASE ~s BY <1>2, <1>4, <1>6, <1>7, <1>9, <2>1, <2>3 DEF Exit
    <2> QED BY <2>2, <2>3
  <1>15. Mine(p, r, v) /\ SameSched BY <1>10, <1>13, <1>14 DEF Mine, SameSched
  <1>16. RegsOK(p, r, v)
    BY <1>1, <1>2, <1>10, <1>13 DEF RegsOK, StatusOK, PurposeOK, AttachOK, SizeOK, Saving, Growing, Valve,
      Swelled
  <1>17. BootOK' BY <1>1, <1>2, <1>3, <1>10, <1>15, MineBoot, NoBlock DEF Good
  <1>18. /\ text' \in [Slot -> TextSlot] /\ \A z \in Slot : z # x => text'[z] = text[z]
         /\ text'[x].count = text[x].count - 1 /\ text'[x].ccount = text[x].ccount - 1
         /\ text[x].count \in Nat \ {0} /\ text[x].ccount \in Nat \ {0}
         /\ text'[x].ip = (IF text[x].count = 1 THEN NoProg ELSE text[x].ip)
         /\ CoreText(text[x]) = CoreText(text'[x]) \cup XccFrees(x) /\ CoreText(text'[x]) \cap XccFrees(x) = {}
         /\ SwapText(text[x]) = SwapText(text'[x]) \cup XfreeSwap(x) /\ SwapText(text'[x]) \cap XfreeSwap(x) = {}
    <2>1. <<"attached", p>> \in CoreRefs(x) BY <1>3, <1>4 DEF CoreRefs, RefersInCore, Refers, Kinds
    <2>2. TypeOK /\ CountOK BY <1>2 DEF Good
    <2> QED BY <1>14, <2>1, <2>2, XfreeIs
  <1>19. CountOK'
    <2>1. \A z \in Slot :
             /\ Tally(proc[p], u[p], z) = (IF x = z THEN 1 ELSE 0)
             /\ CoreTally(proc[p], u[p], z) = (IF x = z THEN 1 ELSE 0)
      BY <1>2, <1>3, <1>4, TalliesAre, HomeIs DEF Retargeted
    <2>2. \A z \in Slot : Tally(r, v, z) = 0 /\ CoreTally(r, v, z) = 0
      BY <1>10, <1>13, TalliesAre, ProcFacts DEF Retargeted
    <2>3. \A z \in Slot : text[z].count \in Nat /\ text[z].ccount \in Nat /\ (text[z].ip # NoProg <=> text[z].count > 0)
      BY <1>2 DEF TypeOK, TextSlot, Good, CountOK
    <2>4. \A z \in Slot :
             /\ text'[z].count + Tally(proc[p], u[p], z) = text[z].count + Tally(r, v, z)
             /\ text'[z].ccount + CoreTally(proc[p], u[p], z) = text[z].ccount + CoreTally(r, v, z)
             /\ text'[z].count \in Nat /\ text'[z].ccount \in Nat
             /\ text'[z].ip # NoProg <=> text'[z].count > 0
      <3>1. ASSUME NEW z \in Slot, z # x
            PROVE  /\ text'[z].count + Tally(proc[p], u[p], z) = text[z].count + Tally(r, v, z)
                   /\ text'[z].ccount + CoreTally(proc[p], u[p], z) = text[z].ccount + CoreTally(r, v, z)
                   /\ text'[z].count \in Nat /\ text'[z].ccount \in Nat
                   /\ text'[z].ip # NoProg <=> text'[z].count > 0 BY <1>18, <2>1, <2>2, <2>3, <3>1
      <3>2. /\ text'[x].count + Tally(proc[p], u[p], x) = text[x].count + Tally(r, v, x)
            /\ text'[x].ccount + CoreTally(proc[p], u[p], x) = text[x].ccount + CoreTally(r, v, x)
            /\ text'[x].count \in Nat /\ text'[x].ccount \in Nat
            /\ text'[x].ip # NoProg <=> text'[x].count > 0 BY <1>18, <2>1, <2>2, <2>3
      <3> QED BY <3>1, <3>2
    <2>5. \A z, w \in Slot : text'[z].ip = text'[w].ip /\ text'[z].ip # NoProg => z = w
      <3>1. \A z \in Slot : text'[z].ip \in {NoProg, text[z].ip} BY <1>18
      <3> QED BY <1>2, <3>1 DEF Good, CountOK
    <2>6. OthersRefer(p, proc', u') /\ proc'[p] = r /\ u'[p] = v /\ CountOK
      BY <1>2, <1>15, MineIs, MineOthers DEF Good
    <2> QED BY <2>4, <2>5, <2>6, CountMoves
  <1>20. /\ CoreTextAt(text, x) = CoreTextAt(text', x) \cup XccFrees(x) /\ CoreTextAt(text', x) \cap XccFrees(x) = {}
         /\ SwapTextAt(text, x) = SwapTextAt(text', x) \cup XfreeSwap(x) /\ SwapTextAt(text', x) \cap XfreeSwap(x) = {}
    BY <1>18 DEF CoreTextAt, SwapTextAt
  <1>21. /\ CoreSplit(core, proc[p], u[p], CoreTextAt(text, x))
         /\ SwapSplit(swap, proc[p], u[p], SwapTextAt(text, x)) BY <1>2, Had
  <1>22. CoreOK'
    <2>1. CoreTa(u[p]) = CoreTa(v) /\ CoreExec(r, v) = CoreExec(proc[p], u[p])
          /\ CoreBlock(proc[p], u[p]) = CoreBlock(r, v)
      BY <1>2, <1>3, <1>10, <1>11, <1>13, HomeIs DEF CoreExec, CoreTa, CoreBlock
    <2>2. /\ CoreSplit(core', r, v, CoreTextAt(text', x))
          /\ CoreSum(core', r, v, CoreTextAt(text', x)) = CoreSum(core, proc[p], u[p], CoreTextAt(text, x))
      BY <2>1, <1>14, <1>20, <1>21 DEF CoreSplit, CoreSum, Five
    <2> QED BY <1>1, <1>15, <1>18, <2>2, StepCore
  <1>23. SwapOK'
    <2>1. SwapImage(r, v) = SwapImage(proc[p], u[p]) /\ SwapStatus(r, v) = SwapStatus(proc[p], u[p])
      BY <1>2, <1>10, <1>13 DEF SwapImage, SwapStatus
    <2>2. /\ SwapSplit(swap', r, v, SwapTextAt(text', x))
          /\ SwapSum(swap', r, v, SwapTextAt(text', x)) = SwapSum(swap, proc[p], u[p], SwapTextAt(text, x))
      BY <1>14, <1>20, <1>21, <2>1 DEF SwapSplit, SwapSum, Five
    <2> QED BY <1>1, <1>15, <1>18, <2>2, StepSwap
  <1>24. /\ r.par = proc[p].par /\ r.chan # "child" /\ v.pc \notin {"wait", "reap", "load", "proto", "attach", "claim", "commit"}
         /\ r.load /\ (r.lock <=> Locking(v)) /\ (v.for = "image" <=> u[p].for = "image") /\ ~Growing(v) /\ ~Execing(v)
    BY <1>2, <1>3, <1>10, <1>13, HomeIs DEF Locking, Growing, Saving, Execing
  <1>25. /\ fault' = "none" /\ run' \in {0} \cup Proc
         /\ ilock' \in [Prog -> {0} \cup Proc] /\ calls' \in 0..MaxCalls /\ UNCHANGED ilock
    BY <1>2, <1>14 DEF TypeOK
  <1>26. /\ text'[x].ip \in {text[x].ip, NoProg}
         /\ \E k \in Kinds : Refers(k, proc[p], u[p], x) BY <1>4, <1>18 DEF Kinds, Refers
  <1> QED BY <1>1, <1>11, <1>15, <1>16, <1>17, <1>18, <1>19, <1>22, <1>23, <1>24, <1>25, <1>26, StepKeeps

(* swgrow and xalloc give up the core of the image they wrote. *)
LEMMA SwappedOutKeeps ==
    ASSUME IInv, NEW p \in Proc, SwappedOut(p) PROVE IInv'
  <1>1. At(p, "writing") /\ u[p].for # "image" BY DEF SwappedOut
  <1>2. /\ TypeOK /\ Good /\ fault = "none"
        /\ proc[p] \in ProcSlot /\ u[p] \in Locals /\ u[p].pc = "writing" /\ run \in {0, p}
        /\ proc[p].stat = "run" /\ proc[p].load /\ proc[p].chan = "none" /\ Up(proc[p]) /\ Live(proc[p]) /\ Alive(p)
        /\ RegsOK(p, proc[p], u[p])
        /\ (proc[p].lock <=> Locking(u[p]))
        /\ (Execing(u[p]) => u[p].ip \in Prog /\ ilock[u[p].ip] = p) BY <1>1, AtFacts
  <1>3. /\ proc[p].size = DBLK /\ u[p].da = 0 /\ ~Small(p) /\ (proc[p].text # 0 => ~proc[p].ref)
        /\ u[p].for \in {"text", "valve"} /\ Execing(u[p]) /\ u[p].ip \in Prog /\ ilock[u[p].ip] = p
    BY <1>1, <1>2, NotSmall, NoBlock DEF RegsOK, PurposeOK, AttachOK, Locals, Execing
  <1>4. PICK n \in Nat : n = DBLK + Need(p) BY Numbers DEF Need
  <1>5. PICK r : r = [Swapped(proc[p], u[p].a) EXCEPT !.size = n] OBVIOUS
  <1>6. /\ r \in ProcSlot /\ ~r.lock /\ ~r.load /\ r.ref = proc[p].ref /\ r.addr = u[p].a /\ r.size = n
        /\ r.img = proc[p].img /\ r.text = proc[p].text /\ r.par = proc[p].par /\ r.stat = "run" /\ r.chan = "none"
    BY <1>2, <1>5 DEF ProcSlot, Swapped, Locals
  <1>7. PICK v : v = [[u[p] EXCEPT !.a = 0] EXCEPT !.pc = "back"] OBVIOUS
  <1>8. /\ v \in Locals /\ v.pc = "back" /\ v.ip = u[p].ip /\ v.a = 0 /\ v.da = 0 /\ v.ta = u[p].ta
        /\ v.xp = u[p].xp /\ v.otp = u[p].otp /\ v.for = u[p].for BY <1>2, <1>3, <1>7 DEF Locals, Labels
  <1>9. /\ proc' = [proc EXCEPT ![p] = r] /\ u' = [u EXCEPT ![p] = v]
        /\ core' = core \cup Block(p) /\ sched' = Runout(TRUE)
        /\ run' = 0 /\ UNCHANGED <<swap, text, ilock, fault, calls>>
    BY <1>3, <1>4, <1>5, <1>7 DEF SwappedOut, Goto
  <1>10. Mine(p, r, v) /\ SameSched /\ Up(r) BY <1>6, <1>8, <1>9 DEF Mine, SameSched, Up, Runout
  <1>11. Swelled(v) => n = DBLK + TSIZE BY <1>4, <1>8 DEF Swelled, Need
  <1>12. ~Swelled(v) => n = DBLK BY <1>4, <1>8, Numbers DEF Swelled, Need
  <1>13. RegsOK(p, r, v)
    BY <1>1, <1>2, <1>3, <1>6, <1>8, <1>11 DEF RegsOK, StatusOK, PurposeOK, AttachOK, SizeOK, Saving, Growing,
      Valve, Swelled
  <1>14. BootOK' BY <1>2, <1>3, <1>6, <1>10, <1>12, MineBoot DEF Good
  <1>15. CountOK'
    <2>1. \A x : SameRefs(p, r, v, x) BY <1>2, <1>6, <1>8, SameRefsFrom DEF Retargeted
    <2> QED BY <1>2, <1>9, <1>10, <2>1, MineCount DEF Good
  <1>16. CoreOK'
    <2>1. /\ CoreExec(proc[p], u[p]) = {} /\ CoreExec(r, v) = {} /\ CoreTa(u[p]) = {} /\ CoreTa(v) = {}
          /\ CoreBlock(proc[p], u[p]) = Block(p) /\ CoreBlock(r, v) = {}
      BY <1>1, <1>2, <1>3, <1>6, <1>8 DEF CoreExec, CoreTa, CoreBlock, Block
    <2>2. /\ CoreSplit(core', r, v, CoreTextAt(text', 0))
          /\ CoreSum(core', r, v, CoreTextAt(text', 0)) = CoreSum(core, proc[p], u[p], CoreTextAt(text, 0))
      BY <1>2, <1>9, <2>1, Had DEF CoreSplit, CoreSum, Five
    <2>3. \A x \in Slot : x # 0 => CoreText(text'[x]) = CoreText(text[x]) BY <1>9
    <2> QED BY <1>1, <1>10, <2>2, <2>3, StepCore
  <1>17. SwapOK'
    <2>1. SwapImage(r, v) = SwapImage(proc[p], u[p]) /\ SwapStatus(r, v) = SwapStatus(proc[p], u[p])
      BY <1>2, <1>6, <1>8 DEF SwapImage, SwapStatus, Live
    <2>2. sched.p = p => sched.pc # "out" BY <1>1, AtFacts
    <2> QED BY <1>2, <1>9, <1>10, <2>1, <2>2, MineSwapStays DEF Good
  <1>18. /\ r.par = proc[p].par /\ r.chan # "child" /\ v.pc \notin {"wait", "reap", "attach", "claim", "commit", "load", "proto"}
         /\ (r.lock <=> Locking(v)) /\ ~Locking(v) /\ (v.for = "image" <=> u[p].for = "image")
         /\ r.load \/ r.text = 0 \/ ~r.ref BY <1>3, <1>6, <1>8 DEF Locking
  <1>19. /\ fault' = "none" /\ text' \in [Slot -> TextSlot] /\ run' \in {0} \cup Proc
         /\ ilock' \in [Prog -> {0} \cup Proc] /\ calls' \in 0..MaxCalls /\ UNCHANGED <<text, ilock>>
         /\ v.ip \in Prog /\ ilock'[v.ip] = p BY <1>2, <1>3, <1>8, <1>9 DEF TypeOK
  <1>20. Growing(v) => \A x \in Slot : text'[x].ip # v.ip
    <2>1. Growing(v) => Growing(u[p]) BY <1>2, <1>8 DEF Growing, Saving
    <2> QED BY <1>2, <1>8, <1>9, <2>1 DEF Good, ExecOK, Entry
  <1> QED BY <1>1, <1>10, <1>13, <1>14, <1>15, <1>16, <1>17, <1>18, <1>19, <1>20, StepKeeps, ProcFacts

(* The process is back in core, its text's core behind its block if it     *)
(* came for that.                                                          *)
LEMMA BackKeeps ==
    ASSUME IInv, NEW p \in Proc, Back(p) PROVE IInv'
  <1>1. At(p, "back") BY DEF Back
  <1>2. /\ TypeOK /\ Good /\ fault = "none"
        /\ proc[p] \in ProcSlot /\ u[p] \in Locals /\ u[p].pc = "back" /\ run \in {0, p}
        /\ proc[p].stat = "run" /\ proc[p].load /\ proc[p].chan = "none" /\ Up(proc[p]) /\ Live(proc[p]) /\ Alive(p)
        /\ RegsOK(p, proc[p], u[p])
        /\ (proc[p].lock <=> Locking(u[p]))
        /\ (Execing(u[p]) => u[p].ip \in Prog /\ ilock[u[p].ip] = p) BY <1>1, AtFacts
  <1>3. /\ ~Small(p) /\ u[p].for \in {"text", "valve"} /\ Execing(u[p]) /\ u[p].ip \in Prog /\ ilock[u[p].ip] = p
        /\ (proc[p].text # 0 => proc[p].ref)
    BY <1>1, <1>2, NotSmall DEF RegsOK, PurposeOK, AttachOK, Locals, Execing
  <1>4. /\ (u[p].for = "text" => proc[p].size = DBLK + TSIZE /\ Need(p) = TSIZE)
        /\ (u[p].for = "valve" => proc[p].size = DBLK /\ Need(p) = 0 /\ u[p].xp # 0 /\ proc[p].text = u[p].xp)
        /\ u[p].da = 0
    <2>1. u[p].for = "text" => proc[p].size = DBLK + TSIZE /\ Need(p) = TSIZE /\ u[p].da = 0
      BY <1>2 DEF RegsOK, SizeOK, Swelled, Need
    <2>2. u[p].for = "valve" => proc[p].size = DBLK /\ Need(p) = 0 BY <1>2, <1>3 DEF Small, Swelled, Need
    <2>3. u[p].for = "valve" => u[p].xp # 0 /\ proc[p].text = u[p].xp /\ u[p].da = 0
      BY <1>2, <2>2 DEF RegsOK, AttachOK, SizeOK, Valve, Saving
    <2> QED BY <1>3, <2>1, <2>2, <2>3
  <1>5. PICK r : r = [proc[p] EXCEPT !.size = DBLK] OBVIOUS
  <1>6. /\ r \in ProcSlot /\ (r.lock <=> proc[p].lock) /\ r.load /\ r.ref = proc[p].ref /\ r.addr = proc[p].addr /\ r.size = DBLK
        /\ r.img = proc[p].img /\ r.text = proc[p].text /\ r.par = proc[p].par /\ r.stat = "run" /\ r.chan = "none"
    BY <1>2, <1>5, Numbers DEF ProcSlot
  <1>7. proc[p].size - Need(p) = DBLK BY <1>3, <1>4, Numbers
  <1>8. proc[p].addr \in Nat BY <1>2 DEF ProcSlot
  <1>9. PICK t \in Nat : t = IF u[p].for = "text" THEN proc[p].addr + DBLK ELSE u[p].ta
    BY <1>2, <1>8, Numbers DEF Locals
  <1>10. u[p].for = "text" => proc[p].addr + proc[p].size - TSIZE = t BY <1>4, <1>8, <1>9, Numbers
  <1>11. PICK l \in {"claim", "commit"} : l = IF u[p].for = "text" THEN "claim" ELSE "commit" OBVIOUS
  <1>12. PICK v : v = [[u[p] EXCEPT !.ta = t] EXCEPT !.pc = l] OBVIOUS
  <1>13. /\ v \in Locals /\ v.pc = l /\ v.ip = u[p].ip /\ v.a = u[p].a /\ v.da = 0 /\ v.ta = t
         /\ v.xp = u[p].xp /\ v.otp = u[p].otp /\ v.for = u[p].for BY <1>2, <1>4, <1>12 DEF Locals, Labels
  <1>14. /\ proc' = [proc EXCEPT ![p] = r] /\ u' = [u EXCEPT ![p] = v]
         /\ run' = p /\ UNCHANGED <<core, swap, text, ilock, sched, fault, calls>>
    <2>1. proc' = [proc EXCEPT ![p] = r] BY <1>2, <1>5, <1>7 DEF Back, TypeOK
    <2>2. u' = [u EXCEPT ![p] = v]
      <3>1. CASE u[p].for = "text" BY <1>10, <1>11, <1>12, <3>1 DEF Back, Goto
      <3>2. CASE u[p].for # "text"
        <4>1. v = [u[p] EXCEPT !.pc = "commit"] BY <1>2, <1>9, <1>11, <1>12, <3>2 DEF Locals
        <4> QED BY <3>2, <4>1 DEF Back, Goto
      <3> QED BY <3>1, <3>2
    <2> QED BY <2>1, <2>2 DEF Back
  <1>15. Mine(p, r, v) /\ SameSched /\ Up(r) BY <1>6, <1>13, <1>14 DEF Mine, SameSched, Up
  <1>16. RegsOK(p, r, v)
    BY <1>1, <1>2, <1>3, <1>4, <1>6, <1>11, <1>13 DEF RegsOK, StatusOK, PurposeOK, AttachOK, SizeOK, Saving,
      Growing, Valve, Swelled
  <1>17. BootOK' BY <1>2, <1>3, <1>6, <1>15, MineBoot DEF Good
  <1>18. CountOK'
    <2>1. \A x : SameRefs(p, r, v, x) BY <1>2, <1>3, <1>6, <1>11, <1>13, SameRefsFrom DEF Retargeted
    <2> QED BY <1>2, <1>14, <1>15, <2>1, MineCount DEF Good
  <1>19. CoreOK'
    <2>1. /\ CoreExec(proc[p], u[p]) = {} /\ CoreExec(r, v) = {} /\ CoreTa(u[p]) = {}
          /\ CoreTa(v) = (IF u[p].for = "text" THEN Run(t, TSIZE) ELSE {})
          /\ CoreBlock(proc[p], u[p]) = Run(proc[p].addr, proc[p].size) /\ CoreBlock(r, v) = Run(proc[p].addr, DBLK)
      BY <1>2, <1>3, <1>4, <1>6, <1>11, <1>13, <1>15 DEF CoreExec, CoreTa, CoreBlock, Up, Live
    <2>2. CoreBlock(proc[p], u[p]) = CoreBlock(r, v) \cup CoreTa(v) /\ CoreBlock(r, v) \cap CoreTa(v) = {}
      <3>1. CASE u[p].for = "text"
        <4>1. Run(proc[p].addr, DBLK + TSIZE) = Run(proc[p].addr, DBLK) \cup Run(proc[p].addr + DBLK, TSIZE)
              /\ Run(proc[p].addr, DBLK) \cap Run(proc[p].addr + DBLK, TSIZE) = {} BY <1>8, Numbers DEF Run
        <4> QED BY <1>4, <1>9, <2>1, <3>1, <4>1
      <3>2. CASE u[p].for # "text" BY <1>3, <1>4, <2>1, <3>2
      <3> QED BY <3>1, <3>2
    <2>3. /\ CoreSplit(core', r, v, CoreTextAt(text', 0))
          /\ CoreSum(core', r, v, CoreTextAt(text', 0)) = CoreSum(core, proc[p], u[p], CoreTextAt(text, 0))
      <3>1. CoreSplit(core, proc[p], u[p], {}) /\ CoreTextAt(text, 0) = {} /\ CoreTextAt(text', 0) = {}
        BY <1>2, Had
      <3>2. CoreExec(r, v) = CoreExec(proc[p], u[p]) /\ core' = core /\ CoreTa(u[p]) = {} /\ CoreExec(r, v) = {}
        BY <1>14, <2>1
      <3> QED BY <2>2, <3>1, <3>2 DEF CoreSplit, CoreSum, Five
    <2>4. \A x \in Slot : x # 0 => CoreText(text'[x]) = CoreText(text[x]) BY <1>14
    <2> QED BY <1>1, <1>15, <2>3, <2>4, StepCore
  <1>20. SwapOK'
    <2>1. SwapImage(r, v) = SwapImage(proc[p], u[p]) /\ SwapStatus(r, v) = SwapStatus(proc[p], u[p])
      BY <1>2, <1>6, <1>11, <1>13 DEF SwapImage, SwapStatus
    <2> QED BY <1>2, <1>6, <1>14, <1>15, <2>1, MineSwapStays DEF Good
  <1>21. /\ r.par = proc[p].par /\ r.chan # "child" /\ v.pc \notin {"wait", "reap", "load", "proto"}
         /\ (r.lock <=> Locking(v)) /\ ~Locking(v) /\ (v.for = "image" <=> u[p].for = "image") /\ r.load
    BY <1>2, <1>6, <1>11, <1>13 DEF Locking
  <1>22. /\ fault' = "none" /\ text' \in [Slot -> TextSlot] /\ run' \in {0} \cup Proc /\ run' = p
         /\ ilock' \in [Prog -> {0} \cup Proc] /\ calls' \in 0..MaxCalls /\ UNCHANGED <<text, ilock>>
         /\ v.ip \in Prog /\ ilock'[v.ip] = p BY <1>2, <1>3, <1>13, <1>14 DEF TypeOK
  <1>23. Growing(v) => \A x \in Slot : text'[x].ip # v.ip
    <2>1. Growing(v) => Growing(u[p]) BY <1>2, <1>11, <1>13 DEF Growing, Saving
    <2> QED BY <1>2, <1>13, <1>14, <2>1 DEF Good, ExecOK, Entry
  <1> QED BY <1>1, <1>15, <1>16, <1>17, <1>18, <1>19, <1>20, <1>21, <1>22, <1>23, StepKeeps, ProcFacts

(* One process less has the text in core. *)
LEMMA XccdecIs ==
    ASSUME TypeOK, NEW x \in Slot, text[x].ccount # 0, text' = Xccdec(text, x)
    PROVE  /\ text' \in [Slot -> TextSlot] /\ \A z \in Slot : z # x => text'[z] = text[z]
           /\ text'[x].count = text[x].count /\ text'[x].ccount + 1 = text[x].ccount
           /\ text'[x].ip = text[x].ip /\ text'[x].daddr = text[x].daddr
           /\ CoreText(text[x]) = CoreText(text'[x]) \cup XccFrees(x) /\ CoreText(text'[x]) \cap XccFrees(x) = {}
  <1>1. /\ text[x] \in TextSlot /\ text[x].ccount \in Nat /\ text[x].ccount > 0 /\ x # 0
        /\ text \in [Slot -> TextSlot] BY ProcFacts DEF TypeOK, TextSlot
  <1>2. PICK a \in Nat : a = IF text[x].ccount = 1 THEN 0 ELSE text[x].caddr BY <1>1 DEF TextSlot
  <1>3. PICK n \in Nat : n = text[x].ccount - 1 BY <1>1
  <1>4. PICK e : e = [text[x] EXCEPT !.ccount = n, !.caddr = a] OBVIOUS
  <1>5. /\ e \in TextSlot /\ e.count = text[x].count /\ e.ccount = n /\ e.caddr = a /\ e.ip = text[x].ip /\ e.daddr = text[x].daddr
    BY <1>1, <1>4 DEF TextSlot
  <1>6. text' = [text EXCEPT ![x] = e]
    <2>1. text' = [text EXCEPT ![x].ccount = n, ![x].caddr = a]
      <3>1. CASE text[x].ccount = 1 BY <1>1, <1>2, <1>3, <3>1 DEF Xccdec
      <3>2. CASE text[x].ccount # 1 BY <1>1, <1>2, <1>3, <3>2 DEF Xccdec
      <3> QED BY <3>1, <3>2
    <2> QED BY <1>1, <1>4, <2>1
  <1>7. text' \in [Slot -> TextSlot] /\ text'[x] = e /\ \A z \in Slot : z # x => text'[z] = text[z]
    BY <1>5, <1>6, EntryIs
  <1>8. XccFrees(x) = (IF text[x].ccount = 1 THEN Run(text[x].caddr, TSIZE) ELSE {}) BY <1>1 DEF XccFrees
  <1>9. CoreText(text[x]) = Run(text[x].caddr, TSIZE) BY <1>1 DEF CoreText
  <1>10. CoreText(e) = IF text[x].ccount = 1 THEN {} ELSE Run(text[x].caddr, TSIZE)
    BY <1>1, <1>2, <1>3, <1>5 DEF CoreText
  <1>11. text'[x].ccount + 1 = text[x].ccount BY <1>1, <1>3, <1>5, <1>7
  <1> QED BY <1>5, <1>7, <1>8, <1>9, <1>10, <1>11

(* A process that leaves gives up the share in its text it has.            *)
Left(p, x) ==
    /\ text' \in [Slot -> TextSlot] /\ \A z \in Slot : z # x => text'[z] = text[z]
    /\ \A z \in Slot : text'[z].count = text[z].count /\ text'[z].ip = text[z].ip /\ text'[z].daddr = text[z].daddr
    /\ CoreTextAt(text, x) = CoreTextAt(text', x) \cup XccFrees(x) /\ CoreTextAt(text', x) \cap XccFrees(x) = {}
    /\ ~Unheld(p) => \A z \in Slot :
         text'[z].ccount + (IF x = z /\ proc[p].ref THEN 1 ELSE 0) = text[z].ccount
(* xccdec of a process that leaves, with or without a share to give up. *)
LEMMA LeavesIs ==
    ASSUME TypeOK, CountOK, NEW p \in Proc, text' = Xccdec(text, proc[p].text) PROVE Left(p, proc[p].text)
  <1> SUFFICES ASSUME NEW x, x = proc[p].text PROVE Left(p, x) OBVIOUS
  <1>1. x \in {0} \cup Slot /\ text \in [Slot -> TextSlot] /\ 0 \notin Slot
    BY ProcFacts DEF TypeOK, ProcSlot
  <1>2. \A z \in Slot : text[z].ccount \in Nat BY <1>1 DEF TextSlot
  <1>3. CASE x = 0 BY <1>1, <1>2, <1>3 DEF Xccdec, XccFrees, CoreTextAt, Left
  <1>4. CASE x \in Slot /\ text[x].ccount = 0
    <2>1. text' = text /\ XccFrees(x) = {} BY <1>4 DEF Xccdec, XccFrees
    <2>2. ~proc[p].ref
      <3>1. ASSUME proc[p].ref PROVE FALSE
        <4>1. <<"attached", p>> \in CoreRefs(x) BY <3>1 DEF CoreRefs, RefersInCore, Refers, Kinds
        <4> QED BY <1>2, <1>4, <4>1, Counted
      <3> QED BY <3>1
    <2> QED BY <1>1, <1>2, <2>1, <2>2 DEF Left
  <1>5. CASE x \in Slot /\ text[x].ccount # 0
    <2>1. /\ text' \in [Slot -> TextSlot] /\ \A z \in Slot : z # x => text'[z] = text[z]
          /\ text'[x].count = text[x].count /\ text'[x].ccount + 1 = text[x].ccount
          /\ text'[x].ip = text[x].ip /\ text'[x].daddr = text[x].daddr
          /\ CoreText(text[x]) = CoreText(text'[x]) \cup XccFrees(x) /\ CoreText(text'[x]) \cap XccFrees(x) = {}
      BY <1>5, XccdecIs
    <2>2. ~Unheld(p) => proc[p].ref BY <1>1, <1>2, <1>5 DEF Unheld
    <2>3. \A z \in Slot : text'[z].count = text[z].count /\ text'[z].ip = text[z].ip /\ text'[z].daddr = text[z].daddr
      BY <2>1
    <2>4. CoreTextAt(text, x) = CoreTextAt(text', x) \cup XccFrees(x) /\ CoreTextAt(text', x) \cap XccFrees(x) = {}
      BY <1>5, <2>1 DEF CoreTextAt
    <2>5. ~Unheld(p) => \A z \in Slot :
            text'[z].ccount + (IF x = z /\ proc[p].ref THEN 1 ELSE 0) = text[z].ccount
      <3>1. ASSUME ~Unheld(p), NEW z \in Slot
            PROVE text'[z].ccount + (IF x = z /\ proc[p].ref THEN 1 ELSE 0) = text[z].ccount
        <4>1. CASE z = x BY <2>1, <2>2, <3>1, <4>1
        <4>2. CASE z # x BY <1>2, <2>1, <4>2
        <4> QED BY <4>1, <4>2
      <3> QED BY <3>1
    <2> QED BY <2>1, <2>3, <2>4, <2>5 DEF Left
  <1> QED BY <1>1, <1>3, <1>4, <1>5

(* The sizes of images are numbers. *)
LEMMA ImageSizesIs ==
    ASSUME TypeOK, NEW p \in Proc, NEW n \in ImageSizes(p) PROVE n \in Nat /\ n * SECTORS \in Nat
  <1>1. Images \subseteq Nat /\ SECTORS \in Nat /\ proc[p].size \in Nat
    BY SwapAssumption, Numbers DEF TypeOK, ProcSlot
  <1>2. n \in Nat BY <1>1 DEF ImageSizes
  <1> QED BY <1>1, <1>2

(* A process takes swap space and starts to write its image. *)
LEMMA SwapSelfKeeps ==
    ASSUME IInv, NEW p \in Proc, SwapSelf(p) PROVE IInv'
  <1>1. At(p, "getswap") BY DEF SwapSelf
  <1>2. /\ TypeOK /\ Good /\ fault = "none"
        /\ proc[p] \in ProcSlot /\ u[p] \in Locals /\ u[p].pc = "getswap" /\ run \in {0, p}
        /\ proc[p].stat = "run" /\ proc[p].load /\ proc[p].chan = "none" /\ Up(proc[p]) /\ Live(proc[p]) /\ Alive(p)
        /\ RegsOK(p, proc[p], u[p])
        /\ (proc[p].lock <=> Locking(u[p]))
        /\ (Execing(u[p]) => u[p].ip \in Prog /\ ilock[u[p].ip] = p) BY <1>1, AtFacts
  <1>3. /\ proc[p].size = DBLK /\ u[p].da = 0 /\ ~Small(p) /\ ~proc[p].lock
        /\ u[p].for \in {"image", "text", "valve"}
    BY <1>1, <1>2, NotSmall, NoBlock DEF RegsOK, PurposeOK, Locals, Locking
  <1>4. PICK n \in ImageSizes(p) :
          /\ Malloc(swap, n * SECTORS) # 0
          /\ swap' = swap \ Run(Malloc(swap, n * SECTORS), n * SECTORS)
          /\ proc' = [proc EXCEPT ![p] = Io(Leaving(@, n))]
          /\ Goto(p, [u[p] EXCEPT !.a = Malloc(swap, n * SECTORS)], "writing") BY DEF SwapSelf
  <1>5. n \in Nat /\ n * SECTORS \in Nat BY <1>2, ImageSizesIs
  <1>6. PICK a \in Nat : a = Malloc(swap, n * SECTORS) /\ Run(a, n * SECTORS) \subseteq swap
    BY <1>2, <1>4, <1>5, MallocFits, Numbers DEF TypeOK
  <1>7. PICK x : x = proc[p].text OBVIOUS
  <1>8. x \in {0} \cup Slot /\ 0 \notin Slot BY <1>2, <1>7, ProcFacts DEF ProcSlot
  <1>9. PICK f \in BOOLEAN : f <=> proc[p].ref /\ proc[p].text = 0 OBVIOUS
  <1>10. PICK q : q = [proc[p] EXCEPT !.img = n, !.lock = TRUE, !.ref = f] OBVIOUS
  <1>11. /\ q \in ProcSlot /\ q.lock /\ q.load /\ (q.ref <=> f) /\ q.addr = proc[p].addr /\ q.size = proc[p].size
         /\ q.img = n /\ q.text = x /\ q.par = proc[p].par BY <1>2, <1>5, <1>7, <1>10 DEF ProcSlot
  <1>12. Leaving(proc[p], n) = q
    <2>1. (proc[p].ref /\ proc[p].text = 0) = f BY <1>9
    <2> QED BY <1>10, <2>1 DEF Leaving
  <1>13. PICK r : r = Io(q) OBVIOUS
  <1>14. /\ r \in ProcSlot /\ Up(r) /\ r.stat = "sleep" /\ r.chan = "io"
         /\ r.lock /\ r.load /\ (r.ref <=> f) /\ r.addr = proc[p].addr /\ r.size = proc[p].size
         /\ r.img = n /\ r.text = x /\ r.par = proc[p].par BY <1>11, <1>13, IoIs DEF SlotSame
  <1>15. PICK v : v = [[u[p] EXCEPT !.a = a] EXCEPT !.pc = "writing"] OBVIOUS
  <1>16. /\ v \in Locals /\ v.pc = "writing" /\ v.ip = u[p].ip /\ v.a = a /\ v.da = 0 /\ v.ta = u[p].ta
         /\ v.xp = u[p].xp /\ v.otp = u[p].otp /\ v.for = u[p].for BY <1>2, <1>3, <1>15 DEF Locals, Labels
  <1>17. /\ proc' = [proc EXCEPT ![p] = r] /\ u' = [u EXCEPT ![p] = v]
         /\ swap' = swap \ Run(a, n * SECTORS) /\ core' = core \cup XccFrees(x)
         /\ text' = Xccdec(text, x) /\ fault' = (IF Unheld(p) THEN "unheld" ELSE "none")
         /\ run' = 0 /\ UNCHANGED <<ilock, sched, calls>>
    BY <1>2, <1>4, <1>6, <1>7, <1>12, <1>13, <1>15 DEF SwapSelf, Leaves, Goto
  <1>18. /\ text' \in [Slot -> TextSlot] /\ \A z \in Slot : z # x => text'[z] = text[z]
         /\ \A z \in Slot : text'[z].count = text[z].count /\ text'[z].ip = text[z].ip /\ text'[z].daddr = text[z].daddr
         /\ CoreTextAt(text, x) = CoreTextAt(text', x) \cup XccFrees(x) /\ CoreTextAt(text', x) \cap XccFrees(x) = {}
         /\ ~Unheld(p) => \A z \in Slot :
              text'[z].ccount + (IF x = z /\ proc[p].ref THEN 1 ELSE 0) = text[z].ccount
    <2>1. TypeOK /\ CountOK /\ text' = Xccdec(text, proc[p].text) BY <1>2, <1>7, <1>17 DEF Good
    <2>2. Left(p, x) BY <1>7, <2>1, LeavesIs
    <2> QED BY <2>2 DEF Left
  <1>19. Mine(p, r, v) /\ SameSched BY <1>14, <1>16, <1>17 DEF Mine, SameSched
  <1>20. CASE Unheld(p)
    <2>1. XccFrees(x) \subseteq 1..NCORE BY <1>2, <1>18, CoreHeld DEF Good
    <2>2. TypeOK' BY <1>2, <1>17, <1>18, <1>19, <1>20, <2>1, MineIs DEF TypeOK
    <2> QED BY <1>17, <1>20, <2>2 DEF IInv
  <1>21. CASE ~Unheld(p)
    <2>1. RegsOK(p, r, v)
      BY <1>2, <1>3, <1>7, <1>9, <1>14, <1>16 DEF RegsOK, StatusOK, PurposeOK, AttachOK, SizeOK, Saving,
        Growing, Valve, Swelled
    <2>2. BootOK' BY <1>2, <1>3, <1>14, <1>19, MineBoot DEF Good
    <2>3. CountOK'
      <3>0. PICK k \in BOOLEAN : k <=> u[p].for = "valve" OBVIOUS
      <3>1. \A z \in Slot :
               /\ Tally(proc[p], u[p], z) = (IF x = z THEN 1 ELSE 0) + (IF k /\ u[p].otp = z THEN 1 ELSE 0)
               /\ CoreTally(proc[p], u[p], z) = (IF x = z /\ proc[p].ref THEN 1 ELSE 0) + (IF k /\ u[p].otp = z THEN 1 ELSE 0)
        BY <1>2, <1>7, <3>0, TalliesAre DEF Retargeted
      <3>2. \A z \in Slot :
               /\ Tally(r, v, z) = (IF x = z THEN 1 ELSE 0) + (IF k /\ u[p].otp = z THEN 1 ELSE 0)
               /\ CoreTally(r, v, z) = (IF k /\ u[p].otp = z THEN 1 ELSE 0)
        <4>1. \A z \in Slot : ~(x = z /\ f) BY <1>7, <1>8, <1>9
        <4> QED BY <1>14, <1>16, <3>0, <4>1, TalliesAre DEF Retargeted
      <3>3. \A z \in Slot : text[z].count \in Nat /\ text[z].ccount \in Nat /\ (text[z].ip # NoProg <=> text[z].count > 0)
        BY <1>2 DEF TypeOK, TextSlot, Good, CountOK
      <3>4. \A z \in Slot : text'[z].ccount \in Nat BY <1>18 DEF TextSlot
      <3>5. \A z \in Slot :
               /\ text'[z].count + Tally(proc[p], u[p], z) = text[z].count + Tally(r, v, z)
               /\ text'[z].ccount + CoreTally(proc[p], u[p], z) = text[z].ccount + CoreTally(r, v, z)
               /\ text'[z].count \in Nat /\ text'[z].ccount \in Nat
               /\ text'[z].ip # NoProg <=> text'[z].count > 0 BY <1>18, <1>21, <3>1, <3>2, <3>3, <3>4
      <3>6. \A z, w \in Slot : text'[z].ip = text'[w].ip /\ text'[z].ip # NoProg => z = w
        BY <1>2, <1>18 DEF Good, CountOK
      <3>7. OthersRefer(p, proc', u') /\ proc'[p] = r /\ u'[p] = v /\ CountOK
        BY <1>2, <1>19, MineIs, MineOthers DEF Good
      <3> QED BY <3>5, <3>6, <3>7, CountMoves
    <2>4. CoreOK'
      <3>1. /\ CoreTa(u[p]) = CoreTa(v) /\ CoreBlock(r, v) = CoreBlock(proc[p], u[p])
            /\ CoreExec(r, v) = CoreExec(proc[p], u[p])
        BY <1>2, <1>3, <1>14, <1>16 DEF CoreExec, CoreTa, CoreBlock, Up, Live
      <3>2. CoreSplit(core, proc[p], u[p], CoreTextAt(text, x)) BY <1>2, Had
      <3>3. /\ CoreSplit(core', r, v, CoreTextAt(text', x))
            /\ CoreSum(core', r, v, CoreTextAt(text', x)) = CoreSum(core, proc[p], u[p], CoreTextAt(text, x))
        BY <1>17, <1>18, <3>1, <3>2 DEF CoreSplit, CoreSum, Five
      <3> QED BY <1>1, <1>18, <1>19, <3>3, StepCore
    <2>5. SwapOK'
      <3>1. /\ SwapImage(proc[p], u[p]) = {} /\ SwapStatus(proc[p], u[p]) = {}
            /\ SwapImage(r, v) = Run(a, n * SECTORS) /\ SwapStatus(r, v) = {}
        BY <1>2, <1>14, <1>16 DEF SwapImage, SwapStatus
      <3>2. /\ SwapTextAt(text, 0) = {} /\ SwapTextAt(text', 0) = {}
            /\ SwapSplit(swap, proc[p], u[p], SwapTextAt(text, 0)) BY <1>2, Had
      <3>3. /\ SwapSplit(swap', r, v, SwapTextAt(text', 0))
            /\ SwapSum(swap', r, v, SwapTextAt(text', 0)) = SwapSum(swap, proc[p], u[p], SwapTextAt(text, 0))
        BY <1>6, <1>17, <3>1, <3>2 DEF SwapSplit, SwapSum, Five
      <3>4. \A z \in Slot : z # 0 => SwapText(text'[z]) = SwapText(text[z]) BY <1>18 DEF SwapText
      <3> QED BY <1>1, <1>19, <3>3, <3>4, StepSwap
    <2>6. /\ r.par = proc[p].par /\ r.chan # "child" /\ v.pc \notin {"wait", "reap", "attach", "claim", "commit", "load", "proto"}
          /\ (r.lock <=> Locking(v)) /\ (v.for = "image" <=> u[p].for = "image") /\ r.load
      BY <1>14, <1>16 DEF Locking
    <2>7. /\ fault' = "none" /\ run' \in {0} \cup Proc
          /\ ilock' \in [Prog -> {0} \cup Proc] /\ calls' \in 0..MaxCalls /\ UNCHANGED ilock
      BY <1>2, <1>17, <1>21 DEF TypeOK
    <2>8. Execing(v) => v.ip \in Prog /\ ilock'[v.ip] = p BY <1>2, <1>16, <1>17 DEF Execing
    <2>9. Growing(v) => \A z \in Slot : text'[z].ip # v.ip
      <3>1. Growing(v) => Growing(u[p]) BY <1>2, <1>16 DEF Growing, Saving
      <3> QED BY <1>2, <1>16, <1>18, <3>1 DEF Good, ExecOK, Entry
    <2>10. x \in Slot => /\ text'[x].ip \in {text[x].ip, NoProg}
                         /\ \E k \in Kinds : Refers(k, proc[p], u[p], x) BY <1>7, <1>18 DEF Kinds, Refers
    <2> QED BY <1>1, <1>14, <1>18, <1>19, <2>1, <2>2, <2>3, <2>4, <2>5, <2>6, <2>7, <2>8, <2>9, <2>10, StepKeeps
  <1> QED BY <1>20, <1>21

----
(* Steps of which other processes take notice.                             *)

(* q keeps what it holds and its place: it may be woken, idle or go on     *)
(* from idling, or have another parent, and a wait that ends is forgotten. *)
Stands(q) ==
    /\ proc'[q].load = proc[q].load /\ proc'[q].lock = proc[q].lock /\ proc'[q].addr = proc[q].addr
    /\ proc'[q].size = proc[q].size /\ proc'[q].img = proc[q].img /\ proc'[q].text = proc[q].text
    /\ proc'[q].ref = proc[q].ref
    /\ Live(proc'[q]) <=> Live(proc[q])
    /\ proc'[q].stat = "zombie" <=> proc[q].stat = "zombie"
    /\ u'[q] = u[q] \/ (u[q].pc = "reap" /\ u'[q] = Home)
StandBy(p) == \A q \in Proc : q # p => Stands(q)

(* What was in the registers of a process that ends its wait.              *)
LEMMA ReapRegs ==
    ASSUME LocalOK, BootOK, NEW q \in Proc, u[q].pc = "reap"
    PROVE  u[q].da = 0 /\ u[q].for \notin {"image", "text", "valve"}
  <1>1. u[q].for \notin {"image", "text", "valve"} BY DEF LocalOK, PurposeOK, Saving
  <1>2. Alive(q) BY HomeIs DEF LocalOK, StatusOK, Alive, Live
  <1>3. ~Small(q) BY DEF BootOK
  <1>4. u[q].da = 0 BY <1>1, <1>2, <1>3 DEF LocalOK, SizeOK, Small, Swelled
  <1> QED BY <1>1, <1>4

(* A process that stands keeps what is true of its registers, *)
LEMMA StandRegs ==
    ASSUME LocalOK, BootOK, NEW q \in Proc, Stands(q)
    PROVE  PurposeOK(proc'[q], u'[q]) /\ AttachOK(proc'[q], u'[q]) /\ SizeOK(proc'[q], u'[q])
  <1>1. PurposeOK(proc[q], u[q]) /\ AttachOK(proc[q], u[q]) /\ SizeOK(proc[q], u[q]) BY DEF LocalOK
  <1>2. CASE u'[q] = u[q] BY <1>1, <1>2 DEF Stands, PurposeOK, AttachOK, SizeOK
  <1>3. CASE u[q].pc = "reap" /\ u'[q] = Home
    <2>1. u[q].for # "valve" BY <1>3, ReapRegs
    <2> QED BY <1>1, <1>3, <2>1, HomeIs DEF Stands, PurposeOK, AttachOK, SizeOK, Saving, Growing, Valve, Swelled
  <1> QED BY <1>2, <1>3 DEF Stands

(* and so of every process by itself, *)
LEMMA StandLocal ==
    ASSUME LocalOK, BootOK, NEW p \in Proc, StandBy(p), RegsOK(p, proc'[p], u'[p]),
           \A q \in Proc : q # p => StatusOK(q, proc'[q], u'[q]) PROVE LocalOK'
  <1>1. ASSUME NEW q \in Proc
        PROVE  /\ StatusOK(q, proc'[q], u'[q]) /\ PurposeOK(proc'[q], u'[q])
               /\ AttachOK(proc'[q], u'[q]) /\ SizeOK(proc'[q], u'[q]) BY StandRegs DEF StandBy, RegsOK
  <1> QED BY <1>1 DEF LocalOK

(* and keeps what it holds and refers to, *)
LEMMA StandOthers ==
    ASSUME LocalOK, BootOK, NEW p \in Proc, StandBy(p)
    PROVE  OthersCore(p, proc', u') /\ OthersSwap(p, proc', u') /\ OthersRefer(p, proc', u')
  <1>1. ASSUME NEW q \in Proc, q # p
        PROVE  /\ CoreBlock(proc'[q], u'[q]) = CoreBlock(proc[q], u[q])
               /\ CoreExec(proc'[q], u'[q]) = CoreExec(proc[q], u[q])
               /\ CoreTa(u'[q]) = CoreTa(u[q])
               /\ SwapImage(proc'[q], u'[q]) = SwapImage(proc[q], u[q])
               /\ SwapStatus(proc'[q], u'[q]) = SwapStatus(proc[q], u[q])
               /\ \A k \in Kinds, x \in Slot :
                    /\ Refers(k, proc'[q], u'[q], x) <=> Refers(k, proc[q], u[q], x)
                    /\ RefersInCore(k, proc'[q], u'[q], x) <=> RefersInCore(k, proc[q], u[q], x)
    <2>1. Stands(q) BY <1>1 DEF StandBy
    <2>2. CASE u'[q] = u[q]
      BY <2>1, <2>2 DEF Stands, CoreBlock, CoreExec, CoreTa, SwapImage, SwapStatus, Refers, RefersInCore,
        Kinds
    <2>3. CASE u[q].pc = "reap" /\ u'[q] = Home
      <3>1. u[q].da = 0 /\ u[q].for \notin {"image", "text", "valve"} BY <1>1, <2>3, ReapRegs
      <3>2. /\ CoreBlock(proc'[q], u'[q]) = CoreBlock(proc[q], u[q])
            /\ CoreExec(proc'[q], u'[q]) = CoreExec(proc[q], u[q])
            /\ CoreTa(u'[q]) = CoreTa(u[q])
        BY <2>1, <2>3, <3>1, HomeIs DEF Stands, CoreBlock, CoreExec, CoreTa
      <3>3. /\ SwapImage(proc'[q], u'[q]) = SwapImage(proc[q], u[q])
            /\ SwapStatus(proc'[q], u'[q]) = SwapStatus(proc[q], u[q])
        BY <2>1, <2>3, <3>1, HomeIs DEF Stands, SwapImage, SwapStatus
      <3>4. \A k \in Kinds, x \in Slot :
              /\ Refers(k, proc'[q], u'[q], x) <=> Refers(k, proc[q], u[q], x)
              /\ RefersInCore(k, proc'[q], u'[q], x) <=> RefersInCore(k, proc[q], u[q], x)
        BY <2>1, <2>3, <3>1, HomeIs DEF Stands, Refers, RefersInCore, Kinds, Retargeted
      <3> QED BY <3>2, <3>3, <3>4
    <2> QED BY <2>1, <2>2, <2>3 DEF Stands
  <1> QED BY <1>1 DEF OthersCore, OthersSwap, OthersRefer

(* its size, *)
LEMMA StandBoot ==
    ASSUME BootOK, NEW p \in Proc, StandBy(p), \A q \in Proc : q # p => ~Small(q),
           Live(proc'[p]) => proc'[p].size = DBLK \/ Swelled(u'[p]) PROVE BootOK'
  <1>1. ASSUME NEW q \in Proc PROVE ~(Live(proc'[q]) /\ proc'[q].size # DBLK /\ ~Swelled(u'[q]))
    <2>1. CASE q = p BY <2>1
    <2>2. CASE q # p
      <3>1. Stands(q) /\ ~Small(q) BY <2>2 DEF StandBy
      <3> QED BY <3>1 DEF Stands, Small, Alive, Swelled
    <2> QED BY <2>1, <2>2
  <1> QED BY <1>1 DEF BootOK, Small, Alive

(* its lock, *)
LEMMA StandLock ==
    ASSUME LockOK, NEW p \in Proc, StandBy(p),
           \A q \in Proc : q # p => ((sched'.pc = "out" /\ sched'.p = q) <=> (sched.pc = "out" /\ sched.p = q)),
           proc'[p].lock <=> Locking(u'[p]) \/ (sched'.pc = "out" /\ sched'.p = p),
           Locking(u'[p]) => proc'[p].load PROVE LockOK'
  <1>1. ASSUME NEW q \in Proc
        PROVE  /\ proc'[q].lock <=> Locking(u'[q]) \/ (sched'.pc = "out" /\ sched'.p = q)
               /\ Locking(u'[q]) => proc'[q].load
    <2>1. CASE q = p BY <2>1
    <2>2. CASE q # p
      <3>1. Stands(q) BY <2>2 DEF StandBy
      <3>2. Locking(u'[q]) <=> Locking(u[q]) BY <3>1, HomeIs DEF Stands, Locking
      <3> QED BY <2>2, <3>1, <3>2 DEF Stands, LockOK
    <2> QED BY <2>1, <2>2
  <1> QED BY <1>1 DEF LockOK

(* and is in the swapper's hands as before, *)
LEMMA StandSched ==
    ASSUME TypeOK, SchedOK, NEW p \in Proc, StandBy(p), SameSched,
           sched.p = p => sched.pc \notin {"out", "intext", "indata"},
           Live(proc'[p]) => proc'[p].load \/ proc'[p].text = 0 \/ ~proc'[p].ref PROVE SchedOK'
  <1>1. /\ sched'.p = sched.p
        /\ \A l \in {"out", "intext", "indata", "runin"} : sched'.pc = l <=> sched.pc = l BY SameSchedIs
  <1>2. sched.pc \in {"out", "intext", "indata"} => sched.p \in Proc /\ Stands(sched.p)
    BY DEF TypeOK, StandBy, SchedOK
  <1>3. \A q \in Proc : Live(proc'[q]) /\ ~proc'[q].load /\ proc'[q].text # 0 /\ proc'[q].ref
          => sched.pc = "indata" /\ sched.p = q
    <2>1. ASSUME NEW q \in Proc, Live(proc'[q]), ~proc'[q].load, proc'[q].text # 0, proc'[q].ref
          PROVE  sched.pc = "indata" /\ sched.p = q
      <3>1. q # p BY <2>1
      <3>2. Stands(q) BY <3>1 DEF StandBy
      <3> QED BY <2>1, <3>2 DEF Stands, SchedOK, Alive
    <2> QED BY <2>1
  <1> QED BY <1>1, <1>2, <1>3 DEF SchedOK, Stands, Alive

(* runs as before, *)
LEMMA StandRun ==
    ASSUME TypeOK, RunOK, NEW p \in Proc, StandBy(p),
           run = 0 \/ u[run].pc \notin {"attach", "claim", "commit"},
           u'[p].pc \notin {"attach", "claim", "commit"} PROVE RunOK'
  <1>1. ASSUME NEW q \in Proc PROVE u'[q].pc \notin {"attach", "claim", "commit"}
    <2>1. u[q].pc \notin {"attach", "claim", "commit"} BY ProcFacts DEF RunOK
    <2> QED BY <2>1, HomeIs DEF StandBy, Stands
  <1> QED BY <1>1 DEF RunOK

(* and has the program and the text it had. *)
LEMMA StandExec ==
    ASSUME ExecOK, NEW p \in Proc, StandBy(p), UNCHANGED ilock,
           \A x \in Slot : text'[x].ip = text[x].ip,
           \A q \in Proc : u[q].pc \in {"load", "proto"} => text'[u[q].xp] = text[u[q].xp],
           u'[p] = u[p] \/ ~Execing(u'[p]) PROVE ExecOK'
  <1>1. ASSUME NEW q \in Proc PROVE u'[q] = u[q] \/ ~Execing(u'[q]) BY HomeIs DEF StandBy, Stands, Execing
  <1>2. ASSUME NEW q \in Proc
        PROVE  /\ Execing(u'[q]) => u'[q].ip \in Prog /\ ilock'[u'[q].ip] = q
               /\ Growing(u'[q]) => \A x \in Slot : text'[x].ip # u'[q].ip
               /\ u'[q].pc \in {"load", "proto"} =>
                    /\ text'[u'[q].xp].ip = u'[q].ip /\ text'[u'[q].xp].count = 1
                    /\ text'[u'[q].xp].ccount = 0 /\ text'[u'[q].xp].caddr = u'[q].ta
    <2>1. CASE u'[q] = u[q]
      <3>1. /\ Execing(u[q]) => u[q].ip \in Prog /\ ilock[u[q].ip] = q
            /\ Growing(u[q]) => \A x \in Slot : text[x].ip # u[q].ip
            /\ u[q].pc \in {"load", "proto"} =>
                 /\ text[u[q].xp].ip = u[q].ip /\ text[u[q].xp].count = 1
                 /\ text[u[q].xp].ccount = 0 /\ text[u[q].xp].caddr = u[q].ta BY DEF ExecOK, Entry
      <3> QED BY <2>1, <3>1
    <2>2. CASE ~Execing(u'[q]) BY <2>2 DEF Execing, Growing, Saving
    <2> QED BY <1>1, <2>1, <2>2
  <1> QED BY <1>2 DEF ExecOK, Entry

(* A step of p, of which the others take notice.                           *)
LEMMA StandKeeps ==
    ASSUME TypeOK, Good, NEW p \in Proc, StandBy(p),
           proc' \in [Proc -> ProcSlot], u' \in [Proc -> Locals], text' \in [Slot -> TextSlot],
           sched' \in [pc : {"loop", "runin", "runout", "intext", "indata", "out"},
                       p : {0} \cup Proc, a : Nat, ta : Nat],
           run' \in {0} \cup Proc, calls' \in 0..MaxCalls, fault' = "none", UNCHANGED ilock,
           RegsOK(p, proc'[p], u'[p]),
           \A q \in Proc : q # p => StatusOK(q, proc'[q], u'[q]),
           \A q \in Proc : q # p => ~Small(q),
           Live(proc'[p]) => proc'[p].size = DBLK \/ Swelled(u'[p]),
           \A q \in Proc : q # p => ((sched'.pc = "out" /\ sched'.p = q) <=> (sched.pc = "out" /\ sched.p = q)),
           proc'[p].lock <=> Locking(u'[p]) \/ (sched'.pc = "out" /\ sched'.p = p),
           Locking(u'[p]) => proc'[p].load,
           run = 0 \/ u[run].pc \notin {"attach", "claim", "commit"},
           u'[p].pc \notin {"attach", "claim", "commit"},
           \A x \in Slot : text'[x].ip = text[x].ip,
           \A q \in Proc : u[q].pc \in {"load", "proto"} => text'[u[q].xp] = text[u[q].xp],
           u'[p] = u[p] \/ ~Execing(u'[p]),
           SchedOK', FamilyOK', CountOK', CoreOK', SwapOK' PROVE IInv'
  <1>1. core' \subseteq 1..NCORE /\ swap' \subseteq 1..NSWAP BY DEF CoreOK, SwapOK, Apart
  <1>2. TypeOK' BY <1>1 DEF TypeOK
  <1>3. LocalOK' /\ BootOK' /\ RunOK' /\ LockOK' /\ ExecOK'
    BY StandLocal, StandBoot, StandRun, StandLock, StandExec DEF Good
  <1> QED BY <1>2, <1>3 DEF IInv, Good

(* A child c of p is born.                                                 *)
LEMMA BirthFamily ==
    ASSUME FamilyOK, NEW p \in Proc, NEW c \in Proc, c # p, c # 1,
           proc[c].stat = "none", proc[p].stat = "run",
           proc'[c].stat = "run", proc'[c].par = p, proc'[c].chan = "none",
           \A q \in Proc : q \notin {c, p} => proc'[q] = proc[q],
           \A q \in Proc : q # c => u'[q] = u[q],
           proc'[p].par = proc[p].par, proc'[p].chan = proc[p].chan,
           proc'[p].stat \in {"run", "idle"}, u[c].for # "image",
           proc'[p].stat = "idle" <=> u'[c].for = "image",
           u'[c].pc \notin {"wait", "reap"} PROVE FamilyOK'
  <1>1. \A q \in Proc : /\ q # c => proc'[q].par = proc[q].par /\ proc'[q].chan = proc[q].chan
                        /\ q \notin {c, p} => proc'[q].stat = proc[q].stat
                        /\ proc'[q].stat = "zombie" <=> proc[q].stat = "zombie"
                        /\ q # c => (Live(proc'[q]) <=> Live(proc[q])) BY DEF Live
  <1>2. Live(proc'[c]) /\ ~Live(proc[c]) BY DEF Live
  <1>3. \A q \in Proc : q # 1 /\ proc[q].stat # "none" => proc[q].par \in Proc \ {q, c} /\ Live(proc[proc[q].par])
    BY <1>2 DEF FamilyOK, Alive
  <1>4. \A q \in Proc : Zombies(q)' = Zombies(q) BY <1>1 DEF Zombies, Children
  <1>5. \A q \in Proc : Children(q) \subseteq Children(q)' /\ c \notin Children(q) BY <1>1 DEF Children
  <1>6. c \in Children(p)' BY DEF Children
  <1>7. \A q \in Proc : u[q].for = "image" => q \notin {c} /\ proc[q].par # p BY DEF FamilyOK
  <1>8. ASSUME NEW q \in Proc
        PROVE  /\ q # 1 /\ proc'[q].stat # "none" => proc'[q].par \in Proc \ {q} /\ Live(proc'[proc'[q].par])
               /\ proc'[q].chan = "child" => Zombies(q)' = {}
               /\ u'[q].pc = "wait" => Children(q)' # {}
               /\ u'[q].pc = "reap" => u'[q].a \in Zombies(q)'
               /\ u'[q].for = "image" => q # 1 /\ proc'[q].stat # "none" /\ proc'[proc'[q].par].stat = "idle"
               /\ proc'[q].stat = "idle" => \E k \in Children(q)' : u'[k].for = "image"
    <2>1. CASE q = c
      <3>1. Live(proc'[p]) BY DEF Live
      <3> QED BY <2>1, <3>1
    <2>2. CASE q # c
      <3>1. q # 1 /\ proc'[q].stat # "none" => proc'[q].par \in Proc \ {q} /\ Live(proc'[proc'[q].par])
        BY <1>1, <1>3, <2>2
      <3>2. /\ proc'[q].chan = "child" => Zombies(q)' = {}
            /\ u'[q].pc = "wait" => Children(q)' # {}
            /\ u'[q].pc = "reap" => u'[q].a \in Zombies(q)' BY <1>1, <1>4, <1>5, <2>2 DEF FamilyOK
      <3>3. u'[q].for = "image" => q # 1 /\ proc'[q].stat # "none" /\ proc'[proc'[q].par].stat = "idle"
        <4>1. ASSUME u'[q].for = "image"
              PROVE  q # 1 /\ proc'[q].stat # "none" /\ proc'[proc'[q].par].stat = "idle"
          <5>1. q # 1 /\ proc[q].stat # "none" /\ proc[proc[q].par].stat = "idle" /\ proc[q].par \in Proc \ {c, p}
            BY <1>3, <1>7, <2>2, <4>1 DEF FamilyOK
          <5> QED BY <1>1, <2>2, <5>1
        <4> QED BY <4>1
      <3>4. proc'[q].stat = "idle" => \E k \in Children(q)' : u'[k].for = "image"
        <4>1. CASE q = p BY <1>6, <4>1
        <4>2. CASE q # p
          <5>1. ASSUME proc'[q].stat = "idle" PROVE \E k \in Children(q)' : u'[k].for = "image"
            <6>1. PICK k \in Children(q) : u[k].for = "image" BY <2>2, <4>2, <5>1 DEF FamilyOK
            <6>2. k \in Proc /\ k # c /\ k \in Children(q)' BY <1>5, <6>1 DEF Children
            <6> QED BY <6>1, <6>2
          <5> QED BY <5>1
        <4> QED BY <4>1, <4>2
      <3> QED BY <3>1, <3>2, <3>3, <3>4
    <2> QED BY <2>1, <2>2
  <1>9. \A q, k \in Proc : u'[q].for = "image" /\ u'[k].for = "image" /\ proc'[q].par = proc'[k].par => q = k
    BY <1>1, <1>7 DEF FamilyOK
  <1> QED BY <1>8, <1>9 DEF FamilyOK, Alive

(* The slot the next child gets.                                           *)
LEMMA SlotIs ==
    ASSUME IInv, fault = "none", Slots # {}
    PROVE  /\ Least(Slots) \in Proc /\ proc[Least(Slots)] = Free /\ u[Least(Slots)] = Home
           /\ Least(Slots) # 1 /\ proc[Least(Slots)].stat = "none"
  <1>1. Least(Slots) \in Slots BY LeastIn, Numbers DEF Slots, Proc
  <1> QED BY <1>1, ProcFacts DEF Slots, IInv, Good, LocalOK, StatusOK

(* The fields of a free slot. *)
LEMMA FreeIs ==
    /\ Free \in ProcSlot /\ Free.stat = "none" /\ ~Free.load /\ ~Free.lock /\ Free.addr = 0 /\ Free.size = 0
    /\ Free.img = 0 /\ Free.text = 0 /\ Free.par = 0 /\ Free.chan = "none" /\ Free.ref = FALSE
  BY DEF Free, ProcSlot

(* One more process has the text in core.                                  *)
Shared(x) ==
    /\ text' \in [Slot -> TextSlot] /\ \A z \in Slot : z # x => text'[z] = text[z]
    /\ \A z \in Slot : /\ text'[z].ip = text[z].ip /\ text'[z].daddr = text[z].daddr /\ text'[z].caddr = text[z].caddr
                       /\ text'[z].count = text[z].count + (IF x = z THEN 1 ELSE 0)
                       /\ text'[z].ccount = text[z].ccount + (IF x = z THEN 1 ELSE 0)
(* SharedText adds one to both counts of a text. *)
LEMMA SharedIs ==
    ASSUME TypeOK, NEW x \in Slot, text' = SharedText(x) PROVE Shared(x)
  <1>1. text[x] \in TextSlot /\ \A z \in Slot : text[z].count \in Nat /\ text[z].ccount \in Nat
    BY DEF TypeOK, TextSlot
  <1>2. PICK e : e = [text[x] EXCEPT !.count = text[x].count + 1, !.ccount = text[x].ccount + 1] OBVIOUS
  <1>3. /\ e \in TextSlot /\ e.ip = text[x].ip /\ e.daddr = text[x].daddr /\ e.caddr = text[x].caddr
        /\ e.count = text[x].count + 1 /\ e.ccount = text[x].ccount + 1
    <2>1. PICK m \in Nat : m = text[x].count + 1 BY <1>1
    <2>2. PICK n \in Nat : n = text[x].ccount + 1 BY <1>1
    <2>3. e = [text[x] EXCEPT !.count = m, !.ccount = n] BY <1>2, <2>1, <2>2
    <2> QED BY <1>1, <2>1, <2>2, <2>3 DEF TextSlot
  <1>4. text' = [text EXCEPT ![x] = e]
    <2>1. text' = [text EXCEPT ![x].count = @ + 1, ![x].ccount = @ + 1] BY ProcFacts DEF SharedText
    <2> QED BY <1>1, <1>2, <2>1 DEF TypeOK, TextSlot
  <1>5. text' \in [Slot -> TextSlot] /\ text'[x] = e /\ \A z \in Slot : z # x => text'[z] = text[z]
    BY <1>3, <1>4, EntryIs
  <1> QED BY <1>1, <1>3, <1>5 DEF Shared

(* A program forks: the child c has the slot r and the registers v.        *)
LEMMA BirthKeeps ==
    ASSUME IInv, NEW p \in Proc, Program(p), NEW c \in Proc, proc[c] = Free, u[c] = Home, c # 1,
           NEW r \in ProcSlot, r.stat = "run", r.load, ~r.lock, r.size = proc[p].size, r.text = proc[p].text,
           r.ref = proc[p].ref, r.chan = "none", r.par = p,
           NEW v \in Locals, v = Home \/ (v.pc = "getswap" /\ v.for = "image" /\ v.da = 0),
           u' = [u EXCEPT ![c] = v], proc' \in [Proc -> ProcSlot], proc'[c] = r,
           \A q \in Proc : q \notin {c, p} => proc'[q] = proc[q],
           SlotSame(proc[p], proc'[p]), proc'[p].chan = proc[p].chan,
           proc'[p].stat \in {"run", "idle"}, proc'[p].stat = "idle" <=> v.for = "image",
           text' = SharedText(proc[p].text), Call, UNCHANGED <<swap, ilock, sched, fault>>, run' \in {0} \cup Proc,
           CoreSplit(core', r, v, {}), CoreSum(core', r, v, {}) = core PROVE IInv'
  <1>1. At(p, "user") /\ proc[p].text # 0 BY DEF Program
  <1>2. /\ TypeOK /\ Good /\ fault = "none"
        /\ proc[p] \in ProcSlot /\ u[p] \in Locals /\ u[p].pc = "user" /\ run \in {0, p}
        /\ proc[p].stat = "run" /\ proc[p].load /\ proc[p].chan = "none" /\ Alive(p)
        /\ RegsOK(p, proc[p], u[p]) BY <1>1, AtFacts
  <1>3. PICK x : x = proc[p].text OBVIOUS
  <1>4. x \in Slot /\ proc[p].ref /\ ~Small(p) /\ proc[p].size = DBLK /\ c # p
    <2>1. ~Small(p) BY <1>1, <1>2, NotSmall
    <2> QED BY <1>1, <1>2, <1>3, <2>1, NoBlock, FreeIs DEF RegsOK, AttachOK, ProcSlot
  <1>5. calls' \in 0..MaxCalls BY <1>2, CallType
  <1>6. Shared(x) BY <1>2, <1>3, <1>4, SharedIs
  <1>7. v.pc \in {"user", "getswap"} /\ v.for \in {"none", "image"} /\ v.da = 0 /\ (v.for = "image" <=> v.pc = "getswap")
    BY HomeIs
  <1>8. proc' \in [Proc -> ProcSlot] /\ u' \in [Proc -> Locals] /\ u'[c] = v /\ \A q \in Proc : q # c => u'[q] = u[q]
    BY <1>2 DEF TypeOK
  <1>9. ASSUME NEW q \in Proc, q # c PROVE Stands(q) /\ StatusOK(q, proc'[q], u'[q]) /\ ~Small(q)
    <2>1. StatusOK(q, proc[q], u[q]) BY <1>2 DEF Good, LocalOK
    <2>2. CASE q = p
      <3>1. u'[p] = u[p] /\ u[p].pc = "user" /\ SlotSame(proc[p], proc'[p]) /\ proc[p].stat = "run"
            /\ proc'[p].stat \in {"run", "idle"} /\ proc'[p].chan = "none" BY <1>2, <1>8, <1>9, <2>2
      <3>2. Stands(p) BY <3>1 DEF Stands, SlotSame, Live
      <3>3. StatusOK(p, proc'[p], u'[p]) BY <1>2, <2>1, <2>2, <3>1 DEF SlotSame, StatusOK
      <3> QED BY <1>4, <2>2, <3>2, <3>3
    <2>3. CASE q # p BY <1>2, <1>8, <1>9, <2>1, <2>3 DEF Stands, Small, Alive, Live, Good, BootOK
    <2> QED BY <2>2, <2>3
  <1>10. StandBy(c) BY <1>9 DEF StandBy
  <1>11. RegsOK(c, proc'[c], u'[c])
    BY <1>2, <1>4, <1>7, <1>8, HomeIs DEF RegsOK, StatusOK, PurposeOK, AttachOK, SizeOK, Saving, Growing,
      Valve, Swelled
  <1>12. \A q \in Proc : u[q].pc \in {"load", "proto"} => text'[u[q].xp] = text[u[q].xp]
    <2>1. ASSUME NEW q \in Proc, u[q].pc \in {"load", "proto"} PROVE text'[u[q].xp] = text[u[q].xp]
      <3>1. q # p /\ u[q].xp \in Slot BY <1>2, <2>1, Built DEF Good
      <3>2. Refers("attached", proc[p], u[p], x) BY <1>3 DEF Refers
      <3>3. u[q].xp # x BY <1>2, <1>4, <2>1, <3>1, <3>2, NotBuilt DEF Kinds
      <3> QED BY <1>6, <3>1, <3>3 DEF Shared
    <2> QED BY <2>1
  <1>13. sched.pc \in {"out", "intext", "indata"} => sched.p # c
    BY <1>2, FreeIs DEF Good, SchedOK, Alive, Live
  <1>14. ~proc'[c].lock /\ ~Locking(u'[c]) /\ ~Execing(u'[c]) BY <1>7, <1>8 DEF Locking, Execing
  <1>15. SchedOK'
    <2>1. TypeOK /\ SchedOK /\ SameSched BY <1>2 DEF Good, SameSched
    <2> QED BY <1>10, <1>13, <2>1, StandSched
  <1>16. FamilyOK'
    <2>1. FamilyOK /\ proc[c].stat = "none" /\ u[c].for # "image" /\ proc'[p].par = proc[p].par
      BY <1>2, FreeIs, HomeIs DEF Good, SlotSame
    <2> QED BY <1>2, <1>4, <1>7, <1>8, <2>1, BirthFamily
  <1>17. OthersCore(c, proc', u') /\ OthersSwap(c, proc', u') /\ OthersRefer(c, proc', u')
    BY <1>2, <1>10, StandOthers DEF Good
  <1>18. CountOK'
    <2>1. CountOK /\ \A z \in Slot : text[z].count \in Nat /\ text[z].ccount \in Nat /\ (text[z].ip # NoProg <=> text[z].count > 0)
      BY <1>2 DEF TypeOK, TextSlot, Good, CountOK
    <2>2. \A z \in Slot : Tally(proc[c], u[c], z) = 0 /\ CoreTally(proc[c], u[c], z) = 0
      BY TalliesAre, FreeIs, HomeIs, ProcFacts DEF Retargeted
    <2>3. \A z \in Slot : Tally(r, v, z) = (IF x = z THEN 1 ELSE 0) /\ CoreTally(r, v, z) = (IF x = z THEN 1 ELSE 0)
      <3>1. ~Retargeted(v) /\ v.pc \notin {"load", "proto", "committed"} BY <1>7 DEF Retargeted
      <3>2. r.text = x /\ r.ref = TRUE BY <1>3, <1>4, <1>2 DEF ProcSlot
      <3> QED BY <3>1, <3>2, TalliesAre
    <2>4. <<"attached", p>> \in Refs(x) BY <1>3 DEF Refs, Refers, Kinds
    <2>5. text[x].ip # NoProg BY <1>2, <1>4, <2>1, <2>4, Counted
    <2>6. \A z \in Slot :
            /\ text'[z].count + Tally(proc[c], u[c], z) = text[z].count + Tally(r, v, z)
            /\ text'[z].ccount + CoreTally(proc[c], u[c], z) = text[z].ccount + CoreTally(r, v, z)
            /\ text'[z].count \in Nat /\ text'[z].ccount \in Nat
            /\ text'[z].ip # NoProg <=> text'[z].count > 0
      <3>1. ASSUME NEW z \in Slot
            PROVE  /\ text'[z].count + Tally(proc[c], u[c], z) = text[z].count + Tally(r, v, z)
                   /\ text'[z].ccount + CoreTally(proc[c], u[c], z) = text[z].ccount + CoreTally(r, v, z)
                   /\ text'[z].count \in Nat /\ text'[z].ccount \in Nat
                   /\ text'[z].ip # NoProg <=> text'[z].count > 0
        <4>1. CASE x = z BY <1>6, <2>1, <2>2, <2>3, <2>5, <4>1 DEF Shared
        <4>2. CASE x # z BY <1>6, <2>1, <2>2, <2>3, <4>2 DEF Shared
        <4> QED BY <4>1, <4>2
      <3> QED BY <3>1
    <2>7. \A z, w \in Slot : text'[z].ip = text'[w].ip /\ text'[z].ip # NoProg => z = w
      BY <1>6, <2>1 DEF Shared, CountOK
    <2>8. proc'[c] = r /\ u'[c] = v /\ CountOK BY <1>8, <2>1
    <2> QED BY ONLY <1>17, <2>6, <2>7, <2>8, CountMoves, c \in Proc
  <1>19. SchedHolds(sched', proc')
    <2>1. CASE sched.pc \in {"out", "intext", "indata"}
      <3>1. sched.p \in Proc /\ Stands(sched.p) BY <1>2, <1>9, <1>13, <2>1 DEF Good, SchedOK, TypeOK
      <3> QED BY <3>1 DEF SchedHolds, Stands
    <2>2. CASE sched.pc \notin {"out", "intext", "indata"}
      BY <2>2 DEF SchedHolds, CoreData, CoreCtext, SwapData
    <2> QED BY <2>1, <2>2
  <1>20. CoreOK'
    <2>1. CoreOK /\ CoreTextAt(text, 0) = {} /\ CoreTextAt(text', 0) = {}
      BY <1>2, ProcFacts DEF Good, CoreTextAt
    <2>2. CoreBlock(proc[c], u[c]) = {} /\ CoreExec(proc[c], u[c]) = {} /\ CoreTa(u[c]) = {}
      BY FreeIs, HomeIs DEF CoreBlock, CoreExec, CoreTa, Live
    <2>3. \A z \in Slot : CoreText(text'[z]) = CoreText(text[z])
      <3>1. <<"attached", p>> \in CoreRefs(x) BY <1>3, <1>4 DEF CoreRefs, RefersInCore, Refers, Kinds
      <3>2. text[x].ccount >= 1 /\ \A z \in Slot : text[z].ccount \in Nat
        BY <1>2, <1>4, <3>1, Counted DEF Good, TypeOK, TextSlot
      <3>3. \A z \in Slot : text'[z].ccount > 0 <=> text[z].ccount > 0 BY <1>6, <3>2 DEF Shared
      <3> QED BY <1>6, <3>3 DEF Shared, CoreText
    <2>4. /\ Five(core', CoreBlock(r, v), CoreExec(r, v), CoreTa(v), {})
          /\ core' \cup CoreBlock(r, v) \cup CoreExec(r, v) \cup CoreTa(v) \cup {} = core
      BY DEF CoreSplit, CoreSum
    <2>5. core' \cup CoreBlock(r, v) \cup CoreExec(r, v) \cup CoreTa(v) \cup {}
            = core \cup CoreBlock(proc[c], u[c]) \cup CoreExec(proc[c], u[c]) \cup CoreTa(u[c]) \cup CoreTextAt(text, 0)
      BY <2>1, <2>2, <2>4
    <2>6. CoreBlock(r, v) = CoreBlock(proc'[c], u'[c]) /\ CoreExec(r, v) = CoreExec(proc'[c], u'[c]) /\ CoreTa(v) = CoreTa(u'[c])
      BY <1>8
    <2>7. \A z \in Slot : z # 0 => CoreText(text'[z]) = CoreText(text[z]) BY <2>3
    <2> QED BY ONLY <1>17, <1>19, <2>1, <2>4, <2>5, <2>6, <2>7, CoreMoves, c \in Proc
  <1>21. SwapOK'
    <2>1. SwapOK /\ SwapTextAt(text, 0) = {} /\ SwapTextAt(text', 0) = {}
      BY <1>2, ProcFacts DEF Good, SwapTextAt
    <2>2. /\ SwapImage(proc[c], u[c]) = {} /\ SwapStatus(proc[c], u[c]) = {}
          /\ SwapImage(r, v) = {} /\ SwapStatus(r, v) = {}
      BY <1>7, FreeIs, HomeIs DEF SwapImage, SwapStatus, Live
    <2>3. \A z \in Slot : z # 0 => SwapText(text'[z]) = SwapText(text[z]) BY <1>6 DEF Shared, SwapText
    <2>4. {} = SwapImage(proc'[c], u'[c]) /\ {} = SwapStatus(proc'[c], u'[c]) BY <1>8, <2>2
    <2>5. Five(swap', {}, {}, {}, {}) BY DEF Five
    <2>6. swap' \cup {} \cup {} \cup {}
             = swap \cup SwapImage(proc[c], u[c]) \cup SwapStatus(proc[c], u[c]) \cup SwapTextAt(text, 0)
      BY <2>1, <2>2
    <2> QED BY ONLY <1>17, <1>19, <2>1, <2>3, <2>4, <2>5, <2>6, SwapMoves, c \in Proc
  <1>22. /\ text' \in [Slot -> TextSlot] /\ (\A z \in Slot : text'[z].ip = text[z].ip)
         /\ sched' \in [pc : {"loop", "runin", "runout", "intext", "indata", "out"},
                        p : {0} \cup Proc, a : Nat, ta : Nat]
         /\ fault' = "none" /\ UNCHANGED <<ilock, sched>> BY <1>2, <1>6 DEF Shared, TypeOK
  <1>23. run = 0 \/ u[run].pc \notin {"attach", "claim", "commit"} BY <1>2
  <1>24. /\ \A q \in Proc : q # c => StatusOK(q, proc'[q], u'[q]) /\ ~Small(q)
         /\ Live(proc'[c]) => proc'[c].size = DBLK \/ Swelled(u'[c])
         /\ u'[c].pc \notin {"attach", "claim", "commit"}
         /\ proc'[c].lock <=> Locking(u'[c]) \/ (sched'.pc = "out" /\ sched'.p = c)
    BY <1>4, <1>7, <1>8, <1>9, <1>13, <1>14
  <1> QED BY <1>2, <1>5, <1>8, <1>10, <1>11, <1>12, <1>14, <1>15, <1>16, <1>18, <1>20, <1>21, <1>22, <1>23, <1>24, StandKeeps

(* fork with core for the child. *)
LEMMA ForkKeeps ==
    ASSUME IInv, NEW p \in Proc, Fork(p) PROVE IInv'
  <1>1. Program(p) /\ At(p, "user") /\ Slots # {} BY DEF Fork, Program
  <1>2. TypeOK /\ fault = "none" /\ proc[p] \in ProcSlot /\ proc[p].stat = "run" /\ proc[p].load /\ ~proc[p].lock /\ proc[p].chan = "none"
    BY <1>1, AtFacts DEF Locking
  <1>3. PICK c : c = Least(Slots) OBVIOUS
  <1>4. c \in Proc /\ proc[c] = Free /\ u[c] = Home /\ c # 1 /\ c # p BY <1>1, <1>2, <1>3, SlotIs, FreeIs
  <1>5. PICK a : a = Malloc(core, proc[p].size) OBVIOUS
  <1>6. a \in Nat /\ a # 0 /\ Run(a, proc[p].size) \subseteq core
    BY <1>2, <1>5, MallocFits, Numbers DEF TypeOK, ProcSlot, Fork
  <1>7. PICK r : r = Child(p, a) OBVIOUS
  <1>8. /\ r \in ProcSlot /\ r.stat = "run" /\ r.load /\ ~r.lock /\ r.size = proc[p].size /\ r.text = proc[p].text
        /\ r.ref = proc[p].ref /\ r.chan = "none" /\ r.par = p /\ r.addr = a
    BY <1>2, <1>6, <1>7 DEF Child, ProcSlot
  <1>9. /\ core' = core \ Run(a, proc[p].size) /\ proc' = [proc EXCEPT ![c] = r] /\ u' = [u EXCEPT ![c] = Home]
        /\ run' = 0 /\ text' = SharedText(proc[p].text) /\ Call /\ UNCHANGED <<swap, ilock, sched, fault>>
    BY <1>3, <1>5, <1>7 DEF Fork
  <1>10. /\ proc' \in [Proc -> ProcSlot] /\ proc'[c] = r /\ \A q \in Proc : q # c => proc'[q] = proc[q]
    BY <1>2, <1>4, <1>8, <1>9 DEF TypeOK
  <1>11. CoreSplit(core', r, Home, {}) /\ CoreSum(core', r, Home, {}) = core
    <2>1. CoreBlock(r, Home) = Run(a, proc[p].size) /\ CoreExec(r, Home) = {} /\ CoreTa(Home) = {}
      BY <1>8, HomeIs DEF CoreBlock, CoreExec, CoreTa, Live
    <2> QED BY <1>6, <1>9, <2>1 DEF CoreSplit, CoreSum, Five
  <1>12. SlotSame(proc[p], proc'[p]) /\ proc'[p].chan = proc[p].chan /\ proc'[p].stat = "run"
    BY <1>2, <1>4, <1>10 DEF SlotSame
  <1>13. PICK v \in Locals : v = Home BY HomeIs
  <1>14. /\ u' = [u EXCEPT ![c] = v] /\ CoreSplit(core', r, v, {}) /\ CoreSum(core', r, v, {}) = core
         /\ (proc'[p].stat = "idle" <=> v.for = "image") BY <1>9, <1>11, <1>12, <1>13, HomeIs
  <1>15. /\ \A q \in Proc : q \notin {c, p} => proc'[q] = proc[q]
         /\ proc'[p].stat \in {"run", "idle"} /\ run' \in {0} \cup Proc BY <1>9, <1>10, <1>12
  <1> QED BY <1>1, <1>4, <1>8, <1>9, <1>10, <1>12, <1>13, <1>14, <1>15, BirthKeeps

(* fork without: the parent idles and the child writes its image. *)
LEMMA ForkNoCoreKeeps ==
    ASSUME IInv, NEW p \in Proc, ForkNoCore(p) PROVE IInv'
  <1>1. Program(p) /\ At(p, "user") /\ Slots # {} BY DEF ForkNoCore, Program
  <1>2. TypeOK /\ fault = "none" /\ proc[p] \in ProcSlot /\ proc[p].stat = "run" /\ proc[p].load /\ ~proc[p].lock /\ proc[p].chan = "none"
    BY <1>1, AtFacts DEF Locking
  <1>3. PICK c : c = Least(Slots) OBVIOUS
  <1>4. c \in Proc /\ proc[c] = Free /\ u[c] = Home /\ c # 1 /\ c # p BY <1>1, <1>2, <1>3, SlotIs, FreeIs
  <1>5. PICK r : r = Child(p, proc[p].addr) OBVIOUS
  <1>6. /\ r \in ProcSlot /\ r.stat = "run" /\ r.load /\ ~r.lock /\ r.size = proc[p].size /\ r.text = proc[p].text
        /\ r.ref = proc[p].ref /\ r.chan = "none" /\ r.par = p BY <1>2, <1>5 DEF Child, ProcSlot
  <1>7. PICK v : v = [Home EXCEPT !.pc = "getswap", !.for = "image"] OBVIOUS
  <1>8. v \in Locals /\ v.pc = "getswap" /\ v.for = "image" /\ v.da = 0
    BY <1>7, SwapAssumption DEF Home, Locals, Labels
  <1>9. PICK s : s = [proc[p] EXCEPT !.stat = "idle"] OBVIOUS
  <1>10. s \in ProcSlot /\ SlotSame(proc[p], s) /\ s.chan = proc[p].chan /\ s.stat = "idle"
    BY <1>2, <1>9 DEF ProcSlot, SlotSame
  <1>11. /\ proc' = [proc EXCEPT ![p] = s, ![c] = r] /\ u' = [u EXCEPT ![c] = v]
         /\ run' = c /\ text' = SharedText(proc[p].text) /\ Call /\ UNCHANGED <<core, swap, ilock, sched, fault>>
    <2>1. proc' = [proc EXCEPT ![p].stat = "idle", ![c] = r] BY <1>3, <1>5 DEF ForkNoCore
    <2>2. proc' = [proc EXCEPT ![p] = s, ![c] = r] BY <1>2, <1>4, <1>9, <2>1 DEF TypeOK
    <2> QED BY <1>3, <1>7, <2>2 DEF ForkNoCore
  <1>12. /\ proc' \in [Proc -> ProcSlot] /\ proc'[c] = r /\ proc'[p] = s
         /\ \A q \in Proc : q \notin {c, p} => proc'[q] = proc[q]
    BY <1>2, <1>4, <1>6, <1>10, <1>11 DEF TypeOK
  <1>13. CoreSplit(core', r, v, {}) /\ CoreSum(core', r, v, {}) = core
    <2>1. CoreBlock(r, v) = {} /\ CoreExec(r, v) = {} /\ CoreTa(v) = {}
      BY <1>6, <1>8 DEF CoreBlock, CoreExec, CoreTa
    <2> QED BY <1>11, <2>1 DEF CoreSplit, CoreSum, Five
  <1> QED BY <1>1, <1>4, <1>6, <1>8, <1>10, <1>11, <1>12, <1>13, BirthKeeps

(* A step of m that changes no text, of which the others take notice.      *)
LEMMA NoticedKeeps ==
    ASSUME IInv, fault = "none", NEW m \in Proc, StandBy(m), SameSched,
           UNCHANGED <<text, ilock, fault, calls>>, run' \in {0} \cup Proc,
           proc' \in [Proc -> ProcSlot], u' \in [Proc -> Locals],
           NEW r \in ProcSlot, NEW v \in Locals, proc'[m] = r, u'[m] = v, RegsOK(m, r, v),
           \A q \in Proc : q # m => StatusOK(q, proc'[q], u'[q]) /\ ~Small(q),
           run = 0 \/ u[run].pc \notin {"attach", "claim", "commit"},
           v.pc \notin {"attach", "claim", "commit"}, ~Execing(v), ~Locking(v), ~r.lock,
           Live(r) => r.size = DBLK, Live(r) => r.load \/ r.text = 0 \/ ~r.ref,
           sched.p = m => sched.pc \notin {"out", "intext", "indata"},
           \A z \in Slot : Tally(r, v, z) = Tally(proc[m], u[m], z) /\ CoreTally(r, v, z) = CoreTally(proc[m], u[m], z),
           CoreSplit(core', r, v, {}), CoreSum(core', r, v, {}) = CoreSum(core, proc[m], u[m], {}),
           SwapSplit(swap', r, v, {}), SwapSum(swap', r, v, {}) = SwapSum(swap, proc[m], u[m], {}),
           FamilyOK' PROVE IInv'
  <1>1. TypeOK /\ Good BY DEF IInv
  <1>2. OthersCore(m, proc', u') /\ OthersSwap(m, proc', u') /\ OthersRefer(m, proc', u')
    BY <1>1, StandOthers DEF Good
  <1>3. /\ sched'.p = sched.p /\ sched'.a = sched.a /\ sched'.ta = sched.ta
        /\ \A l \in {"out", "intext", "indata", "runin"} : sched'.pc = l <=> sched.pc = l
        /\ sched' \in [pc : {"loop", "runin", "runout", "intext", "indata", "out"},
                       p : {0} \cup Proc, a : Nat, ta : Nat] BY <1>1, SameSchedIs
  <1>4. SchedHolds(sched', proc')
    <2>1. CASE sched.pc \in {"out", "intext", "indata"}
      <3>1. sched.p \in Proc /\ Stands(sched.p) BY <1>1, <2>1 DEF Good, SchedOK, TypeOK, StandBy
      <3> QED BY <1>3, <3>1 DEF SchedHolds, Stands, CoreData, CoreCtext, SwapData
    <2>2. CASE sched.pc \notin {"out", "intext", "indata"}
      BY <1>3, <2>2 DEF SchedHolds, CoreData, CoreCtext, SwapData
    <2> QED BY <2>1, <2>2
  <1>5. CoreOK /\ SwapOK /\ CountOK /\ SchedOK BY <1>1 DEF Good
  <1>6. CoreTextAt(text, 0) = {} /\ CoreTextAt(text', 0) = {} /\ SwapTextAt(text, 0) = {} /\ SwapTextAt(text', 0) = {}
    BY ProcFacts DEF CoreTextAt, SwapTextAt
  <1>7. CoreOK'
    <2>1. /\ Five(core', CoreBlock(r, v), CoreExec(r, v), CoreTa(v), {})
          /\ core' \cup CoreBlock(r, v) \cup CoreExec(r, v) \cup CoreTa(v) \cup {}
               = core \cup CoreBlock(proc[m], u[m]) \cup CoreExec(proc[m], u[m]) \cup CoreTa(u[m]) \cup CoreTextAt(text, 0)
      BY <1>6 DEF CoreSplit, CoreSum
    <2>2. CoreBlock(r, v) = CoreBlock(proc'[m], u'[m]) /\ CoreExec(r, v) = CoreExec(proc'[m], u'[m]) /\ CoreTa(v) = CoreTa(u'[m])
      OBVIOUS
    <2>3. \A z \in Slot : z # 0 => CoreText(text'[z]) = CoreText(text[z]) OBVIOUS
    <2> QED BY ONLY <1>2, <1>4, <1>5, <1>6, <2>1, <2>2, <2>3, CoreMoves, m \in Proc
  <1>8. SwapOK'
    <2>1. /\ Five(swap', SwapImage(r, v), SwapStatus(r, v), {}, {})
          /\ swap' \cup SwapImage(r, v) \cup SwapStatus(r, v) \cup {}
               = swap \cup SwapImage(proc[m], u[m]) \cup SwapStatus(proc[m], u[m]) \cup SwapTextAt(text, 0)
      BY <1>6 DEF SwapSplit, SwapSum
    <2>2. SwapImage(r, v) = SwapImage(proc'[m], u'[m]) /\ SwapStatus(r, v) = SwapStatus(proc'[m], u'[m])
      OBVIOUS
    <2>3. \A z \in Slot : z # 0 => SwapText(text'[z]) = SwapText(text[z]) OBVIOUS
    <2> QED BY ONLY <1>2, <1>4, <1>5, <1>6, <2>1, <2>2, <2>3, SwapMoves, m \in Proc
  <1>9. CountOK'
    <2>1. \A z \in Slot : text[z].count \in Nat /\ text[z].ccount \in Nat /\ (text[z].ip # NoProg <=> text[z].count > 0)
      BY <1>1 DEF TypeOK, TextSlot, Good, CountOK
    <2>2. \A z \in Slot :
            /\ text'[z].count + Tally(proc[m], u[m], z) = text[z].count + Tally(r, v, z)
            /\ text'[z].ccount + CoreTally(proc[m], u[m], z) = text[z].ccount + CoreTally(r, v, z)
            /\ text'[z].count \in Nat /\ text'[z].ccount \in Nat
            /\ text'[z].ip # NoProg <=> text'[z].count > 0 BY <2>1
    <2>3. \A z, w \in Slot : text'[z].ip = text'[w].ip /\ text'[z].ip # NoProg => z = w BY <1>5 DEF CountOK
    <2>4. proc'[m] = r /\ u'[m] = v OBVIOUS
    <2> QED BY ONLY <1>2, <1>5, <2>2, <2>3, <2>4, CountMoves, m \in Proc
  <1>10. SchedOK' BY <1>1, <1>5, StandSched
  <1>11. /\ text' \in [Slot -> TextSlot] /\ (\A z \in Slot : text'[z].ip = text[z].ip)
         /\ fault' = "none" /\ UNCHANGED ilock /\ calls' \in 0..MaxCalls
         /\ (\A q \in Proc : u[q].pc \in {"load", "proto"} => text'[u[q].xp] = text[u[q].xp])
    BY <1>1 DEF TypeOK
  <1>12. /\ \A q \in Proc : q # m => StatusOK(q, proc'[q], u'[q])
         /\ \A q \in Proc : q # m => ~Small(q)
         /\ Live(proc'[m]) => proc'[m].size = DBLK \/ Swelled(u'[m])
         /\ u'[m].pc \notin {"attach", "claim", "commit"}
         /\ u'[m] = u[m] \/ ~Execing(u'[m])
         /\ RegsOK(m, proc'[m], u'[m])
         /\ Locking(u'[m]) => proc'[m].load
         /\ \A q \in Proc : q # m => ((sched'.pc = "out" /\ sched'.p = q) <=> (sched.pc = "out" /\ sched.p = q))
         /\ proc'[m].lock <=> Locking(u'[m]) \/ (sched'.pc = "out" /\ sched'.p = m) BY <1>3
  <1> QED BY <1>1, <1>3, <1>7, <1>8, <1>9, <1>10, <1>11, <1>12, StandKeeps

(* The child's image is written and the parent goes on. *)
LEMMA ImagedKeeps ==
    ASSUME IInv, NEW p \in Proc, Imaged(p) PROVE IInv'
  <1>1. At(p, "writing") /\ u[p].for = "image" BY DEF Imaged
  <1>2. /\ TypeOK /\ Good /\ fault = "none"
        /\ proc[p] \in ProcSlot /\ u[p] \in Locals /\ u[p].pc = "writing" /\ run \in {0, p}
        /\ proc[p].stat = "run" /\ proc[p].load /\ proc[p].chan = "none" /\ Alive(p) /\ proc[p].lock
        /\ RegsOK(p, proc[p], u[p])
        /\ (sched.p = p => sched.pc \notin {"out", "intext", "indata"}) BY <1>1, AtFacts DEF Locking
  <1>3. PICK k : k = proc[p].par OBVIOUS
  <1>4. k \in Proc /\ k # p /\ proc[k].stat = "idle" /\ p # 1 /\ proc[k] \in ProcSlot
    BY <1>1, <1>2, <1>3 DEF Good, FamilyOK, TypeOK
  <1>5. proc[p].size = DBLK /\ u[p].da = 0 /\ ~Small(p) BY <1>1, <1>2, NotSmall, NoBlock
  <1>6. PICK r : r = Swapped(proc[p], u[p].a) OBVIOUS
  <1>7. /\ r \in ProcSlot /\ r.addr = u[p].a /\ ~r.load /\ ~r.lock /\ r.size = DBLK /\ r.img = proc[p].img /\ r.stat = "run"
        /\ r.text = proc[p].text /\ r.ref = proc[p].ref /\ r.par = k /\ r.chan = "none"
    BY <1>2, <1>3, <1>5, <1>6 DEF Swapped, ProcSlot, Locals
  <1>8. PICK s : s = [proc[k] EXCEPT !.stat = "run"] OBVIOUS
  <1>9. s \in ProcSlot /\ SlotSame(proc[k], s) /\ s.chan = proc[k].chan /\ s.stat = "run"
    BY <1>4, <1>8 DEF ProcSlot, SlotSame
  <1>10. /\ proc' = [proc EXCEPT ![p] = r, ![k] = s] /\ u' = [u EXCEPT ![p] = Home] /\ run' = 0
         /\ UNCHANGED <<core, swap, text, ilock, fault, calls>> /\ SameSched
    <2>1. proc' = [proc EXCEPT ![p] = r, ![k].stat = "run"] BY <1>3, <1>6 DEF Imaged
    <2>2. proc' = [proc EXCEPT ![p] = r, ![k] = s] BY <1>2, <1>4, <1>8, <2>1 DEF TypeOK
    <2>3. u' = [u EXCEPT ![p] = Home] BY HomeIs DEF Imaged, Goto
    <2> QED BY <2>2, <2>3 DEF Imaged, Runout, SameSched
  <1>11. /\ proc' \in [Proc -> ProcSlot] /\ proc'[p] = r /\ proc'[k] = s
         /\ \A q \in Proc : q \notin {p, k} => proc'[q] = proc[q]
         /\ u' \in [Proc -> Locals] /\ u'[p] = Home /\ \A q \in Proc : q # p => u'[q] = u[q]
    BY <1>2, <1>4, <1>7, <1>9, <1>10, HomeIs DEF TypeOK
  <1>12. ASSUME NEW q \in Proc, q # p PROVE Stands(q) /\ StatusOK(q, proc'[q], u'[q]) /\ ~Small(q)
    <2>1. StatusOK(q, proc[q], u[q]) BY <1>2 DEF Good, LocalOK
    <2>2. ~Small(q) BY <1>2, <1>12 DEF Good, BootOK
    <2>3. CASE q = k
      <3>1. Stands(k) BY <1>4, <1>9, <1>11 DEF Stands, SlotSame, Live
      <3>2. StatusOK(k, proc'[k], u'[k]) BY <1>4, <1>9, <1>11, <2>1, <2>3 DEF SlotSame, StatusOK
      <3> QED BY <2>2, <2>3, <3>1, <3>2
    <2>4. CASE q # k BY <1>11, <1>12, <2>1, <2>2, <2>4 DEF Stands
    <2> QED BY <2>3, <2>4
  <1>13. StandBy(p) BY <1>12 DEF StandBy
  <1>14. RegsOK(p, r, Home)
    BY <1>2, <1>4, <1>7, HomeIs DEF RegsOK, StatusOK, PurposeOK, AttachOK, SizeOK, Saving, Growing, Valve,
      Swelled
  <1>15. r.text = 0 \/ ~r.ref BY <1>2, <1>7 DEF RegsOK, AttachOK
  <1>16. \A z \in Slot : Tally(r, Home, z) = Tally(proc[p], u[p], z) /\ CoreTally(r, Home, z) = CoreTally(proc[p], u[p], z)
    BY <1>1, <1>2, <1>7, TalliesAre, HomeIs DEF Retargeted
  <1>17. CoreSplit(core', r, Home, {}) /\ CoreSum(core', r, Home, {}) = CoreSum(core, proc[p], u[p], {})
    <2>1. /\ CoreBlock(r, Home) = {} /\ CoreExec(r, Home) = {} /\ CoreTa(Home) = {}
          /\ CoreBlock(proc[p], u[p]) = {} /\ CoreExec(proc[p], u[p]) = {} /\ CoreTa(u[p]) = {}
      BY <1>1, <1>2, <1>5, <1>7, HomeIs DEF CoreBlock, CoreExec, CoreTa
    <2> QED BY <1>10, <2>1 DEF CoreSplit, CoreSum, Five
  <1>18. SwapSplit(swap', r, Home, {}) /\ SwapSum(swap', r, Home, {}) = SwapSum(swap, proc[p], u[p], {})
    <2>1. /\ SwapImage(r, Home) = SwapImage(proc[p], u[p]) /\ SwapStatus(r, Home) = SwapStatus(proc[p], u[p])
      BY <1>1, <1>2, <1>7, HomeIs DEF SwapImage, SwapStatus, Live
    <2>2. SwapSplit(swap, proc[p], u[p], SwapTextAt(text, 0)) /\ SwapTextAt(text, 0) = {} BY <1>2, Had
    <2> QED BY <1>10, <2>1, <2>2 DEF SwapSplit, SwapSum
  <1>19. FamilyOK'
    <2>1. /\ \A q \in Proc : /\ proc'[q].par = proc[q].par /\ proc'[q].chan = proc[q].chan
                             /\ proc'[q].stat = "zombie" <=> proc[q].stat = "zombie"
                             /\ proc'[q].stat = "none" <=> proc[q].stat = "none"
                             /\ proc'[q].stat = "idle" <=> proc[q].stat = "idle" /\ q # k
                             /\ Live(proc'[q]) <=> Live(proc[q])
      <3>1. ASSUME NEW q \in Proc
            PROVE  /\ proc'[q].par = proc[q].par /\ proc'[q].chan = proc[q].chan
                   /\ proc'[q].stat = "zombie" <=> proc[q].stat = "zombie"
                   /\ proc'[q].stat = "none" <=> proc[q].stat = "none"
                   /\ proc'[q].stat = "idle" <=> proc[q].stat = "idle" /\ q # k
                   /\ Live(proc'[q]) <=> Live(proc[q])
        <4>1. CASE q = p BY <1>2, <1>3, <1>7, <1>11, <4>1 DEF Live
        <4>2. CASE q = k BY <1>4, <1>9, <1>11, <4>2 DEF SlotSame, Live
        <4>3. CASE q \notin {p, k} BY <1>11, <4>3
        <4> QED BY <4>1, <4>2, <4>3
      <3> QED BY <3>1
    <2>2. \A q \in Proc : Children(q)' = Children(q) /\ Zombies(q)' = Zombies(q)
      BY <2>1 DEF Zombies, Children
    <2>3. \A q \in Proc : u'[q].for = "image" => q # p /\ u[q].for = "image" /\ proc[q].par # k
      BY <1>1, <1>2, <1>3, <1>11, HomeIs DEF Good, FamilyOK
    <2>4. ASSUME NEW q \in Proc
          PROVE  /\ q # 1 /\ proc'[q].stat # "none" => proc'[q].par \in Proc \ {q} /\ Live(proc'[proc'[q].par])
                 /\ proc'[q].chan = "child" => Zombies(q)' = {}
                 /\ u'[q].pc = "wait" => Children(q)' # {}
                 /\ u'[q].pc = "reap" => u'[q].a \in Zombies(q)'
                 /\ u'[q].for = "image" => q # 1 /\ proc'[q].stat # "none" /\ proc'[proc'[q].par].stat = "idle"
                 /\ proc'[q].stat = "idle" => \E z \in Children(q)' : u'[z].for = "image"
      <3>1. /\ q # 1 /\ proc[q].stat # "none" => proc[q].par \in Proc \ {q} /\ Live(proc[proc[q].par])
            /\ proc[q].chan = "child" => Zombies(q) = {}
            /\ u[q].pc = "wait" => Children(q) # {}
            /\ u[q].pc = "reap" => u[q].a \in Zombies(q)
            /\ u[q].for = "image" => q # 1 /\ proc[q].stat # "none" /\ proc[proc[q].par].stat = "idle"
            /\ proc[q].stat = "idle" => \E z \in Children(q) : u[z].for = "image"
        BY <1>2 DEF Good, FamilyOK, Alive
      <3>2. q # p => u'[q] = u[q] BY <1>11
      <3>3. u'[p].pc = "user" /\ u'[p].for = "none" BY <1>11, HomeIs
      <3>4. u'[q].for = "image" => q # 1 /\ proc'[q].stat # "none" /\ proc'[proc'[q].par].stat = "idle"
        BY <2>1, <2>3, <3>1
      <3>5. proc'[q].stat = "idle" => \E z \in Children(q)' : u'[z].for = "image"
        <4>1. ASSUME proc'[q].stat = "idle" PROVE \E z \in Children(q)' : u'[z].for = "image"
          <5>1. proc[q].stat = "idle" /\ q # k BY <2>1, <4>1
          <5>2. PICK z \in Children(q) : u[z].for = "image" BY <3>1, <5>1
          <5>3. z \in Proc /\ z # p BY <1>3, <5>1, <5>2 DEF Children
          <5> QED BY <1>11, <2>2, <5>2, <5>3
        <4> QED BY <4>1
      <3> QED BY <2>1, <2>2, <3>1, <3>2, <3>3, <3>4, <3>5
    <2>5. \A q, z \in Proc : u'[q].for = "image" /\ u'[z].for = "image" /\ proc'[q].par = proc'[z].par => q = z
      BY <1>2, <2>1, <2>3 DEF Good, FamilyOK
    <2> QED BY <2>4, <2>5 DEF FamilyOK, Alive
  <1>20. ~Execing(Home) /\ ~Locking(Home) /\ Home.pc \notin {"attach", "claim", "commit"}
    BY HomeIs DEF Execing, Locking
  <1>21. /\ run = 0 \/ u[run].pc \notin {"attach", "claim", "commit"}
         /\ run' \in {0} \cup Proc /\ UNCHANGED <<text, ilock, fault, calls>>
         /\ \A q \in Proc : q # p => StatusOK(q, proc'[q], u'[q]) /\ ~Small(q) BY <1>2, <1>10, <1>12
  <1>22. PICK v \in Locals : v = Home BY HomeIs
  <1> QED BY <1>2, <1>7, <1>10, <1>11, <1>13, <1>14, <1>15, <1>16, <1>17, <1>18, <1>19, <1>20, <1>21, <1>22, NoticedKeeps

(* exit gives up the core, wakes the parent and init and gives the         *)
(* children to init.                                                       *)
LEMMA DieKeeps ==
    ASSUME IInv, NEW p \in Proc, Die(p) PROVE IInv'
  <1>1. At(p, "die") BY DEF Die
  <1>2. /\ TypeOK /\ Good /\ fault = "none"
        /\ proc[p] \in ProcSlot /\ u[p] \in Locals /\ u[p].pc = "die" /\ run \in {0, p}
        /\ proc[p].stat = "run" /\ proc[p].load /\ proc[p].chan = "none" /\ Alive(p) /\ ~proc[p].lock
        /\ RegsOK(p, proc[p], u[p])
        /\ (sched.p = p => sched.pc \notin {"out", "intext", "indata"}) BY <1>1, AtFacts DEF Locking
  <1>3. PICK k : k = proc[p].par OBVIOUS
  <1>4. p # 1 /\ k \in Proc /\ k # p /\ 1 \in Proc /\ Alive(1) /\ Alive(k)
    BY <1>2, <1>3, ProcFacts DEF RegsOK, StatusOK, Good, FamilyOK, LocalOK, Alive, Live
  <1>5. proc[p].size = DBLK /\ u[p].da = 0 /\ ~Small(p) /\ proc[p].text = 0 /\ u[p].for \notin {"image", "valve"}
    BY <1>1, <1>2, NotSmall, NoBlock DEF RegsOK, AttachOK, PurposeOK, Saving
  <1>6. PICK r : r = [proc[p] EXCEPT !.stat = "zombie", !.addr = u[p].a] OBVIOUS
  <1>7. /\ r \in ProcSlot /\ r.addr = u[p].a /\ r.load /\ ~r.lock /\ r.size = DBLK /\ r.img = proc[p].img /\ r.stat = "zombie"
        /\ r.text = 0 /\ r.ref = proc[p].ref /\ r.par = k /\ r.chan = "none"
    BY <1>2, <1>3, <1>5, <1>6 DEF ProcSlot, Locals
  <1>8. PICK P : P = [proc EXCEPT ![p] = r] OBVIOUS
  <1>9. /\ P \in [Proc -> ProcSlot] /\ P[p] = r /\ \A q \in Proc : q # p => P[q] = proc[q]
    BY <1>2, <1>7, <1>8 DEF TypeOK
  <1>10. /\ proc' = Orphaned(Notified(P, p), p) /\ u' = [u EXCEPT ![p] = Home] /\ run' = 0
         /\ core' = core \cup Block(p) /\ UNCHANGED <<swap, text, ilock, fault, calls>> /\ SameSched
    <2>1. P = [proc EXCEPT ![p].stat = "zombie", ![p].addr = u[p].a] BY <1>2, <1>6, <1>8 DEF TypeOK
    <2>2. u' = [u EXCEPT ![p] = Home] BY HomeIs DEF Die, Goto
    <2> QED BY <2>1, <2>2 DEF Die, Runout, SameSched
  <1>11. PICK N : N = Notified(P, p) OBVIOUS
  <1>12. /\ N \in [Proc -> ProcSlot] /\ N[p] = r
         /\ \A q \in Proc : q # p => N[q] = (IF q \in {1, k} /\ proc[q].chan = "child" THEN Runnable(proc[q]) ELSE proc[q])
    <2>1. \A q \in Proc : N[q] = IF q \in {1, k} /\ P[q].chan = "child" THEN Runnable(P[q]) ELSE P[q]
      BY <1>7, <1>9, <1>11 DEF Notified
    <2>2. \A q \in Proc : Runnable(P[q]) \in ProcSlot BY <1>9, RunnableIs
    <2>3. N \in [Proc -> ProcSlot] BY <1>9, <1>11, <2>1, <2>2 DEF Notified
    <2> QED BY <1>7, <1>9, <2>1, <2>3
  <1>13. \A q \in Proc : q # p => /\ N[q].load = proc[q].load /\ N[q].lock = proc[q].lock /\ N[q].addr = proc[q].addr
                                  /\ N[q].size = proc[q].size /\ N[q].img = proc[q].img /\ N[q].text = proc[q].text
                                  /\ N[q].ref = proc[q].ref /\ N[q].par = proc[q].par
                                  /\ \/ N[q].stat = proc[q].stat /\ N[q].chan = proc[q].chan
                                     \/ /\ q \in {1, k} /\ proc[q].chan = "child"
                                        /\ N[q].stat = "run" /\ N[q].chan = "none"
                                  /\ q \in {1, k} => N[q].chan # "child"
    <2>1. \A q \in Proc : Runnable(proc[q]).stat = "run" /\ Runnable(proc[q]).chan = "none" /\ SlotSame(proc[q], Runnable(proc[q]))
      BY <1>2, RunnableIs DEF TypeOK
    <2> QED BY <1>12, <2>1 DEF SlotSame
  <1>14. /\ proc' \in [Proc -> ProcSlot] /\ proc'[p] = r
         /\ \A q \in Proc : /\ q # p => /\ proc'[q].load = N[q].load /\ proc'[q].lock = N[q].lock /\ proc'[q].addr = N[q].addr
                                        /\ proc'[q].size = N[q].size /\ proc'[q].img = N[q].img /\ proc'[q].text = N[q].text
                                        /\ proc'[q].ref = N[q].ref /\ proc'[q].stat = N[q].stat /\ proc'[q].chan = N[q].chan
                                        /\ proc'[q].par = IF proc[q].par = p THEN 1 ELSE proc[q].par
    <2>1. proc' = [q \in Proc |-> IF N[q].par = p THEN [N[q] EXCEPT !.par = 1] ELSE N[q]]
      BY <1>10, <1>11 DEF Orphaned
    <2>2. \A q \in Proc : /\ [N[q] EXCEPT !.par = 1] \in ProcSlot BY <1>4, <1>12 DEF ProcSlot
    <2>3. proc' \in [Proc -> ProcSlot] BY <1>12, <2>1, <2>2
    <2>4. proc'[p] = r BY <1>4, <1>7, <1>12, <2>1
    <2>5. ASSUME NEW q \in Proc, q # p
          PROVE  /\ proc'[q].load = N[q].load /\ proc'[q].lock = N[q].lock /\ proc'[q].addr = N[q].addr
                 /\ proc'[q].size = N[q].size /\ proc'[q].img = N[q].img /\ proc'[q].text = N[q].text
                 /\ proc'[q].ref = N[q].ref /\ proc'[q].stat = N[q].stat /\ proc'[q].chan = N[q].chan
                 /\ proc'[q].par = IF proc[q].par = p THEN 1 ELSE proc[q].par
      <3>1. N[q] \in ProcSlot /\ N[q].par = proc[q].par BY <1>12, <1>13, <2>5
      <3>2. proc'[q] = IF proc[q].par = p THEN [N[q] EXCEPT !.par = 1] ELSE N[q] BY <2>1, <3>1
      <3> QED BY <3>1, <3>2 DEF ProcSlot
    <2> QED BY <2>3, <2>4, <2>5
  <1>15. u' \in [Proc -> Locals] /\ u'[p] = Home /\ \A q \in Proc : q # p => u'[q] = u[q]
    BY <1>2, <1>10, HomeIs DEF TypeOK
  <1>16. ASSUME NEW q \in Proc, q # p PROVE Stands(q) /\ StatusOK(q, proc'[q], u'[q]) /\ ~Small(q)
    <2>1. StatusOK(q, proc[q], u[q]) BY <1>2 DEF Good, LocalOK
    <2>2. ~Small(q) BY <1>2, <1>16 DEF Good, BootOK
    <2>3. CASE proc'[q].stat = proc[q].stat /\ proc'[q].chan = proc[q].chan
      <3>1. Stands(q) BY <1>13, <1>14, <1>15, <1>16, <2>3 DEF Stands, Live
      <3>2. StatusOK(q, proc'[q], u'[q])
        <4>1. CASE proc[q].stat = "none"
          <5>1. proc[q] = Free /\ u[q] = Home BY <2>1, <4>1 DEF StatusOK
          <5>2. q \notin {1, k} /\ proc[q].par # p BY <1>4, <4>1, <5>1, FreeIs, ProcFacts DEF Alive, Live
          <5>3. proc' = [z \in Proc |-> IF N[z].par = p THEN [N[z] EXCEPT !.par = 1] ELSE N[z]]
            BY <1>10, <1>11 DEF Orphaned
          <5>4. proc'[q] = proc[q] BY <1>12, <1>16, <5>2, <5>3
          <5> QED BY <1>15, <1>16, <2>1, <5>4
        <4>2. CASE proc[q].stat # "none" BY <1>13, <1>14, <1>15, <1>16, <2>1, <2>3, <4>2 DEF StatusOK
        <4> QED BY <4>1, <4>2
      <3> QED BY <2>2, <3>1, <3>2
    <2>4. CASE proc[q].chan = "child" /\ proc'[q].stat = "run" /\ proc'[q].chan = "none"
      <3>1. proc[q].stat = "wait" /\ u[q].pc = "wait" BY <2>1, <2>4 DEF StatusOK
      <3> QED BY <1>13, <1>14, <1>15, <1>16, <2>1, <2>2, <2>4, <3>1 DEF Stands, Live, StatusOK
    <2> QED BY <1>13, <1>14, <1>16, <2>3, <2>4
  <1>17. StandBy(p) BY <1>16 DEF StandBy
  <1>18. RegsOK(p, r, Home)
    BY <1>2, <1>4, <1>7, HomeIs DEF RegsOK, StatusOK, PurposeOK, AttachOK, SizeOK, Saving, Growing, Valve,
      Swelled
  <1>19. \A z \in Slot : Tally(r, Home, z) = Tally(proc[p], u[p], z) /\ CoreTally(r, Home, z) = CoreTally(proc[p], u[p], z)
    BY <1>1, <1>2, <1>5, <1>7, TalliesAre, HomeIs, ProcFacts DEF Retargeted
  <1>20. CoreSplit(core', r, Home, {}) /\ CoreSum(core', r, Home, {}) = CoreSum(core, proc[p], u[p], {})
    <2>1. /\ CoreBlock(r, Home) = {} /\ CoreExec(r, Home) = {} /\ CoreTa(Home) = {}
          /\ CoreBlock(proc[p], u[p]) = Block(p) /\ CoreExec(proc[p], u[p]) = {} /\ CoreTa(u[p]) = {}
      BY <1>1, <1>2, <1>5, <1>7, HomeIs DEF CoreBlock, CoreExec, CoreTa, Live, Block
    <2> QED BY <1>10, <2>1 DEF CoreSplit, CoreSum, Five
  <1>21. SwapSplit(swap', r, Home, {}) /\ SwapSum(swap', r, Home, {}) = SwapSum(swap, proc[p], u[p], {})
    <2>1. /\ SwapImage(r, Home) = SwapImage(proc[p], u[p]) /\ SwapStatus(r, Home) = SwapStatus(proc[p], u[p])
      BY <1>1, <1>2, <1>7, HomeIs DEF SwapImage, SwapStatus, Live
    <2>2. SwapSplit(swap, proc[p], u[p], SwapTextAt(text, 0)) /\ SwapTextAt(text, 0) = {} BY <1>2, Had
    <2> QED BY <1>10, <2>1, <2>2 DEF SwapSplit, SwapSum
  <1>22. FamilyOK'
    <2>1. \A q \in Proc : /\ q # p => /\ proc'[q].stat = "zombie" <=> proc[q].stat = "zombie"
                                      /\ Live(proc'[q]) <=> Live(proc[q])
                                      /\ proc'[q].stat = "none" <=> proc[q].stat = "none"
      BY <1>16 DEF Stands, Live
    <2>2. \A q \in Proc : q # p => (proc'[q].stat = "idle" <=> proc[q].stat = "idle")
      <3>1. \A q \in Proc : proc[q].chan = "child" => proc[q].stat # "idle"
        BY <1>2 DEF Good, LocalOK, StatusOK
      <3> QED BY <1>13, <1>14, <3>1
    <2>3. \A q \in Proc : /\ q # p => proc'[q].par = (IF proc[q].par = p THEN 1 ELSE proc[q].par)
                          /\ proc'[p].par = k /\ proc'[p].stat = "zombie" BY <1>7, <1>14
    <2>4. \A q \in Proc : u'[q].for = "image" => q # p /\ u[q].for = "image" /\ proc[q].par # p
      BY <1>2, <1>15, HomeIs DEF Good, FamilyOK
    <2>5. ASSUME NEW q \in Proc
          PROVE  /\ q # 1 /\ proc[q].stat # "none" => proc[q].par \in Proc \ {q} /\ Live(proc[proc[q].par])
                 /\ proc[q].chan = "child" => Zombies(q) = {}
                 /\ u[q].pc = "wait" => Children(q) # {}
                 /\ u[q].pc = "reap" => u[q].a \in Zombies(q)
                 /\ u[q].for = "image" => q # 1 /\ proc[q].stat # "none" /\ proc[proc[q].par].stat = "idle"
                 /\ proc[q].stat = "idle" => \E z \in Children(q) : u[z].for = "image"
      BY <1>2 DEF Good, FamilyOK, Alive
    <2>6. ASSUME NEW q \in Proc
          PROVE  /\ q # 1 /\ proc'[q].stat # "none" => proc'[q].par \in Proc \ {q} /\ Live(proc'[proc'[q].par])
                 /\ proc'[q].chan = "child" => Zombies(q)' = {}
                 /\ u'[q].pc = "wait" => Children(q)' # {}
                 /\ u'[q].pc = "reap" => u'[q].a \in Zombies(q)'
                 /\ u'[q].for = "image" => q # 1 /\ proc'[q].stat # "none" /\ proc'[proc'[q].par].stat = "idle"
                 /\ proc'[q].stat = "idle" => \E z \in Children(q)' : u'[z].for = "image"
      <3>1. q # 1 /\ proc'[q].stat # "none" => proc'[q].par \in Proc \ {q} /\ Live(proc'[proc'[q].par])
        <4>1. Live(proc'[1]) /\ Live(proc'[k]) BY <1>4, <2>1 DEF Alive
        <4>2. CASE q = p BY <1>4, <2>3, <4>1, <4>2
        <4>3. CASE q # p BY <1>4, <2>1, <2>3, <2>5, <4>1, <4>3
        <4> QED BY <4>2, <4>3
      <3>2. CASE q = p BY <1>7, <1>14, <1>15, <3>1, <3>2, HomeIs
      <3>3. CASE q # p
        <4>1. proc'[q].chan = "child" => Zombies(q)' = {}
          <5>1. ASSUME proc'[q].chan = "child", NEW z \in Zombies(q)' PROVE FALSE
            <6>1. q \notin {1, k} /\ proc[q].chan = "child" BY <1>13, <1>14, <3>3, <5>1
            <6>2. z \in Proc /\ proc'[z].stat = "zombie" /\ proc'[z].par = q BY <5>1 DEF Zombies, Children
            <6>3. z # p /\ proc[z].par = q /\ proc[z].stat = "zombie" BY <2>1, <2>3, <6>1, <6>2
            <6>4. z \in Zombies(q) BY <6>2, <6>3 DEF Zombies, Children
            <6> QED BY <2>5, <6>1, <6>4
          <5> QED BY <5>1
        <4>2. u'[q].pc = "wait" => Children(q)' # {}
          <5>1. ASSUME u'[q].pc = "wait" PROVE Children(q)' # {}
            <6>1. PICK z : z \in Children(q) BY <1>15, <2>5, <3>3, <5>1
            <6>2. z \in Proc /\ proc[z].par = q /\ proc[z].stat # "none" BY <6>1 DEF Children
            <6>3. proc'[z].par = q /\ proc'[z].stat # "none" BY <1>3, <2>1, <2>3, <3>3, <6>2
            <6> QED BY <6>2, <6>3 DEF Children
          <5> QED BY <5>1
        <4>3. u'[q].pc = "reap" => u'[q].a \in Zombies(q)'
          <5>1. ASSUME u'[q].pc = "reap" PROVE u'[q].a \in Zombies(q)'
            <6>1. PICK z : z = u[q].a OBVIOUS
            <6>2. z \in Zombies(q) /\ u'[q].a = z BY <1>15, <2>5, <3>3, <5>1, <6>1
            <6>3. z \in Proc /\ proc[z].par = q /\ proc[z].stat = "zombie" /\ z # p
              BY <1>2, <6>2 DEF Zombies, Children
            <6>4. proc'[z].par = q /\ proc'[z].stat = "zombie" BY <2>1, <2>3, <3>3, <6>3
            <6> QED BY <6>2, <6>3, <6>4 DEF Zombies, Children
          <5> QED BY <5>1
        <4>4. u'[q].for = "image" => q # 1 /\ proc'[q].stat # "none" /\ proc'[proc'[q].par].stat = "idle"
          BY <2>1, <2>2, <2>3, <2>4, <2>5
        <4>5. proc'[q].stat = "idle" => \E z \in Children(q)' : u'[z].for = "image"
          <5>1. ASSUME proc'[q].stat = "idle" PROVE \E z \in Children(q)' : u'[z].for = "image"
            <6>1. PICK z \in Children(q) : u[z].for = "image" BY <2>2, <2>5, <3>3, <5>1
            <6>2. z \in Proc /\ z # p /\ proc[z].par = q /\ proc[z].stat # "none" BY <1>5, <6>1 DEF Children
            <6>3. z \in Children(q)' BY <2>1, <2>3, <3>3, <6>2 DEF Children
            <6> QED BY <1>15, <6>1, <6>2, <6>3
          <5> QED BY <5>1
        <4> QED BY <3>1, <4>1, <4>2, <4>3, <4>4, <4>5
      <3> QED BY <3>2, <3>3
    <2>7. \A q, z \in Proc : u'[q].for = "image" /\ u'[z].for = "image" /\ proc'[q].par = proc'[z].par => q = z
      BY <1>2, <2>3, <2>4 DEF Good, FamilyOK
    <2> QED BY <2>6, <2>7 DEF FamilyOK, Alive
  <1>23. ~Execing(Home) /\ ~Locking(Home) /\ Home.pc \notin {"attach", "claim", "commit"} /\ ~Live(r)
    BY <1>7, HomeIs DEF Execing, Locking, Live
  <1>24. /\ run = 0 \/ u[run].pc \notin {"attach", "claim", "commit"}
         /\ run' \in {0} \cup Proc /\ UNCHANGED <<text, ilock, fault, calls>>
         /\ \A q \in Proc : q # p => StatusOK(q, proc'[q], u'[q]) /\ ~Small(q) BY <1>2, <1>10, <1>16
  <1>25. PICK v \in Locals : v = Home BY HomeIs
  <1>26. /\ RegsOK(p, r, v) /\ u'[p] = v /\ v.pc \notin {"attach", "claim", "commit"} /\ ~Execing(v) /\ ~Locking(v)
         /\ \A z \in Slot : Tally(r, v, z) = Tally(proc[p], u[p], z) /\ CoreTally(r, v, z) = CoreTally(proc[p], u[p], z)
         /\ CoreSplit(core', r, v, {}) /\ CoreSum(core', r, v, {}) = CoreSum(core, proc[p], u[p], {})
         /\ SwapSplit(swap', r, v, {}) /\ SwapSum(swap', r, v, {}) = SwapSum(swap, proc[p], u[p], {})
    BY ONLY <1>15, <1>18, <1>19, <1>20, <1>21, <1>23, <1>25
  <1>27. /\ r \in ProcSlot /\ proc' \in [Proc -> ProcSlot] /\ proc'[p] = r /\ ~r.lock /\ ~Live(r) /\ SameSched
         /\ u' \in [Proc -> Locals] /\ fault = "none" /\ (sched.p = p => sched.pc \notin {"out", "intext", "indata"})
    BY <1>2, <1>7, <1>10, <1>14, <1>15, <1>23
  <1> QED BY ONLY IInv, p \in Proc, <1>17, <1>22, <1>24, <1>25, <1>26, <1>27, NoticedKeeps

(* wait frees the zombie's slot and sector. *)
LEMMA ReapKeeps ==
    ASSUME IInv, NEW p \in Proc, Reap(p) PROVE IInv'
  <1>1. At(p, "reap") BY DEF Reap
  <1>2. /\ TypeOK /\ Good /\ fault = "none"
        /\ proc[p] \in ProcSlot /\ u[p] \in Locals /\ u[p].pc = "reap" /\ run \in {0, p}
        /\ proc[p].stat = "run" /\ proc[p].chan = "none" /\ Alive(p) BY <1>1, AtFacts
  <1>3. PICK z : z = u[p].a OBVIOUS
  <1>4. z \in Proc /\ proc[z].par = p /\ proc[z].stat = "zombie" /\ z # p
    BY <1>2, <1>3 DEF Good, FamilyOK, Zombies, Children
  <1>5. u[z] = Home /\ proc[z].text = 0 /\ z # 1 /\ proc[z] \in ProcSlot
    BY <1>2, <1>4 DEF Good, LocalOK, StatusOK, TypeOK
  <1>6. /\ proc' = [proc EXCEPT ![z] = Free] /\ u' = [u EXCEPT ![p] = Home] /\ run' = 0
        /\ swap' = swap \cup {proc[z].addr} /\ UNCHANGED <<core, text, ilock, sched, fault, calls>>
    BY <1>3, HomeIs DEF Reap, Goto
  <1>7. /\ proc' \in [Proc -> ProcSlot] /\ proc'[z] = Free /\ \A q \in Proc : q # z => proc'[q] = proc[q]
        /\ u' \in [Proc -> Locals] /\ u'[p] = Home /\ u'[z] = Home /\ \A q \in Proc : q # p => u'[q] = u[q]
    BY <1>2, <1>4, <1>5, <1>6, FreeIs, HomeIs DEF TypeOK
  <1>8. ASSUME NEW q \in Proc, q # z PROVE Stands(q) /\ StatusOK(q, proc'[q], u'[q]) /\ ~Small(q)
    <2>1. StatusOK(q, proc[q], u[q]) BY <1>2 DEF Good, LocalOK
    <2>2. ~Small(q) BY <1>2, <1>4, <1>8 DEF Good, BootOK
    <2>3. CASE q = p BY <1>2, <1>7, <1>8, <2>1, <2>2, <2>3, HomeIs DEF Stands, StatusOK
    <2>4. CASE q # p BY <1>7, <1>8, <2>1, <2>2, <2>4 DEF Stands
    <2> QED BY <2>3, <2>4
  <1>9. StandBy(z) BY <1>8 DEF StandBy
  <1>10. RegsOK(z, Free, Home)
    BY <1>5, FreeIs, HomeIs DEF RegsOK, StatusOK, PurposeOK, AttachOK, SizeOK, Saving, Growing, Valve, Swelled
  <1>11. \A x \in Slot : Tally(Free, Home, x) = Tally(proc[z], u[z], x) /\ CoreTally(Free, Home, x) = CoreTally(proc[z], u[z], x)
    BY <1>5, FreeIs, TalliesAre, HomeIs, ProcFacts DEF Retargeted
  <1>12. CoreSplit(core', Free, Home, {}) /\ CoreSum(core', Free, Home, {}) = CoreSum(core, proc[z], u[z], {})
    <2>1. /\ CoreBlock(Free, Home) = {} /\ CoreExec(Free, Home) = {} /\ CoreTa(Home) = {}
          /\ CoreBlock(proc[z], u[z]) = {} /\ CoreExec(proc[z], u[z]) = {}
      BY <1>4, <1>5, FreeIs, HomeIs DEF CoreBlock, CoreExec, CoreTa, Live
    <2> QED BY <1>5, <1>6, <2>1 DEF CoreSplit, CoreSum, Five
  <1>13. SwapSplit(swap', Free, Home, {}) /\ SwapSum(swap', Free, Home, {}) = SwapSum(swap, proc[z], u[z], {})
    <2>1. /\ SwapImage(Free, Home) = {} /\ SwapStatus(Free, Home) = {}
          /\ SwapImage(proc[z], u[z]) = {} /\ SwapStatus(proc[z], u[z]) = {proc[z].addr}
      BY <1>4, <1>5, FreeIs, HomeIs DEF SwapImage, SwapStatus, Live
    <2> QED BY <1>6, <2>1 DEF SwapSplit, SwapSum, Five
  <1>14. FamilyOK'
    <2>1. ASSUME NEW q \in Proc
          PROVE  /\ q # 1 /\ proc[q].stat # "none" => proc[q].par \in Proc \ {q} /\ Live(proc[proc[q].par])
                 /\ proc[q].chan = "child" => Zombies(q) = {}
                 /\ u[q].pc = "wait" => Children(q) # {}
                 /\ u[q].pc = "reap" => u[q].a \in Zombies(q)
                 /\ u[q].for = "image" => q # 1 /\ proc[q].stat # "none" /\ proc[proc[q].par].stat = "idle"
                 /\ proc[q].stat = "idle" => \E c \in Children(q) : u[c].for = "image"
      BY <1>2 DEF Good, FamilyOK, Alive
    <2>2. ~Live(proc[z]) /\ proc[z].stat # "idle" BY <1>4 DEF Live
    <2>3. \A q \in Proc : q # 1 /\ proc[q].stat # "none" => proc[q].par # z BY <2>1, <2>2
    <2>4. Free.stat = "none" /\ Free.chan = "none" BY FreeIs
    <2>5. \A q \in Proc : Children(q)' = Children(q) \ {z} /\ Zombies(q)' = Zombies(q) \ {z}
      BY <1>7, <2>4 DEF Zombies, Children
    <2>6. \A q \in Proc : q # p => z \notin Children(q) /\ z \notin Zombies(q) BY <1>4 DEF Zombies, Children
    <2>7. \A q \in Proc : u'[q].for = "image" => q \notin {p, z} /\ u[q].for = "image" BY <1>7, HomeIs
    <2>8. ASSUME NEW q \in Proc
          PROVE  /\ q # 1 /\ proc'[q].stat # "none" => proc'[q].par \in Proc \ {q} /\ Live(proc'[proc'[q].par])
                 /\ proc'[q].chan = "child" => Zombies(q)' = {}
                 /\ u'[q].pc = "wait" => Children(q)' # {}
                 /\ u'[q].pc = "reap" => u'[q].a \in Zombies(q)'
                 /\ u'[q].for = "image" => q # 1 /\ proc'[q].stat # "none" /\ proc'[proc'[q].par].stat = "idle"
                 /\ proc'[q].stat = "idle" => \E c \in Children(q)' : u'[c].for = "image"
      <3>1. CASE q = z BY <1>7, <2>4, <3>1, HomeIs
      <3>2. CASE q = p
        <4>1. u'[p].pc = "user" /\ u'[p].for = "none" /\ proc'[p] = proc[p] BY <1>4, <1>7, HomeIs
        <4> QED BY <1>2, <1>7, <2>1, <2>3, <3>2, <4>1
      <3>3. CASE q \notin {p, z}
        <4>1. proc'[q] = proc[q] /\ u'[q] = u[q] /\ Children(q)' = Children(q) /\ Zombies(q)' = Zombies(q)
          BY <1>7, <2>5, <2>6, <3>3
        <4>2. proc'[q].stat = "idle" => \E c \in Children(q)' : u'[c].for = "image"
          <5>1. ASSUME proc[q].stat = "idle" PROVE \E c \in Children(q)' : u'[c].for = "image"
            <6>1. PICK c \in Children(q) : u[c].for = "image" BY <2>1, <5>1
            <6>2. c \in Proc /\ c # p BY <1>2, <6>1 DEF Children, Good, LocalOK, PurposeOK
            <6> QED BY <1>7, <4>1, <6>1, <6>2
          <5> QED BY <4>1, <5>1
        <4>3. u'[q].for = "image" => q # 1 /\ proc'[q].stat # "none" /\ proc'[proc'[q].par].stat = "idle"
          <5>1. ASSUME u[q].for = "image" PROVE q # 1 /\ proc[q].stat # "none" /\ proc'[proc[q].par].stat = "idle"
            BY <1>7, <2>1, <2>3, <5>1
          <5> QED BY <4>1, <5>1
        <4>4. q # 1 /\ proc'[q].stat # "none" => proc'[q].par \in Proc \ {q} /\ Live(proc'[proc'[q].par])
          BY <1>7, <2>1, <2>3, <4>1
        <4> QED BY <2>1, <4>1, <4>2, <4>3, <4>4
      <3> QED BY <3>1, <3>2, <3>3
    <2>9. \A q, c \in Proc : u'[q].for = "image" /\ u'[c].for = "image" /\ proc'[q].par = proc'[c].par => q = c
      BY <1>2, <1>7, <2>7 DEF Good, FamilyOK
    <2> QED BY <2>8, <2>9 DEF FamilyOK, Alive
  <1>15. ~Execing(Home) /\ ~Locking(Home) /\ Home.pc \notin {"attach", "claim", "commit"} /\ ~Live(Free)
    BY FreeIs, HomeIs DEF Execing, Locking, Live
  <1>16. sched.p = z => sched.pc \notin {"out", "intext", "indata"}
    BY <1>2, <1>4 DEF Good, SchedOK, Alive, Live
  <1>17. /\ run = 0 \/ u[run].pc \notin {"attach", "claim", "commit"}
         /\ run' \in {0} \cup Proc /\ UNCHANGED <<text, ilock, fault, calls>> /\ SameSched
         /\ \A q \in Proc : q # z => StatusOK(q, proc'[q], u'[q]) /\ ~Small(q)
    BY <1>2, <1>6, <1>8 DEF SameSched
  <1>18. PICK v \in Locals : v = Home BY HomeIs
  <1>19. PICK r \in ProcSlot : r = Free /\ ~r.lock BY FreeIs
  <1> QED BY <1>2, <1>4, <1>7, <1>9, <1>10, <1>11, <1>12, <1>13, <1>14, <1>15, <1>16, <1>17, <1>18, <1>19, NoticedKeeps

----
(* Steps of the swapper.                                                   *)

(* Nothing of a family changes when processes are woken or swapped.        *)
LEMMA FamilyStays ==
    ASSUME FamilyOK, UNCHANGED u,
           \A q \in Proc : /\ proc'[q].par = proc[q].par
                           /\ proc'[q].stat = "none" <=> proc[q].stat = "none"
                           /\ proc'[q].stat = "zombie" <=> proc[q].stat = "zombie"
                           /\ proc'[q].stat = "idle" <=> proc[q].stat = "idle"
                           /\ proc'[q].chan = "child" => proc[q].chan = "child"
    PROVE  FamilyOK'
  <1>1. \A q \in Proc : Children(q)' = Children(q) /\ Zombies(q)' = Zombies(q) /\ (Live(proc'[q]) <=> Live(proc[q]))
    BY DEF Zombies, Children, Live
  <1>2. ASSUME NEW q \in Proc
        PROVE  /\ q # 1 /\ proc[q].stat # "none" => proc[q].par \in Proc \ {q} /\ Live(proc[proc[q].par])
               /\ proc[q].chan = "child" => Zombies(q) = {}
               /\ u[q].pc = "wait" => Children(q) # {}
               /\ u[q].pc = "reap" => u[q].a \in Zombies(q)
               /\ u[q].for = "image" => q # 1 /\ proc[q].stat # "none" /\ proc[proc[q].par].stat = "idle"
               /\ proc[q].stat = "idle" => \E c \in Children(q) : u[c].for = "image" BY DEF FamilyOK, Alive
  <1>3. ASSUME NEW q \in Proc
        PROVE  /\ q # 1 /\ proc'[q].stat # "none" => proc'[q].par \in Proc \ {q} /\ Live(proc'[proc'[q].par])
               /\ proc'[q].chan = "child" => Zombies(q)' = {}
               /\ u'[q].pc = "wait" => Children(q)' # {}
               /\ u'[q].pc = "reap" => u'[q].a \in Zombies(q)'
               /\ u'[q].for = "image" => q # 1 /\ proc'[q].stat # "none" /\ proc'[proc'[q].par].stat = "idle"
               /\ proc'[q].stat = "idle" => \E c \in Children(q)' : u'[c].for = "image" BY <1>1, <1>2
  <1>4. \A q, z \in Proc : u'[q].for = "image" /\ u'[z].for = "image" /\ proc'[q].par = proc'[z].par => q = z
    BY DEF FamilyOK
  <1> QED BY <1>3, <1>4 DEF FamilyOK, Alive

(* What the swapper, the process m it moves and its text have.             *)
SwapperSplit(c, B, X, s, n) == Five(c, B, X, CoreData(s, n), CoreCtext(s))
SwapperSum(c, B, X, s, n)   == c \cup B \cup X \cup CoreData(s, n) \cup CoreCtext(s)

(* They have no unit in common. *)
LEMMA SwapperHas ==
    ASSUME CoreOK, SwapOK, NEW m \in Proc, NEW y
    PROVE  /\ SwapperSplit(core, CoreBlock(proc[m], u[m]), CoreTextAt(text, y), sched, proc[sched.p].size)
           /\ Five(swap, SwapImage(proc[m], u[m]), SwapData(sched, proc[sched.p].img), {}, {})
  <1>1. /\ {<<"block", m>>, <<"data", 0>>, <<"ctext", 0>>} \subseteq Holders
        /\ <<"block", m>> # <<"data", 0>> /\ <<"block", m>> # <<"ctext", 0>> /\ <<"data", 0>> # <<"ctext", 0>>
        /\ <<"text", y>> \notin {<<"block", m>>, <<"data", 0>>, <<"ctext", 0>>}
        /\ y \in Slot => <<"text", y>> \in Holders BY HolderIs
  <1>2. /\ CoreOf[<<"block", m>>] = CoreBlock(proc[m], u[m]) /\ CoreOf[<<"data", 0>>] = CoreData(sched, proc[sched.p].size)
        /\ CoreOf[<<"ctext", 0>>] = CoreCtext(sched)
        /\ y \in Slot => CoreOf[<<"text", y>>] = CoreTextAt(text, y)
        /\ y \notin Slot => CoreTextAt(text, y) = {} BY CoreAt DEF CoreTextAt
  <1>3. SwapOf[<<"block", m>>] = SwapImage(proc[m], u[m]) /\ SwapOf[<<"data", 0>>] = SwapData(sched, proc[sched.p].img)
    BY SwapAt
  <1>4. Apart(1..NCORE, core, CoreOf) /\ Apart(1..NSWAP, swap, SwapOf) BY DEF CoreOK, SwapOK
  <1>5. SwapperSplit(core, CoreBlock(proc[m], u[m]), CoreTextAt(text, y), sched, proc[sched.p].size)
    <2>1. CASE y \in Slot BY <1>1, <1>2, <1>4, <2>1 DEF Apart, SwapperSplit, Five
    <2>2. CASE y \notin Slot BY <1>1, <1>2, <1>4, <2>2 DEF Apart, SwapperSplit, Five
    <2> QED BY <2>1, <2>2
  <1>6. Five(swap, SwapImage(proc[m], u[m]), SwapData(sched, proc[sched.p].img), {}, {})
    BY <1>1, <1>3, <1>4 DEF Apart, Five
  <1> QED BY <1>5, <1>6

(* Core dealt out again among the swapper, m, a text y and the free list   *)
(* is still divided.                                                       *)
LEMMA SwapperCore ==
    ASSUME CoreOK, NEW m \in Proc, NEW y, OthersCore(m, proc', u'),
           CoreExec(proc'[m], u'[m]) = CoreExec(proc[m], u[m]), CoreTa(u'[m]) = CoreTa(u[m]),
           \A x \in Slot : x # y => CoreText(text'[x]) = CoreText(text[x]),
           NEW B, NEW X, NEW n, NEW s, s = sched', n = proc'[sched'.p].size,
           B = CoreBlock(proc'[m], u'[m]), X = CoreTextAt(text', y),
           SwapperSplit(core', B, X, s, n),
           SwapperSum(core', B, X, s, n)
             = SwapperSum(core, CoreBlock(proc[m], u[m]), CoreTextAt(text, y), sched, proc[sched.p].size)
    PROVE  CoreOK'
  <1> DEFINE b == <<"block", m>>
             d == <<"data", 0>>
             t == <<"ctext", 0>>
             x == <<"text", y>>
             M == {b, d, t} \cup (IF y \in Slot THEN {x} ELSE {})
  <1>1. {b, d, t} \subseteq Holders /\ b # d /\ b # t /\ d # t /\ x \notin {b, d, t} /\ (y \in Slot => x \in Holders)
    BY HolderIs
  <1>2. /\ CoreOf[b] = CoreBlock(proc[m], u[m]) /\ CoreOf[d] = CoreData(sched, proc[sched.p].size)
        /\ CoreOf[t] = CoreCtext(sched) /\ (y \in Slot => CoreOf[x] = CoreTextAt(text, y))
    BY CoreAt DEF CoreTextAt
  <1>3. /\ CoreOf'[b] = B /\ CoreOf'[d] = CoreData(s, n)
        /\ CoreOf'[t] = CoreCtext(s) /\ (y \in Slot => CoreOf'[x] = X) BY CoreThen DEF CoreTextAt
  <1>4. y \notin Slot => CoreTextAt(text, y) = {} /\ X = {} BY DEF CoreTextAt
  <1>5. ASSUME NEW g \in Holders \ M PROVE CoreOf'[g] = CoreOf[g]
    <2>1. ASSUME NEW q \in Proc, g \in {<<"block", q>>, <<"exec", q>>, <<"ta", q>>, <<"status", q>>}
          PROVE  CoreOf'[g] = CoreOf[g]
      <3>1. CASE q = m BY <1>5, <2>1, <3>1, CoreAt, CoreThen
      <3>2. CASE q # m
        <4>1. /\ CoreBlock(proc'[q], u'[q]) = CoreBlock(proc[q], u[q])
              /\ CoreExec(proc'[q], u'[q]) = CoreExec(proc[q], u[q]) /\ CoreTa(u'[q]) = CoreTa(u[q])
          BY <3>2 DEF OthersCore
        <4> QED BY <2>1, <4>1, CoreUnmoved
      <3> QED BY <3>1, <3>2
    <2>2. ASSUME NEW z \in Slot, g = <<"text", z>> PROVE CoreOf'[g] = CoreOf[g]
      <3>1. z # y BY <1>5, <2>2
      <3> QED BY <2>2, <3>1, CoreAt, CoreThen
    <2>3. g \notin {<<"data", 0>>, <<"ctext", 0>>} BY <1>5
    <2> QED BY <2>1, <2>2, <2>3, HolderIs
  <1>6. M \subseteq Holders BY <1>1
  <1>7. \A g : g \in M <=> g = b \/ g = d \/ g = t \/ (y \in Slot /\ g = x) OBVIOUS
  <1> HIDE DEF b, d, t, x, M
  <1>8. \A g, h \in M : g # h => CoreOf'[g] \cap CoreOf'[h] = {} BY <1>1, <1>3, <1>7 DEF SwapperSplit, Five
  <1>9. \A g \in M : CoreOf'[g] \cap core' = {} BY <1>3, <1>7 DEF SwapperSplit, Five
  <1>10. \A k : (k \in core' \/ \E g \in M : k \in CoreOf'[g]) <=> k \in SwapperSum(core', B, X, s, n)
    BY <1>3, <1>4, <1>7 DEF SwapperSum
  <1>11. \A k : (k \in core \/ \E g \in M : k \in CoreOf[g])
            <=> k \in SwapperSum(core, CoreBlock(proc[m], u[m]), CoreTextAt(text, y), sched, proc[sched.p].size)
    BY <1>2, <1>4, <1>7 DEF SwapperSum
  <1>12. Apart(1..NCORE, core, CoreOf) BY DEF CoreOK
  <1>13. Apart(1..NCORE, core', CoreOf')
    <2>1. Redealt(M, CoreOf, core, CoreOf', core') BY <1>5, <1>6, <1>8, <1>9, <1>10, <1>11 DEF Redealt
    <2> QED BY <1>12, <2>1, Redeal
  <1> QED BY <1>13 DEF CoreOK

(* The same of the swap device. *)
LEMMA SwapperSwap ==
    ASSUME SwapOK, NEW m \in Proc, OthersSwap(m, proc', u'),
           SwapStatus(proc'[m], u'[m]) = SwapStatus(proc[m], u[m]),
           \A x \in Slot : SwapText(text'[x]) = SwapText(text[x]),
           NEW B, NEW D, B = SwapImage(proc'[m], u'[m]), D = SwapData(sched', proc'[sched'.p].img),
           Five(swap', B, D, {}, {}),
           swap' \cup B \cup D = swap \cup SwapImage(proc[m], u[m]) \cup SwapData(sched, proc[sched.p].img)
    PROVE  SwapOK'
  <1> DEFINE b == <<"block", m>>
             d == <<"data", 0>>
             M == {b, d}
  <1>1. {b, d} \subseteq Holders /\ b # d BY HolderIs
  <1>2. SwapOf[b] = SwapImage(proc[m], u[m]) /\ SwapOf[d] = SwapData(sched, proc[sched.p].img) BY SwapAt
  <1>3. SwapOf'[b] = B /\ SwapOf'[d] = D BY SwapThen
  <1>4. ASSUME NEW g \in Holders \ M PROVE SwapOf'[g] = SwapOf[g]
    <2>1. ASSUME NEW q \in Proc, g \in {<<"block", q>>, <<"exec", q>>, <<"ta", q>>, <<"status", q>>}
          PROVE  SwapOf'[g] = SwapOf[g]
      <3>1. CASE q = m
        <4>1. g \in {<<"exec", m>>, <<"ta", m>>, <<"status", m>>} BY <1>4, <2>1, <3>1
        <4>2. /\ SwapOf'[<<"status", m>>] = SwapOf[<<"status", m>>] /\ SwapOf'[<<"exec", m>>] = SwapOf[<<"exec", m>>]
              /\ SwapOf'[<<"ta", m>>] = SwapOf[<<"ta", m>>] BY SwapAt, SwapThen
        <4> QED BY <4>1, <4>2
      <3>2. CASE q # m
        <4>1. /\ SwapImage(proc'[q], u'[q]) = SwapImage(proc[q], u[q])
              /\ SwapStatus(proc'[q], u'[q]) = SwapStatus(proc[q], u[q]) BY <3>2 DEF OthersSwap
        <4> QED BY <2>1, <4>1, SwapUnmoved
      <3> QED BY <3>1, <3>2
    <2>2. ASSUME NEW z \in Slot, g = <<"text", z>> PROVE SwapOf'[g] = SwapOf[g] BY <2>2, SwapAt, SwapThen
    <2>3. g = <<"ctext", 0>> => SwapOf'[g] = SwapOf[g] BY SwapAt, SwapThen
    <2>4. g # <<"data", 0>> BY <1>4
    <2> QED BY <2>1, <2>2, <2>3, <2>4, HolderIs
  <1>5. M \subseteq Holders /\ \A g : g \in M <=> g = b \/ g = d BY <1>1
  <1> HIDE DEF b, d, M
  <1>6. \A g, h \in M : g # h => SwapOf'[g] \cap SwapOf'[h] = {} BY <1>3, <1>5 DEF Five
  <1>7. \A g \in M : SwapOf'[g] \cap swap' = {} BY <1>3, <1>5 DEF Five
  <1>8. \A k : (k \in swap' \/ \E g \in M : k \in SwapOf'[g]) <=> k \in swap' \cup B \cup D BY <1>3, <1>5
  <1>9. \A k : (k \in swap \/ \E g \in M : k \in SwapOf[g])
            <=> k \in swap \cup SwapImage(proc[m], u[m]) \cup SwapData(sched, proc[sched.p].img)
    BY <1>2, <1>5
  <1>10. Apart(1..NSWAP, swap, SwapOf) BY DEF SwapOK
  <1>11. Apart(1..NSWAP, swap', SwapOf')
    <2>1. Redealt(M, SwapOf, swap, SwapOf', swap') BY <1>4, <1>5, <1>6, <1>7, <1>8, <1>9 DEF Redealt
    <2> QED BY <1>10, <2>1, Redeal
  <1> QED BY <1>11 DEF SwapOK

(* m's share in its text changes with the count of it.                     *)
LEMMA ShareCount ==
    ASSUME IInv, fault = "none", NEW m \in Proc, StandBy(m), UNCHANGED u,
           NEW r \in ProcSlot, proc'[m] = r, r.text = proc[m].text, text' \in [Slot -> TextSlot],
           \A z \in Slot : text'[z].count = text[z].count /\ text'[z].ip = text[z].ip,
           \A z \in Slot : text'[z].ccount + (IF r.text = z /\ proc[m].ref THEN 1 ELSE 0)
                             = text[z].ccount + (IF r.text = z /\ r.ref THEN 1 ELSE 0) PROVE CountOK'
  <1>1. TypeOK /\ Good /\ CountOK /\ proc[m] \in ProcSlot BY DEF IInv, Good, TypeOK
  <1>2. OthersRefer(m, proc', u') BY <1>1, StandOthers DEF Good
  <1>3. \A z \in Slot : /\ text[z].count \in Nat /\ text[z].ccount \in Nat /\ (text[z].ip # NoProg <=> text[z].count > 0)
                        /\ text'[z].ccount \in Nat BY <1>1 DEF TypeOK, TextSlot, CountOK
  <1>4. PICK v : v = u[m] OBVIOUS
  <1>5. \A z \in Slot : Tally(r, v, z) = Tally(proc[m], u[m], z) /\ Tally(r, v, z) \in Nat
    BY <1>4, TalliesAre
  <1>6. ASSUME NEW z \in Slot
        PROVE  text'[z].ccount + CoreTally(proc[m], u[m], z) = text[z].ccount + CoreTally(r, v, z)
    <2>1. PICK k \in Nat : k = (IF Retargeted(v) /\ v.otp = z THEN 1 ELSE 0) + (IF v.pc = "committed" /\ v.xp = z THEN 1 ELSE 0)
      OBVIOUS
    <2>2. PICK i \in Nat : i = IF r.text = z /\ proc[m].ref THEN 1 ELSE 0 OBVIOUS
    <2>3. PICK j \in Nat : j = IF r.text = z /\ r.ref THEN 1 ELSE 0 OBVIOUS
    <2>4. CoreTally(proc[m], u[m], z) = i + k
      <3>1. CoreTally(proc[m], u[m], z) = (IF proc[m].text = z /\ proc[m].ref THEN 1 ELSE 0)
                + (IF Retargeted(v) /\ v.otp = z THEN 1 ELSE 0) + (IF v.pc = "committed" /\ v.xp = z THEN 1 ELSE 0)
        BY <1>4, TalliesAre
      <3> QED BY <2>1, <2>2, <3>1
    <2>5. CoreTally(r, v, z) = j + k
      <3>1. CoreTally(r, v, z) = (IF r.text = z /\ r.ref THEN 1 ELSE 0)
                + (IF Retargeted(v) /\ v.otp = z THEN 1 ELSE 0) + (IF v.pc = "committed" /\ v.xp = z THEN 1 ELSE 0)
        BY TalliesAre
      <3> QED BY <2>1, <2>3, <3>1
    <2>6. text'[z].ccount + i = text[z].ccount + j BY <2>2, <2>3
    <2> QED BY ONLY <1>3, <2>4, <2>5, <2>6, i \in Nat, j \in Nat, k \in Nat, z \in Slot
  <1>7. \A z \in Slot :
          /\ text'[z].count + Tally(proc[m], u[m], z) = text[z].count + Tally(r, v, z)
          /\ text'[z].ccount + CoreTally(proc[m], u[m], z) = text[z].ccount + CoreTally(r, v, z)
          /\ text'[z].count \in Nat /\ text'[z].ccount \in Nat
          /\ text'[z].ip # NoProg <=> text'[z].count > 0 BY <1>3, <1>5, <1>6
  <1>8. \A z, w \in Slot : text'[z].ip = text'[w].ip /\ text'[z].ip # NoProg => z = w BY <1>1 DEF CountOK
  <1>9. proc'[m] = r /\ u'[m] = v BY <1>4
  <1> QED BY ONLY <1>1, <1>2, <1>7, <1>8, <1>9, CountMoves, m \in Proc

(* The swapper moves m.                                                    *)
LEMMA SwapperKeeps ==
    ASSUME IInv, fault = "none", run = 0, NEW m \in Proc, Alive(m), \A q \in Proc : ~Small(q), StandBy(m),
           proc' \in [Proc -> ProcSlot], text' \in [Slot -> TextSlot],
           sched' \in [pc : {"loop", "runin", "runout", "intext", "indata", "out"},
                       p : {0} \cup Proc, a : Nat, ta : Nat],
           UNCHANGED <<u, ilock, run, calls>>, fault' = "none",
           NEW r \in ProcSlot, proc'[m] = r, RegsOK(m, r, u[m]), r.size = proc[m].size,
           \A q \in Proc : q # m => StatusOK(q, proc'[q], u'[q]),
           \A q \in Proc : q # m => ((sched'.pc = "out" /\ sched'.p = q) <=> (sched.pc = "out" /\ sched.p = q)),
           r.lock <=> (sched'.pc = "out" /\ sched'.p = m), ~Locking(u[m]),
           \A z \in Slot : z # proc[m].text => text'[z] = text[z], \A z \in Slot : text'[z].ip = text[z].ip,
           SchedOK', FamilyOK', CountOK', CoreOK', SwapOK' PROVE IInv'
  <1>1. TypeOK /\ Good /\ u \in [Proc -> Locals] BY DEF IInv, TypeOK
  <1>2. u[m].pc \notin {"attach", "claim", "commit", "load", "proto"}
    BY <1>1, ProcFacts DEF Good, RunOK, Locking
  <1>3. r.size = DBLK \/ Swelled(u[m]) BY DEF Small
  <1>4. \A q \in Proc : u[q].pc \in {"load", "proto"} => text'[u[q].xp] = text[u[q].xp]
    <2>1. ASSUME NEW q \in Proc, u[q].pc \in {"load", "proto"} PROVE text'[u[q].xp] = text[u[q].xp]
      <3>1. q # m /\ u[q].xp \in Slot BY <1>1, <1>2, <2>1, Built DEF Good
      <3>2. proc[m].text \in Slot => u[q].xp # proc[m].text
        <4>1. \E k \in Kinds : Refers(k, proc[m], u[m], proc[m].text) BY DEF Kinds, Refers
        <4> QED BY <1>1, <2>1, <3>1, <4>1, NotBuilt
      <3> QED BY <3>1, <3>2
    <2> QED BY <2>1
  <1>5. /\ RegsOK(m, proc'[m], u'[m]) /\ u' \in [Proc -> Locals] /\ run' \in {0} \cup Proc /\ calls' \in 0..MaxCalls
        /\ UNCHANGED ilock /\ u'[m] = u[m] /\ u'[m].pc \notin {"attach", "claim", "commit"}
        /\ Live(proc'[m]) => proc'[m].size = DBLK \/ Swelled(u'[m])
        /\ proc'[m].lock <=> Locking(u'[m]) \/ (sched'.pc = "out" /\ sched'.p = m)
        /\ Locking(u'[m]) => proc'[m].load BY <1>1, <1>2, <1>3 DEF TypeOK
  <1> QED BY <1>1, <1>4, <1>5, StandKeeps

(* The swapper looks about and moves nothing.                              *)
LEMMA SwapperLooks ==
    ASSUME IInv, fault = "none", NEW k \in {"loop", "runin", "runout"}, sched.pc \in {"loop", "runin", "runout"},
           sched' = [sched EXCEPT !.pc = k], UNCHANGED <<core, swap, proc, text, u, ilock, run, fault, calls>>
    PROVE  IInv'
  <1>1. TypeOK /\ Good BY DEF IInv
  <1>2. /\ sched' \in [pc : {"loop", "runin", "runout", "intext", "indata", "out"},
                       p : {0} \cup Proc, a : Nat, ta : Nat]
        /\ sched'.p = sched.p /\ sched'.pc \in {"loop", "runin", "runout"} BY <1>1 DEF TypeOK
  <1>3. TypeOK' BY <1>1, <1>2 DEF TypeOK
  <1>4. LocalOK' /\ RunOK' /\ ExecOK' /\ FamilyOK' /\ CountOK'
    <2>1. UNCHANGED LocalOK /\ UNCHANGED RunOK BY DEF LocalOK, RunOK
    <2>2. UNCHANGED ExecOK BY DEF ExecOK, Entry
    <2>3. UNCHANGED FamilyOK BY DEF FamilyOK, Zombies, Children, Alive
    <2>4. UNCHANGED CountOK BY DEF CountOK, Refs, CoreRefs
    <2> QED BY <1>1, <2>1, <2>2, <2>3, <2>4 DEF Good
  <1>5. BootOK' /\ LockOK' /\ SchedOK'
    <2>1. BootOK' BY <1>1, <1>2 DEF Good, BootOK, Small, Alive
    <2>2. LockOK' BY <1>1, <1>2 DEF Good, LockOK
    <2>3. SchedOK' BY <1>1, <1>2 DEF Good, SchedOK, Alive
    <2> QED BY <2>1, <2>2, <2>3
  <1>6. OthersCore(1, proc', u') /\ OthersSwap(1, proc', u') /\ SchedHolds(sched', proc') /\ 1 \in Proc
    BY <1>2, ProcFacts DEF OthersCore, OthersSwap, SchedHolds, CoreData, CoreCtext, SwapData
  <1>7. CoreSplit(core, proc[1], u[1], CoreTextAt(text, 0)) /\ SwapSplit(swap, proc[1], u[1], SwapTextAt(text, 0))
    BY <1>6, Had
  <1>8. CoreOK'
    <2>1. /\ CoreOK /\ Five(core', CoreBlock(proc[1], u[1]), CoreExec(proc[1], u[1]), CoreTa(u[1]), CoreTextAt(text, 0))
          /\ CoreBlock(proc[1], u[1]) = CoreBlock(proc'[1], u'[1]) /\ CoreExec(proc[1], u[1]) = CoreExec(proc'[1], u'[1])
          /\ CoreTa(u[1]) = CoreTa(u'[1]) /\ CoreTextAt(text, 0) = CoreTextAt(text', 0)
          /\ \A x \in Slot : CoreText(text'[x]) = CoreText(text[x])
          /\ core' = core BY <1>1, <1>7 DEF Good, CoreSplit
    <2> QED BY ONLY <1>6, <2>1, CoreMoves
  <1>9. SwapOK'
    <2>1. /\ SwapOK /\ Five(swap', SwapImage(proc[1], u[1]), SwapStatus(proc[1], u[1]), SwapTextAt(text, 0), {})
          /\ SwapImage(proc[1], u[1]) = SwapImage(proc'[1], u'[1]) /\ SwapStatus(proc[1], u[1]) = SwapStatus(proc'[1], u'[1])
          /\ SwapTextAt(text, 0) = SwapTextAt(text', 0)
          /\ \A x \in Slot : SwapText(text'[x]) = SwapText(text[x])
          /\ swap' = swap BY <1>1, <1>7 DEF Good, SwapSplit
    <2> QED BY ONLY <1>6, <2>1, SwapMoves
  <1> QED BY <1>3, <1>4, <1>5, <1>8, <1>9 DEF IInv, Good

(* Nobody is to be swapped in. *)
LEMMA SchedIdleKeeps ==
    ASSUME IInv, SchedIdle PROVE IInv' BY SwapperLooks DEF SchedIdle, Sched, Between

(* Nobody is to be swapped out. *)
LEMMA NobodyOutKeeps ==
    ASSUME IInv, NobodyOut PROVE IInv' BY SwapperLooks DEF NobodyOut, Sched, Between, Sloop

(* The clock wakes the swapper. *)
LEMMA RuninKeeps ==
    ASSUME IInv, Runin PROVE IInv' BY SwapperLooks DEF Runin, Sched, Between

(* A process that is not in core.                                          *)
LEMMA AwayIs ==
    ASSUME IInv, fault = "none", NEW m \in Proc, Alive(m), ~proc[m].load
    PROVE  /\ TypeOK /\ Good /\ proc[m] \in ProcSlot /\ u[m] \in Locals /\ RegsOK(m, proc[m], u[m])
           /\ \A q \in Proc : ~Small(q)
           /\ ~Locking(u[m]) /\ u[m].for # "image"
           /\ (proc[m].lock <=> sched.pc = "out" /\ sched.p = m)
           /\ (proc[m].text # 0 /\ proc[m].ref => sched.pc = "indata" /\ sched.p = m)
  <1>1. TypeOK /\ Good /\ proc[m] \in ProcSlot /\ u[m] \in Locals BY DEF IInv, TypeOK
  <1>2. RegsOK(m, proc[m], u[m]) BY <1>1 DEF Good, LocalOK, RegsOK
  <1>3. ASSUME NEW q \in Proc PROVE ~Small(q) BY <1>1 DEF Good, BootOK, Alive, Live
  <1>4. u[m].for # "image" BY <1>2 DEF RegsOK, PurposeOK
  <1> QED BY <1>1, <1>2, <1>3, <1>4 DEF Good, LockOK, SchedOK

(* m's slot becomes r; everybody else stays as he is.                      *)
LEMMA SlotMoves ==
    ASSUME IInv, fault = "none", NEW m \in Proc, NEW r \in ProcSlot, proc' = [proc EXCEPT ![m] = r], UNCHANGED u,
           Live(r), Alive(m), r.par = proc[m].par, r.chan = proc[m].chan, r.stat = proc[m].stat
    PROVE  /\ proc' \in [Proc -> ProcSlot] /\ proc'[m] = r /\ \A q \in Proc : q # m => proc'[q] = proc[q]
           /\ StandBy(m) /\ \A q \in Proc : q # m => StatusOK(q, proc'[q], u'[q])
           /\ FamilyOK'
           /\ OthersCore(m, proc', u') /\ OthersSwap(m, proc', u')
  <1>1. proc' \in [Proc -> ProcSlot] /\ proc'[m] = r /\ \A q \in Proc : q # m => proc'[q] = proc[q]
    BY DEF IInv, TypeOK
  <1>2. FamilyOK' BY <1>1, FamilyStays DEF IInv, Good
  <1>3. StandBy(m) /\ OthersCore(m, proc', u') /\ OthersSwap(m, proc', u')
    BY <1>1 DEF StandBy, Stands, OthersCore, OthersSwap
  <1>4. \A q \in Proc : q # m => StatusOK(q, proc'[q], u'[q]) BY <1>1 DEF IInv, Good, LocalOK
  <1> QED BY <1>1, <1>2, <1>3, <1>4

(* The swapper takes core for a process, and for its text if it is not in. *)
LEMMA SwapInKeeps ==
    ASSUME IInv, NEW p \in Proc, SwapIn(p) PROVE IInv'
  <1>1. /\ run = 0 /\ fault = "none" /\ sched.pc = "loop" /\ p \in Absent /\ Room(p)
        /\ UNCHANGED <<swap, u, ilock, run, fault, calls>> BY DEF SwapIn, Sched, Between
  <1>2. Alive(p) /\ ~proc[p].load /\ proc[p].stat = "run" BY <1>1 DEF Absent, Alive, Live
  <1>3. /\ TypeOK /\ Good /\ proc[p] \in ProcSlot /\ u[p] \in Locals /\ RegsOK(p, proc[p], u[p])
        /\ (\A q \in Proc : ~Small(q)) /\ ~Locking(u[p]) /\ ~proc[p].lock
        /\ ~(proc[p].text # 0 /\ proc[p].ref) BY <1>1, <1>2, AwayIs
  <1>4. PICK n : n = proc[p].size OBVIOUS
  <1>5. PICK a : a = Malloc(core, n) OBVIOUS
  <1>6. n \in Nat /\ a \in Nat /\ a # 0 /\ Run(a, n) \subseteq core
    BY <1>1, <1>3, <1>4, <1>5, MallocFits, Numbers DEF TypeOK, ProcSlot, Room
  <1>7. PICK C : C = core \ Run(a, n) OBVIOUS
  <1>8. PICK ta : ta = Malloc(C, TSIZE) OBVIOUS
  <1>9. C \subseteq 1..NCORE /\ ta \in Nat /\ (~TextIn(p) => ta # 0 /\ Run(ta, TSIZE) \subseteq C)
    <2>1. C \subseteq 1..NCORE BY <1>3, <1>7 DEF TypeOK
    <2>2. ~TextIn(p) => ta # 0 BY <1>1, <1>4, <1>5, <1>7, <1>8 DEF Room
    <2> QED BY <1>8, <2>1, <2>2, MallocFits, Numbers
  <1>10. PICK x : x = proc[p].text OBVIOUS
  <1>11. x \in {0} \cup Slot /\ 0 \notin Slot BY <1>3, <1>10, ProcFacts DEF ProcSlot
  <1>12. CoreOK /\ SwapOK /\ LockOK /\ SchedOK BY <1>3 DEF Good
  <1>13. /\ SwapperSplit(core, CoreBlock(proc[p], u[p]), CoreTextAt(text, 0), sched, proc[sched.p].size)
         /\ Five(swap, SwapImage(proc[p], u[p]), SwapData(sched, proc[sched.p].img), {}, {})
         /\ CoreTextAt(text, 0) = {} /\ CoreTextAt(text', 0) = {} BY <1>11, <1>12, SwapperHas DEF CoreTextAt
  <1>14. \A k \in Nat : CoreData(sched, k) = {} /\ CoreCtext(sched) = {} /\ SwapData(sched, k) = {}
    BY <1>1 DEF CoreData, CoreCtext, SwapData
  <1>15. CoreBlock(proc[p], u[p]) = {} BY <1>2, <1>3 DEF CoreBlock
  <1>16. /\ CoreData(sched, proc[sched.p].size) = {} /\ CoreCtext(sched) = {} /\ SwapData(sched, proc[sched.p].img) = {}
    BY <1>1 DEF CoreData, CoreCtext, SwapData
  <1>17. CASE TextIn(p)
    <2>1. PICK r : r = [proc[p] EXCEPT !.ref = TRUE] OBVIOUS
    <2>2. /\ r \in ProcSlot /\ r.ref = TRUE /\ r.stat = "run" /\ r.load = proc[p].load /\ r.lock = proc[p].lock /\ r.addr = proc[p].addr
          /\ r.size = n /\ r.img = proc[p].img /\ r.text = x /\ r.par = proc[p].par /\ r.chan = proc[p].chan
      BY <1>2, <1>3, <1>4, <1>10, <2>1 DEF ProcSlot
    <2>3. /\ core' = C /\ sched' = [pc |-> "indata", p |-> p, a |-> a, ta |-> 0]
          /\ text' = (IF x = 0 THEN text ELSE [text EXCEPT ![x].ccount = @ + 1])
          /\ proc' = [proc EXCEPT ![p] = r]
      <3>1. proc' = [proc EXCEPT ![p].ref = TRUE] BY <1>17 DEF SwapIn
      <3>2. proc' = [proc EXCEPT ![p] = r] BY <1>3, <2>1, <3>1 DEF TypeOK
      <3> QED BY <1>4, <1>5, <1>7, <1>10, <1>17, <3>2 DEF SwapIn
    <2>4. /\ text' \in [Slot -> TextSlot]
          /\ \A z \in Slot : /\ text'[z].count = text[z].count /\ text'[z].ip = text[z].ip /\ text'[z].daddr = text[z].daddr
                             /\ text'[z].caddr = text[z].caddr
                             /\ text'[z].ccount = text[z].ccount + (IF x = z THEN 1 ELSE 0)
                             /\ z # x => text'[z] = text[z]
      <3>1. \A z \in Slot : text[z].ccount \in Nat BY <1>3 DEF TypeOK, TextSlot
      <3>2. CASE x = 0 BY <1>3, <1>11, <2>3, <3>1, <3>2 DEF TypeOK
      <3>3. CASE x \in Slot
        <4>1. PICK k \in Nat : k = text[x].ccount + 1 BY <3>1, <3>3
        <4>2. PICK e : e = [text[x] EXCEPT !.ccount = k] OBVIOUS
        <4>3. /\ e \in TextSlot /\ e.ip = text[x].ip /\ e.daddr = text[x].daddr /\ e.caddr = text[x].caddr
              /\ e.count = text[x].count /\ e.ccount = text[x].ccount + 1
          BY <1>3, <3>3, <4>1, <4>2 DEF TypeOK, TextSlot
        <4>4. text' = [text EXCEPT ![x] = e]
          <5>1. text' = [text EXCEPT ![x].ccount = @ + 1] BY <1>11, <2>3, <3>3
          <5> QED BY <1>3, <3>3, <4>1, <4>2, <5>1 DEF TypeOK, TextSlot
        <4>5. text' \in [Slot -> TextSlot] /\ text'[x] = e /\ \A z \in Slot : z # x => text'[z] = text[z]
          BY <1>3, <3>3, <4>3, <4>4, EntryIs
        <4> QED BY <3>1, <4>3, <4>5
      <3> QED BY <1>11, <3>2, <3>3
    <2>5. /\ proc' \in [Proc -> ProcSlot] /\ proc'[p] = r /\ \A q \in Proc : q # p => proc'[q] = proc[q]
          /\ StandBy(p) /\ \A q \in Proc : q # p => StatusOK(q, proc'[q], u'[q])
          /\ FamilyOK' /\ OthersCore(p, proc', u') /\ OthersSwap(p, proc', u')
      BY <1>1, <1>2, <2>2, <2>3, SlotMoves DEF Live
    <2>6. RegsOK(p, r, u[p])
      BY <1>2, <1>3, <1>4, <1>10, <2>2 DEF RegsOK, StatusOK, PurposeOK, AttachOK, SizeOK, Locking
    <2>7. CountOK'
      <3>1. \A z \in Slot : text'[z].ccount + (IF r.text = z /\ proc[p].ref THEN 1 ELSE 0)
                             = text[z].ccount + (IF r.text = z /\ r.ref THEN 1 ELSE 0)
        <4>1. \A z \in Slot : ~(r.text = z /\ proc[p].ref) /\ text[z].ccount \in Nat
          BY <1>3, <1>10, <1>11, <2>2 DEF TypeOK, TextSlot
        <4> QED BY <2>2, <2>4, <4>1
      <3>2. /\ r \in ProcSlot /\ proc'[p] = r /\ r.text = proc[p].text /\ text' \in [Slot -> TextSlot] /\ StandBy(p) /\ UNCHANGED u
            /\ \A z \in Slot : text'[z].count = text[z].count /\ text'[z].ip = text[z].ip
        BY <1>1, <1>10, <2>2, <2>4, <2>5
      <3> QED BY <1>1, <3>1, <3>2, ShareCount
    <2>8. CoreOK'
      <3>1. \A z \in Slot : CoreText(text'[z]) = CoreText(text[z])
        <4>1. \A z \in Slot : text[z].ccount \in Nat /\ (x = z => text[z].ccount # 0)
          BY <1>3, <1>10, <1>11, <1>17 DEF TypeOK, TextSlot, TextIn
        <4>2. \A z \in Slot : text'[z].ccount > 0 <=> text[z].ccount > 0 BY <2>4, <4>1
        <4> QED BY <2>4, <4>2 DEF CoreText
      <3>2. CoreBlock(r, u'[p]) = {} /\ CoreExec(proc'[p], u'[p]) = CoreExec(proc[p], u[p]) /\ CoreTa(u'[p]) = CoreTa(u[p])
        BY <1>1, <1>2, <1>3, <1>4, <2>2, <2>5 DEF CoreBlock, CoreExec
      <3>3. PICK s : s = sched' OBVIOUS
      <3>4. proc'[sched'.p].size = n /\ CoreData(s, n) = Run(a, n) /\ CoreCtext(s) = {}
        BY <2>2, <2>3, <2>5, <3>3 DEF CoreData, CoreCtext
      <3>5. /\ SwapperSplit(core', {}, {}, s, n)
            /\ SwapperSum(core', {}, {}, s, n)
                 = SwapperSum(core, CoreBlock(proc[p], u[p]), CoreTextAt(text, 0), sched, proc[sched.p].size)
        BY <1>6, <1>7, <1>13, <1>15, <1>16, <2>3, <3>4 DEF SwapperSplit, SwapperSum, Five
      <3>6. /\ {} = CoreBlock(proc'[p], u'[p]) /\ {} = CoreTextAt(text', 0) /\ s = sched' /\ n = proc'[sched'.p].size
            /\ \A z \in Slot : z # 0 => CoreText(text'[z]) = CoreText(text[z])
        BY <1>13, <2>5, <3>1, <3>2, <3>3, <3>4
      <3> QED BY ONLY <1>12, <2>5, <3>2, <3>5, <3>6, SwapperCore, p \in Proc
    <2>9. SwapOK'
      <3>1. SwapImage(r, u'[p]) = SwapImage(proc[p], u[p]) /\ SwapStatus(r, u'[p]) = SwapStatus(proc[p], u[p])
        BY <1>1, <1>2, <2>2 DEF SwapImage, SwapStatus, Live
      <3>2. SwapData(sched', proc'[sched'.p].img) = {} BY <2>3 DEF SwapData
      <3>3. \A z \in Slot : SwapText(text'[z]) = SwapText(text[z]) BY <2>4 DEF SwapText
      <3>4. /\ Five(swap', SwapImage(proc[p], u[p]), {}, {}, {})
            /\ swap' \cup SwapImage(proc[p], u[p]) \cup {} = swap \cup SwapImage(proc[p], u[p]) \cup SwapData(sched, proc[sched.p].img)
        BY <1>1, <1>13, <1>16
      <3>5. SwapImage(proc[p], u[p]) = SwapImage(proc'[p], u'[p]) /\ {} = SwapData(sched', proc'[sched'.p].img)
            /\ SwapStatus(proc'[p], u'[p]) = SwapStatus(proc[p], u[p]) BY <2>5, <3>1, <3>2
      <3> QED BY ONLY <1>12, <2>5, <3>3, <3>4, <3>5, SwapperSwap, p \in Proc
    <2>10. SchedOK'
      <3>1. sched'.pc = "indata" /\ sched'.p = p /\ p # 0 BY <2>3, ProcFacts
      <3>2. Live(proc'[p]) /\ ~proc'[p].load /\ proc'[p].ref BY <1>2, <2>2, <2>5 DEF Live
      <3>3. \A q \in Proc : q # p => ~(Alive(q) /\ ~proc[q].load /\ proc[q].text # 0 /\ proc[q].ref)
        BY <1>1, <1>12 DEF SchedOK
      <3> QED BY <2>5, <3>1, <3>2, <3>3 DEF SchedOK, Alive
    <2>11. /\ sched' \in [pc : {"loop", "runin", "runout", "intext", "indata", "out"},
                          p : {0} \cup Proc, a : Nat, ta : Nat]
           /\ sched'.pc = "indata" /\ sched.pc = "loop" /\ r.size = proc[p].size /\ ~r.lock
           /\ (\A z \in Slot : z # proc[p].text => text'[z] = text[z]) /\ (\A z \in Slot : text'[z].ip = text[z].ip)
      BY <1>1, <1>3, <1>4, <1>6, <1>10, <2>2, <2>3, <2>4
    <2>12. UNCHANGED <<u, ilock, run, calls>> /\ fault' = "none" BY <1>1
    <2> QED BY <1>1, <1>2, <1>3, <2>2, <2>4, <2>5, <2>6, <2>7, <2>8, <2>9, <2>10, <2>11, <2>12, SwapperKeeps
  <1>18. CASE ~TextIn(p)
    <2>1. /\ core' = C \ Run(ta, TSIZE) /\ sched' = [pc |-> "intext", p |-> p, a |-> a, ta |-> ta]
          /\ text' = text /\ proc' = proc BY <1>4, <1>5, <1>7, <1>8, <1>18 DEF SwapIn
    <2>2. x # 0 /\ ~proc[p].ref BY <1>3, <1>10, <1>18 DEF TextIn
    <2>3. proc' = [proc EXCEPT ![p] = proc[p]] BY <1>3, <2>1 DEF TypeOK
    <2>4. /\ proc' \in [Proc -> ProcSlot] /\ proc'[p] = proc[p] /\ \A q \in Proc : q # p => proc'[q] = proc[q]
          /\ StandBy(p) /\ \A q \in Proc : q # p => StatusOK(q, proc'[q], u'[q])
          /\ FamilyOK' /\ OthersCore(p, proc', u') /\ OthersSwap(p, proc', u')
      BY <1>1, <1>2, <1>3, <2>3, SlotMoves DEF Alive
    <2>5. CountOK'
      <3>1. UNCHANGED <<text, proc, u>> BY <1>1, <2>1
      <3>2. \A z \in Slot : Refs(z)' = Refs(z) /\ CoreRefs(z)' = CoreRefs(z) BY <3>1 DEF Refs, CoreRefs
      <3>3. CountOK BY <1>3 DEF Good
      <3> QED BY ONLY <3>1, <3>2, <3>3 DEF CountOK
    <2>6. CoreOK'
      <3>1. CoreBlock(proc[p], u'[p]) = {} /\ CoreExec(proc'[p], u'[p]) = CoreExec(proc[p], u[p]) /\ CoreTa(u'[p]) = CoreTa(u[p])
        BY <1>1, <1>15, <2>1
      <3>2. PICK s : s = sched' OBVIOUS
      <3>3. proc'[sched'.p].size = n /\ CoreData(s, n) = Run(a, n) /\ CoreCtext(s) = Run(ta, TSIZE)
        BY <1>4, <2>1, <3>2 DEF CoreData, CoreCtext
      <3>4. /\ SwapperSplit(core', {}, {}, s, n)
            /\ SwapperSum(core', {}, {}, s, n)
                 = SwapperSum(core, CoreBlock(proc[p], u[p]), CoreTextAt(text, 0), sched, proc[sched.p].size)
        BY <1>6, <1>7, <1>9, <1>13, <1>15, <1>16, <1>18, <2>1, <3>3 DEF SwapperSplit, SwapperSum, Five
      <3>5. /\ {} = CoreBlock(proc'[p], u'[p]) /\ {} = CoreTextAt(text', 0) /\ s = sched' /\ n = proc'[sched'.p].size
            /\ \A z \in Slot : z # 0 => CoreText(text'[z]) = CoreText(text[z])
        BY <1>13, <2>1, <3>1, <3>2, <3>3
      <3> QED BY ONLY <1>12, <2>4, <3>1, <3>4, <3>5, SwapperCore, p \in Proc
    <2>7. SwapOK'
      <3>1. SwapData(sched', proc'[sched'.p].img) = {} BY <2>1 DEF SwapData
      <3>2. \A z \in Slot : SwapText(text'[z]) = SwapText(text[z]) BY <2>1
      <3>3. /\ Five(swap', SwapImage(proc[p], u[p]), {}, {}, {})
            /\ swap' \cup SwapImage(proc[p], u[p]) \cup {} = swap \cup SwapImage(proc[p], u[p]) \cup SwapData(sched, proc[sched.p].img)
        BY <1>1, <1>13, <1>16
      <3>4. SwapImage(proc[p], u[p]) = SwapImage(proc'[p], u'[p]) /\ {} = SwapData(sched', proc'[sched'.p].img)
            /\ SwapStatus(proc'[p], u'[p]) = SwapStatus(proc[p], u[p]) BY <1>1, <2>1, <3>1
      <3> QED BY ONLY <1>12, <2>4, <3>2, <3>3, <3>4, SwapperSwap, p \in Proc
    <2>8. SchedOK'
      <3>1. sched'.pc = "intext" /\ sched'.p = p /\ p # 0 BY <2>1, ProcFacts
      <3>2. Live(proc'[p]) /\ ~proc'[p].load /\ proc'[p].text # 0 /\ ~proc'[p].ref
        BY <1>2, <1>10, <2>1, <2>2 DEF Alive
      <3>3. \A q \in Proc : ~(Alive(q) /\ ~proc[q].load /\ proc[q].text # 0 /\ proc[q].ref)
        BY <1>1, <1>12 DEF SchedOK
      <3> QED BY <2>1, <3>1, <3>2, <3>3 DEF SchedOK, Alive
    <2>9. /\ sched' \in [pc : {"loop", "runin", "runout", "intext", "indata", "out"},
                         p : {0} \cup Proc, a : Nat, ta : Nat]
          /\ sched'.pc = "intext" /\ sched.pc = "loop" /\ text' \in [Slot -> TextSlot]
          /\ (\A z \in Slot : z # proc[p].text => text'[z] = text[z]) /\ (\A z \in Slot : text'[z].ip = text[z].ip)
      BY <1>1, <1>3, <1>6, <1>9, <2>1 DEF TypeOK
    <2>10. UNCHANGED <<u, ilock, run, calls>> /\ fault' = "none" BY <1>1
    <2> QED BY <1>1, <1>2, <1>3, <2>4, <2>5, <2>6, <2>7, <2>8, <2>9, <2>10, SwapperKeeps
  <1> QED BY <1>17, <1>18

(* The text the swapper has read is in core, unless another read it first. *)
LEMMA ReadIn ==
    ASSUME TypeOK, NEW x \in Slot, NEW a \in Nat,
           text' = [text EXCEPT ![x].caddr = a, ![x].ccount = @ + 1]
    PROVE  /\ text' \in [Slot -> TextSlot]
           /\ \A z \in Slot : /\ text'[z].count = text[z].count /\ text'[z].ip = text[z].ip
                              /\ text'[z].daddr = text[z].daddr /\ (z # x => text'[z] = text[z])
                              /\ text'[z].ccount = text[z].ccount + (IF x = z THEN 1 ELSE 0)
           /\ CoreText(text'[x]) = Run(a, TSIZE)
  <1>1. text \in [Slot -> TextSlot] /\ \A z \in Slot : text[z].ccount \in Nat BY DEF TypeOK, TextSlot
  <1>2. PICK k \in Nat : k = text[x].ccount + 1 BY <1>1
  <1>3. PICK e : e = [text[x] EXCEPT !.caddr = a, !.ccount = k] OBVIOUS
  <1>4. /\ e \in TextSlot /\ e.ip = text[x].ip /\ e.daddr = text[x].daddr /\ e.caddr = a
        /\ e.count = text[x].count /\ e.ccount = text[x].ccount + 1 BY <1>1, <1>2, <1>3 DEF TextSlot
  <1>5. text' = [text EXCEPT ![x] = e] BY <1>1, <1>2, <1>3 DEF TextSlot
  <1>6. text' \in [Slot -> TextSlot] /\ text'[x] = e /\ \A z \in Slot : z # x => text'[z] = text[z]
    BY <1>1, <1>4, <1>5, EntryIs
  <1>7. CoreText(e) = Run(a, TSIZE) BY <1>1, <1>4 DEF CoreText
  <1> QED BY <1>1, <1>4, <1>6, <1>7

(* It has read the text, *)
LEMMA InTextKeeps ==
    ASSUME IInv, InText PROVE IInv'
  <1>1. PICK p : p = sched.p OBVIOUS
  <1>2. PICK x : x = proc[p].text OBVIOUS
  <1>3. PICK ta : ta = sched.ta OBVIOUS
  <1>4. /\ run = 0 /\ fault = "none" /\ sched.pc = "intext"
        /\ UNCHANGED <<core, swap, u, ilock, run, calls>>
        /\ fault' = IF text[x].ccount # 0 THEN "twice" ELSE fault
        /\ text' = [text EXCEPT ![x].caddr = ta, ![x].ccount = @ + 1]
        /\ proc' = [proc EXCEPT ![p].ref = TRUE]
        /\ sched' = [sched EXCEPT !.pc = "indata", !.ta = 0] BY <1>1, <1>2, <1>3 DEF InText, Sched, Between
  <1>5. TypeOK /\ Good /\ SchedOK /\ CoreOK /\ SwapOK /\ LockOK BY <1>4 DEF IInv, Good
  <1>6. p \in Proc /\ ta \in Nat /\ sched.a \in Nat BY <1>1, <1>3, <1>4, <1>5 DEF TypeOK, SchedOK
  <1>7. Alive(p) /\ ~proc[p].load /\ x # 0 /\ ~proc[p].ref BY <1>1, <1>2, <1>4, <1>5 DEF SchedOK
  <1>8. /\ proc[p] \in ProcSlot /\ u[p] \in Locals /\ RegsOK(p, proc[p], u[p])
        /\ (\A q \in Proc : ~Small(q)) /\ ~Locking(u[p]) /\ ~proc[p].lock BY <1>4, <1>6, <1>7, AwayIs
  <1>9. x \in Slot BY <1>2, <1>7, <1>8 DEF ProcSlot
  <1>10. PICK r : r = [proc[p] EXCEPT !.ref = TRUE] OBVIOUS
  <1>11. /\ r \in ProcSlot /\ r.ref = TRUE /\ r.stat = proc[p].stat /\ r.load = proc[p].load /\ r.lock = proc[p].lock /\ r.addr = proc[p].addr
         /\ r.size = proc[p].size /\ r.img = proc[p].img /\ r.text = x /\ r.par = proc[p].par /\ r.chan = proc[p].chan
    BY <1>2, <1>8, <1>10 DEF ProcSlot
  <1>12. proc' = [proc EXCEPT ![p] = r] BY <1>4, <1>5, <1>6, <1>10 DEF TypeOK
  <1>13. /\ text' \in [Slot -> TextSlot]
         /\ \A z \in Slot : /\ text'[z].count = text[z].count /\ text'[z].ip = text[z].ip
                            /\ text'[z].daddr = text[z].daddr /\ (z # x => text'[z] = text[z])
                            /\ text'[z].ccount = text[z].ccount + (IF x = z THEN 1 ELSE 0)
         /\ CoreText(text'[x]) = Run(ta, TSIZE) BY <1>4, <1>5, <1>6, <1>9, ReadIn
  <1>14. /\ proc' \in [Proc -> ProcSlot] /\ proc'[p] = r /\ \A q \in Proc : q # p => proc'[q] = proc[q]
         /\ StandBy(p) /\ \A q \in Proc : q # p => StatusOK(q, proc'[q], u'[q])
         /\ FamilyOK' /\ OthersCore(p, proc', u') /\ OthersSwap(p, proc', u')
    BY <1>4, <1>6, <1>7, <1>11, <1>12, SlotMoves DEF Alive, Live
  <1>15. /\ sched' \in [pc : {"loop", "runin", "runout", "intext", "indata", "out"},
                       p : {0} \cup Proc, a : Nat, ta : Nat]
         /\ sched'.pc = "indata" /\ sched'.p = p /\ sched'.a = sched.a BY <1>1, <1>4, <1>5 DEF TypeOK
  <1>16. CASE text[x].ccount # 0
    <2>1. TypeOK' /\ fault' = "twice" BY <1>4, <1>5, <1>13, <1>14, <1>15, <1>16 DEF TypeOK
    <2> QED BY <2>1 DEF IInv
  <1>17. CASE text[x].ccount = 0
    <2>1. RegsOK(p, r, u[p])
      BY <1>2, <1>7, <1>8, <1>11 DEF RegsOK, StatusOK, PurposeOK, AttachOK, SizeOK, Locking, Alive, Live
    <2>2. CountOK'
      <3>1. \A z \in Slot : text'[z].ccount + (IF r.text = z /\ proc[p].ref THEN 1 ELSE 0)
                             = text[z].ccount + (IF r.text = z /\ r.ref THEN 1 ELSE 0)
        <4>1. \A z \in Slot : text[z].ccount \in Nat BY <1>5 DEF TypeOK, TextSlot
        <4> QED BY <1>7, <1>11, <1>13, <4>1
      <3>2. /\ r \in ProcSlot /\ proc'[p] = r /\ r.text = proc[p].text /\ text' \in [Slot -> TextSlot] /\ StandBy(p) /\ UNCHANGED u
            /\ \A z \in Slot : text'[z].count = text[z].count /\ text'[z].ip = text[z].ip
        BY <1>2, <1>4, <1>11, <1>13, <1>14
      <3> QED BY <1>4, <1>6, <3>1, <3>2, ShareCount
    <2>3. CoreOK'
      <3>1. PICK n : n = proc[p].size OBVIOUS
      <3>2. PICK s : s = sched' OBVIOUS
      <3>3. CoreBlock(r, u'[p]) = {} /\ CoreExec(r, u'[p]) = CoreExec(proc[p], u[p]) /\ CoreTa(u'[p]) = CoreTa(u[p])
        BY <1>4, <1>7, <1>8, <1>11 DEF CoreBlock, CoreExec
      <3>4. /\ CoreData(s, n) = Run(sched.a, n) /\ CoreCtext(s) = {}
            /\ CoreData(sched, n) = Run(sched.a, n) /\ CoreCtext(sched) = Run(ta, TSIZE)
        BY <1>3, <1>4, <1>15, <3>2 DEF CoreData, CoreCtext
      <3>5. CoreTextAt(text', x) = Run(ta, TSIZE) /\ CoreTextAt(text, x) = {}
        BY <1>9, <1>13, <1>17 DEF CoreTextAt, CoreText
      <3>6. CoreBlock(proc[p], u[p]) = {} BY <1>7, <1>8 DEF CoreBlock
      <3>7. /\ SwapperSplit(core, CoreBlock(proc[p], u[p]), CoreTextAt(text, x), sched, proc[sched.p].size)
            /\ proc[sched.p].size = n BY <1>1, <1>5, <1>6, <3>1, SwapperHas
      <3>8. /\ SwapperSplit(core', {}, Run(ta, TSIZE), s, n)
            /\ SwapperSum(core', {}, Run(ta, TSIZE), s, n)
                 = SwapperSum(core, CoreBlock(proc[p], u[p]), CoreTextAt(text, x), sched, proc[sched.p].size)
        BY <1>4, <3>4, <3>5, <3>6, <3>7 DEF SwapperSplit, SwapperSum, Five
      <3>9. /\ {} = CoreBlock(proc'[p], u'[p]) /\ Run(ta, TSIZE) = CoreTextAt(text', x) /\ s = sched' /\ n = proc'[sched'.p].size
            /\ \A z \in Slot : z # x => CoreText(text'[z]) = CoreText(text[z])
            /\ CoreExec(proc'[p], u'[p]) = CoreExec(proc[p], u[p])
        BY <1>11, <1>13, <1>14, <1>15, <3>1, <3>2, <3>3, <3>5
      <3> QED BY ONLY <1>5, <1>6, <1>14, <3>3, <3>8, <3>9, SwapperCore
    <2>4. SwapOK'
      <3>1. SwapImage(r, u'[p]) = SwapImage(proc[p], u[p]) /\ SwapStatus(r, u'[p]) = SwapStatus(proc[p], u[p])
        BY <1>4, <1>11 DEF SwapImage, SwapStatus, Live
      <3>2. SwapData(sched', proc'[sched'.p].img) = {} /\ SwapData(sched, proc[sched.p].img) = {}
        BY <1>4, <1>15 DEF SwapData
      <3>3. \A z \in Slot : SwapText(text'[z]) = SwapText(text[z]) BY <1>13 DEF SwapText
      <3>4. Five(swap, SwapImage(proc[p], u[p]), SwapData(sched, proc[sched.p].img), {}, {})
        BY <1>5, <1>6, SwapperHas
      <3>5. /\ Five(swap', SwapImage(proc[p], u[p]), {}, {}, {})
            /\ swap' \cup SwapImage(proc[p], u[p]) \cup {} = swap \cup SwapImage(proc[p], u[p]) \cup SwapData(sched, proc[sched.p].img)
        BY <1>4, <3>2, <3>4
      <3>6. SwapImage(proc[p], u[p]) = SwapImage(proc'[p], u'[p]) /\ {} = SwapData(sched', proc'[sched'.p].img)
            /\ SwapStatus(proc'[p], u'[p]) = SwapStatus(proc[p], u[p]) BY <1>14, <3>1, <3>2
      <3> QED BY ONLY <1>5, <1>6, <1>14, <3>3, <3>5, <3>6, SwapperSwap
    <2>5. SchedOK'
      <3>1. p # 0 /\ Live(proc'[p]) /\ ~proc'[p].load /\ proc'[p].ref
        BY <1>6, <1>7, <1>11, <1>14, ProcFacts DEF Alive, Live
      <3>2. \A q \in Proc : q # p => ~(Alive(q) /\ ~proc[q].load /\ proc[q].text # 0 /\ proc[q].ref)
        BY <1>4, <1>5 DEF SchedOK
      <3> QED BY <1>14, <1>15, <3>1, <3>2 DEF SchedOK, Alive
    <2>6. fault' = "none" /\ UNCHANGED <<u, ilock, run, calls>> /\ r.size = proc[p].size
          /\ (\A z \in Slot : z # proc[p].text => text'[z] = text[z]) /\ (\A z \in Slot : text'[z].ip = text[z].ip)
          /\ ~r.lock /\ sched'.pc # "out" /\ sched.pc # "out"
      BY <1>2, <1>4, <1>8, <1>11, <1>13, <1>15, <1>17
    <2> QED BY <1>4, <1>6, <1>7, <1>8, <1>11, <1>13, <1>14, <1>15, <2>1, <2>2, <2>3, <2>4, <2>5, <2>6, SwapperKeeps
  <1>18. text[x].ccount \in Nat BY <1>5, <1>9 DEF TypeOK, TextSlot
  <1> QED BY <1>16, <1>17, <1>18

(* It has written an image, whose core it gives up. *)
LEMMA OutDoneKeeps ==
    ASSUME IInv, OutDone PROVE IInv'
  <1>1. PICK p : p = sched.p OBVIOUS
  <1>2. PICK a : a = sched.a OBVIOUS
  <1>3. /\ run = 0 /\ fault = "none" /\ sched.pc = "out"
        /\ UNCHANGED <<swap, text, u, ilock, run, fault, calls>>
        /\ core' = core \cup Block(p)
        /\ proc' = [proc EXCEPT ![p] = Swapped(proc[p], a)]
        /\ sched' = [pc |-> "loop", p |-> 0, a |-> 0, ta |-> 0] BY <1>1, <1>2 DEF OutDone, Sched, Between
  <1>4. TypeOK /\ Good /\ SchedOK /\ CoreOK /\ SwapOK /\ LockOK BY <1>3 DEF IInv, Good
  <1>5. p \in Proc /\ a \in Nat BY <1>1, <1>2, <1>3, <1>4 DEF TypeOK, SchedOK
  <1>6. Alive(p) /\ ~proc[p].load /\ ~(proc[p].text # 0 /\ proc[p].ref)
    BY <1>1, <1>3, <1>4, <1>5 DEF SchedOK
  <1>7. /\ proc[p] \in ProcSlot /\ u[p] \in Locals /\ RegsOK(p, proc[p], u[p])
        /\ (\A q \in Proc : ~Small(q)) /\ ~Locking(u[p]) /\ proc[p].lock /\ u[p].for # "image"
    BY <1>1, <1>3, <1>5, <1>6, AwayIs
  <1>8. PICK r : r = Swapped(proc[p], a) OBVIOUS
  <1>9. /\ r \in ProcSlot /\ r.ref = proc[p].ref /\ r.stat = proc[p].stat /\ r.load = FALSE /\ r.lock = FALSE /\ r.addr = a
        /\ r.size = proc[p].size /\ r.img = proc[p].img /\ r.text = proc[p].text /\ r.par = proc[p].par /\ r.chan = proc[p].chan
    BY <1>5, <1>7, <1>8 DEF ProcSlot, Swapped
  <1>10. /\ proc' \in [Proc -> ProcSlot] /\ proc'[p] = r /\ \A q \in Proc : q # p => proc'[q] = proc[q]
         /\ StandBy(p) /\ \A q \in Proc : q # p => StatusOK(q, proc'[q], u'[q])
         /\ FamilyOK' /\ OthersCore(p, proc', u') /\ OthersSwap(p, proc', u')
    <2>1. proc' = [proc EXCEPT ![p] = r] /\ Live(r) /\ UNCHANGED u BY <1>3, <1>6, <1>8, <1>9 DEF Alive, Live
    <2>2. OthersCore(p, proc', u') /\ OthersSwap(p, proc', u') /\ FamilyOK'
          /\ proc' \in [Proc -> ProcSlot] /\ proc'[p] = r /\ \A q \in Proc : q # p => proc'[q] = proc[q]
      BY <1>3, <1>4, <1>5, <1>6, <1>9, <2>1, SlotMoves
    <2> QED BY <1>3, <1>5, <1>6, <1>9, <2>1, <2>2, SlotMoves
  <1>11. RegsOK(p, r, u[p])
    BY <1>6, <1>7, <1>9 DEF RegsOK, StatusOK, PurposeOK, AttachOK, SizeOK, Locking, Alive, Live
  <1>12. CountOK'
    <2>1. \A z \in Slot : text'[z].ccount + (IF r.text = z /\ proc[p].ref THEN 1 ELSE 0)
                           = text[z].ccount + (IF r.text = z /\ r.ref THEN 1 ELSE 0) BY <1>3, <1>9
    <2>2. /\ r \in ProcSlot /\ proc'[p] = r /\ r.text = proc[p].text /\ text' \in [Slot -> TextSlot] /\ StandBy(p) /\ UNCHANGED u
          /\ \A z \in Slot : text'[z].count = text[z].count /\ text'[z].ip = text[z].ip
      BY <1>3, <1>4, <1>9, <1>10 DEF TypeOK
    <2> QED BY <1>3, <1>5, <2>1, <2>2, ShareCount
  <1>13. PICK n : n = 0 OBVIOUS
  <1>14. CoreOK'
    <2>1. PICK k : k = proc'[sched'.p].size OBVIOUS
    <2>2. PICK s : s = sched' OBVIOUS
    <2>3. CoreBlock(r, u'[p]) = {} /\ CoreExec(r, u'[p]) = CoreExec(proc[p], u[p]) /\ CoreTa(u'[p]) = CoreTa(u[p])
      BY <1>3, <1>9 DEF CoreBlock, CoreExec
    <2>4. CoreData(s, k) = {} /\ CoreCtext(s) = {} /\ CoreData(sched, proc[sched.p].size) = {} /\ CoreCtext(sched) = {}
      BY <1>3, <2>2 DEF CoreData, CoreCtext
    <2>5. CoreTextAt(text', 0) = {} /\ CoreTextAt(text, 0) = {} BY ProcFacts DEF CoreTextAt
    <2>6. CoreBlock(proc[p], u[p]) = Block(p) BY <1>6, <1>7 DEF CoreBlock, Block, Alive
    <2>7. SwapperSplit(core, CoreBlock(proc[p], u[p]), CoreTextAt(text, 0), sched, proc[sched.p].size)
      BY <1>4, <1>5, SwapperHas
    <2>8. /\ SwapperSplit(core', {}, {}, s, k)
          /\ SwapperSum(core', {}, {}, s, k)
               = SwapperSum(core, CoreBlock(proc[p], u[p]), CoreTextAt(text, 0), sched, proc[sched.p].size)
      BY <1>3, <2>4, <2>5, <2>6, <2>7 DEF SwapperSplit, SwapperSum, Five
    <2>9. /\ {} = CoreBlock(proc'[p], u'[p]) /\ {} = CoreTextAt(text', 0) /\ s = sched' /\ k = proc'[sched'.p].size
          /\ \A z \in Slot : z # 0 => CoreText(text'[z]) = CoreText(text[z])
          /\ CoreExec(proc'[p], u'[p]) = CoreExec(proc[p], u[p]) BY <1>3, <1>10, <2>1, <2>2, <2>3, <2>5
    <2> QED BY ONLY <1>4, <1>5, <1>10, <2>3, <2>8, <2>9, SwapperCore
  <1>15. SwapOK'
    <2>1. SwapImage(proc[p], u[p]) = {} /\ SwapStatus(r, u'[p]) = SwapStatus(proc[p], u[p])
      BY <1>3, <1>6, <1>7, <1>9 DEF SwapImage, SwapStatus, Live, Locking, Alive
    <2>2. SwapImage(r, u'[p]) = Run(a, r.img * SECTORS)
      BY <1>3, <1>6, <1>7, <1>9 DEF SwapImage, Live, Locking, Alive
    <2>3. SwapData(sched', proc'[sched'.p].img) = {} /\ SwapData(sched, proc[sched.p].img) = Run(a, r.img * SECTORS)
      BY <1>1, <1>2, <1>3, <1>9 DEF SwapData
    <2>4. \A z \in Slot : SwapText(text'[z]) = SwapText(text[z]) BY <1>3
    <2>5. Five(swap, SwapImage(proc[p], u[p]), SwapData(sched, proc[sched.p].img), {}, {})
      BY <1>4, <1>5, SwapperHas
    <2>6. PICK B : B = Run(a, r.img * SECTORS) OBVIOUS
    <2>7. /\ Five(swap', B, {}, {}, {})
          /\ swap' \cup B \cup {} = swap \cup SwapImage(proc[p], u[p]) \cup SwapData(sched, proc[sched.p].img)
      BY <1>3, <2>1, <2>3, <2>5, <2>6 DEF Five
    <2>8. B = SwapImage(proc'[p], u'[p]) /\ {} = SwapData(sched', proc'[sched'.p].img)
          /\ SwapStatus(proc'[p], u'[p]) = SwapStatus(proc[p], u[p]) BY <1>10, <2>1, <2>2, <2>3, <2>6
    <2> QED BY ONLY <1>4, <1>5, <1>10, <2>4, <2>7, <2>8, SwapperSwap
  <1>16. SchedOK'
    <2>1. \A q \in Proc : q # p => ~(Alive(q) /\ ~proc[q].load /\ proc[q].text # 0 /\ proc[q].ref)
      BY <1>3, <1>4 DEF SchedOK
    <2>2. ~(proc'[p].text # 0 /\ proc'[p].ref) /\ sched'.pc = "loop" BY <1>3, <1>6, <1>9, <1>10
    <2> QED BY <1>10, <2>1, <2>2 DEF SchedOK, Alive
  <1>17. /\ sched' \in [pc : {"loop", "runin", "runout", "intext", "indata", "out"},
                       p : {0} \cup Proc, a : Nat, ta : Nat]
         /\ sched'.pc = "loop" /\ text' \in [Slot -> TextSlot] /\ r.size = proc[p].size /\ ~r.lock
         /\ fault' = "none" /\ UNCHANGED <<u, ilock, run, calls>>
         /\ (\A z \in Slot : z # proc[p].text => text'[z] = text[z]) /\ (\A z \in Slot : text'[z].ip = text[z].ip)
         /\ \A q \in Proc : q # p => ((sched'.pc = "out" /\ sched'.p = q) <=> (sched.pc = "out" /\ sched.p = q))
    BY <1>1, <1>3, <1>4, <1>9 DEF TypeOK
  <1> QED BY <1>3, <1>5, <1>6, <1>7, <1>9, <1>10, <1>11, <1>12, <1>14, <1>15, <1>16, <1>17, SwapperKeeps

(* The swapper starts to put m out.                                        *)
LEMMA PutOutKeeps ==
    ASSUME IInv, fault = "none", run = 0, sched.pc = "loop", \A q \in Proc : ~Small(q),
           NEW m \in Proc, proc[m].load, ~proc[m].lock, Up(proc[m]),
           NEW n \in ImageSizes(m), NEW a, a = Malloc(swap, n * SECTORS), a # 0,
           swap' = swap \ Run(a, n * SECTORS),
           proc' = [proc EXCEPT ![m] = [Leaving(proc[m], n) EXCEPT !.load = FALSE]],
           core' = core \cup XccFrees(proc[m].text), text' = Xccdec(text, proc[m].text),
           u[m].for = "image" \/ Unheld(m) => fault' \in {"orphan", "unheld"},
           ~(u[m].for = "image" \/ Unheld(m)) => fault' = "none",
           sched' = [pc |-> "out", p |-> m, a |-> a, ta |-> 0],
           UNCHANGED <<u, ilock, run, calls>> PROVE IInv'
  <1>1. TypeOK /\ Good /\ SchedOK /\ CoreOK /\ SwapOK /\ LockOK /\ CountOK /\ RunOK BY DEF IInv, Good
  <1>2. PICK x : x = proc[m].text OBVIOUS
  <1>3. /\ proc[m] \in ProcSlot /\ u[m] \in Locals /\ RegsOK(m, proc[m], u[m]) /\ Alive(m)
        /\ ~Locking(u[m]) /\ u[m].pc \notin {"attach", "claim", "commit"}
    BY <1>1, ProcFacts DEF Good, LocalOK, RegsOK, TypeOK, Alive, Live, Up, LockOK, RunOK
  <1>4. n \in Nat /\ n * SECTORS \in Nat BY <1>1, ImageSizesIs
  <1>5. a \in Nat /\ Run(a, n * SECTORS) \subseteq swap BY <1>1, <1>4, MallocFits, Numbers DEF TypeOK
  <1>6. PICK r : r = [Leaving(proc[m], n) EXCEPT !.load = FALSE] OBVIOUS
  <1>7. /\ r \in ProcSlot /\ r.ref = (proc[m].ref /\ x = 0) /\ r.stat = proc[m].stat /\ r.load = FALSE /\ r.lock = TRUE
        /\ r.addr = proc[m].addr /\ r.size = proc[m].size /\ r.img = n /\ r.text = x /\ r.par = proc[m].par
        /\ r.chan = proc[m].chan
    <2>1. PICK b \in BOOLEAN : b = (proc[m].ref /\ proc[m].text = 0) OBVIOUS
    <2>2. r = [[proc[m] EXCEPT !.img = n, !.lock = TRUE, !.ref = b] EXCEPT !.load = FALSE]
      BY <1>6, <2>1 DEF Leaving
    <2> QED BY <1>2, <1>3, <1>4, <2>1, <2>2 DEF ProcSlot
  <1>8. /\ proc' \in [Proc -> ProcSlot] /\ proc'[m] = r /\ \A q \in Proc : q # m => proc'[q] = proc[q]
        /\ StandBy(m) /\ \A q \in Proc : q # m => StatusOK(q, proc'[q], u'[q])
        /\ FamilyOK' /\ OthersCore(m, proc', u') /\ OthersSwap(m, proc', u')
    BY <1>3, <1>6, <1>7, SlotMoves DEF Alive, Live
  <1>9. Left(m, x) /\ core' = core \cup XccFrees(x) BY <1>1, <1>2, LeavesIs
  <1>10. /\ sched' \in [pc : {"loop", "runin", "runout", "intext", "indata", "out"},
                       p : {0} \cup Proc, a : Nat, ta : Nat]
         /\ sched'.pc = "out" /\ sched'.p = m /\ sched'.a = a BY <1>5
  <1>11. CASE u[m].for = "image" \/ Unheld(m)
    <2>1. XccFrees(x) \subseteq 1..NCORE BY <1>1, <1>9, CoreHeld DEF Left
    <2>2. TypeOK' BY <1>1, <1>8, <1>9, <1>10, <1>11, <2>1 DEF TypeOK, Left
    <2> QED BY <1>11, <2>2 DEF IInv
  <1>12. CASE ~(u[m].for = "image" \/ Unheld(m))
    <2>1. RegsOK(m, r, u[m])
      BY <1>2, <1>3, <1>7, <1>12 DEF RegsOK, StatusOK, PurposeOK, AttachOK, SizeOK, Locking, Up
    <2>2. /\ text' \in [Slot -> TextSlot] /\ \A z \in Slot : z # x => text'[z] = text[z]
          /\ \A z \in Slot : text'[z].count = text[z].count /\ text'[z].ip = text[z].ip /\ text'[z].daddr = text[z].daddr
          /\ CoreTextAt(text, x) = CoreTextAt(text', x) \cup XccFrees(x) /\ CoreTextAt(text', x) \cap XccFrees(x) = {}
          /\ \A z \in Slot : text'[z].ccount + (IF x = z /\ proc[m].ref THEN 1 ELSE 0) = text[z].ccount
      BY <1>9, <1>12 DEF Left
    <2>3. CountOK'
      <3>1. \A z \in Slot : text'[z].ccount + (IF r.text = z /\ proc[m].ref THEN 1 ELSE 0)
                             = text[z].ccount + (IF r.text = z /\ r.ref THEN 1 ELSE 0)
        <4>1. \A z \in Slot : text[z].ccount \in Nat /\ ~(r.text = z /\ r.ref)
          BY <1>1, <1>7, ProcFacts DEF TypeOK, TextSlot
        <4> QED BY <1>7, <2>2, <4>1
      <3>2. /\ r \in ProcSlot /\ proc'[m] = r /\ r.text = proc[m].text /\ text' \in [Slot -> TextSlot] /\ StandBy(m) /\ UNCHANGED u
            /\ \A z \in Slot : text'[z].count = text[z].count /\ text'[z].ip = text[z].ip
        BY <1>2, <1>7, <1>8, <2>2
      <3> QED BY <3>1, <3>2, ShareCount
    <2>4. CoreOK'
      <3>1. PICK k : k = proc'[sched'.p].size OBVIOUS
      <3>2. PICK s : s = sched' OBVIOUS
      <3>3. PICK B : B = CoreBlock(proc[m], u[m]) OBVIOUS
      <3>4. CoreBlock(r, u'[m]) = B /\ CoreExec(r, u'[m]) = CoreExec(proc[m], u[m]) /\ CoreTa(u'[m]) = CoreTa(u[m])
        BY <1>3, <1>7, <3>3 DEF CoreBlock, CoreExec, Alive, Live
      <3>5. CoreData(s, k) = {} /\ CoreCtext(s) = {} /\ CoreData(sched, proc[sched.p].size) = {} /\ CoreCtext(sched) = {}
        BY <1>10, <3>2 DEF CoreData, CoreCtext
      <3>6. PICK X : X = CoreTextAt(text', x) OBVIOUS
      <3>7. SwapperSplit(core, B, CoreTextAt(text, x), sched, proc[sched.p].size) BY <1>1, <3>3, SwapperHas
      <3>8. /\ SwapperSplit(core', B, X, s, k)
            /\ SwapperSum(core', B, X, s, k) = SwapperSum(core, B, CoreTextAt(text, x), sched, proc[sched.p].size)
        BY <1>9, <2>2, <3>5, <3>6, <3>7 DEF SwapperSplit, SwapperSum, Five
      <3>9. /\ B = CoreBlock(proc'[m], u'[m]) /\ X = CoreTextAt(text', x) /\ s = sched' /\ k = proc'[sched'.p].size
            /\ \A z \in Slot : z # x => CoreText(text'[z]) = CoreText(text[z])
            /\ CoreExec(proc'[m], u'[m]) = CoreExec(proc[m], u[m]) BY <1>8, <2>2, <3>1, <3>2, <3>4, <3>6
      <3> QED BY ONLY <1>1, <1>8, <3>3, <3>4, <3>8, <3>9, SwapperCore, m \in Proc
    <2>5. SwapOK'
      <3>1. SwapImage(proc[m], u[m]) = {} /\ SwapImage(r, u'[m]) = {} /\ SwapStatus(r, u'[m]) = SwapStatus(proc[m], u[m])
        BY <1>3, <1>7 DEF SwapImage, SwapStatus, Locking
      <3>2. PICK D : D = Run(a, n * SECTORS) OBVIOUS
      <3>3. SwapData(sched', proc'[sched'.p].img) = D /\ SwapData(sched, proc[sched.p].img) = {}
        BY <1>7, <1>8, <1>10, <3>2 DEF SwapData
      <3>4. \A z \in Slot : SwapText(text'[z]) = SwapText(text[z]) BY <2>2 DEF SwapText
      <3>5. /\ Five(swap', {}, D, {}, {})
            /\ swap' \cup {} \cup D = swap \cup SwapImage(proc[m], u[m]) \cup SwapData(sched, proc[sched.p].img)
        BY <1>5, <3>1, <3>2, <3>3 DEF Five
      <3>6. {} = SwapImage(proc'[m], u'[m]) /\ D = SwapData(sched', proc'[sched'.p].img)
            /\ SwapStatus(proc'[m], u'[m]) = SwapStatus(proc[m], u[m]) BY <1>8, <3>1, <3>3
      <3> QED BY ONLY <1>1, <1>8, <3>4, <3>5, <3>6, SwapperSwap, m \in Proc
    <2>6. SchedOK'
      <3>1. \A q \in Proc : q # m => ~(Alive(q) /\ ~proc[q].load /\ proc[q].text # 0 /\ proc[q].ref)
        BY <1>1 DEF SchedOK
      <3>2. ~(proc'[m].text # 0 /\ proc'[m].ref) /\ m # 0 /\ Live(proc'[m]) /\ ~proc'[m].load
        BY <1>3, <1>7, <1>8, ProcFacts DEF Alive, Live
      <3> QED BY <1>8, <1>10, <3>1, <3>2 DEF SchedOK, Alive
    <2>7. /\ r.size = proc[m].size /\ r.lock /\ fault' = "none" /\ UNCHANGED <<u, ilock, run, calls>>
          /\ (\A z \in Slot : z # proc[m].text => text'[z] = text[z]) /\ (\A z \in Slot : text'[z].ip = text[z].ip)
          /\ \A q \in Proc : q # m => ((sched'.pc = "out" /\ sched'.p = q) <=> (sched.pc = "out" /\ sched.p = q))
      BY <1>2, <1>7, <1>10, <1>12, <2>2
    <2> QED BY <1>3, <1>7, <1>8, <1>10, <2>1, <2>2, <2>3, <2>4, <2>5, <2>6, <2>7, SwapperKeeps
  <1> QED BY <1>11, <1>12

(* The swapper chooses a process to put out. *)
LEMMA SwapOutKeeps ==
    ASSUME IInv, NEW p \in Proc, SwapOut(p) PROVE IInv'
  <1>1. /\ run = 0 /\ fault = "none" /\ sched.pc = "loop" /\ UNCHANGED <<u, ilock, run, calls>>
        /\ \E q \in Absent : ~Room(q)
        /\ IF Easy # {} THEN p = Least(Easy) ELSE p \in Victims({"run", "sleep"})
    BY DEF SwapOut, Sched, Between
  <1>2. p \in Easy \/ p \in Victims({"run", "sleep"})
    <2>1. Easy \subseteq 1..NPROC BY DEF Easy, Victims, Proc
    <2> QED BY <1>1, <2>1, LeastIn, Numbers
  <1>3. proc[p].load /\ ~proc[p].lock /\ Up(proc[p]) BY <1>2 DEF Easy, Victims, Up
  <1>4. \A q \in Proc : ~Small(q)
    <2>1. PICK q \in Proc : Alive(q) /\ ~proc[q].load BY <1>1 DEF Absent, Alive, Live
    <2> QED BY <1>1, <2>1, AwayIs
  <1>5. PICK n \in ImageSizes(p) :
          LET a == Malloc(swap, n * SECTORS)
          IN  \/ /\ a = 0
                 /\ Sloop
                 /\ UNCHANGED <<core, swap, proc, text, fault>>
              \/ /\ a # 0
                 /\ swap' = swap \ Run(a, n * SECTORS)
                 /\ proc' = [proc EXCEPT ![p] = [Leaving(@, n) EXCEPT !.load = FALSE]]
                 /\ core' = core \cup XccFrees(proc[p].text)
                 /\ text' = Xccdec(text, proc[p].text)
                 /\ fault' = CASE u[p].for = "image" -> "orphan"
                               [] Unheld(p)          -> "unheld"
                               [] OTHER              -> fault
                 /\ sched' = [pc |-> "out", p |-> p, a |-> a, ta |-> 0] BY DEF SwapOut
  <1>6. PICK a : a = Malloc(swap, n * SECTORS) OBVIOUS
  <1>7. CASE Sloop /\ UNCHANGED <<core, swap, proc, text, fault>> BY <1>1, <1>7, SwapperLooks DEF Sloop
  <1>8. CASE /\ a # 0
             /\ swap' = swap \ Run(a, n * SECTORS)
             /\ proc' = [proc EXCEPT ![p] = [Leaving(@, n) EXCEPT !.load = FALSE]]
             /\ core' = core \cup XccFrees(proc[p].text)
             /\ text' = Xccdec(text, proc[p].text)
             /\ fault' = CASE u[p].for = "image" -> "orphan"
                           [] Unheld(p)          -> "unheld"
                           [] OTHER              -> fault
             /\ sched' = [pc |-> "out", p |-> p, a |-> a, ta |-> 0]
    <2>1. proc' = [proc EXCEPT ![p] = [Leaving(proc[p], n) EXCEPT !.load = FALSE]] BY <1>8 DEF IInv, TypeOK
    <2>2. PICK f : f = fault' OBVIOUS
    <2>3. f = CASE u[p].for = "image" -> "orphan"
                [] Unheld(p)          -> "unheld"
                [] OTHER              -> fault BY <1>8, <2>2
    <2>4. /\ u[p].for = "image" \/ Unheld(p) => f \in {"orphan", "unheld"}
          /\ ~(u[p].for = "image" \/ Unheld(p)) => f = "none" BY <1>1, <2>3
    <2> QED BY <1>1, <1>3, <1>4, <1>6, <1>8, <2>1, <2>2, <2>4, PutOutKeeps
  <1> QED BY <1>5, <1>6, <1>7, <1>8

(* Processes that waited for swap space are woken.                         *)
LEMMA WokenIs ==
    ASSUME TypeOK, LocalOK, NEW q \in Proc, NEW w, w = Woken(proc, "swapmap")[q]
    PROVE  /\ w \in ProcSlot /\ SlotSame(proc[q], w) /\ StatusOK(q, w, u[q])
           /\ w.stat = "none" <=> proc[q].stat = "none"
           /\ w.stat = "zombie" <=> proc[q].stat = "zombie"
           /\ w.stat = "idle" <=> proc[q].stat = "idle"
           /\ w.chan = "child" => proc[q].chan = "child"
  <1>1. proc[q] \in ProcSlot /\ StatusOK(q, proc[q], u[q]) BY DEF TypeOK, LocalOK
  <1>2. CASE proc[q].chan = "swapmap"
    <2>1. w = Runnable(proc[q]) BY <1>2 DEF Woken
    <2>2. w \in ProcSlot /\ SlotSame(proc[q], w) /\ w.stat = "run" /\ w.chan = "none" /\ proc[q].stat = "sleep"
          /\ u[q].pc = "getswap" BY <1>1, <1>2, <2>1, RunnableIs DEF StatusOK
    <2> QED BY <1>1, <2>2 DEF StatusOK
  <1>3. CASE proc[q].chan # "swapmap" BY <1>1, <1>3 DEF Woken, SlotSame
  <1> QED BY <1>2, <1>3

(* and the image, which gives its swap space up. *)
LEMMA InDataKeeps ==
    ASSUME IInv, InData PROVE IInv'
  <1>1. PICK m : m = sched.p OBVIOUS
  <1>2. PICK a : a = sched.a OBVIOUS
  <1>3. /\ run = 0 /\ fault = "none" /\ sched.pc = "indata"
        /\ UNCHANGED <<core, text, u, ilock, run, fault, calls>>
        /\ swap' = swap \cup Image(m)
        /\ proc' = [Woken(proc, "swapmap") EXCEPT ![m].addr = a, ![m].load = TRUE, ![m].img = 0]
        /\ sched' = [pc |-> "loop", p |-> 0, a |-> 0, ta |-> 0] BY <1>1, <1>2 DEF InData, Sched, Between
  <1>4. TypeOK /\ Good /\ SchedOK /\ CoreOK /\ SwapOK /\ LockOK /\ LocalOK /\ BootOK /\ FamilyOK
    BY <1>3 DEF IInv, Good
  <1>5. m \in Proc /\ a \in Nat BY <1>1, <1>2, <1>3, <1>4 DEF TypeOK, SchedOK
  <1>6. Alive(m) /\ ~proc[m].load /\ (proc[m].text # 0 => proc[m].ref) BY <1>1, <1>3, <1>4, <1>5 DEF SchedOK
  <1>7. /\ proc[m] \in ProcSlot /\ u[m] \in Locals /\ RegsOK(m, proc[m], u[m])
        /\ (\A q \in Proc : ~Small(q)) /\ ~Locking(u[m]) /\ ~proc[m].lock /\ u[m].for # "image"
    BY <1>1, <1>3, <1>5, <1>6, AwayIs
  <1>8. PICK W : W = Woken(proc, "swapmap") OBVIOUS
  <1>9. \A q \in Proc : /\ W[q] \in ProcSlot /\ SlotSame(proc[q], W[q]) /\ StatusOK(q, W[q], u[q])
                        /\ W[q].stat = "none" <=> proc[q].stat = "none"
                        /\ W[q].stat = "zombie" <=> proc[q].stat = "zombie"
                        /\ W[q].stat = "idle" <=> proc[q].stat = "idle"
                        /\ W[q].chan = "child" => proc[q].chan = "child" BY <1>4, <1>8, WokenIs
  <1>10. PICK r : r = [W[m] EXCEPT !.addr = a, !.load = TRUE, !.img = 0] OBVIOUS
  <1>11. /\ r \in ProcSlot /\ r.ref = proc[m].ref /\ r.stat = W[m].stat /\ r.load = TRUE /\ r.lock = FALSE /\ r.addr = a
         /\ r.size = proc[m].size /\ r.img = 0 /\ r.text = proc[m].text /\ r.par = proc[m].par /\ r.chan = W[m].chan
    <2>1. PICK w : w = W[m] OBVIOUS
    <2>2. w \in ProcSlot /\ SlotSame(proc[m], w) BY <1>5, <1>9, <2>1
    <2>3. PICK b \in BOOLEAN : b = w.lock BY <2>2 DEF ProcSlot
    <2>4. r \in ProcSlot /\ r.ref = w.ref /\ r.stat = w.stat /\ r.load = TRUE /\ r.lock = b /\ r.addr = a
          /\ r.size = w.size /\ r.img = 0 /\ r.text = w.text /\ r.par = w.par /\ r.chan = w.chan
      BY <1>5, <1>10, <2>1, <2>2, <2>3 DEF ProcSlot
    <2>5. b = FALSE BY <1>7, <2>2, <2>3 DEF SlotSame
    <2> QED BY <2>1, <2>2, <2>4, <2>5 DEF SlotSame
  <1>12. proc' \in [Proc -> ProcSlot] /\ proc'[m] = r /\ \A q \in Proc : q # m => proc'[q] = W[q]
    <2>1. W \in [Proc -> ProcSlot] BY <1>8, <1>9 DEF Woken
    <2>2. proc' = [W EXCEPT ![m] = r]
      <3>1. proc' = [W EXCEPT ![m].addr = a, ![m].load = TRUE, ![m].img = 0] BY <1>3, <1>8
      <3> QED BY ONLY <1>5, <1>10, <2>1, <3>1 DEF ProcSlot
    <2> QED BY <1>5, <1>11, <2>1, <2>2
  <1>13. StandBy(m) BY <1>3, <1>9, <1>12 DEF StandBy, Stands, SlotSame, Live
  <1>14. \A q \in Proc : q # m => StatusOK(q, proc'[q], u'[q]) BY <1>3, <1>9, <1>12
  <1>15. OthersCore(m, proc', u') /\ OthersSwap(m, proc', u') BY <1>4, <1>5, <1>13, StandOthers
  <1>16. FamilyOK'
    <2>1. \A q \in Proc : /\ proc'[q].par = proc[q].par
                          /\ proc'[q].stat = "none" <=> proc[q].stat = "none"
                          /\ proc'[q].stat = "zombie" <=> proc[q].stat = "zombie"
                          /\ proc'[q].stat = "idle" <=> proc[q].stat = "idle"
                          /\ proc'[q].chan = "child" => proc[q].chan = "child"
      BY <1>9, <1>11, <1>12 DEF SlotSame
    <2> QED BY <1>3, <1>4, <2>1, FamilyStays
  <1>17. RegsOK(m, r, u[m])
    <2>1. StatusOK(m, r, u[m])
      <3>1. r.stat \notin {"none", "zombie"} BY <1>6, <1>9, <1>11, <1>5 DEF Alive, Live
      <3>2. StatusOK(m, W[m], u[m]) BY <1>5, <1>9
      <3> QED BY <1>11, <3>1, <3>2 DEF StatusOK
    <2> QED BY <1>6, <1>7, <1>11, <2>1 DEF RegsOK, PurposeOK, AttachOK, SizeOK, Locking
  <1>18. CountOK'
    <2>1. \A z \in Slot : text'[z].ccount + (IF r.text = z /\ proc[m].ref THEN 1 ELSE 0)
                           = text[z].ccount + (IF r.text = z /\ r.ref THEN 1 ELSE 0) BY <1>3, <1>11
    <2>2. /\ r \in ProcSlot /\ proc'[m] = r /\ r.text = proc[m].text /\ text' \in [Slot -> TextSlot] /\ StandBy(m) /\ UNCHANGED u
          /\ \A z \in Slot : text'[z].count = text[z].count /\ text'[z].ip = text[z].ip
      BY <1>3, <1>4, <1>11, <1>12, <1>13 DEF TypeOK
    <2> QED BY <1>3, <1>5, <2>1, <2>2, ShareCount
  <1>19. CoreOK'
    <2>1. PICK k : k = proc'[sched'.p].size OBVIOUS
    <2>2. PICK s : s = sched' OBVIOUS
    <2>3. PICK B : B = Run(a, proc[m].size) OBVIOUS
    <2>4. CoreBlock(r, u'[m]) = B /\ CoreExec(r, u'[m]) = CoreExec(proc[m], u[m]) /\ CoreTa(u'[m]) = CoreTa(u[m])
      <3>1. Live(r) BY <1>5, <1>6, <1>9, <1>11 DEF Alive, Live
      <3> QED BY <1>3, <1>7, <1>11, <2>3, <3>1 DEF CoreBlock, CoreExec
    <2>5. CoreData(s, k) = {} /\ CoreCtext(s) = {} /\ CoreData(sched, proc[sched.p].size) = B /\ CoreCtext(sched) = {}
      BY <1>1, <1>2, <1>3, <2>2, <2>3 DEF CoreData, CoreCtext
    <2>6. CoreTextAt(text', 0) = {} /\ CoreTextAt(text, 0) = {} BY ProcFacts DEF CoreTextAt
    <2>7. CoreBlock(proc[m], u[m]) = {} BY <1>6, <1>7 DEF CoreBlock
    <2>8. SwapperSplit(core, CoreBlock(proc[m], u[m]), CoreTextAt(text, 0), sched, proc[sched.p].size)
      BY <1>4, <1>5, SwapperHas
    <2>9. /\ SwapperSplit(core', B, {}, s, k)
          /\ SwapperSum(core', B, {}, s, k)
               = SwapperSum(core, CoreBlock(proc[m], u[m]), CoreTextAt(text, 0), sched, proc[sched.p].size)
      BY <1>3, <2>5, <2>6, <2>7, <2>8 DEF SwapperSplit, SwapperSum, Five
    <2>10. /\ B = CoreBlock(proc'[m], u'[m]) /\ {} = CoreTextAt(text', 0) /\ s = sched' /\ k = proc'[sched'.p].size
           /\ \A z \in Slot : z # 0 => CoreText(text'[z]) = CoreText(text[z])
           /\ CoreExec(proc'[m], u'[m]) = CoreExec(proc[m], u[m]) BY <1>3, <1>12, <2>1, <2>2, <2>4, <2>6
    <2> QED BY ONLY <1>4, <1>5, <1>15, <2>4, <2>9, <2>10, SwapperCore
  <1>20. SwapOK'
    <2>1. SwapStatus(r, u'[m]) = SwapStatus(proc[m], u[m])
      <3>1. r.stat # "zombie" /\ proc[m].stat # "zombie" BY <1>5, <1>6, <1>9, <1>11 DEF Alive, Live
      <3> QED BY <1>3, <3>1 DEF SwapStatus
    <2>2. SwapImage(r, u'[m]) = {} /\ SwapImage(proc[m], u[m]) = Image(m)
      BY <1>3, <1>6, <1>7, <1>11 DEF SwapImage, Alive, Locking, Image
    <2>3. SwapData(sched', proc'[sched'.p].img) = {} /\ SwapData(sched, proc[sched.p].img) = {}
      BY <1>3 DEF SwapData
    <2>4. \A z \in Slot : SwapText(text'[z]) = SwapText(text[z]) BY <1>3
    <2>5. Five(swap, SwapImage(proc[m], u[m]), SwapData(sched, proc[sched.p].img), {}, {})
      BY <1>4, <1>5, SwapperHas
    <2>6. /\ Five(swap', {}, {}, {}, {})
          /\ swap' \cup {} \cup {} = swap \cup SwapImage(proc[m], u[m]) \cup SwapData(sched, proc[sched.p].img)
      BY <1>3, <2>2, <2>3, <2>5 DEF Five
    <2>7. {} = SwapImage(proc'[m], u'[m]) /\ {} = SwapData(sched', proc'[sched'.p].img)
          /\ SwapStatus(proc'[m], u'[m]) = SwapStatus(proc[m], u[m]) BY <1>12, <2>1, <2>2, <2>3
    <2> QED BY ONLY <1>4, <1>5, <1>15, <2>4, <2>6, <2>7, SwapperSwap
  <1>21. SchedOK'
    <2>1. \A q \in Proc : q # m => ~(Alive(q) /\ ~proc[q].load /\ proc[q].text # 0 /\ proc[q].ref)
      BY <1>1, <1>3, <1>4 DEF SchedOK
    <2>2. \A q \in Proc : q # m => ~(Live(proc'[q]) /\ ~proc'[q].load /\ proc'[q].text # 0 /\ proc'[q].ref)
      BY <1>13, <2>1 DEF StandBy, Stands, Alive
    <2>3. proc'[m].load /\ sched'.pc = "loop" BY <1>3, <1>11, <1>12
    <2> QED BY <2>2, <2>3 DEF SchedOK, Alive
  <1>22. /\ sched' \in [pc : {"loop", "runin", "runout", "intext", "indata", "out"},
                       p : {0} \cup Proc, a : Nat, ta : Nat]
         /\ sched'.pc = "loop" /\ sched.pc = "indata" /\ text' \in [Slot -> TextSlot] /\ r.size = proc[m].size /\ ~r.lock
         /\ fault' = "none" /\ UNCHANGED <<u, ilock, run, calls>>
         /\ (\A z \in Slot : z # proc[m].text => text'[z] = text[z]) /\ (\A z \in Slot : text'[z].ip = text[z].ip)
    BY <1>3, <1>4, <1>11 DEF TypeOK
  <1> QED BY <1>3, <1>5, <1>6, <1>7, <1>11, <1>12, <1>13, <1>14, <1>16, <1>17, <1>18, <1>19, <1>20, <1>21, <1>22, SwapperKeeps

----
(* The whole machine.                                                      *)

(* The invariant holds when main starts, *)
LEMMA InitHolds == Init => IInv
  <1> SUFFICES ASSUME Init PROVE IInv OBVIOUS
  <1>1. PICK b : b = [Free EXCEPT !.stat = "run", !.load = TRUE, !.addr = 1, !.size = 1] OBVIOUS
  <1>2. /\ b \in ProcSlot /\ b.stat = "run" /\ b.load /\ ~b.lock /\ b.addr = 1 /\ b.size = 1 /\ b.img = 0
        /\ b.text = 0 /\ b.par = 0 /\ b.chan = "none" BY <1>1 DEF Free, ProcSlot
  <1>3. /\ core = 2..NCORE /\ swap = 1..NSWAP /\ proc = [p \in Proc |-> IF p = 1 THEN b ELSE Free]
        /\ text = [x \in Slot |-> NoText] /\ u = [p \in Proc |-> Home] /\ ilock = [g \in Prog |-> 0]
        /\ run = 0 /\ sched = [pc |-> "loop", p |-> 0, a |-> 0, ta |-> 0] /\ fault = "none" /\ calls = MaxCalls
    BY <1>1 DEF Init
  <1>4. /\ NoText \in TextSlot /\ NoText.ip = NoProg /\ NoText.count = 0 /\ NoText.ccount = 0
    BY DEF NoText, TextSlot
  <1>5. /\ \A p \in Proc : u[p] = Home /\ (proc[p] = b \/ proc[p] = Free) /\ (p # 1 => proc[p] = Free)
        /\ proc[1] = b /\ \A x \in Slot : text[x] = NoText BY <1>3, ProcFacts
  <1>6. TypeOK BY <1>2, <1>3, <1>4, HomeIs, FreeIs, Numbers DEF TypeOK
  <1>7. LocalOK
    BY <1>2, <1>5, HomeIs, FreeIs DEF LocalOK, StatusOK, PurposeOK, AttachOK, SizeOK, Saving, Growing, Valve,
      Swelled
  <1>8. BootOK
    <2>1. \A p \in Proc : Small(p) => p = 1 BY <1>5, FreeIs DEF Small, Alive, Live
    <2>2. core = Rest(2) /\ sched.pc = "loop" BY <1>3 DEF Rest
    <2>3. u[1] = Home /\ proc[1] = b /\ \A q \in Proc : q # 1 => proc[q].stat = "none"
      BY <1>5, ProcFacts, FreeIs
    <2> QED BY <1>2, <1>5, <2>1, <2>2, <2>3, HomeIs DEF BootOK
  <1>9. RunOK /\ LockOK BY <1>2, <1>3, <1>5, HomeIs, FreeIs DEF RunOK, LockOK, Locking
  <1>10. SchedOK BY <1>2, <1>3, <1>5, FreeIs DEF SchedOK, Alive, Live
  <1>11. ExecOK BY <1>5, HomeIs DEF ExecOK, Execing, Growing, Saving
  <1>12. FamilyOK BY <1>2, <1>5, HomeIs, FreeIs DEF FamilyOK
  <1>13. CountOK
    <2>1. ASSUME NEW x \in Slot PROVE Refs(x) = {} /\ CoreRefs(x) = {}
      <3>1. \A p \in Proc : proc[p].text # x BY <1>2, <1>5, FreeIs, ProcFacts
      <3>2. Refs(x) = {}
        <4>1. ASSUME NEW k \in Kinds, NEW p \in Proc PROVE ~Refers(k, proc[p], u[p], x)
          BY <1>5, <3>1, HomeIs DEF Refers, Retargeted, Kinds
        <4>2. \A c \in Kinds \X Proc : ~Refers(c[1], proc[c[2]], u[c[2]], x) BY <4>1
        <4> QED BY <4>2 DEF Refs
      <3> QED BY <3>2, RefsIn
    <2>2. Cardinality({}) = 0 BY FS_EmptySet
    <2> QED BY <1>4, <1>5, <2>1, <2>2 DEF CountOK
  <1>14. \A p \in Proc : CoreExec(proc[p], u[p]) = {} /\ CoreTa(u[p]) = {} /\ SwapImage(proc[p], u[p]) = {}
                         /\ SwapStatus(proc[p], u[p]) = {} /\ (p # 1 => CoreBlock(proc[p], u[p]) = {})
    BY <1>2, <1>5, HomeIs, FreeIs DEF CoreExec, CoreTa, SwapImage, SwapStatus, CoreBlock, Live
  <1>15. CoreBlock(proc[1], u[1]) = {1} BY <1>2, <1>5, ProcFacts, HomeIs DEF CoreBlock, Live, Run
  <1>16. /\ \A x \in Slot : CoreText(text[x]) = {} /\ SwapText(text[x]) = {}
         /\ CoreData(sched, proc[sched.p].size) = {} /\ CoreCtext(sched) = {} /\ SwapData(sched, proc[sched.p].img) = {}
    BY <1>3, <1>4, <1>5 DEF CoreText, SwapText, CoreData, CoreCtext, SwapData
  <1>17. CoreOK
    <2>1. <<"block", 1>> \in Holders /\ CoreOf[<<"block", 1>>] = {1} BY <1>15, CoreAt, HolderIs, ProcFacts
    <2>2. \A h \in Holders : h # <<"block", 1>> => CoreOf[h] = {} BY <1>14, <1>16, CoreAt, HolderIs
    <2>3. 1 \in 1..NCORE /\ 1 \notin core /\ core \subseteq 1..NCORE /\ \A k \in 1..NCORE : k \notin core => k = 1
      BY <1>3, Numbers
    <2> QED BY <2>1, <2>2, <2>3 DEF CoreOK, Apart
  <1>18. SwapOK
    <2>1. \A h \in Holders : SwapOf[h] = {} BY <1>14, <1>16, SwapAt, HolderIs
    <2> QED BY <1>3, <2>1 DEF SwapOK, Apart
  <1> QED BY <1>6, <1>7, <1>8, <1>9, <1>10, <1>11, <1>12, <1>13, <1>17, <1>18 DEF IInv, Good

(* when nothing happens, *)
LEMMA StutterKeeps == IInv /\ UNCHANGED vars => IInv'
  <1> SUFFICES ASSUME IInv, UNCHANGED vars PROVE IInv' OBVIOUS
  <1>1. UNCHANGED <<core, swap, proc, text, u, ilock, run, sched, fault, calls>> BY DEF vars
  <1>2. TypeOK' BY <1>1 DEF IInv, TypeOK
  <1>3. CASE fault = "none"
    <2>1. Good BY <1>3 DEF IInv
    <2>2. \A x : Refs(x)' = Refs(x) /\ CoreRefs(x)' = CoreRefs(x) BY <1>1 DEF Refs, CoreRefs
    <2>3. CoreOf' = CoreOf /\ SwapOf' = SwapOf BY <1>1 DEF CoreOf, SwapOf
    <2>4. \A q \in Proc : Children(q)' = Children(q) /\ Zombies(q)' = Zombies(q)
      BY <1>1 DEF Children, Zombies
    <2>5. LocalOK' /\ BootOK' /\ RunOK' /\ LockOK' /\ SchedOK' /\ ExecOK'
      <3>1. LocalOK' BY <1>1, <2>1 DEF Good, LocalOK
      <3>2. BootOK' BY <1>1, <2>1 DEF Good, BootOK, Small, Alive
      <3>3. RunOK' /\ LockOK' /\ SchedOK' BY <1>1, <2>1 DEF Good, RunOK, LockOK, SchedOK, Alive
      <3>4. ExecOK' BY <1>1, <2>1 DEF Good, ExecOK, Entry
      <3> QED BY <3>1, <3>2, <3>3, <3>4
    <2>6. FamilyOK' BY <1>1, <2>1, FamilyStays DEF Good
    <2>7. CountOK' BY <1>1, <2>1, <2>2 DEF Good, CountOK
    <2>8. CoreOK' /\ SwapOK' BY <1>1, <2>1, <2>3 DEF Good, CoreOK, SwapOK
    <2> QED BY <1>2, <2>5, <2>6, <2>7, <2>8 DEF IInv, Good
  <1>4. CASE fault # "none" BY <1>1, <1>2, <1>4 DEF IInv
  <1> QED BY <1>3, <1>4

(* and across every step. *)
LEMMA NextKeeps == IInv /\ [Next]_vars => IInv'
  <1> SUFFICES ASSUME IInv, [Next]_vars PROVE IInv' OBVIOUS
  <1>1. ASSUME NEW p \in Proc, Step(p) PROVE IInv'
    <2>1. CASE Imaged(p) \/ SwapWaits(p) \/ SwapSelf(p) \/ SwappedOut(p) \/ Back(p)
      BY <2>1, ImagedKeeps, SwapWaitsKeeps, SwapSelfKeeps, SwappedOutKeeps, BackKeeps
    <2>2. CASE ExecBad(p) \/ ExecBlock(p) \/ AttachShared(p) \/ Reloaded(p)
      BY <2>2, ExecBadKeeps, ExecBlockKeeps, AttachSharedKeeps, ReloadedKeeps
    <2>3. CASE AttachNew(p) \/ Claim(p) \/ LoadFails(p) \/ Loaded(p) \/ Proto(p)
      BY <2>3, AttachNewKeeps, ClaimKeeps, LoadFailsKeeps, LoadedKeeps, ProtoKeeps
    <2>4. CASE Commit(p) \/ IputWaits(p) \/ Committed(p) \/ ExecDone(p)
      BY <2>4, CommitKeeps, IputWaitsKeeps, CommittedKeeps, ExecDoneKeeps
    <2>5. CASE Save(p) \/ Die(p) \/ WaitSleeps(p) \/ Status(p) \/ Reap(p)
      BY <2>5, SaveKeeps, DieKeeps, WaitSleepsKeeps, StatusKeeps, ReapKeeps
    <2> QED BY <1>1, <2>1, <2>2, <2>3, <2>4, <2>5 DEF Step
  <1>2. ASSUME NEW p \in Proc, User(p) PROVE IInv'
    BY <1>2, ForkKeeps, ForkNoCoreKeeps, ExitKeeps, WaitKeeps, PauseKeeps, ExecKeeps DEF User
  <1>3. ASSUME NEW p \in Proc, IoDone(p) \/ Psignal(p) PROVE IInv' BY <1>3, IoDoneKeeps, PsignalKeeps
  <1>4. ASSUME Swapper PROVE IInv'
    BY <1>4, SchedIdleKeeps, InTextKeeps, InDataKeeps, NobodyOutKeeps, OutDoneKeeps, RuninKeeps, SwapInKeeps,
      SwapOutKeeps DEF Swapper
  <1> QED BY <1>1, <1>2, <1>3, <1>4, StutterKeeps DEF Next

(* Every state the machine reaches is a good one, or it has met a fault.   *)
THEOREM Machine == Spec => []IInv BY InitHolds, NextKeeps, PTL DEF Spec

(* The division, as the properties state it. *)
LEMMA ApartSplits ==
    ASSUME NEW units, NEW free, NEW of, Apart(units, free, of) PROVE Split(units, free, of)
  <1>1. \A c : c \in Claims(of) <=> \E h \in Holders : \E k \in of[h] : c = <<h, k>> BY DEF Claims
  <1>2. PICK C : C = Claims(of) OBVIOUS
  <1>3. \A k : k \in {c[2] : c \in C} <=> \E h \in Holders : k \in of[h]
    <2>1. ASSUME NEW k, k \in {c[2] : c \in C} PROVE \E h \in Holders : k \in of[h] BY <1>1, <1>2, <2>1
    <2>2. ASSUME NEW k, NEW h \in Holders, k \in of[h] PROVE k \in {c[2] : c \in C}
      <3>1. <<h, k>> \in C BY <1>1, <1>2, <2>2
      <3>2. <<h, k>>[2] = k OBVIOUS
      <3> QED BY <3>1, <3>2
    <2> QED BY <2>1, <2>2
  <1>4. ASSUME NEW c \in C, NEW d \in C, c[2] = d[2] PROVE c = d
    <2>1. PICK g \in Holders, h \in Holders : c[2] \in of[g] /\ d[2] \in of[h] /\ c = <<g, c[2]>> /\ d = <<h, d[2]>>
      BY <1>1, <1>2
    <2>2. g = h BY <1>4, <2>1 DEF Apart
    <2> QED BY <1>4, <2>1, <2>2
  <1>5. PICK H : H = {c[2] : c \in C} OBVIOUS
  <1>6. units = free \cup H /\ free \cap H = {} BY <1>3, <1>5 DEF Apart
  <1> QED BY <1>2, <1>4, <1>5, <1>6 DEF Split

(* The types of the variables; no count goes below 0.                      *)
THEOREM TypesHold == Spec => []TypeOK
  <1>1. IInv => TypeOK BY DEF IInv
  <1> QED BY <1>1, Machine, PTL

(* Each page of core is free or has one holder: fork, exec, exit, swgrow   *)
(* and sched lose none and give none to two.                               *)
THEOREM CoreIsOwned == Spec => []CoreOwned
  <1>1. IInv => CoreOwned BY ApartSplits DEF IInv, Good, CoreOK, CoreOwned
  <1> QED BY <1>1, Machine, PTL

(* The same of the sectors of the swap device.                             *)
THEOREM SwapIsOwned == Spec => []SwapOwned
  <1>1. IInv => SwapOwned BY ApartSplits DEF IInv, Good, SwapOK, SwapOwned
  <1> QED BY <1>1, Machine, PTL

(* x_count and x_ccount are the numbers of references to a text and of     *)
(* those in core; no program is in two slots of text[].                    *)
THEOREM TextsAreCounted == Spec => []TextCounted
  <1>1. ASSUME IInv PROVE TextCounted
    <2> SUFFICES ASSUME fault = "none" PROVE TextCounted BY DEF TextCounted
    <2>1. Good BY <1>1 DEF IInv
    <2>2. ASSUME NEW p \in Proc, proc[p].load, proc[p].text # 0, ~Retargeted(u[p]), ~proc[p].lock PROVE proc[p].ref
      <3>1. AttachOK(proc[p], u[p]) /\ ~Locking(u[p]) BY <2>1, <2>2 DEF Good, LocalOK, LockOK
      <3> QED BY <2>2, <3>1 DEF AttachOK, Locking, Retargeted
    <2> QED BY <2>1, <2>2 DEF Good, CountOK, TextCounted
  <1> QED BY <1>1, Machine, PTL

(* A process has a living parent; nobody waits for a child with a zombie   *)
(* to be had; the parent idles exactly while its child's image is written. *)
THEOREM FamilyHolds == Spec => []Family
  <1>1. ASSUME IInv PROVE Family
    <2> SUFFICES ASSUME fault = "none", NEW p \in Proc
                 PROVE  /\ p # 1 /\ proc[p].stat # "none" => Alive(proc[p].par)
                        /\ proc[p].chan = "child" => Children(p) # {} /\ Zombies(p) = {}
                        /\ proc[p].stat = "idle" <=> \E q \in Children(p) : u[q].for = "image" BY DEF Family
    <2>1. FamilyOK /\ StatusOK(p, proc[p], u[p]) BY <1>1 DEF IInv, Good, LocalOK
    <2>2. proc[p].chan = "child" => Children(p) # {} /\ Zombies(p) = {} BY <2>1 DEF FamilyOK, StatusOK
    <2>3. ASSUME NEW q \in Children(p), u[q].for = "image" PROVE proc[p].stat = "idle"
      BY <2>1, <2>3 DEF FamilyOK, Children
    <2> QED BY <2>1, <2>2, <2>3 DEF FamilyOK
  <1> QED BY <1>1, Machine, PTL

----
(* The swapper's sleep on runout.                                          *)

(* Nobody becomes ready to run on the swap device.                         *)
NoneLeave == \A q \in Proc : proc'[q].stat = "run" /\ ~proc'[q].load => proc[q].stat = "run" /\ ~proc[q].load
Noticed   == (NoneLeave /\ sched' = sched) \/ sched'.pc # "runout"

(* A step of p that stays in core, or does not run, leaves nobody ready on *)
(* the swap device.                                                        *)
LEMMA StaysIn ==
    ASSUME TypeOK, NEW p \in Proc, NEW r, proc' = [proc EXCEPT ![p] = r], r.load \/ r.stat # "run"
    PROVE  NoneLeave BY DEF TypeOK, NoneLeave

(* setrun and xswap wake a swapper that sleeps on runout, when they must. *)
LEMMA RunoutIs ==
    ASSUME TypeOK, NEW b, sched' = Runout(b)
    PROVE  (~b /\ sched' = sched) \/ sched'.pc # "runout" BY DEF TypeOK, Runout

(* A step inside the kernel that leaves somebody ready on the swap device  *)
(* wakes the swapper.                                                      *)
LEMMA StepNoticed ==
    ASSUME IInv, NEW p \in Proc, Step(p) PROVE Noticed
  <1>1. TypeOK /\ proc \in [Proc -> ProcSlot] /\ proc[p] \in ProcSlot BY DEF IInv, TypeOK
  <1>2. CASE Imaged(p) \/ SwappedOut(p) BY <1>1, <1>2, RunoutIs DEF Imaged, SwappedOut, Noticed
  <1>3. CASE SwapWaits(p) \/ Loaded(p) \/ IputWaits(p) \/ WaitSleeps(p) \/ Status(p)
    <2>1. sched' = sched /\ proc[p].load BY <1>3 DEF SwapWaits, Loaded, IputWaits, WaitSleeps, Status, At
    <2>2. \E s \in {"sleep", "wait"}, c \in {"io", "swapmap", "child"} : proc' = [proc EXCEPT ![p] = Asleep(proc[p], s, c)]
      <3>1. CASE SwapWaits(p)
        <4>1. proc' = [proc EXCEPT ![p] = Asleep(proc[p], "sleep", "swapmap")] BY <1>1, <3>1 DEF SwapWaits
        <4> QED BY <4>1
      <3>2. CASE WaitSleeps(p)
        <4>1. proc' = [proc EXCEPT ![p] = Asleep(proc[p], "wait", "child")] BY <1>1, <3>2 DEF WaitSleeps
        <4> QED BY <4>1
      <3>3. CASE Loaded(p) \/ IputWaits(p) \/ Status(p)
        <4>1. proc' = [proc EXCEPT ![p] = Asleep(proc[p], "sleep", "io")]
          BY <1>1, <3>3 DEF Loaded, IputWaits, Status, Io
        <4> QED BY <4>1
      <3> QED BY <1>3, <3>1, <3>2, <3>3
    <2>3. PICK s \in {"sleep", "wait"}, c \in {"io", "swapmap", "child"} : proc' = [proc EXCEPT ![p] = Asleep(proc[p], s, c)]
      BY <2>2
    <2>4. PICK r : r = Asleep(proc[p], s, c) OBVIOUS
    <2>5. r.load BY <1>1, <2>1, <2>4, AsleepIs DEF SlotSame
    <2> QED BY <1>1, <2>1, <2>3, <2>4, <2>5, StaysIn DEF Noticed
  <1>4. CASE SwapSelf(p)
    <2>1. sched' = sched /\ \E n \in ImageSizes(p) : proc' = [proc EXCEPT ![p] = Io(Leaving(proc[p], n))]
      BY <1>1, <1>4 DEF SwapSelf
    <2>2. PICK n \in ImageSizes(p) : proc' = [proc EXCEPT ![p] = Io(Leaving(proc[p], n))] BY <2>1
    <2>3. PICK r : r = Io(Leaving(proc[p], n)) OBVIOUS
    <2>4. r.stat = "sleep"
      <3>1. PICK b : b = (proc[p].ref /\ proc[p].text = 0) OBVIOUS
      <3>2. PICK l : l = [proc[p] EXCEPT !.img = n, !.lock = TRUE, !.ref = b] OBVIOUS
      <3>3. Leaving(proc[p], n) = l BY <3>1, <3>2 DEF Leaving
      <3>4. r = [l EXCEPT !.stat = "sleep", !.chan = "io"] BY <2>3, <3>3 DEF Io, Asleep
      <3> QED BY <1>1, <3>2, <3>4 DEF ProcSlot
    <2> QED BY <1>1, <2>1, <2>2, <2>3, <2>4, StaysIn DEF Noticed
  <1>5. CASE Back(p) \/ ExecBad(p) \/ ExecBlock(p) \/ AttachNew(p) \/ ExecDone(p)
    <2>1. sched' = sched /\ proc[p].load BY <1>5 DEF Back, ExecBad, ExecBlock, AttachNew, ExecDone, At
    <2>2. proc' = proc \/ proc' = [proc EXCEPT ![p].size = @ - Need(p)]
      BY <1>5 DEF Back, ExecBad, ExecBlock, AttachNew, ExecDone
    <2> QED BY <1>1, <2>1, <2>2 DEF Noticed, NoneLeave, ProcSlot
  <1>6. CASE AttachShared(p)
    <2>1. sched' = sched /\ proc[p].load BY <1>6 DEF AttachShared, At
    <2>2. PICK x \in Slot : AttachTo(p, x, Malloc(core, TSIZE)) BY <1>6 DEF AttachShared, Entry
    <2>3. \/ proc' = [proc EXCEPT ![p].text = x, ![p].ref = TRUE]
          \/ proc' = [proc EXCEPT ![p] = Io([@ EXCEPT !.text = x, !.ref = FALSE, !.lock = TRUE])]
          \/ proc' = [proc EXCEPT ![p].text = x, ![p].ref = FALSE]
      <3>1. CASE text[x].ccount # 0 BY <2>2, <3>1 DEF AttachTo
      <3>2. CASE text[x].ccount = 0 /\ Malloc(core, TSIZE) # 0 BY <2>2, <3>2 DEF AttachTo
      <3>3. CASE text[x].ccount = 0 /\ Malloc(core, TSIZE) = 0 BY <2>2, <3>3 DEF AttachTo
      <3> QED BY <3>1, <3>2, <3>3
    <2>4. CASE proc' = [proc EXCEPT ![p] = Io([@ EXCEPT !.text = x, !.ref = FALSE, !.lock = TRUE])]
      <3>1. PICK r : r = [proc[p] EXCEPT !.text = x, !.ref = FALSE, !.lock = TRUE] OBVIOUS
      <3>2. proc' = [proc EXCEPT ![p] = Io(r)] /\ r \in ProcSlot /\ r.load
        BY <1>1, <2>1, <2>4, <3>1 DEF ProcSlot
      <3>3. Io(r).load BY <3>2, IoIs DEF SlotSame
      <3> QED BY <1>1, <2>1, <3>2, <3>3, StaysIn DEF Noticed
    <2>5. CASE \/ proc' = [proc EXCEPT ![p].text = x, ![p].ref = TRUE]
               \/ proc' = [proc EXCEPT ![p].text = x, ![p].ref = FALSE]
      BY <1>1, <2>1, <2>5 DEF Noticed, NoneLeave, ProcSlot
    <2> QED BY <2>3, <2>4, <2>5
  <1>7. CASE Reloaded(p) \/ LoadFails(p) \/ Proto(p) \/ Commit(p)
    <2>1. sched' = sched /\ proc[p].load BY <1>7 DEF Reloaded, LoadFails, Proto, Commit, At
    <2>2. \A q \in Proc : proc'[q].load = proc[q].load /\ proc'[q].stat = proc[q].stat
      BY <1>1, <1>7 DEF Reloaded, LoadFails, Proto, Commit, ProcSlot
    <2> QED BY <2>1, <2>2 DEF Noticed, NoneLeave
  <1>8. CASE Claim(p) \/ Committed(p) \/ Save(p)
    <2>1. sched' = sched /\ proc[p].load BY <1>8 DEF Claim, Committed, Save, At
    <2>2. \/ proc' = proc
          \/ proc' = [proc EXCEPT ![p] = Io([@ EXCEPT !.lock = TRUE])]
          \/ proc' = [proc EXCEPT ![p] = Io([@ EXCEPT !.text = u[p].xp, !.addr = u[p].da])]
          \/ proc' = [proc EXCEPT ![p] = Io(@)]
      <3>1. CASE Claim(p) BY <3>1 DEF Claim
      <3>2. CASE Committed(p) BY <3>2 DEF Committed
      <3>3. CASE Save(p) BY <3>3 DEF Save
      <3> QED BY <1>8, <3>1, <3>2, <3>3
    <2>3. \/ proc' = proc
          \/ \E r \in ProcSlot : r.load /\ proc' = [proc EXCEPT ![p] = Io(r)]
      <3>1. CASE proc' = [proc EXCEPT ![p] = Io([@ EXCEPT !.lock = TRUE])]
        <4>1. PICK r : r = [proc[p] EXCEPT !.lock = TRUE] OBVIOUS
        <4>2. proc' = [proc EXCEPT ![p] = Io(r)] /\ r \in ProcSlot /\ r.load
          BY <1>1, <2>1, <3>1, <4>1 DEF ProcSlot
        <4> QED BY <4>2
      <3>2. CASE proc' = [proc EXCEPT ![p] = Io([@ EXCEPT !.text = u[p].xp, !.addr = u[p].da])]
        <4>1. PICK r : r = [proc[p] EXCEPT !.text = u[p].xp, !.addr = u[p].da] OBVIOUS
        <4>2. u[p].xp \in {0} \cup Slot /\ u[p].da \in Nat BY DEF IInv, TypeOK, Locals
        <4>3. proc' = [proc EXCEPT ![p] = Io(r)] /\ r \in ProcSlot /\ r.load
          BY <1>1, <2>1, <3>2, <4>1, <4>2 DEF ProcSlot
        <4> QED BY <4>3
      <3>3. CASE proc' = [proc EXCEPT ![p] = Io(@)] BY <1>1, <2>1, <3>3
      <3> QED BY <2>2, <3>1, <3>2, <3>3
    <2>4. CASE proc' = proc BY <2>1, <2>4 DEF Noticed, NoneLeave
    <2>5. CASE \E r \in ProcSlot : r.load /\ proc' = [proc EXCEPT ![p] = Io(r)]
      <3>1. PICK r \in ProcSlot : r.load /\ proc' = [proc EXCEPT ![p] = Io(r)] BY <2>5
      <3>2. Io(r).load BY <3>1, IoIs DEF SlotSame
      <3> QED BY <1>1, <2>1, <3>1, <3>2, StaysIn DEF Noticed
    <2> QED BY <2>3, <2>4, <2>5
  <1>9. CASE Die(p)
    <2>1. PICK P : P = [proc EXCEPT ![p].stat = "zombie", ![p].addr = u[p].a] OBVIOUS
    <2>2. /\ proc' = Orphaned(Notified(P, p), p)
          /\ sched' = Runout(\E q \in {1, P[p].par} : P[q].chan = "child" /\ ~P[q].load)
      BY <1>9, <2>1 DEF Die
    <2>3. CASE \E q \in {1, P[p].par} : P[q].chan = "child" /\ ~P[q].load
      BY <1>1, <2>2, <2>3, RunoutIs DEF Noticed
    <2>4. CASE ~\E q \in {1, P[p].par} : P[q].chan = "child" /\ ~P[q].load
      <3>1. sched' = sched \/ sched'.pc # "runout" BY <1>1, <2>2, RunoutIs
      <3>2. NoneLeave
        <4>1. PICK N : N = Notified(P, p) OBVIOUS
        <4>2. ASSUME NEW q \in Proc, proc'[q].stat = "run", ~proc'[q].load PROVE proc[q].stat = "run" /\ ~proc[q].load
          <5>1. P[q] \in ProcSlot /\ P[q].load = proc[q].load /\ (P[q].stat = "run" => proc[q].stat = "run")
            <6>1. u[p].a \in Nat BY DEF IInv, TypeOK, Locals
            <6> QED BY <1>1, <2>1, <6>1 DEF ProcSlot
          <5>2. N[q] = P[q] \/ (N[q] = Runnable(P[q]) /\ P[q].load) BY <2>4, <4>1 DEF Notified
          <5>3. N[q] \in ProcSlot /\ N[q].load = P[q].load /\ (N[q].load \/ N[q].stat = P[q].stat)
            BY <5>1, <5>2, RunnableIs DEF SlotSame
          <5>4. proc'[q].stat = N[q].stat /\ proc'[q].load = N[q].load
            BY <2>2, <4>1, <5>3 DEF Orphaned, ProcSlot
          <5> QED BY <4>2, <5>1, <5>3, <5>4
        <4> QED BY <4>2 DEF NoneLeave
      <3> QED BY <3>1, <3>2 DEF Noticed
    <2> QED BY <2>3, <2>4
  <1>10. CASE Reap(p)
    <2>1. sched' = sched /\ proc' = [proc EXCEPT ![u[p].a] = Free] BY <1>10 DEF Reap
    <2> QED BY <1>1, <2>1, FreeIs DEF Noticed, NoneLeave
  <1> QED BY <1>2, <1>3, <1>4, <1>5, <1>6, <1>7, <1>8, <1>9, <1>10 DEF Step

(* The same of a call and of an interrupt. *)
LEMMA UserNoticed ==
    ASSUME IInv, NEW p \in Proc, User(p) \/ IoDone(p) \/ Psignal(p) PROVE Noticed
  <1>1. TypeOK /\ proc \in [Proc -> ProcSlot] /\ proc[p] \in ProcSlot BY DEF IInv, TypeOK
  <1>2. CASE Fork(p)
    <2>1. sched' = sched /\ proc[p].load /\ \E c, a : proc' = [proc EXCEPT ![c] = Child(p, a)]
      BY <1>2 DEF Fork, Program, At
    <2>2. \A a : Child(p, a).load BY <1>1, <2>1 DEF Child, ProcSlot
    <2> QED BY <1>1, <2>1, <2>2 DEF Noticed, NoneLeave
  <1>3. CASE ForkNoCore(p)
    <2>1. sched' = sched /\ proc[p].load
          /\ \E c : proc' = [proc EXCEPT ![p].stat = "idle", ![c] = Child(p, proc[p].addr)]
      BY <1>3 DEF ForkNoCore, Program, At
    <2>2. Child(p, proc[p].addr).load BY <1>1, <2>1 DEF Child, ProcSlot
    <2> QED BY <1>1, <2>1, <2>2 DEF Noticed, NoneLeave, ProcSlot
  <1>4. CASE Exit(p)
    <2>1. sched' = sched /\ proc[p].load BY <1>4 DEF Exit, Program, At
    <2>2. PICK x : x = proc[p].text OBVIOUS
    <2>3. proc' = [proc EXCEPT ![p] = LET r == [@ EXCEPT !.text = 0, !.ref = FALSE] IN IF XfreeSleeps(x) THEN Io(r) ELSE r]
      BY <1>4, <2>2 DEF Exit
    <2>4. PICK r : r = [proc[p] EXCEPT !.text = 0, !.ref = FALSE] OBVIOUS
    <2>5. r.load BY <1>1, <2>1, <2>4 DEF ProcSlot
    <2>6. proc' = [proc EXCEPT ![p] = Io(r)] \/ proc' = [proc EXCEPT ![p] = r] BY <1>1, <2>3, <2>4
    <2>7. Io(r).load BY <1>1, <2>4, <2>5 DEF Io, Asleep, ProcSlot
    <2> QED BY <1>1, <2>1, <2>5, <2>6, <2>7, StaysIn DEF Noticed
  <1>5. CASE Wait(p) \/ Pause(p) \/ \E g \in Prog : Exec(p, g)
    <2>1. sched' = sched /\ proc[p].load BY <1>5 DEF Wait, Pause, Exec, Program, At
    <2>2. proc' = proc \/ \E s \in {"sleep", "wait"}, c \in {"io", "tty"} : proc' = [proc EXCEPT ![p] = Asleep(proc[p], s, c)]
      BY <1>1, <1>5 DEF Wait, Pause, Exec, Io
    <2>3. proc' = proc => NoneLeave BY DEF NoneLeave
    <2> QED BY <1>1, <2>1, <2>2, <2>3, StaysIn, AsleepIs DEF SlotSame, Noticed
  <1>6. CASE IoDone(p) \/ Psignal(p)
    <2>1. sched' = Runout(~proc[p].load) /\ proc' = [proc EXCEPT ![p] = Runnable(proc[p])]
      BY <1>1, <1>6 DEF IoDone, Psignal
    <2>2. Runnable(proc[p]).load = proc[p].load BY <1>1, RunnableIs DEF SlotSame
    <2>3. CASE proc[p].load
      <3>1. NoneLeave BY <1>1, <2>1, <2>2, <2>3, StaysIn
      <3> QED BY <1>1, <2>1, <3>1, RunoutIs DEF Noticed
    <2>4. CASE ~proc[p].load BY <1>1, <2>1, <2>4, RunoutIs DEF Noticed
    <2> QED BY <2>3, <2>4
  <1> QED BY <1>2, <1>3, <1>4, <1>5, <1>6 DEF User

(* The swapper never sleeps on runout while a process on the swap device   *)
(* is ready to run.                                                        *)
THEOREM SchedIsAwake == Spec => []SchedAwake
  <1>1. Init => SchedAwake BY DEF Init, SchedAwake
  <1>2. ASSUME IInv, SchedAwake, [Next]_vars PROVE SchedAwake'
    <2> SUFFICES ASSUME fault' = "none", sched'.pc = "runout" PROVE Absent' = {} BY DEF SchedAwake
    <2>1. TypeOK BY <1>2 DEF IInv
    <2>2. CASE \E p \in Proc : Step(p) \/ User(p) \/ IoDone(p) \/ Psignal(p)
      <3>1. NoneLeave /\ sched' = sched BY <1>2, <2>2, StepNoticed, UserNoticed DEF Noticed
      <3>2. fault = "none"
        <4>1. ASSUME NEW p \in Proc, Step(p) PROVE fault = "none"
          <5>1. CASE Imaged(p) \/ SwapWaits(p) \/ SwapSelf(p) \/ SwappedOut(p) \/ Back(p) \/ ExecBad(p) \/ ExecBlock(p)
            BY <5>1 DEF Imaged, SwapWaits, SwapSelf, SwappedOut, Back, ExecBad, ExecBlock, At
          <5>2. CASE AttachShared(p) \/ Reloaded(p) \/ AttachNew(p) \/ Claim(p) \/ LoadFails(p) \/ Loaded(p) \/ Proto(p)
            BY <5>2 DEF AttachShared, Reloaded, AttachNew, Claim, LoadFails, Loaded, Proto, At
          <5>3. CASE Commit(p) \/ IputWaits(p) \/ Committed(p) \/ ExecDone(p)
            BY <5>3 DEF Commit, IputWaits, Committed, ExecDone, At
          <5>4. CASE Save(p) \/ Die(p) \/ WaitSleeps(p) \/ Status(p) \/ Reap(p)
            BY <5>4 DEF Save, Die, WaitSleeps, Status, Reap, At
          <5> QED BY <4>1, <5>1, <5>2, <5>3, <5>4 DEF Step
        <4>2. ASSUME NEW p \in Proc, User(p) PROVE fault = "none"
          BY <4>2 DEF User, Fork, ForkNoCore, Exit, Wait, Pause, Exec, Program, At
        <4> QED BY <2>2, <4>1, <4>2 DEF IoDone, Psignal, Between
      <3> QED BY <1>2, <3>1, <3>2 DEF SchedAwake, Absent, NoneLeave
    <2>3. CASE SchedIdle BY <2>3 DEF SchedIdle, Absent
    <2>4. CASE InText \/ InData \/ NobodyOut \/ OutDone \/ Runin
      <3>1. CASE InText BY <2>1, <3>1 DEF InText, TypeOK
      <3>2. CASE InData \/ OutDone BY <3>2 DEF InData, OutDone
      <3>3. CASE NobodyOut \/ Runin BY <2>1, <3>3 DEF NobodyOut, Runin, Sloop, TypeOK
      <3> QED BY <2>4, <3>1, <3>2, <3>3
    <2>5. CASE \E p \in Proc : SwapIn(p) \/ SwapOut(p)
      <3>1. PICK p \in Proc : SwapIn(p) \/ SwapOut(p) BY <2>5
      <3>2. CASE SwapIn(p) BY <2>1, <3>2 DEF SwapIn
      <3>3. CASE SwapOut(p) BY <2>1, <3>3 DEF SwapOut, Sloop, TypeOK
      <3> QED BY <3>1, <3>2, <3>3
    <2>6. CASE UNCHANGED vars BY <1>2, <2>6 DEF vars, SchedAwake, Absent
    <2> QED BY <1>2, <2>2, <2>3, <2>4, <2>5, <2>6 DEF Next, Swapper
  <1> QED BY <1>1, <1>2, Machine, PTL DEF Spec

===============================================================================
