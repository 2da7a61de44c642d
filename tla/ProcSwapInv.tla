------------------------------ MODULE ProcSwapInv ------------------------------
(***************************************************************************)
(* The properties of ProcSwap.  They speak of every state up to a fault;   *)
(* ImageKept says which faults a comment of the source rules out.          *)
(***************************************************************************)
EXTENDS ProcSwap

Labels == {"user", "getswap", "writing", "back", "header", "attach", "reload", "claim",
           "load", "proto", "commit", "committed", "args", "save", "die", "wait", "reap"}

ProcSlot == [stat : {"none", "run", "sleep", "wait", "idle", "zombie"},
             load : BOOLEAN, lock : BOOLEAN, addr : Nat, size : Nat, img : Nat,
             text : {0} \cup Slot, par : {0} \cup Proc, ref : BOOLEAN,
             chan : {"none", "io", "swapmap", "child", "tty"}]
TextSlot == [ip : Prog \cup {NoProg}, count : Nat, ccount : Nat, caddr : Nat, daddr : Nat]
Locals   == [pc : Labels, ip : Prog \cup {NoProg}, a : Nat, da : Nat, ta : Nat,
             xp : {0} \cup Slot, otp : {0} \cup Slot, for : {"none", "image", "text", "valve"}]

(* The types of the variables; no count goes below 0.                      *)
TypeOK ==
    /\ core \subseteq 1..NCORE /\ swap \subseteq 1..NSWAP
    /\ proc \in [Proc -> ProcSlot] /\ text \in [Slot -> TextSlot] /\ u \in [Proc -> Locals]
    /\ ilock \in [Prog -> {0} \cup Proc] /\ run \in {0} \cup Proc
    /\ sched \in [pc : {"loop", "runin", "runout", "intext", "indata", "out"},
                  p : {0} \cup Proc, a : Nat, ta : Nat]
    /\ fault \in {"none", "panic", "orphan", "unheld", "twice", "moved"}
    /\ calls \in 0..MaxCalls

----
Live(r)  == r.stat \notin {"none", "zombie"}
Alive(p) == Live(proc[p])

(* Who may have units of core or of swap: of a process its block or image, *)
(* the block exec is to give it, the text it is to put in the table, and   *)
(* its status; a text; and what the swapper has under way.                 *)
Holders == ({"block", "exec", "ta", "status"} \X Proc) \cup ({"text"} \X Slot) \cup ({"data", "ctext"} \X {0})

(* Of a process with the slot r and the registers v, of a text, and of the *)
(* swapper with a process of n pages in hand.                              *)
CoreBlock(r, v) == IF Live(r) /\ (r.load \/ r.lock) /\ v.for # "image" THEN Run(r.addr, r.size) ELSE {}
CoreExec(r, v)  == IF v.da # 0 /\ r.size # DBLK THEN Run(v.da, DBLK) ELSE {}
CoreTa(v)       == IF v.pc \in {"claim", "reload", "load", "proto"} THEN Run(v.ta, TSIZE) ELSE {}
CoreText(e)     == IF e.ccount > 0 THEN Run(e.caddr, TSIZE) ELSE {}
CoreData(s, n)  == IF s.pc \in {"intext", "indata"} THEN Run(s.a, n) ELSE {}
CoreCtext(s)    == IF s.pc = "intext" THEN Run(s.ta, TSIZE) ELSE {}
CoreOf == [h \in Holders |->
    CASE h[1] = "block" -> CoreBlock(proc[h[2]], u[h[2]])
      [] h[1] = "exec"  -> CoreExec(proc[h[2]], u[h[2]])
      [] h[1] = "ta"    -> CoreTa(u[h[2]])
      [] h[1] = "text"  -> CoreText(text[h[2]])
      [] h[1] = "data"  -> CoreData(sched, proc[sched.p].size)
      [] h[1] = "ctext" -> CoreCtext(sched)
      [] OTHER          -> {}]

SwapImage(r, v) ==
    IF v.pc = "writing" THEN Run(v.a, r.img * SECTORS)
    ELSE IF Live(r) /\ ~r.load /\ ~r.lock THEN Run(r.addr, r.img * SECTORS) ELSE {}
SwapStatus(r, v) == IF r.stat = "zombie" THEN {r.addr} ELSE IF v.pc = "die" THEN {v.a} ELSE {}
SwapText(e)      == IF e.ip # NoProg THEN Run(e.daddr, TSIZE * SECTORS) ELSE {}
SwapData(s, n)   == IF s.pc = "out" THEN Run(s.a, n * SECTORS) ELSE {}
SwapOf == [h \in Holders |->
    CASE h[1] = "block"  -> SwapImage(proc[h[2]], u[h[2]])
      [] h[1] = "status" -> SwapStatus(proc[h[2]], u[h[2]])
      [] h[1] = "text"   -> SwapText(text[h[2]])
      [] h[1] = "data"   -> SwapData(sched, proc[sched.p].img)
      [] OTHER           -> {}]

(* Each unit is free or has one holder.                                    *)
Claims(of) == UNION {{h} \X of[h] : h \in Holders}
Split(units, free, of) ==
    LET C == Claims(of)
        held == {c[2] : c \in C}
    IN  /\ units = free \cup held
        /\ free \cap held = {}
        /\ \A c, d \in C : c[2] = d[2] => c = d

(* Whatever fork, exec, exit, swgrow and sched do between each other's     *)
(* sleeps, each page of core is free or has one holder: no page is lost    *)
(* and none is in two processes, texts or transfers.                       *)
CoreOwned == fault = "none" => Split(1..NCORE, core, CoreOf)
(* The same of the sectors of the swap device: images, texts, the statuses *)
(* of zombies, and the space a transfer is on its way to.                  *)
SwapOwned == fault = "none" => Split(1..NSWAP, swap, SwapOf)

----
(* References to text x: of a process attached to it, of one building it,  *)
(* the old text exec keeps until its commit, and the one in a register     *)
(* while xfree sleeps.                                                     *)
Retargeted(v) == v.pc \in {"reload", "commit"} \/ (v.for = "valve" /\ v.pc # "committed")
Refers(k, r, v, x) ==
    CASE k = "attached" -> r.text = x
      [] k = "building" -> v.pc \in {"load", "proto"} /\ v.xp = x
      [] k = "kept"     -> Retargeted(v) /\ v.otp = x
      [] k = "held"     -> v.pc = "committed" /\ v.xp = x
RefersInCore(k, r, v, x) == Refers(k, r, v, x) /\ k # "building" /\ (k = "attached" => r.ref)
Kinds == {"attached", "building", "kept", "held"}
Refs(x)     == {c \in Kinds \X Proc : Refers(c[1], proc[c[2]], u[c[2]], x)}
CoreRefs(x) == {c \in Kinds \X Proc : RefersInCore(c[1], proc[c[2]], u[c[2]], x)}

(* x_count is the number of references there are to a text and x_ccount    *)
(* the number of them that are in core, whoever was swapped in between; a  *)
(* process in core has its text in core; no program is in two slots.       *)
TextCounted == fault = "none" =>
    /\ \A x \in Slot :
        /\ text[x].count = Cardinality(Refs(x))
        /\ text[x].ccount = Cardinality(CoreRefs(x))
        /\ text[x].ip # NoProg <=> text[x].count > 0
    /\ \A p \in Proc : proc[p].load /\ proc[p].text # 0 /\ ~Retargeted(u[p]) /\ ~proc[p].lock => proc[p].ref
    /\ \A x, y \in Slot : text[x].ip = text[y].ip /\ text[x].ip # NoProg => x = y

(* The swapper never sleeps on runout while a process on the swap device   *)
(* is ready to run: setrun and xswap between them wake it.                 *)
SchedAwake == fault = "none" /\ sched.pc = "runout" => Absent = {}

(* A process has a living parent whatever dies in what order; nobody waits *)
(* for a child with a zombie to be had; the parent idles exactly while its *)
(* child's image is written.                                               *)
Family == fault = "none" => \A p \in Proc :
    /\ p # 1 /\ proc[p].stat # "none" => Alive(proc[p].par)
    /\ proc[p].chan = "child" => Children(p) # {} /\ Zombies(p) = {}
    /\ proc[p].stat = "idle" <=> \E q \in Children(p) : u[q].for = "image"

(* A block stays with the process it is in: newproc's write of the image   *)
(* "keeps the parent's core intact" (SLP.C:506-507), and exec's reused     *)
(* block "is overwritten in place" (SYS1.C:146).                           *)
ImageKept == fault \notin {"orphan", "moved"}
====
