------------------------------ MODULE InodeProofs ------------------------------
(***************************************************************************)
(* The inode table, for any number of processes, slots, inodes and names   *)
(* and any sequence of calls.                                              *)
(***************************************************************************)
EXTENDS InodeTableInv, FunctionTheorems, FiniteSetTheorems, WellFoundedInduction, TLAPS

-------------------------------------------------------------------------------
(* What a process's registers look like where it is.  Where it is, is the  *)
(* place it will go back to when iget or iput has it.                      *)
Putting == {"put", "itrunc", "ibread", "ibwrite"}
Where(r) == IF r.call # "sync" /\ r.pc \in {"iget", "iread"} \cup Putting THEN r.ret ELSE r.pc
InDir == {"unlinked", "unwrite", "ialloc", "iloop", "scan", "allocd", "mkwrite", "lkwrite", "panic"}
Files == Slot \ {Root}

(* The directory is in hand from its iget to its iput, and nothing else is *)
(* ever in dp; nor is the directory in ip or lp.                           *)
DpOK(r) == r.dp = IF r.pc = "search" \/ Where(r) \in InDir THEN Root ELSE NoSlot
LpOK(r) ==
    /\ r.lp \in Files \cup {NoSlot}
    /\ r.lp # NoSlot <=> r.call = "link2" /\ Where(r) \in {"search", "exists", "lkwrite", "lkput"}
IpOK(r) ==
    /\ r.ip \in Files \cup {NoSlot}
    /\ r.pc \in {"iread", "otrunc", "unwrite", "mkwrite"} => r.ip # NoSlot
    /\ r.pc \in Putting => (r.ip # NoSlot <=> r.call # "sync")
    /\ r.ip # NoSlot => r.pc \in {"iread", "opened", "otrunc", "unlinked", "unwrite", "allocd",
                                  "mkwrite", "linked", "exists"} \cup Putting
RetOK(r) ==
    /\ r.pc \notin {"iget", "iread"} \cup Putting \/ r.call = "sync" => r.ret = "user"
    /\ r.pc = "iget" => r.ret \in {"search", "unlinked", "opened", "linked", "exists", "allocd"}
    /\ r.pc = "iread" => r.ret \in {"unlinked", "opened", "linked", "exists", "allocd"}
    /\ r.pc \in Putting /\ r.call # "sync" => r.ret \in {"user", "iloop", "lkput"}
CallOK(r) ==
    /\ r.call = "sync" => r.pc \in {"sync", "ibread", "ibwrite"}
    /\ r.pc = "sync" => r.call = "sync"
    /\ Where(r) = "search" => r.call \in {"open", "creat", "unlink", "link", "link2"}
    /\ Where(r) \in {"unlinked", "unwrite", "panic"} => r.call = "unlink"
    /\ Where(r) = "opened" => r.call \in {"open", "creat"} \/ (r.call = "made" /\ r.ip # NoSlot)
    /\ Where(r) \in {"ialloc", "iloop", "scan", "allocd", "mkwrite", "otrunc"} => r.call = "creat"
    /\ Where(r) = "linked" => r.call = "link"
    /\ Where(r) \in {"exists", "lkwrite", "lkput"} => r.call = "link2"
    /\ Where(r) \notin {"iget", "iread", "put", "itrunc"}
NumberOK(r) ==
    /\ Where(r) \in InDir => r.off \in Off
    /\ r.call = "sync" => r.k >= 1 /\ (r.pc # "sync" => r.k \in Slot)
    /\ r.call # "sync" /\ r.ino = ROOTINO => r.pc = "iget" /\ r.ret = "search"
    /\ r.pc = "iget" /\ r.ret = "search" => r.ino = ROOTINO
    /\ r.pc = "iread" => r.ino # 0

RegOK(r) == r \in Reg /\ DpOK(r) /\ LpOK(r) /\ IpOK(r) /\ RetOK(r) /\ CallOK(r) /\ NumberOK(r)

Regs == u \in [Proc -> Reg] /\ \A p \in Proc : RegOK(u[p])
Fds  == fd \in [Proc -> Files \cup {NoSlot}]

(* The table.  Its numbers: the root's slot keeps the root's number, which *)
(* no directory entry and no spare inode has; a free slot has none, and no *)
(* flags.                                                                  *)
Numbers ==
    /\ num \in [Slot -> Ino \cup {0}]
    /\ num[Root] = ROOTINO
    /\ NoAlias
Free == \A s \in Slot : count[s] = 0 => num[s] = 0 /\ flag[s] = {}
Disk ==
    /\ dir \in [Off -> [name : Name \cup {NoName}, ino : (Ino \cup {0}) \ {ROOTINO}]]
    /\ spare \in Seq((Ino \cup {0}) \ {ROOTINO})
    /\ node \in [Slot -> Node] /\ dnode \in [Ino -> Node]
Flags == flag \in [Slot -> SUBSET Flag]
Counts == count \in [Slot -> Nat] /\ RefCount
Rest ==
    /\ ilock \in BOOLEAN /\ updlock \in BOOLEAN
    /\ chan \in [Proc -> Slot \cup {Ilock, NoChan}]
    /\ cpu \in Proc \cup {NoProc}
    /\ left \in Nat /\ lost \in Nat

(* A locked inode is in the hands of somebody who will call prele: namei's *)
(* or iget's caller, whoever is putting it, or update.                     *)
Holds(q, s) ==
    \/ u[q].dp = s /\ (u[q].call = "unlink" => u[q].pc = "search")
    \/ u[q].ip = s
    \/ u[q].call = "sync" /\ u[q].pc \in {"ibread", "ibwrite"} /\ u[q].k = s
Locks == \A s \in Slot : "LOCK" \in flag[s] /\ lost = 0 => \E q \in Proc : Holds(q, s)
Sleepers ==
    /\ \A p \in Proc : /\ chan[p] \in Slot => u[p].pc = "iget"
                       /\ chan[p] = Ilock => u[p].pc = "ialloc"
    /\ ilock => \E q \in Proc : u[q].pc = "scan"
    /\ NoLostWakeup

IInv == /\ Regs /\ Fds /\ Numbers /\ Free /\ Disk /\ Flags /\ Counts /\ Rest
        /\ Locks /\ Sleepers

-------------------------------------------------------------------------------
(* Helpers. *)

(* First, the look-up the linear searches stand for, picks a member of the *)
(* set it is given.                                                        *)
LEMMA FirstIn ==
    ASSUME NEW n \in Nat, NEW Q, Q \subseteq 1 .. n, Q # {} PROVE First(Q) \in Q
  <1> DEFINE Below(k) == 1 .. k
             T == {Below(k) : k \in Q}
  <1>1. IsFiniteSet(1 .. n) BY FS_Interval
  <1>2. IsWellFoundedOn(StrictSubsetOrdering(1 .. n), SUBSET (1 .. n))
    BY <1>1, FS_StrictSubsetOrderingWellFounded, FS_FiniteSubsetsOfFinite
  <1>3. T \subseteq SUBSET (1 .. n) /\ T # {}
    <2>1. \A k \in Q : Below(k) \subseteq 1 .. n OBVIOUS
    <2> HIDE DEF Below
    <2> QED BY <2>1
  <1>4. PICK s \in T : \A t \in T : <<t, s>> \notin StrictSubsetOrdering(1 .. n)
    BY <1>2, <1>3, WFMin
  <1>5. PICK k \in Q : s = Below(k) BY <1>4
  <1>6. ASSUME NEW j \in Q, j < k PROVE FALSE
    <2>1. Below(j) \subseteq Below(k) /\ Below(j) # Below(k)
      <3>1. k \in Below(k) /\ k \notin Below(j) BY <1>6
      <3>2. Below(j) \subseteq Below(k) BY <1>6
      <3> QED BY <3>1, <3>2
    <2>2. Below(j) \in T /\ Below(j) \in SUBSET (1 .. n) /\ Below(k) \in SUBSET (1 .. n)
      BY <1>3
    <2>3. <<Below(j), Below(k)>> \in StrictSubsetOrdering(1 .. n)
      BY <2>1, <2>2 DEF StrictSubsetOrdering
    <2> QED BY <1>4, <1>5, <2>2, <2>3
  <1>7. \A j \in Q : k <= j BY <1>6
  <1> QED BY <1>7 DEF First

-------------------------------------------------------------------------------
(* Counting references. *)

(* The references to a slot can be counted. *)
LEMMA ReferencesFinite ==
    ASSUME NEW s PROVE IsFiniteSet(References(s)) /\ Cardinality(References(s)) \in Nat
  <1>1. IsFiniteSet(Reference)
    <2>1. IsFiniteSet({"fd"}) /\ IsFiniteSet({"dp"}) /\ IsFiniteSet({"ip"}) /\ IsFiniteSet({"lp"})
      BY FS_Singleton
    <2>2. IsFiniteSet({"fd"} \cup {"dp"}) /\ IsFiniteSet({"ip"} \cup {"lp"})
      BY <2>1, FS_Union
    <2>3. IsFiniteSet(({"fd"} \cup {"dp"}) \cup ({"ip"} \cup {"lp"})) BY <2>2, FS_Union
    <2>4. Reference = ({"fd"} \cup {"dp"}) \cup ({"ip"} \cup {"lp"}) BY DEF Reference
    <2> QED BY <2>3, <2>4
  <1>2. IsFiniteSet(Proc \X Reference) BY <1>1, ProcAssumption, FS_Product
  <1>3. References(s) \subseteq Proc \X Reference BY DEF References
  <1>4. IsFiniteSet(References(s)) BY <1>2, <1>3, FS_Subset
  <1> QED BY <1>4, FS_CardinalityType

(* The steps of p: what every other process has in hand stays. *)
Others(p) == \A q \in Proc \ {p}, r \in Reference : Refers(q, r)' = Refers(q, r)
Same(p, F) == \A r \in Reference \ F : Refers(p, r)' = Refers(p, r)

(* A step that moves no reference keeps the counts right. *)
LEMMA Keeps ==
    ASSUME RefCount, NEW p \in Proc, Others(p), Same(p, {}), count' = count, lost' = lost
    PROVE  RefCount'
  <1>1. \A s : References(s)' = References(s) BY DEF References, Others, Same
  <1> QED BY <1>1 DEF RefCount

(* So does one that takes a reference and counts it. *)
LEMMA Gains ==
    ASSUME RefCount, count \in [Slot -> Nat], lost \in Nat,
           NEW p \in Proc, NEW f \in Reference, Others(p), Same(p, {f}), NEW s \in Slot,
           Refers(p, f) = NoSlot, Refers(p, f)' = s,
           count' = [count EXCEPT ![s] = @ + 1], lost' = lost
    PROVE  RefCount' /\ count' \in [Slot -> Nat]
  <1>1. NoSlot \notin Slot BY SizeAssumption DEF NoSlot, Slot
  <1>2. \A t \in Slot : t # s => References(t)' = References(t)
    BY <1>1 DEF References, Others, Same
  <1>3. References(s)' = References(s) \cup {<<p, f>>} /\ <<p, f>> \notin References(s)
    BY <1>1 DEF References, Others, Same
  <1>4. Cardinality(References(s)') = Cardinality(References(s)) + 1
    BY <1>3, ReferencesFinite, FS_AddElement
  <1>5. \A t \in Slot : Cardinality(References(t)) \in Nat BY ReferencesFinite
  <1>6. Cardinality(Proc) \in Nat BY ProcAssumption, FS_CardinalityType
  <1> QED BY <1>2, <1>4, <1>5, <1>6 DEF RefCount

(* Who refers to a slot is counted there. *)
LEMMA CountedOnce ==
    ASSUME RefCount, count \in [Slot -> Nat], lost \in Nat,
           NEW p \in Proc, NEW f \in Reference, NEW s \in Slot, Refers(p, f) = s
    PROVE  /\ count[s] >= 1
           /\ s = Root => count[s] >= 3
           /\ \A g \in Reference, q \in Proc : Refers(q, g) = s /\ <<q, g>> # <<p, f>> => count[s] >= 2
  <1>1. <<p, f>> \in References(s) BY DEF References
  <1>2. Cardinality(References(s)) >= 1 BY <1>1, ReferencesFinite, FS_EmptySet
  <1>3. Cardinality(Proc) \in Nat /\ Cardinality(Proc) >= 1
    BY ProcAssumption, FS_CardinalityType, FS_EmptySet
  <1>4. Cardinality(References(s)) \in Nat BY ReferencesFinite
  <1>5. ASSUME NEW g \in Reference, NEW q \in Proc, Refers(q, g) = s, <<q, g>> # <<p, f>>
        PROVE  Cardinality(References(s)) >= 2
    <2> DEFINE T == References(s) \ {<<p, f>>}
    <2>1. <<q, g>> \in T BY <1>5 DEF References
    <2>2. IsFiniteSet(T) /\ Cardinality(T) = Cardinality(References(s)) - 1
      BY <1>1, ReferencesFinite, FS_RemoveElement
    <2>3. Cardinality(T) # 0 /\ Cardinality(T) \in Nat
      BY <2>1, <2>2, FS_EmptySet, FS_CardinalityType
    <2> QED BY <1>4, <2>2, <2>3
  <1> QED BY <1>2, <1>3, <1>4, <1>5 DEF RefCount

(* So does one that gives a reference up and uncounts it. *)
LEMMA Loses ==
    ASSUME RefCount, count \in [Slot -> Nat], lost \in Nat,
           NEW p \in Proc, NEW f \in Reference, Others(p), Same(p, {f}), NEW s \in Slot,
           Refers(p, f) = s, Refers(p, f)' = NoSlot,
           count' = [count EXCEPT ![s] = @ - 1], lost' = lost
    PROVE  RefCount' /\ count' \in [Slot -> Nat]
  <1>1. NoSlot \notin Slot BY SizeAssumption DEF NoSlot, Slot
  <1>2. \A t \in Slot : t # s => References(t)' = References(t)
    BY <1>1 DEF References, Others, Same
  <1>3. References(s)' = References(s) \ {<<p, f>>} /\ <<p, f>> \in References(s)
    BY <1>1 DEF References, Others, Same
  <1>4. Cardinality(References(s)') = Cardinality(References(s)) - 1
    BY <1>3, ReferencesFinite, FS_RemoveElement
  <1>5. \A t \in Slot : Cardinality(References(t)) \in Nat BY ReferencesFinite
  <1>6. Cardinality(Proc) \in Nat BY ProcAssumption, FS_CardinalityType
  <1>7. count[s] >= 1 BY CountedOnce
  <1> QED BY <1>2, <1>4, <1>5, <1>6, <1>7 DEF RefCount

(* creat that fails keeps the directory: its reference is lost. *)
LEMMA Strands ==
    ASSUME RefCount, lost \in Nat, NEW p \in Proc, Others(p), Same(p, {"dp"}),
           Refers(p, "dp") = Root, Refers(p, "dp")' = NoSlot,
           count' = count, lost' = lost + 1 PROVE RefCount'
  <1>1. NoSlot \notin Slot /\ Root \in Slot /\ "dp" \in Reference
    BY SizeAssumption DEF NoSlot, Slot, Root, Reference
  <1>2. \A t \in Slot : t # Root => References(t)' = References(t)
    BY <1>1 DEF References, Others, Same
  <1>3. References(Root)' = References(Root) \ {<<p, "dp">>} /\ <<p, "dp">> \in References(Root)
    BY <1>1 DEF References, Others, Same
  <1>4. Cardinality(References(Root)') = Cardinality(References(Root)) - 1
    BY <1>3, ReferencesFinite, FS_RemoveElement
  <1>5. \A t \in Slot : Cardinality(References(t)) \in Nat BY ReferencesFinite
  <1>6. Cardinality(Proc) \in Nat BY ProcAssumption, FS_CardinalityType
  <1> QED BY <1>2, <1>4, <1>5, <1>6 DEF RefCount

(* A reference goes from one place to another. *)
LEMMA Moves ==
    ASSUME RefCount, NEW p \in Proc, NEW f \in Reference, NEW g \in Reference, f # g,
           Others(p), Same(p, {f, g}), NEW s \in Slot,
           Refers(p, f) = s, Refers(p, f)' = NoSlot,
           Refers(p, g) = NoSlot, Refers(p, g)' = s,
           count' = count, lost' = lost PROVE RefCount'
  <1>1. NoSlot \notin Slot BY SizeAssumption DEF NoSlot, Slot
  <1>2. \A t \in Slot : t # s => References(t)' = References(t)
    BY <1>1 DEF References, Others, Same
  <1> DEFINE T == References(s) \ {<<p, f>>}
  <1>3. References(s)' = T \cup {<<p, g>>} /\ <<p, g>> \notin T /\ <<p, f>> \in References(s)
    BY <1>1 DEF References, Others, Same
  <1>4. IsFiniteSet(T) /\ Cardinality(T) = Cardinality(References(s)) - 1
    BY <1>3, ReferencesFinite, FS_RemoveElement
  <1>5. Cardinality(T \cup {<<p, g>>}) = Cardinality(T) + 1 BY <1>3, <1>4, FS_AddElement
  <1>6. Cardinality(References(s)') = Cardinality(References(s))
    BY <1>3, <1>4, <1>5, ReferencesFinite
  <1> QED BY <1>2, <1>6 DEF RefCount

-------------------------------------------------------------------------------
(* What the look-ups find. *)

(* What iget finds in core has the number asked for; it is the root's slot *)
(* only for the root's number.                                             *)
LEMMA InCoreFirst ==
    ASSUME Numbers, NEW i, InCore(i) # {}
    PROVE  /\ First(InCore(i)) \in Slot /\ num[First(InCore(i))] = i
           /\ i = ROOTINO <=> First(InCore(i)) = Root
  <1>1. InCore(i) \subseteq 1 .. NINODE /\ NINODE \in Nat BY SizeAssumption DEF InCore, Slot
  <1>2. First(InCore(i)) \in InCore(i) BY <1>1, FirstIn
  <1>3. First(InCore(i)) \in Slot /\ num[First(InCore(i))] = i BY <1>2 DEF InCore
  <1>4. num[Root] = ROOTINO /\ Root \in Slot /\ ROOTINO # 0
    BY SizeAssumption DEF Numbers, Root, Slot, ROOTINO
  <1> QED BY <1>3, <1>4 DEF Numbers, NoAlias

(* The root is always in core. *)
LEMMA RootInCore ==
    ASSUME Numbers PROVE InCore(ROOTINO) # {}
  BY SizeAssumption DEF Numbers, InCore, Root, Slot

(* rootdir's own reference keeps the root's slot from being free. *)
LEMMA RootCounted ==
    ASSUME Counts, lost \in Nat PROVE count[Root] >= 1
  <1>1. Root \in Slot /\ Cardinality(Proc) \in Nat /\ Cardinality(References(Root)) \in Nat
    BY SizeAssumption, ProcAssumption, FS_CardinalityType, ReferencesFinite DEF Root, Slot
  <1> QED BY <1>1 DEF Counts, RefCount

(* The slot iget takes is free, and is not the root's. *)
LEMMA FreeFirst ==
    ASSUME Counts, lost \in Nat, FreeSlots # {}
    PROVE  First(FreeSlots) \in Files /\ count[First(FreeSlots)] = 0
  <1>1. FreeSlots \subseteq 1 .. NINODE /\ NINODE \in Nat
    BY SizeAssumption DEF FreeSlots, Slot
  <1>2. First(FreeSlots) \in FreeSlots BY <1>1, FirstIn
  <1> QED BY <1>2, RootCounted DEF FreeSlots, Files

(* An entry namei finds is one of the directory's and has a number other   *)
(* than the root's; so has the vacant one it chooses.                      *)
LEMMA EntryFirst ==
    ASSUME NEW n, Disk
    PROVE  /\ Holding(n) # {} => /\ First(Holding(n)) \in Off
                                 /\ dir[First(Holding(n))].ino \in Ino \ {ROOTINO}
           /\ Vacant # {} => First(Vacant) \in Off
  <1>1. Holding(n) \subseteq 1 .. NDIR /\ Vacant \subseteq 1 .. NDIR /\ NDIR \in Nat
    BY SizeAssumption DEF Holding, Vacant, Off
  <1>2. Holding(n) # {} => First(Holding(n)) \in Holding(n) BY <1>1, FirstIn
  <1>3. Vacant # {} => First(Vacant) \in Vacant BY <1>1, FirstIn
  <1>4. \A o \in Off : dir[o].ino \in (Ino \cup {0}) \ {ROOTINO} BY DEF Disk
  <1> QED BY <1>2, <1>3, <1>4 DEF Holding, Vacant

-------------------------------------------------------------------------------
(* Registers. *)

(* New registers that are as they should be where the process has come to  *)
(* keep Regs.                                                              *)
LEMMA RegsFrom ==
    ASSUME Regs, NEW p \in Proc, NEW r, RegOK(r), u' = [u EXCEPT ![p] = r] PROVE Regs'
  <1>1. r \in Reg BY DEF RegOK
  <1>2. u' \in [Proc -> Reg] BY <1>1 DEF Regs
  <1>3. \A q \in Proc : RegOK(u'[q]) BY DEF Regs
  <1> QED BY <1>2, <1>3 DEF Regs

(* The places and calls the steps name are labels and calls. *)
LEMMA LabelsAre ==
    /\ "user" \in Label /\ "iget" \in Label /\ "iread" \in Label
    /\ "search" \in Label /\ "opened" \in Label /\ "otrunc" \in Label
    /\ "unlinked" \in Label /\ "unwrite" \in Label /\ "ialloc" \in Label
    /\ "iloop" \in Label /\ "allocd" \in Label /\ "scan" \in Label
    /\ "mkwrite" \in Label /\ "linked" \in Label /\ "exists" \in Label
    /\ "lkwrite" \in Label /\ "lkput" \in Label /\ "put" \in Label
    /\ "itrunc" \in Label /\ "ibread" \in Label /\ "ibwrite" \in Label
    /\ "sync" \in Label /\ "panic" \in Label
    /\ "made" \in Call /\ "link2" \in Call /\ "close" \in Call /\ "sync" \in Call
  BY DEF Label, Call

(* The registers between two calls are as they should be. *)
LEMMA IdleOK == RegOK(Idle)
  <1>1. Idle \in Reg BY DEF Idle, Reg, Label, Call
  <1>2. Where(Idle) = "user" BY DEF Idle, Where, Putting
  <1> QED
    BY <1>1, <1>2 DEF Idle, RegOK, DpOK, LpOK, IpOK, RetOK, CallOK, NumberOK, Putting, InDir, ROOTINO, NoSlot

(* A step that ends the call keeps Regs. *)
LEMMA ReturnsRegs ==
    ASSUME Regs, NEW p \in Proc, Returns(p) PROVE Regs' BY IdleOK, RegsFrom DEF Returns

Back(r) == [r EXCEPT !.ino = 0, !.ret = "user", !.pc = r.ret]

(* So does one that goes back to iget's or iput's caller, when the         *)
(* registers are right for that caller.                                    *)
LEMMA ResumeRegs ==
    ASSUME Regs, NEW p \in Proc, NEW r \in Reg, Resume(p, r),
           r.ret # "user" => RegOK(Back(r)) PROVE Regs'
  <1>1. CASE r.ret = "user" BY <1>1, ReturnsRegs DEF Resume
  <1>2. CASE r.ret # "user"
    <2>1. u' = [u EXCEPT ![p] = Back(r)] BY <1>2 DEF Resume, Goes, Reg, Back
    <2>2. RegOK(Back(r)) BY <1>2
    <2> QED BY <2>1, <2>2, RegsFrom
  <1> QED BY <1>1, <1>2

(* A slot other than the root's has not the root's number. *)
LEMMA FileNumber ==
    ASSUME IInv, NEW s \in Files PROVE num[s] \in (Ino \cup {0}) \ {ROOTINO}
  BY SizeAssumption DEF IInv, Numbers, NoAlias, Files, Root, Slot, ROOTINO

(* iget's steps keep Regs: each arrives somewhere with registers that are  *)
(* right there.                                                            *)
LEMMA RegsIget ==
    ASSUME IInv, NEW p \in Proc, Iget(p) PROVE Regs'
  <1>a. u \in [Proc -> Reg] /\ RegOK(u[p]) /\ u[p] \in Reg BY DEF IInv, Regs, RegOK
  <1>b. RegOK(u[p]) /\ u[p] \in Reg BY <1>a
  <1>c. Returns(p) => Regs' BY ReturnsRegs DEF IInv
  <1>1. CASE IgetLocked(p) BY <1>a, <1>1 DEF IgetLocked, Sleeps, IInv, Regs
  <1>2. CASE IgetFound(p)
    <2> DEFINE s == First(InCore(u[p].ino))
    <2>1. s \in Slot /\ (u[p].ino = ROOTINO <=> s = Root)
      BY <1>2, InCoreFirst DEF IInv, IgetFound
    <2>2. u[p].pc = "iget" /\ (u[p].ret = "search" <=> u[p].ino = ROOTINO)
      BY <1>b, <1>2 DEF IgetFound, At, RegOK, NumberOK, CallOK
    <2>3. CASE u[p].ret = "search"
      <3> DEFINE r == [u[p] EXCEPT !.dp = s, !.ino = 0, !.ret = "user", !.pc = "search"]
      <3>1. u' = [u EXCEPT ![p] = r] BY <1>a, <1>2, <2>3 DEF IgetFound, Waits, Got, Reg
      <3> HIDE DEF s
      <3>2. r \in Reg BY <1>b, <2>1, LabelsAre DEF Reg
      <3>3. Where(r) = "search" /\ Where(u[p]) = "search"
        BY <1>b, <2>2, <2>3 DEF Reg, Where, Putting, RegOK, CallOK
      <3>4. RegOK(r)
        BY <1>b, <2>1, <2>2, <2>3, <3>2, <3>3 DEF Reg, RegOK, DpOK, LpOK, IpOK, RetOK, CallOK, NumberOK, Putting, InDir, Files, ROOTINO, NoSlot
      <3> QED BY <3>1, <3>4, RegsFrom DEF IInv
    <2>4. CASE u[p].ret # "search"
      <3> DEFINE r == [u[p] EXCEPT !.ip = s]
      <3>1. Resume(p, r) BY <1>2, <2>4 DEF IgetFound, Got
      <3> HIDE DEF s
      <3>2. r \in Reg /\ r.ret = u[p].ret BY <1>b, <2>1 DEF Reg
      <3>3. u[p].ret \in {"unlinked", "opened", "linked", "exists", "allocd"} /\ s # Root /\ u[p].call # "sync"
        BY <1>b, <2>1, <2>2, <2>4 DEF RegOK, RetOK, CallOK
      <3>4. Where(Back(r)) = u[p].ret /\ Where(u[p]) = u[p].ret
        BY <1>b, <2>2, <3>3 DEF Reg, Where, Putting, Back
      <3>5. Back(r) \in Reg BY <1>b, <2>1, LabelsAre DEF Reg, Back
      <3>6. RegOK(Back(r))
        BY <1>b, <2>1, <2>2, <3>3, <3>4, <3>5 DEF Reg, Back, RegOK, DpOK, LpOK, IpOK, RetOK, CallOK, NumberOK, Putting, InDir, Files, ROOTINO, NoSlot
      <3> HIDE DEF r
      <3> QED BY <3>1, <3>2, <3>6, ResumeRegs DEF IInv
    <2> QED BY <2>3, <2>4
  <1>3. CASE IgetRead(p)
    <2> DEFINE s == First(FreeSlots)
               r == [u[p] EXCEPT !.ip = s, !.pc = "iread"]
    <2>1. s \in Files /\ s # NoSlot
      BY <1>3, FreeFirst DEF IInv, Rest, IgetRead, Files, Slot, NoSlot
    <2>a. u[p].ino # 0
      <3>1. count[s] = 0 /\ s \in Slot BY <1>3, FreeFirst DEF IInv, Rest, IgetRead, Files
      <3>2. num[s] = 0 BY <3>1 DEF IInv, Free
      <3> QED BY <1>3, <3>1, <3>2 DEF IgetRead, InCore
    <2>2. u[p].pc = "iget" /\ u[p].ino # ROOTINO /\ u[p].ret # "search"
      BY <1>b, <1>3, RootInCore DEF IgetRead, At, RegOK, NumberOK, IInv
    <2>3. u' = [u EXCEPT ![p] = r] BY <1>a, <1>3, <2>2 DEF IgetRead, Waits, Got, Reg
    <2> HIDE DEF s
    <2>4. r \in Reg BY <1>b, <2>1, LabelsAre DEF Reg, Files
    <2>5. Where(r) = u[p].ret /\ Where(u[p]) = u[p].ret /\ u[p].call # "sync"
      BY <1>b, <2>2 DEF Reg, Where, Putting, RegOK, CallOK
    <2>6. RegOK(r)
      BY <1>b, <2>1, <2>2, <2>a, <2>4, <2>5 DEF Reg, RegOK, DpOK, LpOK, IpOK, RetOK, CallOK, NumberOK, Putting, InDir, Files, ROOTINO, NoSlot
    <2> QED BY <2>3, <2>6, RegsFrom DEF IInv
  <1>4. CASE IgetFull(p)
    <2> DEFINE r == u[p]
    <2>1. Resume(p, r) /\ u[p].pc = "iget" /\ u[p].ino # ROOTINO
      BY <1>4, RootInCore DEF IgetFull, At, IInv
    <2>2. r \in Reg /\ r.ret = u[p].ret /\ r.ret \in Label BY <1>b DEF Reg
    <2>3. ASSUME r.ret # "user" PROVE RegOK(Back(r))
      <3>1. Back(r) \in Reg BY <1>b, LabelsAre DEF Reg, Back
      <3>2. Where(u[p]) = u[p].ret /\ Where(Back(r)) = u[p].ret
        BY <1>b, <2>1, <2>2, <2>3 DEF Reg, Where, Putting, RegOK, RetOK, CallOK, Back
      <3> QED
        BY <1>b, <2>1, <2>2, <2>3, <3>1, <3>2 DEF Reg, Back, RegOK, DpOK, LpOK, IpOK, RetOK, CallOK, NumberOK, Putting, InDir, Files, ROOTINO, NoSlot
    <2> HIDE DEF r
    <2> QED BY <2>1, <2>2, <2>3, ResumeRegs DEF IInv
  <1>5. CASE Iread(p)
    <2> DEFINE r == u[p]
    <2>1. Resume(p, r) /\ u[p].pc = "iread" BY <1>5 DEF Iread, At
    <2>2. r \in Reg /\ r.ret = u[p].ret /\ r.ret \in Label BY <1>b DEF Reg
    <2>3. ASSUME r.ret # "user" PROVE RegOK(Back(r))
      <3>1. Back(r) \in Reg BY <1>b, LabelsAre DEF Reg, Back
      <3>2. Where(u[p]) = u[p].ret /\ Where(Back(r)) = u[p].ret
        BY <1>b, <2>1, <2>2, <2>3 DEF Reg, Where, Putting, RegOK, RetOK, CallOK, Back
      <3> QED
        BY <1>b, <2>1, <2>2, <2>3, <3>1, <3>2 DEF Reg, Back, RegOK, DpOK, LpOK, IpOK, RetOK, CallOK, NumberOK, Putting, InDir, Files, ROOTINO, NoSlot
    <2> HIDE DEF r
    <2> QED BY <2>1, <2>2, <2>3, ResumeRegs DEF IInv
  <1> QED BY <1>1, <1>2, <1>3, <1>4, <1>5 DEF Iget

(* So do iput's. *)
LEMMA RegsIput ==
    ASSUME IInv, NEW p \in Proc, Iput(p) PROVE Regs'
  <1>a. u \in [Proc -> Reg] /\ RegOK(u[p]) /\ u[p] \in Reg BY DEF IInv, Regs, RegOK
  <1>b. RegOK(u[p]) /\ u[p] \in Reg BY <1>a
  <1>c. Returns(p) => Regs' BY ReturnsRegs DEF IInv
  <1>1. CASE PutShared(p)
    <2> DEFINE r == [u[p] EXCEPT !.ip = NoSlot]
    <2>1. Resume(p, r) /\ u[p].pc = "put" BY <1>1 DEF PutShared, At
    <2>2. r \in Reg /\ r.ret = u[p].ret /\ r.ret \in Label BY <1>b DEF Reg
    <2>3. ASSUME r.ret # "user" PROVE RegOK(Back(r))
      <3>1. Back(r) \in Reg BY <1>b, LabelsAre DEF Reg, Back
      <3>2. Where(u[p]) = u[p].ret /\ Where(Back(r)) = u[p].ret
        BY <1>b, <2>1, <2>2, <2>3 DEF Reg, Where, Putting, RegOK, RetOK, CallOK, Back
      <3> QED
        BY <1>b, <2>1, <2>2, <2>3, <3>1, <3>2 DEF Reg, Back, RegOK, DpOK, LpOK, IpOK, RetOK, CallOK, NumberOK, Putting, InDir, Files, ROOTINO, NoSlot
    <2> HIDE DEF r
    <2> QED BY <2>1, <2>2, <2>3, ResumeRegs DEF IInv
  <1>2. CASE PutClean(p)
    <2> DEFINE r == [u[p] EXCEPT !.ip = NoSlot]
    <2>1. Resume(p, r) /\ u[p].pc = "put" BY <1>2 DEF PutClean, At, Forget
    <2>2. r \in Reg /\ r.ret = u[p].ret /\ r.ret \in Label BY <1>b DEF Reg
    <2>3. ASSUME r.ret # "user" PROVE RegOK(Back(r))
      <3>1. Back(r) \in Reg BY <1>b, LabelsAre DEF Reg, Back
      <3>2. Where(u[p]) = u[p].ret /\ Where(Back(r)) = u[p].ret
        BY <1>b, <2>1, <2>2, <2>3 DEF Reg, Where, Putting, RegOK, RetOK, CallOK, Back
      <3> QED
        BY <1>b, <2>1, <2>2, <2>3, <3>1, <3>2 DEF Reg, Back, RegOK, DpOK, LpOK, IpOK, RetOK, CallOK, NumberOK, Putting, InDir, Files, ROOTINO, NoSlot
    <2> HIDE DEF r
    <2> QED BY <2>1, <2>2, <2>3, ResumeRegs DEF IInv
  <1>3. CASE PutDirty(p)
    <2> DEFINE r == [u[p] EXCEPT !.ino = num[u[p].ip], !.pc = "ibread"]
    <2>1. u' = [u EXCEPT ![p] = r] /\ u[p].pc = "put"
      BY <1>a, <1>3 DEF PutDirty, At, Goes, Waits, Reg
    <2>2. num[u[p].ip] \in (Ino \cup {0}) \ {ROOTINO} /\ u[p].call # "sync" /\ u[p].ip \in Files
      BY <1>b, <2>1, FileNumber DEF RegOK, IpOK, LpOK, CallOK, Where, Putting
    <2>3. r \in Reg BY <1>b, <2>1, LabelsAre, <2>2 DEF Reg
    <2>4. Where(r) = u[p].ret /\ Where(u[p]) = u[p].ret
      BY <1>b, <2>1, <2>2 DEF Reg, Where, Putting, RegOK, CallOK, RetOK
    <2>5. RegOK(r)
      BY <1>b, <2>1, <2>3, <2>4, <2>2 DEF Reg, RegOK, DpOK, LpOK, IpOK, RetOK, CallOK, NumberOK, Putting, InDir, Files, ROOTINO, NoSlot
    <2> QED BY <2>1, <2>5, RegsFrom DEF IInv
  <1>4. CASE PutUnlinked(p)
    <2> DEFINE r == [u[p] EXCEPT !.pc = "itrunc"]
    <2>1. u' = [u EXCEPT ![p] = r] /\ u[p].pc = "put"
      BY <1>a, <1>4 DEF PutUnlinked, At, Goes, Waits, Reg
    <2>3. r \in Reg BY <1>b, <2>1, LabelsAre DEF Reg
    <2>4. Where(r) = u[p].ret /\ Where(u[p]) = u[p].ret
      BY <1>b, <2>1 DEF Reg, Where, Putting, RegOK, CallOK, RetOK
    <2>5. RegOK(r)
      BY <1>b, <2>1, <2>3, <2>4 DEF Reg, RegOK, DpOK, LpOK, IpOK, RetOK, CallOK, NumberOK, Putting, InDir, Files, ROOTINO, NoSlot
    <2> QED BY <2>1, <2>5, RegsFrom DEF IInv
  <1>5. CASE PutTruncated(p)
    <2> DEFINE r == [u[p] EXCEPT !.ino = num[u[p].ip], !.pc = "ibread"]
    <2>1. u' = [u EXCEPT ![p] = r] /\ u[p].pc = "itrunc"
      BY <1>a, <1>5 DEF PutTruncated, At, Goes, Waits, Reg
    <2>2. num[u[p].ip] \in (Ino \cup {0}) \ {ROOTINO} /\ u[p].call # "sync" /\ u[p].ip \in Files
      BY <1>b, <2>1, FileNumber DEF RegOK, IpOK, LpOK, CallOK, Where, Putting
    <2>3. r \in Reg BY <1>b, <2>1, LabelsAre, <2>2 DEF Reg
    <2>4. Where(r) = u[p].ret /\ Where(u[p]) = u[p].ret
      BY <1>b, <2>1, <2>2 DEF Reg, Where, Putting, RegOK, CallOK, RetOK
    <2>5. RegOK(r)
      BY <1>b, <2>1, <2>3, <2>4, <2>2 DEF Reg, RegOK, DpOK, LpOK, IpOK, RetOK, CallOK, NumberOK, Putting, InDir, Files, ROOTINO, NoSlot
    <2> QED BY <2>1, <2>5, RegsFrom DEF IInv
  <1>6. CASE Iupdat(p)
    <2> DEFINE r == [u[p] EXCEPT !.pc = "ibwrite"]
    <2>1. u' = [u EXCEPT ![p] = r] /\ u[p].pc = "ibread"
      BY <1>a, <1>6 DEF Iupdat, At, Goes, Waits, Reg
    <2>3. r \in Reg BY <1>b, <2>1, LabelsAre DEF Reg
    <2>4. Where(r) = (IF u[p].call = "sync" THEN "ibwrite" ELSE u[p].ret) /\ Where(u[p]) = (IF u[p].call = "sync" THEN "ibread" ELSE u[p].ret)
      BY <1>b, <2>1 DEF Reg, Where, Putting, RegOK, CallOK, RetOK
    <2>5. RegOK(r)
      BY <1>b, <2>1, <2>3, <2>4 DEF Reg, RegOK, DpOK, LpOK, IpOK, RetOK, CallOK, NumberOK, Putting, InDir, Files, ROOTINO, NoSlot
    <2> QED BY <2>1, <2>5, RegsFrom DEF IInv
  <1>7. CASE PutWritten(p)
    <2> DEFINE r == [u[p] EXCEPT !.ip = NoSlot]
    <2>1. Resume(p, r) /\ u[p].pc = "ibwrite" /\ u[p].call # "sync"
      BY <1>7 DEF PutWritten, At, Forget
    <2>2. r \in Reg /\ r.ret = u[p].ret /\ r.ret \in Label BY <1>b DEF Reg
    <2>3. ASSUME r.ret # "user" PROVE RegOK(Back(r))
      <3>1. Back(r) \in Reg BY <1>b, LabelsAre DEF Reg, Back
      <3>2. Where(u[p]) = u[p].ret /\ Where(Back(r)) = u[p].ret
        BY <1>b, <2>1, <2>2, <2>3 DEF Reg, Where, Putting, RegOK, RetOK, CallOK, Back
      <3> QED
        BY <1>b, <2>1, <2>2, <2>3, <3>1, <3>2 DEF Reg, Back, RegOK, DpOK, LpOK, IpOK, RetOK, CallOK, NumberOK, Putting, InDir, Files, ROOTINO, NoSlot
    <2> HIDE DEF r
    <2> QED BY <2>1, <2>2, <2>3, ResumeRegs DEF IInv
  <1> QED BY <1>1, <1>2, <1>3, <1>4, <1>5, <1>6, <1>7 DEF Iput

(* So do namei's. *)
LEMMA RegsNamei ==
    ASSUME IInv, NEW p \in Proc, Namei(p) PROVE Regs'
  <1>a. u \in [Proc -> Reg] /\ RegOK(u[p]) /\ u[p] \in Reg BY DEF IInv, Regs, RegOK
  <1>b. RegOK(u[p]) /\ u[p] \in Reg BY <1>a
  <1>c. Returns(p) => Regs' BY ReturnsRegs DEF IInv
  <1>1. CASE SearchUnlink(p)
    <2> DEFINE o == First(Holding(u[p].name))
               i == dir[o].ino
    <2>a. o \in Off /\ i \in Ino \ {ROOTINO} BY <1>1, EntryFirst DEF IInv, SearchUnlink
    <2> DEFINE r == [u[p] EXCEPT !.name = NoName, !.off = o, !.ino = i, !.ret = "unlinked", !.pc = "iget"]
    <2>1. u' = [u EXCEPT ![p] = r] /\ u[p].pc = "search" /\ u[p].call = "unlink"
      BY <1>a, <1>1 DEF SearchUnlink, At, Goes, Waits, Reg
    <2> HIDE DEF o, i
    <2>3. r \in Reg BY <1>b, <2>1, LabelsAre, <2>a DEF Reg
    <2>4. Where(r) = "unlinked" /\ Where(u[p]) = "search"
      BY <1>b, <2>1, <2>a DEF Reg, Where, Putting, RegOK, CallOK, RetOK
    <2>5. RegOK(r)
      BY <1>b, <2>1, <2>3, <2>4, <2>a DEF Reg, RegOK, DpOK, LpOK, IpOK, RetOK, CallOK, NumberOK, Putting, InDir, Files, ROOTINO, NoSlot
    <2> QED BY <2>1, <2>5, RegsFrom DEF IInv
  <1>2. CASE SearchFound(p)
    <2> DEFINE o == First(Holding(u[p].name))
               i == dir[o].ino
    <2>a. o \in Off /\ i \in Ino \ {ROOTINO} BY <1>2, EntryFirst DEF IInv, SearchFound
    <2> DEFINE c == CASE u[p].call = "link" -> "linked" [] u[p].call = "link2" -> "exists" [] OTHER -> "opened"
    <2>b. /\ u[p].call = "link" => c = "linked"
          /\ u[p].call = "link2" => c = "exists"
          /\ u[p].call \notin {"link", "link2"} => c = "opened" OBVIOUS
    <2> DEFINE r == [u[p] EXCEPT !.dp = NoSlot, !.name = NoName, !.ino = i, !.ret = c, !.pc = "iget"]
    <2>1. u' = [u EXCEPT ![p] = r] /\ u[p].pc = "search" /\ u[p].call # "unlink"
      BY <1>a, <1>2 DEF SearchFound, At, Goes, Waits, Reg
    <2> HIDE DEF o, i, c
    <2>3. r \in Reg BY <1>b, <2>1, LabelsAre, <2>a, <2>b DEF Reg
    <2>4. Where(r) = c /\ Where(u[p]) = "search"
      BY <1>b, <2>1, <2>a, <2>b DEF Reg, Where, Putting, RegOK, CallOK, RetOK
    <2>5. RegOK(r)
      BY <1>b, <2>1, <2>3, <2>4, <2>a, <2>b DEF Reg, RegOK, DpOK, LpOK, IpOK, RetOK, CallOK, NumberOK, Putting, InDir, Files, ROOTINO, NoSlot
    <2> QED BY <2>1, <2>5, RegsFrom DEF IInv
  <1>3. CASE SearchVacant(p)
    <2> DEFINE o == First(Vacant)
    <2>a. o \in Off /\ u[p].call \in {"creat", "link2"}
      BY <1>3, EntryFirst DEF IInv, SearchVacant, Creates
    <2>1. CASE u[p].call = "creat"
      <3> DEFINE r == [u[p] EXCEPT !.off = o, !.pc = "ialloc"]
      <3>1. u' = [u EXCEPT ![p] = r] /\ u[p].pc = "search"
        BY <1>a, <1>3, <2>1 DEF SearchVacant, At, Goes, Waits, Reg
      <3> HIDE DEF o
      <3>3. r \in Reg BY <1>b, <3>1, LabelsAre, <2>a, <2>1 DEF Reg
      <3>4. Where(r) = "ialloc" /\ Where(u[p]) = "search"
        BY <1>b, <3>1, <2>1, <2>a DEF Reg, Where, Putting, RegOK, CallOK, RetOK
      <3>5. RegOK(r)
        BY <1>b, <3>1, <3>3, <3>4, <2>a, <2>1 DEF Reg, RegOK, DpOK, LpOK, IpOK, RetOK, CallOK, NumberOK, Putting, InDir, Files, ROOTINO, NoSlot
      <3> QED BY <3>1, <3>5, RegsFrom DEF IInv
    <2>2. CASE u[p].call = "link2"
      <3> DEFINE r == [u[p] EXCEPT !.off = o, !.ino = num[u[p].lp], !.pc = "lkwrite"]
      <3>1. u' = [u EXCEPT ![p] = r] /\ u[p].pc = "search"
        BY <1>a, <1>3, <2>2 DEF SearchVacant, At, Goes, Waits, Reg
      <3> HIDE DEF o
      <3>2. num[u[p].lp] \in (Ino \cup {0}) \ {ROOTINO} /\ u[p].call # "sync" /\ u[p].lp \in Files
        BY <1>b, <2>2, <3>1, FileNumber DEF RegOK, IpOK, LpOK, CallOK, Where, Putting
      <3>3. r \in Reg BY <1>b, <3>1, LabelsAre, <2>a, <3>2, <2>2 DEF Reg
      <3>4. Where(r) = "lkwrite" /\ Where(u[p]) = "search"
        BY <1>b, <3>1, <2>2, <2>a, <3>2 DEF Reg, Where, Putting, RegOK, CallOK, RetOK
      <3>5. RegOK(r)
        BY <1>b, <3>1, <3>3, <3>4, <2>a, <3>2, <2>2 DEF Reg, RegOK, DpOK, LpOK, IpOK, RetOK, CallOK, NumberOK, Putting, InDir, Files, ROOTINO, NoSlot
      <3> QED BY <3>1, <3>5, RegsFrom DEF IInv
    <2> QED BY <2>a, <2>1, <2>2
  <1>4. CASE SearchFails(p)
    <2>1. CASE u[p].call = "link2"
      <3> DEFINE r == [u[p] EXCEPT !.dp = NoSlot, !.name = NoName, !.pc = "lkput"]
      <3>1. u' = [u EXCEPT ![p] = r] /\ u[p].pc = "search"
        BY <1>a, <1>4, <2>1 DEF SearchFails, At, Goes, Waits, Reg
      <3>3. r \in Reg BY <1>b, <3>1, LabelsAre, <2>1 DEF Reg
      <3>4. Where(r) = "lkput" /\ Where(u[p]) = "search"
        BY <1>b, <3>1, <2>1 DEF Reg, Where, Putting, RegOK, CallOK, RetOK
      <3>5. RegOK(r)
        BY <1>b, <3>1, <3>3, <3>4, <2>1 DEF Reg, RegOK, DpOK, LpOK, IpOK, RetOK, CallOK, NumberOK, Putting, InDir, Files, ROOTINO, NoSlot
      <3> QED BY <3>1, <3>5, RegsFrom DEF IInv
    <2> QED BY <1>c, <1>4, <2>1 DEF SearchFails
  <1> QED BY <1>1, <1>2, <1>3, <1>4 DEF Namei

(* So do open1's. *)
LEMMA RegsOpen ==
    ASSUME IInv, NEW p \in Proc, Open(p) PROVE Regs'
  <1>a. u \in [Proc -> Reg] /\ RegOK(u[p]) /\ u[p] \in Reg BY DEF IInv, Regs, RegOK
  <1>b. RegOK(u[p]) /\ u[p] \in Reg BY <1>a
  <1>c. Returns(p) => Regs' BY ReturnsRegs DEF IInv
  <1>1. CASE OpenNothing(p) BY <1>c, <1>1 DEF OpenNothing, IInv
  <1>2. CASE OpenRefused(p)
    <2> DEFINE r == [u[p] EXCEPT !.pc = "put"]
    <2>1. u' = [u EXCEPT ![p] = r] /\ u[p].pc = "opened" /\ u[p].ip # NoSlot
      BY <1>a, <1>2 DEF OpenRefused, At, Goes, Waits, Reg
    <2>3. r \in Reg BY <1>b, <2>1, LabelsAre DEF Reg
    <2>4. Where(r) = "user" /\ Where(u[p]) = "opened"
      BY <1>b, <2>1 DEF Reg, Where, Putting, RegOK, CallOK, RetOK
    <2>5. RegOK(r)
      BY <1>b, <2>1, <2>3, <2>4 DEF Reg, RegOK, DpOK, LpOK, IpOK, RetOK, CallOK, NumberOK, Putting, InDir, Files, ROOTINO, NoSlot
    <2> QED BY <2>1, <2>5, RegsFrom DEF IInv
  <1>3. CASE OpenTruncates(p)
    <2> DEFINE r == [u[p] EXCEPT !.pc = "otrunc"]
    <2>1. u' = [u EXCEPT ![p] = r] /\ u[p].pc = "opened" /\ u[p].ip # NoSlot /\ u[p].call = "creat"
      BY <1>a, <1>3 DEF OpenTruncates, At, Goes, Waits, Reg
    <2>3. r \in Reg BY <1>b, <2>1, LabelsAre DEF Reg
    <2>4. Where(r) = "otrunc" /\ Where(u[p]) = "opened"
      BY <1>b, <2>1 DEF Reg, Where, Putting, RegOK, CallOK, RetOK
    <2>5. RegOK(r)
      BY <1>b, <2>1, <2>3, <2>4 DEF Reg, RegOK, DpOK, LpOK, IpOK, RetOK, CallOK, NumberOK, Putting, InDir, Files, ROOTINO, NoSlot
    <2> QED BY <2>1, <2>5, RegsFrom DEF IInv
  <1>4. CASE OpenDone(p)
    <2>0. u[p].pc \in {"opened", "otrunc"} /\ u[p].ip # NoSlot
      BY <1>b, <1>4 DEF OpenDone, At, RegOK, IpOK
    <2>1. CASE fd[p] # NoSlot
      <3> DEFINE r == [u[p] EXCEPT !.pc = "put"]
      <3>1. u' = [u EXCEPT ![p] = r] BY <1>a, <1>4, <2>1 DEF OpenDone, Goes, Reg
      <3>2. r \in Reg BY <1>b, LabelsAre DEF Reg
      <3>3. Where(r) = "user" /\ Where(u[p]) \in {"opened", "otrunc"}
        BY <1>b, <2>0 DEF Reg, Where, Putting, RegOK, CallOK, RetOK
      <3>4. RegOK(r)
        BY <1>b, <2>0, <3>2, <3>3 DEF Reg, RegOK, DpOK, LpOK, IpOK, RetOK, CallOK, NumberOK, Putting, InDir, Files, ROOTINO, NoSlot
      <3> QED BY <3>1, <3>4, RegsFrom DEF IInv
    <2> QED BY <1>c, <1>4, <2>1 DEF OpenDone
  <1> QED BY <1>1, <1>2, <1>3, <1>4 DEF Open

(* So do unlink's. *)
LEMMA RegsUnlink ==
    ASSUME IInv, NEW p \in Proc, UnlinkStep(p) PROVE Regs'
  <1>a. u \in [Proc -> Reg] /\ RegOK(u[p]) /\ u[p] \in Reg BY DEF IInv, Regs, RegOK
  <1>b. RegOK(u[p]) /\ u[p] \in Reg BY <1>a
  <1>c. Returns(p) => Regs' BY ReturnsRegs DEF IInv
  <1>1. CASE UnlinkPanics(p)
    <2> DEFINE r == [u[p] EXCEPT !.pc = "panic"]
    <2>1. u' = [u EXCEPT ![p] = r] /\ u[p].pc = "unlinked" /\ u[p].ip = NoSlot
      BY <1>a, <1>1 DEF UnlinkPanics, At, Goes, Waits, Reg
    <2>3. r \in Reg BY <1>b, <2>1, LabelsAre DEF Reg
    <2>4. Where(r) = "panic" /\ Where(u[p]) = "unlinked"
      BY <1>b, <2>1 DEF Reg, Where, Putting, RegOK, CallOK, RetOK
    <2>5. RegOK(r)
      BY <1>b, <2>1, <2>3, <2>4 DEF Reg, RegOK, DpOK, LpOK, IpOK, RetOK, CallOK, NumberOK, Putting, InDir, Files, ROOTINO, NoSlot
    <2> QED BY <2>1, <2>5, RegsFrom DEF IInv
  <1>2. CASE UnlinkWrites(p)
    <2> DEFINE r == [u[p] EXCEPT !.pc = "unwrite"]
    <2>1. u' = [u EXCEPT ![p] = r] /\ u[p].pc = "unlinked" /\ u[p].ip # NoSlot
      BY <1>a, <1>2 DEF UnlinkWrites, At, Goes, Waits, Reg
    <2>3. r \in Reg BY <1>b, <2>1, LabelsAre DEF Reg
    <2>4. Where(r) = "unwrite" /\ Where(u[p]) = "unlinked"
      BY <1>b, <2>1 DEF Reg, Where, Putting, RegOK, CallOK, RetOK
    <2>5. RegOK(r)
      BY <1>b, <2>1, <2>3, <2>4 DEF Reg, RegOK, DpOK, LpOK, IpOK, RetOK, CallOK, NumberOK, Putting, InDir, Files, ROOTINO, NoSlot
    <2> QED BY <2>1, <2>5, RegsFrom DEF IInv
  <1>3. CASE Unlink(p)
    <2> DEFINE r == [u[p] EXCEPT !.dp = NoSlot, !.off = 0, !.pc = "put"]
    <2>1. u' = [u EXCEPT ![p] = r] /\ u[p].pc = "unwrite"
      BY <1>a, <1>3 DEF Unlink, At, Goes, Waits, Reg
    <2>3. r \in Reg BY <1>b, <2>1, LabelsAre DEF Reg
    <2>4. Where(r) = "user" /\ Where(u[p]) = "unwrite"
      BY <1>b, <2>1 DEF Reg, Where, Putting, RegOK, CallOK, RetOK
    <2>5. RegOK(r)
      BY <1>b, <2>1, <2>3, <2>4 DEF Reg, RegOK, DpOK, LpOK, IpOK, RetOK, CallOK, NumberOK, Putting, InDir, Files, ROOTINO, NoSlot
    <2> QED BY <2>1, <2>5, RegsFrom DEF IInv
  <1> QED BY <1>1, <1>2, <1>3 DEF UnlinkStep

(* So do ialloc's and maknode's. *)
LEMMA RegsIalloc ==
    ASSUME IInv, NEW p \in Proc, Ialloc(p) PROVE Regs'
  <1>a. u \in [Proc -> Reg] /\ RegOK(u[p]) /\ u[p] \in Reg BY DEF IInv, Regs, RegOK
  <1>b. RegOK(u[p]) /\ u[p] \in Reg BY <1>a
  <1>c. Returns(p) => Regs' BY ReturnsRegs DEF IInv
  <1>1. CASE IallocWaits(p) BY <1>a, <1>1 DEF IallocWaits, Sleeps, IInv, Regs
  <1>2. CASE IallocEnters(p)
    <2> DEFINE r == [u[p] EXCEPT !.pc = "iloop"]
    <2>1. u' = [u EXCEPT ![p] = r] /\ u[p].pc = "ialloc"
      BY <1>a, <1>2 DEF IallocEnters, At, Goes, Waits, Reg
    <2>3. r \in Reg BY <1>b, <2>1, LabelsAre DEF Reg
    <2>4. Where(r) = "iloop" /\ Where(u[p]) = "ialloc"
      BY <1>b, <2>1 DEF Reg, Where, Putting, RegOK, CallOK, RetOK
    <2>5. RegOK(r)
      BY <1>b, <2>1, <2>3, <2>4 DEF Reg, RegOK, DpOK, LpOK, IpOK, RetOK, CallOK, NumberOK, Putting, InDir, Files, ROOTINO, NoSlot
    <2> QED BY <2>1, <2>5, RegsFrom DEF IInv
  <1>3. CASE IallocPops(p)
    <2> DEFINE i == spare[Len(spare)]
    <2>a. i \in (Ino \cup {0}) \ {ROOTINO} BY <1>3 DEF IInv, Disk, IallocPops
    <2> DEFINE r == [u[p] EXCEPT !.ino = i, !.ret = "allocd", !.pc = "iget"]
    <2>1. u' = [u EXCEPT ![p] = r] /\ u[p].pc = "iloop"
      BY <1>a, <1>3 DEF IallocPops, At, Goes, Waits, Reg
    <2> HIDE DEF i
    <2>3. r \in Reg BY <1>b, <2>1, LabelsAre, <2>a DEF Reg
    <2>4. Where(r) = "allocd" /\ Where(u[p]) = "iloop"
      BY <1>b, <2>1, <2>a DEF Reg, Where, Putting, RegOK, CallOK, RetOK
    <2>5. RegOK(r)
      BY <1>b, <2>1, <2>3, <2>4, <2>a DEF Reg, RegOK, DpOK, LpOK, IpOK, RetOK, CallOK, NumberOK, Putting, InDir, Files, ROOTINO, NoSlot
    <2> QED BY <2>1, <2>5, RegsFrom DEF IInv
  <1>4. CASE IallocScans(p)
    <2> DEFINE r == [u[p] EXCEPT !.k = 1, !.pc = "scan"]
    <2>1. u' = [u EXCEPT ![p] = r] /\ u[p].pc = "iloop"
      BY <1>a, <1>4 DEF IallocScans, At, Goes, Waits, Reg
    <2>3. r \in Reg BY <1>b, <2>1, LabelsAre DEF Reg
    <2>4. Where(r) = "scan" /\ Where(u[p]) = "iloop"
      BY <1>b, <2>1 DEF Reg, Where, Putting, RegOK, CallOK, RetOK
    <2>5. RegOK(r)
      BY <1>b, <2>1, <2>3, <2>4 DEF Reg, RegOK, DpOK, LpOK, IpOK, RetOK, CallOK, NumberOK, Putting, InDir, Files, ROOTINO, NoSlot
    <2> QED BY <2>1, <2>5, RegsFrom DEF IInv
  <1>5. CASE Scan(p)
    <2>1. CASE ~(LastBlock(u[p].k) \/ Len(Refill(u[p].k)) >= NICINOD)
      <3> DEFINE r == [u[p] EXCEPT !.k = u[p].k + 1, !.pc = "scan"]
      <3>1. u' = [u EXCEPT ![p] = r] /\ u[p].pc = "scan"
        BY <1>a, <1>5, <2>1 DEF Scan, At, Goes, Waits, Reg
      <3>2. u[p].k + 1 \in Nat BY <1>b DEF Reg
      <3>3. r \in Reg BY <1>b, <3>1, LabelsAre, <3>2, <2>1 DEF Reg
      <3>4. Where(r) = "scan" /\ Where(u[p]) = "scan"
        BY <1>b, <3>1, <2>1, <3>2 DEF Reg, Where, Putting, RegOK, CallOK, RetOK
      <3>5. RegOK(r)
        BY <1>b, <3>1, <3>3, <3>4, <3>2, <2>1 DEF Reg, RegOK, DpOK, LpOK, IpOK, RetOK, CallOK, NumberOK, Putting, InDir, Files, ROOTINO, NoSlot
      <3> QED BY <3>1, <3>5, RegsFrom DEF IInv
    <2>2. CASE (LastBlock(u[p].k) \/ Len(Refill(u[p].k)) >= NICINOD) /\ Refill(u[p].k) # <<>>
      <3> DEFINE r == [u[p] EXCEPT !.k = 0, !.pc = "iloop"]
      <3>1. u' = [u EXCEPT ![p] = r] /\ u[p].pc = "scan"
        BY <1>a, <1>5, <2>2 DEF Scan, At, Goes, Waits, Reg
      <3>3. r \in Reg BY <1>b, <3>1, LabelsAre, <2>2 DEF Reg
      <3>4. Where(r) = "iloop" /\ Where(u[p]) = "scan"
        BY <1>b, <3>1, <2>2 DEF Reg, Where, Putting, RegOK, CallOK, RetOK
      <3>5. RegOK(r)
        BY <1>b, <3>1, <3>3, <3>4, <2>2 DEF Reg, RegOK, DpOK, LpOK, IpOK, RetOK, CallOK, NumberOK, Putting, InDir, Files, ROOTINO, NoSlot
      <3> QED BY <3>1, <3>5, RegsFrom DEF IInv
    <2>3. CASE (LastBlock(u[p].k) \/ Len(Refill(u[p].k)) >= NICINOD) /\ Refill(u[p].k) = <<>>
      BY <1>c, <1>5, <2>3 DEF Scan
    <2> QED BY <2>1, <2>2, <2>3
  <1>6. CASE AllocNothing(p) BY <1>c, <1>6 DEF AllocNothing, IInv
  <1>7. CASE AllocUsed(p)
    <2> DEFINE r == [u[p] EXCEPT !.ret = "iloop", !.pc = "put"]
    <2>1. u' = [u EXCEPT ![p] = r] /\ u[p].pc = "allocd" /\ u[p].ip # NoSlot
      BY <1>a, <1>7 DEF AllocUsed, At, Goes, Waits, Reg
    <2>3. r \in Reg BY <1>b, <2>1, LabelsAre DEF Reg
    <2>4. Where(r) = "iloop" /\ Where(u[p]) = "allocd"
      BY <1>b, <2>1 DEF Reg, Where, Putting, RegOK, CallOK, RetOK
    <2>5. RegOK(r)
      BY <1>b, <2>1, <2>3, <2>4 DEF Reg, RegOK, DpOK, LpOK, IpOK, RetOK, CallOK, NumberOK, Putting, InDir, Files, ROOTINO, NoSlot
    <2> QED BY <2>1, <2>5, RegsFrom DEF IInv
  <1>8. CASE Maknode(p)
    <2> DEFINE r == [u[p] EXCEPT !.ino = num[u[p].ip], !.pc = "mkwrite"]
    <2>1. u' = [u EXCEPT ![p] = r] /\ u[p].pc = "allocd" /\ u[p].ip # NoSlot
      BY <1>a, <1>8 DEF Maknode, At, Goes, Waits, Reg
    <2>2. num[u[p].ip] \in (Ino \cup {0}) \ {ROOTINO} /\ u[p].call # "sync" /\ u[p].ip \in Files
      BY <1>b, <2>1, FileNumber DEF RegOK, IpOK, LpOK, CallOK, Where, Putting
    <2>3. r \in Reg BY <1>b, <2>1, LabelsAre, <2>2 DEF Reg
    <2>4. Where(r) = "mkwrite" /\ Where(u[p]) = "allocd"
      BY <1>b, <2>1, <2>2 DEF Reg, Where, Putting, RegOK, CallOK, RetOK
    <2>5. RegOK(r)
      BY <1>b, <2>1, <2>3, <2>4, <2>2 DEF Reg, RegOK, DpOK, LpOK, IpOK, RetOK, CallOK, NumberOK, Putting, InDir, Files, ROOTINO, NoSlot
    <2> QED BY <2>1, <2>5, RegsFrom DEF IInv
  <1>9. CASE WdirNew(p)
    <2> DEFINE r == [u[p] EXCEPT !.dp = NoSlot, !.call = "made", !.name = NoName, !.off = 0, !.ino = 0, !.pc = "opened"]
    <2>1. u' = [u EXCEPT ![p] = r] /\ u[p].pc = "mkwrite"
      BY <1>a, <1>9 DEF WdirNew, At, Goes, Waits, Reg
    <2>3. r \in Reg BY <1>b, <2>1, LabelsAre DEF Reg
    <2>4. Where(r) = "opened" /\ Where(u[p]) = "mkwrite"
      BY <1>b, <2>1 DEF Reg, Where, Putting, RegOK, CallOK, RetOK
    <2>5. RegOK(r)
      BY <1>b, <2>1, <2>3, <2>4 DEF Reg, RegOK, DpOK, LpOK, IpOK, RetOK, CallOK, NumberOK, Putting, InDir, Files, ROOTINO, NoSlot
    <2> QED BY <2>1, <2>5, RegsFrom DEF IInv
  <1> QED BY <1>1, <1>2, <1>3, <1>4, <1>5, <1>6, <1>7, <1>8, <1>9 DEF Ialloc

(* So do link's. *)
LEMMA RegsLink ==
    ASSUME IInv, NEW p \in Proc, Link(p) PROVE Regs'
  <1>a. u \in [Proc -> Reg] /\ RegOK(u[p]) /\ u[p] \in Reg BY DEF IInv, Regs, RegOK
  <1>b. RegOK(u[p]) /\ u[p] \in Reg BY <1>a
  <1>c. Returns(p) => Regs' BY ReturnsRegs DEF IInv
  <1>1. CASE LinkNothing(p) BY <1>c, <1>1 DEF LinkNothing, IInv
  <1>2. CASE LinkTooMany(p)
    <2> DEFINE r == [u[p] EXCEPT !.pc = "put"]
    <2>1. u' = [u EXCEPT ![p] = r] /\ u[p].pc = "linked" /\ u[p].ip # NoSlot
      BY <1>a, <1>2 DEF LinkTooMany, At, Goes, Waits, Reg
    <2>3. r \in Reg BY <1>b, <2>1, LabelsAre DEF Reg
    <2>4. Where(r) = "user" /\ Where(u[p]) = "linked"
      BY <1>b, <2>1 DEF Reg, Where, Putting, RegOK, CallOK, RetOK
    <2>5. RegOK(r)
      BY <1>b, <2>1, <2>3, <2>4 DEF Reg, RegOK, DpOK, LpOK, IpOK, RetOK, CallOK, NumberOK, Putting, InDir, Files, ROOTINO, NoSlot
    <2> QED BY <2>1, <2>5, RegsFrom DEF IInv
  <1>3. CASE LinkSecond(p)
    <2> DEFINE r == [u[p] EXCEPT !.call = "link2", !.name = u[p].name2, !.name2 = NoName, !.lp = u[p].ip, !.ip = NoSlot, !.ino = ROOTINO, !.ret = "search", !.pc = "iget"]
    <2>1. u' = [u EXCEPT ![p] = r] /\ u[p].pc = "linked" /\ u[p].ip # NoSlot
      BY <1>a, <1>3 DEF LinkSecond, At, Goes, Waits, Reg
    <2>2. ROOTINO \in Ino BY SizeAssumption DEF ROOTINO, Ino
    <2>3. r \in Reg BY <1>b, <2>1, LabelsAre, <2>2 DEF Reg
    <2>4. Where(r) = "search" /\ Where(u[p]) = "linked"
      BY <1>b, <2>1, <2>2 DEF Reg, Where, Putting, RegOK, CallOK, RetOK
    <2>5. RegOK(r)
      BY <1>b, <2>1, <2>3, <2>4, <2>2 DEF Reg, RegOK, DpOK, LpOK, IpOK, RetOK, CallOK, NumberOK, Putting, InDir, Files, ROOTINO, NoSlot
    <2> QED BY <2>1, <2>5, RegsFrom DEF IInv
  <1>4. CASE LinkExists(p)
    <2>1. CASE u[p].ip = NoSlot
      <3> DEFINE r == [u[p] EXCEPT !.pc = "lkput"]
      <3>1. u' = [u EXCEPT ![p] = r] /\ u[p].pc = "exists"
        BY <1>a, <1>4, <2>1 DEF LinkExists, At, Goes, Waits, Reg
      <3>3. r \in Reg BY <1>b, <3>1, LabelsAre, <2>1 DEF Reg
      <3>4. Where(r) = "lkput" /\ Where(u[p]) = "exists"
        BY <1>b, <3>1, <2>1 DEF Reg, Where, Putting, RegOK, CallOK, RetOK
      <3>5. RegOK(r)
        BY <1>b, <3>1, <3>3, <3>4, <2>1 DEF Reg, RegOK, DpOK, LpOK, IpOK, RetOK, CallOK, NumberOK, Putting, InDir, Files, ROOTINO, NoSlot
      <3> QED BY <3>1, <3>5, RegsFrom DEF IInv
    <2>2. CASE u[p].ip # NoSlot
      <3> DEFINE r == [u[p] EXCEPT !.ret = "lkput", !.pc = "put"]
      <3>1. u' = [u EXCEPT ![p] = r] /\ u[p].pc = "exists"
        BY <1>a, <1>4, <2>2 DEF LinkExists, At, Goes, Waits, Reg
      <3>3. r \in Reg BY <1>b, <3>1, LabelsAre, <2>2 DEF Reg
      <3>4. Where(r) = "lkput" /\ Where(u[p]) = "exists"
        BY <1>b, <3>1, <2>2 DEF Reg, Where, Putting, RegOK, CallOK, RetOK
      <3>5. RegOK(r)
        BY <1>b, <3>1, <3>3, <3>4, <2>2 DEF Reg, RegOK, DpOK, LpOK, IpOK, RetOK, CallOK, NumberOK, Putting, InDir, Files, ROOTINO, NoSlot
      <3> QED BY <3>1, <3>5, RegsFrom DEF IInv
    <2> QED BY <2>1, <2>2
  <1>5. CASE WdirLink(p)
    <2> DEFINE r == [u[p] EXCEPT !.dp = NoSlot, !.name = NoName, !.off = 0, !.ino = 0, !.pc = "lkput"]
    <2>1. u' = [u EXCEPT ![p] = r] /\ u[p].pc = "lkwrite"
      BY <1>a, <1>5 DEF WdirLink, At, Goes, Waits, Reg
    <2>3. r \in Reg BY <1>b, <2>1, LabelsAre DEF Reg
    <2>4. Where(r) = "lkput" /\ Where(u[p]) = "lkwrite"
      BY <1>b, <2>1 DEF Reg, Where, Putting, RegOK, CallOK, RetOK
    <2>5. RegOK(r)
      BY <1>b, <2>1, <2>3, <2>4 DEF Reg, RegOK, DpOK, LpOK, IpOK, RetOK, CallOK, NumberOK, Putting, InDir, Files, ROOTINO, NoSlot
    <2> QED BY <2>1, <2>5, RegsFrom DEF IInv
  <1>6. CASE LinkPut(p)
    <2> DEFINE r == [u[p] EXCEPT !.ip = u[p].lp, !.lp = NoSlot, !.pc = "put"]
    <2>1. u' = [u EXCEPT ![p] = r] /\ u[p].pc = "lkput"
      BY <1>a, <1>6 DEF LinkPut, At, Goes, Waits, Reg
    <2>3. r \in Reg BY <1>b, <2>1, LabelsAre DEF Reg
    <2>4. Where(r) = "user" /\ Where(u[p]) = "lkput"
      BY <1>b, <2>1 DEF Reg, Where, Putting, RegOK, CallOK, RetOK
    <2>5. RegOK(r)
      BY <1>b, <2>1, <2>3, <2>4 DEF Reg, RegOK, DpOK, LpOK, IpOK, RetOK, CallOK, NumberOK, Putting, InDir, Files, ROOTINO, NoSlot
    <2> QED BY <2>1, <2>5, RegsFrom DEF IInv
  <1> QED BY <1>1, <1>2, <1>3, <1>4, <1>5, <1>6 DEF Link

(* So do update's. *)
LEMMA RegsSync ==
    ASSUME IInv, NEW p \in Proc, Sync(p) PROVE Regs'
  <1>a. u \in [Proc -> Reg] /\ RegOK(u[p]) /\ u[p] \in Reg BY DEF IInv, Regs, RegOK
  <1>b. RegOK(u[p]) /\ u[p] \in Reg BY <1>a
  <1>c. Returns(p) => Regs' BY ReturnsRegs DEF IInv
  <1>1. CASE SyncSkip(p)
    <2> DEFINE r == [u[p] EXCEPT !.k = u[p].k + 1, !.pc = "sync"]
    <2>1. u' = [u EXCEPT ![p] = r] /\ u[p].pc = "sync" /\ u[p].k \in Slot
      BY <1>a, <1>1 DEF SyncSkip, At, Goes, Waits, Reg
    <2>2. u[p].k + 1 \in Nat BY <1>b DEF Reg
    <2>3. r \in Reg BY <1>b, <2>1, LabelsAre, <2>2 DEF Reg
    <2>4. Where(r) = "sync" /\ Where(u[p]) = "sync"
      BY <1>b, <2>1, <2>2 DEF Reg, Where, Putting, RegOK, CallOK, RetOK
    <2>5. RegOK(r)
      BY <1>b, <2>1, <2>3, <2>4, <2>2 DEF Reg, RegOK, DpOK, LpOK, IpOK, RetOK, CallOK, NumberOK, Putting, InDir, Files, ROOTINO, NoSlot
    <2> QED BY <2>1, <2>5, RegsFrom DEF IInv
  <1>2. CASE SyncInode(p)
    <2> DEFINE r == [u[p] EXCEPT !.ino = num[u[p].k], !.pc = "ibread"]
    <2>1. u' = [u EXCEPT ![p] = r] /\ u[p].pc = "sync" /\ u[p].k \in Slot
      BY <1>a, <1>2 DEF SyncInode, At, Goes, Waits, Reg
    <2>2. num[u[p].k] \in Ino \cup {0} /\ u[p].call = "sync"
      BY <1>b, <2>1 DEF IInv, Numbers, RegOK, CallOK
    <2>3. r \in Reg BY <1>b, <2>1, LabelsAre, <2>2 DEF Reg
    <2>4. Where(r) = "ibread" /\ Where(u[p]) = "sync"
      BY <1>b, <2>1, <2>2 DEF Reg, Where, Putting, RegOK, CallOK, RetOK
    <2>5. RegOK(r)
      BY <1>b, <2>1, <2>3, <2>4, <2>2 DEF Reg, RegOK, DpOK, LpOK, IpOK, RetOK, CallOK, NumberOK, Putting, InDir, Files, ROOTINO, NoSlot
    <2> QED BY <2>1, <2>5, RegsFrom DEF IInv
  <1>3. CASE SyncWritten(p)
    <2> DEFINE r == [u[p] EXCEPT !.k = u[p].k + 1, !.pc = "sync"]
    <2>1. u' = [u EXCEPT ![p] = r] /\ u[p].pc = "ibwrite" /\ u[p].call = "sync"
      BY <1>a, <1>3 DEF SyncWritten, At, Goes, Waits, Reg
    <2>2. u[p].k + 1 \in Nat BY <1>b DEF Reg
    <2>3. r \in Reg BY <1>b, <2>1, LabelsAre, <2>2 DEF Reg
    <2>4. Where(r) = "sync" /\ Where(u[p]) = "ibwrite"
      BY <1>b, <2>1, <2>2 DEF Reg, Where, Putting, RegOK, CallOK, RetOK
    <2>5. RegOK(r)
      BY <1>b, <2>1, <2>3, <2>4, <2>2 DEF Reg, RegOK, DpOK, LpOK, IpOK, RetOK, CallOK, NumberOK, Putting, InDir, Files, ROOTINO, NoSlot
    <2> QED BY <2>1, <2>5, RegsFrom DEF IInv
  <1>4. CASE SyncDone(p) BY <1>c, <1>4 DEF SyncDone, IInv
  <1> QED BY <1>1, <1>2, <1>3, <1>4 DEF Sync

(* So do the steps that begin a call. *)
LEMMA RegsStart ==
    ASSUME IInv, NEW p \in Proc, Start(p) PROVE Regs'
  <1>a. u \in [Proc -> Reg] /\ RegOK(u[p]) /\ u[p] \in Reg BY DEF IInv, Regs, RegOK
  <1>b. RegOK(u[p]) /\ u[p] \in Reg BY <1>a
  <1>c. Returns(p) => Regs' BY ReturnsRegs DEF IInv
  <1>1. CASE StartPath(p)
    <2>1. PICK c \in Calls \cap {"open", "creat", "unlink", "link"}, n \in Name, m \in Name :
             Goes(p, "iget", [Idle EXCEPT !.call = c, !.name = n, !.name2 = IF c = "link" THEN m ELSE NoName,
                                          !.ino = ROOTINO, !.ret = "search"])
      BY <1>1 DEF StartPath
    <2> DEFINE k == IF c = "link" THEN m ELSE NoName
               r == [Idle EXCEPT !.call = c, !.name = n, !.name2 = k, !.ino = ROOTINO, !.ret = "search", !.pc = "iget"]
    <2>2. u' = [u EXCEPT ![p] = r] BY <2>1 DEF Goes, Idle
    <2>3. k \in Name \cup {NoName} /\ ROOTINO \in Ino /\ c \in Call
      BY SizeAssumption DEF ROOTINO, Ino, Call
    <2> HIDE DEF k
    <2>4. r \in Reg BY <2>3, LabelsAre DEF Reg, Idle
    <2>5. Where(r) = "search" BY DEF Where, Idle, Putting
    <2>6. RegOK(r)
      BY <2>4, <2>5 DEF Reg, Idle, RegOK, DpOK, LpOK, IpOK, RetOK, CallOK, NumberOK, Putting, InDir, Files, ROOTINO, NoSlot
    <2> QED BY <2>2, <2>6, RegsFrom DEF IInv
  <1>2. CASE StartSync(p)
    <2>1. CASE ~updlock
      <3> DEFINE r == [Idle EXCEPT !.call = "sync", !.k = 1, !.pc = "sync"]
      <3>1. u' = [u EXCEPT ![p] = r] BY <1>2, <2>1 DEF StartSync, Goes, Idle
      <3>2. r \in Reg BY LabelsAre DEF Reg, Idle
      <3>3. Where(r) = "sync" BY DEF Where, Idle, Putting
      <3>4. RegOK(r)
        BY <3>2, <3>3, SizeAssumption DEF Reg, Idle, Slot, RegOK, DpOK, LpOK, IpOK, RetOK, CallOK, NumberOK, Putting, InDir, Files, ROOTINO, NoSlot
      <3> QED BY <3>1, <3>4, RegsFrom DEF IInv
    <2> QED BY <1>c, <1>2, <2>1 DEF StartSync
  <1>3. CASE ReadWrite(p) BY <1>c, <1>3 DEF ReadWrite, IInv
  <1>4. CASE Close(p)
    <2> DEFINE r == [Idle EXCEPT !.call = "close", !.ip = fd[p], !.pc = "put"]
    <2>1. u' = [u EXCEPT ![p] = r] BY <1>4 DEF Close, Goes, Idle
    <2>2. fd[p] \in Files /\ fd[p] # NoSlot BY <1>4 DEF Close, IInv, Fds
    <2>3. r \in Reg BY <2>2, LabelsAre DEF Reg, Idle, Files
    <2>4. Where(r) = "user" BY DEF Where, Idle, Putting
    <2>5. RegOK(r)
      BY <2>2, <2>3, <2>4 DEF Reg, Idle, RegOK, DpOK, LpOK, IpOK, RetOK, CallOK, NumberOK, Putting, InDir, Files, ROOTINO, NoSlot
    <2> QED BY <2>1, <2>5, RegsFrom DEF IInv
  <1> QED BY <1>1, <1>2, <1>3, <1>4 DEF Start


(* What p has in hand after its step; nobody else is touched. *)
Hands(p, d, i, l) ==
    /\ \A q \in Proc \ {p} : u'[q] = u[q]
    /\ u'[p].dp = d /\ u'[p].ip = i /\ u'[p].lp = l

(* What a process has in hand when it goes back to iget's or iput's        *)
(* caller.                                                                 *)
LEMMA ResumeHands ==
    ASSUME u \in [Proc -> Reg], NEW p \in Proc, NEW r \in Reg, Resume(p, r),
           r.ret = "user" => r.dp = NoSlot /\ r.ip = NoSlot /\ r.lp = NoSlot
    PROVE  Hands(p, r.dp, r.ip, r.lp)
  <1>1. CASE r.ret = "user" BY <1>1 DEF Resume, Returns, Idle, Hands
  <1>2. CASE r.ret # "user" BY <1>2 DEF Resume, Goes, Reg, Hands
  <1> QED BY <1>1, <1>2

(* What p has in hand after each of iget's steps; nobody else's hands      *)
(* change.                                                                 *)
LEMMA HandsIget ==
    ASSUME IInv, NEW p \in Proc
    PROVE  /\ IgetLocked(p) => Hands(p, u[p].dp, u[p].ip, u[p].lp)
           /\ IgetFound(p) /\ u[p].ret = "search" => Hands(p, First(InCore(u[p].ino)), u[p].ip, u[p].lp)
           /\ IgetFound(p) /\ u[p].ret # "search" => Hands(p, u[p].dp, First(InCore(u[p].ino)), u[p].lp)
           /\ IgetRead(p) => Hands(p, u[p].dp, First(FreeSlots), u[p].lp)
           /\ IgetFull(p) => Hands(p, u[p].dp, u[p].ip, u[p].lp)
           /\ Iread(p) => Hands(p, u[p].dp, u[p].ip, u[p].lp)
  <1>a. u \in [Proc -> Reg] /\ RegOK(u[p]) /\ u[p] \in Reg BY DEF IInv, Regs, RegOK
  <1>1. IgetLocked(p) => Hands(p, u[p].dp, u[p].ip, u[p].lp)
    BY <1>a DEF IgetLocked, Resume, Goes, Waits, Returns, Sleeps, Idle, Got, At, Hands, Reg, RegOK, DpOK, LpOK, IpOK, RetOK, CallOK, Where, Putting, InDir, NoSlot
  <1>2. IgetFound(p) /\ u[p].ret = "search" => Hands(p, First(InCore(u[p].ino)), u[p].ip, u[p].lp)
    <2> SUFFICES ASSUME IgetFound(p), u[p].ret = "search" PROVE Hands(p, First(InCore(u[p].ino)), u[p].ip, u[p].lp)
      OBVIOUS
    <2> DEFINE r == [u[p] EXCEPT !.dp = First(InCore(u[p].ino)), !.ino = 0, !.ret = "user", !.pc = "search"]
    <2>1. u' = [u EXCEPT ![p] = r] BY <1>a DEF IgetFound, Got, Goes, Waits, Reg, Idle
    <2> QED BY <1>a, <2>1 DEF Hands, Reg
  <1>3. IgetFound(p) /\ u[p].ret # "search" => Hands(p, u[p].dp, First(InCore(u[p].ino)), u[p].lp)
    <2> SUFFICES ASSUME IgetFound(p), u[p].ret # "search" PROVE Hands(p, u[p].dp, First(InCore(u[p].ino)), u[p].lp)
      OBVIOUS
    <2> DEFINE r == [u[p] EXCEPT !.ip = First(InCore(u[p].ino))]
    <2>1. Resume(p, r) BY DEF IgetFound, Forget, Got
    <2>2. r \in Reg /\ r.dp = u[p].dp /\ r.lp = u[p].lp /\ r.ret = u[p].ret
      BY <1>a, InCoreFirst DEF Reg, IInv, IgetFound
    <2>3. r.ret = "user" => r.dp = NoSlot /\ r.ip = NoSlot /\ r.lp = NoSlot
      BY <1>a, <2>2 DEF IgetFound, Forget, At, Reg, RegOK, DpOK, LpOK, IpOK, RetOK, CallOK, Where, Putting, InDir, NoSlot
    <2>4. Hands(p, r.dp, r.ip, r.lp) BY <1>a, <2>1, <2>2, <2>3, ResumeHands
    <2> QED BY <1>a, <2>2, <2>4 DEF Reg
  <1>4. IgetRead(p) => Hands(p, u[p].dp, First(FreeSlots), u[p].lp)
    <2> SUFFICES ASSUME IgetRead(p) PROVE Hands(p, u[p].dp, First(FreeSlots), u[p].lp)
      OBVIOUS
    <2>1. u[p].ret # "search" BY <1>a, RootInCore DEF IgetRead, At, RegOK, NumberOK, IInv
    <2> QED BY <1>a, <2>1 DEF IgetRead, Waits, Got, Hands, Reg
  <1>5. IgetFull(p) => Hands(p, u[p].dp, u[p].ip, u[p].lp)
    <2> SUFFICES ASSUME IgetFull(p) PROVE Hands(p, u[p].dp, u[p].ip, u[p].lp) OBVIOUS
    <2> DEFINE r == u[p]
    <2>1. Resume(p, r) BY DEF IgetFull, Forget, Got
    <2>2. r \in Reg /\ r.dp = u[p].dp /\ r.lp = u[p].lp /\ r.ret = u[p].ret
      BY <1>a DEF Reg, IInv, IgetFound
    <2>3. r.ret = "user" => r.dp = NoSlot /\ r.ip = NoSlot /\ r.lp = NoSlot
      BY <1>a, <2>2 DEF IgetFull, Forget, At, Reg, RegOK, DpOK, LpOK, IpOK, RetOK, CallOK, Where, Putting, InDir, NoSlot
    <2>4. Hands(p, r.dp, r.ip, r.lp) BY <1>a, <2>1, <2>2, <2>3, ResumeHands
    <2> QED BY <1>a, <2>2, <2>4 DEF Reg
  <1>6. Iread(p) => Hands(p, u[p].dp, u[p].ip, u[p].lp)
    <2> SUFFICES ASSUME Iread(p) PROVE Hands(p, u[p].dp, u[p].ip, u[p].lp) OBVIOUS
    <2> DEFINE r == u[p]
    <2>1. Resume(p, r) BY DEF Iread, Forget, Got
    <2>2. r \in Reg /\ r.dp = u[p].dp /\ r.lp = u[p].lp /\ r.ret = u[p].ret
      BY <1>a DEF Reg, IInv, IgetFound
    <2>3. r.ret = "user" => r.dp = NoSlot /\ r.ip = NoSlot /\ r.lp = NoSlot
      BY <1>a, <2>2 DEF Iread, Forget, At, Reg, RegOK, DpOK, LpOK, IpOK, RetOK, CallOK, Where, Putting, InDir, NoSlot
    <2>4. Hands(p, r.dp, r.ip, r.lp) BY <1>a, <2>1, <2>2, <2>3, ResumeHands
    <2> QED BY <1>a, <2>2, <2>4 DEF Reg
  <1> QED BY <1>1, <1>2, <1>3, <1>4, <1>5, <1>6

(* The same of iput's steps. *)
LEMMA HandsIput ==
    ASSUME IInv, NEW p \in Proc
    PROVE  /\ PutShared(p) => Hands(p, u[p].dp, NoSlot, u[p].lp)
           /\ PutClean(p) => Hands(p, u[p].dp, NoSlot, u[p].lp)
           /\ PutDirty(p) => Hands(p, u[p].dp, u[p].ip, u[p].lp)
           /\ PutUnlinked(p) => Hands(p, u[p].dp, u[p].ip, u[p].lp)
           /\ PutTruncated(p) => Hands(p, u[p].dp, u[p].ip, u[p].lp)
           /\ Iupdat(p) => Hands(p, u[p].dp, u[p].ip, u[p].lp)
           /\ PutWritten(p) => Hands(p, u[p].dp, NoSlot, u[p].lp)
  <1>a. u \in [Proc -> Reg] /\ RegOK(u[p]) /\ u[p] \in Reg BY DEF IInv, Regs, RegOK
  <1>1. PutShared(p) => Hands(p, u[p].dp, NoSlot, u[p].lp)
    <2> SUFFICES ASSUME PutShared(p) PROVE Hands(p, u[p].dp, NoSlot, u[p].lp) OBVIOUS
    <2> DEFINE r == [u[p] EXCEPT !.ip = NoSlot]
    <2>1. Resume(p, r) BY DEF PutShared, Forget, Got
    <2>2. r \in Reg /\ r.dp = u[p].dp /\ r.lp = u[p].lp /\ r.ret = u[p].ret
      BY <1>a DEF Reg, IInv, IgetFound
    <2>3. r.ret = "user" => r.dp = NoSlot /\ r.ip = NoSlot /\ r.lp = NoSlot
      BY <1>a, <2>2 DEF PutShared, Forget, At, Reg, RegOK, DpOK, LpOK, IpOK, RetOK, CallOK, Where, Putting, InDir, NoSlot
    <2>4. Hands(p, r.dp, r.ip, r.lp) BY <1>a, <2>1, <2>2, <2>3, ResumeHands
    <2> QED BY <1>a, <2>2, <2>4 DEF Reg
  <1>2. PutClean(p) => Hands(p, u[p].dp, NoSlot, u[p].lp)
    <2> SUFFICES ASSUME PutClean(p) PROVE Hands(p, u[p].dp, NoSlot, u[p].lp) OBVIOUS
    <2> DEFINE r == [u[p] EXCEPT !.ip = NoSlot]
    <2>1. Resume(p, r) BY DEF PutClean, Forget, Got
    <2>2. r \in Reg /\ r.dp = u[p].dp /\ r.lp = u[p].lp /\ r.ret = u[p].ret
      BY <1>a DEF Reg, IInv, IgetFound
    <2>3. r.ret = "user" => r.dp = NoSlot /\ r.ip = NoSlot /\ r.lp = NoSlot
      BY <1>a, <2>2 DEF PutClean, Forget, At, Reg, RegOK, DpOK, LpOK, IpOK, RetOK, CallOK, Where, Putting, InDir, NoSlot
    <2>4. Hands(p, r.dp, r.ip, r.lp) BY <1>a, <2>1, <2>2, <2>3, ResumeHands
    <2> QED BY <1>a, <2>2, <2>4 DEF Reg
  <1>3. PutDirty(p) => Hands(p, u[p].dp, u[p].ip, u[p].lp)
    BY <1>a DEF PutDirty, Resume, Goes, Waits, Returns, Sleeps, Idle, Got, At, Hands, Reg, RegOK, DpOK, LpOK, IpOK, RetOK, CallOK, Where, Putting, InDir, NoSlot
  <1>4. PutUnlinked(p) => Hands(p, u[p].dp, u[p].ip, u[p].lp)
    BY <1>a DEF PutUnlinked, Resume, Goes, Waits, Returns, Sleeps, Idle, Got, At, Hands, Reg, RegOK, DpOK, LpOK, IpOK, RetOK, CallOK, Where, Putting, InDir, NoSlot
  <1>5. PutTruncated(p) => Hands(p, u[p].dp, u[p].ip, u[p].lp)
    BY <1>a DEF PutTruncated, Resume, Goes, Waits, Returns, Sleeps, Idle, Got, At, Hands, Reg, RegOK, DpOK, LpOK, IpOK, RetOK, CallOK, Where, Putting, InDir, NoSlot
  <1>6. Iupdat(p) => Hands(p, u[p].dp, u[p].ip, u[p].lp)
    BY <1>a DEF Iupdat, Resume, Goes, Waits, Returns, Sleeps, Idle, Got, At, Hands, Reg, RegOK, DpOK, LpOK, IpOK, RetOK, CallOK, Where, Putting, InDir, NoSlot
  <1>7. PutWritten(p) => Hands(p, u[p].dp, NoSlot, u[p].lp)
    <2> SUFFICES ASSUME PutWritten(p) PROVE Hands(p, u[p].dp, NoSlot, u[p].lp) OBVIOUS
    <2> DEFINE r == [u[p] EXCEPT !.ip = NoSlot]
    <2>1. Resume(p, r) BY DEF PutWritten, Forget, Got
    <2>2. r \in Reg /\ r.dp = u[p].dp /\ r.lp = u[p].lp /\ r.ret = u[p].ret
      BY <1>a DEF Reg, IInv, IgetFound
    <2>3. r.ret = "user" => r.dp = NoSlot /\ r.ip = NoSlot /\ r.lp = NoSlot
      BY <1>a, <2>2 DEF PutWritten, Forget, At, Reg, RegOK, DpOK, LpOK, IpOK, RetOK, CallOK, Where, Putting, InDir, NoSlot
    <2>4. Hands(p, r.dp, r.ip, r.lp) BY <1>a, <2>1, <2>2, <2>3, ResumeHands
    <2> QED BY <1>a, <2>2, <2>4 DEF Reg
  <1> QED BY <1>1, <1>2, <1>3, <1>4, <1>5, <1>6, <1>7

(* The same of namei's steps. *)
LEMMA HandsNamei ==
    ASSUME IInv, NEW p \in Proc
    PROVE  /\ SearchUnlink(p) => Hands(p, u[p].dp, u[p].ip, u[p].lp)
           /\ SearchFound(p) => Hands(p, NoSlot, u[p].ip, u[p].lp)
           /\ SearchVacant(p) => Hands(p, u[p].dp, u[p].ip, u[p].lp)
           /\ SearchFails(p) => Hands(p, NoSlot, u[p].ip, u[p].lp)
  <1>a. u \in [Proc -> Reg] /\ RegOK(u[p]) /\ u[p] \in Reg BY DEF IInv, Regs, RegOK
  <1>1. SearchUnlink(p) => Hands(p, u[p].dp, u[p].ip, u[p].lp)
    BY <1>a DEF SearchUnlink, Resume, Goes, Waits, Returns, Sleeps, Idle, Got, At, Hands, Reg, RegOK, DpOK, LpOK, IpOK, RetOK, CallOK, Where, Putting, InDir, NoSlot
  <1>2. SearchFound(p) => Hands(p, NoSlot, u[p].ip, u[p].lp)
    BY <1>a DEF SearchFound, Resume, Goes, Waits, Returns, Sleeps, Idle, Got, At, Hands, Reg, RegOK, DpOK, LpOK, IpOK, RetOK, CallOK, Where, Putting, InDir, NoSlot
  <1>3. SearchVacant(p) => Hands(p, u[p].dp, u[p].ip, u[p].lp)
    <2> SUFFICES ASSUME SearchVacant(p) PROVE Hands(p, u[p].dp, u[p].ip, u[p].lp) OBVIOUS
    <2>1. CASE u[p].call = "creat"
      <3> DEFINE r == [u[p] EXCEPT !.off = First(Vacant), !.pc = "ialloc"]
      <3>1. u' = [u EXCEPT ![p] = r] BY <1>a, <2>1 DEF SearchVacant, Goes, Waits, Reg, Idle
      <3> QED BY <1>a, <3>1, <2>1 DEF Hands, Reg
    <2>2. CASE u[p].call # "creat"
      <3> DEFINE r == [u[p] EXCEPT !.off = First(Vacant), !.ino = num[u[p].lp], !.pc = "lkwrite"]
      <3>1. u' = [u EXCEPT ![p] = r] BY <1>a, <2>2 DEF SearchVacant, Goes, Waits, Reg, Idle
      <3> QED BY <1>a, <3>1, <2>2 DEF Hands, Reg
    <2> QED BY <2>1, <2>2
  <1>4. SearchFails(p) => Hands(p, NoSlot, u[p].ip, u[p].lp)
    <2> SUFFICES ASSUME SearchFails(p) PROVE Hands(p, NoSlot, u[p].ip, u[p].lp) OBVIOUS
    <2>1. CASE u[p].call = "link2"
      <3> DEFINE r == [u[p] EXCEPT !.dp = NoSlot, !.name = NoName, !.pc = "lkput"]
      <3>1. u' = [u EXCEPT ![p] = r] BY <1>a, <2>1 DEF SearchFails, Goes, Waits, Reg, Idle
      <3> QED BY <1>a, <3>1, <2>1 DEF Hands, Reg
    <2>2. CASE u[p].call # "link2"
      <3>1. u' = [u EXCEPT ![p] = Idle] BY <2>2 DEF SearchFails, Returns
      <3>2. u[p].ip = NoSlot /\ u[p].lp = NoSlot
        BY <1>a, <2>2 DEF SearchFails, At, RegOK, IpOK, LpOK, Putting
      <3> QED BY <1>a, <3>1, <3>2 DEF Hands, Idle
    <2> QED BY <2>1, <2>2
  <1> QED BY <1>1, <1>2, <1>3, <1>4

(* The same of open1's steps. *)
LEMMA HandsOpen ==
    ASSUME IInv, NEW p \in Proc
    PROVE  /\ OpenNothing(p) => Hands(p, u[p].dp, u[p].ip, u[p].lp)
           /\ OpenRefused(p) => Hands(p, u[p].dp, u[p].ip, u[p].lp)
           /\ OpenTruncates(p) => Hands(p, u[p].dp, u[p].ip, u[p].lp)
           /\ OpenDone(p) /\ fd[p] = NoSlot => Hands(p, u[p].dp, NoSlot, u[p].lp)
           /\ OpenDone(p) /\ fd[p] # NoSlot => Hands(p, u[p].dp, u[p].ip, u[p].lp)
  <1>a. u \in [Proc -> Reg] /\ RegOK(u[p]) /\ u[p] \in Reg BY DEF IInv, Regs, RegOK
  <1>1. OpenNothing(p) => Hands(p, u[p].dp, u[p].ip, u[p].lp)
    BY <1>a DEF OpenNothing, Resume, Goes, Waits, Returns, Sleeps, Idle, Got, At, Hands, Reg, RegOK, DpOK, LpOK, IpOK, RetOK, CallOK, Where, Putting, InDir, NoSlot
  <1>2. OpenRefused(p) => Hands(p, u[p].dp, u[p].ip, u[p].lp)
    BY <1>a DEF OpenRefused, Resume, Goes, Waits, Returns, Sleeps, Idle, Got, At, Hands, Reg, RegOK, DpOK, LpOK, IpOK, RetOK, CallOK, Where, Putting, InDir, NoSlot
  <1>3. OpenTruncates(p) => Hands(p, u[p].dp, u[p].ip, u[p].lp)
    BY <1>a DEF OpenTruncates, Resume, Goes, Waits, Returns, Sleeps, Idle, Got, At, Hands, Reg, RegOK, DpOK, LpOK, IpOK, RetOK, CallOK, Where, Putting, InDir, NoSlot
  <1>4. OpenDone(p) /\ fd[p] = NoSlot => Hands(p, u[p].dp, NoSlot, u[p].lp)
    BY <1>a DEF OpenDone, Resume, Goes, Waits, Returns, Sleeps, Idle, Got, At, Hands, Reg, RegOK, DpOK, LpOK, IpOK, RetOK, CallOK, Where, Putting, InDir, NoSlot
  <1>5. OpenDone(p) /\ fd[p] # NoSlot => Hands(p, u[p].dp, u[p].ip, u[p].lp)
    BY <1>a DEF OpenDone, Resume, Goes, Waits, Returns, Sleeps, Idle, Got, At, Hands, Reg, RegOK, DpOK, LpOK, IpOK, RetOK, CallOK, Where, Putting, InDir, NoSlot
  <1> QED BY <1>1, <1>2, <1>3, <1>4, <1>5

(* The same of unlink's steps. *)
LEMMA HandsUnlinkStep ==
    ASSUME IInv, NEW p \in Proc
    PROVE  /\ UnlinkPanics(p) => Hands(p, u[p].dp, u[p].ip, u[p].lp)
           /\ UnlinkWrites(p) => Hands(p, u[p].dp, u[p].ip, u[p].lp)
           /\ Unlink(p) => Hands(p, NoSlot, u[p].ip, u[p].lp)
  <1>a. u \in [Proc -> Reg] /\ RegOK(u[p]) /\ u[p] \in Reg BY DEF IInv, Regs, RegOK
  <1>1. UnlinkPanics(p) => Hands(p, u[p].dp, u[p].ip, u[p].lp)
    BY <1>a DEF UnlinkPanics, Resume, Goes, Waits, Returns, Sleeps, Idle, Got, At, Hands, Reg, RegOK, DpOK, LpOK, IpOK, RetOK, CallOK, Where, Putting, InDir, NoSlot
  <1>2. UnlinkWrites(p) => Hands(p, u[p].dp, u[p].ip, u[p].lp)
    BY <1>a DEF UnlinkWrites, Resume, Goes, Waits, Returns, Sleeps, Idle, Got, At, Hands, Reg, RegOK, DpOK, LpOK, IpOK, RetOK, CallOK, Where, Putting, InDir, NoSlot
  <1>3. Unlink(p) => Hands(p, NoSlot, u[p].ip, u[p].lp)
    BY <1>a DEF Unlink, Resume, Goes, Waits, Returns, Sleeps, Idle, Got, At, Hands, Reg, RegOK, DpOK, LpOK, IpOK, RetOK, CallOK, Where, Putting, InDir, NoSlot
  <1> QED BY <1>1, <1>2, <1>3

(* The same of ialloc's and maknode's steps. *)
LEMMA HandsIalloc ==
    ASSUME IInv, NEW p \in Proc
    PROVE  /\ IallocWaits(p) => Hands(p, u[p].dp, u[p].ip, u[p].lp)
           /\ IallocEnters(p) => Hands(p, u[p].dp, u[p].ip, u[p].lp)
           /\ IallocPops(p) => Hands(p, u[p].dp, u[p].ip, u[p].lp)
           /\ IallocScans(p) => Hands(p, u[p].dp, u[p].ip, u[p].lp)
           /\ Scan(p) /\ lost' = lost => Hands(p, u[p].dp, u[p].ip, u[p].lp)
           /\ Scan(p) /\ lost' # lost => Hands(p, NoSlot, u[p].ip, u[p].lp)
           /\ AllocNothing(p) => Hands(p, NoSlot, u[p].ip, u[p].lp)
           /\ AllocUsed(p) => Hands(p, u[p].dp, u[p].ip, u[p].lp)
           /\ Maknode(p) => Hands(p, u[p].dp, u[p].ip, u[p].lp)
           /\ WdirNew(p) => Hands(p, NoSlot, u[p].ip, u[p].lp)
  <1>a. u \in [Proc -> Reg] /\ RegOK(u[p]) /\ u[p] \in Reg BY DEF IInv, Regs, RegOK
  <1>1. IallocWaits(p) => Hands(p, u[p].dp, u[p].ip, u[p].lp)
    BY <1>a DEF IallocWaits, Resume, Goes, Waits, Returns, Sleeps, Idle, Got, At, Hands, Reg, RegOK, DpOK, LpOK, IpOK, RetOK, CallOK, Where, Putting, InDir, NoSlot
  <1>2. IallocEnters(p) => Hands(p, u[p].dp, u[p].ip, u[p].lp)
    BY <1>a DEF IallocEnters, Resume, Goes, Waits, Returns, Sleeps, Idle, Got, At, Hands, Reg, RegOK, DpOK, LpOK, IpOK, RetOK, CallOK, Where, Putting, InDir, NoSlot
  <1>3. IallocPops(p) => Hands(p, u[p].dp, u[p].ip, u[p].lp)
    BY <1>a DEF IallocPops, Resume, Goes, Waits, Returns, Sleeps, Idle, Got, At, Hands, Reg, RegOK, DpOK, LpOK, IpOK, RetOK, CallOK, Where, Putting, InDir, NoSlot
  <1>4. IallocScans(p) => Hands(p, u[p].dp, u[p].ip, u[p].lp)
    BY <1>a DEF IallocScans, Resume, Goes, Waits, Returns, Sleeps, Idle, Got, At, Hands, Reg, RegOK, DpOK, LpOK, IpOK, RetOK, CallOK, Where, Putting, InDir, NoSlot
  <1>5. Scan(p) /\ lost' = lost => Hands(p, u[p].dp, u[p].ip, u[p].lp)
    <2> SUFFICES ASSUME Scan(p), lost' = lost PROVE Hands(p, u[p].dp, u[p].ip, u[p].lp)
      OBVIOUS
    <2>1. CASE LastBlock(u[p].k) \/ Len(Refill(u[p].k)) >= NICINOD
      <3>1. lost' # lost + 1 BY DEF IInv, Rest
      <3>2. Goes(p, "iloop", [u[p] EXCEPT !.k = 0]) BY <2>1, <3>1 DEF Scan
      <3> QED BY <1>a, <3>2 DEF Goes, Hands, Reg
    <2>2. CASE ~(LastBlock(u[p].k) \/ Len(Refill(u[p].k)) >= NICINOD)
      <3>1. Waits(p, "scan", [u[p] EXCEPT !.k = u[p].k + 1]) BY <2>2 DEF Scan
      <3> QED BY <1>a, <3>1 DEF Waits, Hands, Reg
    <2> QED BY <2>1, <2>2
  <1>6. Scan(p) /\ lost' # lost => Hands(p, NoSlot, u[p].ip, u[p].lp)
    BY <1>a DEF Scan, Resume, Goes, Waits, Returns, Sleeps, Idle, Got, At, Hands, Reg, RegOK, DpOK, LpOK, IpOK, RetOK, CallOK, Where, Putting, InDir, NoSlot
  <1>7. AllocNothing(p) => Hands(p, NoSlot, u[p].ip, u[p].lp)
    BY <1>a DEF AllocNothing, Resume, Goes, Waits, Returns, Sleeps, Idle, Got, At, Hands, Reg, RegOK, DpOK, LpOK, IpOK, RetOK, CallOK, Where, Putting, InDir, NoSlot
  <1>8. AllocUsed(p) => Hands(p, u[p].dp, u[p].ip, u[p].lp)
    BY <1>a DEF AllocUsed, Resume, Goes, Waits, Returns, Sleeps, Idle, Got, At, Hands, Reg, RegOK, DpOK, LpOK, IpOK, RetOK, CallOK, Where, Putting, InDir, NoSlot
  <1>9. Maknode(p) => Hands(p, u[p].dp, u[p].ip, u[p].lp)
    BY <1>a DEF Maknode, Resume, Goes, Waits, Returns, Sleeps, Idle, Got, At, Hands, Reg, RegOK, DpOK, LpOK, IpOK, RetOK, CallOK, Where, Putting, InDir, NoSlot
  <1>10. WdirNew(p) => Hands(p, NoSlot, u[p].ip, u[p].lp)
    BY <1>a DEF WdirNew, Resume, Goes, Waits, Returns, Sleeps, Idle, Got, At, Hands, Reg, RegOK, DpOK, LpOK, IpOK, RetOK, CallOK, Where, Putting, InDir, NoSlot
  <1> QED BY <1>1, <1>2, <1>3, <1>4, <1>5, <1>6, <1>7, <1>8, <1>9, <1>10

(* The same of link's steps. *)
LEMMA HandsLink ==
    ASSUME IInv, NEW p \in Proc
    PROVE  /\ LinkNothing(p) => Hands(p, u[p].dp, u[p].ip, u[p].lp)
           /\ LinkTooMany(p) => Hands(p, u[p].dp, u[p].ip, u[p].lp)
           /\ LinkSecond(p) => Hands(p, u[p].dp, NoSlot, u[p].ip)
           /\ LinkExists(p) => Hands(p, u[p].dp, u[p].ip, u[p].lp)
           /\ WdirLink(p) => Hands(p, NoSlot, u[p].ip, u[p].lp)
           /\ LinkPut(p) => Hands(p, u[p].dp, u[p].lp, NoSlot)
  <1>a. u \in [Proc -> Reg] /\ RegOK(u[p]) /\ u[p] \in Reg BY DEF IInv, Regs, RegOK
  <1>1. LinkNothing(p) => Hands(p, u[p].dp, u[p].ip, u[p].lp)
    BY <1>a DEF LinkNothing, Resume, Goes, Waits, Returns, Sleeps, Idle, Got, At, Hands, Reg, RegOK, DpOK, LpOK, IpOK, RetOK, CallOK, Where, Putting, InDir, NoSlot
  <1>2. LinkTooMany(p) => Hands(p, u[p].dp, u[p].ip, u[p].lp)
    BY <1>a DEF LinkTooMany, Resume, Goes, Waits, Returns, Sleeps, Idle, Got, At, Hands, Reg, RegOK, DpOK, LpOK, IpOK, RetOK, CallOK, Where, Putting, InDir, NoSlot
  <1>3. LinkSecond(p) => Hands(p, u[p].dp, NoSlot, u[p].ip)
    BY <1>a DEF LinkSecond, Resume, Goes, Waits, Returns, Sleeps, Idle, Got, At, Hands, Reg, RegOK, DpOK, LpOK, IpOK, RetOK, CallOK, Where, Putting, InDir, NoSlot
  <1>4. LinkExists(p) => Hands(p, u[p].dp, u[p].ip, u[p].lp)
    <2>1. CASE u[p].ip = 0 BY <1>a, <2>1 DEF LinkExists, Goes, Waits, Hands, Reg
    <2>2. CASE ~(u[p].ip = 0) BY <1>a, <2>2 DEF LinkExists, Goes, Waits, Hands, Reg
    <2> QED BY <2>1, <2>2
  <1>5. WdirLink(p) => Hands(p, NoSlot, u[p].ip, u[p].lp)
    BY <1>a DEF WdirLink, Resume, Goes, Waits, Returns, Sleeps, Idle, Got, At, Hands, Reg, RegOK, DpOK, LpOK, IpOK, RetOK, CallOK, Where, Putting, InDir, NoSlot
  <1>6. LinkPut(p) => Hands(p, u[p].dp, u[p].lp, NoSlot)
    BY <1>a DEF LinkPut, Resume, Goes, Waits, Returns, Sleeps, Idle, Got, At, Hands, Reg, RegOK, DpOK, LpOK, IpOK, RetOK, CallOK, Where, Putting, InDir, NoSlot
  <1> QED BY <1>1, <1>2, <1>3, <1>4, <1>5, <1>6

(* The same of update's steps. *)
LEMMA HandsSync ==
    ASSUME IInv, NEW p \in Proc
    PROVE  /\ SyncSkip(p) => Hands(p, u[p].dp, u[p].ip, u[p].lp)
           /\ SyncInode(p) => Hands(p, u[p].dp, u[p].ip, u[p].lp)
           /\ SyncWritten(p) => Hands(p, u[p].dp, u[p].ip, u[p].lp)
           /\ SyncDone(p) => Hands(p, u[p].dp, u[p].ip, u[p].lp)
  <1>a. u \in [Proc -> Reg] /\ RegOK(u[p]) /\ u[p] \in Reg BY DEF IInv, Regs, RegOK
  <1>1. SyncSkip(p) => Hands(p, u[p].dp, u[p].ip, u[p].lp)
    BY <1>a DEF SyncSkip, Resume, Goes, Waits, Returns, Sleeps, Idle, Got, At, Hands, Reg, RegOK, DpOK, LpOK, IpOK, RetOK, CallOK, Where, Putting, InDir, NoSlot
  <1>2. SyncInode(p) => Hands(p, u[p].dp, u[p].ip, u[p].lp)
    BY <1>a DEF SyncInode, Resume, Goes, Waits, Returns, Sleeps, Idle, Got, At, Hands, Reg, RegOK, DpOK, LpOK, IpOK, RetOK, CallOK, Where, Putting, InDir, NoSlot
  <1>3. SyncWritten(p) => Hands(p, u[p].dp, u[p].ip, u[p].lp)
    BY <1>a DEF SyncWritten, Resume, Goes, Waits, Returns, Sleeps, Idle, Got, At, Hands, Reg, RegOK, DpOK, LpOK, IpOK, RetOK, CallOK, Where, Putting, InDir, NoSlot
  <1>4. SyncDone(p) => Hands(p, u[p].dp, u[p].ip, u[p].lp)
    BY <1>a DEF SyncDone, Resume, Goes, Waits, Returns, Sleeps, Idle, Got, At, Hands, Reg, RegOK, DpOK, LpOK, IpOK, RetOK, CallOK, Where, Putting, InDir, NoSlot
  <1> QED BY <1>1, <1>2, <1>3, <1>4

(* The same of the steps that begin a call. *)
LEMMA HandsStart ==
    ASSUME IInv, NEW p \in Proc
    PROVE  /\ StartPath(p) => Hands(p, u[p].dp, u[p].ip, u[p].lp)
           /\ StartSync(p) => Hands(p, u[p].dp, u[p].ip, u[p].lp)
           /\ ReadWrite(p) => Hands(p, u[p].dp, u[p].ip, u[p].lp)
           /\ Close(p) => Hands(p, u[p].dp, fd[p], u[p].lp)
  <1>a. u \in [Proc -> Reg] /\ RegOK(u[p]) /\ u[p] \in Reg BY DEF IInv, Regs, RegOK
  <1>1. StartPath(p) => Hands(p, u[p].dp, u[p].ip, u[p].lp)
    BY <1>a DEF StartPath, Resume, Goes, Waits, Returns, Sleeps, Idle, Got, At, Hands, Reg, RegOK, DpOK, LpOK, IpOK, RetOK, CallOK, Where, Putting, InDir, NoSlot
  <1>2. StartSync(p) => Hands(p, u[p].dp, u[p].ip, u[p].lp)
    <2> SUFFICES ASSUME StartSync(p) PROVE Hands(p, u[p].dp, u[p].ip, u[p].lp) OBVIOUS
    <2>0. u[p].dp = NoSlot /\ u[p].ip = NoSlot /\ u[p].lp = NoSlot
      BY <1>a DEF StartSync, At, RegOK, DpOK, LpOK, IpOK, Where, Putting, InDir
    <2>1. CASE updlock BY <1>a, <2>0, <2>1 DEF StartSync, Returns, Idle, Hands
    <2>2. CASE ~updlock
      <3> DEFINE r == [Idle EXCEPT !.call = "sync", !.k = 1, !.pc = "sync"]
      <3>1. u' = [u EXCEPT ![p] = r]
        BY <1>a, <2>2, <2>0 DEF StartSync, Goes, Waits, Reg, Idle
      <3> QED BY <1>a, <3>1, <2>2, <2>0 DEF Hands, Idle
    <2> QED BY <2>1, <2>2
  <1>3. ReadWrite(p) => Hands(p, u[p].dp, u[p].ip, u[p].lp)
    BY <1>a DEF ReadWrite, Resume, Goes, Waits, Returns, Sleeps, Idle, Got, At, Hands, Reg, RegOK, DpOK, LpOK, IpOK, RetOK, CallOK, Where, Putting, InDir, NoSlot
  <1>4. Close(p) => Hands(p, u[p].dp, fd[p], u[p].lp)
    BY <1>a DEF Close, Resume, Goes, Waits, Returns, Sleeps, Idle, Got, At, Hands, Reg, RegOK, DpOK, LpOK, IpOK, RetOK, CallOK, Where, Putting, InDir, NoSlot
  <1> QED BY <1>1, <1>2, <1>3, <1>4

-------------------------------------------------------------------------------
(* The counts. *)

(* Hands, in terms of references. *)
LEMMA HandsOthers ==
    ASSUME NEW p \in Proc, NEW d, NEW i, NEW l, Hands(p, d, i, l),
           \A q \in Proc \ {p} : fd'[q] = fd[q]
    PROVE  /\ Others(p)
           /\ Refers(p, "dp")' = d /\ Refers(p, "ip")' = i /\ Refers(p, "lp")' = l
           /\ Refers(p, "fd")' = fd'[p] BY DEF Hands, Others, Refers, Reference

(* Refers, reference by reference. *)
LEMMA ReferencesAre ==
    ASSUME NEW p
    PROVE  /\ Refers(p, "dp") = u[p].dp /\ Refers(p, "ip") = u[p].ip
           /\ Refers(p, "lp") = u[p].lp /\ Refers(p, "fd") = fd[p]
           /\ \A r \in Reference : r \in {"fd", "dp", "ip", "lp"}
           /\ "fd" \in Reference /\ "dp" \in Reference /\ "ip" \in Reference /\ "lp" \in Reference
  BY DEF Refers, Reference

(* A step that moves no reference and no count keeps Counts. *)
LEMMA CountsStay ==
    ASSUME Counts, NEW p \in Proc, Hands(p, u[p].dp, u[p].ip, u[p].lp),
           fd' = fd, count' = count, lost' = lost PROVE Counts'
  <1>1. Others(p) /\ Same(p, {}) BY HandsOthers, ReferencesAre DEF Same
  <1> QED BY <1>1, Keeps DEF Counts

(* iget's steps keep i_count equal to the number of references. *)
LEMMA CountsIget ==
    ASSUME IInv, NEW p \in Proc, Iget(p) PROVE Counts'
  <1>a. /\ u \in [Proc -> Reg] /\ RegOK(u[p]) /\ u[p] \in Reg /\ fd \in [Proc -> Files \cup {NoSlot}]
        /\ Counts /\ RefCount /\ count \in [Slot -> Nat] /\ lost \in Nat /\ Root \in Slot
    BY SizeAssumption DEF IInv, Regs, RegOK, Fds, Counts, Rest, Root, Slot
  <1>1. CASE IgetLocked(p)
    BY <1>a, <1>1, HandsIget, CountsStay DEF IgetLocked, table, hist, Counted
  <1>2. CASE IgetFound(p)
    <2> DEFINE s == First(InCore(u[p].ino))
    <2>1. s \in Slot /\ count' = [count EXCEPT ![s] = @ + 1] /\ fd' = fd /\ lost' = lost
      BY <1>2, InCoreFirst DEF IgetFound, hist, IInv
    <2>2. u[p].dp = NoSlot \/ u[p].ret # "search"
      BY <1>a, <1>2 DEF IgetFound, At, RegOK, DpOK, Where, InDir
    <2>3. u[p].ip = NoSlot BY <1>a, <1>2 DEF IgetFound, At, RegOK, IpOK, Putting
    <2>4. CASE u[p].ret = "search"
      <3>1. Others(p) /\ Same(p, {"dp"}) /\ Refers(p, "dp")' = s
        BY <1>2, <2>1, <2>4, HandsIget, HandsOthers, ReferencesAre DEF Same
      <3> HIDE DEF s
      <3> QED
        <4>1. Refers(p, "dp") = NoSlot BY <2>2, <2>4, ReferencesAre
        <4> QED BY <1>a, <2>1, <3>1, <4>1, Gains, ReferencesAre DEF Counts
    <2>5. CASE u[p].ret # "search"
      <3>1. Others(p) /\ Same(p, {"ip"}) /\ Refers(p, "ip")' = s
        BY <1>2, <2>1, <2>5, HandsIget, HandsOthers, ReferencesAre DEF Same
      <3> HIDE DEF s
      <3> QED BY <1>a, <2>1, <2>3, <3>1, Gains, ReferencesAre DEF Counts
    <2> QED BY <2>4, <2>5
  <1>3. CASE IgetRead(p)
    <2> DEFINE s == First(FreeSlots)
    <2>1. s \in Slot /\ count' = [count EXCEPT ![s] = @ + 1] /\ fd' = fd /\ lost' = lost
      BY <1>a, <1>3, FreeFirst DEF IgetRead, hist, Files
    <2>2. u[p].ip = NoSlot BY <1>a, <1>3 DEF IgetRead, At, RegOK, IpOK, Putting
    <2>3. Others(p) /\ Same(p, {"ip"}) /\ Refers(p, "ip")' = s
      BY <1>3, <2>1, HandsIget, HandsOthers, ReferencesAre DEF Same
    <2> HIDE DEF s
    <2> QED BY <1>a, <2>1, <2>2, <2>3, Gains, ReferencesAre DEF Counts
  <1>4. CASE IgetFull(p)
    BY <1>a, <1>4, HandsIget, CountsStay DEF IgetFull, table, hist, Counted
  <1>5. CASE Iread(p) BY <1>a, <1>5, HandsIget, CountsStay DEF Iread, table, hist, Counted
  <1> QED BY <1>1, <1>2, <1>3, <1>4, <1>5 DEF Iget

(* So do iput's. *)
LEMMA CountsIput ==
    ASSUME IInv, NEW p \in Proc, Iput(p) PROVE Counts'
  <1>a. /\ u \in [Proc -> Reg] /\ RegOK(u[p]) /\ u[p] \in Reg /\ fd \in [Proc -> Files \cup {NoSlot}]
        /\ Counts /\ RefCount /\ count \in [Slot -> Nat] /\ lost \in Nat /\ Root \in Slot
    BY SizeAssumption DEF IInv, Regs, RegOK, Fds, Counts, Rest, Root, Slot
  <1>1. CASE PutShared(p)
    <2>1. u[p].ip \in Files /\ count' = [count EXCEPT ![u[p].ip] = @ - 1] /\ fd' = fd /\ lost' = lost
      BY <1>a, <1>1 DEF PutShared, At, PutDir, hist, RegOK, DpOK, IpOK, CallOK, Where, InDir, Putting
    <2>2. Others(p) /\ Same(p, {"ip"}) /\ Refers(p, "ip")' = NoSlot
      BY <1>1, <2>1, HandsIput, HandsOthers, ReferencesAre DEF Same
    <2> QED BY <1>a, <2>1, <2>2, Loses, ReferencesAre DEF Files, Counts
  <1>2. CASE PutClean(p)
    <2>1. u[p].ip \in Files /\ count' = [count EXCEPT ![u[p].ip] = @ - 1] /\ fd' = fd /\ lost' = lost
      BY <1>a, <1>2 DEF PutClean, Forget, At, PutDir, hist, RegOK, DpOK, IpOK, CallOK, Where, InDir, Putting
    <2>2. Others(p) /\ Same(p, {"ip"}) /\ Refers(p, "ip")' = NoSlot
      BY <1>2, <2>1, HandsIput, HandsOthers, ReferencesAre DEF Same
    <2> QED BY <1>a, <2>1, <2>2, Loses, ReferencesAre DEF Files, Counts
  <1>3. CASE PutDirty(p)
    BY <1>a, <1>3, HandsIput, CountsStay DEF PutDirty, table, hist, Counted
  <1>4. CASE PutUnlinked(p)
    BY <1>a, <1>4, HandsIput, CountsStay DEF PutUnlinked, table, hist, Counted
  <1>5. CASE PutTruncated(p)
    BY <1>a, <1>5, HandsIput, CountsStay DEF PutTruncated, table, hist, Counted
  <1>6. CASE Iupdat(p) BY <1>a, <1>6, HandsIput, CountsStay DEF Iupdat, table, hist, Counted
  <1>7. CASE PutWritten(p)
    <2>1. u[p].ip \in Files /\ count' = [count EXCEPT ![u[p].ip] = @ - 1] /\ fd' = fd /\ lost' = lost
      BY <1>a, <1>7 DEF PutWritten, Forget, At, PutDir, hist, RegOK, DpOK, IpOK, CallOK, Where, InDir, Putting
    <2>2. Others(p) /\ Same(p, {"ip"}) /\ Refers(p, "ip")' = NoSlot
      BY <1>7, <2>1, HandsIput, HandsOthers, ReferencesAre DEF Same
    <2> QED BY <1>a, <2>1, <2>2, Loses, ReferencesAre DEF Files, Counts
  <1> QED BY <1>1, <1>2, <1>3, <1>4, <1>5, <1>6, <1>7 DEF Iput

(* So do namei's. *)
LEMMA CountsNamei ==
    ASSUME IInv, NEW p \in Proc, Namei(p) PROVE Counts'
  <1>a. /\ u \in [Proc -> Reg] /\ RegOK(u[p]) /\ u[p] \in Reg /\ fd \in [Proc -> Files \cup {NoSlot}]
        /\ Counts /\ RefCount /\ count \in [Slot -> Nat] /\ lost \in Nat /\ Root \in Slot
    BY SizeAssumption DEF IInv, Regs, RegOK, Fds, Counts, Rest, Root, Slot
  <1>1. CASE SearchUnlink(p)
    <2>1. fd' = fd /\ count' = count /\ lost' = lost
      BY <1>1 DEF SearchUnlink, table, hist, Counted
    <2> QED BY <1>a, <1>1, <2>1, HandsNamei, CountsStay
  <1>2. CASE SearchFound(p)
    <2>1. u[p].dp = Root /\ count' = [count EXCEPT ![Root] = @ - 1] /\ fd' = fd /\ lost' = lost
      BY <1>a, <1>2 DEF SearchFound, At, PutDir, hist, RegOK, DpOK, IpOK, CallOK, Where, InDir, Putting
    <2>2. Others(p) /\ Same(p, {"dp"}) /\ Refers(p, "dp")' = NoSlot
      BY <1>2, <2>1, HandsNamei, HandsOthers, ReferencesAre DEF Same
    <2> QED BY <1>a, <2>1, <2>2, Loses, ReferencesAre DEF Files, Counts
  <1>3. CASE SearchVacant(p)
    <2>1. fd' = fd /\ count' = count /\ lost' = lost
      BY <1>3 DEF SearchVacant, table, hist, Counted
    <2> QED BY <1>a, <1>3, <2>1, HandsNamei, CountsStay
  <1>4. CASE SearchFails(p)
    <2>1. u[p].dp = Root /\ count' = [count EXCEPT ![Root] = @ - 1] /\ fd' = fd /\ lost' = lost
      BY <1>a, <1>4 DEF SearchFails, At, PutDir, hist, RegOK, DpOK, IpOK, CallOK, Where, InDir, Putting
    <2>2. Others(p) /\ Same(p, {"dp"}) /\ Refers(p, "dp")' = NoSlot
      BY <1>4, <2>1, HandsNamei, HandsOthers, ReferencesAre DEF Same
    <2> QED BY <1>a, <2>1, <2>2, Loses, ReferencesAre DEF Files, Counts
  <1> QED BY <1>1, <1>2, <1>3, <1>4 DEF Namei

(* So do open1's: the file goes from the call's hands to the descriptor. *)
LEMMA CountsOpen ==
    ASSUME IInv, NEW p \in Proc, Open(p) PROVE Counts'
  <1>a. /\ u \in [Proc -> Reg] /\ RegOK(u[p]) /\ u[p] \in Reg /\ fd \in [Proc -> Files \cup {NoSlot}]
        /\ Counts /\ RefCount /\ count \in [Slot -> Nat] /\ lost \in Nat /\ Root \in Slot
    BY SizeAssumption DEF IInv, Regs, RegOK, Fds, Counts, Rest, Root, Slot
  <1>1. CASE OpenNothing(p)
    BY <1>a, <1>1, HandsOpen, CountsStay DEF OpenNothing, table, hist, Counted
  <1>2. CASE OpenRefused(p)
    BY <1>a, <1>2, HandsOpen, CountsStay DEF OpenRefused, table, hist, Counted
  <1>3. CASE OpenTruncates(p)
    BY <1>a, <1>3, HandsOpen, CountsStay DEF OpenTruncates, table, hist, Counted
  <1>4. CASE OpenDone(p)
    <2>1. u[p].ip \in Files /\ u[p].ip # NoSlot /\ count' = count /\ lost' = lost
      BY <1>a, <1>4 DEF OpenDone, At, hist, RegOK, IpOK
    <2>2. CASE fd[p] = NoSlot
      <3>1. fd' = [fd EXCEPT ![p] = u[p].ip] BY <1>4, <2>2 DEF OpenDone
      <3>2. Others(p) /\ Same(p, {"ip", "fd"}) /\ Refers(p, "ip")' = NoSlot /\ Refers(p, "fd")' = u[p].ip
        BY <1>a, <1>4, <2>2, <3>1, HandsOpen, HandsOthers, ReferencesAre DEF Same
      <3>3. Refers(p, "ip") = u[p].ip /\ Refers(p, "fd") = NoSlot BY <2>2, ReferencesAre
      <3>4. RefCount' BY <1>a, <2>1, <3>2, <3>3, Moves, ReferencesAre DEF Files, Counts
      <3> QED BY <1>a, <2>1, <3>4 DEF Counts
    <2>3. CASE fd[p] # NoSlot
      <3>1. fd' = fd BY <1>4, <2>3 DEF OpenDone
      <3> QED BY <1>a, <1>4, <2>1, <2>3, <3>1, HandsOpen, CountsStay
    <2> QED BY <2>2, <2>3
  <1> QED BY <1>1, <1>2, <1>3, <1>4 DEF Open

(* So do unlink's. *)
LEMMA CountsUnlinkStep ==
    ASSUME IInv, NEW p \in Proc, UnlinkStep(p) PROVE Counts'
  <1>a. /\ u \in [Proc -> Reg] /\ RegOK(u[p]) /\ u[p] \in Reg /\ fd \in [Proc -> Files \cup {NoSlot}]
        /\ Counts /\ RefCount /\ count \in [Slot -> Nat] /\ lost \in Nat /\ Root \in Slot
    BY SizeAssumption DEF IInv, Regs, RegOK, Fds, Counts, Rest, Root, Slot
  <1>1. CASE UnlinkPanics(p)
    BY <1>a, <1>1, HandsUnlinkStep, CountsStay DEF UnlinkPanics, table, hist, Counted
  <1>2. CASE UnlinkWrites(p)
    BY <1>a, <1>2, HandsUnlinkStep, CountsStay DEF UnlinkWrites, table, hist, Counted
  <1>3. CASE Unlink(p)
    <2>1. u[p].dp = Root /\ count' = [count EXCEPT ![Root] = @ - 1] /\ fd' = fd /\ lost' = lost
      BY <1>a, <1>3 DEF Unlink, At, PutDir, hist, RegOK, DpOK, IpOK, CallOK, Where, InDir, Putting
    <2>2. Others(p) /\ Same(p, {"dp"}) /\ Refers(p, "dp")' = NoSlot
      BY <1>3, <2>1, HandsUnlinkStep, HandsOthers, ReferencesAre DEF Same
    <2> QED BY <1>a, <2>1, <2>2, Loses, ReferencesAre DEF Files, Counts
  <1> QED BY <1>1, <1>2, <1>3 DEF UnlinkStep

(* So do ialloc's and maknode's, the directories they lose being counted   *)
(* as lost.                                                                *)
LEMMA CountsIalloc ==
    ASSUME IInv, NEW p \in Proc, Ialloc(p) PROVE Counts'
  <1>a. /\ u \in [Proc -> Reg] /\ RegOK(u[p]) /\ u[p] \in Reg /\ fd \in [Proc -> Files \cup {NoSlot}]
        /\ Counts /\ RefCount /\ count \in [Slot -> Nat] /\ lost \in Nat /\ Root \in Slot
    BY SizeAssumption DEF IInv, Regs, RegOK, Fds, Counts, Rest, Root, Slot
  <1>1. CASE IallocWaits(p)
    BY <1>a, <1>1, HandsIalloc, CountsStay DEF IallocWaits, table, hist, Counted
  <1>2. CASE IallocEnters(p)
    BY <1>a, <1>2, HandsIalloc, CountsStay DEF IallocEnters, table, hist, Counted
  <1>3. CASE IallocPops(p)
    <2>1. fd' = fd /\ count' = count /\ lost' = lost
      BY <1>3 DEF IallocPops, table, hist, Counted
    <2> QED BY <1>a, <1>3, <2>1, HandsIalloc, CountsStay
  <1>4. CASE IallocScans(p)
    BY <1>a, <1>4, HandsIalloc, CountsStay DEF IallocScans, table, hist, Counted
  <1>5. CASE Scan(p)
    <2>1. CASE lost' = lost BY <1>a, <1>5, <2>1, HandsIalloc, CountsStay DEF Scan, table
    <2>2. CASE lost' # lost
      <3>1. u[p].dp = Root /\ count' = count /\ fd' = fd /\ lost' = lost + 1
        BY <1>a, <1>5, <2>2 DEF Scan, At, table, RegOK, DpOK, CallOK, Where, InDir, Putting
      <3>2. Others(p) /\ Same(p, {"dp"}) /\ Refers(p, "dp")' = NoSlot
        BY <1>5, <2>2, <3>1, HandsIalloc, HandsOthers, ReferencesAre DEF Same
      <3> QED BY <1>a, <3>1, <3>2, Strands, ReferencesAre DEF Counts
    <2> QED BY <2>1, <2>2
  <1>6. CASE AllocNothing(p)
    <2>1. u[p].dp = Root /\ count' = count /\ fd' = fd /\ lost' = lost + 1
      BY <1>a, <1>6 DEF AllocNothing, At, table, RegOK, DpOK, CallOK, Where, InDir, Putting
    <2>2. Others(p) /\ Same(p, {"dp"}) /\ Refers(p, "dp")' = NoSlot
      BY <1>6, <1>6, <2>1, HandsIalloc, HandsOthers, ReferencesAre DEF Same
    <2> QED BY <1>a, <2>1, <2>2, Strands, ReferencesAre DEF Counts
  <1>7. CASE AllocUsed(p)
    BY <1>a, <1>7, HandsIalloc, CountsStay DEF AllocUsed, table, hist, Counted
  <1>8. CASE Maknode(p)
    BY <1>a, <1>8, HandsIalloc, CountsStay DEF Maknode, table, hist, Counted
  <1>9. CASE WdirNew(p)
    <2>1. u[p].dp = Root /\ count' = [count EXCEPT ![Root] = @ - 1] /\ fd' = fd /\ lost' = lost
      BY <1>a, <1>9 DEF WdirNew, At, PutDir, hist, RegOK, DpOK, IpOK, CallOK, Where, InDir, Putting
    <2>2. Others(p) /\ Same(p, {"dp"}) /\ Refers(p, "dp")' = NoSlot
      BY <1>9, <2>1, HandsIalloc, HandsOthers, ReferencesAre DEF Same
    <2> QED BY <1>a, <2>1, <2>2, Loses, ReferencesAre DEF Files, Counts
  <1> QED BY <1>1, <1>2, <1>3, <1>4, <1>5, <1>6, <1>7, <1>8, <1>9 DEF Ialloc

(* So do link's: the file goes from ip to lp and back. *)
LEMMA CountsLink ==
    ASSUME IInv, NEW p \in Proc, Link(p) PROVE Counts'
  <1>a. /\ u \in [Proc -> Reg] /\ RegOK(u[p]) /\ u[p] \in Reg /\ fd \in [Proc -> Files \cup {NoSlot}]
        /\ Counts /\ RefCount /\ count \in [Slot -> Nat] /\ lost \in Nat /\ Root \in Slot
    BY SizeAssumption DEF IInv, Regs, RegOK, Fds, Counts, Rest, Root, Slot
  <1>1. CASE LinkNothing(p)
    BY <1>a, <1>1, HandsLink, CountsStay DEF LinkNothing, table, hist, Counted
  <1>2. CASE LinkTooMany(p)
    BY <1>a, <1>2, HandsLink, CountsStay DEF LinkTooMany, table, hist, Counted
  <1>3. CASE LinkSecond(p)
    <2>1. u[p].lp = NoSlot /\ u[p].ip \in Files /\ count' = count /\ fd' = fd /\ lost' = lost
      BY <1>a, <1>3 DEF LinkSecond, At, table, hist, RegOK, IpOK, LpOK, CallOK, Where, Putting, Fds, IInv
    <2>2. Others(p) /\ Same(p, {"ip", "lp"}) /\ Refers(p, "ip")' = NoSlot /\ Refers(p, "lp")' = u[p].ip
      BY <1>a, <1>3, <2>1, HandsLink, HandsOthers, ReferencesAre DEF Same
    <2>3. RefCount' BY <1>a, <2>1, <2>2, Moves, ReferencesAre DEF Files, Counts
    <2> QED BY <1>a, <2>1, <2>3 DEF Counts
  <1>4. CASE LinkExists(p)
    BY <1>a, <1>4, HandsLink, CountsStay DEF LinkExists, table, hist, Counted
  <1>5. CASE WdirLink(p)
    <2>1. u[p].dp = Root /\ count' = [count EXCEPT ![Root] = @ - 1] /\ fd' = fd /\ lost' = lost
      BY <1>a, <1>5 DEF WdirLink, At, PutDir, hist, RegOK, DpOK, IpOK, CallOK, Where, InDir, Putting
    <2>2. Others(p) /\ Same(p, {"dp"}) /\ Refers(p, "dp")' = NoSlot
      BY <1>5, <2>1, HandsLink, HandsOthers, ReferencesAre DEF Same
    <2> QED BY <1>a, <2>1, <2>2, Loses, ReferencesAre DEF Files, Counts
  <1>6. CASE LinkPut(p)
    <2>1. u[p].ip = NoSlot /\ u[p].lp \in Files /\ count' = count /\ fd' = fd /\ lost' = lost
      BY <1>a, <1>6 DEF LinkPut, At, table, hist, RegOK, IpOK, LpOK, CallOK, Where, Putting, Fds, IInv
    <2>2. Others(p) /\ Same(p, {"lp", "ip"}) /\ Refers(p, "lp")' = NoSlot /\ Refers(p, "ip")' = u[p].lp
      BY <1>a, <1>6, <2>1, HandsLink, HandsOthers, ReferencesAre DEF Same
    <2>3. RefCount' BY <1>a, <2>1, <2>2, Moves, ReferencesAre DEF Files, Counts
    <2> QED BY <1>a, <2>1, <2>3 DEF Counts
  <1> QED BY <1>1, <1>2, <1>3, <1>4, <1>5, <1>6 DEF Link

(* So do update's, which takes no reference. *)
LEMMA CountsSync ==
    ASSUME IInv, NEW p \in Proc, Sync(p) PROVE Counts'
  <1>a. /\ u \in [Proc -> Reg] /\ RegOK(u[p]) /\ u[p] \in Reg /\ fd \in [Proc -> Files \cup {NoSlot}]
        /\ Counts /\ RefCount /\ count \in [Slot -> Nat] /\ lost \in Nat /\ Root \in Slot
    BY SizeAssumption DEF IInv, Regs, RegOK, Fds, Counts, Rest, Root, Slot
  <1>1. CASE SyncSkip(p)
    BY <1>a, <1>1, HandsSync, CountsStay DEF SyncSkip, table, hist, Counted
  <1>2. CASE SyncInode(p)
    BY <1>a, <1>2, HandsSync, CountsStay DEF SyncInode, table, hist, Counted
  <1>3. CASE SyncWritten(p)
    BY <1>a, <1>3, HandsSync, CountsStay DEF SyncWritten, table, hist, Counted
  <1>4. CASE SyncDone(p)
    BY <1>a, <1>4, HandsSync, CountsStay DEF SyncDone, table, hist, Counted
  <1> QED BY <1>1, <1>2, <1>3, <1>4 DEF Sync

(* So do the steps that begin a call: close takes the file from the        *)
(* descriptor.                                                             *)
LEMMA CountsStart ==
    ASSUME IInv, NEW p \in Proc, Start(p) PROVE Counts'
  <1>a. /\ u \in [Proc -> Reg] /\ RegOK(u[p]) /\ u[p] \in Reg /\ fd \in [Proc -> Files \cup {NoSlot}]
        /\ Counts /\ RefCount /\ count \in [Slot -> Nat] /\ lost \in Nat /\ Root \in Slot
    BY SizeAssumption DEF IInv, Regs, RegOK, Fds, Counts, Rest, Root, Slot
  <1>1. CASE StartPath(p)
    <2>1. fd' = fd /\ count' = count /\ lost' = lost
      BY <1>1 DEF StartPath, table, hist, Counted
    <2> QED BY <1>a, <1>1, <2>1, HandsStart, CountsStay
  <1>2. CASE StartSync(p)
    BY <1>a, <1>2, HandsStart, CountsStay DEF StartSync, table, hist, Counted
  <1>3. CASE ReadWrite(p)
    BY <1>a, <1>3, HandsStart, CountsStay DEF ReadWrite, table, hist, Counted
  <1>4. CASE Close(p)
    <2>1. u[p].ip = NoSlot /\ fd[p] \in Files /\ count' = count /\ fd' = [fd EXCEPT ![p] = NoSlot] /\ lost' = lost
      BY <1>a, <1>4 DEF Close, At, table, hist, RegOK, IpOK, LpOK, CallOK, Where, Putting, Fds, IInv
    <2>2. Others(p) /\ Same(p, {"fd", "ip"}) /\ Refers(p, "fd")' = NoSlot /\ Refers(p, "ip")' = fd[p]
      BY <1>a, <1>4, <2>1, HandsStart, HandsOthers, ReferencesAre DEF Same
    <2>3. RefCount' BY <1>a, <2>1, <2>2, Moves, ReferencesAre DEF Files, Counts
    <2> QED BY <1>a, <2>1, <2>3 DEF Counts
  <1> QED BY <1>1, <1>2, <1>3, <1>4 DEF Start

-------------------------------------------------------------------------------
(* Which steps change what. *)

(* Which steps change a variable at all. *)
LEMMA Frames ==
    ASSUME NEW p, Start(p) \/ Step(p)
    PROVE  /\ fd' = fd \/ OpenDone(p) \/ Close(p)
           /\ num' = num \/ IgetRead(p) \/ PutClean(p) \/ PutWritten(p)
           /\ dir' = dir \/ Unlink(p) \/ WdirNew(p) \/ WdirLink(p)
           /\ spare' = spare \/ PutTruncated(p) \/ IallocPops(p) \/ Scan(p)
           /\ node' = node \/ Iread(p) \/ PutTruncated(p) \/ Unlink(p) \/ Maknode(p) \/ WdirLink(p)
           /\ dnode' = dnode \/ Iupdat(p)
           /\ ilock' = ilock \/ IallocScans(p) \/ Scan(p)
           /\ updlock' = updlock \/ StartSync(p) \/ SyncDone(p)
           /\ lost' = lost \/ Scan(p) \/ AllocNothing(p)
           /\ left' = left \/ StartPath(p) \/ StartSync(p)
  <1>1. CASE IgetLocked(p)
    BY <1>1 DEF IgetLocked, table, super, hist, Counted, Ifree, Enters
  <1>2. CASE IgetFound(p) BY <1>2 DEF IgetFound, table, super, hist, Counted, Ifree, Enters
  <1>3. CASE IgetRead(p) BY <1>3 DEF IgetRead, table, super, hist, Counted, Ifree, Enters
  <1>4. CASE IgetFull(p) BY <1>4 DEF IgetFull, table, super, hist, Counted, Ifree, Enters
  <1>5. CASE Iread(p) BY <1>5 DEF Iread, table, super, hist, Counted, Ifree, Enters
  <1>6. CASE PutShared(p) BY <1>6 DEF PutShared, table, super, hist, Counted, Ifree, Enters
  <1>7. CASE PutClean(p)
    BY <1>7 DEF PutClean, Forget, table, super, hist, Counted, Ifree, Enters
  <1>8. CASE PutDirty(p) BY <1>8 DEF PutDirty, table, super, hist, Counted, Ifree, Enters
  <1>9. CASE PutUnlinked(p)
    BY <1>9 DEF PutUnlinked, table, super, hist, Counted, Ifree, Enters
  <1>10. CASE PutTruncated(p)
    BY <1>10 DEF PutTruncated, table, super, hist, Counted, Ifree, Enters
  <1>11. CASE Iupdat(p) BY <1>11 DEF Iupdat, table, super, hist, Counted, Ifree, Enters
  <1>12. CASE PutWritten(p)
    BY <1>12 DEF PutWritten, Forget, table, super, hist, Counted, Ifree, Enters
  <1>13. CASE SearchUnlink(p)
    BY <1>13 DEF SearchUnlink, table, super, hist, Counted, Ifree, Enters
  <1>14. CASE SearchFound(p)
    BY <1>14 DEF SearchFound, table, super, hist, Counted, Ifree, Enters
  <1>15. CASE SearchVacant(p)
    BY <1>15 DEF SearchVacant, table, super, hist, Counted, Ifree, Enters
  <1>16. CASE SearchFails(p)
    BY <1>16 DEF SearchFails, table, super, hist, Counted, Ifree, Enters
  <1>17. CASE OpenNothing(p)
    BY <1>17 DEF OpenNothing, table, super, hist, Counted, Ifree, Enters
  <1>18. CASE OpenRefused(p)
    BY <1>18 DEF OpenRefused, table, super, hist, Counted, Ifree, Enters
  <1>19. CASE OpenTruncates(p)
    BY <1>19 DEF OpenTruncates, table, super, hist, Counted, Ifree, Enters
  <1>20. CASE OpenDone(p) BY <1>20 DEF OpenDone, table, super, hist, Counted, Ifree, Enters
  <1>21. CASE UnlinkPanics(p)
    BY <1>21 DEF UnlinkPanics, table, super, hist, Counted, Ifree, Enters
  <1>22. CASE UnlinkWrites(p)
    BY <1>22 DEF UnlinkWrites, table, super, hist, Counted, Ifree, Enters
  <1>23. CASE Unlink(p) BY <1>23 DEF Unlink, table, super, hist, Counted, Ifree, Enters
  <1>24. CASE IallocWaits(p)
    BY <1>24 DEF IallocWaits, table, super, hist, Counted, Ifree, Enters
  <1>25. CASE IallocEnters(p)
    BY <1>25 DEF IallocEnters, table, super, hist, Counted, Ifree, Enters
  <1>26. CASE IallocPops(p)
    BY <1>26 DEF IallocPops, table, super, hist, Counted, Ifree, Enters
  <1>27. CASE IallocScans(p)
    BY <1>27 DEF IallocScans, table, super, hist, Counted, Ifree, Enters
  <1>28. CASE Scan(p) BY <1>28 DEF Scan, table, super, hist, Counted, Ifree, Enters
  <1>29. CASE AllocNothing(p)
    BY <1>29 DEF AllocNothing, table, super, hist, Counted, Ifree, Enters
  <1>30. CASE AllocUsed(p)
    BY <1>30 DEF AllocUsed, table, super, hist, Counted, Ifree, Enters
  <1>31. CASE Maknode(p) BY <1>31 DEF Maknode, table, super, hist, Counted, Ifree, Enters
  <1>32. CASE WdirNew(p) BY <1>32 DEF WdirNew, table, super, hist, Counted, Ifree, Enters
  <1>33. CASE LinkNothing(p)
    BY <1>33 DEF LinkNothing, table, super, hist, Counted, Ifree, Enters
  <1>34. CASE LinkTooMany(p)
    BY <1>34 DEF LinkTooMany, table, super, hist, Counted, Ifree, Enters
  <1>35. CASE LinkSecond(p)
    BY <1>35 DEF LinkSecond, table, super, hist, Counted, Ifree, Enters
  <1>36. CASE LinkExists(p)
    BY <1>36 DEF LinkExists, table, super, hist, Counted, Ifree, Enters
  <1>37. CASE WdirLink(p) BY <1>37 DEF WdirLink, table, super, hist, Counted, Ifree, Enters
  <1>38. CASE LinkPut(p) BY <1>38 DEF LinkPut, table, super, hist, Counted, Ifree, Enters
  <1>39. CASE SyncSkip(p) BY <1>39 DEF SyncSkip, table, super, hist, Counted, Ifree, Enters
  <1>40. CASE SyncInode(p)
    BY <1>40 DEF SyncInode, table, super, hist, Counted, Ifree, Enters
  <1>41. CASE SyncWritten(p)
    BY <1>41 DEF SyncWritten, table, super, hist, Counted, Ifree, Enters
  <1>42. CASE SyncDone(p) BY <1>42 DEF SyncDone, table, super, hist, Counted, Ifree, Enters
  <1>43. CASE StartPath(p)
    <2>1. UNCHANGED <<table, dnode, dir, super, fd, chan>> /\ lost' = lost
      BY <1>43 DEF StartPath, Counted
    <2> QED BY <1>43, <2>1 DEF table, super
  <1>44. CASE StartSync(p)
    BY <1>44 DEF StartSync, table, super, hist, Counted, Ifree, Enters
  <1>45. CASE ReadWrite(p)
    BY <1>45 DEF ReadWrite, table, super, hist, Counted, Ifree, Enters
  <1>46. CASE Close(p) BY <1>46 DEF Close, table, super, hist, Counted, Ifree, Enters
  <1> QED BY <1>1, <1>2, <1>3, <1>4, <1>5, <1>6, <1>7, <1>8, <1>9, <1>10, <1>11, <1>12, <1>13,
       <1>14, <1>15, <1>16, <1>17, <1>18, <1>19, <1>20, <1>21, <1>22, <1>23, <1>24, <1>25,
       <1>26, <1>27, <1>28, <1>29, <1>30, <1>31, <1>32, <1>33, <1>34, <1>35, <1>36, <1>37,
       <1>38, <1>39, <1>40, <1>41, <1>42, <1>43, <1>44, <1>45, <1>46
       DEF Start, Step, Iget, Iput, Namei, Open, UnlinkStep, Ialloc, Link, Sync

(* A descriptor is a file's slot or none, never the root's. *)
LEMMA FdsStep ==
    ASSUME IInv, NEW p \in Proc, Start(p) \/ Step(p) PROVE Fds'
  <1>1. u[p] \in Reg /\ IpOK(u[p]) BY DEF IInv, Regs, RegOK
  <1>2. CASE OpenDone(p)
    <2>1. u[p].ip \in Files BY <1>1, <1>2 DEF OpenDone, At, IpOK
    <2> QED BY <1>2, <2>1 DEF OpenDone, IInv, Fds
  <1>3. CASE Close(p) BY <1>3 DEF Close, IInv, Fds
  <1> QED BY <1>2, <1>3, Frames DEF IInv, Fds

(* No step puts an inode in core twice or renumbers the root. *)
LEMMA NumbersStep ==
    ASSUME IInv, NEW p \in Proc, Start(p) \/ Step(p) PROVE Numbers'
  <1>1. u[p] \in Reg /\ IpOK(u[p]) /\ CallOK(u[p]) BY DEF IInv, Regs, RegOK
  <1>2. num \in [Slot -> Ino \cup {0}] /\ num[Root] = ROOTINO /\ Root \in Slot /\ NoAlias
    BY SizeAssumption DEF IInv, Numbers, Root, Slot
  <1>3. CASE IgetRead(p)
    <2> DEFINE s == First(FreeSlots)
    <2>1. s \in Files BY <1>3, FreeFirst DEF IInv, Rest, IgetRead
    <2>2. num' = [num EXCEPT ![s] = u[p].ino] /\ InCore(u[p].ino) = {} BY <1>3 DEF IgetRead
    <2>3. u[p].ino \in Ino \cup {0} BY <1>1 DEF Reg
    <2> HIDE DEF s
    <2>4. num' \in [Slot -> Ino \cup {0}] /\ num'[Root] = ROOTINO
      BY <1>2, <2>1, <2>2, <2>3 DEF Files
    <2>5. NoAlias' BY <1>2, <2>1, <2>2 DEF NoAlias, InCore, Files
    <2> QED BY <2>4, <2>5 DEF Numbers
  <1>4. CASE PutClean(p) \/ PutWritten(p)
    <2> DEFINE s == u[p].ip
    <2>1. s \in Files BY <1>1, <1>4 DEF PutClean, PutWritten, At, IpOK, CallOK, Putting
    <2>2. num' = [num EXCEPT ![s] = 0] BY <1>4 DEF PutClean, PutWritten, Forget
    <2> HIDE DEF s
    <2>3. num' \in [Slot -> Ino \cup {0}] /\ num'[Root] = ROOTINO
      BY <1>2, <2>1, <2>2 DEF Files
    <2>4. NoAlias' BY <1>2, <2>1, <2>2 DEF NoAlias, Files
    <2> QED BY <2>3, <2>4 DEF Numbers
  <1> QED BY <1>2, <1>3, <1>4, Frames DEF Numbers, NoAlias

(* The n-th of a set of inodes is one of them, when there are so many: i   *)
(* is less than n ahead of the others.                                     *)
LEMMA NthIn ==
    ASSUME NEW S, S \subseteq Ino, NEW n \in 1 .. Cardinality(S) PROVE Nth(S, n) \in S
  <1> DEFINE Before(i) == {h \in S : h < i}
             f == [i \in S |-> Cardinality(Before(i))]
             m == Cardinality(S)
  <1>1. Ino \subseteq Nat /\ IsFiniteSet(Ino) BY SizeAssumption, FS_Interval DEF Ino
  <1>2. IsFiniteSet(S) /\ m = Cardinality(S) /\ n \in 1 .. m /\ m \in Nat /\ S \subseteq Nat
    BY <1>1, FS_Subset, FS_CardinalityType
  <1>3. \A i \in S : IsFiniteSet(Before(i)) /\ Cardinality(Before(i)) \in 0 .. m - 1
    <2> SUFFICES ASSUME NEW i \in S PROVE IsFiniteSet(Before(i)) /\ Cardinality(Before(i)) \in 0 .. m - 1
      OBVIOUS
    <2>1. Before(i) \subseteq S \ {i} /\ i \in Nat BY <1>1
    <2>2. IsFiniteSet(S \ {i}) /\ Cardinality(S \ {i}) = m - 1 BY <1>2, FS_RemoveElement
    <2>3. IsFiniteSet(Before(i)) /\ Cardinality(Before(i)) <= m - 1 BY <2>1, <2>2, FS_Subset
    <2>4. Cardinality(Before(i)) \in Nat BY <2>3, FS_CardinalityType
    <2> HIDE DEF Before
    <2> QED BY <1>2, <2>3, <2>4
  <1>4. \A i, j \in S : i < j => Cardinality(Before(i)) < Cardinality(Before(j))
    <2> SUFFICES ASSUME NEW i \in S, NEW j \in S, i < j PROVE Cardinality(Before(i)) < Cardinality(Before(j))
      OBVIOUS
    <2>1. Before(i) \subseteq Before(j) \ {i} /\ i \in Before(j)
      <3>1. i \in Nat /\ j \in Nat BY <1>2
      <3>2. ASSUME NEW h \in Before(i) PROVE h \in Before(j) /\ h # i
        <4>1. h \in Nat /\ h \in S /\ h < i BY <1>2, <3>2
        <4> QED BY <3>1, <4>1
      <3> QED BY <3>2
    <2>2. IsFiniteSet(Before(j) \ {i}) /\ Cardinality(Before(j) \ {i}) = Cardinality(Before(j)) - 1
      BY <1>3, <2>1, FS_RemoveElement
    <2>3. Cardinality(Before(i)) <= Cardinality(Before(j)) - 1 BY <2>1, <2>2, FS_Subset
    <2>4. Cardinality(Before(i)) \in Int /\ Cardinality(Before(j)) \in Int BY <1>2, <1>3
    <2> HIDE DEF Before
    <2> QED BY <2>3, <2>4
  <1>5. f \in [S -> 0 .. m - 1] BY <1>3
  <1>6. \A i, j \in S : f[i] = f[j] => i = j
    <2> SUFFICES ASSUME NEW i \in S, NEW j \in S, f[i] = f[j], i # j PROVE FALSE OBVIOUS
    <2>1. i \in Nat /\ j \in Nat /\ f[i] \in Nat /\ f[j] \in Nat BY <1>1, <1>3, <1>2
    <2>2. f[i] = Cardinality(Before(i)) /\ f[j] = Cardinality(Before(j)) OBVIOUS
    <2>3. i < j \/ j < i BY <2>1
    <2>4. i < j => f[i] < f[j] BY <1>4
    <2>5. j < i => f[j] < f[i] BY <1>4
    <2> HIDE DEF Before, f
    <2> QED BY <2>1, <2>3, <2>4, <2>5
  <1> HIDE DEF m
  <1>7. IsFiniteSet(0 .. m - 1) /\ Cardinality(0 .. m - 1) = m
    <2>1. 0 \in Int /\ m - 1 \in Int BY <1>2
    <2>2. /\ IsFiniteSet(0 .. m - 1)
          /\ Cardinality(0 .. m - 1) = IF 0 > m - 1 THEN 0 ELSE (m - 1) - 0 + 1
      BY <2>1, FS_Interval
    <2> QED BY <1>2, <2>2
  <1>8. f \in Injection(S, 0 .. m - 1) BY <1>5, <1>6 DEF Injection, IsInjective
  <1> HIDE DEF f
  <1>9. f \in Surjection(S, 0 .. m - 1) BY <1>2, <1>7, <1>8, FS_Injection
  <1>10. n - 1 \in 0 .. m - 1 BY <1>2
  <1> USE DEF f
  <1>11. PICK i \in S : f[i] = n - 1 BY <1>9, <1>10 DEF Surjection
  <1>12. i \in S /\ Cardinality({h \in S : h < i}) = n - 1 BY <1>11
  <1> QED BY <1>12 DEF Nth

(* ialloc's scan puts inode numbers on the list, and never the root's,     *)
(* which is in core.                                                       *)
LEMMA RefillTyped ==
    ASSUME Numbers, NEW k, NEW X, Ino \ {ROOTINO} \subseteq X, spare \in Seq(X)
    PROVE  Refill(k) \in Seq(X)
  <1> DEFINE S == Unused(k)
             n == Cardinality(S)
             room == IF Len(spare) < NICINOD THEN NICINOD - Len(spare) ELSE 1
             m == IF n < room THEN n ELSE room
             more == [j \in 1 .. m |-> Nth(S, j)]
  <1>1. S \subseteq Ino \ {ROOTINO} BY RootInCore DEF Unused
  <1>2. IsFiniteSet(S) /\ n \in Nat
    <2>1. IsFiniteSet(Ino) BY SizeAssumption, FS_Interval DEF Ino
    <2> QED BY <1>1, <2>1, FS_Subset, FS_CardinalityType
  <1>3. spare \in Seq(X) /\ Len(spare) \in Nat OBVIOUS
  <1>4. m \in Nat /\ m <= n BY <1>2, <1>3, SizeAssumption
  <1>5. \A j \in 1 .. m : Nth(S, j) \in X
    <2> SUFFICES ASSUME NEW j \in 1 .. m PROVE Nth(S, j) \in X OBVIOUS
    <2>1. j \in 1 .. n BY <1>2, <1>4
    <2>2. Nth(S, j) \in S BY <1>1, <2>1, NthIn
    <2> QED BY <1>1, <2>2
  <1> HIDE DEF S, n, m, room
  <1>6. more \in Seq(X) BY <1>4, <1>5
  <1>7. spare \o more \in Seq(X) BY <1>3, <1>6
  <1>8. Refill(k) = spare \o more BY DEF Refill, S, n, m, room
  <1> QED BY <1>7, <1>8

(* No step enters the root's number in the directory. *)
LEMMA DirStep ==
    ASSUME IInv, NEW p \in Proc, Start(p) \/ Step(p)
    PROVE  dir' \in [Off -> [name : Name \cup {NoName}, ino : (Ino \cup {0}) \ {ROOTINO}]]
  <1> DEFINE Entries == [name : Name \cup {NoName}, ino : (Ino \cup {0}) \ {ROOTINO}]
  <1>1. dir \in [Off -> Entries] /\ u[p] \in Reg /\ RegOK(u[p])
    BY DEF IInv, Regs, RegOK, Disk
  <1>2. Empty \in Entries BY DEF Empty, ROOTINO
  <1>3. CASE Unlink(p)
    <2>1. dir' = [dir EXCEPT ![u[p].off] = Empty] BY <1>3 DEF Unlink
    <2> HIDE DEF Entries
    <2>2. dir' \in [Off -> Entries] BY <1>1, <1>2, <2>1
    <2> QED BY <2>2 DEF Entries
  <1>4. CASE WdirNew(p) \/ WdirLink(p)
    <2> DEFINE e == [name |-> u[p].name, ino |-> u[p].ino]
    <2>1. dir' = [dir EXCEPT ![u[p].off] = e] BY <1>4 DEF WdirNew, WdirLink, Enters
    <2>2. u[p].ino # ROOTINO
      BY <1>1, <1>4 DEF WdirNew, WdirLink, At, RegOK, NumberOK, CallOK, ROOTINO
    <2>3. u[p].name \in Name \cup {NoName} /\ u[p].ino \in Ino \cup {0} BY <1>1 DEF Reg
    <2>4. e \in Entries BY <2>2, <2>3
    <2> HIDE DEF Entries, e
    <2>5. dir' \in [Off -> Entries] BY <1>1, <2>1, <2>4
    <2> QED BY <2>5 DEF Entries
  <1> HIDE DEF Entries
  <1> QED BY <1>1, <1>3, <1>4, Frames DEF Entries

(* Nor in the spare list. *)
LEMMA SpareStep ==
    ASSUME IInv, NEW p \in Proc, Start(p) \/ Step(p)
    PROVE  spare' \in Seq((Ino \cup {0}) \ {ROOTINO})
  <1> DEFINE X == (Ino \cup {0}) \ {ROOTINO}
  <1>1. spare \in Seq(X) /\ IpOK(u[p]) /\ CallOK(u[p]) BY DEF IInv, Regs, RegOK, Disk
  <1>2. CASE PutTruncated(p)
    <2>1. u[p].ip \in Files BY <1>1, <1>2 DEF PutTruncated, At, IpOK, CallOK, Putting
    <2>2. num[u[p].ip] \in X BY <2>1, FileNumber
    <2>3. spare' = spare \/ spare' = Append(spare, num[u[p].ip])
      BY <1>2 DEF PutTruncated, Ifree
    <2> HIDE DEF X
    <2> QED BY <1>1, <2>2, <2>3 DEF X
  <1>3. CASE IallocPops(p)
    <2>1. spare' = SubSeq(spare, 1, Len(spare) - 1) BY <1>3 DEF IallocPops
    <2> HIDE DEF X
    <2>2. Len(spare) \in Nat /\ \A j \in 1 .. Len(spare) : spare[j] \in X BY <1>1
    <2>3. spare' \in Seq(X) BY <1>1, <2>1, <2>2
    <2> QED BY <2>3 DEF X
  <1>4. CASE Scan(p)
    <2>1. Refill(u[p].k) \in Seq(X) BY <1>1, RefillTyped DEF IInv
    <2>2. spare' = Refill(u[p].k) BY <1>4 DEF Scan
    <2> QED BY <2>1, <2>2
  <1> QED BY <1>1, <1>2, <1>3, <1>4, Frames

(* Modes and link counts keep their types, in core and on the disk. *)
LEMMA NodeStep ==
    ASSUME IInv, NEW p \in Proc, Start(p) \/ Step(p)
    PROVE  node' \in [Slot -> Node] /\ dnode' \in [Ino -> Node]
  <1>1. /\ node \in [Slot -> Node] /\ dnode \in [Ino -> Node]
        /\ u[p] \in Reg /\ RegOK(u[p]) BY DEF IInv, Regs, RegOK, Disk
  <1>2. \A s \in Slot : /\ [node[s] EXCEPT !.used = FALSE] \in Node
                        /\ [node[s] EXCEPT !.nlink = Fewer(node[s].nlink)] \in Node
                        /\ [node[s] EXCEPT !.nlink = (node[s].nlink + 1) % 256] \in Node
    <2> SUFFICES ASSUME NEW s \in Slot
                 PROVE  /\ [node[s] EXCEPT !.used = FALSE] \in Node
                        /\ [node[s] EXCEPT !.nlink = Fewer(node[s].nlink)] \in Node
                        /\ [node[s] EXCEPT !.nlink = (node[s].nlink + 1) % 256] \in Node
      OBVIOUS
    <2>1. node[s] \in Node /\ node[s].nlink \in 0 .. 255 BY <1>1 DEF Node
    <2>2. Fewer(node[s].nlink) \in 0 .. 255 /\ (node[s].nlink + 1) % 256 \in 0 .. 255
      BY <2>1 DEF Fewer
    <2>3. [node[s] EXCEPT !.nlink = Fewer(node[s].nlink)] \in Node BY <2>1, <2>2 DEF Node
    <2>4. [node[s] EXCEPT !.nlink = (node[s].nlink + 1) % 256] \in Node
      BY <2>1, <2>2 DEF Node
    <2>5. [node[s] EXCEPT !.used = FALSE] \in Node BY <2>1 DEF Node
    <2> QED BY <2>3, <2>4, <2>5
  <1>3. [used |-> TRUE, nlink |-> 1] \in Node BY DEF Node
  <1>4. CASE Iread(p)
    <2>1. u[p].ino \in Ino BY <1>1, <1>4 DEF Iread, At, RegOK, NumberOK, Reg
    <2>2. node' = [node EXCEPT ![u[p].ip] = dnode[u[p].ino]] /\ dnode' = dnode
      BY <1>4 DEF Iread
    <2> QED BY <1>1, <2>1, <2>2
  <1>5. CASE PutTruncated(p) \/ Unlink(p) \/ Maknode(p)
    <2> DEFINE s == u[p].ip
    <2>1. s \in Slot
      BY <1>1, <1>5 DEF PutTruncated, Unlink, Maknode, At, RegOK, IpOK, CallOK, Putting, Files, Reg
    <2>2. \/ node' = [node EXCEPT ![s] = [node[s] EXCEPT !.used = FALSE]]
          \/ node' = [node EXCEPT ![s] = [node[s] EXCEPT !.nlink = Fewer(node[s].nlink)]]
          \/ node' = [node EXCEPT ![s] = [used |-> TRUE, nlink |-> 1]]
      BY <1>1, <1>5, <2>1 DEF PutTruncated, Unlink, Maknode, Node
    <2>3. dnode' = dnode BY <1>5 DEF PutTruncated, Unlink, Maknode
    <2> HIDE DEF s
    <2> QED BY <1>1, <1>2, <1>3, <2>1, <2>2, <2>3
  <1>6. CASE WdirLink(p)
    <2> DEFINE s == u[p].lp
    <2>1. s \in Slot
      BY <1>1, <1>6 DEF WdirLink, At, RegOK, LpOK, CallOK, Where, Putting, Files
    <2>2. node' = [node EXCEPT ![s] = [node[s] EXCEPT !.nlink = (node[s].nlink + 1) % 256]]
      BY <1>1, <1>6, <2>1 DEF WdirLink, Node
    <2>3. dnode' = dnode BY <1>6 DEF WdirLink
    <2> HIDE DEF s
    <2> QED BY <1>1, <1>2, <2>1, <2>2, <2>3
  <1>7. CASE Iupdat(p)
    <2>1. node' = node BY <1>7 DEF Iupdat, table
    <2> DEFINE s == IF u[p].call = "sync" THEN u[p].k ELSE u[p].ip
    <2>2. s \in Slot BY <1>1, <1>7 DEF Iupdat, At, RegOK, IpOK, NumberOK, Putting, Files
    <2>3. dnode' = IF u[p].ino \in Ino THEN [dnode EXCEPT ![u[p].ino] = node[s]] ELSE dnode
      BY <1>7 DEF Iupdat
    <2> HIDE DEF s
    <2> QED BY <1>1, <2>1, <2>2, <2>3
  <1> QED BY <1>1, <1>4, <1>5, <1>6, <1>7, Frames

(* All four together. *)
LEMMA DiskStep ==
    ASSUME IInv, NEW p \in Proc, Start(p) \/ Step(p) PROVE Disk'
  BY DirStep, SpareStep, NodeStep DEF Disk

(* What the registers name is counted, and the root at least three times   *)
(* when it is a current directory.                                         *)
LEMMA SlotsInHand ==
    ASSUME IInv, NEW p \in Proc
    PROVE  /\ u \in [Proc -> Reg] /\ u[p] \in Reg /\ RegOK(u[p]) /\ Root \in Slot /\ NoSlot \notin Slot
           /\ flag \in [Slot -> SUBSET Flag] /\ count \in [Slot -> Nat] /\ lost \in Nat
           /\ count[Root] >= 1 /\ (u[p].dp = Root => count[Root] >= 3)
           /\ u[p].ip \in Slot => count[u[p].ip] >= 1
           /\ u[p].lp \in Slot => count[u[p].lp] >= 1
           /\ fd[p] \in Slot => count[fd[p]] >= 1
  <1>1. /\ u \in [Proc -> Reg] /\ u[p] \in Reg /\ RegOK(u[p]) /\ Root \in Slot /\ NoSlot \notin Slot
        /\ flag \in [Slot -> SUBSET Flag] /\ count \in [Slot -> Nat] /\ RefCount /\ lost \in Nat /\ Counts
    BY SizeAssumption DEF IInv, Regs, RegOK, Counts, Rest, Flags, Root, Slot, NoSlot
  <1>2. count[Root] >= 1 BY <1>1, RootCounted
  <1> QED BY <1>1, <1>2, CountedOnce, ReferencesAre

(* A change of one slot's flags keeps Flags and Free when that slot is not *)
(* free.                                                                   *)
LEMMA FlagsFrom ==
    ASSUME Flags, Free, NEW s \in Slot, NEW F \in SUBSET Flag, flag' = [flag EXCEPT ![s] = F],
           \A r \in Slot \ {s} : count'[r] = count[r] /\ num'[r] = num[r], count'[s] # 0
    PROVE  Flags' /\ Free' BY DEF Flags, Free

(* iget's steps leave no flag and no number on a free slot. *)
LEMMA FlagsIget ==
    ASSUME IInv, NEW p \in Proc, Iget(p) PROVE Flags' /\ Free'
  <1>a. /\ flag \in [Slot -> SUBSET Flag] /\ count \in [Slot -> Nat] /\ num \in [Slot -> Ino \cup {0}]
        /\ \A s \in Slot : count[s] = 0 => num[s] = 0 /\ flag[s] = {}
    BY DEF IInv, Flags, Counts, Numbers, Free
  <1>b. /\ RegOK(u[p]) /\ u[p] \in Reg /\ Root \in Slot /\ NoSlot \notin Slot
        /\ u[p].dp = Root => count[Root] >= 3
        /\ u[p].ip \in Slot => count[u[p].ip] >= 1
        /\ u[p].lp \in Slot => count[u[p].lp] >= 1
        /\ fd[p] \in Slot => count[fd[p]] >= 1 BY SlotsInHand
  <1>c. Flags /\ Free /\ Counts /\ lost \in Nat BY DEF IInv, Rest
  <1>1. CASE IgetLocked(p)
    BY <1>a, <1>1 DEF IgetLocked, Prele, PutDir, Flag, Flags, Free, Files, At
  <1>2. CASE IgetFound(p)
    <2> DEFINE s == First(InCore(u[p].ino))
               F == flag[s] \cup {"LOCK"}
    <2>1. s \in Slot /\ count[s] \in Nat
      BY <1>a, <1>b, <1>c, <1>2, InCoreFirst DEF IgetFound, At, RegOK, IpOK, LpOK, DpOK, CallOK, NumberOK, Where, Putting, InDir, Files, Fds, IInv
    <2>2. flag' = [flag EXCEPT ![s] = F] /\ num' = num BY <1>2 DEF IgetFound, Prele, PutDir
    <2>3. count' = [count EXCEPT ![s] = @ + 1] BY <1>2 DEF IgetFound, Prele, PutDir
    <2>4. F \in SUBSET Flag BY <1>a, <2>1 DEF Flag
    <2> HIDE DEF s, F
    <2>5. count'[s] # 0 /\ \A r \in Slot \ {s} : count'[r] = count[r] /\ num'[r] = num[r]
      BY <1>a, <2>1, <2>2, <2>3
    <2> QED BY <1>c, <2>1, <2>2, <2>4, <2>5, FlagsFrom
  <1>3. CASE IgetRead(p)
    <2> DEFINE s == First(FreeSlots)
               F == {"LOCK"}
    <2>1. s \in Slot /\ count[s] \in Nat
      BY <1>a, <1>b, <1>c, <1>3, FreeFirst DEF IgetRead, At, RegOK, IpOK, LpOK, DpOK, CallOK, NumberOK, Where, Putting, InDir, Files
    <2>2. flag' = [flag EXCEPT ![s] = F] /\ num' = [num EXCEPT ![s] = u[p].ino]
      BY <1>3 DEF IgetRead, Prele, PutDir
    <2>3. count' = [count EXCEPT ![s] = @ + 1] BY <1>3 DEF IgetRead, Prele, PutDir
    <2>4. F \in SUBSET Flag BY <1>a, <2>1 DEF Flag
    <2> HIDE DEF s, F
    <2>5. count'[s] # 0 /\ \A r \in Slot \ {s} : count'[r] = count[r] /\ num'[r] = num[r]
      BY <1>a, <2>1, <2>2, <2>3
    <2> QED BY <1>c, <2>1, <2>2, <2>4, <2>5, FlagsFrom
  <1>4. CASE IgetFull(p)
    <2>1. flag' = flag /\ count' = count /\ num' = num BY <1>4 DEF IgetFull, table
    <2> QED BY <1>a, <2>1 DEF Flags, Free
  <1>5. CASE Iread(p)
    <2>1. flag' = flag /\ count' = count /\ num' = num BY <1>5 DEF Iread, table
    <2> QED BY <1>a, <2>1 DEF Flags, Free
  <1> QED BY <1>1, <1>2, <1>3, <1>4, <1>5 DEF Iget

(* Nor do iput's: a last reference takes the flags and the number with it. *)
LEMMA FlagsIput ==
    ASSUME IInv, NEW p \in Proc, Iput(p) PROVE Flags' /\ Free'
  <1>a. /\ flag \in [Slot -> SUBSET Flag] /\ count \in [Slot -> Nat] /\ num \in [Slot -> Ino \cup {0}]
        /\ \A s \in Slot : count[s] = 0 => num[s] = 0 /\ flag[s] = {}
    BY DEF IInv, Flags, Counts, Numbers, Free
  <1>b. /\ RegOK(u[p]) /\ u[p] \in Reg /\ Root \in Slot /\ NoSlot \notin Slot
        /\ u[p].dp = Root => count[Root] >= 3
        /\ u[p].ip \in Slot => count[u[p].ip] >= 1
        /\ u[p].lp \in Slot => count[u[p].lp] >= 1
        /\ fd[p] \in Slot => count[fd[p]] >= 1 BY SlotsInHand
  <1>c. Flags /\ Free /\ Counts /\ lost \in Nat BY DEF IInv, Rest
  <1>1. CASE PutShared(p)
    <2> DEFINE s == u[p].ip
               F == flag[s] \ {"LOCK", "WANT"}
    <2>1. s \in Slot /\ count[s] \in Nat /\ count[s] >= 1 /\ count[s] # 1
      BY <1>a, <1>b, <1>c, <1>1 DEF PutShared, At, RegOK, IpOK, LpOK, DpOK, CallOK, NumberOK, Where, Putting, InDir, Files
    <2>2. flag' = [flag EXCEPT ![s] = F] /\ num' = num BY <1>1 DEF PutShared, Prele, PutDir
    <2>3. count' = [count EXCEPT ![s] = @ - 1] BY <1>1 DEF PutShared, Prele, PutDir
    <2>4. F \in SUBSET Flag BY <1>a, <2>1 DEF Flag
    <2> HIDE DEF s, F
    <2>5. count'[s] # 0 /\ \A r \in Slot \ {s} : count'[r] = count[r] /\ num'[r] = num[r]
      BY <1>a, <2>1, <2>2, <2>3
    <2> QED BY <1>c, <2>1, <2>2, <2>4, <2>5, FlagsFrom
  <1>2. CASE PutClean(p)
    BY <1>a, <1>2 DEF PutClean, Forget, Prele, PutDir, Flag, Flags, Free, Files, At
  <1>3. CASE PutDirty(p)
    BY <1>a, <1>3 DEF PutDirty, Prele, PutDir, Flag, Flags, Free, Files, At
  <1>4. CASE PutUnlinked(p)
    <2> DEFINE s == u[p].ip
               F == flag[s] \cup {"LOCK"}
    <2>1. s \in Slot /\ count[s] \in Nat /\ count[s] >= 1
      BY <1>a, <1>b, <1>c, <1>4 DEF PutUnlinked, At, RegOK, IpOK, LpOK, DpOK, CallOK, NumberOK, Where, Putting, InDir, Files
    <2>2. flag' = [flag EXCEPT ![s] = F] /\ num' = num
      BY <1>4 DEF PutUnlinked, Prele, PutDir
    <2>3. count' = count BY <1>4 DEF PutUnlinked, Prele, PutDir
    <2>4. F \in SUBSET Flag BY <1>a, <2>1 DEF Flag
    <2> HIDE DEF s, F
    <2>5. count'[s] # 0 /\ \A r \in Slot \ {s} : count'[r] = count[r] /\ num'[r] = num[r]
      BY <1>a, <2>1, <2>2, <2>3
    <2> QED BY <1>c, <2>1, <2>2, <2>4, <2>5, FlagsFrom
  <1>5. CASE PutTruncated(p)
    <2> DEFINE s == u[p].ip
               F == flag[s] \cup {"UPD"}
    <2>1. s \in Slot /\ count[s] \in Nat /\ count[s] >= 1
      BY <1>a, <1>b, <1>c, <1>5 DEF PutTruncated, At, RegOK, IpOK, LpOK, DpOK, CallOK, NumberOK, Where, Putting, InDir, Files
    <2>2. flag' = [flag EXCEPT ![s] = F] /\ num' = num
      BY <1>5 DEF PutTruncated, Prele, PutDir
    <2>3. count' = count BY <1>5 DEF PutTruncated, Prele, PutDir
    <2>4. F \in SUBSET Flag BY <1>a, <2>1 DEF Flag
    <2> HIDE DEF s, F
    <2>5. count'[s] # 0 /\ \A r \in Slot \ {s} : count'[r] = count[r] /\ num'[r] = num[r]
      BY <1>a, <2>1, <2>2, <2>3
    <2> QED BY <1>c, <2>1, <2>2, <2>4, <2>5, FlagsFrom
  <1>6. CASE Iupdat(p)
    <2>1. flag' = flag /\ count' = count /\ num' = num BY <1>6 DEF Iupdat, table
    <2> QED BY <1>a, <2>1 DEF Flags, Free
  <1>7. CASE PutWritten(p)
    BY <1>a, <1>7 DEF PutWritten, Forget, Prele, PutDir, Flag, Flags, Free, Files, At
  <1> QED BY <1>1, <1>2, <1>3, <1>4, <1>5, <1>6, <1>7 DEF Iput

(* Nor do namei's. *)
LEMMA FlagsNamei ==
    ASSUME IInv, NEW p \in Proc, Namei(p) PROVE Flags' /\ Free'
  <1>a. /\ flag \in [Slot -> SUBSET Flag] /\ count \in [Slot -> Nat] /\ num \in [Slot -> Ino \cup {0}]
        /\ \A s \in Slot : count[s] = 0 => num[s] = 0 /\ flag[s] = {}
    BY DEF IInv, Flags, Counts, Numbers, Free
  <1>b. /\ RegOK(u[p]) /\ u[p] \in Reg /\ Root \in Slot /\ NoSlot \notin Slot
        /\ u[p].dp = Root => count[Root] >= 3
        /\ u[p].ip \in Slot => count[u[p].ip] >= 1
        /\ u[p].lp \in Slot => count[u[p].lp] >= 1
        /\ fd[p] \in Slot => count[fd[p]] >= 1 BY SlotsInHand
  <1>c. Flags /\ Free /\ Counts /\ lost \in Nat BY DEF IInv, Rest
  <1>1. CASE SearchUnlink(p)
    BY <1>a, <1>1 DEF SearchUnlink, Prele, PutDir, Flag, Flags, Free, Files, At
  <1>2. CASE SearchFound(p)
    <2> DEFINE s == Root
               F == flag[s] \ {"LOCK", "WANT"}
    <2>1. s \in Slot /\ count[s] \in Nat /\ count[s] >= 3
      BY <1>a, <1>b, <1>c, <1>2 DEF SearchFound, At, RegOK, IpOK, LpOK, DpOK, CallOK, NumberOK, Where, Putting, InDir, Files
    <2>2. flag' = [flag EXCEPT ![s] = F] /\ num' = num
      BY <1>2 DEF SearchFound, Prele, PutDir
    <2>3. count' = [count EXCEPT ![s] = @ - 1] BY <1>2 DEF SearchFound, Prele, PutDir
    <2>4. F \in SUBSET Flag BY <1>a, <2>1 DEF Flag
    <2> HIDE DEF s, F
    <2>5. count'[s] # 0 /\ \A r \in Slot \ {s} : count'[r] = count[r] /\ num'[r] = num[r]
      BY <1>a, <2>1, <2>2, <2>3
    <2> QED BY <1>c, <2>1, <2>2, <2>4, <2>5, FlagsFrom
  <1>3. CASE SearchVacant(p)
    <2>1. flag' = flag /\ count' = count /\ num' = num BY <1>3 DEF SearchVacant, table
    <2> QED BY <1>a, <2>1 DEF Flags, Free
  <1>4. CASE SearchFails(p)
    <2> DEFINE s == Root
               F == flag[s] \ {"LOCK", "WANT"}
    <2>1. s \in Slot /\ count[s] \in Nat /\ count[s] >= 3
      BY <1>a, <1>b, <1>c, <1>4 DEF SearchFails, At, RegOK, IpOK, LpOK, DpOK, CallOK, NumberOK, Where, Putting, InDir, Files
    <2>2. flag' = [flag EXCEPT ![s] = F] /\ num' = num
      BY <1>4 DEF SearchFails, Prele, PutDir
    <2>3. count' = [count EXCEPT ![s] = @ - 1] BY <1>4 DEF SearchFails, Prele, PutDir
    <2>4. F \in SUBSET Flag BY <1>a, <2>1 DEF Flag
    <2> HIDE DEF s, F
    <2>5. count'[s] # 0 /\ \A r \in Slot \ {s} : count'[r] = count[r] /\ num'[r] = num[r]
      BY <1>a, <2>1, <2>2, <2>3
    <2> QED BY <1>c, <2>1, <2>2, <2>4, <2>5, FlagsFrom
  <1> QED BY <1>1, <1>2, <1>3, <1>4 DEF Namei

(* Nor do open1's. *)
LEMMA FlagsOpen ==
    ASSUME IInv, NEW p \in Proc, Open(p) PROVE Flags' /\ Free'
  <1>a. /\ flag \in [Slot -> SUBSET Flag] /\ count \in [Slot -> Nat] /\ num \in [Slot -> Ino \cup {0}]
        /\ \A s \in Slot : count[s] = 0 => num[s] = 0 /\ flag[s] = {}
    BY DEF IInv, Flags, Counts, Numbers, Free
  <1>b. /\ RegOK(u[p]) /\ u[p] \in Reg /\ Root \in Slot /\ NoSlot \notin Slot
        /\ u[p].dp = Root => count[Root] >= 3
        /\ u[p].ip \in Slot => count[u[p].ip] >= 1
        /\ u[p].lp \in Slot => count[u[p].lp] >= 1
        /\ fd[p] \in Slot => count[fd[p]] >= 1 BY SlotsInHand
  <1>c. Flags /\ Free /\ Counts /\ lost \in Nat BY DEF IInv, Rest
  <1>1. CASE OpenNothing(p)
    <2>1. flag' = flag /\ count' = count /\ num' = num BY <1>1 DEF OpenNothing, table
    <2> QED BY <1>a, <2>1 DEF Flags, Free
  <1>2. CASE OpenRefused(p)
    <2>1. flag' = flag /\ count' = count /\ num' = num BY <1>2 DEF OpenRefused, table
    <2> QED BY <1>a, <2>1 DEF Flags, Free
  <1>3. CASE OpenTruncates(p)
    <2>1. flag' = flag /\ count' = count /\ num' = num BY <1>3 DEF OpenTruncates, table
    <2> QED BY <1>a, <2>1 DEF Flags, Free
  <1>4. CASE OpenDone(p)
    <2> DEFINE s == u[p].ip
    <2>1. s \in Slot /\ count[s] # 0
      BY <1>a, <1>b, <1>4 DEF OpenDone, At, RegOK, IpOK, LpOK, DpOK, CallOK, NumberOK, Where, Putting, InDir, Files
    <2>2. PICK F \in SUBSET Flag : flag' = [flag EXCEPT ![s] = F]
      <3>1. flag[s] \ {"LOCK", "WANT"} \in SUBSET Flag /\ (flag[s] \cup {"UPD"}) \ {"LOCK", "WANT"} \in SUBSET Flag
        BY <1>a, <2>1 DEF Flag
      <3> QED BY <1>4, <3>1 DEF OpenDone, Prele
    <2>3. count' = count /\ num' = num BY <1>4 DEF OpenDone
    <2> QED BY <1>c, <2>1, <2>2, <2>3, FlagsFrom
  <1> QED BY <1>1, <1>2, <1>3, <1>4 DEF Open

(* Nor do unlink's. *)
LEMMA FlagsUnlinkStep ==
    ASSUME IInv, NEW p \in Proc, UnlinkStep(p) PROVE Flags' /\ Free'
  <1>a. /\ flag \in [Slot -> SUBSET Flag] /\ count \in [Slot -> Nat] /\ num \in [Slot -> Ino \cup {0}]
        /\ \A s \in Slot : count[s] = 0 => num[s] = 0 /\ flag[s] = {}
    BY DEF IInv, Flags, Counts, Numbers, Free
  <1>b. /\ RegOK(u[p]) /\ u[p] \in Reg /\ Root \in Slot /\ NoSlot \notin Slot
        /\ u[p].dp = Root => count[Root] >= 3
        /\ u[p].ip \in Slot => count[u[p].ip] >= 1
        /\ u[p].lp \in Slot => count[u[p].lp] >= 1
        /\ fd[p] \in Slot => count[fd[p]] >= 1 BY SlotsInHand
  <1>c. Flags /\ Free /\ Counts /\ lost \in Nat BY DEF IInv, Rest
  <1>1. CASE UnlinkPanics(p)
    <2>1. flag' = flag /\ count' = count /\ num' = num BY <1>1 DEF UnlinkPanics, table
    <2> QED BY <1>a, <2>1 DEF Flags, Free
  <1>2. CASE UnlinkWrites(p)
    <2>1. flag' = flag /\ count' = count /\ num' = num BY <1>2 DEF UnlinkWrites, table
    <2> QED BY <1>a, <2>1 DEF Flags, Free
  <1>3. CASE Unlink(p)
    <2> DEFINE s == u[p].ip
    <2>1. s \in Slot /\ s # Root /\ count[s] >= 1 /\ count[Root] >= 3 /\ count[Root] \in Nat /\ Root \in Slot
      BY <1>a, <1>b, <1>3 DEF Unlink, At, RegOK, IpOK, LpOK, DpOK, CallOK, NumberOK, Where, Putting, InDir, Files
    <2>2. flag' = [flag EXCEPT ![s] = @ \cup {"UPD"}, ![Root] = (flag[Root] \cup {"UPD"}) \ {"LOCK", "WANT"}]
      BY <1>3 DEF Unlink
    <2>3. count' = [count EXCEPT ![Root] = @ - 1] /\ num' = num BY <1>3 DEF Unlink
    <2> HIDE DEF s
    <2>4. Flags' BY <1>a, <2>1, <2>2 DEF Flags, Flag
    <2>5. \A r \in Slot : r # s /\ r # Root => flag'[r] = flag[r] /\ count'[r] = count[r]
      BY <1>a, <2>1, <2>2, <2>3
    <2>6. count'[s] # 0 /\ count'[Root] # 0 BY <1>a, <2>1, <2>3
    <2> QED BY <1>a, <2>3, <2>4, <2>5, <2>6 DEF Free
  <1> QED BY <1>1, <1>2, <1>3 DEF UnlinkStep

(* Nor do ialloc's and maknode's. *)
LEMMA FlagsIalloc ==
    ASSUME IInv, NEW p \in Proc, Ialloc(p) PROVE Flags' /\ Free'
  <1>a. /\ flag \in [Slot -> SUBSET Flag] /\ count \in [Slot -> Nat] /\ num \in [Slot -> Ino \cup {0}]
        /\ \A s \in Slot : count[s] = 0 => num[s] = 0 /\ flag[s] = {}
    BY DEF IInv, Flags, Counts, Numbers, Free
  <1>b. /\ RegOK(u[p]) /\ u[p] \in Reg /\ Root \in Slot /\ NoSlot \notin Slot
        /\ u[p].dp = Root => count[Root] >= 3
        /\ u[p].ip \in Slot => count[u[p].ip] >= 1
        /\ u[p].lp \in Slot => count[u[p].lp] >= 1
        /\ fd[p] \in Slot => count[fd[p]] >= 1 BY SlotsInHand
  <1>c. Flags /\ Free /\ Counts /\ lost \in Nat BY DEF IInv, Rest
  <1>1. CASE IallocWaits(p)
    <2>1. flag' = flag /\ count' = count /\ num' = num BY <1>1 DEF IallocWaits, table
    <2> QED BY <1>a, <2>1 DEF Flags, Free
  <1>2. CASE IallocEnters(p)
    <2>1. flag' = flag /\ count' = count /\ num' = num BY <1>2 DEF IallocEnters, table
    <2> QED BY <1>a, <2>1 DEF Flags, Free
  <1>3. CASE IallocPops(p)
    <2>1. flag' = flag /\ count' = count /\ num' = num BY <1>3 DEF IallocPops, table
    <2> QED BY <1>a, <2>1 DEF Flags, Free
  <1>4. CASE IallocScans(p)
    <2>1. flag' = flag /\ count' = count /\ num' = num BY <1>4 DEF IallocScans, table
    <2> QED BY <1>a, <2>1 DEF Flags, Free
  <1>5. CASE Scan(p)
    <2>1. flag' = flag /\ count' = count /\ num' = num BY <1>5 DEF Scan, table
    <2> QED BY <1>a, <2>1 DEF Flags, Free
  <1>6. CASE AllocNothing(p)
    <2>1. flag' = flag /\ count' = count /\ num' = num BY <1>6 DEF AllocNothing, table
    <2> QED BY <1>a, <2>1 DEF Flags, Free
  <1>7. CASE AllocUsed(p)
    <2>1. flag' = flag /\ count' = count /\ num' = num BY <1>7 DEF AllocUsed, table
    <2> QED BY <1>a, <2>1 DEF Flags, Free
  <1>8. CASE Maknode(p)
    <2> DEFINE s == u[p].ip
               F == flag[s] \cup {"UPD"}
    <2>1. s \in Slot /\ count[s] \in Nat /\ count[s] >= 1
      BY <1>a, <1>b, <1>c, <1>8 DEF Maknode, At, RegOK, IpOK, LpOK, DpOK, CallOK, NumberOK, Where, Putting, InDir, Files
    <2>2. flag' = [flag EXCEPT ![s] = F] /\ num' = num BY <1>8 DEF Maknode, Prele, PutDir
    <2>3. count' = count BY <1>8 DEF Maknode, Prele, PutDir
    <2>4. F \in SUBSET Flag BY <1>a, <2>1 DEF Flag
    <2> HIDE DEF s, F
    <2>5. count'[s] # 0 /\ \A r \in Slot \ {s} : count'[r] = count[r] /\ num'[r] = num[r]
      BY <1>a, <2>1, <2>2, <2>3
    <2> QED BY <1>c, <2>1, <2>2, <2>4, <2>5, FlagsFrom
  <1>9. CASE WdirNew(p)
    <2> DEFINE s == Root
               F == (flag[s] \cup {"UPD"}) \ {"LOCK", "WANT"}
    <2>1. s \in Slot /\ count[s] \in Nat /\ count[s] >= 3
      BY <1>a, <1>b, <1>c, <1>9 DEF WdirNew, At, RegOK, IpOK, LpOK, DpOK, CallOK, NumberOK, Where, Putting, InDir, Files
    <2>2. flag' = [flag EXCEPT ![s] = F] /\ num' = num BY <1>9 DEF WdirNew, Prele, PutDir
    <2>3. count' = [count EXCEPT ![s] = @ - 1] BY <1>9 DEF WdirNew, Prele, PutDir
    <2>4. F \in SUBSET Flag BY <1>a, <2>1 DEF Flag
    <2> HIDE DEF s, F
    <2>5. count'[s] # 0 /\ \A r \in Slot \ {s} : count'[r] = count[r] /\ num'[r] = num[r]
      BY <1>a, <2>1, <2>2, <2>3
    <2> QED BY <1>c, <2>1, <2>2, <2>4, <2>5, FlagsFrom
  <1> QED BY <1>1, <1>2, <1>3, <1>4, <1>5, <1>6, <1>7, <1>8, <1>9 DEF Ialloc

(* Nor do link's. *)
LEMMA FlagsLink ==
    ASSUME IInv, NEW p \in Proc, Link(p) PROVE Flags' /\ Free'
  <1>a. /\ flag \in [Slot -> SUBSET Flag] /\ count \in [Slot -> Nat] /\ num \in [Slot -> Ino \cup {0}]
        /\ \A s \in Slot : count[s] = 0 => num[s] = 0 /\ flag[s] = {}
    BY DEF IInv, Flags, Counts, Numbers, Free
  <1>b. /\ RegOK(u[p]) /\ u[p] \in Reg /\ Root \in Slot /\ NoSlot \notin Slot
        /\ u[p].dp = Root => count[Root] >= 3
        /\ u[p].ip \in Slot => count[u[p].ip] >= 1
        /\ u[p].lp \in Slot => count[u[p].lp] >= 1
        /\ fd[p] \in Slot => count[fd[p]] >= 1 BY SlotsInHand
  <1>c. Flags /\ Free /\ Counts /\ lost \in Nat BY DEF IInv, Rest
  <1>1. CASE LinkNothing(p)
    <2>1. flag' = flag /\ count' = count /\ num' = num BY <1>1 DEF LinkNothing, table
    <2> QED BY <1>a, <2>1 DEF Flags, Free
  <1>2. CASE LinkTooMany(p)
    <2>1. flag' = flag /\ count' = count /\ num' = num BY <1>2 DEF LinkTooMany, table
    <2> QED BY <1>a, <2>1 DEF Flags, Free
  <1>3. CASE LinkSecond(p)
    BY <1>a, <1>3 DEF LinkSecond, Prele, PutDir, Flag, Flags, Free, Files, At
  <1>4. CASE LinkExists(p)
    <2>1. flag' = flag /\ count' = count /\ num' = num BY <1>4 DEF LinkExists, table
    <2> QED BY <1>a, <2>1 DEF Flags, Free
  <1>5. CASE WdirLink(p)
    <2> DEFINE s == u[p].lp
    <2>1. s \in Slot /\ s # Root /\ count[s] >= 1 /\ count[Root] >= 3 /\ count[Root] \in Nat /\ Root \in Slot
      BY <1>a, <1>b, <1>5 DEF WdirLink, At, RegOK, IpOK, LpOK, DpOK, CallOK, NumberOK, Where, Putting, InDir, Files
    <2>2. flag' = [flag EXCEPT ![s] = @ \cup {"UPD"}, ![Root] = (flag[Root] \cup {"UPD"}) \ {"LOCK", "WANT"}]
      BY <1>5 DEF WdirLink
    <2>3. count' = [count EXCEPT ![Root] = @ - 1] /\ num' = num BY <1>5 DEF WdirLink
    <2> HIDE DEF s
    <2>4. Flags' BY <1>a, <2>1, <2>2 DEF Flags, Flag
    <2>5. \A r \in Slot : r # s /\ r # Root => flag'[r] = flag[r] /\ count'[r] = count[r]
      BY <1>a, <2>1, <2>2, <2>3
    <2>6. count'[s] # 0 /\ count'[Root] # 0 BY <1>a, <2>1, <2>3
    <2> QED BY <1>a, <2>3, <2>4, <2>5, <2>6 DEF Free
  <1>6. CASE LinkPut(p)
    <2>1. flag' = flag /\ count' = count /\ num' = num BY <1>6 DEF LinkPut, table
    <2> QED BY <1>a, <2>1 DEF Flags, Free
  <1> QED BY <1>1, <1>2, <1>3, <1>4, <1>5, <1>6 DEF Link

(* Nor do update's: a free slot is never marked, so it never locks one. *)
LEMMA FlagsSync ==
    ASSUME IInv, NEW p \in Proc, Sync(p) PROVE Flags' /\ Free'
  <1>a. /\ flag \in [Slot -> SUBSET Flag] /\ count \in [Slot -> Nat] /\ num \in [Slot -> Ino \cup {0}]
        /\ \A s \in Slot : count[s] = 0 => num[s] = 0 /\ flag[s] = {}
    BY DEF IInv, Flags, Counts, Numbers, Free
  <1>b. /\ RegOK(u[p]) /\ u[p] \in Reg /\ Root \in Slot /\ NoSlot \notin Slot
        /\ u[p].dp = Root => count[Root] >= 3
        /\ u[p].ip \in Slot => count[u[p].ip] >= 1
        /\ u[p].lp \in Slot => count[u[p].lp] >= 1
        /\ fd[p] \in Slot => count[fd[p]] >= 1 BY SlotsInHand
  <1>c. Flags /\ Free /\ Counts /\ lost \in Nat BY DEF IInv, Rest
  <1>1. CASE SyncSkip(p)
    BY <1>a, <1>1 DEF SyncSkip, Prele, PutDir, Flag, Flags, Free, Files, At
  <1>2. CASE SyncInode(p)
    BY <1>a, <1>2 DEF SyncInode, Prele, PutDir, Flag, Flags, Free, Files, At
  <1>3. CASE SyncWritten(p)
    BY <1>a, <1>3 DEF SyncWritten, Prele, PutDir, Flag, Flags, Free, Files, At
  <1>4. CASE SyncDone(p)
    <2>1. flag' = flag /\ count' = count /\ num' = num BY <1>4 DEF SyncDone, table
    <2> QED BY <1>a, <2>1 DEF Flags, Free
  <1> QED BY <1>1, <1>2, <1>3, <1>4 DEF Sync

(* Nor do the steps that begin a call. *)
LEMMA FlagsStart ==
    ASSUME IInv, NEW p \in Proc, Start(p) PROVE Flags' /\ Free'
  <1>a. /\ flag \in [Slot -> SUBSET Flag] /\ count \in [Slot -> Nat] /\ num \in [Slot -> Ino \cup {0}]
        /\ \A s \in Slot : count[s] = 0 => num[s] = 0 /\ flag[s] = {}
    BY DEF IInv, Flags, Counts, Numbers, Free
  <1>b. /\ RegOK(u[p]) /\ u[p] \in Reg /\ Root \in Slot /\ NoSlot \notin Slot
        /\ u[p].dp = Root => count[Root] >= 3
        /\ u[p].ip \in Slot => count[u[p].ip] >= 1
        /\ u[p].lp \in Slot => count[u[p].lp] >= 1
        /\ fd[p] \in Slot => count[fd[p]] >= 1 BY SlotsInHand
  <1>c. Flags /\ Free /\ Counts /\ lost \in Nat BY DEF IInv, Rest
  <1>1. CASE StartPath(p)
    <2>1. flag' = flag /\ count' = count /\ num' = num BY <1>1 DEF StartPath, table
    <2> QED BY <1>a, <2>1 DEF Flags, Free
  <1>2. CASE StartSync(p)
    <2>1. flag' = flag /\ count' = count /\ num' = num BY <1>2 DEF StartSync, table
    <2> QED BY <1>a, <2>1 DEF Flags, Free
  <1>3. CASE ReadWrite(p)
    <2> DEFINE s == fd[p]
               F == flag[s] \cup {"UPD"}
    <2>1. s \in Slot /\ count[s] \in Nat /\ count[s] >= 1
      BY <1>a, <1>b, <1>c, <1>3 DEF ReadWrite, At, RegOK, IpOK, LpOK, DpOK, CallOK, NumberOK, Where, Putting, InDir, Files, Fds, IInv
    <2>2. flag' = [flag EXCEPT ![s] = F] /\ num' = num BY <1>3 DEF ReadWrite, Prele, PutDir
    <2>3. count' = count BY <1>3 DEF ReadWrite, Prele, PutDir
    <2>4. F \in SUBSET Flag BY <1>a, <2>1 DEF Flag
    <2> HIDE DEF s, F
    <2>5. count'[s] # 0 /\ \A r \in Slot \ {s} : count'[r] = count[r] /\ num'[r] = num[r]
      BY <1>a, <2>1, <2>2, <2>3
    <2> QED BY <1>c, <2>1, <2>2, <2>4, <2>5, FlagsFrom
  <1>4. CASE Close(p)
    <2>1. flag' = flag /\ count' = count /\ num' = num BY <1>4 DEF Close, table
    <2> QED BY <1>a, <2>1 DEF Flags, Free
  <1> QED BY <1>1, <1>2, <1>3, <1>4 DEF Start


(* Who calls unlink began with it. *)
LEMMA CallStep ==
    ASSUME IInv, NEW p \in Proc, Start(p) \/ Step(p)
    PROVE  /\ StartPath(p) \/ u'[p].call \in {u[p].call, "none", "made", "link2", "close", "sync"}
           /\ Iupdat(p) => u'[p].call = u[p].call /\ u'[p].k = u[p].k /\ u'[p].pc = "ibwrite"
           /\ SyncInode(p) => u'[p].call = u[p].call /\ u'[p].k = u[p].k /\ u'[p].pc = "ibread"
           /\ IallocScans(p) => u'[p].pc = "scan"
           /\ Scan(p) => ilock' = FALSE \/ u'[p].pc = "scan"
  <1>a. u \in [Proc -> Reg] /\ u[p] \in Reg BY DEF IInv, Regs, RegOK
  <1>b. \A r \in Reg : Resume(p, r) => u'[p].call \in {r.call, "none"}
    <2> SUFFICES ASSUME NEW r \in Reg, Resume(p, r) PROVE u'[p].call \in {r.call, "none"}
      OBVIOUS
    <2>1. CASE r.ret = "user" BY <1>a, <2>1 DEF Resume, Returns, Idle
    <2>2. CASE r.ret # "user"
      <3>1. u' = [u EXCEPT ![p] = Back(r)] BY <2>2 DEF Resume, Goes, Back, Reg
      <3>2. Back(r).call = r.call BY DEF Back, Reg
      <3> QED BY <1>a, <3>1, <3>2
    <2> QED BY <2>1, <2>2
  <1>1. Iupdat(p) => u'[p].call = u[p].call /\ u'[p].k = u[p].k /\ u'[p].pc = "ibwrite"
    BY <1>a DEF Iupdat, Waits, Reg
  <1>2. SyncInode(p) => u'[p].call = u[p].call /\ u'[p].k = u[p].k /\ u'[p].pc = "ibread"
    BY <1>a DEF SyncInode, Waits, Reg
  <1>3. IallocScans(p) => u'[p].pc = "scan" BY <1>a DEF IallocScans, Waits, Reg
  <1>4. Scan(p) => ilock' = FALSE \/ u'[p].pc = "scan" BY <1>a DEF Scan, Waits, Reg
  <1>5. IgetLocked(p) => u'[p].call \in {u[p].call, "none", "made", "link2", "close", "sync"}
    BY <1>a DEF IgetLocked, Goes, Waits, Returns, Sleeps, Got, Reg, Idle
  <1>6. IgetFound(p) => u'[p].call \in {u[p].call, "none", "made", "link2", "close", "sync"}
    <2> SUFFICES ASSUME IgetFound(p) PROVE u'[p].call \in {u[p].call, "none", "made", "link2", "close", "sync"}
      OBVIOUS
    <2> DEFINE s == First(InCore(u[p].ino))
    <2>1. CASE u[p].ret = "search"
      <3> DEFINE r == [u[p] EXCEPT !.dp = s, !.ino = 0, !.ret = "user", !.pc = "search"]
      <3>1. u' = [u EXCEPT ![p] = r] BY <1>a, <2>1 DEF IgetFound, Waits, Got, Reg
      <3> QED BY <1>a, <3>1 DEF Reg
    <2>2. CASE u[p].ret # "search"
      <3> DEFINE r == [u[p] EXCEPT !.ip = s]
      <3>1. r \in Reg /\ r.call = u[p].call BY <1>a, InCoreFirst DEF Reg, IgetFound, IInv
      <3> QED BY <1>b, <2>2, <3>1 DEF IgetFound, Got
    <2> QED BY <2>1, <2>2
  <1>7. IgetRead(p) => u'[p].call \in {u[p].call, "none", "made", "link2", "close", "sync"}
    BY <1>a DEF IgetRead, Goes, Waits, Returns, Sleeps, Got, Reg, Idle
  <1>8. IgetFull(p) => u'[p].call \in {u[p].call, "none", "made", "link2", "close", "sync"}
    <2> DEFINE r == u[p]
    <2>1. r \in Reg /\ r.call = u[p].call BY <1>a DEF Reg
    <2> QED BY <1>b, <2>1 DEF IgetFull
  <1>9. Iread(p) => u'[p].call \in {u[p].call, "none", "made", "link2", "close", "sync"}
    <2> DEFINE r == u[p]
    <2>1. r \in Reg /\ r.call = u[p].call BY <1>a DEF Reg
    <2> QED BY <1>b, <2>1 DEF Iread
  <1>10. PutShared(p) => u'[p].call \in {u[p].call, "none", "made", "link2", "close", "sync"}
    <2> DEFINE r == [u[p] EXCEPT !.ip = NoSlot]
    <2>1. r \in Reg /\ r.call = u[p].call BY <1>a DEF Reg
    <2> QED BY <1>b, <2>1 DEF PutShared
  <1>11. PutClean(p) => u'[p].call \in {u[p].call, "none", "made", "link2", "close", "sync"}
    <2> DEFINE r == [u[p] EXCEPT !.ip = NoSlot]
    <2>1. r \in Reg /\ r.call = u[p].call BY <1>a DEF Reg
    <2> QED BY <1>b, <2>1 DEF PutClean, Forget
  <1>12. PutDirty(p) => u'[p].call \in {u[p].call, "none", "made", "link2", "close", "sync"}
    BY <1>a DEF PutDirty, Goes, Waits, Returns, Sleeps, Got, Reg, Idle
  <1>13. PutUnlinked(p) => u'[p].call \in {u[p].call, "none", "made", "link2", "close", "sync"}
    BY <1>a DEF PutUnlinked, Goes, Waits, Returns, Sleeps, Got, Reg, Idle
  <1>14. PutTruncated(p) => u'[p].call \in {u[p].call, "none", "made", "link2", "close", "sync"}
    BY <1>a DEF PutTruncated, Goes, Waits, Returns, Sleeps, Got, Reg, Idle
  <1>15. Iupdat(p) => u'[p].call \in {u[p].call, "none", "made", "link2", "close", "sync"}
    BY <1>a DEF Iupdat, Goes, Waits, Returns, Sleeps, Got, Reg, Idle
  <1>16. PutWritten(p) => u'[p].call \in {u[p].call, "none", "made", "link2", "close", "sync"}
    <2> DEFINE r == [u[p] EXCEPT !.ip = NoSlot]
    <2>1. r \in Reg /\ r.call = u[p].call BY <1>a DEF Reg
    <2> QED BY <1>b, <2>1 DEF PutWritten, Forget
  <1>17. SearchUnlink(p) => u'[p].call \in {u[p].call, "none", "made", "link2", "close", "sync"}
    BY <1>a DEF SearchUnlink, Goes, Waits, Returns, Sleeps, Got, Reg, Idle
  <1>18. SearchFound(p) => u'[p].call \in {u[p].call, "none", "made", "link2", "close", "sync"}
    BY <1>a DEF SearchFound, Goes, Waits, Returns, Sleeps, Got, Reg, Idle
  <1>19. SearchVacant(p) => u'[p].call \in {u[p].call, "none", "made", "link2", "close", "sync"}
    <2> SUFFICES ASSUME SearchVacant(p) PROVE u'[p].call \in {u[p].call, "none", "made", "link2", "close", "sync"}
      OBVIOUS
    <2>1. CASE u[p].call = "creat"
      <3>1. u' = [u EXCEPT ![p] = [u[p] EXCEPT !.off = First(Vacant), !.pc = "ialloc"]]
        BY <1>a, <2>1 DEF SearchVacant, Goes, Waits, Returns, Reg
      <3> QED BY <1>a, <3>1 DEF Reg, Idle
    <2>2. CASE u[p].call # "creat"
      <3>1. u' = [u EXCEPT ![p] = [u[p] EXCEPT !.off = First(Vacant), !.ino = num[u[p].lp], !.pc = "lkwrite"]]
        BY <1>a, <2>2 DEF SearchVacant, Goes, Waits, Returns, Reg
      <3> QED BY <1>a, <3>1 DEF Reg, Idle
    <2> QED BY <2>1, <2>2
  <1>20. SearchFails(p) => u'[p].call \in {u[p].call, "none", "made", "link2", "close", "sync"}
    <2> SUFFICES ASSUME SearchFails(p) PROVE u'[p].call \in {u[p].call, "none", "made", "link2", "close", "sync"}
      OBVIOUS
    <2>1. CASE u[p].call = "link2"
      <3>1. u' = [u EXCEPT ![p] = [u[p] EXCEPT !.dp = NoSlot, !.name = NoName, !.pc = "lkput"]]
        BY <1>a, <2>1 DEF SearchFails, Goes, Waits, Returns, Reg
      <3> QED BY <1>a, <3>1 DEF Reg, Idle
    <2>2. CASE u[p].call # "link2"
      <3>1. u' = [u EXCEPT ![p] = Idle]
        BY <1>a, <2>2 DEF SearchFails, Goes, Waits, Returns, Reg
      <3> QED BY <1>a, <3>1 DEF Reg, Idle
    <2> QED BY <2>1, <2>2
  <1>21. OpenNothing(p) => u'[p].call \in {u[p].call, "none", "made", "link2", "close", "sync"}
    BY <1>a DEF OpenNothing, Goes, Waits, Returns, Sleeps, Got, Reg, Idle
  <1>22. OpenRefused(p) => u'[p].call \in {u[p].call, "none", "made", "link2", "close", "sync"}
    BY <1>a DEF OpenRefused, Goes, Waits, Returns, Sleeps, Got, Reg, Idle
  <1>23. OpenTruncates(p) => u'[p].call \in {u[p].call, "none", "made", "link2", "close", "sync"}
    BY <1>a DEF OpenTruncates, Goes, Waits, Returns, Sleeps, Got, Reg, Idle
  <1>24. OpenDone(p) => u'[p].call \in {u[p].call, "none", "made", "link2", "close", "sync"}
    BY <1>a DEF OpenDone, Goes, Waits, Returns, Sleeps, Got, Reg, Idle
  <1>25. UnlinkPanics(p) => u'[p].call \in {u[p].call, "none", "made", "link2", "close", "sync"}
    BY <1>a DEF UnlinkPanics, Goes, Waits, Returns, Sleeps, Got, Reg, Idle
  <1>26. UnlinkWrites(p) => u'[p].call \in {u[p].call, "none", "made", "link2", "close", "sync"}
    BY <1>a DEF UnlinkWrites, Goes, Waits, Returns, Sleeps, Got, Reg, Idle
  <1>27. Unlink(p) => u'[p].call \in {u[p].call, "none", "made", "link2", "close", "sync"}
    BY <1>a DEF Unlink, Goes, Waits, Returns, Sleeps, Got, Reg, Idle
  <1>28. IallocWaits(p) => u'[p].call \in {u[p].call, "none", "made", "link2", "close", "sync"}
    BY <1>a DEF IallocWaits, Goes, Waits, Returns, Sleeps, Got, Reg, Idle
  <1>29. IallocEnters(p) => u'[p].call \in {u[p].call, "none", "made", "link2", "close", "sync"}
    BY <1>a DEF IallocEnters, Goes, Waits, Returns, Sleeps, Got, Reg, Idle
  <1>30. IallocPops(p) => u'[p].call \in {u[p].call, "none", "made", "link2", "close", "sync"}
    BY <1>a DEF IallocPops, Goes, Waits, Returns, Sleeps, Got, Reg, Idle
  <1>31. IallocScans(p) => u'[p].call \in {u[p].call, "none", "made", "link2", "close", "sync"}
    BY <1>a DEF IallocScans, Goes, Waits, Returns, Sleeps, Got, Reg, Idle
  <1>32. Scan(p) => u'[p].call \in {u[p].call, "none", "made", "link2", "close", "sync"}
    <2> SUFFICES ASSUME Scan(p) PROVE u'[p].call \in {u[p].call, "none", "made", "link2", "close", "sync"}
      OBVIOUS
    <2>1. CASE ~(LastBlock(u[p].k) \/ Len(Refill(u[p].k)) >= NICINOD)
      <3>1. u' = [u EXCEPT ![p] = [u[p] EXCEPT !.k = u[p].k + 1, !.pc = "scan"]]
        BY <1>a, <2>1 DEF Scan, Goes, Waits, Returns, Reg
      <3> QED BY <1>a, <3>1 DEF Reg, Idle
    <2>2. CASE (LastBlock(u[p].k) \/ Len(Refill(u[p].k)) >= NICINOD) /\ Refill(u[p].k) # <<>>
      <3>1. u' = [u EXCEPT ![p] = [u[p] EXCEPT !.k = 0, !.pc = "iloop"]]
        BY <1>a, <2>2 DEF Scan, Goes, Waits, Returns, Reg
      <3> QED BY <1>a, <3>1 DEF Reg, Idle
    <2>3. CASE (LastBlock(u[p].k) \/ Len(Refill(u[p].k)) >= NICINOD) /\ Refill(u[p].k) = <<>>
      <3>1. u' = [u EXCEPT ![p] = Idle] BY <1>a, <2>3 DEF Scan, Goes, Waits, Returns, Reg
      <3> QED BY <1>a, <3>1 DEF Reg, Idle
    <2> QED BY <2>1, <2>2, <2>3
  <1>33. AllocNothing(p) => u'[p].call \in {u[p].call, "none", "made", "link2", "close", "sync"}
    BY <1>a DEF AllocNothing, Goes, Waits, Returns, Sleeps, Got, Reg, Idle
  <1>34. AllocUsed(p) => u'[p].call \in {u[p].call, "none", "made", "link2", "close", "sync"}
    BY <1>a DEF AllocUsed, Goes, Waits, Returns, Sleeps, Got, Reg, Idle
  <1>35. Maknode(p) => u'[p].call \in {u[p].call, "none", "made", "link2", "close", "sync"}
    BY <1>a DEF Maknode, Goes, Waits, Returns, Sleeps, Got, Reg, Idle
  <1>36. WdirNew(p) => u'[p].call \in {u[p].call, "none", "made", "link2", "close", "sync"}
    BY <1>a DEF WdirNew, Goes, Waits, Returns, Sleeps, Got, Reg, Idle
  <1>37. LinkNothing(p) => u'[p].call \in {u[p].call, "none", "made", "link2", "close", "sync"}
    BY <1>a DEF LinkNothing, Goes, Waits, Returns, Sleeps, Got, Reg, Idle
  <1>38. LinkTooMany(p) => u'[p].call \in {u[p].call, "none", "made", "link2", "close", "sync"}
    BY <1>a DEF LinkTooMany, Goes, Waits, Returns, Sleeps, Got, Reg, Idle
  <1>39. LinkSecond(p) => u'[p].call \in {u[p].call, "none", "made", "link2", "close", "sync"}
    BY <1>a DEF LinkSecond, Goes, Waits, Returns, Sleeps, Got, Reg, Idle
  <1>40. LinkExists(p) => u'[p].call \in {u[p].call, "none", "made", "link2", "close", "sync"}
    BY <1>a DEF LinkExists, Goes, Waits, Returns, Sleeps, Got, Reg, Idle
  <1>41. WdirLink(p) => u'[p].call \in {u[p].call, "none", "made", "link2", "close", "sync"}
    BY <1>a DEF WdirLink, Goes, Waits, Returns, Sleeps, Got, Reg, Idle
  <1>42. LinkPut(p) => u'[p].call \in {u[p].call, "none", "made", "link2", "close", "sync"}
    BY <1>a DEF LinkPut, Goes, Waits, Returns, Sleeps, Got, Reg, Idle
  <1>43. SyncSkip(p) => u'[p].call \in {u[p].call, "none", "made", "link2", "close", "sync"}
    BY <1>a DEF SyncSkip, Goes, Waits, Returns, Sleeps, Got, Reg, Idle
  <1>44. SyncInode(p) => u'[p].call \in {u[p].call, "none", "made", "link2", "close", "sync"}
    BY <1>a DEF SyncInode, Goes, Waits, Returns, Sleeps, Got, Reg, Idle
  <1>45. SyncWritten(p) => u'[p].call \in {u[p].call, "none", "made", "link2", "close", "sync"}
    BY <1>a DEF SyncWritten, Goes, Waits, Returns, Sleeps, Got, Reg, Idle
  <1>46. SyncDone(p) => u'[p].call \in {u[p].call, "none", "made", "link2", "close", "sync"}
    BY <1>a DEF SyncDone, Goes, Waits, Returns, Sleeps, Got, Reg, Idle
  <1>47. StartSync(p) => u'[p].call \in {u[p].call, "none", "made", "link2", "close", "sync"}
    <2> SUFFICES ASSUME StartSync(p) PROVE u'[p].call \in {u[p].call, "none", "made", "link2", "close", "sync"}
      OBVIOUS
    <2>1. CASE updlock
      <3>1. u' = [u EXCEPT ![p] = Idle]
        BY <1>a, <2>1 DEF StartSync, Goes, Waits, Returns, Reg
      <3> QED BY <1>a, <3>1 DEF Reg, Idle
    <2>2. CASE ~updlock
      <3>1. u' = [u EXCEPT ![p] = [Idle EXCEPT !.call = "sync", !.k = 1, !.pc = "sync"]]
        BY <1>a, <2>2 DEF StartSync, Goes, Waits, Returns, Reg
      <3> QED BY <1>a, <3>1 DEF Reg, Idle
    <2> QED BY <2>1, <2>2
  <1>48. ReadWrite(p) => u'[p].call \in {u[p].call, "none", "made", "link2", "close", "sync"}
    BY <1>a DEF ReadWrite, Goes, Waits, Returns, Sleeps, Got, Reg, Idle
  <1>49. Close(p) => u'[p].call \in {u[p].call, "none", "made", "link2", "close", "sync"}
    BY <1>a DEF Close, Goes, Waits, Returns, Sleeps, Got, Reg, Idle
  <1> QED BY <1>1, <1>2, <1>3, <1>4, <1>5, <1>6, <1>7, <1>8, <1>9, <1>10, <1>11, <1>12, <1>13,
       <1>14, <1>15, <1>16, <1>17, <1>18, <1>19, <1>20, <1>21, <1>22, <1>23, <1>24, <1>25,
       <1>26, <1>27, <1>28, <1>29, <1>30, <1>31, <1>32, <1>33, <1>34, <1>35, <1>36, <1>37,
       <1>38, <1>39, <1>40, <1>41, <1>42, <1>43, <1>44, <1>45, <1>46, <1>47, <1>48, <1>49
       DEF Start, Step, Iget, Iput, Namei, Open, UnlinkStep, Ialloc, Link, Sync
-------------------------------------------------------------------------------
(* Locks and sleepers.  What the steps that put nobody to sleep owe the    *)
(* sleepers: whoever sleeps on a slot is woken, or the slot still says so  *)
(* and p, if it had it in hand, has it still; and p leaves no lock behind. *)

Rouses == /\ chan' \in [Proc -> Slot \cup {Ilock, NoChan}]
          /\ \A q \in Proc : chan'[q] \in {chan[q], NoChan}
Tells(p) ==
    \A s \in Slot : "WANT" \in flag[s] =>
        \/ \A q \in Proc : chan'[q] # s
        \/ "WANT" \in flag'[s] /\ (Busy(p, s) => Busy(p, s)' \/ lost' # 0)
Guards(p) ==
    \A s \in Slot : "LOCK" \in flag'[s] =>
        \/ Holds(p, s)' \/ lost' # 0
        \/ "LOCK" \in flag[s] /\ ~Holds(p, s)
Told(p) == Rouses /\ Tells(p) /\ Guards(p)

(* A wakeup puts nobody to sleep, and leaves nobody asleep on its channel. *)
LEMMA WakeupRouses ==
    ASSUME chan \in [Proc -> Slot \cup {Ilock, NoChan}], NEW c \in Slot \cup {Ilock},
           Wakeup(c) \/ chan' = chan
    PROVE  Rouses /\ (Wakeup(c) => \A q \in Proc : chan'[q] # c)
  BY SizeAssumption DEF Rouses, Wakeup, NoChan, Ilock, Slot

(* A slot p had in hand and has still is one it is still answerable for. *)
LEMMA Keeping ==
    ASSUME IInv, NEW p \in Proc, Start(p) \/ Step(p), NEW d, NEW i, NEW l, Hands(p, d, i, l),
           NEW s \in Slot, u[p].call # "sync",
           u[p].dp = s => d = s, u[p].ip = s => i = s, u[p].lp = s => l = s,
           s # Root \/ u[p].pc # "search" \/ u[p].call # "unlink"
    PROVE  (Busy(p, s) => Busy(p, s)') /\ (Holds(p, s) => Holds(p, s)')
  <1>1. u[p] \in Reg /\ RegOK(u[p]) /\ u'[p].dp = d /\ u'[p].ip = i /\ u'[p].lp = l /\ NoSlot \notin Slot
    BY SlotsInHand DEF Hands
  <1>2. Busy(p, s) => Busy(p, s)' BY <1>1 DEF Busy
  <1>3. ASSUME u[p].dp = s, u[p].call # "unlink" PROVE u'[p].call # "unlink"
    <2>a. u[p].pc # "user" BY <1>1, <1>3 DEF RegOK, DpOK, Where, InDir, Putting
    <2>1. ~StartPath(p) BY <2>a, Zenon DEF StartPath, At
    <2> QED BY <1>3, <2>1, CallStep
  <1>4. ASSUME u[p].dp = s PROVE s = Root BY <1>1, <1>4 DEF RegOK, DpOK
  <1>5. Holds(p, s) => Holds(p, s)' BY <1>1, <1>3, <1>4 DEF Holds
  <1> QED BY <1>2, <1>5

(* A step that only takes slots in hand, locking no other, owes the        *)
(* sleepers nothing.                                                       *)
LEMMA Gaining ==
    ASSUME IInv, NEW p \in Proc, Start(p) \/ Step(p), NEW d, NEW i, NEW l, Hands(p, d, i, l),
           u[p].call # "sync", u[p].pc # "search" \/ u[p].call # "unlink",
           u[p].dp \in {NoSlot, d}, u[p].ip \in {NoSlot, i}, u[p].lp \in {NoSlot, l}, chan' = chan,
           \A s \in Slot : /\ "WANT" \in flag[s] => "WANT" \in flag'[s]
                           /\ "LOCK" \in flag'[s] => "LOCK" \in flag[s] \/ Holds(p, s)'
    PROVE  Told(p)
  <1>1. NoSlot \notin Slot /\ chan \in [Proc -> Slot \cup {Ilock, NoChan}]
    BY SlotsInHand DEF IInv, Rest
  <1>2. Rouses BY <1>1 DEF Rouses
  <1>3. \A s \in Slot : (Busy(p, s) => Busy(p, s)') /\ (Holds(p, s) => Holds(p, s)')
    BY <1>1, Keeping
  <1> QED BY <1>2, <1>3 DEF Told, Tells, Guards

(* A step that lets go of one slot does what it owes: it unlocks that slot *)
(* and wakes whoever wants it.                                             *)
LEMMA Dropping ==
    ASSUME IInv, NEW p \in Proc, Start(p) \/ Step(p), NEW d, NEW i, NEW l, Hands(p, d, i, l),
           u[p].call # "sync", NEW s \in Slot,
           u[p].dp \in {NoSlot, s, d}, u[p].ip \in {NoSlot, s, i}, u[p].lp \in {NoSlot, s, l},
           s = Root \/ u[p].pc # "search",
           Wakeup(s) \/ (chan' = chan /\ "WANT" \notin flag[s]), "LOCK" \notin flag'[s],
           \A r \in Slot \ {s} : /\ "WANT" \in flag[r] => "WANT" \in flag'[r]
                                 /\ "LOCK" \in flag'[r] => "LOCK" \in flag[r]
    PROVE  Told(p)
  <1>1. NoSlot \notin Slot /\ chan \in [Proc -> Slot \cup {Ilock, NoChan}]
    BY SlotsInHand DEF IInv, Rest
  <1>2. Rouses /\ (Wakeup(s) => \A q \in Proc : chan'[q] # s) BY <1>1, WakeupRouses
  <1>3. \A r \in Slot \ {s} : (Busy(p, r) => Busy(p, r)') /\ (Holds(p, r) => Holds(p, r)')
    BY <1>1, Keeping
  <1> QED BY <1>2, <1>3 DEF Told, Tells, Guards

(* update has one slot in hand at a time, and only while it is written. *)
LEMMA Updating ==
    ASSUME IInv, NEW p \in Proc, u[p].call = "sync", NEW s \in Slot
    PROVE  /\ Busy(p, s) => u[p].k = s /\ u[p].pc \in {"ibread", "ibwrite"}
           /\ Holds(p, s) => u[p].k = s /\ u[p].pc \in {"ibread", "ibwrite"}
  <1>1. u[p] \in Reg /\ RegOK(u[p]) /\ NoSlot \notin Slot BY SlotsInHand
  <1>2. u[p].dp = NoSlot /\ u[p].ip = NoSlot /\ u[p].lp = NoSlot
    BY <1>1 DEF RegOK, DpOK, IpOK, LpOK, CallOK, Where, Putting, InDir
  <1> QED BY <1>1, <1>2 DEF Busy, Holds

(* iget's steps do what they owe the sleepers. *)
LEMMA ToldIget ==
    ASSUME IInv, NEW p \in Proc, Iget(p), ~IgetLocked(p) PROVE Told(p)
  <1>a. /\ u \in [Proc -> Reg] /\ u[p] \in Reg /\ RegOK(u[p]) /\ Root \in Slot /\ NoSlot \notin Slot
        /\ flag \in [Slot -> SUBSET Flag] BY SlotsInHand
  <1>s. Start(p) \/ Step(p) BY DEF Start, Step
  <1>1. CASE IgetFound(p)
    <2>0. PICK s : s = First(InCore(u[p].ino)) OBVIOUS
    <2>1. u[p].call # "sync" /\ u[p].pc # "search" /\ chan' = chan
      BY <1>a, <1>1 DEF IgetFound, At, RegOK, CallOK
    <2>2. u[p].ip = NoSlot /\ (u[p].ret = "search" => u[p].dp = NoSlot)
      BY <1>a, <1>1 DEF IgetFound, At, RegOK, IpOK, DpOK, CallOK, Where, Putting, InDir
    <2>3. s \in Slot /\ flag' = [flag EXCEPT ![s] = @ \cup {"LOCK"}]
      BY <2>0, <1>1, InCoreFirst DEF IgetFound, IInv
    <2>4. ASSUME NEW d, NEW i, Hands(p, d, i, u[p].lp), u[p].dp \in {NoSlot, d}, u[p].ip \in {NoSlot, i}, Holds(p, s)'
          PROVE  Told(p)
      <3>1. \A r \in Slot : /\ "WANT" \in flag[r] => "WANT" \in flag'[r]
                            /\ "LOCK" \in flag'[r] => "LOCK" \in flag[r] \/ Holds(p, r)'
        BY <1>a, <2>3, <2>4
      <3> QED BY <1>a, <1>s, <2>1, <2>4, <3>1, Gaining
    <2>5. CASE u[p].ret = "search"
      <3>1. Hands(p, s, u[p].ip, u[p].lp) BY <1>1, <2>5, HandsIget, <2>0
      <3>2. u'[p].call # "unlink" \/ u'[p].pc = "search"
        BY <1>a, <1>1, <2>5 DEF IgetFound, Got, Waits, Reg
      <3>3. Holds(p, s)' BY <3>1, <3>2 DEF Holds, Hands
      <3> QED BY <2>2, <2>4, <2>5, <3>1, <3>3
    <2>6. CASE u[p].ret # "search"
      <3>1. Hands(p, u[p].dp, s, u[p].lp) BY <1>1, <2>6, HandsIget, <2>0
      <3>2. Holds(p, s)' BY <3>1 DEF Holds, Hands
      <3> QED BY <2>2, <2>4, <3>1, <3>2
    <2> QED BY <2>5, <2>6
  <1>2. CASE IgetRead(p)
    <2>0. PICK s : s = First(FreeSlots) OBVIOUS
    <2>1. u[p].call # "sync" /\ u[p].pc # "search" /\ chan' = chan
      BY <1>a, <1>2 DEF IgetRead, At, RegOK, CallOK
    <2>2. u[p].ip = NoSlot BY <1>a, <1>2 DEF IgetRead, At, RegOK, IpOK, Putting
    <2>3. s \in Slot /\ flag[s] = {} /\ flag' = [flag EXCEPT ![s] = {"LOCK"}]
      BY <2>0, <1>2, FreeFirst DEF IgetRead, IInv, Rest, Free, Files
    <2>4. Hands(p, u[p].dp, s, u[p].lp) BY <2>0, <1>2, HandsIget
    <2>5. Holds(p, s)' BY <2>4 DEF Holds, Hands
    <2>6. \A r \in Slot : /\ "WANT" \in flag[r] => "WANT" \in flag'[r]
                          /\ "LOCK" \in flag'[r] => "LOCK" \in flag[r] \/ Holds(p, r)'
      BY <1>a, <2>3, <2>5
    <2> QED BY <1>a, <1>s, <2>1, <2>2, <2>4, <2>6, Gaining
  <1>3. CASE IgetFull(p)
    <2>1. u[p].call # "sync" /\ (u[p].pc # "search" \/ u[p].call # "unlink")
      BY <1>a, <1>3 DEF IgetFull, At, RegOK, DpOK, IpOK, LpOK, CallOK, RetOK, Where, Putting, InDir
    <2>2. Hands(p, u[p].dp, u[p].ip, u[p].lp) /\ chan' = chan
      BY <1>a, <1>3, HandsIget DEF IgetFull
    <2>3. flag' = flag BY <1>3 DEF IgetFull, table
    <2> QED BY <1>a, <1>s, <2>1, <2>2, <2>3, Gaining
  <1>4. CASE Iread(p)
    <2>1. u[p].call # "sync" /\ (u[p].pc # "search" \/ u[p].call # "unlink")
      BY <1>a, <1>4 DEF Iread, At, RegOK, DpOK, IpOK, LpOK, CallOK, RetOK, Where, Putting, InDir
    <2>2. Hands(p, u[p].dp, u[p].ip, u[p].lp) /\ chan' = chan
      BY <1>a, <1>4, HandsIget DEF Iread
    <2>3. flag' = flag BY <1>4 DEF Iread, table
    <2> QED BY <1>a, <1>s, <2>1, <2>2, <2>3, Gaining
  <1> QED BY <1>1, <1>2, <1>3, <1>4 DEF Iget

(* So do iput's. *)
LEMMA ToldIput ==
    ASSUME IInv, NEW p \in Proc, Iput(p) PROVE Told(p)
  <1>a. /\ u \in [Proc -> Reg] /\ u[p] \in Reg /\ RegOK(u[p]) /\ Root \in Slot /\ NoSlot \notin Slot
        /\ flag \in [Slot -> SUBSET Flag] BY SlotsInHand
  <1>s. Start(p) \/ Step(p) BY DEF Start, Step
  <1>1. CASE PutShared(p)
    <2> DEFINE s == u[p].ip
    <2>1. u[p].call # "sync" /\ s \in Slot /\ (s = Root \/ u[p].pc # "search")
      BY <1>a, <1>1 DEF PutShared, At, RegOK, DpOK, IpOK, LpOK, CallOK, RetOK, Where, Putting, InDir, Files
    <2>2. Hands(p, u[p].dp, NoSlot, u[p].lp) BY <1>1, HandsIput
    <2>3. Wakeup(s) \/ (chan' = chan /\ "WANT" \notin flag[s])
      BY <1>1 DEF PutShared, Prele, PutDir
    <2>4. flag' = [flag EXCEPT ![s] = flag[s] \ {"LOCK", "WANT"}]
      BY <1>1 DEF PutShared, Prele, PutDir
    <2>5. "LOCK" \notin flag'[s] /\ \A r \in Slot \ {s} : flag'[r] \in {flag[r], flag[r] \cup {"UPD"}}
      BY <1>a, <2>1, <2>4
    <2>6. \A r \in Slot \ {s} : /\ "WANT" \in flag[r] => "WANT" \in flag'[r]
                                /\ "LOCK" \in flag'[r] => "LOCK" \in flag[r] BY <2>5
    <2> HIDE DEF s
    <2>7. u[p].dp \in {NoSlot, s, u'[p].dp} /\ u[p].ip \in {NoSlot, s, u'[p].ip} /\ u[p].lp \in {NoSlot, s, u'[p].lp}
      BY <1>a, <2>2, <1>1 DEF Hands, RegOK, DpOK, s
    <2> QED BY <1>a, <1>s, <2>1, <2>2, <2>3, <2>5, <2>6, <2>7, Dropping DEF Hands
  <1>2. CASE PutClean(p)
    <2> DEFINE s == u[p].ip
    <2>1. u[p].call # "sync" /\ s \in Slot /\ (s = Root \/ u[p].pc # "search")
      BY <1>a, <1>2 DEF PutClean, At, RegOK, DpOK, IpOK, LpOK, CallOK, RetOK, Where, Putting, InDir, Files
    <2>2. Hands(p, u[p].dp, NoSlot, u[p].lp) BY <1>2, HandsIput
    <2>3. Wakeup(s) \/ (chan' = chan /\ "WANT" \notin flag[s])
      BY <1>2 DEF PutClean, Prele, PutDir, Forget
    <2>4. flag' = [flag EXCEPT ![s] = {}] BY <1>2 DEF PutClean, Prele, PutDir, Forget
    <2>5. "LOCK" \notin flag'[s] /\ \A r \in Slot \ {s} : flag'[r] \in {flag[r], flag[r] \cup {"UPD"}}
      BY <1>a, <2>1, <2>4
    <2>6. \A r \in Slot \ {s} : /\ "WANT" \in flag[r] => "WANT" \in flag'[r]
                                /\ "LOCK" \in flag'[r] => "LOCK" \in flag[r] BY <2>5
    <2> HIDE DEF s
    <2>7. u[p].dp \in {NoSlot, s, u'[p].dp} /\ u[p].ip \in {NoSlot, s, u'[p].ip} /\ u[p].lp \in {NoSlot, s, u'[p].lp}
      BY <1>a, <2>2, <1>2 DEF Hands, RegOK, DpOK, s
    <2> QED BY <1>a, <1>s, <2>1, <2>2, <2>3, <2>5, <2>6, <2>7, Dropping DEF Hands
  <1>3. CASE PutDirty(p)
    <2>1. u[p].call # "sync" /\ (u[p].pc # "search" \/ u[p].call # "unlink")
      BY <1>a, <1>3 DEF PutDirty, At, RegOK, DpOK, IpOK, LpOK, CallOK, RetOK, Where, Putting, InDir
    <2>2. Hands(p, u[p].dp, u[p].ip, u[p].lp) /\ chan' = chan
      BY <1>a, <1>3, HandsIput DEF PutDirty
    <2>3. flag' = [flag EXCEPT ![u[p].ip] = @ \cup {"LOCK"}] /\ u'[p].ip = u[p].ip
      BY <1>3, <2>2 DEF PutDirty, Hands
    <2>4. \A s \in Slot : /\ "WANT" \in flag[s] => "WANT" \in flag'[s]
                          /\ "LOCK" \in flag'[s] => "LOCK" \in flag[s] \/ Holds(p, s)'
      BY <1>a, <2>3 DEF Holds
    <2> QED BY <1>a, <1>s, <2>1, <2>2, <2>4, Gaining
  <1>4. CASE PutUnlinked(p)
    <2>1. u[p].call # "sync" /\ (u[p].pc # "search" \/ u[p].call # "unlink")
      BY <1>a, <1>4 DEF PutUnlinked, At, RegOK, DpOK, IpOK, LpOK, CallOK, RetOK, Where, Putting, InDir
    <2>2. Hands(p, u[p].dp, u[p].ip, u[p].lp) /\ chan' = chan
      BY <1>a, <1>4, HandsIput DEF PutUnlinked
    <2>3. flag' = [flag EXCEPT ![u[p].ip] = @ \cup {"LOCK"}] /\ u'[p].ip = u[p].ip
      BY <1>4, <2>2 DEF PutUnlinked, Hands
    <2>4. \A s \in Slot : /\ "WANT" \in flag[s] => "WANT" \in flag'[s]
                          /\ "LOCK" \in flag'[s] => "LOCK" \in flag[s] \/ Holds(p, s)'
      BY <1>a, <2>3 DEF Holds
    <2> QED BY <1>a, <1>s, <2>1, <2>2, <2>4, Gaining
  <1>5. CASE PutTruncated(p)
    <2>1. u[p].call # "sync" /\ (u[p].pc # "search" \/ u[p].call # "unlink")
      BY <1>a, <1>5 DEF PutTruncated, At, RegOK, DpOK, IpOK, LpOK, CallOK, RetOK, Where, Putting, InDir
    <2>2. Hands(p, u[p].dp, u[p].ip, u[p].lp) /\ chan' = chan
      BY <1>a, <1>5, HandsIput DEF PutTruncated
    <2>3. flag' = [flag EXCEPT ![u[p].ip] = @ \cup {"UPD"}] BY <1>5 DEF PutTruncated
    <2>4. \A s \in Slot : /\ "WANT" \in flag[s] => "WANT" \in flag'[s]
                          /\ "LOCK" \in flag'[s] => "LOCK" \in flag[s] BY <1>a, <2>3
    <2> QED BY <1>a, <1>s, <2>1, <2>2, <2>4, Gaining
  <1>6. CASE Iupdat(p)
    <2>1. Hands(p, u[p].dp, u[p].ip, u[p].lp) /\ chan' = chan /\ flag' = flag
      BY <1>6, HandsIput DEF Iupdat, table
    <2>2. CASE u[p].call # "sync"
      <3>1. u[p].pc # "search" BY <1>6 DEF Iupdat, At
      <3> QED BY <1>a, <1>s, <2>1, <2>2, <3>1, Gaining
    <2>3. CASE u[p].call = "sync"
      <3>1. u'[p].call = "sync" /\ u'[p].k = u[p].k /\ u'[p].pc = "ibwrite"
        BY <1>s, <1>6, <2>3, CallStep
      <3>2. \A s \in Slot : (Busy(p, s) => Busy(p, s)') /\ (Holds(p, s) => Holds(p, s)')
        BY <2>3, <3>1, Updating DEF Busy, Holds
      <3> QED BY <2>1, <3>2 DEF Told, Rouses, Tells, Guards, IInv, Rest
    <2> QED BY <2>2, <2>3
  <1>7. CASE PutWritten(p)
    <2> DEFINE s == u[p].ip
    <2>1. u[p].call # "sync" /\ s \in Slot /\ (s = Root \/ u[p].pc # "search")
      BY <1>a, <1>7 DEF PutWritten, At, RegOK, DpOK, IpOK, LpOK, CallOK, RetOK, Where, Putting, InDir, Files
    <2>2. Hands(p, u[p].dp, NoSlot, u[p].lp) BY <1>7, HandsIput
    <2>3. Wakeup(s) \/ (chan' = chan /\ "WANT" \notin flag[s])
      BY <1>7 DEF PutWritten, Prele, PutDir, Forget
    <2>4. flag' = [flag EXCEPT ![s] = {}] BY <1>7 DEF PutWritten, Prele, PutDir, Forget
    <2>5. "LOCK" \notin flag'[s] /\ \A r \in Slot \ {s} : flag'[r] \in {flag[r], flag[r] \cup {"UPD"}}
      BY <1>a, <2>1, <2>4
    <2>6. \A r \in Slot \ {s} : /\ "WANT" \in flag[r] => "WANT" \in flag'[r]
                                /\ "LOCK" \in flag'[r] => "LOCK" \in flag[r] BY <2>5
    <2> HIDE DEF s
    <2>7. u[p].dp \in {NoSlot, s, u'[p].dp} /\ u[p].ip \in {NoSlot, s, u'[p].ip} /\ u[p].lp \in {NoSlot, s, u'[p].lp}
      BY <1>a, <2>2, <1>7 DEF Hands, RegOK, DpOK, s
    <2> QED BY <1>a, <1>s, <2>1, <2>2, <2>3, <2>5, <2>6, <2>7, Dropping DEF Hands
  <1> QED BY <1>1, <1>2, <1>3, <1>4, <1>5, <1>6, <1>7 DEF Iput

(* So do namei's. *)
LEMMA ToldNamei ==
    ASSUME IInv, NEW p \in Proc, Namei(p) PROVE Told(p)
  <1>a. /\ u \in [Proc -> Reg] /\ u[p] \in Reg /\ RegOK(u[p]) /\ Root \in Slot /\ NoSlot \notin Slot
        /\ flag \in [Slot -> SUBSET Flag] BY SlotsInHand
  <1>s. Start(p) \/ Step(p) BY DEF Start, Step
  <1>1. CASE SearchUnlink(p)
    <2> DEFINE s == Root
    <2>1. u[p].call # "sync" /\ s \in Slot /\ (s = Root \/ u[p].pc # "search")
      BY <1>a, <1>1 DEF SearchUnlink, At, RegOK, DpOK, IpOK, LpOK, CallOK, RetOK, Where, Putting, InDir, Files
    <2>2. Hands(p, u[p].dp, u[p].ip, u[p].lp) BY <1>1, HandsNamei
    <2>3. Wakeup(s) \/ (chan' = chan /\ "WANT" \notin flag[s])
      BY <1>1 DEF SearchUnlink, Prele, PutDir
    <2>4. flag' = [flag EXCEPT ![s] = flag[s] \ {"LOCK", "WANT"}]
      BY <1>1 DEF SearchUnlink, Prele, PutDir
    <2>5. "LOCK" \notin flag'[s] /\ \A r \in Slot \ {s} : flag'[r] \in {flag[r], flag[r] \cup {"UPD"}}
      BY <1>a, <2>1, <2>4
    <2>6. \A r \in Slot \ {s} : /\ "WANT" \in flag[r] => "WANT" \in flag'[r]
                                /\ "LOCK" \in flag'[r] => "LOCK" \in flag[r] BY <2>5
    <2> HIDE DEF s
    <2>7. u[p].dp \in {NoSlot, s, u'[p].dp} /\ u[p].ip \in {NoSlot, s, u'[p].ip} /\ u[p].lp \in {NoSlot, s, u'[p].lp}
      BY <1>a, <2>2, <1>1 DEF Hands, RegOK, DpOK, s
    <2> QED BY <1>a, <1>s, <2>1, <2>2, <2>3, <2>5, <2>6, <2>7, Dropping DEF Hands
  <1>2. CASE SearchFound(p)
    <2> DEFINE s == Root
    <2>1. u[p].call # "sync" /\ s \in Slot /\ (s = Root \/ u[p].pc # "search")
      BY <1>a, <1>2 DEF SearchFound, At, RegOK, DpOK, IpOK, LpOK, CallOK, RetOK, Where, Putting, InDir, Files
    <2>2. Hands(p, NoSlot, u[p].ip, u[p].lp) BY <1>2, HandsNamei
    <2>3. Wakeup(s) \/ (chan' = chan /\ "WANT" \notin flag[s])
      BY <1>2 DEF SearchFound, Prele, PutDir
    <2>4. flag' = [flag EXCEPT ![s] = flag[s] \ {"LOCK", "WANT"}]
      BY <1>2 DEF SearchFound, Prele, PutDir
    <2>5. "LOCK" \notin flag'[s] /\ \A r \in Slot \ {s} : flag'[r] \in {flag[r], flag[r] \cup {"UPD"}}
      BY <1>a, <2>1, <2>4
    <2>6. \A r \in Slot \ {s} : /\ "WANT" \in flag[r] => "WANT" \in flag'[r]
                                /\ "LOCK" \in flag'[r] => "LOCK" \in flag[r] BY <2>5
    <2> HIDE DEF s
    <2>7. u[p].dp \in {NoSlot, s, u'[p].dp} /\ u[p].ip \in {NoSlot, s, u'[p].ip} /\ u[p].lp \in {NoSlot, s, u'[p].lp}
      BY <1>a, <2>2, <1>2 DEF Hands, RegOK, DpOK, s
    <2> QED BY <1>a, <1>s, <2>1, <2>2, <2>3, <2>5, <2>6, <2>7, Dropping DEF Hands
  <1>3. CASE SearchVacant(p)
    <2>1. u[p].call # "sync" /\ (u[p].pc # "search" \/ u[p].call # "unlink")
      BY <1>a, <1>3 DEF SearchVacant, At, RegOK, DpOK, IpOK, LpOK, CallOK, RetOK, Where, Putting, InDir, Creates
    <2>a. chan' = chan BY <1>3 DEF SearchVacant
    <2>b. Hands(p, u[p].dp, u[p].ip, u[p].lp) BY <1>3, HandsNamei
    <2>2. Hands(p, u[p].dp, u[p].ip, u[p].lp) /\ chan' = chan BY <1>a, <1>3, <2>a, <2>b
    <2>3. flag' = flag BY <1>3 DEF SearchVacant, table
    <2> QED BY <1>a, <1>s, <2>1, <2>2, <2>3, Gaining
  <1>4. CASE SearchFails(p)
    <2> DEFINE s == Root
    <2>1. u[p].call # "sync" /\ s \in Slot /\ (s = Root \/ u[p].pc # "search")
      BY <1>a, <1>4 DEF SearchFails, At, RegOK, DpOK, IpOK, LpOK, CallOK, RetOK, Where, Putting, InDir, Files
    <2>2. Hands(p, NoSlot, u[p].ip, u[p].lp) BY <1>4, HandsNamei
    <2>3. Wakeup(s) \/ (chan' = chan /\ "WANT" \notin flag[s])
      BY <1>4 DEF SearchFails, Prele, PutDir
    <2>4. flag' = [flag EXCEPT ![s] = flag[s] \ {"LOCK", "WANT"}]
      BY <1>4 DEF SearchFails, Prele, PutDir
    <2>5. "LOCK" \notin flag'[s] /\ \A r \in Slot \ {s} : flag'[r] \in {flag[r], flag[r] \cup {"UPD"}}
      BY <1>a, <2>1, <2>4
    <2>6. \A r \in Slot \ {s} : /\ "WANT" \in flag[r] => "WANT" \in flag'[r]
                                /\ "LOCK" \in flag'[r] => "LOCK" \in flag[r] BY <2>5
    <2> HIDE DEF s
    <2>7. u[p].dp \in {NoSlot, s, u'[p].dp} /\ u[p].ip \in {NoSlot, s, u'[p].ip} /\ u[p].lp \in {NoSlot, s, u'[p].lp}
      BY <1>a, <2>2, <1>4 DEF Hands, RegOK, DpOK, s
    <2> QED BY <1>a, <1>s, <2>1, <2>2, <2>3, <2>5, <2>6, <2>7, Dropping DEF Hands
  <1> QED BY <1>1, <1>2, <1>3, <1>4 DEF Namei

(* So do open1's. *)
LEMMA ToldOpen ==
    ASSUME IInv, NEW p \in Proc, Open(p) PROVE Told(p)
  <1>a. /\ u \in [Proc -> Reg] /\ u[p] \in Reg /\ RegOK(u[p]) /\ Root \in Slot /\ NoSlot \notin Slot
        /\ flag \in [Slot -> SUBSET Flag] BY SlotsInHand
  <1>s. Start(p) \/ Step(p) BY DEF Start, Step
  <1>1. CASE OpenNothing(p)
    <2>1. u[p].call # "sync" /\ (u[p].pc # "search" \/ u[p].call # "unlink")
      BY <1>a, <1>1 DEF OpenNothing, At, RegOK, DpOK, IpOK, LpOK, CallOK, RetOK, Where, Putting, InDir
    <2>2. Hands(p, u[p].dp, u[p].ip, u[p].lp) /\ chan' = chan
      BY <1>a, <1>1, HandsOpen DEF OpenNothing
    <2>3. flag' = flag BY <1>1 DEF OpenNothing, table
    <2> QED BY <1>a, <1>s, <2>1, <2>2, <2>3, Gaining
  <1>2. CASE OpenRefused(p)
    <2>1. u[p].call # "sync" /\ (u[p].pc # "search" \/ u[p].call # "unlink")
      BY <1>a, <1>2 DEF OpenRefused, At, RegOK, DpOK, IpOK, LpOK, CallOK, RetOK, Where, Putting, InDir
    <2>2. Hands(p, u[p].dp, u[p].ip, u[p].lp) /\ chan' = chan
      BY <1>a, <1>2, HandsOpen DEF OpenRefused
    <2>3. flag' = flag BY <1>2 DEF OpenRefused, table
    <2> QED BY <1>a, <1>s, <2>1, <2>2, <2>3, Gaining
  <1>3. CASE OpenTruncates(p)
    <2>1. u[p].call # "sync" /\ (u[p].pc # "search" \/ u[p].call # "unlink")
      BY <1>a, <1>3 DEF OpenTruncates, At, RegOK, DpOK, IpOK, LpOK, CallOK, RetOK, Where, Putting, InDir
    <2>2. Hands(p, u[p].dp, u[p].ip, u[p].lp) /\ chan' = chan
      BY <1>a, <1>3, HandsOpen DEF OpenTruncates
    <2>3. flag' = flag BY <1>3 DEF OpenTruncates, table
    <2> QED BY <1>a, <1>s, <2>1, <2>2, <2>3, Gaining
  <1>4. CASE OpenDone(p)
    <2> DEFINE s == u[p].ip
    <2>1. u[p].call # "sync" /\ s \in Slot /\ (s = Root \/ u[p].pc # "search")
      BY <1>a, <1>4 DEF OpenDone, At, RegOK, DpOK, IpOK, LpOK, CallOK, RetOK, Where, Putting, InDir, Files
    <2>2. PICK i : Hands(p, u[p].dp, i, u[p].lp) BY <1>4, HandsOpen
    <2>3. Wakeup(s) \/ (chan' = chan /\ "WANT" \notin flag[s])
      BY <1>4 DEF OpenDone, Prele, PutDir
    <2>4. \/ flag' = [flag EXCEPT ![s] = flag[s] \ {"LOCK", "WANT"}]
          \/ flag' = [flag EXCEPT ![s] = (flag[s] \cup {"UPD"}) \ {"LOCK", "WANT"}]
      BY <1>4 DEF OpenDone, Prele
    <2>5. "LOCK" \notin flag'[s] /\ \A r \in Slot \ {s} : flag'[r] \in {flag[r], flag[r] \cup {"UPD"}}
      BY <1>a, <2>1, <2>4
    <2>6. \A r \in Slot \ {s} : /\ "WANT" \in flag[r] => "WANT" \in flag'[r]
                                /\ "LOCK" \in flag'[r] => "LOCK" \in flag[r] BY <2>5
    <2> HIDE DEF s
    <2>7. u[p].dp \in {NoSlot, s, u'[p].dp} /\ u[p].ip \in {NoSlot, s, u'[p].ip} /\ u[p].lp \in {NoSlot, s, u'[p].lp}
      BY <1>a, <2>2, <1>4 DEF Hands, RegOK, DpOK, s
    <2> QED BY <1>a, <1>s, <2>1, <2>2, <2>3, <2>5, <2>6, <2>7, Dropping DEF Hands
  <1> QED BY <1>1, <1>2, <1>3, <1>4 DEF Open

(* So do unlink's. *)
LEMMA ToldUnlinkStep ==
    ASSUME IInv, NEW p \in Proc, UnlinkStep(p) PROVE Told(p)
  <1>a. /\ u \in [Proc -> Reg] /\ u[p] \in Reg /\ RegOK(u[p]) /\ Root \in Slot /\ NoSlot \notin Slot
        /\ flag \in [Slot -> SUBSET Flag] BY SlotsInHand
  <1>s. Start(p) \/ Step(p) BY DEF Start, Step
  <1>1. CASE UnlinkPanics(p)
    <2>1. u[p].call # "sync" /\ (u[p].pc # "search" \/ u[p].call # "unlink")
      BY <1>a, <1>1 DEF UnlinkPanics, At, RegOK, DpOK, IpOK, LpOK, CallOK, RetOK, Where, Putting, InDir
    <2>2. Hands(p, u[p].dp, u[p].ip, u[p].lp) /\ chan' = chan
      BY <1>a, <1>1, HandsUnlinkStep DEF UnlinkPanics
    <2>3. flag' = flag BY <1>1 DEF UnlinkPanics, table
    <2> QED BY <1>a, <1>s, <2>1, <2>2, <2>3, Gaining
  <1>2. CASE UnlinkWrites(p)
    <2>1. u[p].call # "sync" /\ (u[p].pc # "search" \/ u[p].call # "unlink")
      BY <1>a, <1>2 DEF UnlinkWrites, At, RegOK, DpOK, IpOK, LpOK, CallOK, RetOK, Where, Putting, InDir
    <2>2. Hands(p, u[p].dp, u[p].ip, u[p].lp) /\ chan' = chan
      BY <1>a, <1>2, HandsUnlinkStep DEF UnlinkWrites
    <2>3. flag' = flag BY <1>2 DEF UnlinkWrites, table
    <2> QED BY <1>a, <1>s, <2>1, <2>2, <2>3, Gaining
  <1>3. CASE Unlink(p)
    <2> DEFINE s == Root
    <2>1. u[p].call # "sync" /\ s \in Slot /\ (s = Root \/ u[p].pc # "search")
      BY <1>a, <1>3 DEF Unlink, At, RegOK, DpOK, IpOK, LpOK, CallOK, RetOK, Where, Putting, InDir, Files
    <2>2. Hands(p, NoSlot, u[p].ip, u[p].lp) BY <1>3, HandsUnlinkStep
    <2>3. Wakeup(s) \/ (chan' = chan /\ "WANT" \notin flag[s])
      BY <1>3 DEF Unlink, Prele, PutDir
    <2>4. flag' = [flag EXCEPT ![u[p].ip] = @ \cup {"UPD"}, ![Root] = (flag[Root] \cup {"UPD"}) \ {"LOCK", "WANT"}]
      BY <1>3 DEF Unlink
    <2>5. "LOCK" \notin flag'[s] /\ \A r \in Slot \ {s} : flag'[r] \in {flag[r], flag[r] \cup {"UPD"}}
      BY <1>a, <2>1, <2>4
    <2>6. \A r \in Slot \ {s} : /\ "WANT" \in flag[r] => "WANT" \in flag'[r]
                                /\ "LOCK" \in flag'[r] => "LOCK" \in flag[r] BY <2>5
    <2> HIDE DEF s
    <2>7. u[p].dp \in {NoSlot, s, u'[p].dp} /\ u[p].ip \in {NoSlot, s, u'[p].ip} /\ u[p].lp \in {NoSlot, s, u'[p].lp}
      BY <1>a, <2>2, <1>3 DEF Hands, RegOK, DpOK, s
    <2> QED BY <1>a, <1>s, <2>1, <2>2, <2>3, <2>5, <2>6, <2>7, Dropping DEF Hands
  <1> QED BY <1>1, <1>2, <1>3 DEF UnlinkStep

(* So do ialloc's and maknode's. *)
LEMMA ToldIalloc ==
    ASSUME IInv, NEW p \in Proc, Ialloc(p), ~IallocWaits(p) PROVE Told(p)
  <1>a. /\ u \in [Proc -> Reg] /\ u[p] \in Reg /\ RegOK(u[p]) /\ Root \in Slot /\ NoSlot \notin Slot
        /\ flag \in [Slot -> SUBSET Flag] BY SlotsInHand
  <1>s. Start(p) \/ Step(p) BY DEF Start, Step
  <1>1. CASE IallocEnters(p)
    <2>1. u[p].call # "sync" /\ (u[p].pc # "search" \/ u[p].call # "unlink")
      BY <1>a, <1>1 DEF IallocEnters, At, RegOK, DpOK, IpOK, LpOK, CallOK, RetOK, Where, Putting, InDir
    <2>2. Hands(p, u[p].dp, u[p].ip, u[p].lp) /\ chan' = chan
      BY <1>a, <1>1, HandsIalloc DEF IallocEnters
    <2>3. flag' = flag BY <1>1 DEF IallocEnters, table
    <2> QED BY <1>a, <1>s, <2>1, <2>2, <2>3, Gaining
  <1>2. CASE IallocPops(p)
    <2>1. u[p].call # "sync" /\ (u[p].pc # "search" \/ u[p].call # "unlink")
      BY <1>a, <1>2 DEF IallocPops, At, RegOK, DpOK, IpOK, LpOK, CallOK, RetOK, Where, Putting, InDir
    <2>a. chan' = chan BY <1>2 DEF IallocPops
    <2>b. Hands(p, u[p].dp, u[p].ip, u[p].lp) BY <1>2, HandsIalloc
    <2>2. Hands(p, u[p].dp, u[p].ip, u[p].lp) /\ chan' = chan BY <1>a, <1>2, <2>a, <2>b
    <2>3. flag' = flag BY <1>2 DEF IallocPops, table
    <2> QED BY <1>a, <1>s, <2>1, <2>2, <2>3, Gaining
  <1>3. CASE IallocScans(p)
    <2>1. u[p].call # "sync" /\ (u[p].pc # "search" \/ u[p].call # "unlink")
      BY <1>a, <1>3 DEF IallocScans, At, RegOK, DpOK, IpOK, LpOK, CallOK, RetOK, Where, Putting, InDir
    <2>2. Hands(p, u[p].dp, u[p].ip, u[p].lp) /\ chan' = chan
      BY <1>a, <1>3, HandsIalloc DEF IallocScans
    <2>3. flag' = flag BY <1>3 DEF IallocScans, table
    <2> QED BY <1>a, <1>s, <2>1, <2>2, <2>3, Gaining
  <1>4. CASE Scan(p)
    <2>1. u[p].call # "sync" /\ u[p].pc # "search" /\ flag' = flag /\ (Wakeup(Ilock) \/ chan' = chan)
      BY <1>a, <1>4 DEF Scan, table, At, RegOK, CallOK
    <2>2. Rouses BY <2>1, WakeupRouses DEF IInv, Rest
    <2>3. CASE lost' = lost
      <3>1. Hands(p, u[p].dp, u[p].ip, u[p].lp) BY <1>4, <2>3, HandsIalloc
      <3>2. \A s \in Slot : (Busy(p, s) => Busy(p, s)') /\ (Holds(p, s) => Holds(p, s)')
        BY <1>a, <1>s, <2>1, <3>1, Keeping
      <3> QED BY <2>1, <2>2, <3>2 DEF Told, Tells, Guards
    <2>4. CASE lost' # lost
      <3>1. lost' # 0 BY <1>4, <2>4 DEF Scan, IInv, Rest
      <3> QED BY <2>1, <2>2, <3>1 DEF Told, Tells, Guards
    <2> QED BY <2>3, <2>4
  <1>5. CASE AllocNothing(p)
    <2>1. flag' = flag /\ chan' = chan /\ lost' # 0
      BY <1>5 DEF AllocNothing, table, IInv, Rest
    <2> QED BY <2>1 DEF Told, Rouses, Tells, Guards, IInv, Rest
  <1>6. CASE AllocUsed(p)
    <2>1. u[p].call # "sync" /\ (u[p].pc # "search" \/ u[p].call # "unlink")
      BY <1>a, <1>6 DEF AllocUsed, At, RegOK, DpOK, IpOK, LpOK, CallOK, RetOK, Where, Putting, InDir
    <2>2. Hands(p, u[p].dp, u[p].ip, u[p].lp) /\ chan' = chan
      BY <1>a, <1>6, HandsIalloc DEF AllocUsed
    <2>3. flag' = flag BY <1>6 DEF AllocUsed, table
    <2> QED BY <1>a, <1>s, <2>1, <2>2, <2>3, Gaining
  <1>7. CASE Maknode(p)
    <2>1. u[p].call # "sync" /\ (u[p].pc # "search" \/ u[p].call # "unlink")
      BY <1>a, <1>7 DEF Maknode, At, RegOK, DpOK, IpOK, LpOK, CallOK, RetOK, Where, Putting, InDir
    <2>2. Hands(p, u[p].dp, u[p].ip, u[p].lp) /\ chan' = chan
      BY <1>a, <1>7, HandsIalloc DEF Maknode
    <2>3. flag' = [flag EXCEPT ![u[p].ip] = @ \cup {"UPD"}] BY <1>7 DEF Maknode
    <2>4. \A s \in Slot : /\ "WANT" \in flag[s] => "WANT" \in flag'[s]
                          /\ "LOCK" \in flag'[s] => "LOCK" \in flag[s] BY <1>a, <2>3
    <2> QED BY <1>a, <1>s, <2>1, <2>2, <2>4, Gaining
  <1>8. CASE WdirNew(p)
    <2> DEFINE s == Root
    <2>1. u[p].call # "sync" /\ s \in Slot /\ (s = Root \/ u[p].pc # "search")
      BY <1>a, <1>8 DEF WdirNew, At, RegOK, DpOK, IpOK, LpOK, CallOK, RetOK, Where, Putting, InDir, Files
    <2>2. Hands(p, NoSlot, u[p].ip, u[p].lp) BY <1>8, HandsIalloc
    <2>3. Wakeup(s) \/ (chan' = chan /\ "WANT" \notin flag[s])
      BY <1>8 DEF WdirNew, Prele, PutDir
    <2>4. flag' = [flag EXCEPT ![s] = (flag[Root] \cup {"UPD"}) \ {"LOCK", "WANT"}]
      BY <1>8 DEF WdirNew, Prele, PutDir
    <2>5. "LOCK" \notin flag'[s] /\ \A r \in Slot \ {s} : flag'[r] \in {flag[r], flag[r] \cup {"UPD"}}
      BY <1>a, <2>1, <2>4
    <2>6. \A r \in Slot \ {s} : /\ "WANT" \in flag[r] => "WANT" \in flag'[r]
                                /\ "LOCK" \in flag'[r] => "LOCK" \in flag[r] BY <2>5
    <2> HIDE DEF s
    <2>7. u[p].dp \in {NoSlot, s, u'[p].dp} /\ u[p].ip \in {NoSlot, s, u'[p].ip} /\ u[p].lp \in {NoSlot, s, u'[p].lp}
      BY <1>a, <2>2, <1>8 DEF Hands, RegOK, DpOK, s
    <2> QED BY <1>a, <1>s, <2>1, <2>2, <2>3, <2>5, <2>6, <2>7, Dropping DEF Hands
  <1> QED BY <1>1, <1>2, <1>3, <1>4, <1>5, <1>6, <1>7, <1>8 DEF Ialloc

(* So do link's: LinkSecond unlocks without looking at IWANT, but keeps    *)
(* the file in hand.                                                       *)
LEMMA ToldLink ==
    ASSUME IInv, NEW p \in Proc, Link(p) PROVE Told(p)
  <1>a. /\ u \in [Proc -> Reg] /\ u[p] \in Reg /\ RegOK(u[p]) /\ Root \in Slot /\ NoSlot \notin Slot
        /\ flag \in [Slot -> SUBSET Flag] BY SlotsInHand
  <1>s. Start(p) \/ Step(p) BY DEF Start, Step
  <1>1. CASE LinkNothing(p)
    <2>1. u[p].call # "sync" /\ (u[p].pc # "search" \/ u[p].call # "unlink")
      BY <1>a, <1>1 DEF LinkNothing, At, RegOK, DpOK, IpOK, LpOK, CallOK, RetOK, Where, Putting, InDir
    <2>2. Hands(p, u[p].dp, u[p].ip, u[p].lp) /\ chan' = chan
      BY <1>a, <1>1, HandsLink DEF LinkNothing
    <2>3. flag' = flag BY <1>1 DEF LinkNothing, table
    <2> QED BY <1>a, <1>s, <2>1, <2>2, <2>3, Gaining
  <1>2. CASE LinkTooMany(p)
    <2>1. u[p].call # "sync" /\ (u[p].pc # "search" \/ u[p].call # "unlink")
      BY <1>a, <1>2 DEF LinkTooMany, At, RegOK, DpOK, IpOK, LpOK, CallOK, RetOK, Where, Putting, InDir
    <2>2. Hands(p, u[p].dp, u[p].ip, u[p].lp) /\ chan' = chan
      BY <1>a, <1>2, HandsLink DEF LinkTooMany
    <2>3. flag' = flag BY <1>2 DEF LinkTooMany, table
    <2> QED BY <1>a, <1>s, <2>1, <2>2, <2>3, Gaining
  <1>3. CASE LinkSecond(p)
    <2>0. PICK s : s = u[p].ip OBVIOUS
    <2>1. u[p].call # "sync" /\ u[p].pc # "search" /\ s \in Slot /\ u[p].lp = NoSlot /\ u[p].dp = NoSlot
      BY <2>0, <1>a, <1>3 DEF LinkSecond, At, RegOK, CallOK, IpOK, LpOK, DpOK, Where, Putting, InDir, Files
    <2>a. chan' = chan BY <1>3 DEF LinkSecond
    <2>b. Hands(p, u[p].dp, NoSlot, s) BY <2>0, <1>3, HandsLink
    <2>2. Hands(p, u[p].dp, NoSlot, s) /\ chan' = chan BY <2>a, <2>b
    <2>3. flag' = [flag EXCEPT ![s] = @ \ {"LOCK"}] BY <2>0, <1>3 DEF LinkSecond
    <2>4. \A r \in Slot \ {s} : (Busy(p, r) => Busy(p, r)') /\ (Holds(p, r) => Holds(p, r)')
      BY <1>a, <1>s, <2>1, <2>2, Keeping, <2>0
    <2>5. Busy(p, s)' BY <2>2 DEF Busy, Hands
    <2>6. "LOCK" \notin flag'[s] /\ ("WANT" \in flag[s] => "WANT" \in flag'[s]) /\ \A r \in Slot \ {s} : flag'[r] = flag[r]
      BY <1>a, <2>1, <2>3
    <2> QED BY <2>2, <2>4, <2>5, <2>6 DEF Told, Rouses, Tells, Guards, IInv, Rest
  <1>4. CASE LinkExists(p)
    <2>1. u[p].call # "sync" /\ (u[p].pc # "search" \/ u[p].call # "unlink")
      BY <1>a, <1>4 DEF LinkExists, At, RegOK, DpOK, IpOK, LpOK, CallOK, RetOK, Where, Putting, InDir
    <2>2. Hands(p, u[p].dp, u[p].ip, u[p].lp) /\ chan' = chan
      BY <1>a, <1>4, HandsLink DEF LinkExists
    <2>3. flag' = flag BY <1>4 DEF LinkExists, table
    <2> QED BY <1>a, <1>s, <2>1, <2>2, <2>3, Gaining
  <1>5. CASE WdirLink(p)
    <2> DEFINE s == Root
    <2>1. u[p].call # "sync" /\ s \in Slot /\ (s = Root \/ u[p].pc # "search")
      BY <1>a, <1>5 DEF WdirLink, At, RegOK, DpOK, IpOK, LpOK, CallOK, RetOK, Where, Putting, InDir, Files
    <2>2. Hands(p, NoSlot, u[p].ip, u[p].lp) BY <1>5, HandsLink
    <2>3. Wakeup(s) \/ (chan' = chan /\ "WANT" \notin flag[s])
      BY <1>5 DEF WdirLink, Prele, PutDir
    <2>4. flag' = [flag EXCEPT ![u[p].lp] = @ \cup {"UPD"}, ![Root] = (flag[Root] \cup {"UPD"}) \ {"LOCK", "WANT"}]
      BY <1>5 DEF WdirLink
    <2>5. "LOCK" \notin flag'[s] /\ \A r \in Slot \ {s} : flag'[r] \in {flag[r], flag[r] \cup {"UPD"}}
      BY <1>a, <2>1, <2>4
    <2>6. \A r \in Slot \ {s} : /\ "WANT" \in flag[r] => "WANT" \in flag'[r]
                                /\ "LOCK" \in flag'[r] => "LOCK" \in flag[r] BY <2>5
    <2> HIDE DEF s
    <2>7. u[p].dp \in {NoSlot, s, u'[p].dp} /\ u[p].ip \in {NoSlot, s, u'[p].ip} /\ u[p].lp \in {NoSlot, s, u'[p].lp}
      BY <1>a, <2>2, <1>5 DEF Hands, RegOK, DpOK, s
    <2> QED BY <1>a, <1>s, <2>1, <2>2, <2>3, <2>5, <2>6, <2>7, Dropping DEF Hands
  <1>6. CASE LinkPut(p)
    <2>0. PICK s : s = u[p].lp OBVIOUS
    <2>1. u[p].call # "sync" /\ u[p].pc # "search" /\ s \in Slot /\ u[p].ip = NoSlot
      BY <2>0, <1>a, <1>6 DEF LinkPut, At, RegOK, CallOK, IpOK, LpOK, Where, Putting, Files
    <2>a. chan' = chan /\ flag' = flag BY <1>6 DEF LinkPut, table
    <2>b. Hands(p, u[p].dp, s, NoSlot) BY <2>0, <1>6, HandsLink
    <2>2. Hands(p, u[p].dp, s, NoSlot) /\ chan' = chan /\ flag' = flag BY <2>a, <2>b
    <2>3. \A r \in Slot \ {s} : (Busy(p, r) => Busy(p, r)') /\ (Holds(p, r) => Holds(p, r)')
      BY <1>a, <1>s, <2>1, <2>2, Keeping, <2>0
    <2>4. Busy(p, s)' /\ Holds(p, s)' BY <2>2 DEF Busy, Holds, Hands
    <2> QED BY <2>2, <2>3, <2>4 DEF Told, Rouses, Tells, Guards, IInv, Rest
  <1> QED BY <1>1, <1>2, <1>3, <1>4, <1>5, <1>6 DEF Link

(* So do update's. *)
LEMMA ToldSync ==
    ASSUME IInv, NEW p \in Proc, Sync(p) PROVE Told(p)
  <1>a. /\ u \in [Proc -> Reg] /\ u[p] \in Reg /\ RegOK(u[p]) /\ Root \in Slot /\ NoSlot \notin Slot
        /\ flag \in [Slot -> SUBSET Flag] BY SlotsInHand
  <1>s. Start(p) \/ Step(p) BY DEF Start, Step
  <1>1. CASE SyncSkip(p)
    <2> DEFINE s == u[p].k
    <2>1. u[p].call = "sync" /\ u[p].pc = "sync" /\ s \in Slot
      BY <1>a, <1>1 DEF SyncSkip, At, RegOK, CallOK
    <2>2. \A r \in Slot : ~Busy(p, r) /\ ~Holds(p, r) BY <2>1, Updating
    <2>3. CASE flag' = flag /\ chan' = chan
      BY <2>2, <2>3 DEF Told, Rouses, Tells, Guards, IInv, Rest
    <2>4. CASE Prele(s, flag[s])
      <3>1. Wakeup(s) \/ (chan' = chan /\ "WANT" \notin flag[s]) BY <2>4 DEF Prele
      <3>2. Rouses /\ (Wakeup(s) => \A q \in Proc : chan'[q] # s)
        BY <2>1, <3>1, WakeupRouses DEF IInv, Rest
      <3>3. "LOCK" \notin flag'[s] /\ \A r \in Slot \ {s} : flag'[r] = flag[r]
        BY <1>a, <2>1, <2>4 DEF Prele
      <3> HIDE DEF s
      <3> QED BY <2>2, <3>1, <3>2, <3>3 DEF Told, Tells, Guards
    <2> QED BY <1>1, <2>3, <2>4 DEF SyncSkip
  <1>2. CASE SyncInode(p)
    <2>0. PICK s : s = u[p].k OBVIOUS
    <2>1. u[p].call = "sync" /\ u[p].pc = "sync" /\ s \in Slot /\ chan' = chan
      BY <2>0, <1>a, <1>2 DEF SyncInode, At, RegOK, CallOK
    <2>2. \A r \in Slot : ~Busy(p, r) BY <2>1, Updating
    <2>3. flag' = [flag EXCEPT ![s] = @ \cup {"LOCK"}] BY <2>0, <1>2 DEF SyncInode
    <2>4. Holds(p, s)' BY <2>0, <1>s, <1>2, <2>1, CallStep DEF Holds
    <2>5. \A r \in Slot : ~Holds(p, r) BY <2>1, Updating
    <2>6. \A r \in Slot : /\ "WANT" \in flag[r] => "WANT" \in flag'[r]
                          /\ "LOCK" \in flag'[r] => "LOCK" \in flag[r] \/ r = s
      BY <1>a, <2>3
    <2> QED BY <2>1, <2>2, <2>4, <2>5, <2>6 DEF Told, Rouses, Tells, Guards, IInv, Rest
  <1>3. CASE SyncWritten(p)
    <2> DEFINE s == u[p].k
    <2>1. u[p].call = "sync" /\ s \in Slot
      BY <1>a, <1>3 DEF SyncWritten, At, RegOK, CallOK, NumberOK
    <2>2. \A r \in Slot \ {s} : ~Busy(p, r) /\ ~Holds(p, r) BY <2>1, Updating
    <2>3. Prele(s, flag[s]) BY <1>3 DEF SyncWritten
    <2>4. Wakeup(s) \/ (chan' = chan /\ "WANT" \notin flag[s]) BY <2>3 DEF Prele
    <2>5. Rouses /\ (Wakeup(s) => \A q \in Proc : chan'[q] # s)
      BY <2>1, <2>4, WakeupRouses DEF IInv, Rest
    <2>6. "LOCK" \notin flag'[s] /\ \A r \in Slot \ {s} : flag'[r] = flag[r]
      BY <1>a, <2>1, <2>3 DEF Prele
    <2> HIDE DEF s
    <2> QED BY <2>2, <2>4, <2>5, <2>6 DEF Told, Tells, Guards
  <1>4. CASE SyncDone(p)
    <2>1. u[p].call = "sync" /\ u[p].pc = "sync" /\ flag' = flag /\ chan' = chan
      BY <1>a, <1>4 DEF SyncDone, At, RegOK, CallOK, table
    <2>2. \A r \in Slot : ~Busy(p, r) /\ ~Holds(p, r) BY <2>1, Updating
    <2> QED BY <2>1, <2>2 DEF Told, Rouses, Tells, Guards, IInv, Rest
  <1> QED BY <1>1, <1>2, <1>3, <1>4 DEF Sync

(* So do the steps that begin a call. *)
LEMMA ToldStart ==
    ASSUME IInv, NEW p \in Proc, Start(p) PROVE Told(p)
  <1>a. /\ u \in [Proc -> Reg] /\ u[p] \in Reg /\ RegOK(u[p]) /\ Root \in Slot /\ NoSlot \notin Slot
        /\ flag \in [Slot -> SUBSET Flag] BY SlotsInHand
  <1>s. Start(p) \/ Step(p) BY DEF Start, Step
  <1>1. CASE StartPath(p)
    <2>1. u[p].call # "sync" /\ (u[p].pc # "search" \/ u[p].call # "unlink")
      BY <1>a, <1>1 DEF StartPath, At, RegOK, DpOK, IpOK, LpOK, CallOK, RetOK, Where, Putting, InDir
    <2>a. chan' = chan BY <1>1 DEF StartPath
    <2>b. Hands(p, u[p].dp, u[p].ip, u[p].lp) BY <1>1, HandsStart
    <2>2. Hands(p, u[p].dp, u[p].ip, u[p].lp) /\ chan' = chan BY <1>a, <1>1, <2>a, <2>b
    <2>3. flag' = flag BY <1>1 DEF StartPath, table
    <2> QED BY <1>a, <1>s, <2>1, <2>2, <2>3, Gaining
  <1>2. CASE StartSync(p)
    <2>1. u[p].call # "sync" /\ (u[p].pc # "search" \/ u[p].call # "unlink")
      BY <1>a, <1>2 DEF StartSync, At, RegOK, DpOK, IpOK, LpOK, CallOK, RetOK, Where, Putting, InDir
    <2>2. Hands(p, u[p].dp, u[p].ip, u[p].lp) /\ chan' = chan
      BY <1>a, <1>2, HandsStart DEF StartSync
    <2>3. flag' = flag BY <1>2 DEF StartSync, table
    <2> QED BY <1>a, <1>s, <2>1, <2>2, <2>3, Gaining
  <1>3. CASE ReadWrite(p)
    <2>1. u[p].call # "sync" /\ (u[p].pc # "search" \/ u[p].call # "unlink")
      BY <1>a, <1>3 DEF ReadWrite, At, RegOK, DpOK, IpOK, LpOK, CallOK, RetOK, Where, Putting, InDir
    <2>2. Hands(p, u[p].dp, u[p].ip, u[p].lp) /\ chan' = chan
      BY <1>a, <1>3, HandsStart DEF ReadWrite
    <2>3. flag' = [flag EXCEPT ![fd[p]] = @ \cup {"UPD"}] BY <1>3 DEF ReadWrite
    <2>4. \A s \in Slot : /\ "WANT" \in flag[s] => "WANT" \in flag'[s]
                          /\ "LOCK" \in flag'[s] => "LOCK" \in flag[s] BY <1>a, <2>3
    <2> QED BY <1>a, <1>s, <2>1, <2>2, <2>4, Gaining
  <1>4. CASE Close(p)
    <2>1. u[p].call # "sync" /\ (u[p].pc # "search" \/ u[p].call # "unlink")
      BY <1>a, <1>4 DEF Close, At, RegOK, DpOK, IpOK, LpOK, CallOK, RetOK, Where, Putting, InDir
    <2>a. chan' = chan BY <1>4 DEF Close
    <2>b. Hands(p, u[p].dp, fd[p], u[p].lp) BY <1>4, HandsStart
    <2>2. Hands(p, u[p].dp, fd[p], u[p].lp) /\ u[p].ip = NoSlot /\ chan' = chan
      BY <1>a, <1>4, <2>a, <2>b DEF Close, At, RegOK, DpOK, IpOK, LpOK, CallOK, RetOK, Where, Putting, InDir
    <2>3. flag' = flag BY <1>4 DEF Close, table
    <2> QED BY <1>a, <1>s, <2>1, <2>2, <2>3, Gaining
  <1> QED BY <1>1, <1>2, <1>3, <1>4 DEF Start

(* A step of p finds it runnable, changes its registers alone and leaves   *)
(* the processor to it or to nobody; at "scan" there is one thing to do.   *)
Leaves(p) == cpu' \in {p, NoProc} /\ \A q \in Proc \ {p} : u'[q] = u[q]

(* Every way a step can end leaves the others' registers alone. *)
LEMMA LeavesFrom ==
    ASSUME u \in [Proc -> Reg], NEW p \in Proc, NEW l, NEW r
    PROVE  /\ Goes(p, l, r) \/ Waits(p, l, r) \/ Returns(p) \/ Sleeps(p, l) => Leaves(p)
           /\ Resume(p, r) => Leaves(p)
  <1>1. Goes(p, l, r) => Leaves(p) BY DEF Goes, Leaves
  <1>2. Waits(p, l, r) => Leaves(p) BY DEF Waits, Leaves
  <1>3. Returns(p) => Leaves(p) BY DEF Returns, Leaves
  <1>4. Sleeps(p, l) => Leaves(p) BY DEF Sleeps, Leaves
  <1>5. Resume(p, r) => Leaves(p)
    <2>1. Goes(p, r.ret, [r EXCEPT !.ino = 0, !.ret = "user"]) => Leaves(p)
      BY DEF Goes, Leaves
    <2> QED BY <1>3, <2>1 DEF Resume
  <1> QED BY <1>1, <1>2, <1>3, <1>4, <1>5

(* Every step runs so, case by case. *)
LEMMA Runs ==
    ASSUME u \in [Proc -> Reg], NEW p \in Proc, Start(p) \/ Step(p)
    PROVE  chan[p] = NoChan /\ Leaves(p) /\ (u[p].pc = "scan" => Scan(p))
  <1>1. CASE IgetLocked(p)
    <2>1. chan[p] = NoChan /\ (u[p].pc = "scan" => Scan(p))
      BY <1>1, Zenon DEF IgetLocked, At
    <2>2. Leaves(p) BY <1>1, LeavesFrom, Zenon DEF IgetLocked
    <2> QED BY <2>1, <2>2
  <1>2. CASE IgetFound(p)
    <2>1. chan[p] = NoChan /\ (u[p].pc = "scan" => Scan(p)) BY <1>2, Zenon DEF IgetFound, At
    <2>2. Leaves(p) BY <1>2, LeavesFrom, Zenon DEF IgetFound
    <2> QED BY <2>1, <2>2
  <1>3. CASE IgetRead(p)
    <2>1. chan[p] = NoChan /\ (u[p].pc = "scan" => Scan(p)) BY <1>3, Zenon DEF IgetRead, At
    <2>2. Leaves(p) BY <1>3, LeavesFrom, Zenon DEF IgetRead
    <2> QED BY <2>1, <2>2
  <1>4. CASE IgetFull(p)
    <2>1. chan[p] = NoChan /\ (u[p].pc = "scan" => Scan(p)) BY <1>4, Zenon DEF IgetFull, At
    <2>2. Leaves(p) BY <1>4, LeavesFrom, Zenon DEF IgetFull
    <2> QED BY <2>1, <2>2
  <1>5. CASE Iread(p)
    <2>1. chan[p] = NoChan /\ (u[p].pc = "scan" => Scan(p)) BY <1>5, Zenon DEF Iread, At
    <2>2. Leaves(p) BY <1>5, LeavesFrom, Zenon DEF Iread
    <2> QED BY <2>1, <2>2
  <1>6. CASE PutShared(p)
    <2>1. chan[p] = NoChan /\ (u[p].pc = "scan" => Scan(p)) BY <1>6, Zenon DEF PutShared, At
    <2>2. Leaves(p) BY <1>6, LeavesFrom, Zenon DEF PutShared
    <2> QED BY <2>1, <2>2
  <1>7. CASE PutClean(p)
    <2>1. chan[p] = NoChan /\ (u[p].pc = "scan" => Scan(p)) BY <1>7, Zenon DEF PutClean, At
    <2>2. Leaves(p) BY <1>7, LeavesFrom, Zenon DEF PutClean, Forget
    <2> QED BY <2>1, <2>2
  <1>8. CASE PutDirty(p)
    <2>1. chan[p] = NoChan /\ (u[p].pc = "scan" => Scan(p)) BY <1>8, Zenon DEF PutDirty, At
    <2>2. Leaves(p) BY <1>8, LeavesFrom, Zenon DEF PutDirty
    <2> QED BY <2>1, <2>2
  <1>9. CASE PutUnlinked(p)
    <2>1. chan[p] = NoChan /\ (u[p].pc = "scan" => Scan(p))
      BY <1>9, Zenon DEF PutUnlinked, At
    <2>2. Leaves(p) BY <1>9, LeavesFrom, Zenon DEF PutUnlinked
    <2> QED BY <2>1, <2>2
  <1>10. CASE PutTruncated(p)
    <2>1. chan[p] = NoChan /\ (u[p].pc = "scan" => Scan(p))
      BY <1>10, Zenon DEF PutTruncated, At
    <2>2. Leaves(p) BY <1>10, LeavesFrom, Zenon DEF PutTruncated
    <2> QED BY <2>1, <2>2
  <1>11. CASE Iupdat(p)
    <2>1. chan[p] = NoChan /\ (u[p].pc = "scan" => Scan(p)) BY <1>11, Zenon DEF Iupdat, At
    <2>2. Leaves(p) BY <1>11, LeavesFrom, Zenon DEF Iupdat
    <2> QED BY <2>1, <2>2
  <1>12. CASE PutWritten(p)
    <2>1. chan[p] = NoChan /\ (u[p].pc = "scan" => Scan(p))
      BY <1>12, Zenon DEF PutWritten, At
    <2>2. Leaves(p) BY <1>12, LeavesFrom, Zenon DEF PutWritten, Forget
    <2> QED BY <2>1, <2>2
  <1>13. CASE SearchUnlink(p)
    <2>1. chan[p] = NoChan /\ (u[p].pc = "scan" => Scan(p))
      BY <1>13, Zenon DEF SearchUnlink, At
    <2>2. Leaves(p) BY <1>13, LeavesFrom, Zenon DEF SearchUnlink
    <2> QED BY <2>1, <2>2
  <1>14. CASE SearchFound(p)
    <2>1. chan[p] = NoChan /\ (u[p].pc = "scan" => Scan(p))
      BY <1>14, Zenon DEF SearchFound, At
    <2>2. Leaves(p) BY <1>14, LeavesFrom, Zenon DEF SearchFound
    <2> QED BY <2>1, <2>2
  <1>15. CASE SearchVacant(p)
    <2>1. chan[p] = NoChan /\ (u[p].pc = "scan" => Scan(p))
      BY <1>15, Zenon DEF SearchVacant, At
    <2>2. Leaves(p) BY <1>15, LeavesFrom, Zenon DEF SearchVacant
    <2> QED BY <2>1, <2>2
  <1>16. CASE SearchFails(p)
    <2>1. chan[p] = NoChan /\ (u[p].pc = "scan" => Scan(p))
      BY <1>16, Zenon DEF SearchFails, At
    <2>2. Leaves(p) BY <1>16, LeavesFrom, Zenon DEF SearchFails
    <2> QED BY <2>1, <2>2
  <1>17. CASE OpenNothing(p)
    <2>1. chan[p] = NoChan /\ (u[p].pc = "scan" => Scan(p))
      BY <1>17, Zenon DEF OpenNothing, At
    <2>2. Leaves(p) BY <1>17, LeavesFrom, Zenon DEF OpenNothing
    <2> QED BY <2>1, <2>2
  <1>18. CASE OpenRefused(p)
    <2>1. chan[p] = NoChan /\ (u[p].pc = "scan" => Scan(p))
      BY <1>18, Zenon DEF OpenRefused, At
    <2>2. Leaves(p) BY <1>18, LeavesFrom, Zenon DEF OpenRefused
    <2> QED BY <2>1, <2>2
  <1>19. CASE OpenTruncates(p)
    <2>1. chan[p] = NoChan /\ (u[p].pc = "scan" => Scan(p))
      BY <1>19, Zenon DEF OpenTruncates, At
    <2>2. Leaves(p) BY <1>19, LeavesFrom, Zenon DEF OpenTruncates
    <2> QED BY <2>1, <2>2
  <1>20. CASE OpenDone(p)
    <2>1. chan[p] = NoChan /\ (u[p].pc = "scan" => Scan(p)) BY <1>20, Zenon DEF OpenDone, At
    <2>2. Leaves(p) BY <1>20, LeavesFrom, Zenon DEF OpenDone
    <2> QED BY <2>1, <2>2
  <1>21. CASE UnlinkPanics(p)
    <2>1. chan[p] = NoChan /\ (u[p].pc = "scan" => Scan(p))
      BY <1>21, Zenon DEF UnlinkPanics, At
    <2>2. Leaves(p) BY <1>21, LeavesFrom, Zenon DEF UnlinkPanics
    <2> QED BY <2>1, <2>2
  <1>22. CASE UnlinkWrites(p)
    <2>1. chan[p] = NoChan /\ (u[p].pc = "scan" => Scan(p))
      BY <1>22, Zenon DEF UnlinkWrites, At
    <2>2. Leaves(p) BY <1>22, LeavesFrom, Zenon DEF UnlinkWrites
    <2> QED BY <2>1, <2>2
  <1>23. CASE Unlink(p)
    <2>1. chan[p] = NoChan /\ (u[p].pc = "scan" => Scan(p)) BY <1>23, Zenon DEF Unlink, At
    <2>2. Leaves(p) BY <1>23, LeavesFrom, Zenon DEF Unlink
    <2> QED BY <2>1, <2>2
  <1>24. CASE IallocWaits(p)
    <2>1. chan[p] = NoChan /\ (u[p].pc = "scan" => Scan(p))
      BY <1>24, Zenon DEF IallocWaits, At
    <2>2. Leaves(p) BY <1>24, LeavesFrom, Zenon DEF IallocWaits
    <2> QED BY <2>1, <2>2
  <1>25. CASE IallocEnters(p)
    <2>1. chan[p] = NoChan /\ (u[p].pc = "scan" => Scan(p))
      BY <1>25, Zenon DEF IallocEnters, At
    <2>2. Leaves(p) BY <1>25, LeavesFrom, Zenon DEF IallocEnters
    <2> QED BY <2>1, <2>2
  <1>26. CASE IallocPops(p)
    <2>1. chan[p] = NoChan /\ (u[p].pc = "scan" => Scan(p))
      BY <1>26, Zenon DEF IallocPops, At
    <2>2. Leaves(p) BY <1>26, LeavesFrom, Zenon DEF IallocPops
    <2> QED BY <2>1, <2>2
  <1>27. CASE IallocScans(p)
    <2>1. chan[p] = NoChan /\ (u[p].pc = "scan" => Scan(p))
      BY <1>27, Zenon DEF IallocScans, At
    <2>2. Leaves(p) BY <1>27, LeavesFrom, Zenon DEF IallocScans
    <2> QED BY <2>1, <2>2
  <1>28. CASE Scan(p)
    <2>1. chan[p] = NoChan /\ (u[p].pc = "scan" => Scan(p)) BY <1>28, Zenon DEF Scan, At
    <2>2. Leaves(p) BY <1>28, LeavesFrom, Zenon DEF Scan
    <2> QED BY <2>1, <2>2
  <1>29. CASE AllocNothing(p)
    <2>1. chan[p] = NoChan /\ (u[p].pc = "scan" => Scan(p))
      BY <1>29, Zenon DEF AllocNothing, At
    <2>2. Leaves(p) BY <1>29, LeavesFrom, Zenon DEF AllocNothing
    <2> QED BY <2>1, <2>2
  <1>30. CASE AllocUsed(p)
    <2>1. chan[p] = NoChan /\ (u[p].pc = "scan" => Scan(p))
      BY <1>30, Zenon DEF AllocUsed, At
    <2>2. Leaves(p) BY <1>30, LeavesFrom, Zenon DEF AllocUsed
    <2> QED BY <2>1, <2>2
  <1>31. CASE Maknode(p)
    <2>1. chan[p] = NoChan /\ (u[p].pc = "scan" => Scan(p)) BY <1>31, Zenon DEF Maknode, At
    <2>2. Leaves(p) BY <1>31, LeavesFrom, Zenon DEF Maknode
    <2> QED BY <2>1, <2>2
  <1>32. CASE WdirNew(p)
    <2>1. chan[p] = NoChan /\ (u[p].pc = "scan" => Scan(p)) BY <1>32, Zenon DEF WdirNew, At
    <2>2. Leaves(p) BY <1>32, LeavesFrom, Zenon DEF WdirNew
    <2> QED BY <2>1, <2>2
  <1>33. CASE LinkNothing(p)
    <2>1. chan[p] = NoChan /\ (u[p].pc = "scan" => Scan(p))
      BY <1>33, Zenon DEF LinkNothing, At
    <2>2. Leaves(p) BY <1>33, LeavesFrom, Zenon DEF LinkNothing
    <2> QED BY <2>1, <2>2
  <1>34. CASE LinkTooMany(p)
    <2>1. chan[p] = NoChan /\ (u[p].pc = "scan" => Scan(p))
      BY <1>34, Zenon DEF LinkTooMany, At
    <2>2. Leaves(p) BY <1>34, LeavesFrom, Zenon DEF LinkTooMany
    <2> QED BY <2>1, <2>2
  <1>35. CASE LinkSecond(p)
    <2>1. chan[p] = NoChan /\ (u[p].pc = "scan" => Scan(p))
      BY <1>35, Zenon DEF LinkSecond, At
    <2>2. Leaves(p) BY <1>35, LeavesFrom, Zenon DEF LinkSecond
    <2> QED BY <2>1, <2>2
  <1>36. CASE LinkExists(p)
    <2>1. chan[p] = NoChan /\ (u[p].pc = "scan" => Scan(p))
      BY <1>36, Zenon DEF LinkExists, At
    <2>2. Leaves(p) BY <1>36, LeavesFrom, Zenon DEF LinkExists
    <2> QED BY <2>1, <2>2
  <1>37. CASE WdirLink(p)
    <2>1. chan[p] = NoChan /\ (u[p].pc = "scan" => Scan(p)) BY <1>37, Zenon DEF WdirLink, At
    <2>2. Leaves(p) BY <1>37, LeavesFrom, Zenon DEF WdirLink
    <2> QED BY <2>1, <2>2
  <1>38. CASE LinkPut(p)
    <2>1. chan[p] = NoChan /\ (u[p].pc = "scan" => Scan(p)) BY <1>38, Zenon DEF LinkPut, At
    <2>2. Leaves(p) BY <1>38, LeavesFrom, Zenon DEF LinkPut
    <2> QED BY <2>1, <2>2
  <1>39. CASE SyncSkip(p)
    <2>1. chan[p] = NoChan /\ (u[p].pc = "scan" => Scan(p)) BY <1>39, Zenon DEF SyncSkip, At
    <2>2. Leaves(p) BY <1>39, LeavesFrom, Zenon DEF SyncSkip
    <2> QED BY <2>1, <2>2
  <1>40. CASE SyncInode(p)
    <2>1. chan[p] = NoChan /\ (u[p].pc = "scan" => Scan(p))
      BY <1>40, Zenon DEF SyncInode, At
    <2>2. Leaves(p) BY <1>40, LeavesFrom, Zenon DEF SyncInode
    <2> QED BY <2>1, <2>2
  <1>41. CASE SyncWritten(p)
    <2>1. chan[p] = NoChan /\ (u[p].pc = "scan" => Scan(p))
      BY <1>41, Zenon DEF SyncWritten, At
    <2>2. Leaves(p) BY <1>41, LeavesFrom, Zenon DEF SyncWritten
    <2> QED BY <2>1, <2>2
  <1>42. CASE SyncDone(p)
    <2>1. chan[p] = NoChan /\ (u[p].pc = "scan" => Scan(p)) BY <1>42, Zenon DEF SyncDone, At
    <2>2. Leaves(p) BY <1>42, LeavesFrom, Zenon DEF SyncDone
    <2> QED BY <2>1, <2>2
  <1>43. CASE StartPath(p)
    <2>1. chan[p] = NoChan /\ (u[p].pc = "scan" => Scan(p))
      BY <1>43, Zenon DEF StartPath, At
    <2>2. Leaves(p) BY <1>43, LeavesFrom, Zenon DEF StartPath
    <2> QED BY <2>1, <2>2
  <1>44. CASE StartSync(p)
    <2>1. chan[p] = NoChan /\ (u[p].pc = "scan" => Scan(p))
      BY <1>44, Zenon DEF StartSync, At
    <2>2. Leaves(p) BY <1>44, LeavesFrom, Zenon DEF StartSync
    <2> QED BY <2>1, <2>2
  <1>45. CASE ReadWrite(p)
    <2>1. chan[p] = NoChan /\ (u[p].pc = "scan" => Scan(p))
      BY <1>45, Zenon DEF ReadWrite, At
    <2>2. Leaves(p) BY <1>45, LeavesFrom, Zenon DEF ReadWrite
    <2> QED BY <2>1, <2>2
  <1>46. CASE Close(p)
    <2>1. chan[p] = NoChan /\ (u[p].pc = "scan" => Scan(p)) BY <1>46, Zenon DEF Close, At
    <2>2. Leaves(p) BY <1>46, LeavesFrom, Zenon DEF Close
    <2> QED BY <2>1, <2>2
  <1> QED BY <1>1, <1>2, <1>3, <1>4, <1>5, <1>6, <1>7, <1>8, <1>9, <1>10, <1>11, <1>12, <1>13,
       <1>14, <1>15, <1>16, <1>17, <1>18, <1>19, <1>20, <1>21, <1>22, <1>23, <1>24, <1>25,
       <1>26, <1>27, <1>28, <1>29, <1>30, <1>31, <1>32, <1>33, <1>34, <1>35, <1>36, <1>37,
       <1>38, <1>39, <1>40, <1>41, <1>42, <1>43, <1>44, <1>45, <1>46
       DEF Start, Step, Iget, Iput, Namei, Open, UnlinkStep, Ialloc, Link, Sync

(* All the steps but the two that sleep. *)
LEMMA ToldStep ==
    ASSUME IInv, NEW p \in Proc, Start(p) \/ Step(p), ~IgetLocked(p), ~IallocWaits(p)
    PROVE  Told(p)
  BY ToldIget, ToldIput, ToldNamei, ToldOpen, ToldUnlinkStep, ToldIalloc, ToldLink, ToldSync, ToldStart DEF
    Step

(* lost only grows. *)
LEMMA LostStep ==
    ASSUME IInv, NEW p \in Proc, Start(p) \/ Step(p)
    PROVE  lost' \in Nat /\ (lost' = 0 => lost = 0)
  <1>1. lost \in Nat BY DEF IInv, Rest
  <1>2. Scan(p) => lost' = lost \/ lost' = lost + 1 BY Zenon DEF Scan
  <1>3. AllocNothing(p) => lost' = lost + 1 BY Zenon DEF AllocNothing
  <1>4. lost' = lost \/ lost' = lost + 1 BY <1>2, <1>3, Frames
  <1> QED BY <1>1, <1>4

(* The locks, the channels, the processor and the counters keep their      *)
(* types.                                                                  *)
LEMMA RestStep ==
    ASSUME IInv, NEW p \in Proc, Start(p) \/ Step(p) PROVE Rest'
  <1>1. Rest /\ u \in [Proc -> Reg] BY DEF IInv, Regs
  <1>2. cpu' \in Proc \cup {NoProc} BY <1>1, Runs DEF Leaves
  <1>3. ilock' \in BOOLEAN BY <1>1, Frames DEF Rest, IallocScans, Scan
  <1>4. updlock' \in BOOLEAN BY <1>1, Frames DEF Rest, StartSync, SyncDone
  <1>5. lost' \in Nat BY LostStep
  <1>6. left' \in Nat
    <2>1. StartPath(p) \/ StartSync(p) => Counted BY Zenon DEF StartPath, StartSync
    <2>2. Counted => left' \in Nat BY <1>1 DEF Rest, Counted
    <2> QED BY <1>1, <2>1, <2>2, Frames DEF Rest
  <1>7. chan' \in [Proc -> Slot \cup {Ilock, NoChan}]
    <2>1. CASE IgetLocked(p)
      <3>1. First(InCore(u[p].ino)) \in Slot BY <2>1, InCoreFirst DEF IgetLocked, IInv
      <3> QED BY <1>1, <2>1, <3>1 DEF IgetLocked, Sleeps, Rest
    <2>2. CASE IallocWaits(p) BY <1>1, <2>2 DEF IallocWaits, Sleeps, Rest
    <2> QED BY <2>1, <2>2, ToldStep DEF Told, Rouses
  <1> QED BY <1>2, <1>3, <1>4, <1>5, <1>6, <1>7 DEF Rest

(* What another process has in hand or holds does not change. *)
LEMMA HoldsLeaves ==
    ASSUME NEW p \in Proc, Leaves(p)
    PROVE  \A q \in Proc \ {p}, s \in Slot :
              /\ Holds(q, s)' <=> Holds(q, s)
              /\ Busy(q, s)' <=> Busy(q, s) BY DEF Leaves, Holds, Busy

(* Who finds the inode locked does not have it in hand. *)
LEMMA SleeperIsNot ==
    ASSUME IInv, NEW p \in Proc, IgetLocked(p) PROVE ~Holds(p, First(InCore(u[p].ino)))
  <1>1. u[p] \in Reg /\ RegOK(u[p]) /\ NoSlot \notin Slot /\ u[p].pc = "iget"
    BY SlotsInHand DEF IgetLocked, At
  <1>2. /\ First(InCore(u[p].ino)) \in Slot
        /\ u[p].ino = ROOTINO <=> First(InCore(u[p].ino)) = Root
    BY InCoreFirst DEF IgetLocked, IInv
  <1>3. PICK s : s = First(InCore(u[p].ino)) OBVIOUS
  <1>4. u[p].call # "sync" /\ u[p].ip = NoSlot BY <1>1 DEF RegOK, CallOK, IpOK, Putting
  <1>5. CASE u[p].dp = s
    <2>1. u[p].dp = Root /\ u[p].ino = ROOTINO BY <1>1, <1>2, <1>3, <1>5 DEF RegOK, DpOK
    <2>2. u[p].ret = "search" BY <1>1, <1>4, <2>1 DEF RegOK, NumberOK
    <2>3. u[p].dp = NoSlot BY <1>1, <1>4, <2>2 DEF RegOK, DpOK, Where, InDir
    <2> QED BY <1>1, <1>2, <1>3, <1>5, <2>3
  <1> QED BY <1>1, <1>2, <1>3, <1>4, <1>5 DEF Holds

(* A locked inode stays in the hands of somebody who will unlock it. *)
LEMMA LocksStep ==
    ASSUME IInv, NEW p \in Proc, Start(p) \/ Step(p) PROVE Locks'
  <1>1. u \in [Proc -> Reg] /\ flag \in [Slot -> SUBSET Flag] /\ Locks
    BY DEF IInv, Regs, Flags
  <1>2. SUFFICES ASSUME NEW s \in Slot, "LOCK" \in flag'[s], lost' = 0 PROVE \E q \in Proc : Holds(q, s)'
    BY DEF Locks
  <1>3. Leaves(p) /\ lost = 0 BY <1>1, <1>2, Runs, LostStep
  <1>4. CASE IgetLocked(p) \/ IallocWaits(p)
    <2>1. u' = u BY <1>4 DEF IgetLocked, IallocWaits, Sleeps
    <2>2. "LOCK" \in flag[s]
      <3>1. CASE IallocWaits(p) BY <1>2, <3>1 DEF IallocWaits, table
      <3>2. CASE IgetLocked(p) BY <1>1, <1>2, <3>2 DEF IgetLocked
      <3> QED BY <1>4, <3>1, <3>2
    <2>3. PICK q \in Proc : Holds(q, s) BY <1>1, <1>3, <2>2 DEF Locks
    <2> QED BY <2>1, <2>3 DEF Holds
  <1>5. CASE ~IgetLocked(p) /\ ~IallocWaits(p)
    <2>1. Guards(p) BY <1>5, ToldStep DEF Told
    <2>2. CASE Holds(p, s)' BY <2>2
    <2>3. CASE "LOCK" \in flag[s] /\ ~Holds(p, s)
      <3>1. PICK q \in Proc : Holds(q, s) BY <1>1, <1>3, <2>3 DEF Locks
      <3>2. Holds(q, s)' BY <1>3, <2>3, <3>1, HoldsLeaves
      <3> QED BY <3>2
    <2> QED BY <1>2, <2>1, <2>2, <2>3 DEF Guards
  <1> QED BY <1>4, <1>5

(* No step leaves a sleeper without somebody to wake it. *)
LEMMA SleepersStep ==
    ASSUME IInv, NEW p \in Proc, Start(p) \/ Step(p) PROVE Sleepers'
  <1>1. /\ u \in [Proc -> Reg] /\ flag \in [Slot -> SUBSET Flag] /\ Locks /\ Sleepers
        /\ chan \in [Proc -> Slot \cup {Ilock, NoChan}]
        /\ NoChan \notin Slot /\ Ilock \notin Slot /\ NoChan # Ilock
    BY SizeAssumption DEF IInv, Regs, Flags, Rest, NoChan, Ilock, Slot
  <1>2. chan[p] = NoChan /\ Leaves(p) /\ (u[p].pc = "scan" => Scan(p)) BY <1>1, Runs
  <1>3. ilock' => \E q \in Proc : u'[q].pc = "scan"
    <2>1. CASE IallocScans(p) \/ Scan(p) BY <2>1, CallStep
    <2>2. CASE ~IallocScans(p) /\ ~Scan(p)
      <3>1. ilock' = ilock BY <2>2, Frames
      <3> QED BY <1>1, <1>2, <2>2, <3>1 DEF Sleepers, Leaves
    <2> QED BY <2>1, <2>2
  <1>4. CASE ~IgetLocked(p) /\ ~IallocWaits(p)
    <2>1. Rouses /\ Tells(p) BY <1>4, ToldStep DEF Told
    <2>2. chan'[p] = NoChan BY <1>2, <2>1 DEF Rouses
    <2>3. ASSUME NEW q \in Proc, chan'[q] # NoChan
          PROVE  chan'[q] = chan[q] /\ q # p /\ u'[q] = u[q]
      BY <1>2, <2>1, <2>2, <2>3 DEF Rouses, Leaves
    <2>4. \A q \in Proc : /\ chan'[q] \in Slot => u'[q].pc = "iget"
                          /\ chan'[q] = Ilock => u'[q].pc = "ialloc"
      BY <1>1, <2>3 DEF Sleepers
    <2>5. ASSUME NEW q \in Proc, chan'[q] \in Slot
          PROVE  /\ "WANT" \in flag'[chan'[q]]
                 /\ lost' = 0 => \E r \in Proc \ {q} : Busy(r, chan[q])'
      <3>1. PICK s \in Slot : s = chan'[q] BY <2>5
      <3>2. chan[q] = s /\ q # p BY <1>1, <2>3, <3>1
      <3>3. "WANT" \in flag[s] /\ (lost = 0 => \E r \in Proc \ {q} : Busy(r, s))
        BY <1>1, <3>2 DEF Sleepers, NoLostWakeup
      <3>4. "WANT" \in flag'[s] /\ (Busy(p, s) => Busy(p, s)' \/ lost' # 0)
        BY <2>1, <3>1, <3>3 DEF Tells
      <3>5. ASSUME lost' = 0 PROVE \E r \in Proc \ {q} : Busy(r, s)'
        <4>1. PICK r \in Proc \ {q} : Busy(r, s) BY <3>3, <3>5, LostStep
        <4>2. Busy(r, s)'
          <5>1. CASE r = p BY <3>4, <3>5, <4>1, <5>1
          <5>2. CASE r # p BY <1>2, <4>1, <5>2, HoldsLeaves
          <5> QED BY <5>1, <5>2
        <4> QED BY <4>2
      <3>6. ASSUME lost' = 0 PROVE \E r \in Proc \ {q} : Busy(r, chan[q])'
        <4>1. PICK r \in Proc \ {q} : Busy(r, s)' BY <3>5, <3>6
        <4> QED BY <3>1, <4>1 DEF Busy
      <3> QED BY <3>1, <3>4, <3>6
    <2>6. ASSUME NEW q \in Proc, chan'[q] = Ilock PROVE \E r \in Proc : u'[r].pc = "scan"
      <3>1. chan[q] = Ilock BY <1>1, <2>3, <2>6
      <3>2. PICK r \in Proc : u[r].pc = "scan" BY <1>1, <3>1 DEF Sleepers, NoLostWakeup
      <3>3. CASE r = p
        <4>1. Scan(p) BY <1>2, <3>2, <3>3
        <4>2. CASE Wakeup(Ilock) BY <1>1, <2>6, <4>2, WakeupRouses
        <4>3. CASE ~Wakeup(Ilock)
          <5>1. Waits(p, "scan", [u[p] EXCEPT !.k = u[p].k + 1]) BY <4>1, <4>3 DEF Scan
          <5>2. u'[p].pc = "scan" BY <1>1, <5>1 DEF Waits, Reg
          <5> QED BY <5>2
        <4> QED BY <4>2, <4>3
      <3>4. CASE r # p BY <1>2, <3>2, <3>4 DEF Leaves
      <3> QED BY <3>3, <3>4
    <2> QED BY <1>3, <2>4, <2>5, <2>6 DEF Sleepers, NoLostWakeup
  <1>5. CASE IallocWaits(p)
    <2>1. UNCHANGED <<u, flag, lost>> /\ chan' = [chan EXCEPT ![p] = Ilock] /\ u[p].pc = "ialloc" /\ ilock
      BY <1>5 DEF IallocWaits, Sleeps, table, hist, At
    <2>2. \A r \in Proc : \A s : Busy(r, s)' <=> Busy(r, s) BY <2>1 DEF Busy
    <2>3. ASSUME NEW q \in Proc, q # p PROVE chan'[q] = chan[q] BY <1>1, <2>1, <2>3
    <2>4. chan'[p] = Ilock BY <1>1, <2>1
    <2>5. \A q \in Proc : /\ chan'[q] \in Slot => u'[q].pc = "iget"
                          /\ chan'[q] = Ilock => u'[q].pc = "ialloc"
      BY <1>1, <2>1, <2>3, <2>4 DEF Sleepers
    <2>6. \E q \in Proc : u'[q].pc = "scan" BY <1>1, <2>1 DEF Sleepers
    <2>7. ASSUME NEW q \in Proc, chan'[q] \in Slot
          PROVE  /\ "WANT" \in flag'[chan'[q]]
                 /\ lost' = 0 => \E r \in Proc \ {q} : Busy(r, chan[q])'
      <3>1. chan'[q] = chan[q] /\ chan[q] \in Slot BY <1>1, <2>3, <2>4, <2>7
      <3>2. "WANT" \in flag[chan[q]] /\ (lost = 0 => \E r \in Proc \ {q} : Busy(r, chan[q]))
        BY <1>1, <3>1 DEF Sleepers, NoLostWakeup
      <3> QED BY <2>1, <3>1, <3>2 DEF Busy
    <2> QED BY <2>5, <2>6, <2>7 DEF Sleepers, NoLostWakeup
  <1>6. CASE IgetLocked(p)
    <2>0. PICK s : s = First(InCore(u[p].ino)) OBVIOUS
    <2>1. s \in Slot /\ "LOCK" \in flag[s] /\ ~Holds(p, s)
      BY <1>6, <2>0, InCoreFirst, SleeperIsNot DEF IgetLocked, IInv
    <2>2. /\ u' = u /\ lost' = lost /\ chan' = [chan EXCEPT ![p] = s] /\ u[p].pc = "iget"
          /\ flag' = [flag EXCEPT ![s] = @ \cup {"WANT"}]
      BY <1>6, <2>0 DEF IgetLocked, Sleeps, hist, At
    <2>3. ASSUME NEW q \in Proc, q # p PROVE chan'[q] = chan[q] BY <1>1, <2>2, <2>3
    <2>4. chan'[p] = s BY <1>1, <2>2
    <2>5. \A q \in Proc : /\ chan'[q] \in Slot => u'[q].pc = "iget"
                          /\ chan'[q] = Ilock => u'[q].pc = "ialloc"
      BY <1>1, <2>1, <2>2, <2>3, <2>4 DEF Sleepers
    <2>6. ASSUME NEW q \in Proc, chan'[q] = Ilock PROVE \E r \in Proc : u'[r].pc = "scan"
      <3>1. chan[q] = Ilock BY <1>1, <2>1, <2>3, <2>4, <2>6
      <3> QED BY <1>1, <2>2, <3>1 DEF Sleepers, NoLostWakeup
    <2>7. \A r \in Slot : "WANT" \in flag[r] \/ r = s => "WANT" \in flag'[r]
      BY <1>1, <2>1, <2>2
    <2>8. ASSUME NEW q \in Proc, chan'[q] \in Slot
          PROVE  /\ "WANT" \in flag'[chan'[q]]
                 /\ lost' = 0 => \E r \in Proc \ {q} : Busy(r, chan[q])'
      <3>1. CASE q # p
        <4>1. chan'[q] = chan[q] /\ chan[q] \in Slot BY <2>3, <2>8, <3>1
        <4>2. "WANT" \in flag[chan[q]] /\ (lost = 0 => \E r \in Proc \ {q} : Busy(r, chan[q]))
          BY <1>1, <4>1 DEF Sleepers, NoLostWakeup
        <4> QED BY <2>2, <2>7, <4>1, <4>2 DEF Busy
      <3>2. CASE q = p
        <4>1. ASSUME lost' = 0 PROVE \E r \in Proc \ {q} : Busy(r, s)'
          <5>1. PICK r \in Proc : Holds(r, s) BY <1>1, <2>1, <2>2, <4>1 DEF Locks
          <5>2. r # q BY <2>1, <3>2, <5>1
          <5>3. Busy(r, s)' BY <2>2, <5>1 DEF Holds, Busy
          <5> QED BY <5>2, <5>3
        <4>2. "WANT" \in flag'[s] BY <2>1, <2>7
        <4>3. lost' = 0 => \E r \in Proc \ {q} : Busy(r, chan[q])'
          <5>1. chan'[q] = s BY <2>4, <3>2
          <5> QED BY <4>1, <5>1 DEF Busy
        <4> QED BY <2>4, <3>2, <4>2, <4>3
      <3> QED BY <3>1, <3>2
    <2> QED BY <1>3, <2>5, <2>6, <2>8 DEF Sleepers, NoLostWakeup
  <1> QED BY <1>4, <1>5, <1>6

-------------------------------------------------------------------------------
(* The invariant. *)

(* Every step keeps the invariant. *)
LEMMA StepInv ==
    ASSUME IInv, NEW p \in Proc, Start(p) \/ Step(p) PROVE IInv'
  <1>1. Regs'
    BY RegsIget, RegsIput, RegsNamei, RegsOpen, RegsUnlink, RegsIalloc, RegsLink, RegsSync, RegsStart DEF Step
  <1>2. Counts'
    BY CountsIget, CountsIput, CountsNamei, CountsOpen, CountsUnlinkStep, CountsIalloc, CountsLink,
      CountsSync, CountsStart DEF Step
  <1>3. Flags' /\ Free'
    BY FlagsIget, FlagsIput, FlagsNamei, FlagsOpen, FlagsUnlinkStep, FlagsIalloc, FlagsLink, FlagsSync,
      FlagsStart DEF Step
  <1>4. Fds' /\ Numbers' /\ Disk' BY FdsStep, NumbersStep, DiskStep
  <1>5. Rest' /\ Locks' /\ Sleepers' BY RestStep, LocksStep, SleepersStep
  <1> QED BY <1>1, <1>2, <1>3, <1>4, <1>5 DEF IInv

(* So does standing still. *)
LEMMA StutterInv ==
    ASSUME IInv, UNCHANGED vars PROVE IInv'
  <1>1. /\ UNCHANGED <<flag, count, num, node, dnode, dir, spare, ilock, updlock>>
        /\ UNCHANGED <<u, fd, chan, cpu, left, lost>> BY DEF vars, table, super, hist
  <1>2. Regs' /\ Fds' /\ Numbers' /\ Free' /\ Disk' /\ Flags' /\ Rest'
    BY <1>1 DEF IInv, Regs, Fds, Numbers, NoAlias, Free, Disk, Flags, Rest
  <1>3. Counts'
    <2>1. \A s : References(s)' = References(s) BY <1>1 DEF References, Refers
    <2> QED BY <1>1, <2>1 DEF IInv, Counts, RefCount
  <1>4. Locks' BY <1>1 DEF IInv, Locks, Holds
  <1>5. Sleepers' BY <1>1 DEF IInv, Sleepers, NoLostWakeup, Busy
  <1> QED BY <1>2, <1>3, <1>4, <1>5 DEF IInv

(* The invariant holds at first. *)
LEMMA InitInv ==
    ASSUME Init PROVE IInv
  <1>1. Root \in Slot /\ NoSlot \notin Slot /\ ROOTINO \in Ino /\ ROOTINO # 0 /\ Cardinality(Proc) \in Nat
    BY SizeAssumption, ProcAssumption, FS_CardinalityType DEF Root, Slot, NoSlot, ROOTINO, Ino
  <1>2. \A p \in Proc : u[p] = Idle /\ fd[p] = NoSlot /\ chan[p] = NoChan BY DEF Init
  <1>3. Regs BY <1>2, IdleOK DEF Init, Regs, RegOK
  <1>4. Fds BY DEF Init, Fds
  <1>5. Numbers BY <1>1 DEF Init, Numbers, NoAlias
  <1>6. count \in [Slot -> Nat] /\ Free /\ Flags BY <1>1 DEF Init, Free, Flags
  <1>7. RefCount
    <2>1. \A s \in Slot : References(s) = {}
      BY <1>1, <1>2 DEF References, Refers, Reference, Idle
    <2>2. \A s \in Slot : Cardinality(References(s)) = 0 BY <2>1, FS_EmptySet
    <2>3. count = [s \in Slot |-> IF s = Root THEN 1 + Cardinality(Proc) ELSE 0] /\ lost = 0
      BY DEF Init
    <2> QED BY <1>1, <2>2, <2>3 DEF RefCount
  <1>8. Disk
    <2>1. PICK files \in SUBSET (Ino \ {ROOTINO}) :
            /\ dnode = [i \in Ino |-> [used |-> i \in files \cup {ROOTINO},
                                       nlink |-> IF i \in files \cup {ROOTINO} THEN 1 ELSE 0]]
            /\ dir \in [Off -> {Empty} \cup [name : Name, ino : files]] BY DEF Init
    <2>2. dnode \in [Ino -> Node] BY <2>1 DEF Node
    <2>3. {Empty} \cup [name : Name, ino : files]
             \subseteq [name : Name \cup {NoName}, ino : (Ino \cup {0}) \ {ROOTINO}]
      BY <1>1 DEF Empty
    <2>4. dir \in [Off -> [name : Name \cup {NoName}, ino : (Ino \cup {0}) \ {ROOTINO}]]
      BY <2>1, <2>3
    <2>5. node \in [Slot -> Node] BY DEF Init, Node
    <2>6. spare \in Seq((Ino \cup {0}) \ {ROOTINO})
      <3>1. spare \in Seq(Ino \ {ROOTINO}) BY SparesAssumption DEF Init
      <3> QED BY <1>1, <3>1
    <2> QED BY <2>2, <2>4, <2>5, <2>6 DEF Disk
  <1>9. Rest BY SizeAssumption DEF Init, Rest
  <1>10. Locks BY DEF Init, Locks
  <1>11. Sleepers
    BY <1>2, SizeAssumption DEF Init, Sleepers, NoLostWakeup, Slot, Ilock, NoChan
  <1> QED BY <1>3, <1>4, <1>5, <1>6, <1>7, <1>8, <1>9, <1>10, <1>11 DEF IInv, Counts

(* The inductive invariant of the inode table holds in every reachable     *)
(* state.                                                                  *)
THEOREM TableInvariant == Spec => []IInv
  <1>1. IInv /\ [Next]_vars => IInv' BY StepInv, StutterInv DEF Next
  <1> QED BY <1>1, InitInv, PTL DEF Spec

(* Every variable keeps its type. *)
THEOREM TypesHold == Spec => []TypeOK
  <1>1. IInv => TypeOK
    <2> SUFFICES ASSUME IInv PROVE TypeOK OBVIOUS
    <2>1. dir \in [Off -> [name : Name \cup {NoName}, ino : Ino \cup {0}]]
      <3>1. [name : Name \cup {NoName}, ino : (Ino \cup {0}) \ {ROOTINO}]
               \subseteq [name : Name \cup {NoName}, ino : Ino \cup {0}] OBVIOUS
      <3> QED BY <3>1 DEF IInv, Disk
    <2>2. spare \in Seq(Ino \cup {0}) BY DEF IInv, Disk
    <2>3. fd \in [Proc -> Slot \cup {NoSlot}] BY DEF IInv, Fds, Files
    <2> QED BY <2>1, <2>2, <2>3 DEF TypeOK, IInv, Regs, Numbers, Disk, Flags, Counts, Rest
  <1> QED BY <1>1, TableInvariant, PTL

(* i_count is the number of references there are. *)
THEOREM CountsHold == Spec => []RefCount
  <1>1. IInv => RefCount BY DEF IInv, Counts
  <1> QED BY <1>1, TableInvariant, PTL

(* No inode is in core twice. *)
THEOREM OneSlotEach == Spec => []NoAlias
  <1>1. IInv => NoAlias BY DEF IInv, Numbers
  <1> QED BY <1>1, TableInvariant, PTL

(* Nobody sleeps on a lock that nobody will release. *)
THEOREM SleepersWoken == Spec => []NoLostWakeup
  <1>1. IInv => NoLostWakeup BY DEF IInv, Sleepers
  <1> QED BY <1>1, TableInvariant, PTL

-------------------------------------------------------------------------------
(* While nobody calls sync.                                                *)

Steady == {"iget", "iread", "itrunc", "ibread", "ibwrite"}
Arrives(p) ==
    \/ u'[p].pc \notin Steady
    \/ u' = u /\ IgetLocked(p)
    \/ u'[p].pc = "iget" /\ u'[p].ino \in Ino
    \/ IgetRead(p) /\ u'[p].pc = "iread" /\ u'[p].ino = u[p].ino
    \/ PutUnlinked(p) /\ u'[p].pc = "itrunc"
    \/ (PutDirty(p) \/ PutTruncated(p)) /\ u'[p].pc = "ibread" /\ u'[p].ino = num[u[p].ip]
    \/ Iupdat(p) /\ u'[p].pc = "ibwrite" /\ u'[p].ino = u[p].ino

(* Where a step can come to, and with what number, when it comes to a      *)
(* place that asks for one.                                                *)
LEMMA Places ==
    ASSUME IInv, spare \in Seq(Ino), "sync" \notin Calls, NEW p \in Proc, Start(p) \/ Step(p), u[p].call # "sync"
    PROVE  u'[p].call # "sync" /\ Arrives(p)
  <1>a. u \in [Proc -> Reg] /\ u[p] \in Reg /\ RegOK(u[p]) /\ ROOTINO \in Ino
    BY SizeAssumption DEF IInv, Regs, RegOK, ROOTINO, Ino
  <1>b. \A r \in Reg : Resume(p, r) /\ r.ret \notin Steady /\ r.call # "sync" =>
                          u'[p].pc \notin Steady /\ u'[p].call # "sync"
    <2> SUFFICES ASSUME NEW r \in Reg, Resume(p, r), r.ret \notin Steady, r.call # "sync"
                 PROVE  u'[p].pc \notin Steady /\ u'[p].call # "sync" OBVIOUS
    <2>1. CASE r.ret = "user" BY <1>a, <2>1 DEF Resume, Returns, Idle, Steady
    <2>2. CASE r.ret # "user"
      <3>1. u' = [u EXCEPT ![p] = Back(r)] BY <2>2 DEF Resume, Goes, Back, Reg
      <3>2. Back(r).call = r.call /\ Back(r).pc = r.ret BY DEF Back, Reg
      <3> QED BY <1>a, <3>1, <3>2
    <2> QED BY <2>1, <2>2
  <1>c. Returns(p) => u'[p].pc \notin Steady /\ u'[p].call # "sync"
    BY <1>a DEF Returns, Idle, Steady
  <1>1. CASE IgetLocked(p) BY <1>a, <1>1 DEF IgetLocked, Sleeps, At, Arrives, Steady
  <1>2. CASE IgetFound(p)
    <2> DEFINE s == First(InCore(u[p].ino))
    <2>1. CASE u[p].ret = "search"
      <3> DEFINE r == [u[p] EXCEPT !.dp = s, !.ino = 0, !.ret = "user", !.pc = "search"]
      <3>1. u' = [u EXCEPT ![p] = r] BY <1>a, <1>2, <2>1 DEF IgetFound, Waits, Got, Reg
      <3> QED BY <1>a, <3>1 DEF Reg, Arrives, Steady
    <2>2. CASE u[p].ret # "search"
      <3> DEFINE r == [u[p] EXCEPT !.ip = s]
      <3>1. r \in Reg /\ r.call = u[p].call /\ r.ret = u[p].ret
        BY <1>a, <1>2, InCoreFirst DEF Reg, IgetFound, IInv
      <3>2. Resume(p, r) /\ u[p].ret \notin Steady
        BY <1>a, <1>2, <2>2 DEF IgetFound, Got, At, RegOK, RetOK, Steady
      <3> QED BY <1>b, <3>1, <3>2 DEF Arrives
    <2> QED BY <2>1, <2>2
  <1>3. CASE IgetRead(p)
    BY <1>a, <1>c, <1>3 DEF IgetRead, Goes, Waits, Returns, Got, Reg, Idle, Arrives, Steady
  <1>4. CASE IgetFull(p)
    <2> DEFINE r == u[p]
    <2>1. r \in Reg /\ r.call = u[p].call /\ r.ret = u[p].ret BY <1>a DEF Reg
    <2>2. Resume(p, r) /\ u[p].ret \notin Steady
      BY <1>a, <1>4 DEF IgetFull, At, RegOK, RetOK, Putting, Steady
    <2> QED BY <1>b, <2>1, <2>2 DEF Arrives
  <1>5. CASE Iread(p)
    <2> DEFINE r == u[p]
    <2>1. r \in Reg /\ r.call = u[p].call /\ r.ret = u[p].ret BY <1>a DEF Reg
    <2>2. Resume(p, r) /\ u[p].ret \notin Steady
      BY <1>a, <1>5 DEF Iread, At, RegOK, RetOK, Putting, Steady
    <2> QED BY <1>b, <2>1, <2>2 DEF Arrives
  <1>6. CASE PutShared(p)
    <2> DEFINE r == [u[p] EXCEPT !.ip = NoSlot]
    <2>1. r \in Reg /\ r.call = u[p].call /\ r.ret = u[p].ret BY <1>a DEF Reg
    <2>2. Resume(p, r) /\ u[p].ret \notin Steady
      BY <1>a, <1>6 DEF PutShared, At, RegOK, RetOK, Putting, Steady
    <2> QED BY <1>b, <2>1, <2>2 DEF Arrives
  <1>7. CASE PutClean(p)
    <2> DEFINE r == [u[p] EXCEPT !.ip = NoSlot]
    <2>1. r \in Reg /\ r.call = u[p].call /\ r.ret = u[p].ret BY <1>a DEF Reg
    <2>2. Resume(p, r) /\ u[p].ret \notin Steady
      BY <1>a, <1>7 DEF PutClean, Forget, At, RegOK, RetOK, Putting, Steady
    <2> QED BY <1>b, <2>1, <2>2 DEF Arrives
  <1>8. CASE PutDirty(p)
    BY <1>a, <1>c, <1>8 DEF PutDirty, Goes, Waits, Returns, Got, Reg, Idle, Arrives, Steady
  <1>9. CASE PutUnlinked(p)
    BY <1>a, <1>c, <1>9 DEF PutUnlinked, Goes, Waits, Returns, Got, Reg, Idle, Arrives, Steady
  <1>10. CASE PutTruncated(p)
    BY <1>a, <1>c, <1>10 DEF PutTruncated, Goes, Waits, Returns, Got, Reg, Idle, Arrives, Steady
  <1>11. CASE Iupdat(p)
    BY <1>a, <1>c, <1>11 DEF Iupdat, Goes, Waits, Returns, Got, Reg, Idle, Arrives, Steady
  <1>12. CASE PutWritten(p)
    <2> DEFINE r == [u[p] EXCEPT !.ip = NoSlot]
    <2>1. r \in Reg /\ r.call = u[p].call /\ r.ret = u[p].ret BY <1>a DEF Reg
    <2>2. Resume(p, r) /\ u[p].ret \notin Steady
      BY <1>a, <1>12 DEF PutWritten, Forget, At, RegOK, RetOK, Putting, Steady
    <2> QED BY <1>b, <2>1, <2>2 DEF Arrives
  <1>13. CASE SearchUnlink(p)
    <2> DEFINE o == First(Holding(u[p].name))
               i == dir[o].ino
    <2>1. i \in Ino BY <1>13, EntryFirst DEF IInv, SearchUnlink
    <2> DEFINE r == [u[p] EXCEPT !.name = NoName, !.off = o, !.ino = i, !.ret = "unlinked", !.pc = "iget"]
    <2>2. u' = [u EXCEPT ![p] = r] BY <1>a, <1>13 DEF SearchUnlink, Goes, Reg
    <2> HIDE DEF o, i
    <2> QED BY <1>a, <2>1, <2>2 DEF Reg, Arrives
  <1>14. CASE SearchFound(p)
    <2> DEFINE o == First(Holding(u[p].name))
               i == dir[o].ino
    <2>1. i \in Ino BY <1>14, EntryFirst DEF IInv, SearchFound
    <2> DEFINE c == CASE u[p].call = "link" -> "linked" [] u[p].call = "link2" -> "exists" [] OTHER -> "opened"
    <2> DEFINE r == [u[p] EXCEPT !.dp = NoSlot, !.name = NoName, !.ino = i, !.ret = c, !.pc = "iget"]
    <2>2. u' = [u EXCEPT ![p] = r] BY <1>a, <1>14 DEF SearchFound, Goes, Reg
    <2> HIDE DEF o, i, c
    <2> QED BY <1>a, <2>1, <2>2 DEF Reg, Arrives
  <1>15. CASE SearchVacant(p)
    <2>1. CASE u[p].call = "creat"
      <3>1. u' = [u EXCEPT ![p] = [u[p] EXCEPT !.off = First(Vacant), !.pc = "ialloc"]]
        BY <1>a, <1>15, <2>1 DEF SearchVacant, Goes, Waits, Returns, Reg
      <3> QED BY <1>a, <3>1 DEF Reg, Idle, Arrives, Steady
    <2>2. CASE u[p].call # "creat"
      <3>1. u' = [u EXCEPT ![p] = [u[p] EXCEPT !.off = First(Vacant), !.ino = num[u[p].lp], !.pc = "lkwrite"]]
        BY <1>a, <1>15, <2>2 DEF SearchVacant, Goes, Waits, Returns, Reg
      <3> QED BY <1>a, <3>1 DEF Reg, Idle, Arrives, Steady
    <2> QED BY <2>1, <2>2
  <1>16. CASE SearchFails(p)
    <2>1. CASE u[p].call = "link2"
      <3>1. u' = [u EXCEPT ![p] = [u[p] EXCEPT !.dp = NoSlot, !.name = NoName, !.pc = "lkput"]]
        BY <1>a, <1>16, <2>1 DEF SearchFails, Goes, Waits, Returns, Reg
      <3> QED BY <1>a, <3>1 DEF Reg, Idle, Arrives, Steady
    <2>2. CASE u[p].call # "link2"
      <3>1. u' = [u EXCEPT ![p] = Idle]
        BY <1>a, <1>16, <2>2 DEF SearchFails, Goes, Waits, Returns, Reg
      <3> QED BY <1>a, <3>1 DEF Reg, Idle, Arrives, Steady
    <2> QED BY <2>1, <2>2
  <1>17. CASE OpenNothing(p)
    BY <1>a, <1>c, <1>17 DEF OpenNothing, Goes, Waits, Returns, Got, Reg, Idle, Arrives, Steady
  <1>18. CASE OpenRefused(p)
    BY <1>a, <1>c, <1>18 DEF OpenRefused, Goes, Waits, Returns, Got, Reg, Idle, Arrives, Steady
  <1>19. CASE OpenTruncates(p)
    BY <1>a, <1>c, <1>19 DEF OpenTruncates, Goes, Waits, Returns, Got, Reg, Idle, Arrives, Steady
  <1>20. CASE OpenDone(p)
    <2>1. CASE fd[p] = NoSlot
      <3>1. u' = [u EXCEPT ![p] = Idle]
        BY <1>a, <1>20, <2>1 DEF OpenDone, Goes, Waits, Returns, Reg
      <3> QED BY <1>a, <3>1 DEF Reg, Idle, Arrives, Steady
    <2>2. CASE fd[p] # NoSlot
      <3>1. u' = [u EXCEPT ![p] = [u[p] EXCEPT !.pc = "put"]]
        BY <1>a, <1>20, <2>2 DEF OpenDone, Goes, Waits, Returns, Reg
      <3> QED BY <1>a, <3>1 DEF Reg, Idle, Arrives, Steady
    <2> QED BY <2>1, <2>2
  <1>21. CASE UnlinkPanics(p)
    BY <1>a, <1>c, <1>21 DEF UnlinkPanics, Goes, Waits, Returns, Got, Reg, Idle, Arrives, Steady
  <1>22. CASE UnlinkWrites(p)
    BY <1>a, <1>c, <1>22 DEF UnlinkWrites, Goes, Waits, Returns, Got, Reg, Idle, Arrives, Steady
  <1>23. CASE Unlink(p)
    BY <1>a, <1>c, <1>23 DEF Unlink, Goes, Waits, Returns, Got, Reg, Idle, Arrives, Steady
  <1>24. CASE IallocWaits(p) BY <1>a, <1>24 DEF IallocWaits, Sleeps, At, Arrives, Steady
  <1>25. CASE IallocEnters(p)
    BY <1>a, <1>c, <1>25 DEF IallocEnters, Goes, Waits, Returns, Got, Reg, Idle, Arrives, Steady
  <1>26. CASE IallocPops(p)
    <2> DEFINE i == spare[Len(spare)]
    <2>1. i \in Ino BY <1>26 DEF IallocPops
    <2> DEFINE r == [u[p] EXCEPT !.ino = i, !.ret = "allocd", !.pc = "iget"]
    <2>2. u' = [u EXCEPT ![p] = r] BY <1>a, <1>26 DEF IallocPops, Goes, Reg
    <2> HIDE DEF i
    <2> QED BY <1>a, <2>1, <2>2 DEF Reg, Arrives
  <1>27. CASE IallocScans(p)
    BY <1>a, <1>c, <1>27 DEF IallocScans, Goes, Waits, Returns, Got, Reg, Idle, Arrives, Steady
  <1>28. CASE Scan(p)
    <2>1. CASE ~(LastBlock(u[p].k) \/ Len(Refill(u[p].k)) >= NICINOD)
      <3>1. u' = [u EXCEPT ![p] = [u[p] EXCEPT !.k = u[p].k + 1, !.pc = "scan"]]
        BY <1>a, <1>28, <2>1 DEF Scan, Goes, Waits, Returns, Reg
      <3> QED BY <1>a, <3>1 DEF Reg, Idle, Arrives, Steady
    <2>2. CASE (LastBlock(u[p].k) \/ Len(Refill(u[p].k)) >= NICINOD) /\ Refill(u[p].k) # <<>>
      <3>1. u' = [u EXCEPT ![p] = [u[p] EXCEPT !.k = 0, !.pc = "iloop"]]
        BY <1>a, <1>28, <2>2 DEF Scan, Goes, Waits, Returns, Reg
      <3> QED BY <1>a, <3>1 DEF Reg, Idle, Arrives, Steady
    <2>3. CASE (LastBlock(u[p].k) \/ Len(Refill(u[p].k)) >= NICINOD) /\ Refill(u[p].k) = <<>>
      <3>1. u' = [u EXCEPT ![p] = Idle]
        BY <1>a, <1>28, <2>3 DEF Scan, Goes, Waits, Returns, Reg
      <3> QED BY <1>a, <3>1 DEF Reg, Idle, Arrives, Steady
    <2> QED BY <2>1, <2>2, <2>3
  <1>29. CASE AllocNothing(p)
    BY <1>a, <1>c, <1>29 DEF AllocNothing, Goes, Waits, Returns, Got, Reg, Idle, Arrives, Steady
  <1>30. CASE AllocUsed(p)
    BY <1>a, <1>c, <1>30 DEF AllocUsed, Goes, Waits, Returns, Got, Reg, Idle, Arrives, Steady
  <1>31. CASE Maknode(p)
    BY <1>a, <1>c, <1>31 DEF Maknode, Goes, Waits, Returns, Got, Reg, Idle, Arrives, Steady
  <1>32. CASE WdirNew(p)
    BY <1>a, <1>c, <1>32 DEF WdirNew, Goes, Waits, Returns, Got, Reg, Idle, Arrives, Steady
  <1>33. CASE LinkNothing(p)
    BY <1>a, <1>c, <1>33 DEF LinkNothing, Goes, Waits, Returns, Got, Reg, Idle, Arrives, Steady
  <1>34. CASE LinkTooMany(p)
    BY <1>a, <1>c, <1>34 DEF LinkTooMany, Goes, Waits, Returns, Got, Reg, Idle, Arrives, Steady
  <1>35. CASE LinkSecond(p)
    BY <1>a, <1>c, <1>35 DEF LinkSecond, Goes, Waits, Returns, Got, Reg, Idle, Arrives, Steady
  <1>36. CASE LinkExists(p)
    <2>1. CASE u[p].ip = NoSlot
      <3>1. u' = [u EXCEPT ![p] = [u[p] EXCEPT !.pc = "lkput"]]
        BY <1>a, <1>36, <2>1 DEF LinkExists, Goes, Waits, Returns, Reg
      <3> QED BY <1>a, <3>1 DEF Reg, Idle, Arrives, Steady
    <2>2. CASE u[p].ip # NoSlot
      <3>1. u' = [u EXCEPT ![p] = [u[p] EXCEPT !.ret = "lkput", !.pc = "put"]]
        BY <1>a, <1>36, <2>2 DEF LinkExists, Goes, Waits, Returns, Reg
      <3> QED BY <1>a, <3>1 DEF Reg, Idle, Arrives, Steady
    <2> QED BY <2>1, <2>2
  <1>37. CASE WdirLink(p)
    BY <1>a, <1>c, <1>37 DEF WdirLink, Goes, Waits, Returns, Got, Reg, Idle, Arrives, Steady
  <1>38. CASE LinkPut(p)
    BY <1>a, <1>c, <1>38 DEF LinkPut, Goes, Waits, Returns, Got, Reg, Idle, Arrives, Steady
  <1>39. CASE SyncSkip(p) BY <1>a, <1>39 DEF SyncSkip, At, RegOK, CallOK
  <1>40. CASE SyncInode(p) BY <1>a, <1>40 DEF SyncInode, At, RegOK, CallOK
  <1>41. CASE SyncWritten(p) BY <1>a, <1>41 DEF SyncWritten, At, RegOK, CallOK
  <1>42. CASE SyncDone(p) BY <1>a, <1>42 DEF SyncDone, At, RegOK, CallOK
  <1>43. CASE StartPath(p)
    <2>1. PICK c \in Calls \cap {"open", "creat", "unlink", "link"}, n \in Name, m \in Name :
             Goes(p, "iget", [Idle EXCEPT !.call = c, !.name = n, !.name2 = IF c = "link" THEN m ELSE NoName,
                                          !.ino = ROOTINO, !.ret = "search"])
      BY <1>43, Zenon DEF StartPath
    <2> DEFINE k == IF c = "link" THEN m ELSE NoName
               r == [Idle EXCEPT !.call = c, !.name = n, !.name2 = k, !.ino = ROOTINO, !.ret = "search", !.pc = "iget"]
    <2>2. u' = [u EXCEPT ![p] = r] BY <2>1 DEF Goes, Idle
    <2> HIDE DEF k
    <2> QED BY <1>a, <2>2 DEF Idle, Arrives
  <1>44. CASE StartSync(p) BY <1>44 DEF StartSync
  <1>45. CASE ReadWrite(p)
    BY <1>a, <1>c, <1>45 DEF ReadWrite, Goes, Waits, Returns, Got, Reg, Idle, Arrives, Steady
  <1>46. CASE Close(p)
    BY <1>a, <1>c, <1>46 DEF Close, Goes, Waits, Returns, Got, Reg, Idle, Arrives, Steady
  <1> QED BY <1>1, <1>2, <1>3, <1>4, <1>5, <1>6, <1>7, <1>8, <1>9, <1>10, <1>11, <1>12, <1>13,
       <1>14, <1>15, <1>16, <1>17, <1>18, <1>19, <1>20, <1>21, <1>22, <1>23, <1>24, <1>25,
       <1>26, <1>27, <1>28, <1>29, <1>30, <1>31, <1>32, <1>33, <1>34, <1>35, <1>36, <1>37,
       <1>38, <1>39, <1>40, <1>41, <1>42, <1>43, <1>44, <1>45, <1>46
       DEF Start, Step, Iget, Iput, Namei, Open, UnlinkStep, Ialloc, Link, Sync

(* What a step leaves alone: a locked inode nobody but another process     *)
(* refers to; an inode nobody refers to, unless it is got; and the mark    *)
(* that an inode was modified, until it leaves the table.                  *)
Spared(p) ==
    /\ \A s \in Files \ {u[p].ip, u[p].lp, fd[p]} : "LOCK" \in flag[s] /\ count[s] = 1 =>
          count'[s] = 1 /\ num'[s] = num[s] /\ "LOCK" \in flag'[s]
    /\ \A s \in Slot : count'[s] > 0 => count[s] > 0 \/ IgetFound(p) \/ IgetRead(p)
    /\ \A s \in Slot : "UPD" \in flag[s] => "UPD" \in flag'[s] \/ num'[s] = 0

(* Every step leaves those alone, case by case. *)
LEMMA Sparing ==
    ASSUME IInv, "sync" \notin Calls, NEW p \in Proc, Start(p) \/ Step(p), u[p].call # "sync"
    PROVE  Spared(p)
  <1>a. /\ u \in [Proc -> Reg] /\ u[p] \in Reg /\ RegOK(u[p]) /\ Root \in Slot /\ NoSlot \notin Slot
        /\ flag \in [Slot -> SUBSET Flag] /\ count \in [Slot -> Nat] /\ num \in [Slot -> Ino \cup {0}]
    BY SlotsInHand DEF IInv, Numbers
  <1>1. CASE IgetLocked(p)
    <2>0. PICK s : s = First(InCore(u[p].ino)) OBVIOUS
    <2>1. /\ flag' = [flag EXCEPT ![s] = @ \cup {"WANT"}]
          /\ count' = count
          /\ num' = num BY <2>0, <1>1 DEF IgetLocked, Prele, PutDir, table
    <2>3. \A r \in Slot : r # s => flag'[r] = flag[r] /\ count'[r] = count[r] /\ num'[r] = num[r]
      BY <1>a, <2>1
    <2>4. \A r \in Slot : flag[r] \subseteq flag'[r] BY <1>a, <2>1
    <2> QED BY <1>a, <2>1, <2>4 DEF Spared, Files
  <1>2. CASE IgetFound(p)
    <2>0. PICK s : s = First(InCore(u[p].ino)) OBVIOUS
    <2>1. /\ flag' = [flag EXCEPT ![s] = @ \cup {"LOCK"}]
          /\ count' = [count EXCEPT ![s] = @ + 1]
          /\ num' = num
          /\ "LOCK" \notin flag[s] BY <2>0, <1>2 DEF IgetFound, Prele, PutDir, table
    <2>3. \A r \in Slot : r # s => flag'[r] = flag[r] /\ count'[r] = count[r] /\ num'[r] = num[r]
      BY <1>a, <2>1
    <2>4. \A r \in Slot : flag[r] \subseteq flag'[r] BY <1>a, <2>1
    <2> QED BY <1>a, <1>2, <2>1, <2>3, <2>4 DEF Spared, Files
  <1>3. CASE IgetRead(p)
    <2>0. PICK s : s = First(FreeSlots) OBVIOUS
    <2>1. /\ flag' = [flag EXCEPT ![s] = {"LOCK"}]
          /\ count' = [count EXCEPT ![s] = @ + 1]
          /\ num' = [num EXCEPT ![s] = u[p].ino] BY <2>0, <1>3 DEF IgetRead
    <2>2. s \in Slot /\ count[s] = 0 /\ flag[s] = {}
      BY <2>0, <1>3, FreeFirst DEF IgetRead, IInv, Rest, Free, Files
    <2>3. \A r \in Slot : r # s => flag'[r] = flag[r] /\ count'[r] = count[r] /\ num'[r] = num[r]
      BY <1>a, <2>1
    <2> QED BY <1>a, <1>3, <2>2, <2>3 DEF Spared, Files
  <1>4. CASE IgetFull(p)
    <2>1. flag' = flag /\ count' = count /\ num' = num BY <1>4 DEF IgetFull, table
    <2> QED BY <1>a, <2>1 DEF Spared, Files
  <1>5. CASE Iread(p)
    <2>1. flag' = flag /\ count' = count /\ num' = num BY <1>5 DEF Iread, table
    <2> QED BY <1>a, <2>1 DEF Spared, Files
  <1>6. CASE PutShared(p)
    <2>0. PICK s : s = u[p].ip OBVIOUS
    <2>1. /\ flag' = [flag EXCEPT ![s] = flag[s] \ {"LOCK", "WANT"}]
          /\ count' = [count EXCEPT ![s] = @ - 1]
          /\ num' = num BY <2>0, <1>6 DEF PutShared, Prele, PutDir, table
    <2>3. \A r \in Slot : r # s => flag'[r] = flag[r] /\ count'[r] = count[r] /\ num'[r] = num[r]
      BY <1>a, <2>1
    <2>4. \A r \in Slot : /\ "UPD" \in flag[r] => "UPD" \in flag'[r] \/ num'[r] = 0
                          /\ count'[r] > 0 => count[r] > 0 BY <1>a, <2>1
    <2> QED BY <1>a, <2>0, <2>3, <2>4 DEF Spared, Files
  <1>7. CASE PutClean(p)
    <2>0. PICK s : s = u[p].ip OBVIOUS
    <2>1. /\ flag' = [flag EXCEPT ![s] = {}]
          /\ count' = [count EXCEPT ![s] = @ - 1]
          /\ num' = [num EXCEPT ![s] = 0]
      BY <2>0, <1>7 DEF PutClean, Forget, Prele, PutDir, table
    <2>3. \A r \in Slot : r # s => flag'[r] = flag[r] /\ count'[r] = count[r] /\ num'[r] = num[r]
      BY <1>a, <2>1
    <2>4. \A r \in Slot : /\ "UPD" \in flag[r] => "UPD" \in flag'[r] \/ num'[r] = 0
                          /\ count'[r] > 0 => count[r] > 0 BY <1>a, <2>1
    <2> QED BY <1>a, <2>0, <2>3, <2>4 DEF Spared, Files
  <1>8. CASE PutDirty(p)
    <2>0. PICK s : s = u[p].ip OBVIOUS
    <2>1. /\ flag' = [flag EXCEPT ![s] = @ \cup {"LOCK"}]
          /\ count' = count
          /\ num' = num BY <2>0, <1>8 DEF PutDirty, Prele, PutDir, table
    <2>3. \A r \in Slot : r # s => flag'[r] = flag[r] /\ count'[r] = count[r] /\ num'[r] = num[r]
      BY <1>a, <2>1
    <2>4. \A r \in Slot : /\ "UPD" \in flag[r] => "UPD" \in flag'[r] \/ num'[r] = 0
                          /\ count'[r] > 0 => count[r] > 0 BY <1>a, <2>1
    <2> QED BY <1>a, <2>0, <2>3, <2>4 DEF Spared, Files
  <1>9. CASE PutUnlinked(p)
    <2>0. PICK s : s = u[p].ip OBVIOUS
    <2>1. /\ flag' = [flag EXCEPT ![s] = @ \cup {"LOCK"}]
          /\ count' = count
          /\ num' = num BY <2>0, <1>9 DEF PutUnlinked, Prele, PutDir, table
    <2>3. \A r \in Slot : r # s => flag'[r] = flag[r] /\ count'[r] = count[r] /\ num'[r] = num[r]
      BY <1>a, <2>1
    <2>4. \A r \in Slot : /\ "UPD" \in flag[r] => "UPD" \in flag'[r] \/ num'[r] = 0
                          /\ count'[r] > 0 => count[r] > 0 BY <1>a, <2>1
    <2> QED BY <1>a, <2>0, <2>3, <2>4 DEF Spared, Files
  <1>10. CASE PutTruncated(p)
    <2>0. PICK s : s = u[p].ip OBVIOUS
    <2>1. /\ flag' = [flag EXCEPT ![s] = @ \cup {"UPD"}]
          /\ count' = count
          /\ num' = num BY <2>0, <1>10 DEF PutTruncated, Prele, PutDir, table
    <2>3. \A r \in Slot : r # s => flag'[r] = flag[r] /\ count'[r] = count[r] /\ num'[r] = num[r]
      BY <1>a, <2>1
    <2>4. \A r \in Slot : /\ "UPD" \in flag[r] => "UPD" \in flag'[r] \/ num'[r] = 0
                          /\ count'[r] > 0 => count[r] > 0 BY <1>a, <2>1
    <2> QED BY <1>a, <2>0, <2>3, <2>4 DEF Spared, Files
  <1>11. CASE Iupdat(p)
    <2>1. flag' = flag /\ count' = count /\ num' = num BY <1>11 DEF Iupdat, table
    <2> QED BY <1>a, <2>1 DEF Spared, Files
  <1>12. CASE PutWritten(p)
    <2>0. PICK s : s = u[p].ip OBVIOUS
    <2>1. /\ flag' = [flag EXCEPT ![s] = {}]
          /\ count' = [count EXCEPT ![s] = @ - 1]
          /\ num' = [num EXCEPT ![s] = 0]
      BY <2>0, <1>12 DEF PutWritten, Forget, Prele, PutDir, table
    <2>3. \A r \in Slot : r # s => flag'[r] = flag[r] /\ count'[r] = count[r] /\ num'[r] = num[r]
      BY <1>a, <2>1
    <2>4. \A r \in Slot : /\ "UPD" \in flag[r] => "UPD" \in flag'[r] \/ num'[r] = 0
                          /\ count'[r] > 0 => count[r] > 0 BY <1>a, <2>1
    <2> QED BY <1>a, <2>0, <2>3, <2>4 DEF Spared, Files
  <1>13. CASE SearchUnlink(p)
    <2>0. PICK s : s = Root OBVIOUS
    <2>1. /\ flag' = [flag EXCEPT ![s] = flag[s] \ {"LOCK", "WANT"}]
          /\ count' = count
          /\ num' = num BY <2>0, <1>13 DEF SearchUnlink, Prele, PutDir, table
    <2>3. \A r \in Slot : r # s => flag'[r] = flag[r] /\ count'[r] = count[r] /\ num'[r] = num[r]
      BY <1>a, <2>1
    <2>4. \A r \in Slot : /\ "UPD" \in flag[r] => "UPD" \in flag'[r] \/ num'[r] = 0
                          /\ count'[r] > 0 => count[r] > 0 BY <1>a, <2>1
    <2> QED BY <1>a, <2>0, <2>3, <2>4 DEF Spared, Files
  <1>14. CASE SearchFound(p)
    <2>0. PICK s : s = Root OBVIOUS
    <2>1. /\ flag' = [flag EXCEPT ![s] = flag[s] \ {"LOCK", "WANT"}]
          /\ count' = [count EXCEPT ![s] = @ - 1]
          /\ num' = num BY <2>0, <1>14 DEF SearchFound, Prele, PutDir, table
    <2>3. \A r \in Slot : r # s => flag'[r] = flag[r] /\ count'[r] = count[r] /\ num'[r] = num[r]
      BY <1>a, <2>1
    <2>4. \A r \in Slot : /\ "UPD" \in flag[r] => "UPD" \in flag'[r] \/ num'[r] = 0
                          /\ count'[r] > 0 => count[r] > 0 BY <1>a, <2>1
    <2> QED BY <1>a, <2>0, <2>3, <2>4 DEF Spared, Files
  <1>15. CASE SearchVacant(p)
    <2>1. flag' = flag /\ count' = count /\ num' = num BY <1>15 DEF SearchVacant, table
    <2> QED BY <1>a, <2>1 DEF Spared, Files
  <1>16. CASE SearchFails(p)
    <2>0. PICK s : s = Root OBVIOUS
    <2>1. /\ flag' = [flag EXCEPT ![s] = flag[s] \ {"LOCK", "WANT"}]
          /\ count' = [count EXCEPT ![s] = @ - 1]
          /\ num' = num BY <2>0, <1>16 DEF SearchFails, Prele, PutDir, table
    <2>3. \A r \in Slot : r # s => flag'[r] = flag[r] /\ count'[r] = count[r] /\ num'[r] = num[r]
      BY <1>a, <2>1
    <2>4. \A r \in Slot : /\ "UPD" \in flag[r] => "UPD" \in flag'[r] \/ num'[r] = 0
                          /\ count'[r] > 0 => count[r] > 0 BY <1>a, <2>1
    <2> QED BY <1>a, <2>0, <2>3, <2>4 DEF Spared, Files
  <1>17. CASE OpenNothing(p)
    <2>1. flag' = flag /\ count' = count /\ num' = num BY <1>17 DEF OpenNothing, table
    <2> QED BY <1>a, <2>1 DEF Spared, Files
  <1>18. CASE OpenRefused(p)
    <2>1. flag' = flag /\ count' = count /\ num' = num BY <1>18 DEF OpenRefused, table
    <2> QED BY <1>a, <2>1 DEF Spared, Files
  <1>19. CASE OpenTruncates(p)
    <2>1. flag' = flag /\ count' = count /\ num' = num BY <1>19 DEF OpenTruncates, table
    <2> QED BY <1>a, <2>1 DEF Spared, Files
  <1>20. CASE OpenDone(p)
    <2>1. \/ flag' = [flag EXCEPT ![u[p].ip] = flag[u[p].ip] \ {"LOCK", "WANT"}]
          \/ flag' = [flag EXCEPT ![u[p].ip] = (flag[u[p].ip] \cup {"UPD"}) \ {"LOCK", "WANT"}]
      BY <1>20 DEF OpenDone, Prele
    <2>2. count' = count /\ num' = num BY <1>20 DEF OpenDone
    <2>3. \A s \in Slot : "UPD" \in flag[s] => "UPD" \in flag'[s] BY <1>a, <2>1
    <2>4. \A s \in Slot \ {u[p].ip} : flag'[s] = flag[s] BY <1>a, <2>1
    <2> QED BY <1>a, <2>2, <2>3, <2>4 DEF Spared, Files
  <1>21. CASE UnlinkPanics(p)
    <2>1. flag' = flag /\ count' = count /\ num' = num BY <1>21 DEF UnlinkPanics, table
    <2> QED BY <1>a, <2>1 DEF Spared, Files
  <1>22. CASE UnlinkWrites(p)
    <2>1. flag' = flag /\ count' = count /\ num' = num BY <1>22 DEF UnlinkWrites, table
    <2> QED BY <1>a, <2>1 DEF Spared, Files
  <1>23. CASE Unlink(p)
    <2>1. flag' = [flag EXCEPT ![u[p].ip] = @ \cup {"UPD"}, ![Root] = (flag[Root] \cup {"UPD"}) \ {"LOCK", "WANT"}]
      BY <1>23 DEF Unlink
    <2>2. count' = [count EXCEPT ![Root] = @ - 1] /\ num' = num BY <1>23 DEF Unlink
    <2>3. \A s \in Slot : "UPD" \in flag[s] => "UPD" \in flag'[s] BY <1>a, <2>1
    <2>4. \A s \in Slot \ {u[p].ip, Root} : flag'[s] = flag[s] /\ count'[s] = count[s]
      BY <1>a, <2>1, <2>2
    <2>5. \A s \in Slot : count'[s] > 0 => count[s] > 0 BY <1>a, <2>2
    <2> QED BY <1>a, <2>2, <2>3, <2>4, <2>5 DEF Spared, Files
  <1>24. CASE IallocWaits(p)
    <2>1. flag' = flag /\ count' = count /\ num' = num BY <1>24 DEF IallocWaits, table
    <2> QED BY <1>a, <2>1 DEF Spared, Files
  <1>25. CASE IallocEnters(p)
    <2>1. flag' = flag /\ count' = count /\ num' = num BY <1>25 DEF IallocEnters, table
    <2> QED BY <1>a, <2>1 DEF Spared, Files
  <1>26. CASE IallocPops(p)
    <2>1. flag' = flag /\ count' = count /\ num' = num BY <1>26 DEF IallocPops, table
    <2> QED BY <1>a, <2>1 DEF Spared, Files
  <1>27. CASE IallocScans(p)
    <2>1. flag' = flag /\ count' = count /\ num' = num BY <1>27 DEF IallocScans, table
    <2> QED BY <1>a, <2>1 DEF Spared, Files
  <1>28. CASE Scan(p)
    <2>1. flag' = flag /\ count' = count /\ num' = num BY <1>28 DEF Scan, table
    <2> QED BY <1>a, <2>1 DEF Spared, Files
  <1>29. CASE AllocNothing(p)
    <2>1. flag' = flag /\ count' = count /\ num' = num BY <1>29 DEF AllocNothing, table
    <2> QED BY <1>a, <2>1 DEF Spared, Files
  <1>30. CASE AllocUsed(p)
    <2>1. flag' = flag /\ count' = count /\ num' = num BY <1>30 DEF AllocUsed, table
    <2> QED BY <1>a, <2>1 DEF Spared, Files
  <1>31. CASE Maknode(p)
    <2>0. PICK s : s = u[p].ip OBVIOUS
    <2>1. /\ flag' = [flag EXCEPT ![s] = @ \cup {"UPD"}]
          /\ count' = count
          /\ num' = num BY <2>0, <1>31 DEF Maknode, Prele, PutDir, table
    <2>3. \A r \in Slot : r # s => flag'[r] = flag[r] /\ count'[r] = count[r] /\ num'[r] = num[r]
      BY <1>a, <2>1
    <2>4. \A r \in Slot : /\ "UPD" \in flag[r] => "UPD" \in flag'[r] \/ num'[r] = 0
                          /\ count'[r] > 0 => count[r] > 0 BY <1>a, <2>1
    <2> QED BY <1>a, <2>0, <2>3, <2>4 DEF Spared, Files
  <1>32. CASE WdirNew(p)
    <2>0. PICK s : s = Root OBVIOUS
    <2>1. /\ flag' = [flag EXCEPT ![s] = (flag[s] \cup {"UPD"}) \ {"LOCK", "WANT"}]
          /\ count' = [count EXCEPT ![s] = @ - 1]
          /\ num' = num BY <2>0, <1>32 DEF WdirNew, Prele, PutDir, table
    <2>3. \A r \in Slot : r # s => flag'[r] = flag[r] /\ count'[r] = count[r] /\ num'[r] = num[r]
      BY <1>a, <2>1
    <2>4. \A r \in Slot : /\ "UPD" \in flag[r] => "UPD" \in flag'[r] \/ num'[r] = 0
                          /\ count'[r] > 0 => count[r] > 0 BY <1>a, <2>1
    <2> QED BY <1>a, <2>0, <2>3, <2>4 DEF Spared, Files
  <1>33. CASE LinkNothing(p)
    <2>1. flag' = flag /\ count' = count /\ num' = num BY <1>33 DEF LinkNothing, table
    <2> QED BY <1>a, <2>1 DEF Spared, Files
  <1>34. CASE LinkTooMany(p)
    <2>1. flag' = flag /\ count' = count /\ num' = num BY <1>34 DEF LinkTooMany, table
    <2> QED BY <1>a, <2>1 DEF Spared, Files
  <1>35. CASE LinkSecond(p)
    <2>0. PICK s : s = u[p].ip OBVIOUS
    <2>1. /\ flag' = [flag EXCEPT ![s] = @ \ {"LOCK"}]
          /\ count' = count
          /\ num' = num BY <2>0, <1>35 DEF LinkSecond, Prele, PutDir, table
    <2>3. \A r \in Slot : r # s => flag'[r] = flag[r] /\ count'[r] = count[r] /\ num'[r] = num[r]
      BY <1>a, <2>1
    <2>4. \A r \in Slot : /\ "UPD" \in flag[r] => "UPD" \in flag'[r] \/ num'[r] = 0
                          /\ count'[r] > 0 => count[r] > 0 BY <1>a, <2>1
    <2> QED BY <1>a, <2>0, <2>3, <2>4 DEF Spared, Files
  <1>36. CASE LinkExists(p)
    <2>1. flag' = flag /\ count' = count /\ num' = num BY <1>36 DEF LinkExists, table
    <2> QED BY <1>a, <2>1 DEF Spared, Files
  <1>37. CASE WdirLink(p)
    <2>1. flag' = [flag EXCEPT ![u[p].lp] = @ \cup {"UPD"}, ![Root] = (flag[Root] \cup {"UPD"}) \ {"LOCK", "WANT"}]
      BY <1>37 DEF WdirLink
    <2>2. count' = [count EXCEPT ![Root] = @ - 1] /\ num' = num BY <1>37 DEF WdirLink
    <2>3. \A s \in Slot : "UPD" \in flag[s] => "UPD" \in flag'[s] BY <1>a, <2>1
    <2>4. \A s \in Slot \ {u[p].lp, Root} : flag'[s] = flag[s] /\ count'[s] = count[s]
      BY <1>a, <2>1, <2>2
    <2>5. \A s \in Slot : count'[s] > 0 => count[s] > 0 BY <1>a, <2>2
    <2> QED BY <1>a, <2>2, <2>3, <2>4, <2>5 DEF Spared, Files
  <1>38. CASE LinkPut(p)
    <2>1. flag' = flag /\ count' = count /\ num' = num BY <1>38 DEF LinkPut, table
    <2> QED BY <1>a, <2>1 DEF Spared, Files
  <1>39. CASE SyncSkip(p) BY <1>a, <1>39 DEF SyncSkip, At, RegOK, CallOK
  <1>40. CASE SyncInode(p) BY <1>a, <1>40 DEF SyncInode, At, RegOK, CallOK
  <1>41. CASE SyncWritten(p) BY <1>a, <1>41 DEF SyncWritten, At, RegOK, CallOK
  <1>42. CASE SyncDone(p) BY <1>a, <1>42 DEF SyncDone, At, RegOK, CallOK
  <1>43. CASE StartPath(p)
    <2>1. flag' = flag /\ count' = count /\ num' = num BY <1>43 DEF StartPath, table
    <2> QED BY <1>a, <2>1 DEF Spared, Files
  <1>44. CASE StartSync(p) BY <1>44 DEF StartSync
  <1>45. CASE ReadWrite(p)
    <2>0. PICK s : s = fd[p] OBVIOUS
    <2>1. /\ flag' = [flag EXCEPT ![s] = @ \cup {"UPD"}]
          /\ count' = count
          /\ num' = num BY <2>0, <1>45 DEF ReadWrite, Prele, PutDir, table
    <2>3. \A r \in Slot : r # s => flag'[r] = flag[r] /\ count'[r] = count[r] /\ num'[r] = num[r]
      BY <1>a, <2>1
    <2>4. \A r \in Slot : /\ "UPD" \in flag[r] => "UPD" \in flag'[r] \/ num'[r] = 0
                          /\ count'[r] > 0 => count[r] > 0 BY <1>a, <2>1
    <2> QED BY <1>a, <2>0, <2>3, <2>4 DEF Spared, Files
  <1>46. CASE Close(p)
    <2>1. flag' = flag /\ count' = count /\ num' = num BY <1>46 DEF Close, table
    <2> QED BY <1>a, <2>1 DEF Spared, Files
  <1> QED BY <1>1, <1>2, <1>3, <1>4, <1>5, <1>6, <1>7, <1>8, <1>9, <1>10, <1>11, <1>12, <1>13,
       <1>14, <1>15, <1>16, <1>17, <1>18, <1>19, <1>20, <1>21, <1>22, <1>23, <1>24, <1>25,
       <1>26, <1>27, <1>28, <1>29, <1>30, <1>31, <1>32, <1>33, <1>34, <1>35, <1>36, <1>37,
       <1>38, <1>39, <1>40, <1>41, <1>42, <1>43, <1>44, <1>45, <1>46
       DEF Start, Step, Iget, Iput, Namei, Open, UnlinkStep, Ialloc, Link, Sync

(* An inode being read or given up is in one process's hands alone, and    *)
(* locked; what is searched for has a number.                              *)
Secure(q) ==
    /\ u[q].call # "sync"
    /\ u[q].pc \in {"iread", "itrunc", "ibread", "ibwrite"} =>
          u[q].ip \in Files /\ count[u[q].ip] = 1 /\ "LOCK" \in flag[u[q].ip]
    /\ u[q].pc \in {"ibread", "ibwrite"} => "UPD" \in flag[u[q].ip]
    /\ u[q].pc \in {"iread", "ibread", "ibwrite"} => u[q].ino = num[u[q].ip]
    /\ u[q].pc = "iget" => u[q].ino # 0
Alone == /\ \A q \in Proc : Secure(q)
         /\ spare \in Seq(Ino)
         /\ Named /\ Coherent

(* Another process's inode being read or given up is not touched: only     *)
(* that process refers to it, and it is locked.                            *)
LEMMA SecureStays ==
    ASSUME IInv, Alone, "sync" \notin Calls, NEW p \in Proc, Start(p) \/ Step(p), NEW q \in Proc \ {p}
    PROVE  Secure(q)'
  <1>1. Secure(q) /\ u'[q] = u[q] /\ u \in [Proc -> Reg] /\ u[q] \in Reg /\ NoSlot \notin Slot
    BY Runs, SlotsInHand DEF Alone, Leaves
  <1>2. CASE u[q].pc \notin {"iread", "itrunc", "ibread", "ibwrite"}
    BY <1>1, <1>2 DEF Secure
  <1>3. CASE u[q].pc \in {"iread", "itrunc", "ibread", "ibwrite"}
    <2>0. PICK s : s = u[q].ip OBVIOUS
    <2>1. s \in Files /\ count[s] = 1 /\ "LOCK" \in flag[s] BY <1>1, <1>3, <2>0 DEF Secure
    <2>2. s \notin {u[p].ip, u[p].lp, fd[p]}
      <3>1. Refers(q, "ip") = s /\ s \in Slot /\ count \in [Slot -> Nat] /\ lost \in Nat /\ RefCount
        BY <2>0, <2>1 DEF Refers, Files, IInv, Counts, Rest
      <3>2. \A r \in Reference : Refers(p, r) # s
        <4> SUFFICES ASSUME NEW r \in Reference, Refers(p, r) = s PROVE FALSE OBVIOUS
        <4>1. <<p, r>> # <<q, "ip">> /\ "ip" \in Reference BY DEF Reference
        <4>2. count[s] >= 2 BY <3>1, <4>1, CountedOnce
        <4> QED BY <2>1, <4>2
      <3> QED BY <3>2, ReferencesAre
    <2>3. Spared(p) BY Sparing DEF Alone, Secure
    <2>4. count'[s] = 1 /\ num'[s] = num[s] /\ "LOCK" \in flag'[s]
      BY <2>1, <2>2, <2>3 DEF Spared
    <2>5. u[q].pc \in {"ibread", "ibwrite"} => "UPD" \in flag'[s]
      <3>1. num[s] # 0 BY <2>1 DEF Alone, Named, Files
      <3> QED BY <1>1, <2>0, <2>1, <2>3, <2>4, <3>1 DEF Spared, Secure, Files
    <2> QED BY <1>1, <1>3, <2>0, <2>1, <2>4, <2>5 DEF Secure
  <1> QED BY <1>2, <1>3

(* A process that comes to read an inode or to give one up has it alone,   *)
(* and locked.                                                             *)
LEMMA SecureStep ==
    ASSUME IInv, Alone, "sync" \notin Calls, NEW p \in Proc, Start(p) \/ Step(p)
    PROVE  Secure(p)'
  <1>a. /\ u \in [Proc -> Reg] /\ u[p] \in Reg /\ RegOK(u[p]) /\ NoSlot \notin Slot /\ Secure(p)
        /\ flag \in [Slot -> SUBSET Flag] /\ count \in [Slot -> Nat] /\ num \in [Slot -> Ino \cup {0}]
        /\ 0 \notin Ino BY SlotsInHand, SizeAssumption DEF Alone, IInv, Numbers, Ino
  <1>b. u'[p].call # "sync" /\ Arrives(p) BY <1>a, Places DEF Alone, Secure
  <1>1. CASE u'[p].pc \notin Steady BY <1>b, <1>1 DEF Secure, Steady
  <1>2. CASE u' = u /\ IgetLocked(p) BY <1>a, <1>2 DEF Secure, IgetLocked, At
  <1>3. CASE u'[p].pc = "iget" /\ u'[p].ino \in Ino BY <1>a, <1>b, <1>3 DEF Secure
  <1>4. CASE IgetRead(p) /\ u'[p].pc = "iread" /\ u'[p].ino = u[p].ino
    <2>0. PICK s : s = First(FreeSlots) OBVIOUS
    <2>1. s \in Files /\ count[s] = 0 BY <2>0, <1>4, FreeFirst DEF IgetRead, IInv, Rest
    <2>2. u'[p].ip = s BY <2>0, <1>4, HandsIget DEF Hands
    <2>3. /\ flag' = [flag EXCEPT ![s] = {"LOCK"}]
          /\ count' = [count EXCEPT ![s] = @ + 1]
          /\ num' = [num EXCEPT ![s] = u[p].ino] BY <2>0, <1>4 DEF IgetRead
    <2>4. count'[s] = 1 /\ "LOCK" \in flag'[s] /\ num'[s] = u[p].ino
      BY <1>a, <2>1, <2>3 DEF Files
    <2> QED BY <1>b, <1>4, <2>1, <2>2, <2>4 DEF Secure
  <1>5. CASE PutUnlinked(p) /\ u'[p].pc = "itrunc"
    <2>0. PICK s : s = u[p].ip OBVIOUS
    <2>1. u'[p].ip = s BY <2>0, <1>5, HandsIput DEF Hands
    <2>2. s \in Files BY <2>0, <1>a, <1>5 DEF PutUnlinked, At, RegOK, IpOK, Putting, Secure
    <2>3. count[s] = 1 /\ count' = count /\ flag' = [flag EXCEPT ![s] = @ \cup {"LOCK"}]
      BY <2>0, <1>5 DEF PutUnlinked
    <2>4. count'[s] = 1 /\ "LOCK" \in flag'[s] BY <1>a, <2>2, <2>3 DEF Files
    <2> QED BY <1>b, <1>5, <2>1, <2>2, <2>4 DEF Secure
  <1>6. CASE PutDirty(p) /\ u'[p].pc = "ibread" /\ u'[p].ino = num[u[p].ip]
    <2>0. PICK s : s = u[p].ip OBVIOUS
    <2>1. u'[p].ip = s BY <2>0, <1>6, HandsIput DEF Hands
    <2>2. s \in Files BY <2>0, <1>a, <1>6 DEF PutDirty, At, RegOK, IpOK, Putting, Secure
    <2>3. count[s] = 1 /\ "UPD" \in flag[s] /\ count' = count /\ num' = num /\ flag' = [flag EXCEPT ![s] = @ \cup {"LOCK"}]
      BY <2>0, <1>6 DEF PutDirty
    <2>4. count'[s] = 1 /\ "LOCK" \in flag'[s] /\ "UPD" \in flag'[s]
      BY <1>a, <2>2, <2>3 DEF Files
    <2> QED BY <2>0, <1>b, <1>6, <2>1, <2>2, <2>3, <2>4 DEF Secure
  <1>7. CASE PutTruncated(p) /\ u'[p].pc = "ibread" /\ u'[p].ino = num[u[p].ip]
    <2>0. PICK s : s = u[p].ip OBVIOUS
    <2>1. u'[p].ip = s BY <2>0, <1>7, HandsIput DEF Hands
    <2>2. s \in Files /\ count[s] = 1 /\ "LOCK" \in flag[s]
      BY <2>0, <1>a, <1>7 DEF PutTruncated, At, Secure
    <2>3. count' = count /\ num' = num /\ flag' = [flag EXCEPT ![s] = @ \cup {"UPD"}]
      BY <2>0, <1>7 DEF PutTruncated
    <2>4. count'[s] = 1 /\ "LOCK" \in flag'[s] /\ "UPD" \in flag'[s]
      BY <1>a, <2>2, <2>3 DEF Files
    <2> QED BY <2>0, <1>b, <1>7, <2>1, <2>2, <2>3, <2>4 DEF Secure
  <1>8. CASE Iupdat(p) /\ u'[p].pc = "ibwrite" /\ u'[p].ino = u[p].ino
    <2>1. u'[p].ip = u[p].ip BY <1>8, HandsIput DEF Hands
    <2>2. flag' = flag /\ count' = count /\ num' = num /\ u[p].pc = "ibread"
      BY <1>8 DEF Iupdat, table, At
    <2> QED BY <1>a, <1>b, <1>8, <2>1, <2>2 DEF Secure
  <1> QED BY <1>b, <1>1, <1>2, <1>3, <1>4, <1>5, <1>6, <1>7, <1>8 DEF Arrives

(* No step puts number 0 on the spare list. *)
LEMMA SpareStays ==
    ASSUME IInv, Alone, "sync" \notin Calls, NEW p \in Proc, Start(p) \/ Step(p)
    PROVE  spare' \in Seq(Ino)
  <1>1. spare \in Seq(Ino) /\ Secure(p) /\ num \in [Slot -> Ino \cup {0}]
    BY DEF Alone, IInv, Numbers
  <1>2. CASE PutTruncated(p)
    <2>1. u[p].ip \in Slot /\ count[u[p].ip] = 1
      BY <1>1, <1>2 DEF PutTruncated, At, Secure, Files
    <2>2. num[u[p].ip] \in Ino BY <1>1, <2>1 DEF Alone, Named
    <2>3. spare' = spare \/ spare' = Append(spare, num[u[p].ip])
      BY <1>2 DEF PutTruncated, Ifree
    <2> QED BY <1>1, <2>2, <2>3
  <1>3. CASE IallocPops(p)
    <2>1. spare' = SubSeq(spare, 1, Len(spare) - 1) BY <1>3 DEF IallocPops
    <2>2. Len(spare) \in Nat /\ \A j \in 1 .. Len(spare) : spare[j] \in Ino BY <1>1
    <2> QED BY <1>1, <2>1, <2>2
  <1>4. CASE Scan(p)
    <2>1. Refill(u[p].k) \in Seq(Ino) BY <1>1, RefillTyped DEF IInv
    <2>2. spare' = Refill(u[p].k) BY <1>4 DEF Scan
    <2> QED BY <2>1, <2>2
  <1> QED BY <1>1, <1>2, <1>3, <1>4, Frames

(* No step takes the number of an inode somebody refers to. *)
LEMMA NamedStep ==
    ASSUME IInv, Alone, "sync" \notin Calls, NEW p \in Proc, Start(p) \/ Step(p)
    PROVE  Named'
  <1>1. SUFFICES ASSUME NEW s \in Slot, count'[s] > 0 PROVE num'[s] # 0 BY DEF Named
  <1>2. Spared(p) /\ Secure(p) /\ Named /\ NoSlot \notin Slot /\ RegOK(u[p])
        /\ count \in [Slot -> Nat] /\ num \in [Slot -> Ino \cup {0}]
    BY Sparing, SlotsInHand DEF Alone, Secure, IInv, Numbers
  <1>3. CASE IgetFound(p)
    <2>0. PICK t : t = First(InCore(u[p].ino)) OBVIOUS
    <2>1. num[t] = u[p].ino /\ u[p].ino # 0 /\ num' = num /\ count' = [count EXCEPT ![t] = @ + 1]
      BY <2>0, <1>2, <1>3, InCoreFirst DEF IgetFound, IInv, At, Secure
    <2> QED BY <1>1, <1>2, <2>1 DEF Named
  <1>4. CASE IgetRead(p)
    <2>0. PICK t : t = First(FreeSlots) OBVIOUS
    <2>1. /\ num' = [num EXCEPT ![t] = u[p].ino] /\ u[p].ino # 0
          /\ count' = [count EXCEPT ![t] = @ + 1]
      BY <2>0, <1>2, <1>4 DEF IgetRead, At, Secure
    <2> QED BY <1>1, <1>2, <2>1 DEF Named
  <1>5. CASE PutClean(p) \/ PutWritten(p)
    <2>0. PICK t : t = u[p].ip OBVIOUS
    <2>1. t \in Slot /\ count[t] = 1
      BY <2>0, <1>2, <1>5 DEF PutClean, PutWritten, At, Secure, RegOK, IpOK, Putting, Files
    <2>2. num' = [num EXCEPT ![t] = 0] /\ count' = [count EXCEPT ![t] = @ - 1]
      BY <2>0, <1>5 DEF PutClean, PutWritten, Forget
    <2> QED BY <1>1, <1>2, <2>1, <2>2 DEF Named
  <1>6. CASE ~IgetFound(p) /\ ~IgetRead(p) /\ ~PutClean(p) /\ ~PutWritten(p)
    <2>1. num' = num BY <1>6, Frames
    <2> QED BY <1>1, <1>2, <1>6, <2>1 DEF Spared, Named
  <1> QED BY <1>3, <1>4, <1>5, <1>6

(* At "iread" there is one thing to do. *)
LEMMA Reads ==
    ASSUME NEW p \in Proc, Start(p) \/ Step(p), u[p].pc = "iread" PROVE Iread(p)
  <1>1. CASE IgetLocked(p) BY <1>1, Zenon DEF IgetLocked, At
  <1>2. CASE IgetFound(p) BY <1>2, Zenon DEF IgetFound, At
  <1>3. CASE IgetRead(p) BY <1>3, Zenon DEF IgetRead, At
  <1>4. CASE IgetFull(p) BY <1>4, Zenon DEF IgetFull, At
  <1>5. CASE Iread(p) BY <1>5, Zenon DEF Iread, At
  <1>6. CASE PutShared(p) BY <1>6, Zenon DEF PutShared, At
  <1>7. CASE PutClean(p) BY <1>7, Zenon DEF PutClean, At
  <1>8. CASE PutDirty(p) BY <1>8, Zenon DEF PutDirty, At
  <1>9. CASE PutUnlinked(p) BY <1>9, Zenon DEF PutUnlinked, At
  <1>10. CASE PutTruncated(p) BY <1>10, Zenon DEF PutTruncated, At
  <1>11. CASE Iupdat(p) BY <1>11, Zenon DEF Iupdat, At
  <1>12. CASE PutWritten(p) BY <1>12, Zenon DEF PutWritten, At
  <1>13. CASE SearchUnlink(p) BY <1>13, Zenon DEF SearchUnlink, At
  <1>14. CASE SearchFound(p) BY <1>14, Zenon DEF SearchFound, At
  <1>15. CASE SearchVacant(p) BY <1>15, Zenon DEF SearchVacant, At
  <1>16. CASE SearchFails(p) BY <1>16, Zenon DEF SearchFails, At
  <1>17. CASE OpenNothing(p) BY <1>17, Zenon DEF OpenNothing, At
  <1>18. CASE OpenRefused(p) BY <1>18, Zenon DEF OpenRefused, At
  <1>19. CASE OpenTruncates(p) BY <1>19, Zenon DEF OpenTruncates, At
  <1>20. CASE OpenDone(p) BY <1>20, Zenon DEF OpenDone, At
  <1>21. CASE UnlinkPanics(p) BY <1>21, Zenon DEF UnlinkPanics, At
  <1>22. CASE UnlinkWrites(p) BY <1>22, Zenon DEF UnlinkWrites, At
  <1>23. CASE Unlink(p) BY <1>23, Zenon DEF Unlink, At
  <1>24. CASE IallocWaits(p) BY <1>24, Zenon DEF IallocWaits, At
  <1>25. CASE IallocEnters(p) BY <1>25, Zenon DEF IallocEnters, At
  <1>26. CASE IallocPops(p) BY <1>26, Zenon DEF IallocPops, At
  <1>27. CASE IallocScans(p) BY <1>27, Zenon DEF IallocScans, At
  <1>28. CASE Scan(p) BY <1>28, Zenon DEF Scan, At
  <1>29. CASE AllocNothing(p) BY <1>29, Zenon DEF AllocNothing, At
  <1>30. CASE AllocUsed(p) BY <1>30, Zenon DEF AllocUsed, At
  <1>31. CASE Maknode(p) BY <1>31, Zenon DEF Maknode, At
  <1>32. CASE WdirNew(p) BY <1>32, Zenon DEF WdirNew, At
  <1>33. CASE LinkNothing(p) BY <1>33, Zenon DEF LinkNothing, At
  <1>34. CASE LinkTooMany(p) BY <1>34, Zenon DEF LinkTooMany, At
  <1>35. CASE LinkSecond(p) BY <1>35, Zenon DEF LinkSecond, At
  <1>36. CASE LinkExists(p) BY <1>36, Zenon DEF LinkExists, At
  <1>37. CASE WdirLink(p) BY <1>37, Zenon DEF WdirLink, At
  <1>38. CASE LinkPut(p) BY <1>38, Zenon DEF LinkPut, At
  <1>39. CASE SyncSkip(p) BY <1>39, Zenon DEF SyncSkip, At
  <1>40. CASE SyncInode(p) BY <1>40, Zenon DEF SyncInode, At
  <1>41. CASE SyncWritten(p) BY <1>41, Zenon DEF SyncWritten, At
  <1>42. CASE SyncDone(p) BY <1>42, Zenon DEF SyncDone, At
  <1>43. CASE StartPath(p) BY <1>43, Zenon DEF StartPath, At
  <1>44. CASE StartSync(p) BY <1>44, Zenon DEF StartSync, At
  <1>45. CASE ReadWrite(p) BY <1>45, Zenon DEF ReadWrite, At
  <1>46. CASE Close(p) BY <1>46, Zenon DEF Close, At
  <1> QED BY <1>1, <1>2, <1>3, <1>4, <1>5, <1>6, <1>7, <1>8, <1>9, <1>10, <1>11, <1>12, <1>13,
       <1>14, <1>15, <1>16, <1>17, <1>18, <1>19, <1>20, <1>21, <1>22, <1>23, <1>24, <1>25,
       <1>26, <1>27, <1>28, <1>29, <1>30, <1>31, <1>32, <1>33, <1>34, <1>35, <1>36, <1>37,
       <1>38, <1>39, <1>40, <1>41, <1>42, <1>43, <1>44, <1>45, <1>46
       DEF Start, Step, Iget, Iput, Namei, Open, UnlinkStep, Ialloc, Link, Sync

(* No step makes an unmarked inode differ from the disk's. *)
LEMMA CoherentStep ==
    ASSUME IInv, Alone, "sync" \notin Calls, NEW p \in Proc, Start(p) \/ Step(p)
    PROVE  Coherent'
  <1>1. SUFFICES ASSUME NEW s \in Slot, num'[s] \in Ino, Loaded(s)', "UPD" \notin flag'[s]
                 PROVE  node'[s] = dnode'[num'[s]] BY DEF Coherent
  <1>2. /\ Spared(p) /\ Secure(p) /\ Coherent /\ NoSlot \notin Slot /\ RegOK(u[p]) /\ Leaves(p)
        /\ u \in [Proc -> Reg] /\ flag \in [Slot -> SUBSET Flag] /\ num \in [Slot -> Ino \cup {0}]
        /\ node \in [Slot -> Node] /\ dnode \in [Ino -> Node] /\ NoAlias /\ 0 \notin Ino
    BY Sparing, SlotsInHand, Runs, SizeAssumption DEF Alone, Secure, IInv, Numbers, Disk, Ino
  <1>3. num'[s] = num[s]
    <2>1. CASE IgetRead(p)
      <3>0. PICK t : t = First(FreeSlots) OBVIOUS
      <3>1. u'[p].ip = t BY <3>0, <2>1, HandsIget DEF Hands
      <3>2. u'[p].pc = "iread" BY <1>2, <2>1 DEF IgetRead, Waits, Got, Reg
      <3>3. t # s BY <1>1, <3>1, <3>2 DEF Loaded
      <3>4. num' = [num EXCEPT ![t] = u[p].ino] BY <3>0, <2>1 DEF IgetRead
      <3> QED BY <1>2, <3>3, <3>4
    <2>2. CASE PutClean(p) \/ PutWritten(p)
      <3>1. num' = [num EXCEPT ![u[p].ip] = 0] BY <2>2 DEF PutClean, PutWritten, Forget
      <3> QED BY <1>1, <1>2, <3>1
    <2> QED BY <2>1, <2>2, Frames
  <1>4. "UPD" \notin flag[s] BY <1>1, <1>2 DEF Spared
  <1>5. CASE ~Loaded(s)
    <2>1. PICK q \in Proc : u[q].pc = "iread" /\ u[q].ip = s BY <1>5 DEF Loaded
    <2>2. q = p BY <1>1, <1>2, <2>1 DEF Loaded, Leaves
    <2>3. Iread(p) BY <2>1, <2>2, Reads
    <2>4. node' = [node EXCEPT ![s] = dnode[u[p].ino]] /\ dnode' = dnode
      BY <2>1, <2>2, <2>3 DEF Iread
    <2>5. u[p].ino = num[s] BY <1>2, <2>1, <2>2 DEF Secure
    <2> QED BY <1>2, <1>3, <2>4, <2>5
  <1>6. CASE Loaded(s)
    <2>1. node[s] = dnode[num[s]] BY <1>1, <1>2, <1>3, <1>4, <1>6 DEF Coherent
    <2>2. node'[s] = node[s]
      <3>1. CASE Iread(p)
        <4>1. u[p].ip # s /\ node' = [node EXCEPT ![u[p].ip] = dnode[u[p].ino]]
          BY <1>6, <3>1 DEF Loaded, Iread, At
        <4> QED BY <1>2, <4>1
      <3>2. CASE PutTruncated(p) \/ Maknode(p)
        <4>0. PICK t : t = u[p].ip OBVIOUS
        <4>1. flag' = [flag EXCEPT ![t] = @ \cup {"UPD"}]
          BY <4>0, <3>2 DEF PutTruncated, Maknode
        <4>2. \A r \in Slot : r # t => node'[r] = node[r]
          BY <4>0, <1>2, <3>2 DEF PutTruncated, Maknode
        <4> QED BY <1>1, <1>2, <4>1, <4>2
      <3>3. CASE Unlink(p)
        <4>0. PICK t : t = u[p].ip OBVIOUS
        <4>1. flag' = [flag EXCEPT ![t] = @ \cup {"UPD"}, ![Root] = (flag[Root] \cup {"UPD"}) \ {"LOCK", "WANT"}]
          BY <4>0, <3>3 DEF Unlink
        <4>2. \A r \in Slot : r # t => node'[r] = node[r] BY <4>0, <1>2, <3>3 DEF Unlink
        <4> QED BY <1>1, <1>2, <4>1, <4>2
      <3>4. CASE WdirLink(p)
        <4>0. PICK t : t = u[p].lp OBVIOUS
        <4>1. flag' = [flag EXCEPT ![t] = @ \cup {"UPD"}, ![Root] = (flag[Root] \cup {"UPD"}) \ {"LOCK", "WANT"}]
          BY <4>0, <3>4 DEF WdirLink
        <4>2. \A r \in Slot : r # t => node'[r] = node[r] BY <4>0, <1>2, <3>4 DEF WdirLink
        <4> QED BY <1>1, <1>2, <4>1, <4>2
      <3> QED BY <3>1, <3>2, <3>3, <3>4, Frames
    <2>3. dnode'[num[s]] = dnode[num[s]]
      <3>1. CASE Iupdat(p)
        <4>0. PICK t : t = u[p].ip OBVIOUS
        <4>1. /\ t \in Slot /\ "UPD" \in flag[t] /\ u[p].ino = num[t]
              /\ dnode' = IF u[p].ino \in Ino THEN [dnode EXCEPT ![u[p].ino] = node[t]] ELSE dnode
          BY <4>0, <1>2, <3>1 DEF Iupdat, At, Secure, Files
        <4>2. t # s BY <1>4, <4>1
        <4>3. num[t] # num[s] BY <1>1, <1>2, <1>3, <4>1, <4>2 DEF NoAlias
        <4> QED BY <1>1, <1>2, <1>3, <4>1, <4>3
      <3> QED BY <3>1, Frames
    <2> QED BY <1>3, <2>1, <2>2, <2>3
  <1> QED BY <1>5, <1>6

(* All this holds in every reachable state, if sync is never called. *)
LEMMA AloneInv ==
    ASSUME "sync" \notin Calls PROVE Spec => []Alone
  <1>1. Init => Alone
    <2> SUFFICES ASSUME Init PROVE Alone OBVIOUS
    <2>1. Root \in Slot /\ ROOTINO \in Ino /\ ROOTINO # 0 /\ 0 \notin Ino
      BY SizeAssumption DEF Root, Slot, ROOTINO, Ino
    <2>2. \A q \in Proc : Secure(q) BY DEF Init, Secure, Idle
    <2>3. spare \in Seq(Ino)
      <3>1. spare \in Seq(Ino \ {ROOTINO}) BY SparesAssumption DEF Init
      <3> QED BY <3>1
    <2>4. Named BY <2>1 DEF Init, Named
    <2>5. Coherent
      <3>1. SUFFICES ASSUME NEW s \in Slot, num[s] \in Ino PROVE node[s] = dnode[num[s]]
        BY DEF Coherent
      <3>2. s = Root /\ num[s] = ROOTINO BY <2>1, <3>1 DEF Init
      <3>3. node[Root] = [used |-> TRUE, nlink |-> 1] BY <2>1 DEF Init
      <3>4. dnode[ROOTINO] = [used |-> TRUE, nlink |-> 1] BY <2>1 DEF Init
      <3> QED BY <3>2, <3>3, <3>4
    <2> QED BY <2>2, <2>3, <2>4, <2>5 DEF Alone
  <1>2. IInv /\ Alone /\ [Next]_vars => Alone'
    <2> SUFFICES ASSUME IInv, Alone, [Next]_vars PROVE Alone' OBVIOUS
    <2>1. CASE UNCHANGED vars
      BY <2>1 DEF Alone, Secure, Named, Coherent, Loaded, vars, table, super, hist
    <2>2. ASSUME NEW p \in Proc, Start(p) \/ Step(p) PROVE Alone'
      <3>1. \A q \in Proc : Secure(q)' BY <2>2, SecureStep, SecureStays
      <3> QED BY <2>2, <3>1, SpareStays, NamedStep, CoherentStep DEF Alone
    <2> QED BY <2>1, <2>2 DEF Next
  <1> QED BY <1>1, <1>2, TableInvariant, PTL DEF Spec

(* Without sync, whose update takes an inode without a reference to it, an *)
(* inode somebody refers to keeps its number ...                           *)
THEOREM NumbersKept ==
    ASSUME "sync" \notin Calls PROVE Spec => []Named
  <1>1. Alone => Named BY DEF Alone
  <1> QED BY <1>1, AloneInv, PTL

(* ... and one that is not marked modified is what the disk has.           *)
THEOREM MarkedOrSaved ==
    ASSUME "sync" \notin Calls PROVE Spec => []Coherent
  <1>1. Alone => Coherent BY DEF Alone
  <1> QED BY <1>1, AloneInv, PTL

===============================================================================
