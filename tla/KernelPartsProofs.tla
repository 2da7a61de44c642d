-------------------------- MODULE KernelPartsProofs --------------------------
(***************************************************************************)
(* That parts of the kernel keep what they promise, of whatever size: that *)
(* the counts of file structures and inodes are exact, a signal sent is    *)
(* not lost, what psinfo reports was true at one instant, no modifier key  *)
(* sticks, no callout is late, nobody oversleeps, no line typed is slept   *)
(* through, no unit of a resource map is given twice, no block of a disk.  *)
(***************************************************************************)
EXTENDS KernelParts, FiniteSetTheorems, FunctionTheorems, SequenceTheorems,
        WellFoundedInduction, TLAPS

(* FileTable counts with the same operators.                               *)
LEMMA SameSets ==
    \A S : Files!Cardinality(S) = Cardinality(S) /\ Files!IsFiniteSet(S) = IsFiniteSet(S)
  BY DEF Files!Cardinality, Cardinality, Files!IsFiniteSet, IsFiniteSet

(* A set of numbers has a least one. *)
LEMMA SomeLeast ==
    ASSUME NEW S, S \subseteq Nat, S # {} PROVE \E x \in S : \A y \in S : x <= y
  <1> DEFINE R == OpToRel(<, Nat)
  <1>1. IsWellFoundedOn(R, Nat) BY NatLessThanWellFounded
  <1>2. R = {ss \in Nat \X Nat : ss[1] < ss[2]} BY DEF OpToRel
  <1> HIDE DEF R
  <1>3. PICK x \in S : \A y \in S : ~ (<<y, x>> \in R) BY <1>1, WFMin
  <1>4. \A y \in S : x <= y
    <2> SUFFICES ASSUME NEW y \in S, ~ (x <= y) PROVE FALSE OBVIOUS
    <2>1. y < x /\ y \in Nat /\ x \in Nat OBVIOUS
    <2>2. <<y, x>> \in R BY <1>2, <2>1
    <2> QED BY <1>3, <2>2
  <1> QED BY <1>4

(* The least element of a set of numbers is in it. *)
LEMMA LeastIs ==
    ASSUME NEW S, S \subseteq Nat, S # {} PROVE Files!Least(S) \in S
  <1>1. PICK x \in S : \A y \in S : x <= y BY ONLY S \subseteq Nat, S # {}, SomeLeast
  <1> QED BY <1>1 DEF Files!Least

One(b) == IF b THEN 1 ELSE 0

(* Two finite sets that agree but for one element. *)
LEMMA Recount ==
    ASSUME NEW S, NEW T, NEW x, IsFiniteSet(S), S \ {x} = T \ {x}
    PROVE  /\ IsFiniteSet(T)
           /\ Cardinality(T) = Cardinality(S) - One(x \in S) + One(x \in T)
           /\ Cardinality(S) \in Nat /\ Cardinality(T) \in Nat
  <1> DEFINE M == S \ {x}
  <1>1. IsFiniteSet(M) /\ Cardinality(M) = Cardinality(S) - One(x \in S) /\ Cardinality(S) \in Nat /\ x \notin M
    BY FS_RemoveElement, FS_CardinalityType DEF One
  <1>2. (x \in T => T = M \cup {x}) /\ (x \notin T => T = M) OBVIOUS
  <1> HIDE DEF M
  <1>3. IsFiniteSet(M \cup {x}) /\ Cardinality(M \cup {x}) = Cardinality(M) + 1 /\ Cardinality(M) \in Nat
    BY <1>1, FS_AddElement, FS_CardinalityType
  <1>4. IsFiniteSet(T) /\ Cardinality(T) = Cardinality(M) + One(x \in T)
    <2>1. CASE x \in T
      <3>1. T = M \cup {x} BY <1>2, <2>1
      <3> QED BY <1>3, <2>1, <3>1 DEF One
    <2>2. CASE x \notin T
      <3>1. T = M BY <1>2, <2>2
      <3> QED BY <1>1, <1>3, <2>2, <3>1 DEF One
    <2> QED BY <2>1, <2>2
  <1>5. Cardinality(T) \in Nat BY <1>4, FS_CardinalityType
  <1> QED BY <1>1, <1>4, <1>5

(* Some element makes at least one. *)
LEMMA Inhabited ==
    ASSUME NEW S, IsFiniteSet(S), NEW x \in S
    PROVE  Cardinality(S) \in Nat /\ Cardinality(S) >= 1 BY FS_EmptySet, FS_CardinalityType

----
FileInodes == INode \cup {Files!Pipe, Files!Dir}
Ds == 0..NOFILE - 1
Doings ==
    {Files!Idle, [step |-> "exit", inode |-> Files!Dir]}
    \cup [step : {"open"}, inode : INode] \cup [step : {"chdir"}, inode : INode \cup {Files!Dir}]
    \cup [step : {"closing", "exiting"}, inode : FileInodes, slot : Files!Slots] \cup [step : {"transfer"}, inode : {Files!Dir}, slot : Files!Slots]
Structures == [count : Nat, flag : SUBSET {"read", "write"}, inode : FileInodes, offset : Files!Words \X Files!Words]
FileTypes ==
    /\ ofile \in [Process -> [Ds -> 0..NFILE]]
    /\ file \in [Files!Slots -> Structures]
    /\ icount \in [FileInodes -> Nat]
    /\ open \in SUBSET Device
    /\ cdir \in [Process -> INode \cup {Files!Dir}]
    /\ at \in [Process -> Doings]
    /\ alive \in SUBSET Process
    /\ meant \in [Files!Slots -> 0..HALF * HALF - 1]
    /\ made \in Nat
(* A slot of the process table not in use holds nothing, and a last close  *)
(* under way is the only reference to its structure.                       *)
DeadClear == \A p \in Process \ alive : at[p] = Files!Idle /\ \A d \in Ds : ofile[p][d] = 0
LastAlone == \A s \in Files!Slots : \A p \in Files!Lasts(s) : file[s].count = 1 /\ file[s].inode = at[p].inode
FilesCounted  == \A s \in Files!Slots : file[s].count = Files!Users(s)
InodesCounted == \A i \in FileInodes : icount[i] = Files!References(i)
DriversTold   == \A s \in Files!Slots : file[s].count > 0 /\ file[s].inode \in Device => file[s].inode \in open \/ Files!Lasts(s) # {}
OffsetsMeant  == \A s \in Files!Slots : file[s].count > 0 => Files!Value(file[s].offset) = meant[s]
FileInv ==
    /\ FileTypes /\ DeadClear /\ LastAlone
    /\ FilesCounted /\ InodesCounted /\ DriversTold /\ OffsetsMeant

(* The invariant counts what the property counts. *)
LEMMA FileInvCounts == FileInv => Files!Counted
  BY DEF FileInv, Files!Counted, FilesCounted, InodesCounted, DriversTold, OffsetsMeant, FileInodes

(* What a process has noted where it is. *)
LEMMA Noted ==
    ASSUME FileTypes, NEW p \in Process
    PROVE  /\ at[p] \in Doings
           /\ at[p].step = "user" => at[p] = Files!Idle
           /\ at[p].step \in {"open", "chdir"} => at[p].inode \in INode \cup {Files!Dir}
           /\ at[p].step = "open" => at[p].inode \in INode
           /\ at[p].step \in {"closing", "exiting", "transfer"} => at[p].slot \in Files!Slots /\ at[p].inode \in FileInodes
           /\ at[p].step \in {"user", "open", "chdir", "exit", "closing", "exiting", "transfer"}
  BY DEF FileTypes, Doings, Files!Idle, FileInodes, Files!Dir, Files!Pipe

(* The sets are finite. *)
LEMMA CountsFinite ==
    ASSUME Files!FileAssumption, FileTypes
    PROVE  /\ \A s : IsFiniteSet(Files!Holds(s)) /\ Cardinality(Files!Holds(s)) \in Nat
           /\ \A s : IsFiniteSet(Files!Lasts(s)) /\ Cardinality(Files!Lasts(s)) \in Nat
           /\ \A i : IsFiniteSet(Files!Opens(i)) /\ Cardinality(Files!Opens(i)) \in Nat
           /\ \A i : IsFiniteSet(Files!Searches(i)) /\ Cardinality(Files!Searches(i)) \in Nat
           /\ \A i : IsFiniteSet(Files!Homes(i)) /\ Cardinality(Files!Homes(i)) \in Nat
           /\ IsFiniteSet(Ds)
  <1>1. IsFiniteSet(Process) /\ NFILE \in Nat /\ NOFILE \in Nat BY SameSets DEF Files!FileAssumption
  <1>2. IsFiniteSet(Ds) /\ IsFiniteSet(Files!Slots) BY <1>1, FS_Interval DEF Files!Slots, Ds
  <1>3. IsFiniteSet(Process \X Ds) BY <1>1, <1>2, FS_Product
  <1>4. \A s : Files!Holds(s) \subseteq Process \X Ds /\ Files!Lasts(s) \subseteq Process
    BY DEF Files!Holds, Files!Lasts, Ds
  <1>5. \A i : Files!Opens(i) \subseteq Files!Slots /\ Files!Searches(i) \subseteq Process /\ Files!Homes(i) \subseteq Process
    BY DEF Files!Opens, Files!Searches, Files!Homes, FileTypes
  <1> QED BY <1>1, <1>2, <1>3, <1>4, <1>5, FS_Subset, FS_CardinalityType

(* One descriptor changes. *)
LEMMA HoldsMoved ==
    ASSUME Files!FileAssumption, FileTypes, NEW p \in Process, NEW d \in Ds, NEW s,
           \A q \in Process, e \in Ds : q # p \/ e # d => ofile'[q][e] = ofile[q][e]
    PROVE  Cardinality(Files!Holds(s)') = Cardinality(Files!Holds(s)) - (IF ofile[p][d] = s THEN 1 ELSE 0) + (IF ofile'[p][d] = s THEN 1 ELSE 0)
  <1> DEFINE S == Files!Holds(s)
             T == Files!Holds(s)'
             x == <<p, d>>
  <1>1. T = {h \in Process \X Ds : ofile'[h[1]][h[2]] = s} /\ S = {h \in Process \X Ds : ofile[h[1]][h[2]] = s}
    BY DEF Files!Holds, Ds
  <1>2. \A h \in Process \X Ds : h # x => ofile'[h[1]][h[2]] = ofile[h[1]][h[2]] OBVIOUS
  <1>3. (x \in S <=> ofile[p][d] = s) /\ (x \in T <=> ofile'[p][d] = s) BY <1>1
  <1>4. IsFiniteSet(S) BY CountsFinite
  <1> HIDE DEF S, T, x
  <1>5. S \ {x} = T \ {x} BY <1>1, <1>2
  <1>6. IsFiniteSet(T) /\ Cardinality(T) = Cardinality(S) - One(x \in S) + One(x \in T)
    BY <1>4, <1>5, Recount
  <1>7. One(x \in S) = (IF ofile[p][d] = s THEN 1 ELSE 0) /\ One(x \in T) = IF ofile'[p][d] = s THEN 1 ELSE 0
    BY <1>3 DEF One
  <1> QED BY <1>6, <1>7 DEF S, T

(* One process goes elsewhere. *)
LEMMA AtMoved ==
    ASSUME Files!FileAssumption, FileTypes, NEW p \in Process, NEW r, at' = [at EXCEPT ![p] = r]
    PROVE  /\ \A s : /\ Cardinality(Files!Lasts(s)') = Cardinality(Files!Lasts(s)) - One(Files!Letting(at[p], s)) + One(Files!Letting(r, s))
                     /\ Files!Lasts(s)' \ {p} = Files!Lasts(s) \ {p} /\ (p \in Files!Lasts(s)' <=> Files!Letting(r, s))
           /\ \A i : Cardinality(Files!Searches(i)') = Cardinality(Files!Searches(i)) - One(Files!Searching(at[p], i)) + One(Files!Searching(r, i))
  <1>0. at \in [Process -> Doings] /\ at'[p] = r /\ \A q \in Process : q # p => at'[q] = at[q]
    BY DEF FileTypes
  <1>1. ASSUME NEW s
        PROVE  /\ Cardinality(Files!Lasts(s)') = Cardinality(Files!Lasts(s)) - One(Files!Letting(at[p], s)) + One(Files!Letting(r, s))
               /\ Files!Lasts(s)' \ {p} = Files!Lasts(s) \ {p} /\ (p \in Files!Lasts(s)' <=> Files!Letting(r, s))
    <2> DEFINE S == Files!Lasts(s)
               T == Files!Lasts(s)'
    <2>1. T = {q \in Process : Files!Letting(at'[q], s)} BY DEF Files!Lasts, Files!Letting
    <2>2. S \ {p} = T \ {p} /\ (p \in S <=> Files!Letting(at[p], s)) /\ (p \in T <=> Files!Letting(r, s))
      BY <1>0, <2>1 DEF Files!Lasts
    <2>3. IsFiniteSet(S) BY CountsFinite
    <2> HIDE DEF S, T
    <2>4. Cardinality(T) = Cardinality(S) - One(p \in S) + One(p \in T) BY <2>2, <2>3, Recount
    <2>5. One(p \in S) = One(Files!Letting(at[p], s)) /\ One(p \in T) = One(Files!Letting(r, s))
      BY <2>2 DEF One
    <2> QED BY <2>2, <2>4, <2>5 DEF S, T
  <1>2. ASSUME NEW i
        PROVE  Cardinality(Files!Searches(i)') = Cardinality(Files!Searches(i)) - One(Files!Searching(at[p], i)) + One(Files!Searching(r, i))
    <2> DEFINE S == Files!Searches(i)
               T == Files!Searches(i)'
    <2>1. T = {q \in Process : Files!Searching(at'[q], i)} BY DEF Files!Searches, Files!Searching
    <2>2. S \ {p} = T \ {p} /\ (p \in S <=> Files!Searching(at[p], i)) /\ (p \in T <=> Files!Searching(r, i))
      BY <1>0, <2>1 DEF Files!Searches
    <2>3. IsFiniteSet(S) BY CountsFinite
    <2> HIDE DEF S, T
    <2>4. Cardinality(T) = Cardinality(S) - One(p \in S) + One(p \in T) BY <2>2, <2>3, Recount
    <2>5. One(p \in S) = One(Files!Searching(at[p], i)) /\ One(p \in T) = One(Files!Searching(r, i))
      BY <2>2 DEF One
    <2> QED BY <2>4, <2>5 DEF S, T
  <1> QED BY <1>1, <1>2

(* One structure changes. *)
LEMMA OpensMoved ==
    ASSUME Files!FileAssumption, FileTypes, NEW s \in Files!Slots, \A t \in Files!Slots : t # s => file'[t] = file[t], NEW i
    PROVE  Cardinality(Files!Opens(i)') = Cardinality(Files!Opens(i)) - (IF file[s].count > 0 /\ file[s].inode = i THEN 1 ELSE 0)
                                    + (IF file'[s].count > 0 /\ file'[s].inode = i THEN 1 ELSE 0)
  <1> DEFINE S == Files!Opens(i)
             T == Files!Opens(i)'
  <1>1. T = {t \in Files!Slots : file'[t].count > 0 /\ file'[t].inode = i} BY DEF Files!Opens, Files!Slots
  <1>2. /\ S \ {s} = T \ {s} /\ (s \in S <=> file[s].count > 0 /\ file[s].inode = i)
        /\ s \in T <=> file'[s].count > 0 /\ file'[s].inode = i BY <1>1 DEF Files!Opens
  <1>3. IsFiniteSet(S) BY CountsFinite
  <1> HIDE DEF S, T
  <1>4. IsFiniteSet(T) /\ Cardinality(T) = Cardinality(S) - One(s \in S) + One(s \in T)
    BY <1>2, <1>3, Recount
  <1>5. /\ One(s \in S) = IF file[s].count > 0 /\ file[s].inode = i THEN 1 ELSE 0
        /\ One(s \in T) = IF file'[s].count > 0 /\ file'[s].inode = i THEN 1 ELSE 0 BY <1>2 DEF One
  <1> QED BY <1>4, <1>5 DEF S, T

(* The homes of the living change in one place. *)
LEMMA HomesMoved ==
    ASSUME Files!FileAssumption, FileTypes, NEW p \in Process, NEW i,
           \A q \in Process : q # p => cdir'[q] = cdir[q] /\ (q \in alive' <=> q \in alive), alive' \subseteq Process
    PROVE  Cardinality(Files!Homes(i)') = Cardinality(Files!Homes(i)) - One(p \in alive /\ cdir[p] = i) + One(p \in alive' /\ cdir'[p] = i)
  <1> DEFINE S == Files!Homes(i)
             T == Files!Homes(i)'
  <1>1. T = {q \in alive' : cdir'[q] = i} /\ alive \subseteq Process BY DEF Files!Homes, FileTypes
  <1>2. S \ {p} = T \ {p} /\ (p \in S <=> p \in alive /\ cdir[p] = i) /\ (p \in T <=> p \in alive' /\ cdir'[p] = i)
    BY <1>1 DEF Files!Homes
  <1>3. IsFiniteSet(S) BY CountsFinite
  <1> HIDE DEF S, T
  <1>4. Cardinality(T) = Cardinality(S) - One(p \in S) + One(p \in T) BY <1>2, <1>3, Recount
  <1>5. One(p \in S) = One(p \in alive /\ cdir[p] = i) /\ One(p \in T) = One(p \in alive' /\ cdir'[p] = i)
    BY <1>2 DEF One
  <1> QED BY <1>4, <1>5 DEF S, T

(* Quotient and remainder. *)
LEMMA Divided ==
    ASSUME NEW M \in Nat \ {0}, NEW y \in Int
    PROVE  /\ y \div M \in Int /\ y % M \in 0..M - 1 /\ y = (y \div M) * M + (y % M)
           /\ y >= 0 => y \div M \in Nat
  <1>1. M \in Int /\ M > 0 OBVIOUS
  <1>2. y % M = y - M * (y \div M) BY <1>1
  <1>3. y \div M \in Int /\ y % M \in 0..M - 1 /\ (y >= 0 => y \div M >= 0) BY <1>1
  <1> DEFINE q == y \div M
             r == y % M
  <1>4. q \in Int /\ r \in Int /\ r = y - M * q BY <1>2, <1>3
  <1> HIDE DEF q, r
  <1>5. y = q * M + r BY <1>1, <1>4
  <1> QED BY <1>3, <1>5 DEF q, r

(* A number is its quotient times the divisor and its remainder. *)
LEMMA DividedNat ==
    ASSUME NEW M, NEW y, M \in Nat, M # 0, y \in Nat
    PROVE  y \div M \in Nat /\ y % M \in 0..M - 1 /\ y = (y \div M) * M + (y % M)
  <1>1. M \in Nat \ {0} /\ y \in Int /\ y >= 0 OBVIOUS
  <1>2. y \div M \in Int /\ y % M \in 0..M - 1 /\ y = (y \div M) * M + (y % M) /\ (y >= 0 => y \div M \in Nat)
    BY <1>1, Divided
  <1> QED BY ONLY <1>1, <1>2

(* A number in 0..M-1 is what remains of any other it differs from by a    *)
(* multiple of M.                                                          *)
LEMMA Residue ==
    ASSUME NEW M \in Nat \ {0}, NEW x \in 0..M - 1, NEW y \in Int, NEW k \in Int, x = y + k * M
    PROVE  x = y % M
  <1> DEFINE r == y % M
             q == y \div M
             c == q + k
  <1>1. q \in Int /\ r \in 0..M - 1 /\ y = q * M + r BY Divided
  <1> HIDE DEF q, r
  <1>2. r \in Int /\ c \in Int /\ x - r = c * M /\ r >= 0 /\ r < M BY <1>1
  <1> HIDE DEF c
  <1>3. ~ (c >= 1)
    <2> SUFFICES ASSUME c >= 1 PROVE FALSE OBVIOUS
    <2>1. c * M >= M BY <1>2
    <2> QED BY <1>2, <2>1
  <1>4. ~ (c <= -1)
    <2> SUFFICES ASSUME c <= -1 PROVE FALSE OBVIOUS
    <2>1. c * M <= -M BY <1>2
    <2> QED BY <1>2, <2>1
  <1>5. c = 0 BY <1>2, <1>3, <1>4
  <1> QED BY <1>2, <1>5 DEF r

(* A pair of words is a number below HALF * HALF. *)
LEMMA ValueType ==
    ASSUME Files!FileAssumption, NEW h \in Files!Words, NEW l \in Files!Words
    PROVE  h * HALF + l \in 0..HALF * HALF - 1 /\ HALF * HALF \in Nat \ {0}
  <1>1. HALF \in Nat /\ HALF >= 1 /\ h \in Nat /\ h <= HALF - 1 /\ l \in Nat /\ l <= HALF - 1
    BY DEF Files!FileAssumption, Files!Words
  <1>2. h * HALF <= (HALF - 1) * HALF BY <1>1
  <1>3. (HALF - 1) * HALF = HALF * HALF - HALF /\ h * HALF \in Nat /\ HALF * HALF \in Nat BY <1>1
  <1>4. HALF * HALF >= 1 BY <1>1
  <1> DEFINE hw == h * HALF
             m == HALF * HALF
  <1>5. hw \in Nat /\ m \in Nat /\ hw <= m - HALF /\ m >= 1 BY <1>2, <1>3, <1>4
  <1> HIDE DEF hw, m
  <1>6. hw + l \in 0..m - 1 /\ m \in Nat \ {0} BY <1>1, <1>5
  <1> QED BY <1>6 DEF hw, m

(* dpadd adds a word to two, modulo their range. *)
LEMMA DpaddAdds ==
    ASSUME Files!FileAssumption, NEW h \in Files!Words, NEW l \in Files!Words, NEW y \in Files!Words
    PROVE  /\ Files!dpadd(<<h, l>>, y) \in Files!Words \X Files!Words
           /\ \E j \in Int : Files!Value(Files!dpadd(<<h, l>>, y)) = h * HALF + l + y + j * (HALF * HALF)
           /\ Files!Value(Files!dpadd(<<h, l>>, y)) = (h * HALF + l + y) % (HALF * HALF)
  <1> DEFINE low == l + y
             q == low \div HALF
             r == low % HALF
             top == h + q
             j == top \div HALF
             g == top % HALF
  <1>0. HALF \in Nat \ {0} /\ h \in Nat /\ l \in Nat /\ y \in Nat /\ low \in Nat
    BY DEF Files!FileAssumption, Files!Words
  <1>1. q \in Nat /\ r \in Files!Words /\ low = q * HALF + r BY <1>0, DividedNat DEF Files!Words
  <1>2. top \in Nat BY <1>0, <1>1
  <1> HIDE DEF q, r
  <1>3. j \in Nat /\ g \in Files!Words /\ top = j * HALF + g BY <1>0, <1>2, DividedNat DEF Files!Words
  <1>4. Files!dpadd(<<h, l>>, y) = <<g, r>> BY DEF Files!dpadd, q, r
  <1> HIDE DEF j, g
  <1>5. g * HALF + r = h * HALF + l + y + (-j) * (HALF * HALF)
    <2>1. g = h + q - j * HALF /\ r = l + y - q * HALF BY <1>0, <1>1, <1>3 DEF Files!Words
    <2>2. g * HALF = h * HALF + q * HALF - j * (HALF * HALF) BY <1>0, <1>1, <1>3, <2>1
    <2> QED BY <1>0, <1>1, <1>3, <2>1, <2>2
  <1>6. g * HALF + r \in 0..HALF * HALF - 1 /\ HALF * HALF \in Nat \ {0} BY <1>1, <1>3, ValueType
  <1>7. Files!Value(Files!dpadd(<<h, l>>, y)) = g * HALF + r BY <1>4 DEF Files!Value
  <1>8. h * HALF + l + y \in Int /\ -j \in Int BY <1>0, <1>3
  <1>9. g * HALF + r = (h * HALF + l + y) % (HALF * HALF)
    <2> DEFINE M == HALF * HALF
               x == g * HALF + r
               z == h * HALF + l + y
               k == -j
    <2>1. M \in Nat \ {0} /\ x \in 0..M - 1 /\ z \in Int /\ k \in Int /\ x = z + k * M BY <1>5, <1>6, <1>8
    <2> HIDE DEF M, x, z, k
    <2>2. x = z % M BY <2>1, Residue
    <2> QED BY <2>2 DEF M, x, z
  <1> QED BY <1>1, <1>3, <1>4, <1>5, <1>7, <1>8, <1>9

(* What seek is asked to move by. *)
Way(arg, t) == (IF t \in {0, 3} THEN arg ELSE Files!Signed(arg)) * (IF t > 2 THEN BLOCK ELSE 1)

(* A block's worth of a word, in two words. *)
LEMMA BlocksOf ==
    ASSUME Files!FileAssumption, NEW arg \in Files!Words
    PROVE  /\ arg \div (HALF \div BLOCK) \in 0..BLOCK - 1 /\ (arg * BLOCK) % HALF \in Files!Words
           /\ (arg \div (HALF \div BLOCK)) * HALF + ((arg * BLOCK) % HALF) = arg * BLOCK
  <1> DEFINE L == HALF \div BLOCK
             high == arg \div L
             lo == arg % L
  <1>0. HALF \in Nat \ {0} /\ BLOCK \in Nat \ {0} /\ HALF % BLOCK = 0 /\ arg \in Nat /\ arg < HALF
    BY DEF Files!FileAssumption, Files!Words
  <1>1. L \in Nat /\ HALF = L * BLOCK BY <1>0, DividedNat
  <1> HIDE DEF L
  <1>2. L # 0 BY <1>0, <1>1
  <1>3. high \in Nat /\ lo \in 0..L - 1 /\ arg = high * L + lo BY <1>0, <1>1, <1>2, DividedNat
  <1> HIDE DEF high, lo
  <1>4. high < BLOCK
    <2> SUFFICES ASSUME high >= BLOCK PROVE FALSE BY <1>0, <1>3
    <2>1. high * L >= BLOCK * L BY <1>0, <1>1, <1>3
    <2> QED BY <1>0, <1>1, <1>3, <2>1
  <1>5. lo * BLOCK \in Files!Words
    <2>1. lo * BLOCK <= (L - 1) * BLOCK /\ lo * BLOCK \in Nat BY <1>0, <1>1, <1>3
    <2>2. (L - 1) * BLOCK = HALF - BLOCK BY <1>0, <1>1
    <2> QED BY <1>0, <2>1, <2>2 DEF Files!Words
  <1>6. arg * BLOCK = high * HALF + lo * BLOCK
    <2>1. arg * BLOCK = (high * L) * BLOCK + lo * BLOCK BY <1>0, <1>1, <1>3
    <2>2. (high * L) * BLOCK = high * (L * BLOCK) BY <1>0, <1>1, <1>3
    <2> QED BY <1>1, <2>1, <2>2
  <1>7. lo * BLOCK = (arg * BLOCK) % HALF
    <2> DEFINE x == lo * BLOCK
               z == arg * BLOCK
               k == -high
    <2>1. x \in 0..HALF - 1 /\ z \in Int /\ k \in Int /\ x = z + k * HALF
      BY <1>0, <1>3, <1>5, <1>6 DEF Files!Words
    <2> HIDE DEF x, z, k
    <2>2. x = z % HALF BY <1>0, <2>1, Residue
    <2> QED BY <2>2 DEF x, z
  <1>8. high \in 0..BLOCK - 1 /\ (arg * BLOCK) % HALF \in Files!Words /\ high * HALF + ((arg * BLOCK) % HALF) = arg * BLOCK
    BY <1>0, <1>3, <1>4, <1>5, <1>6, <1>7
  <1> QED BY <1>8 DEF high, L

(* seek's two words stand for the way, modulo their range. *)
LEMMA SeekMeans ==
    ASSUME Files!FileAssumption, NEW arg \in Files!Words, NEW t \in 0..5
    PROVE  \E h \in Files!Words, l \in Files!Words, k \in Int :
              Files!SeekTo(arg, t) = <<h, l>> /\ h * HALF + l = Way(arg, t) + k * (HALF * HALF) /\ Way(arg, t) \in Int
  <1>0. HALF \in Nat \ {0} /\ BLOCK \in Nat \ {0} /\ arg \in Nat /\ arg < HALF
    BY DEF Files!FileAssumption, Files!Words
  <1>1. CASE t <= 2
    <2>1. CASE t # 0 /\ Files!Negative(arg)
      <3>1. Files!SeekTo(arg, t) = <<HALF - 1, arg>> /\ Way(arg, t) = arg - HALF
        BY <1>0, <1>1, <2>1 DEF Files!SeekTo, Way, Files!Signed
      <3>2. (HALF - 1) * HALF + arg = (arg - HALF) + 1 * (HALF * HALF) /\ HALF - 1 \in Files!Words
        BY <1>0 DEF Files!Words
      <3> QED BY <1>0, <3>1, <3>2
    <2>2. CASE ~ (t # 0 /\ Files!Negative(arg))
      <3>1. Files!SeekTo(arg, t) = <<0, arg>> /\ Way(arg, t) = arg
        BY <1>0, <1>1, <2>2 DEF Files!SeekTo, Way, Files!Signed
      <3>2. 0 * HALF + arg = arg + 0 * (HALF * HALF) /\ 0 \in Files!Words BY <1>0 DEF Files!Words
      <3> QED BY <1>0, <3>1, <3>2
    <2> QED BY <2>1, <2>2
  <1>2. CASE t > 2
    <2> DEFINE high == arg \div (HALF \div BLOCK)
               l == (arg * BLOCK) % HALF
    <2>1. high \in 0..BLOCK - 1 /\ l \in Files!Words /\ high * HALF + l = arg * BLOCK BY BlocksOf
    <2>2. BLOCK <= HALF
      <3>1. HALF % BLOCK = 0 /\ HALF = (HALF \div BLOCK) * BLOCK + (HALF % BLOCK) /\ HALF \div BLOCK \in Nat
        BY <1>0, DividedNat DEF Files!FileAssumption
      <3> DEFINE n == HALF \div BLOCK
      <3>2. n \in Nat /\ HALF = n * BLOCK BY <1>0, <3>1
      <3> HIDE DEF n
      <3>3. n >= 1 BY <1>0, <3>2
      <3> QED BY <1>0, <3>2, <3>3
    <2>3. CASE t = 3 \/ ~Files!Negative(arg)
      <3>1. Files!SeekTo(arg, t) = <<high, l>> /\ Way(arg, t) = arg * BLOCK
        BY <1>0, <1>2, <2>3 DEF Files!SeekTo, Way, Files!Signed
      <3> HIDE DEF high, l
      <3>2. high \in Files!Words /\ arg * BLOCK \in Int /\ high * HALF + l = arg * BLOCK + 0 * (HALF * HALF)
        BY <1>0, <2>1, <2>2 DEF Files!Words
      <3> QED BY <2>1, <3>1, <3>2
    <2>4. CASE ~ (t = 3 \/ ~Files!Negative(arg))
      <3>1. Files!SeekTo(arg, t) = <<high + HALF - BLOCK, l>> /\ Way(arg, t) = (arg - HALF) * BLOCK
        BY <1>0, <1>2, <2>4 DEF Files!SeekTo, Way, Files!Signed
      <3> HIDE DEF high, l
      <3>2. high + HALF - BLOCK \in Files!Words /\ (arg - HALF) * BLOCK \in Int
        BY <1>0, <2>1, <2>2 DEF Files!Words
      <3>3. (high + HALF - BLOCK) * HALF + l = (arg - HALF) * BLOCK + 1 * (HALF * HALF)
        <4>1. (high + HALF - BLOCK) * HALF = high * HALF + HALF * HALF - BLOCK * HALF /\ high \in Int /\ l \in Int
          BY <1>0, <2>1 DEF Files!Words
        <4>2. (arg - HALF) * BLOCK = arg * BLOCK - HALF * BLOCK BY <1>0
        <4> QED BY <1>0, <2>1, <4>1, <4>2
      <3> QED BY <2>1, <3>1, <3>2, <3>3
    <2> QED BY <2>3, <2>4
  <1> QED BY <1>0, <1>1, <1>2

----
(* A structure a descriptor names is counted, and nobody is letting it go. *)
LEMMA Held ==
    ASSUME Files!FileAssumption, FileInv, NEW p \in Process, NEW d \in Ds, ofile[p][d] # 0
    PROVE  LET s == ofile[p][d]
           IN  /\ s \in Files!Slots /\ file[s] \in Structures
               /\ Cardinality(Files!Holds(s)) >= 1 /\ Cardinality(Files!Lasts(s)) = 0 /\ Files!Lasts(s) = {}
               /\ file[s].count = Cardinality(Files!Holds(s)) /\ file[s].count > 0 /\ file[s].count \in Nat
  <1> DEFINE s == ofile[p][d]
  <1>1. s \in Files!Slots /\ file[s] \in Structures
    BY DEF FileInv, FileTypes, Files!Slots, Files!FileAssumption
  <1>2. <<p, d>> \in Files!Holds(s) BY DEF Files!Holds, Ds
  <1>3. /\ IsFiniteSet(Files!Holds(s)) /\ Cardinality(Files!Holds(s)) \in Nat
        /\ IsFiniteSet(Files!Lasts(s)) /\ Cardinality(Files!Lasts(s)) \in Nat BY CountsFinite DEF FileInv
  <1>4. Cardinality(Files!Holds(s)) >= 1 BY <1>2, <1>3, Inhabited
  <1>5. file[s].count = Cardinality(Files!Holds(s)) + Cardinality(Files!Lasts(s))
    BY SameSets, <1>1 DEF FileInv, FilesCounted, Files!Users
  <1>6. Files!Lasts(s) = {}
    <2> SUFFICES ASSUME NEW q \in Files!Lasts(s) PROVE FALSE OBVIOUS
    <2>1. file[s].count = 1 BY <1>1 DEF FileInv, LastAlone
    <2>2. Cardinality(Files!Lasts(s)) >= 1 BY <1>3, Inhabited
    <2> QED BY <1>3, <1>4, <1>5, <2>1, <2>2
  <1>7. Cardinality(Files!Lasts(s)) = 0 BY <1>6, FS_EmptySet
  <1>8. file[s].count = Cardinality(Files!Holds(s)) /\ file[s].count > 0 /\ file[s].count \in Nat
    BY <1>3, <1>4, <1>5, <1>7
  <1> QED BY <1>1, <1>3, <1>4, <1>6, <1>7, <1>8

(* Nothing refers to a free structure. *)
LEMMA FreeSlot ==
    ASSUME Files!FileAssumption, FileInv, NEW s \in Files!FreeSlots
    PROVE  /\ s \in Files!Slots /\ file[s] \in Structures /\ file[s].count = 0
           /\ Cardinality(Files!Holds(s)) = 0 /\ Files!Holds(s) = {} /\ Cardinality(Files!Lasts(s)) = 0 /\ Files!Lasts(s) = {}
  <1>1. s \in Files!Slots /\ file[s].count = 0 /\ file[s] \in Structures
    BY DEF Files!FreeSlots, FileInv, FileTypes
  <1>2. /\ IsFiniteSet(Files!Holds(s)) /\ Cardinality(Files!Holds(s)) \in Nat
        /\ IsFiniteSet(Files!Lasts(s)) /\ Cardinality(Files!Lasts(s)) \in Nat BY CountsFinite DEF FileInv
  <1>3. 0 = Cardinality(Files!Holds(s)) + Cardinality(Files!Lasts(s))
    BY SameSets, <1>1 DEF FileInv, FilesCounted, Files!Users
  <1>4. Cardinality(Files!Holds(s)) = 0 /\ Cardinality(Files!Lasts(s)) = 0 BY <1>2, <1>3
  <1>5. Files!Holds(s) = {} /\ Files!Lasts(s) = {} BY <1>2, <1>4, FS_EmptySet
  <1> QED BY <1>1, <1>4, <1>5

(* falloc finds a structure nobody refers to. *)
LEMMA Free ==
    ASSUME Files!FileAssumption, FileInv, Files!FreeSlots # {}
    PROVE  LET s == Files!Least(Files!FreeSlots)
           IN  /\ s \in Files!FreeSlots /\ s \in Files!Slots /\ file[s] \in Structures /\ file[s].count = 0
               /\ Cardinality(Files!Holds(s)) = 0 /\ Cardinality(Files!Lasts(s)) = 0 /\ Files!Lasts(s) = {}
  <1>1. Files!FreeSlots \subseteq Nat BY DEF Files!FreeSlots, Files!Slots, Files!FileAssumption
  <1>2. Files!Least(Files!FreeSlots) \in Files!FreeSlots BY <1>1, LeastIs
  <1> QED BY <1>2, FreeSlot

(* What a process that is neither letting go before nor after leaves of    *)
(* the structures, if their counts stay.                                   *)
LEMMA StructuresKept ==
    ASSUME Files!FileAssumption, FileInv, NEW p \in Process, NEW r, at' = [at EXCEPT ![p] = r],
           \A s : ~Files!Letting(at[p], s) /\ ~Files!Letting(r, s), ofile' = ofile, open' = open,
           \A s \in Files!Slots : file'[s].count = file[s].count /\ (file[s].count > 0 => file'[s].inode = file[s].inode)
    PROVE  /\ FilesCounted' /\ DriversTold' /\ LastAlone'
           /\ \A i : Cardinality(Files!Opens(i)') = Cardinality(Files!Opens(i))
  <1>0. FileTypes /\ FilesCounted /\ DriversTold /\ LastAlone BY DEF FileInv
  <1>1. \A s : Files!Holds(s)' = Files!Holds(s) BY DEF Files!Holds
  <1>2. \A s : Files!Lasts(s)' = Files!Lasts(s)
    <2> TAKE s
    <2>1. Files!Lasts(s)' \ {p} = Files!Lasts(s) \ {p} /\ (p \in Files!Lasts(s)' <=> Files!Letting(r, s))
      BY <1>0, AtMoved
    <2>2. p \notin Files!Lasts(s) BY DEF Files!Lasts
    <2> QED BY <2>1, <2>2
  <1>3. \A i : Files!Opens(i)' = Files!Opens(i)
    <2> TAKE i
    <2>1. \A s \in Files!Slots : file[s].count \in Nat BY <1>0 DEF FileTypes, Structures
    <2>2. Files!Opens(i)' = {s \in Files!Slots : file'[s].count > 0 /\ file'[s].inode = i}
      BY DEF Files!Opens, Files!Slots
    <2> QED BY <2>1, <2>2 DEF Files!Opens
  <1>4. FilesCounted'
    <2> SUFFICES ASSUME NEW s \in Files!Slots PROVE file'[s].count = Cardinality(Files!Holds(s)') + Cardinality(Files!Lasts(s)')
      BY SameSets DEF FilesCounted, Files!Users, Files!Slots
    <2> QED BY SameSets, <1>0, <1>1, <1>2 DEF FilesCounted, Files!Users
  <1>5. LastAlone'
    <2> SUFFICES ASSUME NEW s \in Files!Slots, NEW q \in Files!Lasts(s)' PROVE file'[s].count = 1 /\ file'[s].inode = at'[q].inode
      BY DEF LastAlone, Files!Slots
    <2>1. q \in Files!Lasts(s) /\ q # p BY <1>2 DEF Files!Lasts
    <2>2. at'[q] = at[q] BY <1>0, <2>1 DEF FileTypes, Files!Lasts
    <2>3. file[s].count = 1 /\ file[s].inode = at[q].inode BY <1>0, <2>1 DEF LastAlone
    <2> QED BY <2>2, <2>3
  <1>6. DriversTold'
    <2> SUFFICES ASSUME NEW s \in Files!Slots, file'[s].count > 0, file'[s].inode \in Device
                 PROVE  file'[s].inode \in open' \/ Files!Lasts(s)' # {} BY DEF DriversTold, Files!Slots
    <2> QED BY <1>0, <1>2 DEF DriversTold
  <1> QED BY <1>3, <1>4, <1>5, <1>6

(* Offsets that stay are what they should be. *)
LEMMA OffsetsKept ==
    ASSUME FileInv, \A s \in Files!Slots : file'[s].count > 0 => file[s].count > 0 /\ file'[s].offset = file[s].offset, meant' = meant
    PROVE  OffsetsMeant'
  <1> SUFFICES ASSUME NEW s \in Files!Slots, file'[s].count > 0 PROVE Files!Value(file'[s].offset) = meant'[s]
    BY DEF OffsetsMeant, Files!Slots, Files!Value
  <1> QED BY DEF FileInv, OffsetsMeant, Files!Value

(* Where a process may be. *)
LEMMA Places ==
    /\ Files!Idle \in Doings /\ [step |-> "exit", inode |-> Files!Dir] \in Doings
    /\ \A i \in INode : [step |-> "open", inode |-> i] \in Doings
    /\ \A i \in INode \cup {Files!Dir} : [step |-> "chdir", inode |-> i] \in Doings
    /\ \A i \in FileInodes, s \in Files!Slots : /\ [step |-> "closing", inode |-> i, slot |-> s] \in Doings
                                                /\ [step |-> "exiting", inode |-> i, slot |-> s] \in Doings
    /\ \A s \in Files!Slots : [step |-> "transfer", inode |-> Files!Dir, slot |-> s] \in Doings
  BY DEF Doings

(* What refers to an inode after one process has gone elsewhere.           *)
LEMMA Rereferred ==
    ASSUME Files!FileAssumption, FileInv, NEW p \in Process, NEW r, at' = [at EXCEPT ![p] = r],
           \A q \in Process : q # p => cdir'[q] = cdir[q] /\ (q \in alive' <=> q \in alive), alive' \subseteq Process,
           NEW j \in FileInodes
    PROVE  /\ icount[j] \in Nat /\ Cardinality(Files!Opens(j)) \in Nat /\ icount[j] >= Cardinality(Files!Opens(j))
           /\ Files!References(j)' = icount[j] + (Cardinality(Files!Opens(j)') - Cardinality(Files!Opens(j)))
                               + (One(Files!Searching(r, j)) - One(Files!Searching(at[p], j)))
                               + (One(p \in alive' /\ cdir'[p] = j) - One(p \in alive /\ cdir[p] = j))
  <1>0. FileTypes BY DEF FileInv
  <1>1. Cardinality(Files!Searches(j)') = Cardinality(Files!Searches(j)) - One(Files!Searching(at[p], j)) + One(Files!Searching(r, j))
    <2>1. \A i : Cardinality(Files!Searches(i)') = Cardinality(Files!Searches(i)) - One(Files!Searching(at[p], i)) + One(Files!Searching(r, i))
      BY ONLY Files!FileAssumption, <1>0, AtMoved, at' = [at EXCEPT ![p] = r], p \in Process
    <2> QED BY <2>1
  <1>2. Cardinality(Files!Homes(j)') = Cardinality(Files!Homes(j)) - One(p \in alive /\ cdir[p] = j) + One(p \in alive' /\ cdir'[p] = j)
    BY <1>0, HomesMoved
  <1>3. icount[j] = Cardinality(Files!Opens(j)) + Cardinality(Files!Searches(j)) + Cardinality(Files!Homes(j)) /\ icount[j] \in Nat
    BY SameSets DEF FileInv, FileTypes, InodesCounted, Files!References
  <1>4. Cardinality(Files!Opens(j)) \in Nat /\ Cardinality(Files!Searches(j)) \in Nat /\ Cardinality(Files!Homes(j)) \in Nat
    BY <1>0, CountsFinite
  <1>5. Cardinality(Files!Opens(j)') \in Int
    <2>1. IsFiniteSet(Files!Slots) BY FS_Interval DEF Files!Slots, Files!FileAssumption
    <2>2. Files!Opens(j)' \subseteq Files!Slots BY DEF Files!Opens, Files!Slots
    <2> QED BY <2>1, <2>2, FS_Subset, FS_CardinalityType
  <1>6. Files!References(j)' = Cardinality(Files!Opens(j)') + Cardinality(Files!Searches(j)') + Cardinality(Files!Homes(j)')
    BY SameSets DEF Files!References
  <1> DEFINE a == One(Files!Searching(at[p], j))
             b == One(Files!Searching(r, j))
             c == One(p \in alive /\ cdir[p] = j)
             d == One(p \in alive' /\ cdir'[p] = j)
  <1>7. a \in Int /\ b \in Int /\ c \in Int /\ d \in Int BY DEF One
  <1> HIDE DEF a, b, c, d
  <1>8. Cardinality(Files!Searches(j)') = Cardinality(Files!Searches(j)) - a + b /\ Cardinality(Files!Homes(j)') = Cardinality(Files!Homes(j)) - c + d
    BY <1>1, <1>2 DEF a, b, c, d
  <1>9. Files!References(j)' = icount[j] + (Cardinality(Files!Opens(j)') - Cardinality(Files!Opens(j))) + (b - a) + (d - c) /\ icount[j] >= Cardinality(Files!Opens(j))
    BY <1>3, <1>4, <1>5, <1>6, <1>7, <1>8
  <1> QED BY <1>3, <1>4, <1>9 DEF a, b, c, d

(* The counts of inodes after one process has gone elsewhere and nobody's  *)
(* directory has changed.                                                  *)
LEMMA Recounted ==
    ASSUME Files!FileAssumption, FileInv, NEW p \in Process, NEW r, at' = [at EXCEPT ![p] = r], cdir' = cdir, alive' = alive,
           \A j \in FileInodes : icount'[j] = icount[j] + (Cardinality(Files!Opens(j)') - Cardinality(Files!Opens(j)))
                                              + (One(Files!Searching(r, j)) - One(Files!Searching(at[p], j)))
    PROVE  InodesCounted'
  <1> SUFFICES ASSUME NEW j \in FileInodes PROVE icount'[j] = Files!References(j)'
    BY DEF InodesCounted, FileInodes
  <1>1. alive' \subseteq Process /\ \A q \in Process : q # p => cdir'[q] = cdir[q] /\ (q \in alive' <=> q \in alive)
    BY DEF FileInv, FileTypes
  <1>2. Files!References(j)' = icount[j] + (Cardinality(Files!Opens(j)') - Cardinality(Files!Opens(j)))
                         + (One(Files!Searching(r, j)) - One(Files!Searching(at[p], j)))
                         + (One(p \in alive' /\ cdir'[p] = j) - One(p \in alive /\ cdir[p] = j))
    BY ONLY Files!FileAssumption, FileInv, at' = [at EXCEPT ![p] = r], <1>1, Rereferred
  <1> DEFINE x == icount[j] + (Cardinality(Files!Opens(j)') - Cardinality(Files!Opens(j)))
                  + (One(Files!Searching(r, j)) - One(Files!Searching(at[p], j)))
             b == One(p \in alive /\ cdir[p] = j)
             c == One(p \in alive' /\ cdir'[p] = j)
  <1>3. icount'[j] = x /\ b = c /\ b \in Int
    <2>1. icount'[j] = x OBVIOUS
    <2>2. b = c OBVIOUS
    <2>3. b \in Int BY DEF One
    <2> QED BY <2>1, <2>2, <2>3
  <1>4. x \in Int
    <2>1. icount[j] \in Nat /\ Cardinality(Files!Opens(j)) \in Nat BY <1>1, Rereferred
    <2>2. IsFiniteSet(Files!Slots) /\ Files!Opens(j)' \subseteq Files!Slots
      BY FS_Interval DEF Files!Slots, Files!FileAssumption, Files!Opens
    <2>3. Cardinality(Files!Opens(j)') \in Nat BY <2>2, FS_Subset, FS_CardinalityType
    <2> DEFINE g == One(Files!Searching(r, j))
               h == One(Files!Searching(at[p], j))
    <2>4. g \in Int /\ h \in Int BY DEF One
    <2> HIDE DEF g, h
    <2>5. icount[j] + (Cardinality(Files!Opens(j)') - Cardinality(Files!Opens(j))) + (g - h) \in Int
      BY <2>1, <2>3, <2>4
    <2> QED BY <2>5 DEF g, h
  <1>5. Files!References(j)' = x + (c - b) BY <1>2
  <1> HIDE DEF x, b, c
  <1> QED BY <1>3, <1>4, <1>5

(* A name is looked up. *)
LEMMA NameiStep ==
    ASSUME Files!FileAssumption, FileInv, NEW p \in Process, NEW step \in {"open", "chdir"}, NEW i \in INode \cup {Files!Dir},
           step = "open" => i \in INode, Files!Namei(p, step, i) PROVE FileInv'
  <1> DEFINE r == [step |-> step, inode |-> i]
  <1>0. /\ FileTypes /\ DeadClear /\ at' = [at EXCEPT ![p] = r] /\ icount' = [icount EXCEPT ![i] = @ + 1]
        /\ ofile' = ofile /\ file' = file /\ open' = open /\ cdir' = cdir /\ alive' = alive /\ meant' = meant
        /\ p \in alive /\ at[p] = Files!Idle /\ made' = made + 1 /\ r \in Doings
        /\ r.step = step /\ r.inode = i /\ i \in FileInodes
    BY Places DEF FileInv, Files!Namei, Files!Enters, FileInodes
  <1> HIDE DEF r
  <1>1. \A s : ~Files!Letting(at[p], s) /\ ~Files!Letting(r, s) BY <1>0 DEF Files!Letting, Files!Idle
  <1>2. FilesCounted' /\ DriversTold' /\ LastAlone' /\ (\A j : Cardinality(Files!Opens(j)') = Cardinality(Files!Opens(j)))
    BY <1>0, <1>1, StructuresKept
  <1>3. OffsetsMeant' BY <1>0, OffsetsKept
  <1>4. FileTypes' BY <1>0 DEF FileTypes, FileInodes, Files!Slots, Ds, Doings, Structures, Files!Words
  <1>5. DeadClear' BY <1>0 DEF DeadClear, FileTypes, Ds
  <1>6. InodesCounted'
    <2>1. ASSUME NEW j \in FileInodes
          PROVE  icount'[j] = icount[j] + (Cardinality(Files!Opens(j)') - Cardinality(Files!Opens(j)))
                              + (One(Files!Searching(r, j)) - One(Files!Searching(at[p], j)))
      <3>1. ~Files!Searching(at[p], j) /\ (Files!Searching(r, j) <=> i = j)
        BY <1>0 DEF Files!Searching, Files!Idle
      <3>2. One(Files!Searching(at[p], j)) = 0 /\ One(Files!Searching(r, j)) = IF i = j THEN 1 ELSE 0
        BY <3>1 DEF One
      <3>3. icount[j] \in Nat /\ icount'[j] = icount[j] + IF i = j THEN 1 ELSE 0 BY <1>0 DEF FileTypes
      <3>4. Cardinality(Files!Opens(j)) \in Nat BY <1>0, CountsFinite
      <3> QED BY <1>2, <3>2, <3>3, <3>4
    <2>2. at' = [at EXCEPT ![p] = r] /\ cdir' = cdir /\ alive' = alive BY <1>0
    <2> QED BY ONLY Files!FileAssumption, FileInv, p \in Process, <2>1, <2>2, Recounted
  <1> QED BY <1>2, <1>3, <1>4, <1>5, <1>6 DEF FileInv

(* The search gives its inode back. *)
LEMMA GiveBack ==
    ASSUME Files!FileAssumption, FileInv, NEW p \in Process, at[p].step \in {"open", "chdir"},
           icount' = [icount EXCEPT ![at[p].inode] = @ - 1], at' = [at EXCEPT ![p] = Files!Idle],
           \A i : Cardinality(Files!Opens(i)') = Cardinality(Files!Opens(i)), cdir' = cdir, alive' = alive
    PROVE  InodesCounted' /\ icount' \in [FileInodes -> Nat]
  <1> DEFINE i == at[p].inode
  <1>0. FileTypes /\ i \in FileInodes BY Noted DEF FileInv, FileInodes
  <1>1. \A j : (Files!Searching(at[p], j) <=> i = j) /\ ~Files!Searching(Files!Idle, j)
    BY DEF Files!Searching, Files!Idle
  <1> HIDE DEF i
  <1>2. ASSUME NEW j \in FileInodes
        PROVE  icount'[j] = icount[j] + (Cardinality(Files!Opens(j)') - Cardinality(Files!Opens(j)))
                            + (One(Files!Searching(Files!Idle, j)) - One(Files!Searching(at[p], j)))
    <2>1. One(Files!Searching(Files!Idle, j)) = 0 /\ One(Files!Searching(at[p], j)) = IF i = j THEN 1 ELSE 0
      BY <1>1 DEF One
    <2>2. icount[j] \in Nat /\ icount'[j] = icount[j] - IF i = j THEN 1 ELSE 0 BY <1>0 DEF FileTypes, i
    <2>3. Cardinality(Files!Opens(j)) \in Nat BY <1>0, CountsFinite
    <2> QED BY <2>1, <2>2, <2>3
  <1>3. InodesCounted'
    BY ONLY Files!FileAssumption, FileInv, <1>2, at' = [at EXCEPT ![p] = Files!Idle], cdir' = cdir, alive' = alive, Recounted
  <1>4. icount[i] >= 1
    <2>1. p \in Files!Searches(i) BY <1>1 DEF Files!Searches
    <2>2. Cardinality(Files!Searches(i)) >= 1 BY <1>0, <2>1, CountsFinite, Inhabited
    <2>3. icount[i] = Cardinality(Files!Opens(i)) + Cardinality(Files!Searches(i)) + Cardinality(Files!Homes(i))
      BY SameSets, <1>0 DEF FileInv, InodesCounted, Files!References
    <2>4. Cardinality(Files!Opens(i)) \in Nat /\ Cardinality(Files!Searches(i)) \in Nat /\ Cardinality(Files!Homes(i)) \in Nat
      BY <1>0, CountsFinite
    <2> QED BY <2>2, <2>3, <2>4
  <1>5. icount' \in [FileInodes -> Nat] BY <1>0, <1>4 DEF FileTypes, i
  <1> QED BY <1>3, <1>5

(* open or chdir gives back the inode it may not have. *)
LEMMA RefuseStep ==
    ASSUME Files!FileAssumption, FileInv, NEW p \in Process, Files!Refuse(p) PROVE FileInv'
  <1>0. /\ FileTypes /\ DeadClear /\ at' = [at EXCEPT ![p] = Files!Idle] /\ icount' = [icount EXCEPT ![at[p].inode] = @ - 1]
        /\ ofile' = ofile /\ file' = file /\ open' = open /\ cdir' = cdir /\ alive' = alive /\ meant' = meant
        /\ at[p].step \in {"open", "chdir"} /\ made' = made BY DEF FileInv, Files!Refuse
  <1>1. \A s : ~Files!Letting(at[p], s) /\ ~Files!Letting(Files!Idle, s)
    BY <1>0 DEF Files!Letting, Files!Idle
  <1>2. FilesCounted' /\ DriversTold' /\ LastAlone' /\ (\A j : Cardinality(Files!Opens(j)') = Cardinality(Files!Opens(j)))
    BY <1>0, <1>1, StructuresKept
  <1>3. OffsetsMeant' BY <1>0, OffsetsKept
  <1>4. InodesCounted' /\ icount' \in [FileInodes -> Nat] BY <1>0, <1>2, GiveBack
  <1>5. FileTypes'
    BY <1>0, <1>4, Places DEF FileTypes, FileInodes, Files!Slots, Ds, Doings, Structures, Files!Words
  <1>6. DeadClear' BY <1>0 DEF DeadClear, FileTypes, Ds
  <1> QED BY <1>2, <1>3, <1>4, <1>5, <1>6 DEF FileInv

(* An open is undone. *)
LEMMA OpenFailsStep ==
    ASSUME Files!FileAssumption, FileInv, NEW p \in Process, Files!OpenFails(p) PROVE FileInv'
  <1>0. /\ FileTypes /\ DeadClear /\ at' = [at EXCEPT ![p] = Files!Idle] /\ icount' = [icount EXCEPT ![at[p].inode] = @ - 1]
        /\ ofile' = ofile /\ open' = open /\ cdir' = cdir /\ alive' = alive /\ meant' = meant
        /\ at[p].step = "open" /\ made' = made BY DEF FileInv, Files!OpenFails
  <1>1. \A s : ~Files!Letting(at[p], s) /\ ~Files!Letting(Files!Idle, s)
    BY <1>0 DEF Files!Letting, Files!Idle
  <1>2. /\ file' \in [Files!Slots -> Structures]
        /\ \A s \in Files!Slots : /\ file'[s].count = file[s].count
                                  /\ file[s].count > 0 => file'[s].inode = file[s].inode /\ file'[s].offset = file[s].offset
    <2>1. CASE Files!CanAlloc(p)
      <3> DEFINE s == Files!Least(Files!FreeSlots)
                 f == [Files!Unused EXCEPT !.inode = at[p].inode]
      <3>1. s \in Files!Slots /\ file[s].count = 0 BY <2>1, Free DEF Files!CanAlloc
      <3>2. at[p].inode \in FileInodes BY <1>0, Noted DEF FileInodes
      <3>3. 0 \in Files!Words BY DEF Files!FileAssumption, Files!Words
      <3>4. f \in Structures /\ f.count = 0 BY <3>2, <3>3 DEF Structures, Files!Unused
      <3>5. file' = [file EXCEPT ![s] = f] BY <2>1 DEF Files!OpenFails
      <3>6. file \in [Files!Slots -> Structures] BY <1>0 DEF FileTypes
      <3> HIDE DEF s, f
      <3> QED BY <3>1, <3>4, <3>5, <3>6
    <2>2. CASE ~Files!CanAlloc(p)
      <3>1. file' = file BY <2>2 DEF Files!OpenFails
      <3> QED BY <1>0, <3>1 DEF FileTypes
    <2> QED BY <2>1, <2>2
  <1>3. FilesCounted' /\ DriversTold' /\ LastAlone' /\ (\A j : Cardinality(Files!Opens(j)') = Cardinality(Files!Opens(j)))
    BY <1>0, <1>1, <1>2, StructuresKept
  <1>4. OffsetsMeant' BY <1>0, <1>2, OffsetsKept
  <1>5. InodesCounted' /\ icount' \in [FileInodes -> Nat] BY <1>0, <1>3, GiveBack
  <1>6. FileTypes'
    BY <1>0, <1>2, <1>5, Places DEF FileTypes, FileInodes, Files!Slots, Ds, Doings, Structures, Files!Words
  <1>7. DeadClear' BY <1>0 DEF DeadClear, FileTypes, Ds
  <1> QED BY <1>3, <1>4, <1>5, <1>6, <1>7 DEF FileInv

(* The new directory is the one that stays; the old one is put. *)
LEMMA ChdirStep ==
    ASSUME Files!FileAssumption, FileInv, NEW p \in Process, Files!chdir(p) PROVE FileInv'
  <1> DEFINE i == at[p].inode
             o == cdir[p]
  <1>0. /\ FileTypes /\ DeadClear /\ at' = [at EXCEPT ![p] = Files!Idle] /\ icount' = [icount EXCEPT ![o] = @ - 1]
        /\ ofile' = ofile /\ file' = file /\ open' = open /\ cdir' = [cdir EXCEPT ![p] = i] /\ alive' = alive /\ meant' = meant
        /\ at[p].step = "chdir" /\ made' = made /\ i \in INode \cup {Files!Dir} /\ i \in FileInodes /\ o \in FileInodes
    BY Noted DEF FileInv, Files!chdir, FileInodes, Files!Dir, FileTypes
  <1>1. \A s : ~Files!Letting(at[p], s) /\ ~Files!Letting(Files!Idle, s)
    BY <1>0 DEF Files!Letting, Files!Idle
  <1>2. FilesCounted' /\ DriversTold' /\ LastAlone' /\ (\A j : Cardinality(Files!Opens(j)') = Cardinality(Files!Opens(j)))
    BY <1>0, <1>1, StructuresKept
  <1>3. OffsetsMeant' BY <1>0, OffsetsKept
  <1>4. p \in alive BY <1>0 DEF DeadClear, Files!Idle
  <1>5. \A j : (Files!Searching(at[p], j) <=> i = j) /\ ~Files!Searching(Files!Idle, j)
    BY <1>0 DEF Files!Searching, Files!Idle
  <1>6. alive' \subseteq Process /\ cdir'[p] = i /\ \A q \in Process : q # p => cdir'[q] = cdir[q] /\ (q \in alive' <=> q \in alive)
    BY <1>0 DEF FileTypes
  <1> HIDE DEF i, o
  <1>7. ASSUME NEW j \in FileInodes PROVE icount'[j] = Files!References(j)'
    <2>1. /\ icount[j] \in Nat /\ Cardinality(Files!Opens(j)) \in Nat
          /\ Files!References(j)' = icount[j] + (Cardinality(Files!Opens(j)') - Cardinality(Files!Opens(j)))
                               + (One(Files!Searching(Files!Idle, j)) - One(Files!Searching(at[p], j)))
                               + (One(p \in alive' /\ cdir'[p] = j) - One(p \in alive /\ cdir[p] = j))
      <3>1. at' = [at EXCEPT ![p] = Files!Idle] BY <1>0
      <3> QED BY ONLY Files!FileAssumption, FileInv, <3>1, <1>6, Rereferred
    <2>2. One(Files!Searching(Files!Idle, j)) = 0 /\ One(Files!Searching(at[p], j)) = IF i = j THEN 1 ELSE 0
      BY <1>5 DEF One
    <2>3. One(p \in alive' /\ cdir'[p] = j) = (IF i = j THEN 1 ELSE 0) /\ One(p \in alive /\ cdir[p] = j) = IF o = j THEN 1 ELSE 0
      BY <1>0, <1>4, <1>6 DEF One, o
    <2>4. icount'[j] = icount[j] - IF o = j THEN 1 ELSE 0 BY <1>0, <2>1 DEF FileTypes
    <2>5. Cardinality(Files!Opens(j)') - Cardinality(Files!Opens(j)) = 0 BY <1>2, <2>1
    <2> QED BY <2>1, <2>2, <2>3, <2>4, <2>5
  <1>8. InodesCounted' BY <1>7 DEF InodesCounted, FileInodes
  <1>9. icount[o] >= 1
    <2>1. p \in Files!Homes(o) BY <1>4 DEF Files!Homes, o
    <2>2. Cardinality(Files!Homes(o)) >= 1 BY <1>0, <2>1, CountsFinite, Inhabited
    <2>3. icount[o] = Cardinality(Files!Opens(o)) + Cardinality(Files!Searches(o)) + Cardinality(Files!Homes(o))
      BY SameSets, <1>0 DEF FileInv, InodesCounted, Files!References
    <2>4. Cardinality(Files!Opens(o)) \in Nat /\ Cardinality(Files!Searches(o)) \in Nat /\ Cardinality(Files!Homes(o)) \in Nat
      BY <1>0, CountsFinite
    <2> QED BY <2>2, <2>3, <2>4
  <1>10. FileTypes'
    BY <1>0, <1>9, Places DEF FileTypes, FileInodes, Files!Slots, Ds, Doings, Structures, Files!Words
  <1>11. DeadClear' BY <1>0 DEF DeadClear, FileTypes, Ds
  <1> QED BY <1>2, <1>3, <1>8, <1>10, <1>11 DEF FileInv

(* exit begins; a transfer begins: nothing but where the process is. *)
LEMMA GoesStep ==
    ASSUME Files!FileAssumption, FileInv, NEW p \in Process, p \in alive, at[p] = Files!Idle, NEW r \in Doings, r.step \in {"exit", "transfer"},
           at' = [at EXCEPT ![p] = r], UNCHANGED <<ofile, file, icount, open, cdir, alive, meant>>, made' \in Nat
    PROVE  FileInv'
  <1>0. /\ FileTypes /\ DeadClear /\ InodesCounted
        /\ ofile' = ofile /\ file' = file /\ icount' = icount /\ open' = open /\ cdir' = cdir /\ alive' = alive /\ meant' = meant
    BY DEF FileInv
  <1>1. \A s : ~Files!Letting(at[p], s) /\ ~Files!Letting(r, s) BY DEF Files!Letting, Files!Idle
  <1>2. FilesCounted' /\ DriversTold' /\ LastAlone' /\ (\A j : Cardinality(Files!Opens(j)') = Cardinality(Files!Opens(j)))
    BY <1>0, <1>1, StructuresKept
  <1>3. OffsetsMeant' BY <1>0, OffsetsKept
  <1>4. ASSUME NEW j \in FileInodes
        PROVE  icount'[j] = icount[j] + (Cardinality(Files!Opens(j)') - Cardinality(Files!Opens(j)))
                            + (One(Files!Searching(r, j)) - One(Files!Searching(at[p], j)))
    <2>1. ~Files!Searching(r, j) /\ ~Files!Searching(at[p], j) BY DEF Files!Searching, Files!Idle
    <2>2. One(Files!Searching(r, j)) = 0 /\ One(Files!Searching(at[p], j)) = 0 BY <2>1 DEF One
    <2>3. Cardinality(Files!Opens(j)) \in Nat /\ icount[j] \in Nat BY <1>0, CountsFinite DEF FileTypes
    <2> QED BY <1>0, <1>2, <2>2, <2>3
  <1>5. InodesCounted'
    BY ONLY Files!FileAssumption, FileInv, <1>0, <1>4, at' = [at EXCEPT ![p] = r], Recounted
  <1>6. FileTypes' BY <1>0 DEF FileTypes, FileInodes, Files!Slots, Ds, Doings, Structures, Files!Words
  <1>7. DeadClear' BY <1>0 DEF DeadClear, FileTypes, Ds
  <1> QED BY <1>2, <1>3, <1>5, <1>6, <1>7 DEF FileInv

(* exit starts to close. *)
LEMMA ExitStep ==
    ASSUME Files!FileAssumption, FileInv, NEW p \in Process, Files!exit(p) PROVE FileInv'
  <1> DEFINE r == [step |-> "exit", inode |-> Files!Dir]
  <1>1. r \in Doings /\ r.step \in {"exit", "transfer"} /\ made' \in Nat /\ p \in alive /\ at[p] = Files!Idle
    BY Places DEF Files!exit, FileInv, FileTypes
  <1> QED BY <1>1, GoesStep DEF Files!exit

(* read or write holds a file while it is under way. *)
LEMMA RdwrStep ==
    ASSUME Files!FileAssumption, FileInv, NEW p \in Process, NEW d \in Ds, NEW mode, Files!rdwr(p, d, mode)
    PROVE  FileInv'
  <1> DEFINE r == [step |-> "transfer", inode |-> Files!Dir, slot |-> ofile[p][d]]
  <1>1. ofile[p][d] \in Files!Slots BY Held DEF Files!rdwr
  <1>2. r \in Doings /\ r.step \in {"exit", "transfer"} BY <1>1, Places
  <1>3. made' \in Nat /\ p \in alive /\ at[p] = Files!Idle
    BY DEF Files!rdwr, Files!Enters, FileInv, FileTypes
  <1> QED BY <1>2, <1>3, GoesStep DEF Files!rdwr

(* The process is gone, with its directory. *)
LEMMA ExitEndsStep ==
    ASSUME Files!FileAssumption, FileInv, NEW p \in Process, Files!ExitEnds(p) PROVE FileInv'
  <1> DEFINE o == cdir[p]
  <1>0. /\ FileTypes /\ DeadClear /\ at' = [at EXCEPT ![p] = Files!Idle] /\ icount' = [icount EXCEPT ![o] = @ - 1]
        /\ ofile' = ofile /\ file' = file /\ open' = open /\ cdir' = cdir /\ alive' = alive \ {p} /\ meant' = meant
        /\ at[p].step = "exit" /\ made' = made /\ o \in FileInodes /\ Files!Descriptors(p) = {}
    BY DEF FileInv, Files!ExitEnds, FileInodes, FileTypes
  <1>1. \A s : ~Files!Letting(at[p], s) /\ ~Files!Letting(Files!Idle, s)
    BY <1>0 DEF Files!Letting, Files!Idle
  <1>2. FilesCounted' /\ DriversTold' /\ LastAlone' /\ (\A j : Cardinality(Files!Opens(j)') = Cardinality(Files!Opens(j)))
    BY <1>0, <1>1, StructuresKept
  <1>3. OffsetsMeant' BY <1>0, OffsetsKept
  <1>4. p \in alive BY <1>0 DEF DeadClear, Files!Idle
  <1>5. \A j : ~Files!Searching(at[p], j) /\ ~Files!Searching(Files!Idle, j)
    BY <1>0 DEF Files!Searching, Files!Idle
  <1>6. alive' \subseteq Process /\ p \notin alive' /\ \A q \in Process : q # p => cdir'[q] = cdir[q] /\ (q \in alive' <=> q \in alive)
    BY <1>0 DEF FileTypes
  <1> HIDE DEF o
  <1>7. ASSUME NEW j \in FileInodes PROVE icount'[j] = Files!References(j)'
    <2>1. /\ icount[j] \in Nat /\ Cardinality(Files!Opens(j)) \in Nat
          /\ Files!References(j)' = icount[j] + (Cardinality(Files!Opens(j)') - Cardinality(Files!Opens(j)))
                               + (One(Files!Searching(Files!Idle, j)) - One(Files!Searching(at[p], j)))
                               + (One(p \in alive' /\ cdir'[p] = j) - One(p \in alive /\ cdir[p] = j))
      <3>1. at' = [at EXCEPT ![p] = Files!Idle] BY <1>0
      <3> QED BY ONLY Files!FileAssumption, FileInv, <3>1, <1>6, Rereferred
    <2>2. One(Files!Searching(Files!Idle, j)) = 0 /\ One(Files!Searching(at[p], j)) = 0 BY <1>5 DEF One
    <2>3. One(p \in alive' /\ cdir'[p] = j) = 0 /\ One(p \in alive /\ cdir[p] = j) = IF o = j THEN 1 ELSE 0
      BY <1>4, <1>6 DEF One, o
    <2>4. icount'[j] = icount[j] - IF o = j THEN 1 ELSE 0 BY <1>0, <2>1 DEF FileTypes
    <2>5. Cardinality(Files!Opens(j)') - Cardinality(Files!Opens(j)) = 0 BY <1>2, <2>1
    <2> QED BY <2>1, <2>2, <2>3, <2>4, <2>5
  <1>8. InodesCounted' BY <1>7 DEF InodesCounted, FileInodes
  <1>9. icount[o] >= 1
    <2>1. p \in Files!Homes(o) BY <1>4 DEF Files!Homes, o
    <2>2. Cardinality(Files!Homes(o)) >= 1 BY <1>0, <2>1, CountsFinite, Inhabited
    <2>3. icount[o] = Cardinality(Files!Opens(o)) + Cardinality(Files!Searches(o)) + Cardinality(Files!Homes(o))
      BY SameSets, <1>0 DEF FileInv, InodesCounted, Files!References
    <2>4. Cardinality(Files!Opens(o)) \in Nat /\ Cardinality(Files!Searches(o)) \in Nat /\ Cardinality(Files!Homes(o)) \in Nat
      BY <1>0, CountsFinite
    <2> QED BY <2>2, <2>3, <2>4
  <1>10. FileTypes'
    BY <1>0, <1>9, Places DEF FileTypes, FileInodes, Files!Slots, Ds, Doings, Structures, Files!Words
  <1>11. DeadClear' BY <1>0 DEF DeadClear, FileTypes, Ds, Files!Descriptors
  <1> QED BY <1>2, <1>3, <1>8, <1>10, <1>11 DEF FileInv

(* The first free descriptor. *)
LEMMA FreeDescriptor ==
    ASSUME Files!FileAssumption, NEW p \in Process, Files!FreeDescriptors(p) # {}
    PROVE  Files!ufalloc(p) \in Files!FreeDescriptors(p) /\ Files!ufalloc(p) \in Ds /\ ofile[p][Files!ufalloc(p)] = 0
  <1>1. Files!FreeDescriptors(p) \subseteq Nat BY DEF Files!FreeDescriptors, Files!FileAssumption
  <1>2. Files!ufalloc(p) \in Files!FreeDescriptors(p) BY <1>1, LeastIs DEF Files!ufalloc
  <1> QED BY <1>2 DEF Files!FreeDescriptors, Files!Descriptors, Ds

(* A structure and a descriptor for the inode looked up. *)
LEMMA OpenStep ==
    ASSUME Files!FileAssumption, FileInv, NEW p \in Process, NEW flag \in SUBSET {"read", "write"}, Files!open1(p, flag)
    PROVE  FileInv'
  <1> DEFINE s == Files!Least(Files!FreeSlots)
             i == at[p].inode
             d == Files!ufalloc(p)
             f == [count |-> 1, flag |-> flag, inode |-> i, offset |-> <<0, 0>>]
  <1>0. /\ FileTypes /\ DeadClear /\ at' = [at EXCEPT ![p] = Files!Idle] /\ icount' = icount
        /\ ofile' = [ofile EXCEPT ![p][d] = s] /\ file' = [file EXCEPT ![s] = f]
        /\ open' = open \cup ({i} \cap Device) /\ cdir' = cdir /\ alive' = alive /\ meant' = [meant EXCEPT ![s] = 0]
        /\ at[p].step = "open" /\ made' = made BY DEF FileInv, Files!open1
  <1>1. /\ s \in Files!Slots /\ file[s].count = 0 /\ Cardinality(Files!Holds(s)) = 0 /\ Cardinality(Files!Lasts(s)) = 0 /\ Files!Lasts(s) = {}
        /\ Files!FreeDescriptors(p) # {} BY Free DEF Files!open1, Files!CanAlloc
  <1>2. d \in Ds /\ ofile[p][d] = 0 /\ i \in FileInodes /\ s # 0 /\ s \in 0..NFILE
    BY <1>0, <1>1, FreeDescriptor, Noted DEF FileInodes, Files!Slots, Files!FileAssumption
  <1>3. f \in Structures /\ f.count = 1 /\ f.inode = i /\ f.offset = <<0, 0>>
    <2>1. 0 \in Files!Words BY DEF Files!FileAssumption, Files!Words
    <2> QED BY <1>2, <2>1 DEF Structures
  <1>4. \A t : ~Files!Letting(at[p], t) /\ ~Files!Letting(Files!Idle, t)
    BY <1>0 DEF Files!Letting, Files!Idle
  <1>5. \A j : (Files!Searching(at[p], j) <=> i = j) /\ ~Files!Searching(Files!Idle, j)
    BY <1>0 DEF Files!Searching, Files!Idle
  <1>6. p \in alive BY <1>0 DEF DeadClear, Files!Idle
  <1> HIDE DEF s, i, d, f
  <1>7. \A t : Files!Lasts(t)' = Files!Lasts(t)
    <2> TAKE t
    <2>1. Files!Lasts(t)' \ {p} = Files!Lasts(t) \ {p} /\ (p \in Files!Lasts(t)' <=> Files!Letting(Files!Idle, t))
      <3>1. at' = [at EXCEPT ![p] = Files!Idle] /\ FileTypes BY <1>0
      <3> QED BY ONLY Files!FileAssumption, <3>1, AtMoved
    <2>2. p \notin Files!Lasts(t) BY <1>4 DEF Files!Lasts
    <2> QED BY <1>4, <2>1, <2>2
  <1>8. file'[s] = f /\ \A t \in Files!Slots : t # s => file'[t] = file[t] BY <1>0, <1>1 DEF FileTypes
  <1>9. FilesCounted'
    <2> SUFFICES ASSUME NEW t \in Files!Slots PROVE file'[t].count = Cardinality(Files!Holds(t)') + Cardinality(Files!Lasts(t)')
      BY SameSets DEF FilesCounted, Files!Users, Files!Slots
    <2>1. Cardinality(Files!Holds(t)') = Cardinality(Files!Holds(t)) - (IF ofile[p][d] = t THEN 1 ELSE 0) + (IF s = t THEN 1 ELSE 0)
      <3>1. ofile'[p][d] = s /\ \A q \in Process, k \in Ds : q # p \/ k # d => ofile'[q][k] = ofile[q][k]
        BY <1>0, <1>2 DEF FileTypes
      <3>2. Cardinality(Files!Holds(t)') = Cardinality(Files!Holds(t)) - (IF ofile[p][d] = t THEN 1 ELSE 0) + (IF ofile'[p][d] = t THEN 1 ELSE 0)
        BY <1>0, <1>2, <3>1, HoldsMoved
      <3> QED BY <3>1, <3>2
    <2>2. ofile[p][d] # t
      <3>1. t # 0 BY DEF Files!Slots
      <3> QED BY <1>2, <3>1
    <2>3. Cardinality(Files!Holds(t)) \in Nat BY <1>0, CountsFinite
    <2>4. Cardinality(Files!Lasts(t)') = Cardinality(Files!Lasts(t)) /\ Cardinality(Files!Lasts(t)) \in Nat
      BY <1>0, <1>7, CountsFinite
    <2>5. CASE t = s
      <3>1. file'[t].count = 1 /\ Cardinality(Files!Holds(t)) = 0 /\ Cardinality(Files!Lasts(t)) = 0
        BY <1>1, <1>3, <1>8, <2>5
      <3> QED BY <2>1, <2>2, <2>4, <2>5, <3>1
    <2>6. CASE t # s
      <3>1. file'[t].count = Cardinality(Files!Holds(t)) + Cardinality(Files!Lasts(t))
        BY SameSets, <1>8, <2>6 DEF FileInv, FilesCounted, Files!Users
      <3> QED BY <2>1, <2>2, <2>3, <2>4, <2>6, <3>1
    <2> QED BY <2>5, <2>6
  <1>10. LastAlone'
    <2> SUFFICES ASSUME NEW t \in Files!Slots, NEW q \in Files!Lasts(t)' PROVE file'[t].count = 1 /\ file'[t].inode = at'[q].inode
      BY DEF LastAlone, Files!Slots
    <2>1. q \in Files!Lasts(t) /\ q # p /\ t # s BY <1>1, <1>4, <1>7 DEF Files!Lasts
    <2>2. at'[q] = at[q] BY <1>0, <2>1 DEF FileTypes, Files!Lasts
    <2>3. file[t].count = 1 /\ file[t].inode = at[q].inode BY <2>1 DEF LastAlone, FileInv
    <2> QED BY <1>8, <2>1, <2>2, <2>3
  <1>11. DriversTold'
    <2> SUFFICES ASSUME NEW t \in Files!Slots, file'[t].count > 0, file'[t].inode \in Device
                 PROVE  file'[t].inode \in open' \/ Files!Lasts(t)' # {} BY DEF DriversTold, Files!Slots
    <2>1. CASE t = s BY <1>0, <1>3, <1>8, <2>1
    <2>2. CASE t # s BY <1>0, <1>7, <1>8, <2>2 DEF FileInv, DriversTold
    <2> QED BY <2>1, <2>2
  <1>12. OffsetsMeant'
    <2> SUFFICES ASSUME NEW t \in Files!Slots, file'[t].count > 0 PROVE Files!Value(file'[t].offset) = meant'[t]
      BY DEF OffsetsMeant, Files!Slots, Files!Value
    <2>1. CASE t = s
      <3>1. meant'[t] = 0 BY <1>0, <2>1 DEF FileTypes
      <3>2. Files!Value(<<0, 0>>) = 0 BY DEF Files!Value, Files!FileAssumption
      <3> QED BY <1>3, <1>8, <2>1, <3>1, <3>2
    <2>2. CASE t # s
      <3>1. meant'[t] = meant[t] /\ file'[t] = file[t] BY <1>0, <1>8, <2>2 DEF FileTypes
      <3> QED BY <3>1 DEF FileInv, OffsetsMeant
    <2> QED BY <2>1, <2>2
  <1>13. InodesCounted'
    <2>1. ASSUME NEW j \in FileInodes
          PROVE  icount'[j] = icount[j] + (Cardinality(Files!Opens(j)') - Cardinality(Files!Opens(j)))
                              + (One(Files!Searching(Files!Idle, j)) - One(Files!Searching(at[p], j)))
      <3>1. Cardinality(Files!Opens(j)') = Cardinality(Files!Opens(j)) - (IF file[s].count > 0 /\ file[s].inode = j THEN 1 ELSE 0) + (IF f.count > 0 /\ f.inode = j THEN 1 ELSE 0)
        <4>1. Cardinality(Files!Opens(j)') = Cardinality(Files!Opens(j)) - (IF file[s].count > 0 /\ file[s].inode = j THEN 1 ELSE 0)
                                        + (IF file'[s].count > 0 /\ file'[s].inode = j THEN 1 ELSE 0)
          BY <1>0, <1>1, <1>8, OpensMoved
        <4> QED BY <1>8, <4>1
      <3>2. ~(file[s].count > 0) /\ f.count > 0 /\ f.inode = i BY <1>1, <1>3
      <3>3. One(Files!Searching(Files!Idle, j)) = 0 /\ One(Files!Searching(at[p], j)) = IF i = j THEN 1 ELSE 0
        BY <1>5 DEF One
      <3>4. icount[j] \in Nat /\ icount'[j] = icount[j] /\ Cardinality(Files!Opens(j)) \in Nat
        BY <1>0, CountsFinite DEF FileTypes
      <3> QED BY <3>1, <3>2, <3>3, <3>4
    <2>2. at' = [at EXCEPT ![p] = Files!Idle] /\ cdir' = cdir /\ alive' = alive BY <1>0
    <2> QED BY ONLY Files!FileAssumption, FileInv, <2>1, <2>2, Recounted
  <1>14. FileTypes'
    <2>1. ofile' \in [Process -> [Ds -> 0..NFILE]] /\ at' \in [Process -> Doings]
      BY <1>0, <1>2, Places DEF FileTypes
    <2>2. file' \in [Files!Slots -> Structures] /\ icount' \in [FileInodes -> Nat] /\ open' \in SUBSET Device
      BY <1>0, <1>1, <1>3 DEF FileTypes
    <2>3. meant' \in [Files!Slots -> 0..HALF * HALF - 1]
      <3>1. 0 \in 0..HALF * HALF - 1 BY ValueType DEF Files!FileAssumption, Files!Words
      <3> QED BY <1>0, <1>1, <3>1 DEF FileTypes
    <2> QED
      BY <1>0, <2>1, <2>2, <2>3 DEF FileTypes, FileInodes, Files!Slots, Ds, Doings, Structures, Files!Words
  <1>15. DeadClear' BY <1>0, <1>6 DEF DeadClear, FileTypes, Ds
  <1> QED BY <1>9, <1>10, <1>11, <1>12, <1>13, <1>14, <1>15 DEF FileInv

(* The types after a step. *)
LEMMA TypesNext ==
    ASSUME ofile' \in [Process -> [Ds -> 0..NFILE]], file' \in [Files!Slots -> Structures], icount' \in [FileInodes -> Nat], open' \in SUBSET Device,
           cdir' \in [Process -> INode \cup {Files!Dir}], at' \in [Process -> Doings], alive' \in SUBSET Process,
           meant' \in [Files!Slots -> 0..HALF * HALF - 1], made' \in Nat PROVE FileTypes'
  BY DEF FileTypes, FileInodes, Files!Slots, Ds, Doings, Structures, Files!Words

(* Nothing but the bound's counter moves. *)
LEMMA CallsStep ==
    ASSUME FileInv, UNCHANGED <<ofile, file, icount, open, cdir, at, alive, meant>>, made' \in Nat
    PROVE  FileInv'
  <1>1. FileTypes' /\ DeadClear'
    BY DEF FileInv, FileTypes, FileInodes, Files!Slots, Ds, Doings, Structures, Files!Words, DeadClear
  <1>2. \A s : Files!Holds(s)' = Files!Holds(s) /\ Files!Lasts(s)' = Files!Lasts(s)
    BY DEF Files!Holds, Files!Lasts, Files!Letting
  <1>3. \A i : Files!Opens(i)' = Files!Opens(i) /\ Files!Searches(i)' = Files!Searches(i) /\ Files!Homes(i)' = Files!Homes(i)
    BY DEF Files!Opens, Files!Searches, Files!Searching, Files!Homes, Files!Slots
  <1>4. LastAlone' /\ DriversTold' /\ OffsetsMeant'
    BY <1>2 DEF FileInv, LastAlone, DriversTold, OffsetsMeant, Files!Slots, Files!Value
  <1>5. FilesCounted' BY <1>2 DEF FileInv, FilesCounted, Files!Users, Files!Slots
  <1>6. InodesCounted' BY <1>3 DEF FileInv, InodesCounted, Files!References, FileInodes
  <1> QED BY <1>1, <1>4, <1>5, <1>6 DEF FileInv

(* Another descriptor for the same structure. *)
LEMMA DupStep ==
    ASSUME Files!FileAssumption, FileInv, NEW p \in Process, NEW d \in Ds, Files!dup(p, d) PROVE FileInv'
  <1>1. CASE Files!FreeDescriptors(p) = {}
    <2>1. UNCHANGED <<ofile, file, icount, open, cdir, at, alive, meant>> /\ made' \in Nat
      BY <1>1 DEF Files!dup, Files!Enters, FileInv, FileTypes
    <2> QED BY <2>1, CallsStep
  <1>2. CASE Files!FreeDescriptors(p) # {}
    <2> DEFINE s == ofile[p][d]
               e == Files!ufalloc(p)
               f == [file[s] EXCEPT !.count = @ + 1]
    <2>0. /\ FileTypes /\ DeadClear /\ at' = at /\ icount' = icount
          /\ ofile' = [ofile EXCEPT ![p][e] = s] /\ open' = open /\ cdir' = cdir /\ alive' = alive /\ meant' = meant
          /\ p \in alive /\ made' = made + 1 /\ s # 0 BY <1>2 DEF FileInv, Files!dup, Files!Enters
    <2>1. /\ s \in Files!Slots /\ file[s] \in Structures /\ Files!Lasts(s) = {} /\ file[s].count = Cardinality(Files!Holds(s)) /\ file[s].count > 0 /\ file[s].count \in Nat
          /\ Cardinality(Files!Holds(s)) >= 1 /\ Cardinality(Files!Lasts(s)) = 0 BY <2>0, Held
    <2>2. e \in Ds /\ ofile[p][e] = 0 /\ s \in 0..NFILE
      BY <1>2, <2>1, FreeDescriptor DEF Files!Slots, Files!FileAssumption
    <2>3. f \in Structures /\ f.count = file[s].count + 1 /\ f.inode = file[s].inode /\ f.offset = file[s].offset
      BY <2>1 DEF Structures
    <2>4. file' = [file EXCEPT ![s] = f] BY <1>2, <2>0, <2>1 DEF Files!dup, FileTypes
    <2> HIDE DEF s, e, f
    <2>5. \A t : Files!Lasts(t)' = Files!Lasts(t) BY <2>0 DEF Files!Lasts, Files!Letting
    <2>6. file'[s] = f /\ \A t \in Files!Slots : t # s => file'[t] = file[t]
      BY <2>0, <2>1, <2>4 DEF FileTypes
    <2>7. FilesCounted'
      <3> SUFFICES ASSUME NEW t \in Files!Slots PROVE file'[t].count = Cardinality(Files!Holds(t)') + Cardinality(Files!Lasts(t)')
        BY SameSets DEF FilesCounted, Files!Users, Files!Slots
      <3>1. Cardinality(Files!Holds(t)') = Cardinality(Files!Holds(t)) - (IF ofile[p][e] = t THEN 1 ELSE 0) + (IF s = t THEN 1 ELSE 0)
        <4>1. ofile'[p][e] = s /\ \A q \in Process, k \in Ds : q # p \/ k # e => ofile'[q][k] = ofile[q][k]
          BY <2>0, <2>2 DEF FileTypes
        <4>2. Cardinality(Files!Holds(t)') = Cardinality(Files!Holds(t)) - (IF ofile[p][e] = t THEN 1 ELSE 0) + (IF ofile'[p][e] = t THEN 1 ELSE 0)
          BY <2>0, <2>2, <4>1, HoldsMoved
        <4> QED BY <4>1, <4>2
      <3>2. ofile[p][e] # t
        <4>1. t # 0 BY DEF Files!Slots
        <4> QED BY <2>2, <4>1
      <3>3. Cardinality(Files!Holds(t)) \in Nat BY <2>0, CountsFinite
      <3>4. Cardinality(Files!Lasts(t)') = Cardinality(Files!Lasts(t)) /\ Cardinality(Files!Lasts(t)) \in Nat
        BY <2>0, <2>5, CountsFinite
      <3>5. file[t].count = Cardinality(Files!Holds(t)) + Cardinality(Files!Lasts(t))
        BY SameSets DEF FileInv, FilesCounted, Files!Users
      <3>6. CASE t = s BY <2>3, <2>6, <3>1, <3>2, <3>3, <3>4, <3>5, <3>6
      <3>7. CASE t # s BY <2>6, <3>1, <3>2, <3>3, <3>4, <3>5, <3>7
      <3> QED BY <3>6, <3>7
    <2>8. LastAlone'
      <3> SUFFICES ASSUME NEW t \in Files!Slots, NEW q \in Files!Lasts(t)' PROVE file'[t].count = 1 /\ file'[t].inode = at'[q].inode
        BY DEF LastAlone, Files!Slots
      <3>1. q \in Files!Lasts(t) /\ t # s BY <2>1, <2>5
      <3>2. file[t].count = 1 /\ file[t].inode = at[q].inode BY <3>1 DEF LastAlone, FileInv
      <3> QED BY <2>0, <2>6, <3>1, <3>2
    <2>9. DriversTold'
      <3> SUFFICES ASSUME NEW t \in Files!Slots, file'[t].count > 0, file'[t].inode \in Device
                   PROVE  file'[t].inode \in open' \/ Files!Lasts(t)' # {} BY DEF DriversTold, Files!Slots
      <3>1. file[t].count > 0 /\ file'[t].inode = file[t].inode BY <2>1, <2>3, <2>6
      <3> QED BY <2>0, <2>5, <3>1 DEF FileInv, DriversTold
    <2>10. OffsetsMeant'
      <3>1. \A t \in Files!Slots : file'[t].count > 0 => file[t].count > 0 /\ file'[t].offset = file[t].offset
        BY <2>1, <2>3, <2>6
      <3> QED BY <2>0, <3>1, OffsetsKept
    <2>11. InodesCounted'
      <3> SUFFICES ASSUME NEW j \in FileInodes PROVE icount'[j] = Cardinality(Files!Opens(j)') + Cardinality(Files!Searches(j)') + Cardinality(Files!Homes(j)')
        BY SameSets DEF InodesCounted, FileInodes, Files!References
      <3>1. Cardinality(Files!Opens(j)') = Cardinality(Files!Opens(j)) - (IF file[s].count > 0 /\ file[s].inode = j THEN 1 ELSE 0) + (IF f.count > 0 /\ f.inode = j THEN 1 ELSE 0)
        <4>1. Cardinality(Files!Opens(j)') = Cardinality(Files!Opens(j)) - (IF file[s].count > 0 /\ file[s].inode = j THEN 1 ELSE 0)
                                        + (IF file'[s].count > 0 /\ file'[s].inode = j THEN 1 ELSE 0)
          BY <2>0, <2>1, <2>6, OpensMoved
        <4> QED BY <2>6, <4>1
      <3>2. file[s].count > 0 /\ f.count > 0 BY <2>1, <2>3
      <3>3. (file[s].count > 0 /\ file[s].inode = j) <=> (f.count > 0 /\ f.inode = j) BY <2>3, <3>2
      <3>5. Files!Searches(j)' = Files!Searches(j) /\ Files!Homes(j)' = Files!Homes(j)
        BY <2>0 DEF Files!Searches, Files!Searching, Files!Homes
      <3>6. icount[j] = Cardinality(Files!Opens(j)) + Cardinality(Files!Searches(j)) + Cardinality(Files!Homes(j)) /\ Cardinality(Files!Opens(j)) \in Nat
        BY SameSets, <2>0, CountsFinite DEF FileInv, InodesCounted, Files!References
      <3>7. Cardinality(Files!Opens(j)') = Cardinality(Files!Opens(j)) BY <3>1, <3>3, <3>6
      <3> QED BY <2>0, <3>5, <3>6, <3>7
    <2>12. FileTypes'
      <3>1. ofile' \in [Process -> [Ds -> 0..NFILE]] /\ file' \in [Files!Slots -> Structures]
        BY <2>0, <2>1, <2>2, <2>3, <2>4 DEF FileTypes
      <3> QED
        BY <2>0, <3>1 DEF FileTypes, FileInodes, Files!Slots, Ds, Doings, Structures, Files!Words
    <2>13. DeadClear' BY <2>0 DEF DeadClear, FileTypes, Ds
    <2> QED BY <2>7, <2>8, <2>9, <2>10, <2>11, <2>12, <2>13 DEF FileInv
  <1> QED BY <1>1, <1>2

(* What remains of two or more, less the least, has a least of its own.    *)
LEMMA SecondLeast ==
    ASSUME NEW S, S \subseteq Nat, IsFiniteSet(S), Cardinality(S) >= 2
    PROVE  /\ Files!Least(S) \in S /\ S # {} /\ Files!Least(S \ {Files!Least(S)}) \in S /\ Files!Least(S \ {Files!Least(S)}) # Files!Least(S)
  <1>1. S # {} BY FS_EmptySet
  <1>2. Files!Least(S) \in S BY <1>1, LeastIs
  <1>3. Cardinality(S \ {Files!Least(S)}) = Cardinality(S) - 1 /\ Cardinality(S) \in Nat
    BY <1>2, FS_RemoveElement, FS_CardinalityType
  <1>4. S \ {Files!Least(S)} # {}
    <2> SUFFICES ASSUME S \ {Files!Least(S)} = {} PROVE FALSE OBVIOUS
    <2>1. Cardinality(S \ {Files!Least(S)}) = 0 BY FS_EmptySet
    <2> QED BY <1>3, <2>1
  <1>5. Files!Least(S \ {Files!Least(S)}) \in S \ {Files!Least(S)} BY <1>4, LeastIs
  <1> QED BY <1>1, <1>2, <1>5

(* Two structures and two descriptors for a new pipe. *)
LEMMA PipeStep ==
    ASSUME Files!FileAssumption, FileInv, NEW p \in Process, Files!pipe(p) PROVE FileInv'
  <1>1. CASE ~(Cardinality(Files!FreeDescriptors(p)) >= 2 /\ Cardinality(Files!FreeSlots) >= 2)
    <2>1. UNCHANGED <<ofile, file, icount, open, cdir, at, alive, meant>> /\ made' \in Nat
      BY SameSets, <1>1 DEF Files!pipe, Files!Enters, FileInv, FileTypes
    <2> QED BY <2>1, CallsStep
  <1>2. CASE Cardinality(Files!FreeDescriptors(p)) >= 2 /\ Cardinality(Files!FreeSlots) >= 2
    <2> DEFINE r == Files!Least(Files!FreeSlots)
               w == Files!Least(Files!FreeSlots \ {r})
               d == Files!ufalloc(p)
               e == Files!Least(Files!FreeDescriptors(p) \ {d})
    <2>0. /\ FileTypes /\ DeadClear /\ at' = at /\ icount' = [icount EXCEPT ![Files!Pipe] = 2] /\ icount[Files!Pipe] = 0
          /\ ofile' = [ofile EXCEPT ![p][d] = r, ![p][e] = w] /\ open' = open /\ cdir' = cdir /\ alive' = alive
          /\ file' = [file EXCEPT ![r] = Files!PipeEnd({"read"}), ![w] = Files!PipeEnd({"write"})]
          /\ meant' = [meant EXCEPT ![r] = 0, ![w] = 0] /\ p \in alive /\ made' = made + 1
      BY SameSets, <1>2 DEF FileInv, Files!pipe, Files!Enters
    <2>1. r \in Files!FreeSlots /\ w \in Files!FreeSlots /\ r # w
      <3>1. Files!FreeSlots \subseteq Files!Slots /\ Files!FreeSlots \subseteq Nat /\ IsFiniteSet(Files!Slots)
        <4>1. Files!FreeSlots \subseteq Files!Slots /\ Files!Slots \subseteq Nat
          BY DEF Files!FreeSlots, Files!Slots
        <4>2. IsFiniteSet(1..NFILE) BY FS_Interval DEF Files!FileAssumption
        <4> QED BY <4>1, <4>2 DEF Files!Slots
      <3>2. IsFiniteSet(Files!FreeSlots) BY <3>1, FS_Subset
      <3> QED BY <1>2, <3>1, <3>2, SecondLeast
    <2>2. d \in Ds /\ e \in Ds /\ d # e /\ ofile[p][d] = 0 /\ ofile[p][e] = 0
      <3>1. Files!FreeDescriptors(p) \subseteq Ds /\ Files!FreeDescriptors(p) \subseteq Nat /\ IsFiniteSet(Ds)
        <4>1. Files!FreeDescriptors(p) \subseteq Ds /\ Ds \subseteq Nat BY DEF Files!FreeDescriptors, Ds
        <4> QED BY <2>0, <4>1, CountsFinite
      <3>2. IsFiniteSet(Files!FreeDescriptors(p)) BY <3>1, FS_Subset
      <3>3. d \in Files!FreeDescriptors(p) /\ e \in Files!FreeDescriptors(p) /\ d # e
        BY <1>2, <3>1, <3>2, SecondLeast DEF Files!ufalloc
      <3> QED BY <3>3 DEF Files!FreeDescriptors, Files!Descriptors, Ds
    <2>3. /\ r \in Files!Slots /\ file[r].count = 0 /\ Files!Holds(r) = {} /\ Files!Lasts(r) = {} /\ r # 0
          /\ w \in Files!Slots /\ file[w].count = 0 /\ Files!Holds(w) = {} /\ Files!Lasts(w) = {} /\ w # 0
      <3>1. \A s \in Files!FreeSlots : s \in Files!Slots /\ file[s].count = 0 /\ Files!Holds(s) = {} /\ Files!Lasts(s) = {}
        BY FreeSlot
      <3>2. \A s \in Files!Slots : s # 0 BY DEF Files!Slots
      <3> QED BY <2>1, <3>1, <3>2
    <2> DEFINE f == Files!PipeEnd({"read"})
               g == Files!PipeEnd({"write"})
    <2>4. /\ f \in Structures /\ f.count = 1 /\ f.inode = Files!Pipe /\ f.offset = <<0, 0>>
          /\ g \in Structures /\ g.count = 1 /\ g.inode = Files!Pipe /\ g.offset = <<0, 0>>
      <3>1. 0 \in Files!Words BY DEF Files!FileAssumption, Files!Words
      <3> QED BY <3>1 DEF Structures, Files!PipeEnd, FileInodes
    <2> HIDE DEF r, w, d, e, f, g
    <2>5. /\ ofile' \in [Process -> [Ds -> 0..NFILE]] /\ ofile'[p][d] = r /\ ofile'[p][e] = w
          /\ \A q \in Process, k \in Ds : q # p \/ k \notin {d, e} => ofile'[q][k] = ofile[q][k]
      <3>1. r \in 0..NFILE /\ w \in 0..NFILE BY <2>3 DEF Files!Slots, Files!FileAssumption
      <3> QED BY <2>0, <2>2, <3>1 DEF FileTypes
    <2>6. file'[r] = f /\ file'[w] = g /\ (\A t \in Files!Slots : t \notin {r, w} => file'[t] = file[t]) /\ file' \in [Files!Slots -> Structures]
      BY <2>0, <2>1, <2>3, <2>4 DEF FileTypes, f, g
    <2>7. \A t : Files!Lasts(t)' = Files!Lasts(t) BY <2>0 DEF Files!Lasts, Files!Letting
    <2>8. FilesCounted'
      <3> SUFFICES ASSUME NEW t \in Files!Slots PROVE file'[t].count = Cardinality(Files!Holds(t)') + Cardinality(Files!Lasts(t)')
        BY SameSets DEF FilesCounted, Files!Users, Files!Slots
      <3>1. Files!Holds(t)' = {h \in Process \X Ds : ofile'[h[1]][h[2]] = t} /\ Files!Holds(t) = {h \in Process \X Ds : ofile[h[1]][h[2]] = t}
        BY DEF Files!Holds, Ds
      <3>2. t # 0 BY DEF Files!Slots
      <3>3. CASE t = r
        <4>1. Files!Holds(t)' = {<<p, d>>} BY <2>1, <2>2, <2>3, <2>5, <3>1, <3>3
        <4>2. Cardinality(Files!Holds(t)') = 1 BY <4>1, FS_Singleton
        <4>3. Cardinality(Files!Lasts(t)') = 0 BY <2>3, <2>7, <3>3, FS_EmptySet
        <4> QED BY <2>4, <2>6, <3>3, <4>2, <4>3
      <3>4. CASE t = w
        <4>1. Files!Holds(t)' = {<<p, e>>} BY <2>1, <2>2, <2>3, <2>5, <3>1, <3>4
        <4>2. Cardinality(Files!Holds(t)') = 1 BY <4>1, FS_Singleton
        <4>3. Cardinality(Files!Lasts(t)') = 0 BY <2>3, <2>7, <3>4, FS_EmptySet
        <4> QED BY <2>4, <2>6, <3>4, <4>2, <4>3
      <3>5. CASE t \notin {r, w}
        <4>1. Files!Holds(t)' = Files!Holds(t) BY <2>2, <2>5, <3>1, <3>2, <3>5
        <4>2. file[t].count = Cardinality(Files!Holds(t)) + Cardinality(Files!Lasts(t))
          BY SameSets DEF FileInv, FilesCounted, Files!Users
        <4> QED BY <2>6, <2>7, <3>5, <4>1, <4>2
      <3> QED BY <3>3, <3>4, <3>5
    <2>9. LastAlone'
      <3> SUFFICES ASSUME NEW t \in Files!Slots, NEW q \in Files!Lasts(t)' PROVE file'[t].count = 1 /\ file'[t].inode = at'[q].inode
        BY DEF LastAlone, Files!Slots
      <3>1. q \in Files!Lasts(t) /\ t \notin {r, w} BY <2>3, <2>7
      <3>2. file[t].count = 1 /\ file[t].inode = at[q].inode BY <3>1 DEF LastAlone, FileInv
      <3> QED BY <2>0, <2>6, <3>1, <3>2
    <2>10. DriversTold'
      <3> SUFFICES ASSUME NEW t \in Files!Slots, file'[t].count > 0, file'[t].inode \in Device
                   PROVE  file'[t].inode \in open' \/ Files!Lasts(t)' # {} BY DEF DriversTold, Files!Slots
      <3>1. t \notin {r, w} BY <2>4, <2>6 DEF Files!FileAssumption
      <3> QED BY <2>0, <2>6, <2>7, <3>1 DEF FileInv, DriversTold
    <2>11. OffsetsMeant'
      <3> SUFFICES ASSUME NEW t \in Files!Slots, file'[t].count > 0 PROVE Files!Value(file'[t].offset) = meant'[t]
        BY DEF OffsetsMeant, Files!Slots, Files!Value
      <3>1. CASE t \in {r, w}
        <4>1. meant'[t] = 0 BY <2>0, <3>1 DEF FileTypes
        <4>2. Files!Value(<<0, 0>>) = 0 BY DEF Files!Value, Files!FileAssumption
        <4> QED BY <2>4, <2>6, <3>1, <4>1, <4>2
      <3>2. CASE t \notin {r, w}
        <4>1. meant'[t] = meant[t] /\ file'[t] = file[t] BY <2>0, <2>6, <3>2 DEF FileTypes
        <4> QED BY <4>1 DEF FileInv, OffsetsMeant
      <3> QED BY <3>1, <3>2
    <2>12. InodesCounted'
      <3> SUFFICES ASSUME NEW j \in FileInodes PROVE icount'[j] = Cardinality(Files!Opens(j)') + Cardinality(Files!Searches(j)') + Cardinality(Files!Homes(j)')
        BY SameSets DEF InodesCounted, FileInodes, Files!References
      <3>1. Files!Searches(j)' = Files!Searches(j) /\ Files!Homes(j)' = Files!Homes(j)
        BY <2>0 DEF Files!Searches, Files!Searching, Files!Homes
      <3>2. /\ icount[j] = Cardinality(Files!Opens(j)) + Cardinality(Files!Searches(j)) + Cardinality(Files!Homes(j))
            /\ Cardinality(Files!Opens(j)) \in Nat /\ Cardinality(Files!Searches(j)) \in Nat /\ Cardinality(Files!Homes(j)) \in Nat
        BY SameSets, <2>0, CountsFinite DEF FileInv, InodesCounted, Files!References
      <3>3. Files!Opens(j)' = {t \in Files!Slots : file'[t].count > 0 /\ file'[t].inode = j} /\ IsFiniteSet(Files!Opens(j))
        BY <2>0, CountsFinite DEF Files!Opens, Files!Slots
      <3>4. CASE j = Files!Pipe
        <4>1. Cardinality(Files!Opens(j)) = 0 /\ Cardinality(Files!Searches(j)) = 0 /\ Cardinality(Files!Homes(j)) = 0
          BY <2>0, <3>2, <3>4
        <4>2. Files!Opens(j) = {} BY <3>3, <4>1, FS_EmptySet
        <4>3. Files!Opens(j)' = {r, w} BY <2>3, <2>4, <2>6, <3>3, <3>4, <4>2 DEF Files!Opens
        <4>4. {r, w} = {r} \cup {w} /\ w \notin {r} BY <2>1
        <4>5. Cardinality({r}) = 1 /\ IsFiniteSet({r}) BY FS_Singleton
        <4>6. Cardinality({r} \cup {w}) = 2 BY <4>4, <4>5, FS_AddElement
        <4>7. icount'[j] = 2 BY <2>0, <3>4 DEF FileTypes
        <4> QED BY <3>1, <4>1, <4>3, <4>4, <4>6, <4>7
      <3>5. CASE j # Files!Pipe
        <4>1. Files!Opens(j)' = Files!Opens(j) BY <2>3, <2>4, <2>6, <3>3, <3>5 DEF Files!Opens
        <4>2. icount'[j] = icount[j] BY <2>0, <3>5 DEF FileTypes
        <4> QED BY <3>1, <3>2, <4>1, <4>2
      <3> QED BY <3>4, <3>5
    <2>13. FileTypes'
      <3>1. icount' \in [FileInodes -> Nat] BY <2>0 DEF FileTypes
      <3>2. meant' \in [Files!Slots -> 0..HALF * HALF - 1]
        <4>1. 0 \in 0..HALF * HALF - 1 BY ValueType DEF Files!FileAssumption, Files!Words
        <4> QED BY <2>0, <4>1 DEF FileTypes
      <3> QED
        <4>1. open' \in SUBSET Device /\ cdir' \in [Process -> INode \cup {Files!Dir}] /\ at' \in [Process -> Doings] /\ alive' \in SUBSET Process
              /\ made' \in Nat BY <2>0 DEF FileTypes
        <4> QED BY <2>5, <2>6, <3>1, <3>2, <4>1, TypesNext
    <2>14. DeadClear' BY <2>0, <2>5 DEF DeadClear, FileTypes, Ds
    <2> QED BY <2>8, <2>9, <2>10, <2>11, <2>12, <2>13, <2>14 DEF FileInv
  <1> QED BY <1>1, <1>2

(* The child's descriptors. *)
LEMMA ForkHolds ==
    ASSUME Files!FileAssumption, FileInv, NEW p \in Process, NEW q \in Process, q \notin alive, ofile' = [ofile EXCEPT ![q] = ofile[p]], NEW s \in Files!Slots
    PROVE  /\ Cardinality(Files!Holds(s)') = Cardinality(Files!Holds(s)) + Files!Holders(p, s) /\ Files!Holders(p, s) \in Nat
           /\ Files!Holders(p, s) > 0 => Cardinality(Files!Holds(s)) > 0
  <1> DEFINE D == {d \in Ds : ofile[p][d] = s}
             S == Files!Holds(s)
  <1>0. FileTypes /\ IsFiniteSet(S) /\ Cardinality(S) \in Nat /\ IsFiniteSet(Ds) /\ s # 0
    BY CountsFinite DEF FileInv, Files!Slots
  <1>1. Files!Holders(p, s) = Cardinality(D) /\ IsFiniteSet(D) /\ Cardinality(D) \in Nat
    <2>1. {d \in Files!Descriptors(p) : ofile[p][d] = s} = D BY <1>0 DEF Files!Descriptors, Ds
    <2>2. IsFiniteSet(D) BY <1>0, FS_Subset
    <2> QED BY SameSets, <2>1, <2>2, FS_CardinalityType DEF Files!Holders
  <1>2. Files!Holds(s)' = S \cup ({q} \X D)
    <2>1. Files!Holds(s)' = {h \in Process \X Ds : ofile'[h[1]][h[2]] = s} /\ S = {h \in Process \X Ds : ofile[h[1]][h[2]] = s}
      BY DEF Files!Holds, Ds
    <2>2. \A h \in Process \X Ds : ofile'[h[1]][h[2]] = IF h[1] = q THEN ofile[p][h[2]] ELSE ofile[h[1]][h[2]]
      BY <1>0 DEF FileTypes
    <2>3. \A d \in Ds : ofile[q][d] # s BY <1>0 DEF FileInv, DeadClear
    <2> QED BY <2>1, <2>2, <2>3
  <1>3. S \cap ({q} \X D) = {} BY <1>0 DEF FileInv, DeadClear, Files!Holds, Ds
  <1>4. D # {} => S # {}
    <2> SUFFICES ASSUME NEW d \in D PROVE S # {} OBVIOUS
    <2>1. <<p, d>> \in S BY DEF Files!Holds, Ds
    <2> QED BY <2>1
  <1> HIDE DEF D, S
  <1>5. IsFiniteSet({q} \X D) /\ Cardinality({q} \X D) = Cardinality(D)
    <2>1. IsFiniteSet({q}) /\ Cardinality({q}) = 1 BY FS_Singleton
    <2>2. IsFiniteSet({q} \X D) /\ Cardinality({q} \X D) = Cardinality({q}) * Cardinality(D)
      BY <1>1, <2>1, FS_Product
    <2> QED BY <1>1, <2>1, <2>2
  <1>6. Cardinality(S \cup ({q} \X D)) = Cardinality(S) + Cardinality(D)
    <2>1. Cardinality(S \cup ({q} \X D)) = Cardinality(S) + Cardinality({q} \X D) - Cardinality(S \cap ({q} \X D))
      BY <1>0, <1>5, FS_Union
    <2>2. Cardinality(S \cap ({q} \X D)) = 0 BY <1>3, FS_EmptySet
    <2> QED BY <1>0, <1>1, <1>5, <2>1, <2>2
  <1>7. Cardinality(D) > 0 => Cardinality(S) > 0
    <2> SUFFICES ASSUME Cardinality(D) > 0 PROVE Cardinality(S) > 0 OBVIOUS
    <2>1. D # {} BY FS_EmptySet
    <2>2. PICK h \in S : TRUE BY <1>4, <2>1
    <2>3. Cardinality(S) >= 1 BY <1>0, <2>2, Inhabited
    <2> QED BY <1>0, <2>3
  <1> QED BY <1>1, <1>2, <1>6, <1>7 DEF S

(* The child shares the parent's structures and directory. *)
LEMMA ForkStep ==
    ASSUME Files!FileAssumption, FileInv, NEW p \in Process, NEW q \in Process, Files!fork(p, q)
    PROVE  FileInv'
  <1> DEFINE o == cdir[p]
  <1>0. /\ FileTypes /\ DeadClear /\ at' = at /\ icount' = [icount EXCEPT ![o] = @ + 1]
        /\ ofile' = [ofile EXCEPT ![q] = ofile[p]] /\ open' = open /\ cdir' = [cdir EXCEPT ![q] = o] /\ alive' = alive \cup {q}
        /\ file' = [s \in Files!Slots |-> [file[s] EXCEPT !.count = @ + Files!Holders(p, s)]] /\ meant' = meant
        /\ p \in alive /\ made' = made + 1 /\ q \notin alive /\ o \in FileInodes
    BY DEF FileInv, Files!fork, Files!Enters, FileTypes, FileInodes
  <1> HIDE DEF o
  <1>1. \A s \in Files!Slots : /\ Cardinality(Files!Holds(s)') = Cardinality(Files!Holds(s)) + Files!Holders(p, s) /\ Files!Holders(p, s) \in Nat
                               /\ Files!Holders(p, s) > 0 => Cardinality(Files!Holds(s)) > 0
    BY <1>0, ForkHolds
  <1>2. \A s : Files!Lasts(s)' = Files!Lasts(s) BY <1>0 DEF Files!Lasts, Files!Letting
  <1>3. \A s \in Files!Slots : /\ file[s].count = Cardinality(Files!Holds(s)) + Cardinality(Files!Lasts(s)) /\ file[s] \in Structures /\ file[s].count \in Nat
                               /\ Cardinality(Files!Holds(s)) \in Nat /\ Cardinality(Files!Lasts(s)) \in Nat
    <2>1. \A s \in Files!Slots : file[s].count = Cardinality(Files!Holds(s)) + Cardinality(Files!Lasts(s))
      BY SameSets DEF FileInv, FilesCounted, Files!Users
    <2>2. \A s \in Files!Slots : file[s] \in Structures /\ file[s].count \in Nat
      BY <1>0 DEF FileTypes, Structures
    <2> QED BY <1>0, <2>1, <2>2, CountsFinite
  <1>4. \A s \in Files!Slots : /\ file'[s] \in Structures /\ file'[s].count = file[s].count + Files!Holders(p, s)
                               /\ file'[s].inode = file[s].inode /\ file'[s].offset = file[s].offset
    <2> TAKE s \in Files!Slots
    <2>1. file'[s] = [file[s] EXCEPT !.count = @ + Files!Holders(p, s)] /\ file[s] \in Structures /\ Files!Holders(p, s) \in Nat
      BY <1>0, <1>1, <1>3
    <2> QED BY <2>1 DEF Structures
  <1>5. \A s \in Files!Slots : file'[s].count > 0 => file[s].count > 0
    <2> SUFFICES ASSUME NEW s \in Files!Slots, file'[s].count > 0 PROVE file[s].count > 0 OBVIOUS
    <2>1. CASE Files!Holders(p, s) > 0 BY <1>1, <1>3, <2>1
    <2>2. CASE ~(Files!Holders(p, s) > 0) BY <1>1, <1>3, <1>4, <2>2
    <2> QED BY <2>1, <2>2
  <1>6. \A s \in Files!Slots : file[s].count > 0 => file'[s].count > 0 BY <1>1, <1>3, <1>4
  <1>7. FilesCounted'
    <2> SUFFICES ASSUME NEW s \in Files!Slots PROVE file'[s].count = Cardinality(Files!Holds(s)') + Cardinality(Files!Lasts(s)')
      BY SameSets DEF FilesCounted, Files!Users, Files!Slots
    <2>1. Cardinality(Files!Lasts(s)') = Cardinality(Files!Lasts(s)) BY <1>2
    <2> QED BY <1>1, <1>3, <1>4, <2>1
  <1>8. LastAlone'
    <2> SUFFICES ASSUME NEW s \in Files!Slots, NEW x \in Files!Lasts(s)' PROVE file'[s].count = 1 /\ file'[s].inode = at'[x].inode
      BY DEF LastAlone, Files!Slots
    <2>1. x \in Files!Lasts(s) /\ file[s].count = 1 /\ file[s].inode = at[x].inode
      BY <1>2 DEF LastAlone, FileInv
    <2>2. Cardinality(Files!Lasts(s)) >= 1 BY <1>0, <2>1, CountsFinite, Inhabited
    <2>3. Files!Holders(p, s) = 0 BY <1>1, <1>3, <2>1, <2>2
    <2>4. file'[s].count = 1 BY <1>4, <2>1, <2>3
    <2> QED BY <1>0, <1>4, <2>1, <2>4
  <1>9. DriversTold'
    <2> SUFFICES ASSUME NEW s \in Files!Slots, file'[s].count > 0, file'[s].inode \in Device
                 PROVE  file'[s].inode \in open' \/ Files!Lasts(s)' # {} BY DEF DriversTold, Files!Slots
    <2>1. file[s].count > 0 /\ file'[s].inode = file[s].inode BY <1>4, <1>5
    <2> QED BY <1>0, <1>2, <2>1 DEF FileInv, DriversTold
  <1>10. OffsetsMeant' BY <1>0, <1>4, <1>5, OffsetsKept
  <1>11. \A j : Files!Opens(j)' = Files!Opens(j)
    <2> TAKE j
    <2>1. Files!Opens(j)' = {s \in Files!Slots : file'[s].count > 0 /\ file'[s].inode = j}
      BY DEF Files!Opens, Files!Slots
    <2> QED BY <1>4, <1>5, <1>6, <2>1 DEF Files!Opens
  <1>12. \A x \in Process : x # q => cdir'[x] = cdir[x] /\ (x \in alive' <=> x \in alive)
    BY <1>0 DEF FileTypes
  <1>13. alive' \subseteq Process /\ at' = [at EXCEPT ![q] = at[q]] /\ cdir'[q] = o /\ q \in alive'
    BY <1>0 DEF FileTypes
  <1>14. InodesCounted'
    <2> SUFFICES ASSUME NEW j \in FileInodes PROVE icount'[j] = Cardinality(Files!Opens(j)') + Cardinality(Files!Searches(j)') + Cardinality(Files!Homes(j)')
      BY SameSets DEF InodesCounted, FileInodes, Files!References
    <2>1. Files!Searches(j)' = Files!Searches(j) BY <1>0 DEF Files!Searches, Files!Searching
    <2>2. Cardinality(Files!Homes(j)') = Cardinality(Files!Homes(j)) - One(q \in alive /\ cdir[q] = j) + One(q \in alive' /\ cdir'[q] = j)
      BY <1>0, <1>12, <1>13, HomesMoved
    <2>3. One(q \in alive' /\ cdir'[q] = j) = (IF o = j THEN 1 ELSE 0) /\ One(q \in alive /\ cdir[q] = j) = 0
      BY <1>0, <1>13 DEF One
    <2>4. /\ icount[j] = Cardinality(Files!Opens(j)) + Cardinality(Files!Searches(j)) + Cardinality(Files!Homes(j)) /\ icount[j] \in Nat
          /\ Cardinality(Files!Opens(j)) \in Nat /\ Cardinality(Files!Searches(j)) \in Nat /\ Cardinality(Files!Homes(j)) \in Nat
      BY SameSets, <1>0, CountsFinite DEF FileInv, FileTypes, InodesCounted, Files!References
    <2>5. icount'[j] = icount[j] + IF o = j THEN 1 ELSE 0 BY <1>0, <2>4 DEF FileTypes
    <2>6. Cardinality(Files!Opens(j)') = Cardinality(Files!Opens(j)) BY <1>11
    <2> QED BY <2>1, <2>2, <2>3, <2>4, <2>5, <2>6
  <1>15. FileTypes'
    <2>1. file' \in [Files!Slots -> Structures] BY <1>0, <1>4
    <2>2. icount' \in [FileInodes -> Nat] BY <1>0 DEF FileTypes
    <2>3. ofile' \in [Process -> [Ds -> 0..NFILE]] /\ cdir' \in [Process -> INode \cup {Files!Dir}] /\ alive' \in SUBSET Process
      BY <1>0 DEF FileTypes, o
    <2> QED BY <1>0, <2>1, <2>2, <2>3, TypesNext DEF FileTypes
  <1>16. DeadClear' BY <1>0 DEF DeadClear, FileTypes, Ds
  <1> QED BY <1>7, <1>8, <1>9, <1>10, <1>14, <1>15, <1>16 DEF FileInv

(* A descriptor lets go of its structure.                                  *)
LEMMA DropStep ==
    ASSUME Files!FileAssumption, FileInv, NEW p \in Process, NEW d \in Ds, ofile[p][d] # 0, p \in alive, at[p].step \in {"user", "exit"},
           NEW next \in {"closing", "exiting"}, Files!Drop(p, d, next), made' = made PROVE FileInv'
  <1> DEFINE s == ofile[p][d]
             i == file[s].inode
             r == [step |-> next, inode |-> i, slot |-> s]
             back == IF next = "exiting" THEN [step |-> "exit", inode |-> Files!Dir] ELSE Files!Idle
  <1>0. /\ FileTypes /\ DeadClear /\ icount' = icount /\ ofile' = [ofile EXCEPT ![p][d] = 0]
        /\ cdir' = cdir /\ alive' = alive /\ meant' = meant BY DEF FileInv, Files!Drop
  <1>1. /\ s \in Files!Slots /\ file[s] \in Structures /\ Files!Lasts(s) = {} /\ file[s].count = Cardinality(Files!Holds(s))
        /\ file[s].count > 0 /\ file[s].count \in Nat /\ Cardinality(Files!Holds(s)) >= 1 /\ Cardinality(Files!Lasts(s)) = 0
    BY Held
  <1>2. i \in FileInodes BY <1>1 DEF Structures
  <1>3. /\ r \in Doings /\ back \in Doings /\ r.step = next /\ r.slot = s /\ r.inode = i /\ back.step \in {"exit", "user"}
    BY <1>1, <1>2, Places DEF Files!Idle
  <1>4. Files!LastUse(s) => /\ open' = Files!Told(i) /\ at' = [at EXCEPT ![p] = r] /\ file' = file
    BY DEF Files!Drop
  <1>5. ~Files!LastUse(s) => /\ file' = [file EXCEPT ![s].count = @ - 1] /\ at' = [at EXCEPT ![p] = back] /\ open' = open
    BY DEF Files!Drop
  <1> HIDE DEF s, i, r, back
  <1>6. \A t : ~Files!Letting(at[p], t) /\ ~Files!Letting(back, t) /\ (Files!Letting(r, t) <=> t = s)
    BY <1>3 DEF Files!Letting
  <1>7. \A j : ~Files!Searching(at[p], j) /\ ~Files!Searching(back, j) /\ ~Files!Searching(r, j)
    BY <1>3 DEF Files!Searching
  <1>8. \A t \in Files!Slots : Cardinality(Files!Holds(t)') = Cardinality(Files!Holds(t)) - IF t = s THEN 1 ELSE 0
    <2> TAKE t \in Files!Slots
    <2>1. ofile'[p][d] = 0 /\ ofile[p][d] = s /\ t # 0 /\ \A q \in Process, k \in Ds : q # p \/ k # d => ofile'[q][k] = ofile[q][k]
      BY <1>0 DEF FileTypes, Files!Slots, s
    <2>2. Cardinality(Files!Holds(t)') = Cardinality(Files!Holds(t)) - (IF ofile[p][d] = t THEN 1 ELSE 0) + (IF ofile'[p][d] = t THEN 1 ELSE 0)
      BY <1>0, <2>1, HoldsMoved
    <2>3. Cardinality(Files!Holds(t)) \in Nat BY <1>0, CountsFinite
    <2> QED BY <2>1, <2>2, <2>3
  <1>9. \A t \in Files!Slots : /\ file[t].count = Cardinality(Files!Holds(t)) + Cardinality(Files!Lasts(t))
                               /\ Cardinality(Files!Holds(t)) \in Nat /\ Cardinality(Files!Lasts(t)) \in Nat
    BY SameSets, <1>0, CountsFinite DEF FileInv, FilesCounted, Files!Users
  <1>10. ofile' \in [Process -> [Ds -> 0..NFILE]] BY <1>0 DEF FileTypes, Files!FileAssumption
  <1>11. at' \in [Process -> Doings] BY <1>0, <1>3, <1>4, <1>5 DEF FileTypes
  <1>12. DeadClear' BY <1>0, <1>4, <1>5 DEF DeadClear, FileTypes, Ds
  <1>13. CASE Files!LastUse(s)
    <2>0. open' = Files!Told(i) /\ at' = [at EXCEPT ![p] = r] /\ file' = file BY <1>4, <1>13
    <2>1. file[s].count = 1 BY <1>1, <1>13 DEF Files!LastUse
    <2>2. \A t : Files!Lasts(t)' = IF t = s THEN {p} ELSE Files!Lasts(t)
      <3> TAKE t
      <3>1. Files!Lasts(t)' \ {p} = Files!Lasts(t) \ {p} /\ (p \in Files!Lasts(t)' <=> Files!Letting(r, t))
        BY ONLY Files!FileAssumption, <1>0, <2>0, AtMoved
      <3>2. p \notin Files!Lasts(t) BY <1>6 DEF Files!Lasts
      <3> QED BY <1>1, <1>6, <3>1, <3>2
    <2>3. FilesCounted'
      <3> SUFFICES ASSUME NEW t \in Files!Slots PROVE file'[t].count = Cardinality(Files!Holds(t)') + Cardinality(Files!Lasts(t)')
        BY SameSets DEF FilesCounted, Files!Users, Files!Slots
      <3>1. CASE t = s
        <4>1. Cardinality(Files!Lasts(t)') = 1 BY <2>2, <3>1, FS_Singleton
        <4>2. Cardinality(Files!Holds(t)') = 0
          <5>1. Cardinality(Files!Holds(t)') = Cardinality(Files!Holds(t)) - 1 BY <1>8, <3>1
          <5>2. Cardinality(Files!Holds(t)) = 1 BY <1>1, <2>1, <3>1
          <5> QED BY <5>1, <5>2
        <4> QED BY <2>0, <2>1, <3>1, <4>1, <4>2
      <3>2. CASE t # s BY <1>8, <1>9, <2>0, <2>2, <3>2
      <3> QED BY <3>1, <3>2
    <2>4. LastAlone'
      <3> SUFFICES ASSUME NEW t \in Files!Slots, NEW q \in Files!Lasts(t)' PROVE file'[t].count = 1 /\ file'[t].inode = at'[q].inode
        BY DEF LastAlone, Files!Slots
      <3>1. CASE t = s
        <4>1. q = p /\ at'[q] = r BY <1>0, <2>0, <2>2, <3>1 DEF FileTypes
        <4> QED BY <1>3, <2>0, <2>1, <3>1, <4>1 DEF i
      <3>2. CASE t # s
        <4>1. q \in Files!Lasts(t) /\ q # p BY <1>6, <2>2, <3>2 DEF Files!Lasts
        <4>2. at'[q] = at[q] BY <1>0, <2>0, <4>1 DEF FileTypes, Files!Lasts
        <4> QED BY <2>0, <4>1, <4>2 DEF LastAlone, FileInv
      <3> QED BY <3>1, <3>2
    <2>5. DriversTold'
      <3> SUFFICES ASSUME NEW t \in Files!Slots, file'[t].count > 0, file'[t].inode \in Device
                   PROVE  file'[t].inode \in open' \/ Files!Lasts(t)' # {} BY DEF DriversTold, Files!Slots
      <3>1. CASE t = s BY <2>2, <3>1
      <3>2. CASE t # s
        <4>1. file[t].count > 0 /\ (file[t].inode \in open \/ Files!Lasts(t)' # {})
          BY <2>0, <2>2, <3>2 DEF FileInv, DriversTold
        <4>2. CASE file[t].inode # i BY <2>0, <4>1, <4>2 DEF Files!Told
        <4>3. CASE file[t].inode = i
          <5>1. s \in Files!Opens(i) /\ t \in Files!Opens(i) BY <1>1, <2>0, <4>3 DEF Files!Opens, i
          <5>2. IsFiniteSet(Files!Opens(i)) /\ Cardinality(Files!Opens(i)) \in Nat BY <1>0, CountsFinite
          <5>3. Cardinality(Files!Opens(i) \ {s}) = Cardinality(Files!Opens(i)) - 1 /\ IsFiniteSet(Files!Opens(i) \ {s})
            BY <5>1, <5>2, FS_RemoveElement
          <5>4. Cardinality(Files!Opens(i) \ {s}) >= 1 BY <3>2, <5>1, <5>3, Inhabited
          <5>5. icount[i] >= Cardinality(Files!Opens(i)) /\ icount[i] \in Nat
            <6>1. icount[i] = Cardinality(Files!Opens(i)) + Cardinality(Files!Searches(i)) + Cardinality(Files!Homes(i))
              BY SameSets, <1>2 DEF FileInv, InodesCounted, Files!References
            <6>2. Cardinality(Files!Searches(i)) \in Nat /\ Cardinality(Files!Homes(i)) \in Nat
              BY <1>0, CountsFinite
            <6> QED BY <5>2, <6>1, <6>2
          <5>6. open' = open BY <2>0, <5>2, <5>3, <5>4, <5>5 DEF Files!Told
          <5> QED BY <2>0, <4>1, <5>6
        <4> QED BY <4>2, <4>3
      <3> QED BY <3>1, <3>2
    <2>6. OffsetsMeant' BY <1>0, <2>0, OffsetsKept
    <2>7. InodesCounted'
      <3>1. ASSUME NEW j \in FileInodes
            PROVE  icount'[j] = icount[j] + (Cardinality(Files!Opens(j)') - Cardinality(Files!Opens(j)))
                                      + (One(Files!Searching(r, j)) - One(Files!Searching(at[p], j)))
        <4>1. One(Files!Searching(r, j)) = 0 /\ One(Files!Searching(at[p], j)) = 0 BY <1>7 DEF One
        <4>2. icount[j] \in Nat /\ icount'[j] = icount[j] /\ Cardinality(Files!Opens(j)) \in Nat
          BY <1>0, CountsFinite DEF FileTypes
        <4>3. Files!Opens(j)' = Files!Opens(j) BY <2>0 DEF Files!Opens, Files!Slots
        <4> QED BY <4>1, <4>2, <4>3
      <3>2. at' = [at EXCEPT ![p] = r] /\ cdir' = cdir /\ alive' = alive BY <1>0, <2>0
      <3> QED BY ONLY Files!FileAssumption, FileInv, <3>1, <3>2, Recounted
    <2>8. FileTypes'
      <3>1. open' \in SUBSET Device BY <1>0, <2>0 DEF Files!Told, FileTypes
      <3> QED BY <1>0, <1>10, <1>11, <2>0, <3>1, TypesNext DEF FileTypes
    <2> QED BY <1>12, <2>3, <2>4, <2>5, <2>6, <2>7, <2>8 DEF FileInv
  <1>14. CASE ~Files!LastUse(s)
    <2>0. file' = [file EXCEPT ![s].count = @ - 1] /\ at' = [at EXCEPT ![p] = back] /\ open' = open
      BY <1>5, <1>14
    <2>1. file[s].count > 1 BY <1>1, <1>14 DEF Files!LastUse
    <2>2. \A t : Files!Lasts(t)' = Files!Lasts(t)
      <3> TAKE t
      <3>1. Files!Lasts(t)' \ {p} = Files!Lasts(t) \ {p} /\ (p \in Files!Lasts(t)' <=> Files!Letting(back, t))
        BY ONLY Files!FileAssumption, <1>0, <2>0, AtMoved
      <3>2. p \notin Files!Lasts(t) BY <1>6 DEF Files!Lasts
      <3> QED BY <1>6, <3>1, <3>2
    <2>3. /\ file'[s] \in Structures /\ file'[s].count = file[s].count - 1 /\ file'[s].inode = file[s].inode /\ file'[s].offset = file[s].offset
          /\ \A t \in Files!Slots : t # s => file'[t] = file[t]
      <3>1. file'[s] = [file[s] EXCEPT !.count = @ - 1] /\ \A t \in Files!Slots : t # s => file'[t] = file[t]
        BY <1>0, <1>1, <2>0 DEF FileTypes
      <3>2. file[s].count - 1 \in Nat BY <1>1, <2>1
      <3> QED BY <1>1, <3>1, <3>2 DEF Structures
    <2>4. \A t \in Files!Slots : (file'[t].count > 0 <=> file[t].count > 0) /\ file'[t].inode = file[t].inode /\ file'[t].offset = file[t].offset
      BY <1>1, <2>1, <2>3
    <2>5. FilesCounted'
      <3> SUFFICES ASSUME NEW t \in Files!Slots PROVE file'[t].count = Cardinality(Files!Holds(t)') + Cardinality(Files!Lasts(t)')
        BY SameSets DEF FilesCounted, Files!Users, Files!Slots
      <3>1. Cardinality(Files!Lasts(t)') = Cardinality(Files!Lasts(t)) BY <2>2
      <3> QED BY <1>8, <1>9, <2>3, <3>1
    <2>6. LastAlone'
      <3> SUFFICES ASSUME NEW t \in Files!Slots, NEW q \in Files!Lasts(t)' PROVE file'[t].count = 1 /\ file'[t].inode = at'[q].inode
        BY DEF LastAlone, Files!Slots
      <3>1. q \in Files!Lasts(t) /\ q # p /\ t # s BY <1>1, <1>6, <2>2 DEF Files!Lasts
      <3>2. at'[q] = at[q] BY <1>0, <2>0, <3>1 DEF FileTypes, Files!Lasts
      <3> QED BY <2>3, <3>1, <3>2 DEF LastAlone, FileInv
    <2>7. DriversTold'
      <3> SUFFICES ASSUME NEW t \in Files!Slots, file'[t].count > 0, file'[t].inode \in Device
                   PROVE  file'[t].inode \in open' \/ Files!Lasts(t)' # {} BY DEF DriversTold, Files!Slots
      <3> QED BY <2>0, <2>2, <2>4 DEF FileInv, DriversTold
    <2>8. OffsetsMeant' BY <1>0, <2>4, OffsetsKept
    <2>9. InodesCounted'
      <3>1. ASSUME NEW j \in FileInodes
            PROVE  icount'[j] = icount[j] + (Cardinality(Files!Opens(j)') - Cardinality(Files!Opens(j)))
                                      + (One(Files!Searching(back, j)) - One(Files!Searching(at[p], j)))
        <4>1. One(Files!Searching(back, j)) = 0 /\ One(Files!Searching(at[p], j)) = 0 BY <1>7 DEF One
        <4>2. icount[j] \in Nat /\ icount'[j] = icount[j] /\ Cardinality(Files!Opens(j)) \in Nat
          BY <1>0, CountsFinite DEF FileTypes
        <4>3. Files!Opens(j)' = Files!Opens(j)
          <5>1. Files!Opens(j)' = {t \in Files!Slots : file'[t].count > 0 /\ file'[t].inode = j}
            BY DEF Files!Opens, Files!Slots
          <5> QED BY <2>4, <5>1 DEF Files!Opens
        <4> QED BY <4>1, <4>2, <4>3
      <3>2. at' = [at EXCEPT ![p] = back] /\ cdir' = cdir /\ alive' = alive BY <1>0, <2>0
      <3> QED BY ONLY Files!FileAssumption, FileInv, <3>1, <3>2, Recounted
    <2>10. FileTypes'
      <3>1. file' \in [Files!Slots -> Structures] BY <1>0, <1>1, <2>0, <2>3 DEF FileTypes
      <3> QED BY <1>0, <1>10, <1>11, <2>0, <3>1, TypesNext DEF FileTypes
    <2> QED BY <1>12, <2>5, <2>6, <2>7, <2>8, <2>9, <2>10 DEF FileInv
  <1> QED BY <1>13, <1>14

(* close drops one reference. *)
LEMMA CloseStep ==
    ASSUME Files!FileAssumption, FileInv, NEW p \in Process, NEW d \in Ds, Files!close(p, d)
    PROVE  FileInv' BY DropStep DEF Files!close, Files!Idle

(* exit drops them in the descriptors' order. *)
LEMMA ExitClosesStep ==
    ASSUME Files!FileAssumption, FileInv, NEW p \in Process, Files!ExitCloses(p) PROVE FileInv'
  <1> DEFINE d == Files!Least(Files!Descriptors(p))
  <1>1. Files!Descriptors(p) \subseteq Nat /\ Files!Descriptors(p) # {}
    BY DEF Files!Descriptors, Files!ExitCloses
  <1>2. d \in Files!Descriptors(p) BY <1>1, LeastIs
  <1>3. d \in Ds /\ ofile[p][d] # 0 /\ Files!Drop(p, d, "exiting") /\ made' = made /\ at[p].step = "exit"
    BY <1>2 DEF Files!Descriptors, Ds, Files!ExitCloses
  <1>4. p \in alive BY <1>3 DEF FileInv, DeadClear, Files!Idle
  <1> HIDE DEF d
  <1> QED BY <1>3, <1>4, DropStep

(* The last close has put the inode: the structure is free. *)
LEMMA IputStep ==
    ASSUME Files!FileAssumption, FileInv, NEW p \in Process, Files!Iput(p) PROVE FileInv'
  <1>a. PICK s : s = at[p].slot OBVIOUS
  <1>b. PICK i : i = at[p].inode OBVIOUS
  <1> DEFINE back == IF at[p].step = "exiting" THEN [step |-> "exit", inode |-> Files!Dir] ELSE Files!Idle
  <1>0. /\ FileTypes /\ DeadClear /\ icount' = [icount EXCEPT ![i] = @ - 1] /\ ofile' = ofile
        /\ file' = [file EXCEPT ![s].count = @ - 1] /\ at' = [at EXCEPT ![p] = back] /\ open' = open
        /\ cdir' = cdir /\ alive' = alive /\ meant' = meant /\ made' = made /\ at[p].step \in {"closing", "exiting"}
    BY <1>a, <1>b DEF FileInv, Files!Iput
  <1>1. s \in Files!Slots /\ i \in FileInodes /\ file[s] \in Structures
    BY <1>0, <1>a, <1>b, Noted DEF FileTypes
  <1>2. back \in Doings /\ back.step \in {"exit", "user"} BY Places DEF Files!Idle
  <1>3. p \in Files!Lasts(s) BY <1>0, <1>a DEF Files!Lasts, Files!Letting
  <1>4. \A t : (Files!Letting(at[p], t) <=> t = s) /\ ~Files!Letting(back, t)
    BY <1>0, <1>2, <1>a DEF Files!Letting
  <1>5. \A j : ~Files!Searching(at[p], j) /\ ~Files!Searching(back, j) BY <1>0, <1>2 DEF Files!Searching
  <1>6. p \in alive BY <1>0 DEF DeadClear, Files!Idle
  <1>7. file[s].count = 1 /\ file[s].inode = i BY <1>1, <1>3, <1>b DEF FileInv, LastAlone
  <1> HIDE DEF back
  <1>8. \A t : /\ Files!Holds(t)' = Files!Holds(t)
               /\ Files!Lasts(t)' \ {p} = Files!Lasts(t) \ {p} /\ (p \in Files!Lasts(t)' <=> Files!Letting(back, t))
               /\ t # s => Files!Lasts(t)' = Files!Lasts(t)
               /\ p \notin Files!Lasts(t)'
    <2> TAKE t
    <2>1. Files!Holds(t)' = Files!Holds(t) BY <1>0 DEF Files!Holds
    <2>2. Files!Lasts(t)' \ {p} = Files!Lasts(t) \ {p} /\ (p \in Files!Lasts(t)' <=> Files!Letting(back, t))
      BY ONLY Files!FileAssumption, <1>0, AtMoved
    <2>3. t # s => p \notin Files!Lasts(t) BY <1>4 DEF Files!Lasts
    <2> QED BY <1>4, <2>1, <2>2, <2>3
  <1>9. \A t \in Files!Slots : /\ file[t].count = Cardinality(Files!Holds(t)) + Cardinality(Files!Lasts(t)) /\ IsFiniteSet(Files!Lasts(t))
                               /\ Cardinality(Files!Holds(t)) \in Nat /\ Cardinality(Files!Lasts(t)) \in Nat
    BY SameSets, <1>0, CountsFinite DEF FileInv, FilesCounted, Files!Users
  <1>10. Cardinality(Files!Holds(s)) = 0 /\ Files!Lasts(s)' = {}
    <2>1. Cardinality(Files!Lasts(s) \ {p}) = Cardinality(Files!Lasts(s)) - 1 /\ Cardinality(Files!Lasts(s)) >= 1 /\ IsFiniteSet(Files!Lasts(s) \ {p})
      BY <1>1, <1>3, <1>9, FS_RemoveElement, Inhabited
    <2>2. Cardinality(Files!Holds(s)) = 0 /\ Cardinality(Files!Lasts(s)) = 1 BY <1>1, <1>7, <1>9, <2>1
    <2>3. Files!Lasts(s) \ {p} = {} BY <2>1, <2>2, FS_EmptySet
    <2>4. Files!Lasts(s)' \ {p} = {} /\ p \notin Files!Lasts(s)' BY <1>8, <2>3
    <2> QED BY <2>2, <2>4
  <1>11. /\ file'[s] \in Structures /\ file'[s].count = 0 /\ \A t \in Files!Slots : t # s => file'[t] = file[t]
    <2>1. file'[s] = [file[s] EXCEPT !.count = @ - 1] /\ \A t \in Files!Slots : t # s => file'[t] = file[t]
      BY <1>0, <1>1 DEF FileTypes
    <2>2. file[s].count - 1 = 0 BY <1>7
    <2> QED BY <1>1, <2>1, <2>2 DEF Structures
  <1>12. FilesCounted'
    <2> SUFFICES ASSUME NEW t \in Files!Slots PROVE file'[t].count = Cardinality(Files!Holds(t)') + Cardinality(Files!Lasts(t)')
      BY SameSets DEF FilesCounted, Files!Users, Files!Slots
    <2>1. CASE t = s
      <3>1. Cardinality(Files!Lasts(t)') = 0 BY <1>10, <2>1, FS_EmptySet
      <3>2. Cardinality(Files!Holds(t)') = 0 BY <1>8, <1>10, <2>1
      <3> QED BY <1>11, <2>1, <3>1, <3>2
    <2>2. CASE t # s BY <1>8, <1>9, <1>11, <2>2
    <2> QED BY <2>1, <2>2
  <1>13. LastAlone'
    <2> SUFFICES ASSUME NEW t \in Files!Slots, NEW q \in Files!Lasts(t)' PROVE file'[t].count = 1 /\ file'[t].inode = at'[q].inode
      BY DEF LastAlone, Files!Slots
    <2>0. t # s BY <1>10
    <2>1. q \in Files!Lasts(t) /\ q # p /\ t # s BY <1>8, <2>0
    <2>2. at'[q] = at[q] BY <1>0, <2>1 DEF FileTypes, Files!Lasts
    <2> QED BY <1>11, <2>1, <2>2 DEF LastAlone, FileInv
  <1>14. DriversTold'
    <2> SUFFICES ASSUME NEW t \in Files!Slots, file'[t].count > 0, file'[t].inode \in Device
                 PROVE  file'[t].inode \in open' \/ Files!Lasts(t)' # {} BY DEF DriversTold, Files!Slots
    <2>1. t # s BY <1>11
    <2> QED BY <1>0, <1>8, <1>11, <2>1 DEF FileInv, DriversTold
  <1>15. OffsetsMeant'
    <2>1. \A t \in Files!Slots : file'[t].count > 0 => file[t].count > 0 /\ file'[t].offset = file[t].offset
      <3> TAKE t \in Files!Slots
      <3>1. CASE t = s BY <1>11, <3>1
      <3>2. CASE t # s BY <1>11, <3>2
      <3> QED BY <3>1, <3>2
    <2> QED BY <1>0, <2>1, OffsetsKept
  <1>16. \A j \in FileInodes : Cardinality(Files!Opens(j)') = Cardinality(Files!Opens(j)) - IF j = i THEN 1 ELSE 0
    <2> TAKE j \in FileInodes
    <2>1. Cardinality(Files!Opens(j)') = Cardinality(Files!Opens(j)) - (IF file[s].count > 0 /\ file[s].inode = j THEN 1 ELSE 0)
                                          + (IF file'[s].count > 0 /\ file'[s].inode = j THEN 1 ELSE 0)
      BY <1>0, <1>1, <1>11, OpensMoved
    <2>2. Cardinality(Files!Opens(j)) \in Nat /\ file[s].count > 0 /\ ~(file'[s].count > 0)
      BY <1>0, <1>7, <1>11, CountsFinite
    <2> QED BY <1>7, <2>1, <2>2
  <1>17. InodesCounted'
    <2>1. ASSUME NEW j \in FileInodes
          PROVE  icount'[j] = icount[j] + (Cardinality(Files!Opens(j)') - Cardinality(Files!Opens(j)))
                                    + (One(Files!Searching(back, j)) - One(Files!Searching(at[p], j)))
      <3>1. One(Files!Searching(back, j)) = 0 /\ One(Files!Searching(at[p], j)) = 0 BY <1>5 DEF One
      <3>2. icount[j] \in Nat /\ Cardinality(Files!Opens(j)) \in Nat BY <1>0, CountsFinite DEF FileTypes
      <3>3. icount'[j] = icount[j] - IF j = i THEN 1 ELSE 0 BY <1>0, <3>2 DEF FileTypes
      <3> QED BY <1>16, <3>1, <3>2, <3>3
    <2>2. at' = [at EXCEPT ![p] = back] /\ cdir' = cdir /\ alive' = alive BY <1>0
    <2> QED BY ONLY Files!FileAssumption, FileInv, <2>1, <2>2, Recounted
  <1>18. icount[i] >= 1
    <2>1. s \in Files!Opens(i) BY <1>1, <1>7 DEF Files!Opens
    <2>2. Cardinality(Files!Opens(i)) >= 1 BY <1>0, <2>1, CountsFinite, Inhabited
    <2>3. icount[i] = Cardinality(Files!Opens(i)) + Cardinality(Files!Searches(i)) + Cardinality(Files!Homes(i))
      BY SameSets, <1>1 DEF FileInv, InodesCounted, Files!References
    <2>4. Cardinality(Files!Opens(i)) \in Nat /\ Cardinality(Files!Searches(i)) \in Nat /\ Cardinality(Files!Homes(i)) \in Nat
      BY <1>0, CountsFinite
    <2> QED BY <2>2, <2>3, <2>4
  <1>19. FileTypes'
    <2>1. icount' \in [FileInodes -> Nat] BY <1>0, <1>1, <1>18 DEF FileTypes
    <2>2. file' \in [Files!Slots -> Structures] BY <1>0, <1>1, <1>11 DEF FileTypes
    <2>3. at' \in [Process -> Doings] BY <1>0, <1>2 DEF FileTypes
    <2> QED BY <1>0, <2>1, <2>2, <2>3, TypesNext DEF FileTypes
  <1>20. DeadClear' BY <1>0, <1>6 DEF DeadClear, FileTypes, Ds
  <1> QED BY <1>12, <1>13, <1>14, <1>15, <1>17, <1>19, <1>20 DEF FileInv

(* An offset moves, and with it what it should be.                         *)
LEMMA MoveStep ==
    ASSUME Files!FileAssumption, FileInv, NEW p \in Process, NEW s \in Files!Slots, at[p].step \in {"user", "transfer"},
           file[s].count > 0 => Files!Value(file'[s].offset) = meant'[s], file'[s].count = file[s].count, file'[s].inode = file[s].inode,
           \A t \in Files!Slots : t # s => file'[t] = file[t] /\ meant'[t] = meant[t],
           file' \in [Files!Slots -> Structures], meant' \in [Files!Slots -> 0..HALF * HALF - 1],
           at' = [at EXCEPT ![p] = Files!Idle], UNCHANGED <<ofile, icount, open, cdir, alive>>, made' \in Nat
    PROVE  FileInv'
  <1>0. FileTypes /\ DeadClear /\ ofile' = ofile /\ icount' = icount /\ open' = open /\ cdir' = cdir /\ alive' = alive
    BY DEF FileInv
  <1>1. \A t : ~Files!Letting(at[p], t) /\ ~Files!Letting(Files!Idle, t) BY DEF Files!Letting, Files!Idle
  <1>2. \A j : ~Files!Searching(at[p], j) /\ ~Files!Searching(Files!Idle, j)
    BY DEF Files!Searching, Files!Idle
  <1>3. \A t \in Files!Slots : file'[t].count = file[t].count /\ (file[t].count > 0 => file'[t].inode = file[t].inode)
    OBVIOUS
  <1>4. FilesCounted' /\ DriversTold' /\ LastAlone' /\ (\A j : Cardinality(Files!Opens(j)') = Cardinality(Files!Opens(j)))
    BY <1>0, <1>1, <1>3, StructuresKept
  <1>5. OffsetsMeant'
    <2> SUFFICES ASSUME NEW t \in Files!Slots, file'[t].count > 0 PROVE Files!Value(file'[t].offset) = meant'[t]
      BY DEF OffsetsMeant, Files!Slots, Files!Value
    <2>1. CASE t = s BY <2>1
    <2>2. CASE t # s BY <2>2 DEF FileInv, OffsetsMeant
    <2> QED BY <2>1, <2>2
  <1>6. ASSUME NEW j \in FileInodes
        PROVE  icount'[j] = icount[j] + (Cardinality(Files!Opens(j)') - Cardinality(Files!Opens(j)))
                            + (One(Files!Searching(Files!Idle, j)) - One(Files!Searching(at[p], j)))
    <2>1. One(Files!Searching(Files!Idle, j)) = 0 /\ One(Files!Searching(at[p], j)) = 0 BY <1>2 DEF One
    <2>2. Cardinality(Files!Opens(j)) \in Nat /\ icount[j] \in Nat BY <1>0, CountsFinite DEF FileTypes
    <2> QED BY <1>0, <1>4, <2>1, <2>2
  <1>7. InodesCounted'
    BY ONLY Files!FileAssumption, FileInv, <1>0, <1>6, at' = [at EXCEPT ![p] = Files!Idle], Recounted
  <1>8. FileTypes'
    <2>1. at' \in [Process -> Doings] BY <1>0, Places DEF FileTypes
    <2> QED BY <1>0, <2>1, TypesNext DEF FileTypes
  <1>9. DeadClear' BY <1>0 DEF DeadClear, FileTypes, Ds
  <1> QED BY <1>4, <1>5, <1>7, <1>8, <1>9 DEF FileInv

(* The next number in two words. *)
LEMMA TwoWords ==
    ASSUME Files!FileAssumption, NEW y \in Int PROVE y % (HALF * HALF) \in 0..HALF * HALF - 1
  <1> DEFINE M == HALF * HALF
  <1>1. M \in Nat \ {0} BY ValueType DEF Files!FileAssumption, Files!Words
  <1> HIDE DEF M
  <1>2. y % M \in 0..M - 1 BY <1>1, Divided
  <1> QED BY <1>2 DEF M

(* The transfer is done. *)
LEMMA TransferredStep ==
    ASSUME Files!FileAssumption, FileInv, NEW p \in Process, NEW n \in SeekArgs, Files!Transferred(p, n)
    PROVE  FileInv'
  <1>1. PICK s : s = at[p].slot OBVIOUS
  <1>2. /\ FileTypes /\ n \in Files!Words /\ Files!Idle \in Doings /\ at[p].step = "transfer"
        /\ at' = [at EXCEPT ![p] = Files!Idle] /\ meant' = [meant EXCEPT ![s] = (meant[s] + n) % (HALF * HALF)]
        /\ file' = [file EXCEPT ![s].offset = Files!dpadd(@, n)]
        /\ UNCHANGED <<ofile, icount, open, cdir, alive>> /\ made' = made
    BY <1>1, Places DEF FileInv, Files!FileAssumption, Files!Transferred
  <1>3. s \in Files!Slots /\ file[s] \in Structures /\ meant[s] \in 0..HALF * HALF - 1 /\ made \in Nat
    BY <1>1, <1>2, Noted DEF FileTypes
  <1>4. PICK h \in Files!Words, l \in Files!Words : file[s].offset = <<h, l>> BY <1>3 DEF Structures
  <1>5. PICK o : o = Files!dpadd(<<h, l>>, n) OBVIOUS
  <1>6. o \in Files!Words \X Files!Words /\ Files!Value(o) = (h * HALF + l + n) % (HALF * HALF)
    BY <1>2, <1>5, DpaddAdds
  <1>7. PICK m : m = (meant[s] + n) % (HALF * HALF) OBVIOUS
  <1>8. m \in 0..HALF * HALF - 1
    <2>1. meant[s] \in Int /\ n \in Int BY <1>2, <1>3 DEF Files!Words
    <2>2. meant[s] + n \in Int BY <2>1
    <2> QED BY <1>7, <2>2, TwoWords
  <1>9. file[s].count > 0 => Files!Value(o) = m
    <2> SUFFICES ASSUME file[s].count > 0 PROVE Files!Value(o) = m OBVIOUS
    <2>1. Files!Value(<<h, l>>) = meant[s] BY <1>3, <1>4 DEF FileInv, OffsetsMeant
    <2>2. meant[s] = h * HALF + l BY <2>1 DEF Files!Value
    <2> QED BY <1>6, <1>7, <2>2
  <1>10. /\ file' = [file EXCEPT ![s] = [file[s] EXCEPT !.offset = o]]
         /\ meant' = [meant EXCEPT ![s] = m] BY <1>2, <1>3, <1>4, <1>5, <1>7 DEF FileTypes
  <1>11. [file[s] EXCEPT !.offset = o] \in Structures BY <1>3, <1>6 DEF Structures
  <1>12. /\ file' \in [Files!Slots -> Structures] /\ file'[s] = [file[s] EXCEPT !.offset = o] /\ \A t \in Files!Slots : t # s => file'[t] = file[t]
    BY <1>2, <1>3, <1>10, <1>11 DEF FileTypes
  <1>13. file'[s].count = file[s].count /\ file'[s].inode = file[s].inode /\ file'[s].offset = o
    BY <1>3, <1>12 DEF Structures
  <1>14. meant' \in [Files!Slots -> 0..HALF * HALF - 1] /\ meant'[s] = m /\ \A t \in Files!Slots : t # s => meant'[t] = meant[t]
    BY <1>2, <1>3, <1>8, <1>10 DEF FileTypes
  <1>15. made' \in Nat BY <1>2, <1>3
  <1> QED BY <1>2, <1>3, <1>9, <1>12, <1>13, <1>14, <1>15, MoveStep

(* The offset seek sets, and what it adds up to. *)
LEMMA SeekStep ==
    ASSUME Files!FileAssumption, FileInv, NEW p \in Process, NEW d \in Ds, NEW arg \in SeekArgs, NEW t \in 0..5, Files!seek(p, d, arg, t)
    PROVE  FileInv'
  <1>1. PICK s : s = ofile[p][d] OBVIOUS
  <1>2. PICK b : b = Files!Base(file[s], t) OBVIOUS
  <1>3. PICK n : n = Files!SeekTo(arg, t) OBVIOUS
  <1>4. PICK g : g = CASE t \in {1, 4} -> meant[s] [] t \in {2, 5} -> Files!Value(FileLength) [] OTHER -> 0
    OBVIOUS
  <1>5. /\ FileTypes /\ arg \in Files!Words /\ at[p] = Files!Idle /\ at' = at /\ made' = made + 1 /\ s # 0
        /\ UNCHANGED <<ofile, icount, open, cdir, alive>>
        /\ file' = [file EXCEPT ![s].offset = Files!dpadd(<<(n[1] + b[1]) % HALF, n[2]>>, b[2])]
        /\ meant' = [meant EXCEPT ![s] = (g + Way(arg, t)) % (HALF * HALF)]
    BY <1>1, <1>2, <1>3, <1>4 DEF FileInv, Files!FileAssumption, Files!seek, Files!Enters, Way
  <1>6. s \in Files!Slots /\ file[s] \in Structures /\ file[s].count > 0 /\ meant[s] \in 0..HALF * HALF - 1 /\ made \in Nat
    BY <1>1, <1>5, Held DEF FileTypes
  <1>7. PICK h \in Files!Words, l \in Files!Words, k \in Int :
           n = <<h, l>> /\ h * HALF + l = Way(arg, t) + k * (HALF * HALF) /\ Way(arg, t) \in Int
    BY <1>3, <1>5, SeekMeans
  <1>8. PICK u \in Files!Words, v \in Files!Words : b = <<u, v>> /\ u * HALF + v = g
    <2>1. CASE t \in {1, 4}
      <3>1. b = file[s].offset /\ g = meant[s] BY <1>2, <1>4, <2>1 DEF Files!Base
      <3>2. Files!Value(file[s].offset) = meant[s] /\ file[s].offset \in Files!Words \X Files!Words
        BY <1>6 DEF FileInv, OffsetsMeant, Structures
      <3> QED BY <3>1, <3>2 DEF Files!Value
    <2>2. CASE t \in {2, 5}
      <3>1. b = FileLength /\ g = Files!Value(FileLength) /\ FileLength \in Files!Words \X Files!Words
        BY <1>2, <1>4, <2>2 DEF Files!Base, Files!FileAssumption
      <3> QED BY <3>1 DEF Files!Value
    <2>3. CASE t \notin {1, 2, 4, 5}
      <3>1. b = <<0, 0>> /\ g = 0 /\ 0 \in Files!Words /\ 0 * HALF + 0 = 0
        BY <1>2, <1>4, <2>3 DEF Files!Base, Files!FileAssumption, Files!Words
      <3> QED BY <3>1
    <2> QED BY <2>1, <2>2, <2>3
  <1>9. PICK x : x = (h + u) % HALF OBVIOUS
  <1>10. PICK o : o = Files!dpadd(<<x, l>>, v) OBVIOUS
  <1>11. PICK m : m = (g + Way(arg, t)) % (HALF * HALF) OBVIOUS
  <1>12. HALF \in Nat /\ HALF # 0 /\ h \in Nat /\ l \in Nat /\ u \in Nat /\ v \in Nat /\ g \in Int /\ HALF * HALF \in Nat \ {0}
    BY <1>7, <1>8, ValueType DEF Files!FileAssumption, Files!Words
  <1>13. PICK q \in Nat : x \in Files!Words /\ h + u = q * HALF + x
    <2>1. h + u \in Nat BY <1>12
    <2>2. /\ (h + u) \div HALF \in Nat /\ (h + u) % HALF \in 0..HALF - 1
          /\ h + u = ((h + u) \div HALF) * HALF + ((h + u) % HALF) BY <1>12, <2>1, DividedNat
    <2> QED BY <1>9, <2>2 DEF Files!Words
  <1>14. PICK j \in Int : o \in Files!Words \X Files!Words /\ Files!Value(o) = x * HALF + l + v + j * (HALF * HALF)
    BY <1>7, <1>8, <1>10, <1>13, DpaddAdds
  <1>15. Files!Value(o) = m
    <2>1. PICK M : M = HALF * HALF OBVIOUS
    <2>2. PICK w : w = Way(arg, t) OBVIOUS
    <2>3. Files!Value(o) \in 0..M - 1
      <3>1. PICK o1 \in Files!Words, o2 \in Files!Words : o = <<o1, o2>> BY <1>14
      <3>2. o1 * HALF + o2 \in 0..HALF * HALF - 1 BY ValueType
      <3> QED BY <2>1, <3>1, <3>2 DEF Files!Value
    <2>4. x = h + u - q * HALF /\ x \in Int BY <1>12, <1>13 DEF Files!Words
    <2>5. x * HALF = h * HALF + u * HALF - q * M BY <1>12, <2>1, <2>4
    <2>6. PICK hw \in Int : hw = h * HALF BY <1>12
    <2>7. PICK uw \in Int : uw = u * HALF BY <1>12
    <2>8. PICK xw \in Int : xw = x * HALF BY <1>12, <2>4
    <2>9. PICK qm \in Int : qm = q * M BY <1>12, <2>1
    <2>10. PICK jm \in Int : jm = j * M BY <1>12, <2>1
    <2>11. PICK km \in Int : km = k * M BY <1>12, <2>1
    <2>12. Files!Value(o) = xw + l + v + jm /\ xw = hw + uw - qm /\ hw + l = w + km /\ uw + v = g /\ w \in Int
      BY <1>7, <1>8, <1>14, <2>1, <2>2, <2>5, <2>6, <2>7, <2>8, <2>9, <2>10, <2>11
    <2>13. Files!Value(o) = (g + w) + (km + jm - qm) BY <1>12, <2>12
    <2>14. km + jm - qm = (k + j - q) * M BY <1>12, <2>1, <2>9, <2>10, <2>11
    <2>15. g + w \in Int /\ k + j - q \in Int /\ M \in Nat \ {0} BY <1>12, <2>1, <2>12
    <2>16. Files!Value(o) = (g + w) % M
      <3>1. PICK x0 : x0 = Files!Value(o) OBVIOUS
      <3>2. PICK y0 \in Int : y0 = g + w BY <2>15
      <3>3. PICK k0 \in Int : k0 = k + j - q BY <2>15
      <3>4. x0 \in 0..M - 1 /\ x0 = y0 + k0 * M /\ M \in Nat \ {0}
        BY <2>3, <2>13, <2>14, <2>15, <3>1, <3>2, <3>3
      <3>5. x0 = y0 % M BY ONLY <3>4, Residue
      <3> QED BY <3>1, <3>2, <3>5
    <2> QED BY <1>11, <2>1, <2>2, <2>16
  <1>16. m \in 0..HALF * HALF - 1
    <2>1. g + Way(arg, t) \in Int BY <1>7, <1>12
    <2> QED BY <1>11, <2>1, TwoWords
  <1>17. o = Files!dpadd(<<(n[1] + b[1]) % HALF, n[2]>>, b[2])
    <2>1. n[1] = h /\ n[2] = l /\ b[1] = u /\ b[2] = v BY <1>7, <1>8
    <2> QED BY <1>9, <1>10, <2>1
  <1>18. /\ file' = [file EXCEPT ![s] = [file[s] EXCEPT !.offset = o]]
         /\ meant' = [meant EXCEPT ![s] = m] BY <1>5, <1>6, <1>11, <1>17 DEF FileTypes
  <1>19. [file[s] EXCEPT !.offset = o] \in Structures BY <1>6, <1>14 DEF Structures
  <1>20. /\ file' \in [Files!Slots -> Structures] /\ file'[s] = [file[s] EXCEPT !.offset = o] /\ \A y \in Files!Slots : y # s => file'[y] = file[y]
    BY <1>5, <1>6, <1>18, <1>19 DEF FileTypes
  <1>21. file'[s].count = file[s].count /\ file'[s].inode = file[s].inode /\ file'[s].offset = o
    BY <1>6, <1>20 DEF Structures
  <1>22. meant' \in [Files!Slots -> 0..HALF * HALF - 1] /\ meant'[s] = m /\ \A y \in Files!Slots : y # s => meant'[y] = meant[y]
    BY <1>5, <1>6, <1>16, <1>18 DEF FileTypes
  <1>23. made' \in Nat /\ at' = [at EXCEPT ![p] = Files!Idle] /\ at[p].step = "user"
    <2>1. at \in [Process -> Doings] BY <1>5 DEF FileTypes
    <2> QED BY <1>5, <1>6, <2>1 DEF Files!Idle
  <1> QED BY <1>5, <1>6, <1>15, <1>20, <1>21, <1>22, <1>23, MoveStep

(* Nothing is open at first. *)
LEMMA FileInit == Files!FileAssumption /\ Files!Init => FileInv
  <1> SUFFICES ASSUME Files!FileAssumption, Files!Init PROVE FileInv OBVIOUS
  <1> DEFINE p0 == CHOOSE p \in Process : TRUE
  <1>0. p0 \in Process /\ 0 \in Files!Words /\ NFILE \in Nat /\ NOFILE \in Nat
    BY DEF Files!FileAssumption, Files!Words
  <1>1. /\ ofile = [p \in Process |-> [d \in 0..NOFILE - 1 |-> 0]] /\ file = [s \in Files!Slots |-> Files!Unused] /\ alive = {p0}
        /\ icount = [i \in INode \cup {Files!Pipe, Files!Dir} |-> IF i = Files!Dir THEN 1 ELSE 0] /\ open = {} /\ cdir = [p \in Process |-> Files!Dir]
        /\ at = [p \in Process |-> Files!Idle] /\ made = 0 /\ meant = [s \in Files!Slots |-> 0]
    BY DEF Files!Init
  <1> HIDE DEF p0
  <1>2. FileTypes
    <2>1. Files!Unused \in Structures BY <1>0 DEF Files!Unused, Structures, FileInodes
    <2>2. 0 \in 0..HALF * HALF - 1 BY <1>0, ValueType
    <2> QED BY <1>0, <1>1, <2>1, <2>2, Places DEF FileTypes, FileInodes, Ds
  <1>3. DeadClear BY <1>1 DEF DeadClear, Ds
  <1>4. \A s : Files!Lasts(s) = {} BY <1>1 DEF Files!Lasts, Files!Letting, Files!Idle
  <1>5. LastAlone /\ DriversTold /\ OffsetsMeant
    BY <1>1, <1>4 DEF LastAlone, DriversTold, OffsetsMeant, Files!Unused
  <1>6. FilesCounted
    <2> SUFFICES ASSUME NEW s \in Files!Slots PROVE file[s].count = Cardinality(Files!Holds(s)) + Cardinality(Files!Lasts(s))
      BY SameSets DEF FilesCounted, Files!Users
    <2>1. Files!Holds(s) = {} BY <1>1 DEF Files!Holds, Files!Slots
    <2>2. file[s].count = 0 BY <1>1 DEF Files!Unused
    <2> QED BY <1>4, <2>1, <2>2, FS_EmptySet
  <1>7. InodesCounted
    <2> SUFFICES ASSUME NEW i \in FileInodes PROVE icount[i] = Cardinality(Files!Opens(i)) + Cardinality(Files!Searches(i)) + Cardinality(Files!Homes(i))
      BY SameSets DEF InodesCounted, Files!References
    <2>1. Files!Opens(i) = {} /\ Files!Searches(i) = {}
      BY <1>1 DEF Files!Opens, Files!Searches, Files!Searching, Files!Idle, Files!Unused
    <2>2. Files!Homes(i) = IF i = Files!Dir THEN {p0} ELSE {} BY <1>0, <1>1 DEF Files!Homes
    <2>3. icount[i] = IF i = Files!Dir THEN 1 ELSE 0 BY <1>1 DEF FileInodes
    <2>4. Cardinality({p0}) = 1 /\ Cardinality({}) = 0 BY FS_Singleton, FS_EmptySet
    <2> QED BY <2>1, <2>2, <2>3, <2>4
  <1> QED BY <1>2, <1>3, <1>5, <1>6, <1>7 DEF FileInv

(* Every step keeps the counts. *)
LEMMA FileNext == Files!FileAssumption /\ FileInv /\ [Files!Next]_Files!vars => FileInv'
  <1> SUFFICES ASSUME Files!FileAssumption, FileInv, [Files!Next]_Files!vars PROVE FileInv' OBVIOUS
  <1>1. CASE UNCHANGED Files!vars
    <2>1. UNCHANGED <<ofile, file, icount, open, cdir, at, alive, meant>> /\ made' \in Nat
      BY <1>1 DEF Files!vars, FileInv, FileTypes
    <2> QED BY <2>1, CallsStep
  <1>2. ASSUME NEW p \in Process, NEW i \in INode, Files!Namei(p, "open", i) PROVE FileInv'
    BY <1>2, NameiStep
  <1>3. ASSUME NEW p \in Process, NEW i \in INode \cup {Files!Dir}, Files!Namei(p, "chdir", i) PROVE FileInv'
    BY <1>3, NameiStep
  <1>4. ASSUME NEW p \in Process, NEW flag \in {{"read"}, {"write"}, {"read", "write"}}, Files!open1(p, flag) PROVE FileInv'
    <2>1. flag \in SUBSET {"read", "write"} OBVIOUS
    <2> QED BY <1>4, <2>1, OpenStep
  <1>5. ASSUME NEW p \in Process, NEW q \in Process, Files!fork(p, q) PROVE FileInv' BY <1>5, ForkStep
  <1>6. ASSUME NEW p \in Process, NEW d \in 0..NOFILE - 1, NEW arg \in SeekArgs, NEW t \in 0..5, Files!seek(p, d, arg, t) PROVE FileInv'
    BY <1>6, SeekStep DEF Ds
  <1>7. ASSUME NEW p \in Process, NEW d \in 0..NOFILE - 1, NEW mode \in {"read", "write"}, Files!rdwr(p, d, mode) PROVE FileInv'
    BY <1>7, RdwrStep DEF Ds
  <1>8. ASSUME NEW p \in Process, NEW d \in 0..NOFILE - 1, Files!dup(p, d) \/ Files!close(p, d) PROVE FileInv'
    BY <1>8, DupStep, CloseStep DEF Ds
  <1>9. ASSUME NEW p \in Process, NEW n \in SeekArgs, Files!Transferred(p, n) PROVE FileInv'
    BY <1>9, TransferredStep
  <1>10. ASSUME NEW p \in Process, Files!Refuse(p) \/ Files!OpenFails(p) \/ Files!pipe(p) \/ Files!chdir(p) \/ Files!exit(p) \/ Files!ExitCloses(p) \/ Files!ExitEnds(p) \/ Files!Iput(p)
         PROVE  FileInv'
    BY <1>10, RefuseStep, OpenFailsStep, PipeStep, ChdirStep, ExitStep, ExitClosesStep, ExitEndsStep, IputStep
  <1> QED
    BY <1>1, <1>2, <1>3, <1>4, <1>5, <1>6, <1>7, <1>8, <1>9, <1>10 DEF Files!Next, Files!StartOpen, Files!StartChdir

(* Every file structure counts what names it and every inode what holds    *)
(* it, a driver is told at the last close only, and an offset is the sum   *)
(* of what moved it, for every number of processes, files and descriptors. *)
THEOREM ReferencesCounted == Files!FileAssumption => (Files!Spec => []Files!Counted)
  <1> SUFFICES ASSUME Files!FileAssumption PROVE Files!Spec => []Files!Counted OBVIOUS
  <1>1. Files!Init => FileInv BY FileInit
  <1>2. FileInv /\ [Files!Next]_Files!vars => FileInv' BY FileNext
  <1>3. FileInv => Files!Counted BY FileInvCounts
  <1> QED BY <1>1, <1>2, <1>3, PTL DEF Files!Spec

----
(* Signals.                                                                *)
Where == {"free", "zombie", "call", "tested", "jump", "exit", "user", "wait", "sleep", "ready"}
SigTypes ==
    /\ sig \in [Process -> Signals!Signal \cup {Signals!NoSignal}]
    /\ signal \in [Process -> [Signals!Signal -> {"default", "ignore", "catch"}]]
    /\ state \in [Process -> Where]
    /\ sent \in [Process -> SUBSET Signals!Signal]
    /\ late \in SUBSET Process
(* What Delivered says of one process, and what makes it last: nothing was *)
(* sent to a free slot, and a process between sleep's test and its sleep   *)
(* is pending only if it is late.                                          *)
Owed(p) ==
    /\ KILL \in sent[p] /\ Signals!Alive(p) /\ state[p] # "exit" => sig[p] = KILL
    /\ state[p] \in {"tested", "wait"} /\ Signals!issig(p) => p \in late
    /\ state[p] = "jump" => \E s \in sent[p] : signal[p][s] # "ignore"
    /\ sig[p] \in sent[p] \cup {Signals!NoSignal}
    /\ state[p] = "free" => sig[p] = Signals!NoSignal /\ sent[p] = {}
SigInv == SigTypes /\ \A p \in Process : Owed(p)

(* What another process does to itself leaves this one's signals as they   *)
(* were.                                                                   *)
LEMMA OwedElsewhere ==
    ASSUME NEW p \in Process, Owed(p), sig'[p] = sig[p], signal'[p] = signal[p], state'[p] = state[p],
           sent'[p] = sent[p], (p \in late') = (p \in late) PROVE Owed(p)'
  BY DEF Owed, Signals!Alive, Signals!issig, Signals!Issig, Signals!Free, Signals!NoSignal

(* Nobody is owed a signal at boot. *)
LEMMA SigInit == Signals!Init => SigInv
  BY DEF Signals!Init, SigInv, SigTypes, Owed, Where, Signals!Free, Signals!NoSignal, Signals!issig, Signals!Issig

(* psignal keeps what is owed: a sleeper wakes, one between the test and   *)
(* the sleep is late.                                                      *)
LEMMA PostedStep ==
    ASSUME SigInv, NEW to \in SUBSET Process, NEW s \in Signals!Signal \cup {Signals!NoSignal}, Signals!psignal(to, s),
           \A q \in to : state[q] # "free" PROVE SigInv'
  <1>1. SigTypes' BY DEF SigInv, SigTypes, Signals!psignal, Signals!Post, Where, Signals!Signal
  <1>2. ASSUME NEW p \in Process PROVE Owed(p)'
    <2>1. CASE p \notin to BY <2>1, OwedElsewhere DEF SigInv, SigTypes, Signals!psignal
    <2>2. CASE p \in to
      <3>1. Owed(p) /\ state[p] # "free" /\ state[p] \in Where /\ signal'[p] = signal[p]
        BY <2>2 DEF SigInv, SigTypes, Signals!psignal
      <3>2. sig'[p] = Signals!Post(s, sig[p]) /\ sent'[p] = IF s # Signals!NoSignal THEN sent[p] \cup {s} ELSE sent[p]
        BY <2>2 DEF SigInv, SigTypes, Signals!psignal
      <3>3. state'[p] = IF state[p] = "wait" THEN "ready" ELSE state[p]
        BY <2>2 DEF SigInv, SigTypes, Signals!psignal
      <3>4. state[p] = "tested" => p \in late' BY <2>2 DEF Signals!psignal
      <3> QED
        BY <3>1, <3>2, <3>3, <3>4 DEF Owed, Signals!Post, Signals!Alive, Signals!issig, Signals!Issig, Signals!Free, Signals!NoSignal, Where
    <2> QED BY <2>1, <2>2
  <1> QED BY <1>1, <1>2 DEF SigInv

(* The steps between trap, sleep and the end of a call that no signal      *)
(* breaks off: only the place of the process changes, and not to "jump" or *)
(* "wait" unless the signals allow it.                                     *)
LEMMA QuietStep ==
    ASSUME SigInv, NEW p \in Process, NEW w \in Where, Signals!Goes(p, w), sig' = sig, signal' = signal, sent' = sent,
           late' = late \/ (late' = late \ {p} /\ w \notin {"tested", "wait"}),
           state[p] \notin {"free", "exit", "zombie"}, w # "free",
           w = "jump" => Signals!issig(p),
           w = "tested" => ~Signals!issig(p),
           w = "wait" => state[p] = "tested" PROVE SigInv'
  <1>1. SigTypes' BY DEF SigInv, SigTypes, Signals!Goes
  <1>2. ASSUME NEW q \in Process, q # p PROVE Owed(q)'
    BY <1>2, OwedElsewhere DEF SigInv, SigTypes, Signals!Goes
  <1>3. Owed(p)'
    <2>1. Owed(p) /\ state'[p] = w /\ sig[p] \in Signals!Signal \cup {Signals!NoSignal}
      BY DEF SigInv, SigTypes, Signals!Goes
    <2> QED
      BY <2>1 DEF Owed, Signals!Alive, Signals!issig, Signals!Issig, Signals!Free, Signals!NoSignal
  <1> QED BY <1>1, <1>2, <1>3 DEF SigInv

(* psig deals with the one signal there is. *)
LEMMA HandledStep ==
    ASSUME SigInv, NEW p \in Process, Signals!psig(p), Signals!issig(p), state[p] # "free" PROVE SigInv'
  <1>1. sig[p] \in Signals!Signal /\ Signals!Signal # {}
    BY DEF SigInv, SigTypes, Signals!issig, Signals!Issig
  <1>2. signal' \in [Process -> [Signals!Signal -> {"default", "ignore", "catch"}]]
    <2> DEFINE all == [s \in Signals!Signal |-> "ignore"]
               ways == {"default", "ignore", "catch"}
    <2>1. signal \in [Process -> [Signals!Signal -> ways]] /\ all \in [Signals!Signal -> ways] /\ "default" \in ways
      BY DEF SigInv, SigTypes
    <2>2. \/ signal' = signal
          \/ signal' = [signal EXCEPT ![p][sig[p]] = "default"]
          \/ signal' = [signal EXCEPT ![p] = all] BY DEF Signals!psig
    <2> HIDE DEF all, ways
    <2>3. signal' \in [Process -> [Signals!Signal -> ways]] BY <1>1, <2>1, <2>2
    <2> QED BY <2>3 DEF ways
  <1>3. state' = [state EXCEPT ![p] = "user"] \/ state' = [state EXCEPT ![p] = "exit"]
    BY DEF Signals!psig, Signals!Goes
  <1>4. sig' = [sig EXCEPT ![p] = Signals!NoSignal] /\ sent' = [sent EXCEPT ![p] = {}] /\ late' = late \ {p}
    BY DEF Signals!psig
  <1>5. SigTypes' BY <1>2, <1>3, <1>4 DEF SigInv, SigTypes, Where
  <1>6. ASSUME NEW q \in Process, q # p PROVE Owed(q)'
    BY <1>6, OwedElsewhere DEF SigInv, SigTypes, Signals!psig, Signals!Goes
  <1>7. Owed(p)'
    BY DEF SigInv, SigTypes, Signals!psig, Signals!Goes, Owed, Signals!issig, Signals!Issig, Signals!NoSignal
  <1> QED BY <1>6, <1>7, <1>5 DEF SigInv

(* ssig changes one way, and drops that signal when it is the one pending. *)
LEMMA SsigStep ==
    ASSUME SigInv, NEW p \in Process, NEW s \in Signals!Signal, NEW how \in {"default", "ignore", "catch"}, Signals!ssig(p, s, how)
    PROVE  SigInv'
  <1>1. SigTypes' BY DEF SigInv, SigTypes, Signals!ssig
  <1>2. ASSUME NEW q \in Process, q # p PROVE Owed(q)'
    BY <1>2, OwedElsewhere DEF SigInv, SigTypes, Signals!ssig
  <1>3. Owed(p)'
    <2>1. Owed(p) /\ state'[p] = "call" /\ state[p] = "call" /\ sent'[p] = sent[p] \ {s} /\ s # KILL
      BY DEF SigInv, SigTypes, Signals!ssig
    <2>2. sig'[p] = IF sig[p] = s THEN Signals!NoSignal ELSE sig[p] BY DEF SigInv, SigTypes, Signals!ssig
    <2> QED BY <2>1, <2>2 DEF Owed, Signals!Alive, Signals!Free
  <1> QED BY <1>1, <1>2, <1>3 DEF SigInv

(* exec forgets the handlers, not what is ignored. *)
LEMMA ExecStep ==
    ASSUME SigInv, NEW p \in Process, Signals!exec(p) PROVE SigInv'
  <1>1. SigTypes' BY DEF SigInv, SigTypes, Signals!exec
  <1>2. ASSUME NEW q \in Process, q # p PROVE Owed(q)'
    BY <1>2, OwedElsewhere DEF SigInv, SigTypes, Signals!exec
  <1>3. Owed(p)' BY DEF SigInv, SigTypes, Signals!exec, Owed, Signals!Alive, Signals!Free
  <1> QED BY <1>1, <1>2, <1>3 DEF SigInv

(* A new process has no signal pending. *)
LEMMA SigForkStep ==
    ASSUME SigInv, NEW p \in Process, NEW q \in Process, Signals!fork(p, q) PROVE SigInv'
  <1>1. SigTypes' BY DEF SigInv, SigTypes, Signals!fork, Signals!Goes, Where
  <1>2. ASSUME NEW r \in Process, r # q PROVE Owed(r)'
    BY <1>2, OwedElsewhere DEF SigInv, SigTypes, Signals!fork, Signals!Goes
  <1>3. Owed(q)' BY DEF SigInv, SigTypes, Signals!fork, Signals!Goes, Owed, Signals!Alive, Signals!Free
  <1> QED BY <1>1, <1>2, <1>3 DEF SigInv

(* A process that ends ignores them all. *)
LEMMA SigExitStep ==
    ASSUME SigInv, NEW p \in Process, Signals!exit(p) \/ Signals!Dies(p) PROVE SigInv'
  <1>1. SigTypes'
    <2>1. CASE Signals!exit(p) BY <2>1 DEF SigInv, SigTypes, Signals!exit, Signals!Goes, Where
    <2>2. CASE Signals!Dies(p)
      BY <2>2 DEF SigInv, SigTypes, Signals!Dies, Signals!Goes, Signals!Still, Where
    <2> QED BY <2>1, <2>2
  <1>2. ASSUME NEW q \in Process, q # p PROVE Owed(q)'
    BY <1>2, OwedElsewhere DEF SigInv, SigTypes, Signals!exit, Signals!Dies, Signals!Goes, Signals!Still
  <1>3. Owed(p)'
    BY DEF SigInv, SigTypes, Signals!exit, Signals!Dies, Signals!Goes, Signals!Still, Owed, Signals!Alive, Signals!Free
  <1> QED BY <1>1, <1>2, <1>3 DEF SigInv

(* A reaped entry is clear for the next process. *)
LEMMA ReapStep ==
    ASSUME SigInv, NEW p \in Process, NEW q \in Process, Signals!Reap(p, q) PROVE SigInv'
  <1>1. SigTypes' BY DEF SigInv, SigTypes, Signals!Reap, Signals!Goes, Signals!Free, Where
  <1>2. ASSUME NEW r \in Process, r # q PROVE Owed(r)'
    BY <1>2, OwedElsewhere DEF SigInv, SigTypes, Signals!Reap, Signals!Goes
  <1>3. Owed(q)'
    BY DEF SigInv, SigTypes, Signals!Reap, Signals!Goes, Owed, Signals!Alive, Signals!Free, Signals!NoSignal
  <1> QED BY <1>1, <1>2, <1>3 DEF SigInv

(* The steps of a call, which deal with signals only through psig. *)
LEMMA CallSteps ==
    ASSUME SigInv, NEW p \in Process,
           \/ Signals!Trap(p) \/ Signals!SleepTest(p) \/ Signals!SleepWait(p) \/ Signals!SleepSure(p)
           \/ Signals!Wakeup(p) \/ Signals!Resumed(p) \/ Signals!Returns(p) \/ Signals!Clock(p)
    PROVE  SigInv'
  <1> USE DEF Where, Signals!Still
  <1>1. CASE Signals!Trap(p) BY <1>1, QuietStep DEF Signals!Trap
  <1>2. CASE Signals!SleepTest(p)
    <2>1. CASE Signals!issig(p) BY <1>2, <2>1, QuietStep DEF Signals!SleepTest
    <2>2. CASE ~Signals!issig(p) BY <1>2, <2>2, QuietStep DEF Signals!SleepTest
    <2> QED BY <2>1, <2>2
  <1>3. CASE Signals!SleepWait(p) BY <1>3, QuietStep DEF Signals!SleepWait
  <1>4. CASE Signals!SleepSure(p) BY <1>4, QuietStep DEF Signals!SleepSure
  <1>5. CASE Signals!Wakeup(p)
    <2>1. CASE state[p] = "wait" /\ Signals!Goes(p, "ready") /\ Signals!Still BY <2>1, QuietStep
    <2>2. CASE state[p] = "sleep" /\ Signals!Runs(p) /\ Signals!Goes(p, "call") /\ Signals!Still
      BY <2>2, QuietStep
    <2> QED BY <1>5, <2>1, <2>2 DEF Signals!Wakeup
  <1>6. CASE Signals!Resumed(p)
    <2>1. CASE Signals!issig(p) BY <1>6, <2>1, QuietStep DEF Signals!Resumed
    <2>2. CASE ~Signals!issig(p) BY <1>6, <2>2, QuietStep DEF Signals!Resumed
    <2> QED BY <2>1, <2>2
  <1>7. CASE Signals!Returns(p)
    <2>1. CASE Signals!issig(p) BY <1>7, <2>1, HandledStep DEF Signals!Returns
    <2>2. CASE ~Signals!issig(p) BY <1>7, <2>2, QuietStep DEF Signals!Returns
    <2> QED BY <2>1, <2>2
  <1>8. CASE Signals!Clock(p) BY <1>8, HandledStep DEF Signals!Clock
  <1> QED BY <1>1, <1>2, <1>3, <1>4, <1>5, <1>6, <1>7, <1>8

(* Whoever sends goes through psignal, to processes there are. *)
LEMMA Senders ==
    ASSUME SigInv, NEW p \in Process,
           \/ Signals!Keyboard \/ Signals!BrokenPipe(p)
           \/ \E to \in SUBSET Process, s \in Signals!Signal \cup {Signals!NoSignal} : Signals!kill(p, to, s)
    PROVE  SigInv'
  <1>1. CASE Signals!Keyboard
    <2> DEFINE to == {q \in Process : state[q] # Signals!Free}
    <2>1. to \in SUBSET Process /\ INT \in Signals!Signal /\ \A q \in to : state[q] # "free"
      BY DEF Signals!Signal, Signals!Free
    <2>2. Signals!psignal(to, INT) BY <1>1 DEF Signals!Keyboard
    <2> HIDE DEF to
    <2> QED BY <2>1, <2>2, PostedStep
  <1>2. CASE Signals!BrokenPipe(p)
    <2>1. PICK s \in Other : Signals!psignal({p}, s) BY <1>2 DEF Signals!BrokenPipe
    <2>2. {p} \in SUBSET Process /\ s \in Signals!Signal /\ state[p] = "call"
      BY <1>2 DEF Signals!BrokenPipe, Signals!Signal
    <2> QED BY <2>1, <2>2, PostedStep
  <1>3. ASSUME NEW to \in SUBSET Process, NEW s \in Signals!Signal \cup {Signals!NoSignal}, Signals!kill(p, to, s)
        PROVE  SigInv' BY <1>3, PostedStep DEF Signals!kill, Signals!Free
  <1> QED BY <1>1, <1>2, <1>3

(* Every step of processes and senders keeps SigInv. *)
LEMMA SigNext == SigInv /\ [Signals!Next]_Signals!vars => SigInv'
  <1> SUFFICES ASSUME SigInv, [Signals!Next]_Signals!vars PROVE SigInv' OBVIOUS
  <1>1. CASE UNCHANGED Signals!vars
    <2>1. SigTypes' BY <1>1 DEF SigInv, SigTypes, Signals!vars
    <2>2. ASSUME NEW p \in Process PROVE Owed(p)' BY <1>1, OwedElsewhere DEF SigInv, Signals!vars
    <2> QED BY <2>1, <2>2 DEF SigInv
  <1>2. CASE Signals!Keyboard
    <2>1. CASE Process = {} BY <2>1, <1>2 DEF Signals!Keyboard, Signals!psignal, SigInv, SigTypes
    <2>2. CASE Process # {} BY <2>2, <1>2, Senders
    <2> QED BY <2>1, <2>2
  <1>3. ASSUME NEW p \in Process,
               \/ Signals!Trap(p) \/ Signals!SleepTest(p) \/ Signals!SleepWait(p) \/ Signals!SleepSure(p) \/ Signals!Wakeup(p)
               \/ Signals!Resumed(p) \/ Signals!Returns(p) \/ Signals!Clock(p)
               \/ Signals!BrokenPipe(p) \/ Signals!exec(p) \/ Signals!exit(p) \/ Signals!Dies(p)
               \/ \E to \in SUBSET Process, s \in Signals!Signal \cup {Signals!NoSignal} : Signals!kill(p, to, s)
               \/ \E s \in Signals!Signal, how \in {"default", "ignore", "catch"} : Signals!ssig(p, s, how)
               \/ \E q \in Process : Signals!fork(p, q) \/ Signals!Reap(p, q)
        PROVE  SigInv' BY <1>3, CallSteps, Senders, ExecStep, SigExitStep, SsigStep, SigForkStep, ReapStep
  <1> QED BY <1>1, <1>2, <1>3 DEF Signals!Next

(* A process that was sent SIGKILL keeps it until it leaves, none sleeps   *)
(* on with a signal it does not ignore unless it came between sleep's test *)
(* and its sleep, a call is broken off only for a signal that was sent     *)
(* (SLP.C, SIG.C, SYS4.C), for every number of processes and signals.      *)
THEOREM SignalsDelivered == Signals!Spec => []Signals!Delivered
  <1>1. SigInv => Signals!Delivered
    <2> SUFFICES ASSUME SigInv, NEW p \in Process PROVE Owed(p) BY DEF Signals!Delivered, Owed, Signals!Free
    <2> QED BY DEF SigInv
  <1> QED BY <1>1, SigInit, SigNext, PTL DEF Signals!Spec

----
(* psinfo.                                                                 *)
Entries == [pid : Nat, load : BOOLEAN, addr : SwapArea \cup {0}, to : SwapArea \cup {0},
            frame : Nat \X Int]
Readings == [step : {"idle", "read", "wait"}, pid : Nat, addr : SwapArea \cup {0}, buf : Int \X Int]
Told == [right : BOOLEAN, old : BOOLEAN, out : BOOLEAN]
PsTypes ==
    /\ slot \in Entries
    /\ disk \in [SwapArea -> Int \X Int]
    /\ cache \in [SwapArea -> Int \X Int]
    /\ call \in Readings
    /\ answer \in Told
    /\ moves \in Nat
(* A swapped process's frame is on the disk where its entry says, unless   *)
(* it is being written there; a reading under way is of a process.         *)
PsInv ==
    /\ PsTypes
    /\ slot.pid # 0 => slot.pid = slot.frame[1]
    /\ slot.pid # 0 /\ ~slot.load /\ slot.to = 0 =>
          slot.addr \in SwapArea /\ disk[slot.addr] = slot.frame
    /\ slot.to # 0 => slot.pid # 0 /\ ~slot.load
    /\ slot.frame[1] # 0
    /\ call.step # "idle" => call.pid # 0
    /\ PsInfos!OneInstant

USE DEF Entries, Readings, Told, PsInfos!None

(* The first process is in core and nothing reads its entry. *)
LEMMA PsInit == PsInfos!Init => PsInv BY DEF PsInfos!Init, PsInfos!Idle, PsInv, PsTypes, PsInfos!OneInstant

(* The process runs on, comes back to core, or another takes its entry, by *)
(* which no answer changes.                                                *)
LEMMA SlotSteps ==
    ASSUME PsInv, PsInfos!Runs \/ PsInfos!SwapIn \/ PsInfos!Fork PROVE PsInv'
  <1> USE DEF PsInv, PsTypes, PsInfos!OneInstant, PsInfos!Quiet, PsInfos!Moves
  <1>1. CASE PsInfos!Runs
    <2>1. PICK f \in Nat, n \in Int : slot.frame = <<f, n>> OBVIOUS
    <2>2. slot' = [slot EXCEPT !.frame = <<f, n + 1>>] BY <1>1, <2>1 DEF PsInfos!Runs
    <2>3. slot' \in Entries BY ONLY slot \in Entries, <2>1, <2>2, SMTT(30) DEF Entries
    <2>5. slot'.pid = slot.pid /\ slot'.load = slot.load /\ slot'.to = slot.to /\ slot'.frame[1] = f
      BY ONLY slot \in Entries, <2>1, <2>2, SMTT(30) DEF Entries
    <2>4. slot.load /\ moves' \in Nat /\ UNCHANGED <<call, answer, disk, cache>> BY <1>1 DEF PsInfos!Runs
    <2> HIDE DEF Entries
    <2> QED BY <2>1, <2>3, <2>4, <2>5
  <1>2. CASE PsInfos!SwapIn BY <1>2 DEF PsInfos!SwapIn
  <1>3. CASE PsInfos!Fork BY <1>3 DEF PsInfos!Fork
  <1> QED BY <1>1, <1>2, <1>3

(* A frame that goes out is where the entry says; exit's block is in a     *)
(* freed entry.                                                            *)
LEMMA BlockSteps ==
    ASSUME PsInv, 0 \notin SwapArea, NEW b \in SwapArea,
           \/ PsInfos!SwapSelf(b) \/ PsInfos!SwapOut(b) \/ PsInfos!SwapOutDone
           \/ PsInfos!Exit(b) \/ PsInfos!Evict(b)
    PROVE  PsInv'
  <1> USE DEF PsInv, PsTypes, PsInfos!OneInstant, PsInfos!Quiet, PsInfos!Moves
  <1>1. CASE PsInfos!SwapSelf(b)
    <2>1. slot' \in Entries /\ slot'.pid = slot.pid /\ ~slot'.load /\ slot'.frame = slot.frame
          /\ slot'.addr = b /\ slot'.to = slot.to BY <1>1 DEF PsInfos!SwapSelf
    <2>2. disk' = [disk EXCEPT ![b] = slot.frame] /\ slot.frame \in Int \X Int BY <1>1 DEF PsInfos!SwapSelf
    <2>3. slot.load /\ moves' \in Nat /\ UNCHANGED <<call, answer, cache>> BY <1>1 DEF PsInfos!SwapSelf
    <2> HIDE DEF Entries
    <2> QED BY <2>1, <2>2, <2>3
  <1>4. CASE PsInfos!SwapOut(b)
    <2>1. slot' \in Entries /\ slot'.pid = slot.pid /\ ~slot'.load /\ slot'.frame = slot.frame
          /\ slot'.to = b BY <1>4 DEF PsInfos!SwapOut
    <2>2. slot.pid # 0 /\ moves' \in Nat /\ UNCHANGED <<call, answer, cache, disk>>
      BY <1>4 DEF PsInfos!SwapOut
    <2> HIDE DEF Entries
    <2> QED BY <2>1, <2>2
  <1>5. CASE PsInfos!SwapOutDone
    <2>1. slot' \in Entries /\ slot'.pid = slot.pid /\ slot'.load = slot.load
          /\ slot'.frame = slot.frame /\ slot'.addr = slot.to /\ slot'.to = 0
          /\ slot.to \in SwapArea BY <1>5 DEF PsInfos!SwapOutDone
    <2>2. disk' = [disk EXCEPT ![slot.to] = slot.frame] /\ slot.frame \in Int \X Int
      BY <1>5 DEF PsInfos!SwapOutDone
    <2>3. UNCHANGED <<call, answer, cache, moves>> BY <1>5 DEF PsInfos!SwapOutDone
    <2> HIDE DEF Entries
    <2> QED BY <2>1, <2>2, <2>3
  <1>2. CASE PsInfos!Exit(b)
    <2>1. slot' \in Entries /\ slot'.pid = 0 /\ slot'.frame = slot.frame /\ slot'.to = 0
      BY <1>2 DEF PsInfos!Exit
    <2>2. \E left \in Int \X Int : disk' = [disk EXCEPT ![b] = left] /\ cache' = [cache EXCEPT ![b] = left]
      <3>1. <<slot.pid, -1>> \in Int \X Int OBVIOUS
      <3> QED BY <1>2, <3>1 DEF PsInfos!Exit
    <2>3. moves' = moves /\ UNCHANGED <<call, answer>> BY <1>2 DEF PsInfos!Exit
    <2> HIDE DEF Entries
    <2> QED BY <2>1, <2>2, <2>3
  <1>3. CASE PsInfos!Evict(b) BY <1>3 DEF PsInfos!Evict
  <1> QED BY <1>1, <1>2, <1>3, <1>4, <1>5

(* A reading answers with the frame on the disk, or with an old buffer,    *)
(* when the entry is as it was noted.                                      *)
LEMMA ReadSteps ==
    ASSUME PsInv, 0 \notin SwapArea,
           PsInfos!psinfo \/ PsInfos!Bread \/ PsInfos!Woken \/ PsInfos!ReadFails PROVE PsInv'
  <1> USE DEF PsInv, PsTypes, PsInfos!OneInstant
  <1>1. CASE PsInfos!psinfo
    <2> USE DEF PsInfos!psinfo, PsInfos!Answers
    <2>1. CASE slot.pid = 0
      <3>1. answer' = [right |-> TRUE, old |-> FALSE, out |-> slot.to # 0]
            /\ UNCHANGED <<call, slot, disk, cache, moves>> BY <1>1, <2>1
      <3> QED BY <3>1
    <2>2. CASE slot.pid # 0 /\ slot.load
      <3>1. answer' = [right |-> TRUE, old |-> FALSE, out |-> slot.to # 0]
            /\ UNCHANGED <<call, slot, disk, cache, moves>> BY <1>1, <2>2
      <3> QED BY <3>1
    <2>3. CASE slot.pid # 0 /\ ~slot.load
      <3>1. call' \in Readings /\ call'.pid = slot.pid /\ call'.addr = slot.addr BY <1>1, <2>3
      <3>2. UNCHANGED <<answer, cache, slot, disk, moves>> BY <1>1, <2>3
      <3> HIDE DEF Readings, PsInfos!psinfo
      <3> QED BY <2>3, <3>1, <3>2
    <2> QED BY <2>1, <2>2, <2>3
  <1>2. CASE PsInfos!Bread
    <2> DEFINE sector == IF call.addr = 0 THEN PsInfos!Alien
                         ELSE IF cache[call.addr] # PsInfos!None THEN cache[call.addr] ELSE disk[call.addr]
    <2>1. sector \in Int \X Int BY DEF PsInfos!Alien
    <2>2. call.step = "read" /\ call' = [call EXCEPT !.step = "wait", !.buf = sector]
          /\ cache' = (IF call.addr = 0 THEN cache ELSE [cache EXCEPT ![call.addr] = sector])
          /\ UNCHANGED <<slot, disk, answer, moves>> BY <1>2 DEF PsInfos!Bread
    <2> HIDE DEF sector
    <2>3. call' \in Readings /\ call'.pid = call.pid BY <2>1, <2>2
    <2> HIDE DEF Readings
    <2>4. call.addr # 0 => call.addr \in SwapArea BY DEF Readings
    <2> QED BY <2>1, <2>2, <2>3, <2>4
  <1>3. CASE PsInfos!Woken
    <2>1. call.step = "wait" /\ call' = PsInfos!Idle /\ UNCHANGED <<slot, disk, cache, moves>>
      BY <1>3 DEF PsInfos!Woken
    <2>2. PsInfos!Idle \in Readings /\ PsInfos!Idle.step = "idle" BY DEF PsInfos!Idle
    <2>3. answer' \in Told /\ (answer'.right \/ answer'.old \/ answer'.out)
      <3>1. CASE PsInfos!Moved BY <1>3, <3>1 DEF PsInfos!Woken
      <3>2. CASE ~PsInfos!Moved
        <4>1. slot.pid = call.pid /\ ~slot.load /\ slot.addr = call.addr /\ call.pid # 0
          BY <2>1, <3>2 DEF PsInfos!Moved
        <4>2. answer' = [right |-> call.buf = <<0, 0>> \/ (call.buf = slot.frame /\ slot.pid = call.buf[1]),
                      old |-> call.addr # 0 /\ call.buf # disk[call.addr], out |-> slot.to # 0]
          BY <1>3, <3>2 DEF PsInfos!Woken, PsInfos!Answers
        <4>3. slot.to = 0 => call.addr # 0 /\ disk[call.addr] = slot.frame /\ slot.pid = slot.frame[1]
          BY <4>1
        <4> QED BY <4>2, <4>3
      <3> QED BY <3>1, <3>2
    <2> QED BY <2>1, <2>2, <2>3
  <1>4. CASE PsInfos!ReadFails
    <2>1. call' = PsInfos!Idle /\ UNCHANGED <<slot, disk, cache, moves>> BY <1>4 DEF PsInfos!ReadFails
    <2>2. PsInfos!Idle \in Readings /\ PsInfos!Idle.step = "idle" BY DEF PsInfos!Idle
    <2>3. answer' \in Told /\ (answer'.right \/ answer'.old \/ answer'.out)
      <3>1. UNCHANGED answer \/ answer' = [right |-> TRUE, old |-> FALSE, out |-> slot.to # 0]
        <4>1. CASE PsInfos!Moved BY <1>4, <4>1 DEF PsInfos!ReadFails
        <4>2. CASE ~PsInfos!Moved
          <5>1. PsInfos!Answers(<<0, 0>>, FALSE) BY <1>4, <4>2 DEF PsInfos!ReadFails
          <5> QED BY ONLY <5>1 DEF PsInfos!Answers, PsInfos!None
        <4> QED BY <4>1, <4>2
      <3>2. CASE UNCHANGED answer BY <3>2
      <3>3. CASE answer' = [right |-> TRUE, old |-> FALSE, out |-> slot.to # 0] BY <3>3
      <3> QED BY <3>1, <3>2, <3>3
    <2> QED BY <2>1, <2>2, <2>3
  <1> QED BY <1>1, <1>2, <1>3, <1>4

(* psinfo's two halves are of one process at one instant, or the buffer is *)
(* older than the disk, or sched is writing the process out (SYS4.C),      *)
(* whenever it is swapped, dies or is replaced during the read; 0 is no    *)
(* swap area.                                                              *)
THEOREM EntriesAtOneInstant == 0 \notin SwapArea => (PsInfos!Spec => []PsInfos!OneInstant)
  <1> SUFFICES ASSUME 0 \notin SwapArea PROVE PsInfos!Spec => []PsInfos!OneInstant OBVIOUS
  <1>1. PsInv /\ [PsInfos!Next]_PsInfos!vars => PsInv'
    <2> SUFFICES ASSUME PsInv, [PsInfos!Next]_PsInfos!vars PROVE PsInv' OBVIOUS
    <2>1. CASE UNCHANGED PsInfos!vars BY <2>1 DEF PsInfos!vars, PsInv, PsTypes, PsInfos!OneInstant
    <2>2. CASE PsInfos!Runs \/ PsInfos!SwapIn \/ PsInfos!Fork BY <2>2, SlotSteps
    <2>3. CASE PsInfos!psinfo \/ PsInfos!Bread \/ PsInfos!Woken \/ PsInfos!ReadFails BY <2>3, ReadSteps
    <2>4. CASE PsInfos!SwapOutDone
      <3>1. slot.to \in SwapArea BY <2>4 DEF PsInv, PsTypes, PsInfos!SwapOutDone
      <3> QED BY <2>4, <3>1, BlockSteps
    <2>5. ASSUME NEW b \in SwapArea,
                 PsInfos!SwapSelf(b) \/ PsInfos!SwapOut(b) \/ PsInfos!Exit(b) \/ PsInfos!Evict(b)
          PROVE  PsInv' BY <2>5, BlockSteps
    <2> QED BY <2>1, <2>2, <2>3, <2>4, <2>5 DEF PsInfos!Next
  <1>2. PsInv => PsInfos!OneInstant BY DEF PsInv
  <1> QED BY <1>1, <1>2, PsInit, PTL DEF PsInfos!Spec

----
(* Whatever the calls on files, the signals and the readings of other      *)
(* processes' entries do to one another's timing, each keeps its promise.  *)
THEOREM CallsCorrect == Files!Spec /\ Signals!Spec /\ PsInfos!Spec => []Calls
  <1>0. Files!FileAssumption /\ Signals!SignalAssumption /\ 0 \notin SwapArea BY KernelPartsAssumption
  <1>1. Files!Spec => []Files!Counted BY <1>0, ReferencesCounted
  <1>2. Signals!Spec => []Signals!Delivered BY <1>0, SignalsDelivered
  <1>3. PsInfos!Spec => []PsInfos!OneInstant BY <1>0, EntriesAtOneInstant
  <1>4. Files!Counted /\ Signals!Delivered /\ PsInfos!OneInstant => Calls BY DEF Calls
  <1> QED BY <1>1, <1>2, <1>3, <1>4, PTL
----
(* The keyboard: what the handler has yet to read of the key under way.    *)

Modifier == {"CTL", "SHIFT", "ALT"}
KeyTypes ==
    /\ shift \subseteq Modifier \cup {"E0ESC", "CAPSLOCK"}
    /\ down \subseteq Keyboard!Keys /\ presses \in {0, 1}
KeyHeld(m) == \E k \in down : m \in Keyboard!shiftcode(k)
AllHeld    == \A m \in shift \cap Modifier : KeyHeld(m)
Toggled    == ("CAPSLOCK" \in shift) <=> (presses = 1)
(* The bytes of a key from the prefix on, or from the code on once the     *)
(* handler has noted the prefix.                                           *)
UnderWay(k, code) ==
    \/ k >= 128 /\ "E0ESC" \notin shift /\ line = <<Keyboard!E0, code>>
    \/ k >= 128 /\ "E0ESC" \in shift /\ line = <<code>>
    \/ k < 128 /\ "E0ESC" \notin shift /\ line = <<code>>
AtRest == line = <<>> /\ "E0ESC" \notin shift /\ Toggled /\ AllHeld
Pressing(k) ==
    /\ UnderWay(k, Keyboard!Code(k)) /\ k \in down /\ AllHeld
    /\ IF k = 58 THEN ~Toggled ELSE Toggled
Releasing(k) ==
    /\ UnderWay(k, 128 + Keyboard!Code(k)) /\ Toggled
    /\ \A m \in shift \cap Modifier : KeyHeld(m) \/ m \in Keyboard!shiftcode(k)
KeyInv ==
    /\ KeyTypes
    /\ AtRest \/ \E k \in Keyboard!Keys : Pressing(k) \/ Releasing(k)

(* A key's number is its code, 128 more with a prefix, and no code with    *)
(* the top bit is the prefix.                                              *)
LEMMA KeyCode ==
    ASSUME NEW k \in Keyboard!Keys
    PROVE  /\ k \in 0..255 /\ Keyboard!Code(k) \in 0..127 /\ Keyboard!Code(k) # 96
           /\ k >= 128 => k = Keyboard!Code(k) + 128
           /\ k < 128 => k = Keyboard!Code(k) BY DEF Keyboard!Keys, Keyboard!Code

(* A code taken with the top bit is 128 more, and without it the code. *)
LEMMA TopBit ==
    ASSUME NEW c \in 0..127 PROVE (128 + c) % 128 = c /\ Keyboard!Code(c) = c BY DEF Keyboard!Code

(* A key is of one kind of modifier at most, and one key toggles. *)
LEMMA ShiftCode ==
    \A d : /\ Keyboard!shiftcode(d) \subseteq Modifier
           /\ Keyboard!togglecode(d) = IF d = 58 THEN {"CAPSLOCK"} ELSE {}
  <1> TAKE d
  <1>1. CASE d \in {29, 157} BY <1>1 DEF Keyboard!shiftcode, Keyboard!togglecode, Modifier
  <1>2. CASE d \in {42, 54} BY <1>2 DEF Keyboard!shiftcode, Keyboard!togglecode, Modifier
  <1>3. CASE d \in {56, 184} BY <1>3 DEF Keyboard!shiftcode, Keyboard!togglecode, Modifier
  <1>4. CASE d \notin {29, 157, 42, 54, 56, 184}
    BY <1>4 DEF Keyboard!shiftcode, Keyboard!togglecode, Modifier
  <1> QED BY <1>1, <1>2, <1>3, <1>4

(* A key pressed is under way. *)
LEMMA PressSteps ==
    ASSUME KeyInv, NEW k \in Keyboard!Keys, Keyboard!Press(k) PROVE KeyInv'
  <1>1. AtRest BY DEF KeyInv, Pressing, Releasing, UnderWay, Keyboard!Press
  <1>2. KeyTypes' /\ k \in down' /\ shift' = shift BY DEF KeyInv, KeyTypes, Keyboard!Press
  <1>3. AllHeld' BY <1>1 DEF AtRest, AllHeld, KeyHeld, Keyboard!Press
  <1>4. UnderWay(k, Keyboard!Code(k))'
    <2>1. line' = (IF k >= 128 THEN <<Keyboard!E0, Keyboard!Code(k)>> ELSE <<Keyboard!Code(k)>>)
      BY DEF Keyboard!Press, Keyboard!Prefix
    <2>2. k >= 128 \/ k < 128 BY KeyCode
    <2> QED BY <1>1, <1>2, <2>1, <2>2 DEF AtRest, UnderWay
  <1>5. IF k = 58 THEN ~Toggled' ELSE Toggled' BY <1>1 DEF AtRest, Toggled, KeyInv, KeyTypes, Keyboard!Press
  <1> QED BY <1>2, <1>3, <1>4, <1>5 DEF KeyInv, Pressing

(* A key let go is under way; its modifier stays on until its code is read. *)
LEMMA ReleaseSteps ==
    ASSUME KeyInv, NEW k \in down, Keyboard!Release(k) PROVE KeyInv'
  <1>0. k \in Keyboard!Keys BY DEF KeyInv, KeyTypes
  <1>1. AtRest BY DEF KeyInv, Pressing, Releasing, UnderWay, Keyboard!Release
  <1>2. KeyTypes' /\ shift' = shift /\ Toggled'
    BY <1>1 DEF KeyInv, KeyTypes, AtRest, Toggled, Keyboard!Release
  <1>3. \A m \in shift' \cap Modifier : KeyHeld(m)' \/ m \in Keyboard!shiftcode(k)
    BY <1>1 DEF AtRest, AllHeld, KeyHeld, Keyboard!Release
  <1>4. UnderWay(k, 128 + Keyboard!Code(k))'
    <2>1. line' = (IF k >= 128 THEN <<Keyboard!E0, 128 + Keyboard!Code(k)>> ELSE <<128 + Keyboard!Code(k)>>)
      BY DEF Keyboard!Release, Keyboard!Prefix
    <2>2. k >= 128 \/ k < 128 BY <1>0, KeyCode
    <2> QED BY <1>1, <1>2, <2>1, <2>2 DEF AtRest, UnderWay
  <1> QED BY <1>0, <1>2, <1>3, <1>4 DEF KeyInv, Releasing

(* A byte read: the prefix is noted, a code of a key let go turns its kind *)
(* of modifier off, a code of a key pressed turns it on.                   *)
LEMMA ReadKeySteps ==
    ASSUME KeyInv, Keyboard!kbd_getc PROVE KeyInv'
  <1>0. PICK k \in Keyboard!Keys : Pressing(k) \/ Releasing(k) BY DEF KeyInv, AtRest, Keyboard!kbd_getc
  <1>1. PICK c \in {Keyboard!Code(k), 128 + Keyboard!Code(k)} :
            /\ UnderWay(k, c) /\ (c = Keyboard!Code(k) => Pressing(k)) /\ (c # Keyboard!Code(k) => Releasing(k))
    BY <1>0, KeyCode DEF Pressing, Releasing
  <1>2. k \in 0..255 /\ Keyboard!Code(k) \in 0..127 /\ c \in 0..255 /\ c # 224 BY KeyCode
  <1>3. down' = down /\ presses' = presses /\ KeyTypes BY DEF Keyboard!kbd_getc, KeyInv
  <1>4. CASE line = <<Keyboard!E0, c>>
    <2>1. k >= 128 /\ line' = <<c>> /\ shift' = shift \cup {"E0ESC"}
      BY <1>1, <1>2, <1>4 DEF UnderWay, Keyboard!kbd_getc, Keyboard!E0
    <2>2. UnderWay(k, c)' BY <2>1 DEF UnderWay
    <2>3. (Toggled <=> Toggled') /\ (\A m : KeyHeld(m)' <=> KeyHeld(m)) /\ shift' \cap Modifier = shift \cap Modifier /\ KeyTypes'
      BY <1>3, <2>1 DEF Toggled, KeyHeld, Modifier, KeyTypes
    <2>4. (Pressing(k) /\ UnderWay(k, c) /\ c = Keyboard!Code(k) => Pressing(k)') /\ (Releasing(k) /\ c = 128 + Keyboard!Code(k) => Releasing(k)')
      BY <1>3, <2>2, <2>3 DEF Pressing, Releasing, AllHeld
    <2> QED BY <1>1, <1>2, <2>3, <2>4 DEF KeyInv
  <1>5. CASE line = <<c>>
    <2>1. line' = <<>> /\ ("E0ESC" \in shift <=> k >= 128)
      <3>1. line # <<Keyboard!E0, c>> BY ONLY <1>5
      <3>2. (k >= 128 /\ "E0ESC" \in shift) \/ (k < 128 /\ "E0ESC" \notin shift)
        BY ONLY <1>1, <3>1 DEF UnderWay
      <3>3. ~(k >= 128 /\ k < 128) BY <1>2
      <3>4. line' = Tail(line) /\ Tail(<<c>>) = <<>> BY DEF Keyboard!kbd_getc
      <3> QED BY ONLY <1>5, <3>2, <3>3, <3>4
    <2>2. CASE c # Keyboard!Code(k)
      <3>1. c = 128 + Keyboard!Code(k) /\ c \in 128..255 \ {Keyboard!E0} /\ Releasing(k)
        <4>1. c = 128 + Keyboard!Code(k) /\ Releasing(k) BY ONLY <1>1, <2>2
        <4>2. 128 + Keyboard!Code(k) \in 128..255 BY ONLY <1>2
        <4> QED BY ONLY <1>2, <4>1, <4>2 DEF Keyboard!E0
      <3>2. (IF "E0ESC" \in shift THEN c ELSE c % 128) = k
        <4>1. (k >= 128 => k = Keyboard!Code(k) + 128) /\ (k < 128 => k = Keyboard!Code(k)) /\ (k >= 128 \/ k < 128)
          BY KeyCode
        <4>2. c % 128 = Keyboard!Code(k) BY <1>2, <3>1, TopBit
        <4>3. 128 + Keyboard!Code(k) = Keyboard!Code(k) + 128 BY <1>2
        <4> QED BY ONLY <2>1, <3>1, <4>1, <4>2, <4>3
      <3>3. shift' = shift \ (Keyboard!shiftcode(k) \cup {"E0ESC"})
        <4>1. shift' = Keyboard!Released(c) BY <1>5, <3>1 DEF Keyboard!kbd_getc, Keyboard!E0
        <4> QED BY <3>2, <4>1 DEF Keyboard!Released
      <3>4. AtRest'
        BY <1>3, <2>1, <3>1, <3>3, ShiftCode DEF AtRest, Releasing, Toggled, AllHeld, KeyHeld, Modifier
      <3> QED BY <1>3, <3>3, <3>4 DEF KeyInv, KeyTypes
    <2>3. CASE c = Keyboard!Code(k)
      <3>1. c \notin 128..255 /\ c # Keyboard!E0 /\ Pressing(k)
        <4>1. Keyboard!Code(k) \notin 128..255 BY ONLY <1>2
        <4> QED BY ONLY <1>1, <1>2, <2>3, <4>1 DEF Keyboard!E0
      <3>2. (IF "E0ESC" \in shift THEN Keyboard!Code(c) + 128 ELSE c) = k
        <4>1. (k >= 128 => k = Keyboard!Code(k) + 128) /\ (k < 128 => k = Keyboard!Code(k)) /\ (k >= 128 \/ k < 128)
          BY KeyCode
        <4>2. Keyboard!Code(c) = Keyboard!Code(k) BY <1>2, <2>3, TopBit
        <4> QED BY ONLY <2>1, <2>3, <4>1, <4>2
      <3> DEFINE s == (shift \ {"E0ESC"}) \cup Keyboard!shiftcode(k)
      <3>3. shift' = (s \ Keyboard!togglecode(k)) \cup (Keyboard!togglecode(k) \ s)
        <4>1. shift' = Keyboard!Pressed(c) BY <1>5, <3>1 DEF Keyboard!kbd_getc
        <4> QED BY <3>2, <4>1 DEF Keyboard!Pressed
      <3>4. shift' \cap Modifier \subseteq (shift \cap Modifier) \cup Keyboard!shiftcode(k) /\ "E0ESC" \notin shift' /\ KeyTypes'
        BY <1>3, <3>3, ShiftCode DEF KeyTypes, Modifier
      <3>5. Toggled' BY <1>3, <3>1, <3>3, ShiftCode DEF Toggled, Pressing, Modifier
      <3>6. AllHeld' BY <1>3, <3>1, <3>4, ShiftCode DEF AllHeld, KeyHeld, Pressing
      <3> QED BY <2>1, <3>4, <3>5, <3>6 DEF KeyInv, AtRest
    <2> QED BY <2>2, <2>3
  <1> QED BY <1>1, <1>4, <1>5 DEF UnderWay

(* Whatever keys overlap and in whatever order they go, when no byte is    *)
(* under way (KBD.C) a modifier is on only while a key of its kind is      *)
(* down, no prefix is left over and the caps lock follows its presses.     *)
THEOREM NoModifierSticks == Keyboard!Spec => []Modifiers
  <1>1. Keyboard!Init => KeyInv BY DEF Keyboard!Init, KeyInv, KeyTypes, AtRest, Toggled, AllHeld
  <1>2. KeyInv /\ [Keyboard!Next]_Keyboard!vars => KeyInv'
    <2> SUFFICES ASSUME KeyInv, [Keyboard!Next]_Keyboard!vars PROVE KeyInv' OBVIOUS
    <2>1. CASE UNCHANGED Keyboard!vars
      BY <2>1 DEF Keyboard!vars, KeyInv, KeyTypes, AtRest, Pressing, Releasing, UnderWay, Toggled, AllHeld, KeyHeld
    <2> QED BY <2>1, PressSteps, ReleaseSteps, ReadKeySteps DEF Keyboard!Next
  <1>3. KeyInv => Keyboard!NoneSticks
    BY DEF KeyInv, AtRest, Pressing, Releasing, UnderWay, Toggled, AllHeld, KeyHeld, Modifier, Keyboard!NoneSticks
  <1>4. Keyboard!NoneSticks => Modifiers BY DEF Modifiers
  <1> QED BY <1>1, <1>2, <1>3, <1>4, PTL DEF Keyboard!Spec

----
(* The callouts.  What counts is the sum of the times up to an entry: g is *)
(* those sums.                                                             *)

CallEntries == [call : Callee, time : Nat]
Sums(l, g) ==
    /\ g \in [0..Len(l) -> Nat] /\ g[0] = 0
    /\ \A j \in 1..Len(l) : g[j] = g[j - 1] + l[j].time

(* Sum is what the sums are: two functions of the same recursion agree. *)
LEMMA SumIs ==
    ASSUME NEW l \in Seq(CallEntries), NEW g, Sums(l, g), NEW k \in 0..Len(l)
    PROVE  Callouts!Sum(l, k) = g[k]
  <1> DEFINE n == Len(l)
             Step(s) == [j \in 0..n |-> IF j = 0 THEN 0 ELSE s[j - 1] + l[j].time]
             s == CHOOSE f : f = Step(f)
  <1>0. n \in Nat BY LenProperties
  <1>1. Callouts!Sum(l, k) = s[k] BY DEF Callouts!Sum
  <1>2. g = Step(g)
    <2>1. g = [j \in 0..n |-> g[j]] BY DEF Sums
    <2>2. \A j \in 0..n : g[j] = IF j = 0 THEN 0 ELSE g[j - 1] + l[j].time BY <1>0 DEF Sums
    <2> QED BY <2>1, <2>2
  <1>3. s = Step(s) BY <1>2
  <1>4. \A j \in 0..n : s[j] = IF j = 0 THEN 0 ELSE s[j - 1] + l[j].time
    <2> HIDE DEF s
    <2> QED BY <1>3
  <1> HIDE DEF s, n, Step
  <1>5. \A j \in 0..n : s[j] = g[j]
    <2> DEFINE Bad == {j \in 0..n : s[j] # g[j]}
    <2> SUFFICES ASSUME Bad # {} PROVE FALSE OBVIOUS
    <2>0. Bad \subseteq Nat BY <1>0
    <2>1. PICK j \in Bad : \A i \in Bad : j <= i BY ONLY <2>0, Bad # {}, SomeLeast
    <2>2. j \in 0..n /\ s[j] # g[j] OBVIOUS
    <2>3. j # 0 BY <1>0, <1>4, <2>2 DEF Sums
    <2>4. j - 1 \in 0..n /\ j \in 1..n BY <1>0, <2>2, <2>3
    <2>5. s[j - 1] = g[j - 1] BY <1>0, <2>1, <2>4
    <2>6. g[j] = g[j - 1] + l[j].time BY <2>4 DEF Sums, n
    <2> QED BY <1>4, <2>2, <2>3, <2>5, <2>6
  <1> QED BY <1>1, <1>5 DEF n

(* The sums grow along the list. *)
LEMMA SumsGrow ==
    ASSUME NEW l \in Seq(CallEntries), NEW g, Sums(l, g), NEW i \in 0..Len(l), NEW k \in 0..Len(l), i <= k
    PROVE  g[i] <= g[k]
  <1> DEFINE Bad == {j \in 0..Len(l) : i <= j /\ ~ (g[i] <= g[j])}
  <1> SUFFICES ASSUME Bad # {} PROVE FALSE OBVIOUS
  <1>0. Len(l) \in Nat BY LenProperties
  <1>b. Bad \subseteq Nat BY <1>0
  <1>1. PICK j \in Bad : \A y \in Bad : j <= y BY ONLY <1>b, Bad # {}, SomeLeast
  <1>2. j \in 0..Len(l) /\ i <= j /\ ~ (g[i] <= g[j]) /\ g[i] \in Nat /\ g[j] \in Nat BY DEF Sums
  <1>3. i # j BY <1>2
  <1>4. j - 1 \in 0..Len(l) /\ j \in 1..Len(l) /\ i <= j - 1 BY <1>0, <1>2, <1>3
  <1>5. g[i] <= g[j - 1] BY <1>0, <1>1, <1>4
  <1>6. l[j].time \in Nat
    <2>1. l[j] \in CallEntries BY <1>4, ElementOfSeq
    <2> QED BY <2>1 DEF CallEntries
  <1>7. g[j] = g[j - 1] + l[j].time /\ g[j - 1] \in Nat BY <1>4 DEF Sums
  <1> QED BY <1>2, <1>5, <1>6, <1>7

(* CallEntries without time before one make no sum. *)
LEMMA ZeroBefore ==
    ASSUME NEW l \in Seq(CallEntries), NEW g, Sums(l, g), NEW q \in 0..Len(l) + 1,
           \A i \in 1..Len(l) : i < q => l[i].time = 0,
           NEW k \in 0..Len(l), k < q PROVE g[k] = 0
  <1> DEFINE Bad == {j \in 0..Len(l) : j < q /\ g[j] # 0}
  <1> SUFFICES ASSUME Bad # {} PROVE FALSE OBVIOUS
  <1>0. Len(l) \in Nat BY LenProperties
  <1>b. Bad \subseteq Nat BY <1>0
  <1>1. PICK j \in Bad : \A y \in Bad : j <= y BY ONLY <1>b, Bad # {}, SomeLeast
  <1>2. j \in 0..Len(l) /\ j < q /\ g[j] # 0 OBVIOUS
  <1>3. j # 0 BY <1>2 DEF Sums
  <1>4. j - 1 \in 0..Len(l) /\ j \in 1..Len(l) /\ j - 1 < q BY <1>0, <1>2, <1>3
  <1>5. g[j - 1] = 0 BY <1>0, <1>1, <1>4
  <1>6. l[j].time = 0 BY <1>2, <1>4
  <1> QED BY <1>2, <1>4, <1>5, <1>6 DEF Sums

(* A set of numbers that has with each all before it is an interval. *)
LEMMA Segment ==
    ASSUME NEW m \in Nat, NEW S, S \subseteq 1..m, \A k \in S : \A j \in 1..k : j \in S
    PROVE  Callouts!Cardinality(S) \in 0..m /\ S = 1..Callouts!Cardinality(S)
  <1> DEFINE T == 1..m + 1 \ S
  <1>1. m + 1 \in T OBVIOUS
  <1>2. PICK q \in T : \A y \in T : q <= y
    <2>1. T \subseteq Nat /\ T # {} BY <1>1
    <2> QED BY ONLY <2>1, SomeLeast
  <1>3. q \in 1..m + 1 /\ q \notin S /\ q - 1 \in 0..m OBVIOUS
  <1>4. \A y \in 1..m : y < q => y \in S BY <1>2, <1>3
  <1>5. \A y \in S : y < q BY <1>3
  <1>6. S = 1..q - 1
    <2>1. ASSUME NEW y \in S PROVE y \in 1..q - 1
      <3>1. y \in 1..m OBVIOUS
      <3> QED BY <1>3, <1>5, <3>1
    <2>2. ASSUME NEW y \in 1..q - 1 PROVE y \in S
      <3>1. y \in 1..m /\ y < q BY <1>3
      <3> QED BY <1>4, <3>1
    <2> QED BY <2>1, <2>2
  <1>7. Callouts!Cardinality(S) = q - 1
    <2>1. Cardinality(1..q - 1) = q - 1
      <3>1. Cardinality(1..q - 1) = IF 1 > q - 1 THEN 0 ELSE q - 1 - 1 + 1 BY <1>3, FS_Interval
      <3> QED BY <1>3, <3>1
    <2> QED BY <1>6, <2>1 DEF Callouts!Cardinality, Cardinality
  <1> QED BY <1>3, <1>6, <1>7

(* The entries of which the sum is at most t are the first of the list. *)
LEMMA FirstOnes ==
    ASSUME NEW l \in Seq(CallEntries), NEW g, Sums(l, g), NEW t \in Nat,
           NEW n, n = Callouts!Cardinality({k \in DOMAIN l : Callouts!Sum(l, k) <= t})
    PROVE  /\ n \in 0..Len(l) /\ \A k \in 0..Len(l) : g[k] <= t <=> k <= n
           /\ {k \in DOMAIN l : Callouts!Sum(l, k) <= t} = 1..n
  <1> DEFINE S == {k \in DOMAIN l : Callouts!Sum(l, k) <= t}
  <1>0. Len(l) \in Nat /\ DOMAIN l = 1..Len(l) BY LenProperties
  <1>1. \A k \in 1..Len(l) : k \in S <=> g[k] <= t BY <1>0, SumIs
  <1>2. \A k \in S : \A j \in 1..k : j \in S
    <2> SUFFICES ASSUME NEW k \in S, NEW j \in 1..k PROVE j \in S OBVIOUS
    <2>1. k \in 0..Len(l) /\ j \in 1..Len(l) /\ j \in 0..Len(l) /\ k \in 1..Len(l) /\ j <= k BY <1>0
    <2>2. g[j] <= g[k] BY <2>1, SumsGrow
    <2>3. g[k] <= t /\ g[j] \in Nat /\ g[k] \in Nat BY <1>1, <2>1 DEF Sums
    <2>4. g[j] <= t BY <2>2, <2>3
    <2> QED BY <1>1, <2>1, <2>4
  <1>3. S \subseteq 1..Len(l) BY <1>0
  <1>4. n \in 0..Len(l) /\ S = 1..n
    <2> HIDE DEF S
    <2>1. n = Callouts!Cardinality(S) BY DEF S
    <2> QED BY ONLY <1>0, <1>2, <1>3, <2>1, Segment
  <1>5. ASSUME NEW k \in 0..Len(l) PROVE g[k] <= t <=> k <= n
    <2>1. CASE k = 0 BY <1>4, <2>1 DEF Sums
    <2>2. CASE k # 0
      <3>1. k \in 1..Len(l) BY <2>2
      <3>2. k \in S <=> k <= n BY <1>4, <3>1
      <3> QED BY <1>1, <3>1, <3>2
    <2> QED BY <2>1, <2>2
  <1> QED BY <1>4, <1>5

(* The list: each call stands in it once, and the sums are the ticks left. *)
ListInv ==
    /\ callout \in Seq(CallEntries)
    /\ DOMAIN due = {callout[k].call : k \in DOMAIN callout}
    /\ \A j, k \in 1..Len(callout) : callout[j].call = callout[k].call => j = k
    /\ \E g : Sums(callout, g) /\ \A k \in 1..Len(callout) : due[callout[k].call] = g[k]
(* What the clock has yet to call is no longer in the list. *)
CallingInv ==
    /\ calling \in Seq(Callee)
    /\ \A j, k \in 1..Len(calling) : calling[j] = calling[k] => j = k
    /\ \A k \in 1..Len(calling) : calling[k] \notin DOMAIN due

(* p is l with c after the n-th entry, when t is over; h are its sums. *)
Inserted(p, h, l, g, c, t, n) ==
    /\ Sums(p, h)
    /\ \A j \in 1..Len(l) + 1 :
        /\ p[j].call = IF j <= n THEN l[j].call ELSE IF j = n + 1 THEN c ELSE l[j - 1].call
        /\ h[j] = IF j <= n THEN g[j] ELSE IF j = n + 1 THEN t ELSE g[j - 1]

(* Where timeout puts an entry: it and those behind it are one further on, *)
(* and the sum up to it is what was asked for.                             *)
LEMMA PlacedIs ==
    ASSUME NEW l \in Seq(CallEntries), NEW g, Sums(l, g), NEW c \in Callee, NEW t \in Nat,
           NEW p, p = Callouts!Placed(l, c, t)
    PROVE  /\ p \in Seq(CallEntries) /\ Len(p) = Len(l) + 1
           /\ \E n \in 0..Len(l) : \E h : Inserted(p, h, l, g, c, t, n)
  <1>0. /\ Len(l) \in Nat /\ \A k \in 1..Len(l) : l[k] \in CallEntries
        /\ g \in [0..Len(l) -> Nat] /\ g[0] = 0 /\ \A j \in 1..Len(l) : g[j] = g[j - 1] + l[j].time
    BY LenProperties, ElementOfSeq DEF Sums
  <1>1. PICK n : n = Callouts!Cardinality({k \in DOMAIN l : Callouts!Sum(l, k) <= t}) OBVIOUS
  <1>2. n \in 0..Len(l) /\ \A k \in 0..Len(l) : g[k] <= t <=> k <= n BY <1>1, FirstOnes
  <1>3. PICK x : x = (IF n = Len(l) THEN <<>>
                      ELSE <<Callouts!Entry(l[n + 1].call, Callouts!Sum(l, n + 1) - t)>> \o SubSeq(l, n + 2, Len(l)))
    OBVIOUS
  <1>4. p = SubSeq(l, 1, n) \o <<Callouts!Entry(c, t - Callouts!Sum(l, n))>> \o x
    BY <1>1, <1>3 DEF Callouts!Placed
  <1>5. PICK e : e = Callouts!Entry(c, t - g[n]) OBVIOUS
  <1>6. e \in CallEntries /\ e.call = c /\ e.time = t - g[n] /\ t - g[n] \in Nat /\ g[n] \in Nat
    <2>1. g[n] <= t /\ g[n] \in Nat BY <1>0, <1>2
    <2>2. t - g[n] \in Nat BY <2>1
    <2> QED BY ONLY <1>5, <2>1, <2>2, c \in Callee DEF CallEntries, Callouts!Entry
  <1>7. SubSeq(l, 1, n) \in Seq(CallEntries) /\ Len(SubSeq(l, 1, n)) = n /\ \A i \in 1..n : SubSeq(l, 1, n)[i] = l[i]
    <2>1. \A i \in 1..n : l[i] \in CallEntries BY <1>0, <1>2
    <2>2. /\ SubSeq(l, 1, n) \in Seq(CallEntries)
          /\ Len(SubSeq(l, 1, n)) = IF 1 <= n THEN n - 1 + 1 ELSE 0
          /\ \A i \in 1..n - 1 + 1 : SubSeq(l, 1, n)[i] = l[1 + i - 1] BY <1>2, <2>1, SubSeqProperties
    <2> QED BY <1>2, <2>2
  <1>8. /\ x \in Seq(CallEntries) /\ Len(x) = Len(l) - n
        /\ \A i \in 1..Len(l) - n : /\ x[i].call = l[n + i].call
                                    /\ x[i].time = IF i = 1 THEN g[n + 1] - t ELSE l[n + i].time
    <2>1. CASE n = Len(l)
      <3>1. x = <<>> BY <1>3, <2>1
      <3> QED BY <1>0, <2>1, <3>1, EmptySeq
    <2>2. CASE n # Len(l)
      <3>1. n + 1 \in 1..Len(l) /\ n + 1 \in 0..Len(l) /\ Len(l) - n >= 1 BY <1>0, <1>2, <2>2
      <3>2. Callouts!Sum(l, n + 1) = g[n + 1] BY <3>1, SumIs
      <3>3. PICK f : f = Callouts!Entry(l[n + 1].call, g[n + 1] - t) OBVIOUS
      <3>4. f \in CallEntries /\ f.call = l[n + 1].call /\ f.time = g[n + 1] - t
        <4>1. ~ (g[n + 1] <= t) /\ g[n + 1] \in Nat BY <1>0, <1>2, <3>1
        <4>2. g[n + 1] - t \in Nat BY <4>1
        <4>3. l[n + 1] \in CallEntries BY <1>0, <3>1
        <4> QED BY ONLY <3>3, <4>2, <4>3 DEF CallEntries, Callouts!Entry
      <3>5. PICK r : r = SubSeq(l, n + 2, Len(l)) OBVIOUS
      <3>6. /\ r \in Seq(CallEntries) /\ Len(r) = Len(l) - n - 1
            /\ \A i \in 1..Len(l) - n - 1 : r[i] = l[n + i + 1]
        <4>1. \A i \in n + 2..Len(l) : l[i] \in CallEntries BY <1>0, <1>2
        <4>2. /\ r \in Seq(CallEntries)
              /\ Len(r) = IF n + 2 <= Len(l) THEN Len(l) - (n + 2) + 1 ELSE 0
              /\ \A i \in 1..Len(l) - (n + 2) + 1 : r[i] = l[n + 2 + i - 1]
          <5>1. n + 2 \in Int /\ Len(l) \in Int BY <1>0, <1>2
          <5> QED BY ONLY <3>5, <4>1, <5>1, SubSeqProperties
        <4>4. Len(l) - (n + 2) + 1 = Len(l) - n - 1 BY <1>0, <1>2
        <4>5. Len(r) = Len(l) - n - 1 BY <1>0, <1>2, <3>1, <4>2
        <4>6. ASSUME NEW i \in 1..Len(l) - n - 1 PROVE r[i] = l[n + i + 1]
          <5>1. r[i] = l[n + 2 + i - 1] BY <4>2, <4>4
          <5>2. n + 2 + i - 1 = n + i + 1 BY <1>0, <1>2
          <5> QED BY ONLY <5>1, <5>2
        <4> QED BY <4>2, <4>5, <4>6
      <3>7. x = <<f>> \o r BY <1>3, <2>2, <3>2, <3>3, <3>5
      <3>8. <<f>> \in Seq(CallEntries) /\ Len(<<f>>) = 1 /\ <<f>>[1] = f BY <3>4
      <3>9. /\ x \in Seq(CallEntries) /\ Len(x) = 1 + Len(r)
            /\ \A i \in 1..1 + Len(r) : x[i] = IF i <= 1 THEN <<f>>[i] ELSE r[i - 1]
        BY ONLY <3>6, <3>7, <3>8, ConcatProperties
      <3>10. Len(x) = Len(l) - n BY <1>0, <1>2, <3>6, <3>9
      <3>11. ASSUME NEW i \in 1..Len(l) - n
             PROVE  x[i].call = l[n + i].call /\ x[i].time = IF i = 1 THEN g[n + 1] - t ELSE l[n + i].time
        <4>1. i \in 1..1 + Len(r) BY <1>0, <1>2, <3>6
        <4>2. CASE i = 1
          <5>1. x[i] = f BY <3>8, <3>9, <4>1, <4>2
          <5> QED BY <3>4, <4>2, <5>1
        <4>3. CASE i # 1
          <5>1. i - 1 \in 1..Len(l) - n - 1 /\ ~ (i <= 1) /\ n + (i - 1) + 1 = n + i BY <1>0, <1>2, <4>3
          <5>2. x[i] = r[i - 1] BY <3>9, <4>1, <5>1
          <5>3. r[i - 1] = l[n + i] BY <3>6, <5>1
          <5> QED BY <4>3, <5>2, <5>3
        <4> QED BY <4>2, <4>3
      <3> QED BY <3>9, <3>10, <3>11
    <2> QED BY <2>1, <2>2
  <1>9. /\ p \in Seq(CallEntries) /\ Len(p) = Len(l) + 1
        /\ \A j \in 1..Len(l) + 1 : p[j] = IF j <= n THEN l[j] ELSE IF j = n + 1 THEN e ELSE x[j - n - 1]
    <2>1. Callouts!Sum(l, n) = g[n] BY <1>2, SumIs
    <2>2. PICK a : a = SubSeq(l, 1, n) OBVIOUS
    <2>3. a \in Seq(CallEntries) /\ Len(a) = n /\ \A i \in 1..n : a[i] = l[i] BY <1>7, <2>2
    <2>4. <<e>> \in Seq(CallEntries) /\ Len(<<e>>) = 1 /\ <<e>>[1] = e BY <1>6
    <2>5. PICK b : b = a \o <<e>> OBVIOUS
    <2>6. /\ b \in Seq(CallEntries) /\ Len(b) = n + 1
          /\ \A i \in 1..n + 1 : b[i] = IF i <= n THEN a[i] ELSE <<e>>[i - n]
      BY ONLY <2>3, <2>4, <2>5, ConcatProperties
    <2>7. p = b \o x BY ONLY <1>4, <1>5, <2>1, <2>2, <2>5
    <2>8. /\ p \in Seq(CallEntries) /\ Len(p) = n + 1 + Len(x)
          /\ \A i \in 1..n + 1 + Len(x) : p[i] = IF i <= n + 1 THEN b[i] ELSE x[i - (n + 1)]
      <3>1. /\ p \in Seq(CallEntries) /\ Len(p) = Len(b) + Len(x)
            /\ \A i \in 1..Len(b) + Len(x) : p[i] = IF i <= Len(b) THEN b[i] ELSE x[i - Len(b)]
        BY ONLY <1>8, <2>6, <2>7, ConcatProperties
      <3> QED BY ONLY <2>6, <3>1
    <2>9. n + 1 + Len(x) = Len(l) + 1 BY <1>0, <1>2, <1>8
    <2>10. ASSUME NEW j \in 1..Len(l) + 1
           PROVE  p[j] = IF j <= n THEN l[j] ELSE IF j = n + 1 THEN e ELSE x[j - n - 1]
      <3>1. p[j] = IF j <= n + 1 THEN b[j] ELSE x[j - (n + 1)] BY <2>8, <2>9
      <3>2. CASE j <= n
        <4>1. j \in 1..n /\ j \in 1..n + 1 /\ j <= n + 1 BY <1>0, <1>2, <3>2
        <4> QED BY <2>3, <2>6, <3>1, <3>2, <4>1
      <3>3. CASE j = n + 1
        <4>1. j \in 1..n + 1 /\ ~ (j <= n) /\ j - n = 1 /\ j <= n + 1 BY <1>0, <1>2, <3>3
        <4> QED BY <2>4, <2>6, <3>1, <3>3, <4>1
      <3>4. CASE ~ (j <= n) /\ j # n + 1
        <4>1. ~ (j <= n + 1) /\ j - (n + 1) = j - n - 1 BY <1>0, <1>2, <3>4
        <4> QED BY <3>1, <3>4, <4>1
      <3> QED BY <3>2, <3>3, <3>4
    <2> QED BY <2>8, <2>9, <2>10
  <1>10. PICK h : h = [j \in 0..Len(l) + 1 |-> IF j <= n THEN g[j] ELSE IF j = n + 1 THEN t ELSE g[j - 1]]
    OBVIOUS
  <1>11. \A j \in 0..Len(l) + 1 : h[j] = IF j <= n THEN g[j] ELSE IF j = n + 1 THEN t ELSE g[j - 1] BY <1>10
  <1>12. \A j \in 1..Len(l) + 1 : p[j].call = IF j <= n THEN l[j].call ELSE IF j = n + 1 THEN c ELSE l[j - 1].call
    <2> SUFFICES ASSUME NEW j \in 1..Len(l) + 1
                 PROVE  p[j].call = IF j <= n THEN l[j].call ELSE IF j = n + 1 THEN c ELSE l[j - 1].call
      OBVIOUS
    <2>1. CASE ~ (j <= n) /\ j # n + 1
      <3>1. j - n - 1 \in 1..Len(l) - n /\ n + (j - n - 1) = j - 1 BY <1>0, <1>2, <2>1
      <3>2. x[j - n - 1].call = l[j - 1].call BY <1>8, <3>1
      <3>3. p[j] = x[j - n - 1] BY <1>9, <2>1
      <3> QED BY <2>1, <3>2, <3>3
    <2>2. CASE j <= n BY <1>9, <2>2
    <2>3. CASE ~ (j <= n) /\ j = n + 1
      <3>1. p[j] = e BY <1>9, <2>3
      <3> QED BY <1>6, <2>3, <3>1
    <2> QED BY <2>1, <2>2, <2>3
  <1>13. Sums(p, h)
    <2>1. h \in [0..Len(l) + 1 -> Nat]
      <3>1. ASSUME NEW j \in 0..Len(l) + 1 PROVE (IF j <= n THEN g[j] ELSE IF j = n + 1 THEN t ELSE g[j - 1]) \in Nat
        <4>1. j <= n => j \in 0..Len(l) BY <1>0, <1>2
        <4>2. ~ (j <= n) => j - 1 \in 0..Len(l) BY <1>0, <1>2
        <4> QED BY <1>0, <4>1, <4>2
      <3> QED BY <1>10, <3>1
    <2>2. h[0] = 0 BY <1>0, <1>2, <1>11
    <2>3. ASSUME NEW j \in 1..Len(l) + 1 PROVE h[j] = h[j - 1] + p[j].time
      <3>0. j \in 0..Len(l) + 1 /\ j - 1 \in 0..Len(l) + 1 BY <1>0
      <3>1. CASE j <= n
        <4>1. j \in 1..Len(l) /\ j - 1 <= n BY <1>0, <1>2, <3>1
        <4>2. p[j] = l[j] BY <1>9, <3>1
        <4> QED BY <1>0, <1>11, <3>0, <3>1, <4>1, <4>2
      <3>2. CASE j = n + 1
        <4>1. j - 1 <= n /\ ~ (j <= n) /\ j - 1 = n BY <1>2, <3>2
        <4>2. p[j] = e BY <1>9, <3>2, <4>1
        <4>3. h[j] = t /\ h[j - 1] = g[n] BY <1>11, <3>0, <3>2, <4>1
        <4> QED BY <1>6, <4>2, <4>3
      <3>3. CASE j = n + 2
        <4>1. ~ (j <= n) /\ j # n + 1 /\ j - n - 1 = 1 /\ 1 \in 1..Len(l) - n /\ j - 1 = n + 1 /\ ~ (j - 1 <= n)
          BY <1>0, <1>2, <3>3
        <4>2. p[j] = x[1] BY <1>9, <4>1
        <4>3. x[1].time = g[n + 1] - t BY <1>8, <4>1
        <4>4. h[j] = g[n + 1] /\ h[j - 1] = t BY <1>11, <3>0, <4>1
        <4>5. g[n + 1] \in Nat
          <5>1. n + 1 \in 0..Len(l) BY <1>0, <1>2, <3>3
          <5> QED BY <1>0, <5>1
        <4> QED BY <4>2, <4>3, <4>4, <4>5
      <3>4. CASE j > n + 2
        <4>0. n \in Int /\ j \in Int /\ Len(l) \in Int /\ 0 <= n /\ n + 2 < j /\ j <= Len(l) + 1 BY <1>0, <1>2, <3>4
        <4>1. /\ ~ (j <= n) /\ j # n + 1 /\ ~ (j - 1 <= n) /\ j - 1 # n + 1 /\ j - n - 1 \in 1..Len(l) - n
              /\ j - n - 1 # 1 /\ n + (j - n - 1) = j - 1 /\ j - 1 \in 1..Len(l) /\ (j - 1) - 1 = j - 2
          BY ONLY <4>0
        <4>2. p[j] = x[j - n - 1] BY <1>9, <4>1
        <4>3. x[j - n - 1].time = l[j - 1].time BY <1>8, <4>1
        <4>4. h[j] = g[j - 1] /\ h[j - 1] = g[j - 2] BY <1>11, <3>0, <4>1
        <4> QED BY <1>0, <4>1, <4>2, <4>3, <4>4
      <3> QED BY <1>2, <3>1, <3>2, <3>3, <3>4
    <2> QED BY <1>9, <2>1, <2>2, <2>3 DEF Sums
  <1>14. \A j \in 1..Len(l) + 1 : h[j] = IF j <= n THEN g[j] ELSE IF j = n + 1 THEN t ELSE g[j - 1] BY <1>11
  <1>15. Inserted(p, h, l, g, c, t, n) BY <1>12, <1>13, <1>14 DEF Inserted
  <1> QED BY <1>2, <1>9, <1>15

(* timeout keeps the list: whatever stood in it still has the same sum. *)
LEMMA AddsKeep ==
    ASSUME ListInv, NEW c \in Callee, c \notin DOMAIN due, NEW t \in Nat, Callouts!Adds(c, t)
    PROVE  ListInv' /\ DOMAIN due' = DOMAIN due \cup {c}
  <1>0. callout \in Seq(CallEntries) /\ Len(callout) \in Nat /\ DOMAIN callout = 1..Len(callout)
    BY LenProperties DEF ListInv
  <1>1. PICK g : Sums(callout, g) /\ \A k \in 1..Len(callout) : due[callout[k].call] = g[k] BY DEF ListInv
  <1>2. callout' = Callouts!Placed(callout, c, t) /\ due' = [x \in DOMAIN due \cup {c} |-> IF x = c THEN t ELSE due[x]]
    BY DEF Callouts!Adds
  <1>a. \E n \in 0..Len(callout) : \E h : Inserted(callout', h, callout, g, c, t, n)
    BY <1>0, <1>1, <1>2, PlacedIs
  <1>b. PICK n \in 0..Len(callout) : \E h : Inserted(callout', h, callout, g, c, t, n) BY <1>a
  <1>c. PICK h : Inserted(callout', h, callout, g, c, t, n) BY <1>b
  <1>3. /\ Sums(callout', h)
        /\ \A j \in 1..Len(callout) + 1 :
            /\ callout'[j].call = IF j <= n THEN callout[j].call ELSE IF j = n + 1 THEN c ELSE callout[j - 1].call
            /\ h[j] = IF j <= n THEN g[j] ELSE IF j = n + 1 THEN t ELSE g[j - 1] BY <1>c DEF Inserted
  <1>4. callout' \in Seq(CallEntries) /\ Len(callout') = Len(callout) + 1 /\ DOMAIN callout' = 1..Len(callout) + 1
    <2>1. callout' \in Seq(CallEntries) /\ Len(callout') = Len(callout) + 1 BY <1>0, <1>1, <1>2, PlacedIs
    <2> QED BY <2>1, LenProperties
  (* The old entry k is the new entry At(k). *)
  <1> DEFINE At(k) == IF k <= n THEN k ELSE k + 1
  <1>5. \A k \in 1..Len(callout) : At(k) \in 1..Len(callout) + 1 /\ callout'[At(k)].call = callout[k].call /\ h[At(k)] = g[k]
    <2> SUFFICES ASSUME NEW k \in 1..Len(callout)
                 PROVE  At(k) \in 1..Len(callout) + 1 /\ callout'[At(k)].call = callout[k].call /\ h[At(k)] = g[k]
      OBVIOUS
    <2>1. CASE k <= n
      <3>1. k \in 1..Len(callout) + 1 BY <1>0
      <3> QED BY <1>3, <2>1, <3>1
    <2>2. CASE ~ (k <= n)
      <3>1. k + 1 \in 1..Len(callout) + 1 /\ ~ (k + 1 <= n) /\ k + 1 # n + 1 /\ (k + 1) - 1 = k
        BY <1>0, <2>2
      <3> QED BY <1>3, <2>2, <3>1
    <2> QED BY <2>1, <2>2
  <1>6. n + 1 \in 1..Len(callout) + 1 /\ callout'[n + 1].call = c /\ h[n + 1] = t
    <2>1. n + 1 \in 1..Len(callout) + 1 /\ ~ (n + 1 <= n) BY <1>0
    <2> QED BY <1>3, <2>1
  <1>7. \A j \in 1..Len(callout) + 1 : j = n + 1 \/ \E k \in 1..Len(callout) : j = At(k)
    <2> SUFFICES ASSUME NEW j \in 1..Len(callout) + 1, j # n + 1 PROVE \E k \in 1..Len(callout) : j = At(k)
      OBVIOUS
    <2>1. CASE j <= n
      <3>1. j \in 1..Len(callout) BY <1>0, <2>1
      <3> QED BY <2>1, <3>1
    <2>2. CASE ~ (j <= n)
      <3>1. j - 1 \in 1..Len(callout) /\ ~ (j - 1 <= n) /\ (j - 1) + 1 = j BY <1>0, <2>2
      <3> QED BY <3>1
    <2> QED BY <2>1, <2>2
  <1> HIDE DEF At
  <1>8. \A k \in 1..Len(callout) : callout[k].call \in DOMAIN due BY <1>0 DEF ListInv
  <1>9. DOMAIN due' = DOMAIN due \cup {c} BY <1>2
  <1>10. DOMAIN due' = {callout'[k].call : k \in DOMAIN callout'}
    <2>1. ASSUME NEW x \in DOMAIN due' PROVE \E k \in DOMAIN callout' : callout'[k].call = x
      <3>1. CASE x = c BY <1>4, <1>6, <3>1
      <3>2. CASE x \in DOMAIN due
        <4>1. PICK k \in 1..Len(callout) : callout[k].call = x BY <1>0, <3>2 DEF ListInv
        <4> QED BY <1>4, <1>5, <4>1
      <3> QED BY <1>9, <3>1, <3>2
    <2>2. ASSUME NEW k \in DOMAIN callout' PROVE callout'[k].call \in DOMAIN due'
      BY <1>4, <1>5, <1>6, <1>7, <1>8, <1>9
    <2> QED BY <2>1, <2>2
  <1>11. \A j, k \in 1..Len(callout') : callout'[j].call = callout'[k].call => j = k
    <2> SUFFICES ASSUME NEW j \in 1..Len(callout) + 1, NEW k \in 1..Len(callout) + 1, callout'[j].call = callout'[k].call PROVE j = k
      BY <1>4
    <2>1. CASE j = n + 1 /\ k = n + 1 BY <2>1
    <2>2. CASE j = n + 1 /\ k # n + 1
      <3>1. PICK i \in 1..Len(callout) : k = At(i) BY <1>7, <2>2
      <3> QED BY <1>5, <1>6, <1>8, <2>2, <3>1
    <2>3. CASE j # n + 1 /\ k = n + 1
      <3>1. PICK i \in 1..Len(callout) : j = At(i) BY <1>7, <2>3
      <3> QED BY <1>5, <1>6, <1>8, <2>3, <3>1
    <2>4. CASE j # n + 1 /\ k # n + 1
      <3>1. PICK i \in 1..Len(callout) : j = At(i) BY <1>7, <2>4
      <3>2. PICK m \in 1..Len(callout) : k = At(m) BY <1>7, <2>4
      <3>3. callout[i].call = callout[m].call BY <1>5, <3>1, <3>2
      <3>4. i = m BY <3>3 DEF ListInv
      <3> QED BY <3>1, <3>2, <3>4
    <2> QED BY <2>1, <2>2, <2>3, <2>4
  <1>12. \A k \in 1..Len(callout') : due'[callout'[k].call] = h[k]
    <2> SUFFICES ASSUME NEW k \in 1..Len(callout) + 1 PROVE due'[callout'[k].call] = h[k] BY <1>4
    <2>1. CASE k = n + 1 BY <1>2, <1>6, <2>1
    <2>2. CASE k # n + 1
      <3>1. PICK i \in 1..Len(callout) : k = At(i) BY <1>7, <2>2
      <3>2. callout'[k].call = callout[i].call /\ h[k] = g[i] BY <1>5, <3>1
      <3>3. callout[i].call \in DOMAIN due /\ callout[i].call # c BY <1>8
      <3> QED BY <1>1, <1>2, <3>2, <3>3
    <2> QED BY <2>1, <2>2
  <1> QED BY <1>3, <1>4, <1>9, <1>10, <1>11, <1>12 DEF ListInv

(* The clock's tick: the sums that are not 0 yet come down by one. *)
LEMMA TickedIs ==
    ASSUME NEW l \in Seq(CallEntries), NEW g, Sums(l, g), NEW m, m = Callouts!Ticked(l)
    PROVE  /\ m \in Seq(CallEntries) /\ Len(m) = Len(l) /\ \A k \in 1..Len(l) : m[k].call = l[k].call
           /\ \E h : Sums(m, h) /\ \A k \in 0..Len(l) : h[k] = IF g[k] = 0 THEN 0 ELSE g[k] - 1
  <1>0. /\ Len(l) \in Nat /\ DOMAIN l = 1..Len(l) /\ \A k \in 1..Len(l) : l[k] \in CallEntries
        /\ g \in [0..Len(l) -> Nat] /\ g[0] = 0 /\ \A j \in 1..Len(l) : g[j] = g[j - 1] + l[j].time
    BY LenProperties, ElementOfSeq DEF Sums
  <1>1. \A k \in 1..Len(l) : l[k].time \in Nat BY <1>0 DEF CallEntries
  <1>2. PICK some : some = {k \in DOMAIN l : l[k].time > 0} OBVIOUS
  <1>3. some \subseteq 1..Len(l) /\ \A k \in 1..Len(l) : k \in some <=> l[k].time > 0 BY <1>0, <1>2
  <1>4. CASE some = {}
    <2>1. m = l BY <1>2, <1>4 DEF Callouts!Ticked
    <2>2. \A k \in 1..Len(l) : l[k].time = 0 BY <1>1, <1>3, <1>4
    <2>3. \A k \in 0..Len(l) : g[k] = 0
      <3> SUFFICES ASSUME NEW k \in 0..Len(l) PROVE g[k] = 0 OBVIOUS
      <3>1. Len(l) + 1 \in 0..Len(l) + 1 /\ k < Len(l) + 1 BY <1>0
      <3> QED BY <2>2, <3>1, ZeroBefore
    <2> QED BY <2>1, <2>3
  <1>5. CASE some # {}
    <2>1. PICK q : q = CHOOSE j \in some : \A i \in some : j <= i OBVIOUS
    <2>2. q \in some /\ \A i \in some : q <= i
      <3>1. some \subseteq Nat BY <1>0, <1>3
      <3>2. \E j \in some : \A i \in some : j <= i BY ONLY <1>5, <3>1, SomeLeast
      <3> QED BY ONLY <2>1, <3>2
    <2>3. q \in 1..Len(l) /\ l[q].time > 0 BY <1>3, <2>2
    <2>4. m = [l EXCEPT ![q].time = @ - 1]
      BY ONLY <1>2, <1>5, <2>1, m = Callouts!Ticked(l) DEF Callouts!Ticked
    <2>5. PICK e : e = [l[q] EXCEPT !.time = @ - 1] OBVIOUS
    <2>6. e \in CallEntries /\ e.call = l[q].call /\ e.time = l[q].time - 1
      <3>1. l[q].time - 1 \in Nat /\ l[q] \in CallEntries BY <1>0, <1>1, <2>3
      <3> QED BY ONLY <2>5, <3>1 DEF CallEntries
    <2>7. m = [l EXCEPT ![q] = e] BY <2>4, <2>5
    <2>8. m \in Seq(CallEntries) /\ Len(m) = Len(l) /\ \A j \in 1..Len(l) : m[j] = IF j = q THEN e ELSE l[j]
      BY ONLY <2>3, <2>6, <2>7, l \in Seq(CallEntries), ExceptSeq
    <2>9. \A k \in 1..Len(l) : m[k].call = l[k].call BY <2>6, <2>8
    <2>10. \A k \in 0..Len(l) : k < q => g[k] = 0
      <3> SUFFICES ASSUME NEW k \in 0..Len(l), k < q PROVE g[k] = 0 OBVIOUS
      <3>1. \A i \in 1..Len(l) : i < q => l[i].time = 0
        <4> SUFFICES ASSUME NEW i \in 1..Len(l), i < q PROVE l[i].time = 0 OBVIOUS
        <4>1. i \notin some BY <2>2, <2>3
        <4> QED BY <1>1, <1>3, <4>1
      <3>2. q \in 0..Len(l) + 1 BY <1>0, <2>3
      <3> QED BY <3>1, <3>2, ZeroBefore
    <2>11. \A k \in 0..Len(l) : ~ (k < q) => g[k] > 0
      <3> SUFFICES ASSUME NEW k \in 0..Len(l), ~ (k < q) PROVE g[k] > 0 OBVIOUS
      <3>1. q \in 0..Len(l) /\ q <= k /\ q - 1 \in 0..Len(l) BY <1>0, <2>3
      <3>2. g[q] <= g[k] BY <3>1, SumsGrow
      <3>3. g[q] = g[q - 1] + l[q].time /\ g[q - 1] \in Nat /\ g[k] \in Nat BY <1>0, <2>3, <3>1
      <3> QED BY <1>1, <2>3, <3>2, <3>3
    <2>12. PICK h : h = [k \in 0..Len(l) |-> IF k < q THEN 0 ELSE g[k] - 1] OBVIOUS
    <2>13. \A k \in 0..Len(l) : h[k] = IF k < q THEN 0 ELSE g[k] - 1 BY <2>12
    <2>14. \A k \in 0..Len(l) : h[k] = IF g[k] = 0 THEN 0 ELSE g[k] - 1 BY <2>10, <2>11, <2>13
    <2>15. Sums(m, h)
      <3>1. h \in [0..Len(l) -> Nat]
        <4>1. \A k \in 0..Len(l) : ~ (k < q) => g[k] - 1 \in Nat BY <1>0, <2>11
        <4> QED BY <2>12, <4>1
      <3>2. h[0] = 0 BY <1>0, <2>14
      <3>3. ASSUME NEW j \in 1..Len(l) PROVE h[j] = h[j - 1] + m[j].time
        <4>0. j \in 0..Len(l) /\ j - 1 \in 0..Len(l) /\ g[j] = g[j - 1] + l[j].time /\ g[j] \in Nat /\ g[j - 1] \in Nat
          BY <1>0
        <4>1. CASE j < q
          <5>1. j - 1 < q /\ j # q BY <2>3, <4>1
          <5>2. h[j] = 0 /\ h[j - 1] = 0 /\ m[j] = l[j] /\ g[j] = 0 /\ g[j - 1] = 0
            BY <2>8, <2>10, <2>13, <4>0, <4>1, <5>1
          <5> QED BY <1>1, <4>0, <5>2
        <4>2. CASE j = q
          <5>1. j - 1 < q /\ ~ (j < q) BY <2>3, <4>2
          <5>2. h[j] = g[j] - 1 /\ h[j - 1] = 0 /\ m[j] = e /\ g[j - 1] = 0
            BY <2>8, <2>10, <2>13, <4>0, <4>2, <5>1
          <5> QED BY <1>1, <2>6, <4>0, <4>2, <5>2
        <4>3. CASE j > q
          <5>1. ~ (j - 1 < q) /\ ~ (j < q) /\ j # q BY <2>3, <4>3
          <5>2. h[j] = g[j] - 1 /\ h[j - 1] = g[j - 1] - 1 /\ m[j].time = l[j].time
            BY <2>8, <2>13, <4>0, <5>1
          <5>3. l[j].time \in Nat BY <1>1
          <5>4. g[j] - 1 = g[j - 1] - 1 + l[j].time BY ONLY <4>0, <5>3
          <5> QED BY ONLY <5>2, <5>4
        <4> QED BY <2>3, <4>1, <4>2, <4>3
      <3> QED BY <2>8, <3>1, <3>2, <3>3 DEF Sums
    <2> QED BY <2>8, <2>9, <2>14, <2>15
  <1> QED BY <1>4, <1>5

(* The clock takes those of sum 0 off the list, to be called. *)
LEMMA ClockKeeps ==
    ASSUME ListInv, CallingInv, Callouts!clock PROVE ListInv' /\ CallingInv'
  <1>0. callout \in Seq(CallEntries) /\ Len(callout) \in Nat /\ DOMAIN callout = 1..Len(callout)
    BY LenProperties DEF ListInv
  <1>1. PICK g : Sums(callout, g) /\ \A k \in 1..Len(callout) : due[callout[k].call] = g[k] BY DEF ListInv
  <1>2. PICK m : m = Callouts!Ticked(callout) OBVIOUS
  <1>3. /\ m \in Seq(CallEntries) /\ Len(m) = Len(callout) /\ \A k \in 1..Len(callout) : m[k].call = callout[k].call
        /\ \E h : Sums(m, h) /\ \A k \in 0..Len(callout) : h[k] = IF g[k] = 0 THEN 0 ELSE g[k] - 1
    BY ONLY <1>0, <1>1, <1>2, TickedIs
  <1>4. PICK h : Sums(m, h) /\ \A k \in 0..Len(callout) : h[k] = IF g[k] = 0 THEN 0 ELSE g[k] - 1 BY <1>3
  <1>5. DOMAIN m = 1..Len(callout) /\ \A k \in 1..Len(callout) : m[k] \in CallEntries /\ m[k].call \in Callee
    <2>1. DOMAIN m = 1..Len(callout) /\ \A k \in 1..Len(callout) : m[k] \in CallEntries
      BY <1>3, LenProperties, ElementOfSeq
    <2> QED BY <2>1 DEF CallEntries
  <1>6. PICK n : n = Callouts!Cardinality(Callouts!Called(m)) OBVIOUS
  <1>7. n \in 0..Len(callout) /\ (\A k \in 0..Len(callout) : h[k] <= 0 <=> k <= n) /\ Callouts!Called(m) = 1..n
    <2>1. n = Callouts!Cardinality({k \in DOMAIN m : Callouts!Sum(m, k) <= 0}) BY <1>6 DEF Callouts!Called
    <2>2. /\ n \in 0..Len(m) /\ \A k \in 0..Len(m) : h[k] <= 0 <=> k <= n
          /\ {k \in DOMAIN m : Callouts!Sum(m, k) <= 0} = 1..n
      <3>1. 0 \in Nat OBVIOUS
      <3> QED BY ONLY <1>3, <1>4, <2>1, <3>1, FirstOnes
    <2> QED BY <1>3, <2>2 DEF Callouts!Called
  <1>8. /\ callout' = SubSeq(m, n + 1, Len(m))
        /\ calling' = [k \in 1..n |-> m[k].call]
        /\ due' = [c \in DOMAIN due \ {m[k].call : k \in 1..n} |-> due[c] - 1]
    BY <1>2, <1>6, <1>7 DEF Callouts!clock
  <1> DEFINE r == Len(callout) - n
  <1>9. r \in Nat /\ callout' \in Seq(CallEntries) /\ Len(callout') = r /\ \A i \in 1..r : callout'[i] = m[n + i]
    <2>0. r \in Nat BY <1>0, <1>7
    <2>1. n + 1 \in Int /\ Len(m) \in Int /\ \A i \in n + 1..Len(m) : m[i] \in CallEntries
      BY <1>0, <1>3, <1>5, <1>7
    <2>2. /\ callout' \in Seq(CallEntries)
          /\ Len(callout') = IF n + 1 <= Len(m) THEN Len(m) - (n + 1) + 1 ELSE 0
          /\ \A i \in 1..Len(m) - (n + 1) + 1 : callout'[i] = m[n + 1 + i - 1]
      BY ONLY <1>8, <2>1, SubSeqProperties
    <2>3. Len(m) - (n + 1) + 1 = r BY <1>0, <1>3, <1>7
    <2>4. Len(callout') = r
      <3>1. CASE n + 1 <= Len(m) BY ONLY <2>2, <2>3, <3>1
      <3>2. CASE ~ (n + 1 <= Len(m))
        <4>1. Len(callout') = 0 BY ONLY <2>2, <3>2
        <4>2. r = 0
          <5>1. Len(callout) \in Nat /\ n \in 0..Len(callout) /\ Len(m) = Len(callout)
            BY ONLY <1>0, <1>3, <1>7
          <5> QED BY ONLY <3>2, <5>1 DEF r
        <4> QED BY ONLY <4>1, <4>2
      <3> QED BY <3>1, <3>2
    <2>5. ASSUME NEW i \in 1..r PROVE callout'[i] = m[n + i]
      <3>1. callout'[i] = m[n + 1 + i - 1] BY <2>2, <2>3
      <3>2. n + 1 + i - 1 = n + i BY <1>0, <1>7
      <3> QED BY ONLY <3>1, <3>2
    <2> QED BY <2>0, <2>2, <2>4, <2>5
  <1>10. \A i \in 1..r : n + i \in 1..Len(callout) /\ n + i \in 0..Len(callout) /\ ~ (n + i <= n)
    BY <1>0, <1>7
  <1>11. \A k \in 1..Len(callout) : k <= n \/ (k - n \in 1..r /\ n + (k - n) = k) BY <1>0, <1>7
  <1>12. DOMAIN callout' = 1..r BY <1>9, LenProperties
  <1> HIDE DEF r
  <1>13. \A i \in 1..r : callout'[i].call = callout[n + i].call BY <1>3, <1>9, <1>10
  <1>14. \A k \in 1..n : m[k].call = callout[k].call /\ k \in 1..Len(callout) BY <1>0, <1>3, <1>7
  <1>15. \A j, k \in 1..Len(callout) : callout[j].call = callout[k].call => j = k BY DEF ListInv
  <1>16. DOMAIN due' = DOMAIN due \ {m[k].call : k \in 1..n} BY <1>8
  <1>17. \A i \in 1..r : callout'[i].call \in DOMAIN due'
    <2> SUFFICES ASSUME NEW i \in 1..r PROVE callout'[i].call \in DOMAIN due' OBVIOUS
    <2>1. callout'[i].call \in DOMAIN due BY <1>0, <1>10, <1>13 DEF ListInv
    <2>2. ASSUME NEW k \in 1..n, m[k].call = callout'[i].call PROVE FALSE
      <3>1. k = n + i BY <1>10, <1>13, <1>14, <1>15, <2>2
      <3> QED BY <1>7, <1>10, <3>1
    <2> QED BY <1>16, <2>1, <2>2
  <1>18. \A x \in DOMAIN due' : \E i \in 1..r : callout'[i].call = x
    <2> SUFFICES ASSUME NEW x \in DOMAIN due' PROVE \E i \in 1..r : callout'[i].call = x OBVIOUS
    <2>1. x \in DOMAIN due /\ \A k \in 1..n : m[k].call # x BY <1>16
    <2>2. PICK k \in 1..Len(callout) : callout[k].call = x BY <1>0, <2>1 DEF ListInv
    <2>3. ~ (k <= n) BY <1>0, <1>7, <1>14, <2>1, <2>2
    <2> QED BY <1>11, <1>13, <2>2, <2>3
  <1>19. DOMAIN due' = {callout'[k].call : k \in DOMAIN callout'} BY <1>12, <1>17, <1>18
  <1>20. \A j, k \in 1..Len(callout') : callout'[j].call = callout'[k].call => j = k
    <2> SUFFICES ASSUME NEW j \in 1..r, NEW k \in 1..r, callout'[j].call = callout'[k].call PROVE j = k
      BY <1>9
    <2>1. n + j = n + k BY <1>10, <1>13, <1>15
    <2> QED BY <1>7, <1>9, <2>1
  <1>21. PICK f : f = [k \in 0..r |-> h[n + k]] OBVIOUS
  <1>22. \A k \in 0..r : n + k \in 0..Len(callout) /\ f[k] = h[n + k]
    <2>1. \A k \in 0..r : n + k \in 0..Len(callout) BY <1>0, <1>7 DEF r
    <2> QED BY <1>21, <2>1
  <1>23. /\ h \in [0..Len(callout) -> Nat] /\ h[0] = 0
         /\ \A j \in 1..Len(callout) : h[j] = h[j - 1] + m[j].time BY <1>3, <1>4 DEF Sums
  <1>24. Sums(callout', f)
    <2>1. f \in [0..r -> Nat] BY <1>21, <1>22, <1>23
    <2>2. f[0] = 0
      <3>1. h[n] <= 0 /\ h[n] \in Nat BY <1>7, <1>23
      <3>2. 0 \in 0..r /\ n + 0 = n BY <1>7, <1>9
      <3>3. f[0] = h[n] BY <1>22, <3>2
      <3> QED BY <3>1, <3>3
    <2>3. ASSUME NEW j \in 1..r PROVE f[j] = f[j - 1] + callout'[j].time
      <3>1. j \in 0..r /\ j - 1 \in 0..r /\ n + (j - 1) = n + j - 1 BY <1>7, <1>9
      <3>2. f[j] = h[n + j] /\ f[j - 1] = h[n + j - 1] BY <1>22, <3>1
      <3>3. h[n + j] = h[n + j - 1] + m[n + j].time
        <4>1. PICK x : x = n + j OBVIOUS
        <4>2. x \in 1..Len(callout) BY <1>10, <4>1
        <4>3. h[x] = h[x - 1] + m[x].time BY ONLY <1>23, <4>2
        <4>4. n \in Int /\ j \in Int /\ x \in Int BY <1>7, <1>9, <4>1
        <4>5. x - 1 = n + j - 1 BY ONLY <4>1, <4>4
        <4>6. h[n + j - 1] = h[x - 1] BY ONLY <4>5
        <4>7. h[n + j] = h[x] /\ m[n + j] = m[x] BY ONLY <4>1
        <4> QED BY ONLY <4>3, <4>6, <4>7
      <3>4. callout'[j] = m[n + j] BY <1>9
      <3> QED BY ONLY <3>2, <3>3, <3>4
    <2> QED BY <1>9, <2>1, <2>2, <2>3 DEF Sums
  <1>25. \A k \in 1..Len(callout') : due'[callout'[k].call] = f[k]
    <2> SUFFICES ASSUME NEW k \in 1..r PROVE due'[callout'[k].call] = f[k] BY <1>9
    <2>1. due'[callout'[k].call] = due[callout[n + k].call] - 1 BY <1>8, <1>13, <1>16, <1>17
    <2>2. due[callout[n + k].call] = g[n + k] BY <1>1, <1>10
    <2>3. ~ (h[n + k] <= 0) /\ h[n + k] = IF g[n + k] = 0 THEN 0 ELSE g[n + k] - 1 BY <1>4, <1>7, <1>10
    <2>4. h[n + k] = g[n + k] - 1 BY <2>3
    <2>5. f[k] = h[n + k]
      <3>1. k \in 0..r BY <1>9
      <3> QED BY <1>22, <3>1
    <2> QED BY ONLY <2>1, <2>2, <2>4, <2>5
  <1>26. ListInv' BY <1>9, <1>19, <1>20, <1>24, <1>25 DEF ListInv
  <1>27. CallingInv'
    <2>1. calling' \in Seq(Callee) /\ Len(calling') = n /\ \A k \in 1..n : calling'[k] = m[k].call
      <3>1. \A k \in 1..n : m[k].call \in Callee BY <1>5, <1>14
      <3>2. calling' \in [1..n -> Callee] /\ n \in Nat BY <1>7, <1>8, <3>1
      <3>3. calling' \in Seq(Callee) BY <3>2, SeqDef
      <3>4. DOMAIN calling' = 1..n /\ DOMAIN calling' = 1..Len(calling') /\ Len(calling') \in Nat
        BY <3>2, <3>3, LenProperties
      <3>5. Len(calling') = n BY <3>2, <3>4
      <3> QED BY <1>8, <3>3, <3>5
    <2>2. \A j, k \in 1..n : calling'[j] = calling'[k] => j = k BY <1>14, <1>15, <2>1
    <2>3. \A k \in 1..n : calling'[k] \notin DOMAIN due' BY <1>16, <2>1
    <2> QED BY <2>1, <2>2, <2>3 DEF CallingInv
  <1> QED BY <1>26, <1>27

(* A function called is done with, or adds itself again. *)
LEMMA CalledKeep ==
    ASSUME Times \subseteq Nat, ListInv, CallingInv, Callouts!Calls PROVE ListInv' /\ CallingInv'
  <1>1. /\ calling # <<>> /\ Head(calling) \in Callee /\ Tail(calling) \in Seq(Callee) /\ Len(Tail(calling)) = Len(calling) - 1
        /\ \A i \in 1..Len(Tail(calling)) : Tail(calling)[i] = calling[i + 1]
        /\ Head(calling) = calling[1] /\ Len(calling) \in Nat \ {0}
    BY HeadTailProperties, EmptySeq DEF CallingInv, Callouts!Calls
  <1>2. calling' = Tail(calling) BY DEF Callouts!Calls
  <1>3. Head(calling) \notin DOMAIN due BY <1>1 DEF CallingInv
  <1>4. \A i \in 1..Len(calling') : i + 1 \in 1..Len(calling) /\ calling'[i] = calling[i + 1] /\ calling'[i] # Head(calling) /\ calling'[i] \notin DOMAIN due
    <2> SUFFICES ASSUME NEW i \in 1..Len(calling')
                 PROVE  i + 1 \in 1..Len(calling) /\ calling'[i] = calling[i + 1] /\ calling'[i] # Head(calling) /\ calling'[i] \notin DOMAIN due
      OBVIOUS
    <2>1. i + 1 \in 1..Len(calling) /\ i + 1 # 1 /\ 1 \in 1..Len(calling) BY <1>1, <1>2
    <2>2. calling'[i] = calling[i + 1] BY <1>1, <1>2
    <2> QED BY <1>1, <2>1, <2>2 DEF CallingInv
  <1>5. \A j, k \in 1..Len(calling') : calling'[j] = calling'[k] => j = k
    <2> SUFFICES ASSUME NEW j \in 1..Len(calling'), NEW k \in 1..Len(calling'), calling'[j] = calling'[k] PROVE j = k
      OBVIOUS
    <2>1. j + 1 = k + 1 BY <1>4 DEF CallingInv
    <2>2. Len(calling') \in Nat BY <1>1, <1>2
    <2> QED BY <2>1, <2>2
  <1>6. CASE UNCHANGED <<callout, due>>
    <2>1. ListInv' BY <1>6 DEF ListInv
    <2> QED BY <1>1, <1>2, <1>4, <1>5, <1>6, <2>1 DEF CallingInv
  <1>7. CASE \E t \in Times \ {0} : Callouts!Adds(Head(calling), t)
    <2>1. PICK t \in Times \ {0} : Callouts!Adds(Head(calling), t) BY <1>7
    <2>2. t \in Nat OBVIOUS
    <2>3. ListInv' /\ DOMAIN due' = DOMAIN due \cup {Head(calling)} BY <1>1, <1>3, <2>1, <2>2, AddsKeep
    <2> QED BY <1>1, <1>2, <1>4, <1>5, <2>3 DEF CallingInv
  <1> QED BY <1>6, <1>7 DEF Callouts!Calls

(* A set that is listed once each has as many members as the list. *)
LEMMA ListedOnce ==
    ASSUME NEW n \in Nat, NEW f, NEW S, S = {f[k] : k \in 1..n},
           \A j, k \in 1..n : f[j] = f[k] => j = k PROVE Callouts!Cardinality(S) = n
  <1> DEFINE b == [k \in 1..n |-> f[k]]
  <1>1. b \in [1..n -> S] /\ (\A j, k \in 1..n : b[j] = b[k] => j = k) /\ \A x \in S : \E k \in 1..n : b[k] = x
    OBVIOUS
  <1>2. b \in Bijection(1..n, S) BY <1>1, Fun_IsInj, Fun_IsSurj DEF Bijection
  <1>3. ExistsBijection(1..n, S) BY <1>2 DEF ExistsBijection
  <1>4. IsFiniteSet(1..n) /\ Cardinality(1..n) = IF 1 > n THEN 0 ELSE n - 1 + 1 BY FS_Interval
  <1>5. Cardinality(S) = Cardinality(1..n) BY ONLY <1>3, <1>4, FS_Bijection
  <1>6. Cardinality(1..n) = n BY <1>4
  <1>7. Callouts!Cardinality(S) = Cardinality(S) BY DEF Callouts!Cardinality, Cardinality
  <1> QED BY <1>5, <1>6, <1>7

(* The invariant is what OnTime says of the list. *)
LEMMA ListOnTime ==
    ASSUME ListInv PROVE Callouts!OnTime
  <1>0. callout \in Seq(CallEntries) /\ Len(callout) \in Nat /\ DOMAIN callout = 1..Len(callout)
    BY LenProperties DEF ListInv
  <1>1. PICK g : Sums(callout, g) /\ \A k \in 1..Len(callout) : due[callout[k].call] = g[k] BY DEF ListInv
  <1>2. DOMAIN due = {callout[k].call : k \in DOMAIN callout} BY DEF ListInv
  <1>3. \A k \in DOMAIN callout : Callouts!Sum(callout, k) = due[callout[k].call]
    <2> SUFFICES ASSUME NEW k \in 1..Len(callout) PROVE Callouts!Sum(callout, k) = due[callout[k].call]
      BY <1>0
    <2>1. k \in 0..Len(callout) BY <1>0
    <2> QED BY <1>0, <1>1, <2>1, SumIs
  <1>4. \A k \in DOMAIN callout : callout[k].time >= 0
    <2> SUFFICES ASSUME NEW k \in 1..Len(callout) PROVE callout[k].time >= 0 BY <1>0
    <2>1. callout[k] \in CallEntries BY <1>0, ElementOfSeq
    <2> QED BY <2>1 DEF CallEntries
  <1>5. Len(callout) = Callouts!Cardinality(DOMAIN due)
    <2>1. PICK f : f = [k \in 1..Len(callout) |-> callout[k].call] OBVIOUS
    <2>2. \A k \in 1..Len(callout) : f[k] = callout[k].call BY <2>1
    <2>3. DOMAIN due = {f[k] : k \in 1..Len(callout)} BY <1>0, <1>2, <2>2
    <2>4. \A j, k \in 1..Len(callout) : f[j] = f[k] => j = k BY <2>2 DEF ListInv
    <2> QED BY <1>0, <2>3, <2>4, ListedOnce
  <1> QED BY <1>2, <1>3, <1>4, <1>5 DEF Callouts!OnTime

(* Whatever is added between whichever entries, and whatever a function    *)
(* that is called adds again, each call stands in the list once and comes  *)
(* when the ticks asked for are over (CLOCK.C).                            *)
THEOREM NoCalloutLate == Callouts!Spec => []OnTime
  <1>0. Times \subseteq Nat BY KernelPartsAssumption DEF Callouts!CalloutAssumption
  <1>1. Callouts!Init => ListInv /\ CallingInv
    <2> SUFFICES ASSUME Callouts!Init PROVE ListInv /\ CallingInv OBVIOUS
    <2>1. callout = <<>> /\ calling = <<>> /\ DOMAIN due = {} /\ Len(callout) = 0 /\ Len(calling) = 0 /\ DOMAIN callout = {}
      BY DEF Callouts!Init
    <2>2. Sums(callout, [j \in 0..0 |-> 0]) BY <2>1 DEF Sums
    <2>3. callout \in Seq(CallEntries) /\ calling \in Seq(Callee) BY <2>1, EmptySeq
    <2> QED BY <2>1, <2>2, <2>3 DEF ListInv, CallingInv
  <1>2. ListInv /\ CallingInv /\ [Callouts!Next]_Callouts!vars => (ListInv /\ CallingInv)'
    <2> SUFFICES ASSUME ListInv, CallingInv, [Callouts!Next]_Callouts!vars PROVE ListInv' /\ CallingInv'
      OBVIOUS
    <2>1. CASE UNCHANGED Callouts!vars BY <2>1 DEF Callouts!vars, ListInv, CallingInv
    <2>2. CASE Callouts!clock BY <2>2, ClockKeeps
    <2>3. CASE Callouts!Calls BY <1>0, <2>3, CalledKeep
    <2>4. CASE \E c \in Callee, t \in Times : Callouts!timeout(c, t)
      <3>1. PICK c \in Callee, t \in Times : Callouts!timeout(c, t) BY <2>4
      <3>2. t \in Nat /\ c \notin DOMAIN due /\ Callouts!Adds(c, t) /\ calling = <<>> /\ calling' = calling
        BY <1>0, <3>1 DEF Callouts!timeout
      <3>3. ListInv' BY <3>2, AddsKeep
      <3>4. Len(calling) = 0 BY <3>2
      <3> QED BY <3>2, <3>3, <3>4 DEF CallingInv
    <2> QED BY <2>1, <2>2, <2>3, <2>4 DEF Callouts!Next
  <1>3. ListInv => OnTime BY ListOnTime DEF OnTime
  <1> QED BY <1>1, <1>2, <1>3, PTL DEF Callouts!Spec

----
(* The console.  No two delimiters are together, so a queue of n           *)
(* characters has at most (n + 1) / 2, and the one byte that counts them   *)
(* does not go round.                                                      *)
Chars == Key \cup {Tty!Delim}
Delims(s) == {i \in 1..Len(s) : s[i] = Tty!Delim}
Marks(s)  == Cardinality(Delims(s))
Spaced(s) == \A i \in 1..Len(s) - 1 : s[i] = Tty!Delim => s[i + 1] # Tty!Delim

(* Moving a set of positions by one changes its size by nothing. *)
LEMMA Moved ==
    ASSUME NEW S, S \subseteq Int, IsFiniteSet(S)
    PROVE  LET T == {i + 1 : i \in S} IN IsFiniteSet(T) /\ Cardinality(T) = Cardinality(S)
  <1> DEFINE T == {i + 1 : i \in S}
  <1>1. PICK b : b = [i \in S |-> i + 1] OBVIOUS
  <1>2. b \in [S -> T] /\ \A i \in S : b[i] = i + 1 BY <1>1
  <1>3. \A i, j \in S : b[i] = b[j] => i = j BY <1>2
  <1>4. \A t \in T : \E i \in S : b[i] = t BY <1>2
  <1>5. b \in Bijection(S, T) BY <1>2, <1>3, <1>4, Fun_IsInj, Fun_IsSurj DEF Bijection
  <1>6. ExistsBijection(S, T) BY <1>5 DEF ExistsBijection
  <1> HIDE DEF T
  <1>7. IsFiniteSet(T) /\ Cardinality(T) = Cardinality(S) BY <1>6, FS_Bijection
  <1> QED BY <1>7 DEF T

(* The delimiters are finitely many positions. *)
LEMMA MarksType ==
    ASSUME NEW s \in Seq(Chars)
    PROVE  Len(s) \in Nat /\ IsFiniteSet(Delims(s)) /\ Marks(s) \in Nat /\ Delims(s) \subseteq 1..Len(s)
  <1>1. Len(s) \in Nat /\ Delims(s) \subseteq 1..Len(s) BY LenProperties DEF Delims
  <1>2. IsFiniteSet(1..Len(s)) BY <1>1, FS_Interval
  <1>3. IsFiniteSet(Delims(s)) BY <1>1, <1>2, FS_Subset
  <1> QED BY <1>1, <1>3, FS_CardinalityType DEF Marks

(* Spaced delimiters are at most half of the characters, and one. *)
LEMMA MarksBound ==
    ASSUME NEW s \in Seq(Chars), Spaced(s) PROVE 2 * Marks(s) <= Len(s) + 1
  <1> DEFINE D == Delims(s)
  <1> DEFINE T == {i + 1 : i \in D}
  <1>1. Len(s) \in Nat /\ IsFiniteSet(D) /\ Marks(s) \in Nat /\ D \subseteq 1..Len(s) /\ D \subseteq Int
    BY MarksType
  <1>2. IsFiniteSet(T) /\ Cardinality(T) = Cardinality(D) BY ONLY <1>1, Moved
  <1>3. D \cap T = {}
    <2> SUFFICES ASSUME NEW i \in D, i + 1 \in D PROVE FALSE OBVIOUS
    <2>1. i \in 1..Len(s) - 1 /\ s[i] = Tty!Delim /\ s[i + 1] = Tty!Delim BY <1>1 DEF Delims
    <2> QED BY ONLY Spaced(s), <2>1 DEF Spaced
  <1>4. D \cup T \subseteq 1..Len(s) + 1 BY <1>1
  <1>5. Len(s) + 1 \in Nat /\ IsFiniteSet(1..Len(s) + 1) /\ Cardinality(1..Len(s) + 1) = Len(s) + 1
    BY <1>1, FS_Interval
  <1> HIDE DEF D, T
  <1>6. Cardinality(D \cup T) = Cardinality(D) + Cardinality(T) - Cardinality({}) /\ Cardinality({}) = 0
    BY <1>1, <1>2, <1>3, FS_Union, FS_EmptySet
  <1>7. Cardinality(D \cup T) <= Len(s) + 1 BY <1>4, <1>5, FS_Subset
  <1>8. Cardinality(D) = Marks(s) BY DEF D, Marks
  <1>9. Cardinality(D \cup T) = 2 * Marks(s) BY <1>1, <1>2, <1>6, <1>8
  <1> QED BY <1>7, <1>9

(* One more character. *)
LEMMA MarksAppend ==
    ASSUME NEW s \in Seq(Chars), NEW c \in Chars
    PROVE  /\ Append(s, c) \in Seq(Chars) /\ Len(Append(s, c)) = Len(s) + 1
           /\ Marks(Append(s, c)) = IF c = Tty!Delim THEN Marks(s) + 1 ELSE Marks(s)
           /\ Spaced(s) /\ c # Tty!Delim => Spaced(Append(s, c))
           /\ Spaced(s) /\ (Len(s) > 0 => s[Len(s)] # Tty!Delim) => Spaced(Append(s, c))
  <1>1. PICK t : t = Append(s, c) OBVIOUS
  <1>2. /\ t \in Seq(Chars) /\ Len(t) = Len(s) + 1 /\ t[Len(s) + 1] = c
        /\ \A i \in 1..Len(s) : t[i] = s[i] BY <1>1, AppendProperties
  <1>3. Len(s) \in Nat /\ IsFiniteSet(Delims(s)) /\ Len(s) + 1 \notin Delims(s) /\ Marks(s) \in Nat
    BY MarksType
  <1>4. Marks(t) = IF c = Tty!Delim THEN Marks(s) + 1 ELSE Marks(s)
    <2>1. CASE c = Tty!Delim
      <3>1. Delims(t) = Delims(s) \cup {Len(s) + 1} BY <1>2, <1>3, <2>1 DEF Delims
      <3> QED BY <1>3, <2>1, <3>1, FS_AddElement DEF Marks
    <2>2. CASE c # Tty!Delim
      <3>1. Delims(t) = Delims(s) BY <1>2, <1>3, <2>2 DEF Delims
      <3> QED BY <2>2, <3>1 DEF Marks
    <2> QED BY <2>1, <2>2
  <1>5. ASSUME Spaced(s), c # Tty!Delim \/ (Len(s) > 0 => s[Len(s)] # Tty!Delim) PROVE Spaced(t)
    <2> SUFFICES ASSUME NEW i \in 1..Len(t) - 1, t[i] = Tty!Delim PROVE t[i + 1] # Tty!Delim BY DEF Spaced
    <2>1. i \in 1..Len(s) /\ t[i] = s[i] BY <1>2, <1>3
    <2>2. CASE i = Len(s) BY <1>2, <1>3, <1>5, <2>1, <2>2
    <2>3. CASE i # Len(s)
      <3>1. i \in 1..Len(s) - 1 /\ i + 1 \in 1..Len(s) BY <1>3, <2>1, <2>3
      <3>2. t[i + 1] = s[i + 1] /\ s[i] = Tty!Delim BY <1>2, <2>1, <3>1
      <3> QED BY <1>5, <3>1, <3>2 DEF Spaced
    <2> QED BY <2>2, <2>3
  <1> QED BY <1>1, <1>2, <1>4, <1>5

(* The first character goes. *)
LEMMA MarksTail ==
    ASSUME NEW s \in Seq(Chars), s # <<>>, NEW t, t = Tail(s)
    PROVE  /\ Head(s) \in Chars /\ t \in Seq(Chars)
           /\ Marks(s) = IF Head(s) = Tty!Delim THEN Marks(t) + 1 ELSE Marks(t)
           /\ Spaced(s) => Spaced(t)
  <1>1. /\ Head(s) \in Chars /\ t \in Seq(Chars) /\ Len(t) = Len(s) - 1
        /\ \A i \in 1..Len(t) : t[i] = s[i + 1] BY HeadTailProperties
  <1>2. Len(s) \in Nat /\ Len(s) >= 1 /\ Head(s) = s[1]
    <2>1. Len(s) \in Nat \ {0} BY EmptySeq
    <2>2. Head(s) = s[1] OBVIOUS
    <2> QED BY <2>1, <2>2
  <1>3. IsFiniteSet(Delims(t)) /\ Delims(t) \subseteq 1..Len(t) /\ Delims(t) \subseteq Int /\ Marks(t) \in Nat
    <2>1. Len(t) \in Nat /\ IsFiniteSet(Delims(t)) /\ Delims(t) \subseteq 1..Len(t) /\ Marks(t) \in Nat
      BY <1>1, MarksType
    <2> QED BY ONLY <2>1
  <1> DEFINE T == {i + 1 : i \in Delims(t)}
  <1>4. IsFiniteSet(T) /\ Cardinality(T) = Marks(t) BY ONLY <1>3, Moved DEF Marks
  <1>5. 1 \notin T BY <1>3
  <1>6. \A i : i \in Delims(s) <=> (i = 1 /\ Head(s) = Tty!Delim) \/ i \in T
    <2>1. ASSUME NEW i \in Delims(s), i # 1 PROVE i \in T
      <3>1. i - 1 \in 1..Len(t) /\ i - 1 + 1 = i BY <1>1, <1>2, <2>1 DEF Delims
      <3>2. t[i - 1] = s[i] BY <1>1, <3>1
      <3>3. i - 1 \in Delims(t) BY <2>1, <3>1, <3>2 DEF Delims
      <3> QED BY <3>1, <3>3
    <2>2. ASSUME NEW i \in Delims(t) PROVE i + 1 \in Delims(s)
      <3>1. i \in 1..Len(t) /\ t[i] = Tty!Delim /\ t[i] = s[i + 1] /\ i + 1 \in 1..Len(s)
        BY <1>1, <1>2 DEF Delims
      <3> QED BY <3>1 DEF Delims
    <2>3. 1 \in Delims(s) <=> Head(s) = Tty!Delim BY <1>2 DEF Delims
    <2> QED BY <2>1, <2>2, <2>3
  <1> HIDE DEF T
  <1>7. Marks(s) = IF Head(s) = Tty!Delim THEN Marks(t) + 1 ELSE Marks(t)
    <2>1. CASE Head(s) = Tty!Delim
      <3>1. Delims(s) = T \cup {1} BY <1>6, <2>1
      <3> QED BY <1>3, <1>4, <1>5, <2>1, <3>1, FS_AddElement DEF Marks
    <2>2. CASE Head(s) # Tty!Delim
      <3>1. Delims(s) = T BY <1>6, <2>2
      <3> QED BY <1>4, <2>2, <3>1 DEF Marks
    <2> QED BY <2>1, <2>2
  <1>8. ASSUME Spaced(s) PROVE Spaced(t)
    <2> SUFFICES ASSUME NEW i \in 1..Len(t) - 1, t[i] = Tty!Delim PROVE t[i + 1] # Tty!Delim BY DEF Spaced
    <2>1. i \in 1..Len(t) /\ i + 1 \in 1..Len(t) /\ i + 1 \in 1..Len(s) - 1 BY <1>1, <1>2
    <2>2. t[i] = s[i + 1] /\ t[i + 1] = s[i + 1 + 1] BY <1>1, <2>1
    <2>3. s[i + 1] = Tty!Delim => s[i + 1 + 1] # Tty!Delim BY ONLY <1>8, <2>1 DEF Spaced
    <2> QED BY <2>2, <2>3
  <1> QED BY <1>1, <1>7, <1>8

(* An empty queue has no line. *)
LEMMA NoMarks == <<>> \in Seq(Chars) /\ Marks(<<>>) = 0 /\ Spaced(<<>>)
  <1>1. <<>> \in Seq(Chars) /\ Len(<<>>) = 0 BY EmptySeq
  <1>2. Delims(<<>>) = {} BY <1>1 DEF Delims
  <1> QED BY <1>1, <1>2, FS_EmptySet DEF Marks, Spaced

Point == {"user", "canon", "asleep", "scan", "popped", "deliver", "out", "mode"}
TtyTypes ==
    /\ rawq \in [q : Seq(Chars), off : Int]
    /\ reader \in [Reader -> [at : Point, want : Int]]
    /\ delct \in 0..255 /\ cpu \in Reader \cup {NoReader} /\ NoReader \notin Reader

(* The count is the delimiters' and that of the line just taken, readers   *)
(* sleep on a count of zero, and none does while a line is being taken.    *)
Counted  == ~torn => delct = Marks(rawq.q) + (IF Tty!PoppedOne THEN 1 ELSE 0)
NoneLeft == \A r \in Reader : reader[r].at = "asleep" => delct = 0
Taking   == cpu # NoReader /\ reader[cpu].at \in {"scan", "popped"}
AllUp    == \A r \in Reader : reader[r].at # "asleep"
TtyInv   == TtyTypes /\ Spaced(rawq.q) /\ Counted /\ NoneLeft /\ (Taking => AllUp)

(* The invariant is the property and more. *)
LEMMA TtyInvHolds == TtyInv => Tty!Attended
  <1> SUFFICES ASSUME TtyInv PROVE Tty!Attended OBVIOUS
  <1>1. rawq.q \in Seq(Chars) BY DEF TtyInv, TtyTypes
  <1>2. {i \in DOMAIN rawq.q : rawq.q[i] = Tty!Delim} = Delims(rawq.q) BY <1>1, LenProperties DEF Delims
  <1>3. Tty!Waiting = Marks(rawq.q) BY <1>2 DEF Tty!Waiting, Tty!Count, Marks, Tty!Cardinality, Cardinality
  <1> QED BY <1>3 DEF TtyInv, Counted, NoneLeft, Tty!Attended

(* wakeup(&t_rawq). *)
LEMMA AwakeIs ==
    ASSUME NEW p \in [Reader -> [at : Point, want : Int]], reader' = Tty!Awake(p)
    PROVE  /\ reader' \in [Reader -> [at : Point, want : Int]] /\ AllUp'
           /\ \A r \in Reader : reader'[r].at = IF p[r].at = "asleep" THEN "canon" ELSE p[r].at
  <1>1. reader' = [r \in Reader |-> IF p[r].at = "asleep" THEN [p[r] EXCEPT !.at = "canon"] ELSE p[r]]
    BY DEF Tty!Awake
  <1>2. ASSUME NEW r \in Reader
        PROVE  /\ reader'[r] \in [at : Point, want : Int]
               /\ reader'[r].at = IF p[r].at = "asleep" THEN "canon" ELSE p[r].at
    <2>1. p[r] \in [at : Point, want : Int] OBVIOUS
    <2> QED BY <1>1, <2>1 DEF Point
  <1> QED BY <1>1, <1>2 DEF AllUp

(* A reader goes on to another point. *)
LEMMA GotoIs ==
    ASSUME TtyTypes, NEW r \in Reader, NEW l \in Point, Tty!Goto(r, l)
    PROVE  /\ reader' \in [Reader -> [at : Point, want : Int]] /\ reader'[r].at = l
           /\ \A s \in Reader \ {r} : reader'[s] = reader[s]
  <1>1. reader' = [reader EXCEPT ![r].at = l] BY DEF Tty!Goto
  <1> QED BY <1>1 DEF TtyTypes

(* An interrupt, a quit or too long a line, or stty: everything typed      *)
(* goes, and whoever waits looks again.                                    *)
LEMMA FlushKeeps ==
    ASSUME TtyInv, NEW p \in [Reader -> [at : Point, want : Int]], Tty!flushtty(p),
           cpu' \in Reader \cup {NoReader},
           cpu' # NoReader /\ p[cpu'].at = "popped" => Tty!PoppedOne PROVE TtyInv'
  <1>1. rawq' = Tty!Empty /\ delct' = 0 /\ reader' = Tty!Awake(p)
        /\ torn' = (torn \/ (cpu # NoReader /\ reader[cpu].at \in {"scan", "popped", "deliver"}))
    BY DEF Tty!flushtty
  <1>2. TtyTypes BY DEF TtyInv
  <1>3. /\ reader' \in [Reader -> [at : Point, want : Int]] /\ AllUp'
        /\ \A r \in Reader : reader'[r].at = IF p[r].at = "asleep" THEN "canon" ELSE p[r].at
    BY ONLY <1>1, p \in [Reader -> [at : Point, want : Int]], AwakeIs
  <1>4. rawq'.q = <<>> /\ rawq' \in [q : Seq(Chars), off : Int] /\ Spaced(rawq'.q) /\ Marks(rawq'.q) = 0
    BY <1>1, NoMarks DEF Tty!Empty
  <1>5. TtyTypes' BY <1>1, <1>2, <1>3, <1>4 DEF TtyTypes
  <1>6. ~torn' => ~Tty!PoppedOne' BY <1>1, <1>2, <1>3 DEF TtyTypes, Tty!PoppedOne
  <1> QED BY <1>1, <1>3, <1>4, <1>5, <1>6 DEF TtyInv, Counted, NoneLeft

(* One character typed.  At its end a line and its delimiter are counted:  *)
(* the byte does not go round, since the queue is shorter than TTYHOG.     *)
LEMMA TypedKeeps ==
    ASSUME TtyInv, NEW c \in Key, Tty!ttyinput(c) PROVE TtyInv'
  <1>1. UNCHANGED cpu BY DEF Tty!ttyinput
  <1>2. CASE (c = "intr" /\ ~raw) \/ Len(rawq.q) >= TTYHOG
    <2>1. TtyTypes /\ Tty!flushtty(reader) BY <1>2 DEF Tty!ttyinput, TtyInv
    <2>2. reader \in [Reader -> [at : Point, want : Int]] /\ cpu' \in Reader \cup {NoReader}
      BY <1>1, <2>1 DEF TtyTypes
    <2>3. cpu' # NoReader /\ reader[cpu'].at = "popped" => Tty!PoppedOne BY <1>1 DEF Tty!PoppedOne
    <2> QED BY ONLY TtyInv, <2>1, <2>2, <2>3, FlushKeeps
  <1>3. CASE ~ ((c = "intr" /\ ~raw) \/ Len(rawq.q) >= TTYHOG)
    <2> DEFINE one == Append(rawq.q, c)
    <2> DEFINE all == IF Tty!Ends(c) THEN Append(one, Tty!Delim) ELSE one
    <2>1. TtyTypes /\ rawq.q \in Seq(Chars) /\ Len(rawq.q) \in Nat /\ rawq.off \in Int
          /\ rawq = [q |-> rawq.q, off |-> rawq.off] /\ delct \in 0..255
      BY LenProperties DEF TtyInv, TtyTypes
    <2>2. /\ rawq' = [q |-> all, off |-> rawq.off]
          /\ delct' = IF Tty!Ends(c) THEN (delct + 1) % 256 ELSE delct
          /\ reader' = IF Tty!Ends(c) THEN Tty!Awake(reader) ELSE reader
          /\ torn' = torn BY <1>3, <2>1 DEF Tty!ttyinput, Tty!Put
    <2>3. c \in Chars /\ c # Tty!Delim /\ Tty!Delim \in Chars /\ TTYHOG \in 1..507
      BY KernelPartsAssumption DEF KernelPartsAssumption, Tty!TtyAssumption, Tty!Special, Tty!Delim, Chars
    <2>4. one \in Seq(Chars) /\ Len(one) = Len(rawq.q) + 1 /\ Marks(one) = Marks(rawq.q) /\ Spaced(one)
      BY <2>1, <2>3, MarksAppend DEF TtyInv
    <2>5. one[Len(one)] # Tty!Delim BY <2>1, <2>3, <2>4, AppendProperties
    <2> HIDE DEF one
    <2>6. all \in Seq(Chars) /\ Spaced(all) /\ Marks(all) = IF Tty!Ends(c) THEN Marks(rawq.q) + 1 ELSE Marks(rawq.q)
      <3>1. Append(one, Tty!Delim) \in Seq(Chars) /\ Marks(Append(one, Tty!Delim)) = Marks(one) + 1 /\ Spaced(Append(one, Tty!Delim))
        BY <2>3, <2>4, <2>5, MarksAppend
      <3> QED BY <2>4, <3>1
    <2> HIDE DEF all
    <2>7. 2 * Marks(rawq.q) <= Len(rawq.q) + 1 /\ Marks(rawq.q) \in Nat
      BY <2>1, MarksBound, MarksType DEF TtyInv
    <2>8. Len(rawq.q) < 507
      <3>1. ~ (Len(rawq.q) >= TTYHOG) BY ONLY <1>3
      <3>2. Len(rawq.q) \in Nat /\ TTYHOG \in 1..507 BY ONLY <2>1, <2>3
      <3> QED BY ONLY <3>1, <3>2
    <2>9. CASE Tty!Ends(c)
      <3>1. /\ reader' \in [Reader -> [at : Point, want : Int]] /\ AllUp'
            /\ \A r \in Reader : reader'[r].at = IF reader[r].at = "asleep" THEN "canon" ELSE reader[r].at
        <4>1. reader' = Tty!Awake(reader) /\ reader \in [Reader -> [at : Point, want : Int]]
          BY <2>1, <2>2, <2>9 DEF TtyTypes
        <4> QED BY ONLY <4>1, AwakeIs
      <3>2. Tty!PoppedOne' = Tty!PoppedOne BY <1>1, <2>1, <3>1 DEF TtyTypes, Tty!PoppedOne
      <3>3. ~torn => delct < 255 BY <2>1, <2>7, <2>8 DEF TtyInv, Counted
      <3>4. delct' \in 0..255 /\ (~torn => delct' = delct + 1)
        <4>1. \A d \in 0..255 : (d + 1) % 256 \in 0..255 /\ (d < 255 => (d + 1) % 256 = d + 1)
          BY ONLY SMTT(40)
        <4>2. delct' = (delct + 1) % 256 /\ delct \in 0..255 BY <2>1, <2>2, <2>9
        <4> QED BY ONLY <3>3, <4>1, <4>2
      <3>5. Counted' BY <2>2, <2>6, <2>7, <2>9, <3>2, <3>4 DEF TtyInv, Counted
      <3> QED BY <1>1, <2>1, <2>2, <2>6, <3>1, <3>4, <3>5 DEF TtyInv, TtyTypes, NoneLeft, AllUp
    <2>10. CASE ~Tty!Ends(c)
      BY <1>1, <2>1, <2>2, <2>6, <2>10 DEF TtyInv, TtyTypes, Counted, NoneLeft, Taking, AllUp, Tty!PoppedOne
    <2> QED BY <2>9, <2>10
  <1> QED BY <1>2, <1>3

(* A read begins, by the reader that has the kernel. *)
LEMMA ReadKeeps ==
    ASSUME TtyInv, NEW r \in Reader, NEW n \in Want, Tty!Read(r, n) PROVE TtyInv'
  <1> DEFINE l == IF canq.q # <<>> THEN "out" ELSE "canon"
  <1>1. /\ cpu = NoReader /\ reader[r].at = "user" /\ cpu' = r
        /\ reader' = [reader EXCEPT ![r] = [at |-> l, want |-> n]]
        /\ rawq' = rawq /\ delct' = delct /\ torn' = torn BY DEF Tty!Read
  <1>2. l \in {"out", "canon"} /\ n \in Int
    BY KernelPartsAssumption DEF KernelPartsAssumption, Tty!TtyAssumption
  <1> HIDE DEF l
  <1>3. reader' \in [Reader -> [at : Point, want : Int]] /\ reader'[r].at = l
        /\ \A s \in Reader \ {r} : reader'[s] = reader[s] BY <1>1, <1>2 DEF TtyInv, TtyTypes, Point
  <1>4. ~Tty!PoppedOne /\ ~Tty!PoppedOne' /\ ~Taking' BY <1>1, <1>2, <1>3 DEF Tty!PoppedOne, Taking
  <1>5. NoneLeft' BY <1>1, <1>2, <1>3 DEF TtyInv, NoneLeft
  <1> QED BY <1>1, <1>3, <1>4, <1>5 DEF TtyInv, TtyTypes, Counted

(* canon: a reader sleeps on a count of zero, or begins to take a line     *)
(* when nobody sleeps.                                                     *)
LEMMA CanonKeeps ==
    ASSUME TtyInv, NEW r \in Reader, Tty!Canon(r) PROVE TtyInv'
  <1>1. /\ cpu \in {r, NoReader} /\ reader[r].at = "canon"
        /\ rawq' = rawq /\ delct' = delct /\ torn' = torn /\ TtyTypes BY DEF Tty!Canon, TtyInv
  <1>2. ~Tty!PoppedOne BY <1>1 DEF Tty!PoppedOne
  <1>3. CASE delct = 0
    <2>1. Tty!Goto(r, "asleep") /\ cpu' = NoReader BY <1>3 DEF Tty!Canon
    <2>2. /\ reader' \in [Reader -> [at : Point, want : Int]] /\ reader'[r].at = "asleep"
          /\ \A s \in Reader \ {r} : reader'[s] = reader[s]
      <3>1. "asleep" \in Point BY DEF Point
      <3> QED BY ONLY <1>1, <2>1, <3>1, r \in Reader, GotoIs
    <2>3. ~Tty!PoppedOne' /\ ~Taking' /\ NoneLeft'
      BY <1>1, <1>3, <2>1, <2>2 DEF Tty!PoppedOne, Taking, NoneLeft
    <2> QED BY <1>1, <1>2, <2>1, <2>2, <2>3 DEF TtyInv, TtyTypes, Counted
  <1>4. CASE delct # 0
    <2>1. Tty!Goto(r, "scan") /\ cpu' = r BY <1>4 DEF Tty!Canon
    <2>2. /\ reader' \in [Reader -> [at : Point, want : Int]] /\ reader'[r].at = "scan"
          /\ \A s \in Reader \ {r} : reader'[s] = reader[s]
      <3>1. "scan" \in Point BY DEF Point
      <3> QED BY ONLY <1>1, <2>1, <3>1, r \in Reader, GotoIs
    <2>3. AllUp BY <1>4 DEF TtyInv, NoneLeft, AllUp
    <2>4. ~Tty!PoppedOne' /\ AllUp' /\ NoneLeft' BY <2>1, <2>2, <2>3 DEF Tty!PoppedOne, NoneLeft, AllUp
    <2> QED BY <1>1, <1>2, <2>1, <2>2, <2>4 DEF TtyInv, TtyTypes, Counted
  <1> QED BY <1>3, <1>4

(* The reader at work moves from one point to another where nobody is      *)
(* asleep for it.                                                          *)
LEMMA MovesOn ==
    ASSUME TtyInv, NEW r \in Reader, cpu = r, NEW l \in Point \ {"asleep", "scan", "popped"}, reader[r].at # "popped",
           Tty!Goto(r, l), cpu' = cpu, rawq' = rawq, delct' = delct, torn' = torn PROVE TtyInv'
  <1>1. /\ reader' \in [Reader -> [at : Point, want : Int]] /\ reader'[r].at = l
        /\ \A s \in Reader \ {r} : reader'[s] = reader[s]
    <2>1. TtyTypes /\ l \in Point BY DEF TtyInv
    <2> QED BY ONLY <2>1, r \in Reader, Tty!Goto(r, l), GotoIs
  <1>2. ~Tty!PoppedOne /\ ~Tty!PoppedOne' /\ ~Taking' BY <1>1 DEF Tty!PoppedOne, Taking
  <1>3. NoneLeft' BY <1>1 DEF TtyInv, NoneLeft
  <1>4. cpu' \in Reader \cup {NoReader} OBVIOUS
  <1> QED BY <1>1, <1>2, <1>3, <1>4 DEF TtyInv, TtyTypes, Counted

(* getc in canon.  The delimiter is out of the queue before it is out of   *)
(* the count, and nobody sleeps in between.                                *)
LEMMA ScanKeeps ==
    ASSUME TtyInv, NEW r \in Reader, Tty!Scan(r) PROVE TtyInv'
  <1>1. /\ cpu = r /\ reader[r].at = "scan" /\ cpu' = cpu /\ delct' = delct /\ torn' = torn
        /\ TtyTypes /\ Taking /\ AllUp /\ rawq.q \in Seq(Chars) BY DEF Tty!Scan, TtyInv, TtyTypes, Taking
  <1>2. CASE rawq.q = <<>>
    <2>1. Tty!Goto(r, "deliver") /\ rawq' = rawq BY <1>2 DEF Tty!Scan
    <2>2. "deliver" \in Point \ {"asleep", "scan", "popped"} /\ reader[r].at # "popped" BY <1>1 DEF Point
    <2> QED BY <1>1, <2>1, <2>2, MovesOn
  <1>3. CASE rawq.q # <<>>
    <2> DEFINE c == Head(rawq.q)
    <2>1. rawq' = Tty!Rest(rawq) BY <1>3 DEF Tty!Scan
    <2>2. \E x \in Int : rawq' = [q |-> Tail(rawq.q), off |-> x]
      <3>1. CASE Len(rawq.q) = 1
        <4>1. Tail(rawq.q) = <<>>
          <5>1. Tail(rawq.q) \in Seq(Chars) /\ Len(Tail(rawq.q)) = 0 BY <1>1, <1>3, <3>1, HeadTailProperties
          <5> QED BY <5>1, EmptySeq
        <4>2. rawq' = [q |-> Tail(rawq.q), off |-> 0] BY <2>1, <3>1, <4>1 DEF Tty!Rest, Tty!Empty
        <4>3. 0 \in Int OBVIOUS
        <4> QED BY ONLY <4>2, <4>3, Zenon
      <3>2. CASE Len(rawq.q) # 1
        <4>1. rawq.off + 1 \in Int /\ CLBLOCK \in Nat \ {0}
          BY KernelPartsAssumption DEF KernelPartsAssumption, Tty!TtyAssumption, TtyInv, TtyTypes
        <4>2. (rawq.off + 1) % CLBLOCK \in Int BY <4>1
        <4> QED BY <2>1, <3>2, <4>2 DEF Tty!Rest
      <3> QED BY <3>1, <3>2
    <2>3. PICK t : t = Tail(rawq.q) OBVIOUS
    <2>4. /\ t \in Seq(Chars) /\ Spaced(t) /\ rawq'.q = t /\ rawq' \in [q : Seq(Chars), off : Int]
          /\ Marks(rawq.q) = IF c = Tty!Delim THEN Marks(t) + 1 ELSE Marks(t)
      <3>1. /\ t \in Seq(Chars) /\ (Spaced(rawq.q) => Spaced(t))
            /\ Marks(rawq.q) = IF c = Tty!Delim THEN Marks(t) + 1 ELSE Marks(t)
        BY ONLY <1>1, <1>3, <2>3, MarksTail
      <3> QED BY <2>2, <2>3, <3>1 DEF TtyInv
    <2>5. Marks(t) \in Nat BY <2>4, MarksType
    <2> HIDE DEF c
    <2>6. ~Tty!PoppedOne BY <1>1 DEF Tty!PoppedOne
    <2>7. CASE c = Tty!Delim
      <3>1. Tty!Goto(r, "popped") BY <1>3, <2>7 DEF Tty!Scan, c
      <3>2. /\ reader' \in [Reader -> [at : Point, want : Int]] /\ reader'[r].at = "popped"
            /\ \A s \in Reader \ {r} : reader'[s] = reader[s]
        <4>1. "popped" \in Point BY DEF Point
        <4> QED BY ONLY <1>1, <3>1, <4>1, r \in Reader, GotoIs
      <3>3. Tty!PoppedOne' /\ AllUp' BY <1>1, <3>2 DEF Tty!PoppedOne, AllUp, TtyTypes
      <3>4. Counted' BY <1>1, <2>4, <2>5, <2>6, <2>7, <3>3 DEF TtyInv, Counted
      <3> QED BY <1>1, <2>4, <3>2, <3>3, <3>4 DEF TtyInv, TtyTypes, NoneLeft, AllUp
    <2>8. CASE c # Tty!Delim
      <3>1. Tty!Goto(r, "deliver") \/ reader' = reader BY <1>3, <2>8 DEF Tty!Scan, c
      <3>2. /\ reader' \in [Reader -> [at : Point, want : Int]] /\ reader'[r].at \in {"scan", "deliver"}
            /\ \A s \in Reader \ {r} : reader'[s] = reader[s]
        <4>1. CASE Tty!Goto(r, "deliver")
          <5>1. "deliver" \in Point BY DEF Point
          <5>2. /\ reader' \in [Reader -> [at : Point, want : Int]] /\ reader'[r].at = "deliver"
                /\ \A s \in Reader \ {r} : reader'[s] = reader[s]
            BY ONLY <1>1, <4>1, <5>1, r \in Reader, GotoIs
          <5> QED BY ONLY <5>2
        <4>2. CASE reader' = reader BY <1>1, <4>2 DEF TtyTypes
        <4> QED BY <3>1, <4>1, <4>2
      <3>3. ~Tty!PoppedOne' /\ AllUp' BY <1>1, <3>2 DEF Tty!PoppedOne, AllUp
      <3>4. Counted' BY <1>1, <2>4, <2>5, <2>6, <2>8, <3>3 DEF TtyInv, Counted
      <3> QED BY <1>1, <2>4, <3>2, <3>3, <3>4 DEF TtyInv, TtyTypes, NoneLeft, AllUp
    <2> QED BY <2>7, <2>8
  <1> QED BY <1>2, <1>3

(* t_delct--. *)
LEMMA PoppedKeeps ==
    ASSUME TtyInv, NEW r \in Reader, Tty!Popped(r) PROVE TtyInv'
  <1>1. /\ cpu = r /\ reader[r].at = "popped" /\ cpu' = cpu /\ rawq' = rawq /\ torn' = torn
        /\ delct' = (delct - 1) % 256 /\ Tty!Goto(r, "deliver")
        /\ TtyTypes /\ Taking /\ AllUp /\ rawq.q \in Seq(Chars) /\ delct \in 0..255 /\ Tty!PoppedOne
    BY DEF Tty!Popped, TtyInv, TtyTypes, Taking, Tty!PoppedOne
  <1>2. /\ reader' \in [Reader -> [at : Point, want : Int]] /\ reader'[r].at = "deliver"
        /\ \A s \in Reader \ {r} : reader'[s] = reader[s]
    <2>1. "deliver" \in Point BY DEF Point
    <2> QED BY ONLY <1>1, <2>1, r \in Reader, GotoIs
  <1>3. ~Tty!PoppedOne' /\ AllUp' BY <1>1, <1>2 DEF Tty!PoppedOne, AllUp
  <1>4. \A d \in 0..255 : (d - 1) % 256 \in 0..255 /\ (d > 0 => (d - 1) % 256 = d - 1) BY ONLY SMTT(40)
  <1>5. Marks(rawq.q) \in Nat BY <1>1, MarksType
  <1>6. delct' \in 0..255 /\ (~torn => delct' = Marks(rawq.q))
    <2>1. ~torn => delct = Marks(rawq.q) + 1 BY <1>1 DEF TtyInv, Counted
    <2>2. ~torn => delct > 0 /\ delct - 1 = Marks(rawq.q) BY <1>1, <1>5, <2>1
    <2> QED BY ONLY <1>1, <1>4, <2>2
  <1>7. Counted' BY <1>1, <1>3, <1>5, <1>6 DEF Counted
  <1> QED BY <1>1, <1>2, <1>3, <1>6, <1>7 DEF TtyInv, TtyTypes, NoneLeft, AllUp

(* The line goes into the canonical queue, and from there to the reader.   *)
LEMMA DeliverKeeps ==
    ASSUME TtyInv, NEW r \in Reader, Tty!Deliver(r) PROVE TtyInv'
  <1>1. /\ cpu = r /\ reader[r].at = "deliver" /\ cpu' = cpu /\ rawq' = rawq /\ delct' = delct /\ torn' = torn
        /\ (Tty!Goto(r, "out") \/ reader' = reader) BY DEF Tty!Deliver
  <1>2. CASE Tty!Goto(r, "out")
    <2>1. "out" \in Point \ {"asleep", "scan", "popped"} /\ reader[r].at # "popped" BY <1>1 DEF Point
    <2> QED BY <1>1, <1>2, <2>1, MovesOn
  <1>3. CASE reader' = reader
    BY <1>1, <1>3 DEF TtyInv, TtyTypes, Counted, NoneLeft, Taking, AllUp, Tty!PoppedOne
  <1> QED BY <1>1, <1>2, <1>3

LEMMA OutKeeps ==
    ASSUME TtyInv, NEW r \in Reader, Tty!Out(r) PROVE TtyInv'
  <1>1. /\ cpu = r /\ reader[r].at = "out" /\ rawq' = rawq /\ delct' = delct /\ torn' = torn /\ TtyTypes
        /\ \/ reader' = [reader EXCEPT ![r] = Tty!User] /\ cpu' = NoReader
           \/ reader' = [reader EXCEPT ![r].want = @ - 1] /\ cpu' = cpu BY DEF Tty!Out, TtyInv
  <1>2. /\ reader' \in [Reader -> [at : Point, want : Int]] /\ reader'[r].at \in {"user", "out"}
        /\ \A s \in Reader \ {r} : reader'[s] = reader[s]
    <2>1. reader[r] \in [at : Point, want : Int] /\ Tty!User \in [at : Point, want : Int] /\ Tty!User.at = "user"
      BY <1>1 DEF TtyTypes, Point, Tty!User
    <2>2. CASE reader' = [reader EXCEPT ![r] = Tty!User] BY <1>1, <2>1, <2>2 DEF TtyTypes
    <2>3. CASE reader' = [reader EXCEPT ![r].want = @ - 1] BY <1>1, <2>1, <2>3 DEF TtyTypes
    <2> QED BY <1>1, <2>2, <2>3
  <1>3. ~Tty!PoppedOne /\ ~Tty!PoppedOne' /\ ~Taking' /\ cpu' \in Reader \cup {NoReader}
    BY <1>1, <1>2 DEF Tty!PoppedOne, Taking
  <1>4. NoneLeft' BY <1>1, <1>2 DEF TtyInv, NoneLeft
  <1> QED BY <1>1, <1>2, <1>3, <1>4 DEF TtyInv, TtyTypes, Counted

(* stty: the flush, and the mode. *)
LEMMA StartModeKeeps ==
    ASSUME TtyInv, NEW r \in Reader, Tty!wflushtty(r) PROVE TtyInv'
  <1> DEFINE p == [reader EXCEPT ![r].at = "mode"]
  <1>1. Tty!flushtty(p) /\ cpu' = r BY DEF Tty!wflushtty
  <1>2. p \in [Reader -> [at : Point, want : Int]] /\ p[r].at = "mode" BY DEF TtyInv, TtyTypes, Point
  <1> HIDE DEF p
  <1> QED BY <1>1, <1>2, FlushKeeps

LEMMA ModeKeeps ==
    ASSUME TtyInv, NEW r \in Reader, Tty!ttystty(r) PROVE TtyInv'
  <1>1. /\ cpu = r /\ reader[r].at = "mode" /\ cpu' = NoReader /\ Tty!Goto(r, "user")
        /\ rawq' = rawq /\ delct' = delct /\ torn' = torn /\ TtyTypes BY DEF Tty!ttystty, TtyInv
  <1>2. /\ reader' \in [Reader -> [at : Point, want : Int]] /\ reader'[r].at = "user"
        /\ \A s \in Reader \ {r} : reader'[s] = reader[s]
    <2>1. "user" \in Point BY DEF Point
    <2> QED BY ONLY <1>1, <2>1, r \in Reader, GotoIs
  <1>3. ~Tty!PoppedOne /\ ~Tty!PoppedOne' /\ ~Taking' BY <1>1 DEF Tty!PoppedOne, Taking
  <1>4. NoneLeft' BY <1>1, <1>2 DEF TtyInv, NoneLeft
  <1> QED BY <1>1, <1>2, <1>3, <1>4 DEF TtyInv, TtyTypes, Counted

(* Whatever is typed while whoever reads, the count a reader waits on      *)
(* (TTY.C) is the number of lines in the raw queue, and no reader sleeps   *)
(* while there is one.                                                     *)
THEOREM NoLineMissed == Tty!Spec => []Attended
  <1>1. Tty!Init => TtyInv
    <2> SUFFICES ASSUME Tty!Init PROVE TtyInv OBVIOUS
    <2>1. /\ rawq = [q |-> <<>>, off |-> 0] /\ delct = 0 /\ reader = [r \in Reader |-> [at |-> "user", want |-> 0]]
          /\ cpu = NoReader /\ torn = FALSE BY DEF Tty!Init, Tty!Empty, Tty!User
    <2>2. TtyTypes
      BY <2>1, NoMarks, KernelPartsAssumption DEF KernelPartsAssumption, Tty!TtyAssumption, TtyTypes, Point
    <2>3. Counted /\ NoneLeft /\ ~Taking BY <2>1, NoMarks DEF Counted, NoneLeft, Taking, Tty!PoppedOne
    <2> QED BY <2>1, <2>2, <2>3, NoMarks DEF TtyInv
  <1>2. TtyInv /\ [Tty!Next]_Tty!vars => TtyInv'
    <2> SUFFICES ASSUME TtyInv, [Tty!Next]_Tty!vars PROVE TtyInv' OBVIOUS
    <2>1. CASE UNCHANGED Tty!vars
      BY <2>1 DEF Tty!vars, TtyInv, TtyTypes, Counted, NoneLeft, Taking, AllUp, Tty!PoppedOne
    <2>2. CASE \E c \in IF raw THEN RawKey ELSE Key : Tty!ttyinput(c)
      <3>1. RawKey \subseteq Key BY KernelPartsAssumption DEF KernelPartsAssumption, Tty!TtyAssumption
      <3> QED BY <2>2, <3>1, TypedKeeps
    <2> QED
      BY <2>1, <2>2, ReadKeeps, CanonKeeps, ScanKeeps, PoppedKeeps, DeliverKeeps, OutKeeps, StartModeKeeps,
        ModeKeeps DEF Tty!Next
  <1>3. TtyInv => Attended BY TtyInvHolds DEF Attended
  <1> QED BY <1>1, <1>2, <1>3, PTL DEF Tty!Spec

----
(* sleep(2).  No number of sleepers, and no lengths of their naps, lets    *)
(* one oversleep.                                                          *)
TimesOK ==
    /\ sysclock \in Nat /\ tout \in Nat
    /\ napping \in [Napper -> {"user", "asleep", "woken"}]
    /\ deadline \in [Napper -> Nat]

LEMMA NapsKnown == Naps \subseteq Nat /\ MaxTime \in Nat
  BY KernelPartsAssumption DEF KernelPartsAssumption, Sleep!SleepAssumption

(* The clock, tout and the deadlines stay numbers, and a sleeper is asleep *)
(* or woken.                                                               *)
THEOREM TimesCorrect == Sleep!Spec => []TimesOK
  <1>1. Sleep!Init => TimesOK BY DEF Sleep!Init, TimesOK
  <1>2. TimesOK /\ [Sleep!Next]_Sleep!vars => TimesOK'
    <2> SUFFICES ASSUME TimesOK, [Sleep!Next]_Sleep!vars PROVE TimesOK' OBVIOUS
    <2> USE NapsKnown DEF TimesOK
    <2>1. CASE Sleep!Second BY <2>1 DEF Sleep!Second, Sleep!Woken
    <2>2. ASSUME NEW t \in 0..MaxTime, Sleep!stime(t) PROVE TimesOK' BY <2>2 DEF Sleep!stime, Sleep!Woken
    <2>3. ASSUME NEW p \in Napper, Sleep!Sleeper(p) PROVE TimesOK'
      <3>1. ASSUME NEW e \in Nat, Sleep!Wait(p, e) PROVE TimesOK' BY <3>1 DEF Sleep!Wait
      <3>2. CASE Sleep!Again(p) BY <3>1, <3>2 DEF Sleep!Again
      <3>3. CASE Sleep!Signal(p) BY <3>3 DEF Sleep!Signal
      <3>4. ASSUME NEW n \in Naps, Sleep!sslep(p, n) PROVE TimesOK'
        <4>1. sysclock + n \in Nat OBVIOUS
        <4>2. QED BY <3>1, <3>4, <4>1 DEF Sleep!sslep
      <3>5. QED BY <2>3, <3>2, <3>3, <3>4 DEF Sleep!Sleeper
    <2>4. CASE UNCHANGED Sleep!vars BY <2>4 DEF Sleep!vars
    <2>5. QED BY <2>1, <2>2, <2>3, <2>4 DEF Sleep!Next
  <1>3. QED BY <1>1, <1>2, PTL DEF Sleep!Spec

(* sslep, the clock and stime: a process asleep on tout is always woken    *)
(* before its time is past.  The second that tout names wakes all; one     *)
(* that it does not leaves tout ahead; and whoever sets tout sets it no    *)
(* later than it was, unless it was past and nobody slept.                 *)
THEOREM SleepersSafe == Sleep!Spec => []NoOversleep
  <1>1. Sleep!Init => Sleep!NoOversleep BY DEF Sleep!Init, Sleep!NoOversleep
  <1>2. TimesOK /\ Sleep!NoOversleep /\ [Sleep!Next]_Sleep!vars => Sleep!NoOversleep'
    <2> SUFFICES ASSUME TimesOK, Sleep!NoOversleep, [Sleep!Next]_Sleep!vars,
                        NEW q \in Napper, napping'[q] = "asleep"
                 PROVE  sysclock' < tout' /\ tout' <= deadline'[q] BY DEF Sleep!NoOversleep
    <2> USE NapsKnown DEF TimesOK
    <2>1. CASE Sleep!Second
      <3>1. sysclock' # tout /\ napping[q] = "asleep" BY <2>1 DEF Sleep!Second, Sleep!Woken
      <3>2. sysclock < tout /\ tout <= deadline[q] BY <3>1 DEF Sleep!NoOversleep
      <3>3. QED BY <2>1, <3>1, <3>2 DEF Sleep!Second
    <2>2. ASSUME NEW t \in 0..MaxTime, Sleep!stime(t) PROVE FALSE BY <2>2 DEF Sleep!stime, Sleep!Woken
    <2>3. ASSUME NEW p \in Napper, Sleep!Sleeper(p) PROVE sysclock' < tout' /\ tout' <= deadline'[q]
      <3>1. ASSUME NEW e \in Nat, Sleep!Wait(p, e), napping[p] # "asleep"
            PROVE  sysclock' < tout' /\ tout' <= deadline'[q]
        <4>1. CASE q = p BY <3>1, <4>1 DEF Sleep!Wait, Sleep!MustSet
        <4>2. CASE q # p
          <5>1. napping[q] = "asleep" /\ deadline'[q] = deadline[q] BY <3>1, <4>2 DEF Sleep!Wait
          <5>2. sysclock < tout /\ tout <= deadline[q] BY <5>1 DEF Sleep!NoOversleep
          <5>3. QED BY <3>1, <5>1, <5>2 DEF Sleep!Wait, Sleep!MustSet
        <4>3. QED BY <4>1, <4>2
      <3>2. CASE Sleep!Again(p) BY <3>1, <3>2 DEF Sleep!Again
      <3>3. CASE Sleep!Signal(p) BY <3>3 DEF Sleep!Signal, Sleep!NoOversleep
      <3>4. ASSUME NEW n \in Naps, Sleep!sslep(p, n) PROVE sysclock' < tout' /\ tout' <= deadline'[q]
        <4>1. sysclock + n \in Nat OBVIOUS
        <4>2. QED BY <3>1, <3>4, <4>1 DEF Sleep!sslep
      <3>5. QED BY <2>3, <3>2, <3>3, <3>4 DEF Sleep!Sleeper
    <2>4. CASE UNCHANGED Sleep!vars BY <2>4 DEF Sleep!vars, Sleep!NoOversleep
    <2>5. QED BY <2>1, <2>2, <2>3, <2>4 DEF Sleep!Next
  <1>3. Sleep!NoOversleep => NoOversleep BY DEF NoOversleep
  <1>4. QED BY <1>1, <1>2, <1>3, TimesCorrect, PTL DEF Sleep!Spec

----
(* The resource map.  What ResourceMapProofs proves of the module holds of *)
(* its instance here.                                                      *)
MP == INSTANCE ResourceMapProofs WITH Sizes <- AreaSizes

(* The array has two cells more than there are areas given out: mfree does *)
(* not look at its size.                                                   *)
CellsLeft == Cardinality(areas) + 2 <= CELLS

LEMMA SameMap ==
    /\ (Map!Init <=> MP!Init) /\ (Map!Next <=> MP!Next)
    /\ (Map!FirstFit <=> MP!FirstFit) /\ (MP!Fits <=> CellsLeft)
    /\ Map!MapAssumption => MP!MapAssumption
  <1>1. Map!MapAssumption => MP!MapAssumption BY DEF Map!MapAssumption, MP!MapAssumption
  <1>2. Map!Init <=> MP!Init BY DEF Map!Init, MP!Init, Map!Area, MP!Area
  <1>3. MP!Fits <=> CellsLeft BY DEF MP!Fits, CellsLeft, MP!Cardinality, Cardinality
  <1>4. Map!Next <=> MP!Next
    BY DEF Map!Next, MP!Next, Map!Malloc, MP!Malloc, Map!Mfree, MP!Mfree, Map!Donate, MP!Donate, Map!Roomy,
      MP!Roomy, Map!First, MP!First, Map!Cut, MP!Cut, Map!Closed, MP!Closed, Map!Place, MP!Place, Map!Opened,
      MP!Opened, Map!Returned, MP!Returned, Map!LeastOf, MP!LeastOf, Map!End, MP!End, Map!Live, MP!Live,
      Map!Area, MP!Area
  <1>5. Map!FirstFit <=> MP!FirstFit
    BY DEF Map!FirstFit, MP!FirstFit, Map!Run, MP!Run, Map!Given, MP!Given, Map!FreeUnits, MP!FreeUnits,
      Map!Roomy, MP!Roomy, Map!First, MP!First, Map!Cardinality, MP!Cardinality, Map!LeastOf, MP!LeastOf,
      Map!End, MP!End, Map!Live, MP!Live
  <1> QED BY <1>1, <1>2, <1>3, <1>4, <1>5

(* Whatever is asked for, given back and split in any order, the areas of  *)
(* coremap and swapmap (MALLOC.C) are the runs of free units, each unit    *)
(* free or in one area, and a request gets the lowest run with room, while *)
(* the array has cells left.                                               *)
THEOREM UnitsNeverTwice == Map!Spec /\ []CellsLeft => []UnitsOnce
  <1>1. Map!MapAssumption BY KernelPartsAssumption DEF KernelPartsAssumption
  <1>2. MP!MapAssumption BY <1>1, SameMap
  <1>3. MP!Spec /\ []MP!Fits => []MP!FirstFit BY <1>2, MP!MapIsFirstFit
  <1>4. Map!Spec /\ []CellsLeft => MP!Spec /\ []MP!Fits
    <2>1. (Map!Init => MP!Init) /\ ([Map!Next]_Map!vars => [MP!Next]_MP!vars) /\ (CellsLeft => MP!Fits)
      BY SameMap DEF Map!vars, MP!vars
    <2> QED BY <2>1, PTL DEF Map!Spec, MP!Spec
  <1>5. MP!FirstFit => UnitsOnce BY SameMap DEF UnitsOnce
  <1> QED BY <1>3, <1>4, <1>5, PTL

----
(* Files' blocks.  What FileBlocksProofs proves of the module holds of its *)
(* instance here.                                                          *)
FB == INSTANCE FileBlocksProofs WITH
    Proc <- Filer, File <- DiskFile, Bns <- FileBlock, MaxCalls <- MaxMoved,
    addr <- iaddr, u <- mover, calls <- moved

LEMMA SameUnder ==
    \A f, i : DiskBlocks!Under(f, i) = FB!Under(f, i)
  <1>1. \A s : DiskBlocks!FlattenSeq(s) = FB!FlattenSeq(s) BY DEF DiskBlocks!FlattenSeq, FB!FlattenSeq
  <1>2. \A b : DiskBlocks!Words(b) = FB!Words(b) BY <1>1 DEF DiskBlocks!Words, FB!Words
  <1>3. \A i, b : DiskBlocks!Below(i, b) = FB!Below(i, b) BY <1>2 DEF DiskBlocks!Below, FB!Below
  <1>4. ASSUME NEW f, NEW i PROVE DiskBlocks!Under(f, i) = FB!Under(f, i)
    <2>1. \A a : DiskBlocks!FlattenSeq([k \in 1..NINDIR |-> IF store[a][NINDIR - k] = 0 THEN <<>> ELSE DiskBlocks!Below(i, store[a][NINDIR - k])])
                = FB!FlattenSeq([k \in 1..NINDIR |-> IF store[a][NINDIR - k] = 0 THEN <<>> ELSE FB!Below(i, store[a][NINDIR - k])])
      BY <1>1, <1>3
    <2> QED BY <2>1 DEF DiskBlocks!Under, FB!Under
  <1> QED BY <1>4

LEMMA SamePlaces ==
    /\ DiskBlocks!InList = FB!InList /\ DiskBlocks!InHand = FB!InHand
    /\ \A f : DiskBlocks!InFile(f) = FB!InFile(f)
    /\ \A s : DiskBlocks!Some(s) = FB!Some(s)
  <1>1. DiskBlocks!InList = FB!InList
    <2>1. DiskBlocks!Holder = FB!Holder BY DEF DiskBlocks!Holder, FB!Holder
    <2> QED BY <2>1 DEF DiskBlocks!InList, FB!InList
  <1>2. DiskBlocks!InHand = FB!InHand BY DEF DiskBlocks!InHand, FB!InHand, DiskBlocks!Returns, FB!Returns
  <1>3. \A s : DiskBlocks!Some(s) = FB!Some(s) BY DEF DiskBlocks!Some, FB!Some
  <1>4. ASSUME NEW f PROVE DiskBlocks!InFile(f) = FB!InFile(f)
    BY DEF DiskBlocks!InFile, FB!InFile, DiskBlocks!Freeing, FB!Freeing, DiskBlocks!Some, FB!Some,
      DiskBlocks!Inside, FB!Inside, DiskBlocks!Held, FB!Held, DiskBlocks!Zeros, FB!Zeros
  <1> QED BY <1>1, <1>2, <1>3, <1>4

(* Step by step: the instances are of one module.                          *)
LEMMA SameStep ==
    ASSUME NEW p \in Filer, DiskBlocks!Step(p) PROVE FB!Step(p)
  <1> USE DEF DiskBlocks!At, FB!At, DiskBlocks!Goes, FB!Goes, DiskBlocks!To, FB!To,
              DiskBlocks!disk, FB!disk, DiskBlocks!Idle, FB!Idle, DiskBlocks!NoFile, FB!NoFile,
              DiskBlocks!Zeros, FB!Zeros
  <1>1. DiskBlocks!alloc(p) => FB!alloc(p)
    BY DEF DiskBlocks!alloc, FB!alloc, DiskBlocks!Last, FB!Last, DiskBlocks!Front, FB!Front
  <1>2. DiskBlocks!Reload(p) => FB!Reload(p) BY DEF DiskBlocks!Reload, FB!Reload
  <1>3. DiskBlocks!free(p) => FB!free(p) BY DEF DiskBlocks!free, FB!free
  <1>4. DiskBlocks!Spill(p) => FB!Spill(p) BY DEF DiskBlocks!Spill, FB!Spill
  <1>5. DiskBlocks!Spilled(p) => FB!Spilled(p) BY DEF DiskBlocks!Spilled, FB!Spilled
  <1>6. DiskBlocks!Small(p) => FB!Small(p) BY DEF DiskBlocks!Small, FB!Small
  <1>7. DiskBlocks!Convert(p) => FB!Convert(p) BY DEF DiskBlocks!Convert, FB!Convert
  <1>8. DiskBlocks!Large(p) => FB!Large(p)
    BY DEF DiskBlocks!Large, FB!Large, DiskBlocks!Index, FB!Index, DiskBlocks!Double, FB!Double
  <1>9. DiskBlocks!Indirect(p) => FB!Indirect(p)
    BY DEF DiskBlocks!Indirect, FB!Indirect, DiskBlocks!Index, FB!Index, DiskBlocks!Double, FB!Double
  <1>10. DiskBlocks!DoubleFetch(p) => FB!DoubleFetch(p)
    BY DEF DiskBlocks!DoubleFetch, FB!DoubleFetch, DiskBlocks!Table, FB!Table, DiskBlocks!Slot2, FB!Slot2
  <1>11. DiskBlocks!Second(p) => FB!Second(p)
    BY DEF DiskBlocks!Second, FB!Second, DiskBlocks!Table, FB!Table, DiskBlocks!Slot2, FB!Slot2
  <1>12. DiskBlocks!Single(p) => FB!Single(p)
    BY DEF DiskBlocks!Single, FB!Single, DiskBlocks!Table, FB!Table
  <1>13. DiskBlocks!Data(p) => FB!Data(p) BY DEF DiskBlocks!Data, FB!Data, DiskBlocks!Table, FB!Table
  <1>14. DiskBlocks!Trunc(p) => FB!Trunc(p) BY SameUnder DEF DiskBlocks!Trunc, FB!Trunc
  <1>15. \A l : DiskBlocks!NoSpace(p, l) => FB!NoSpace(p, l) BY DEF DiskBlocks!NoSpace, FB!NoSpace
  <1>16. \A f : DiskBlocks!itrunc(p, f) => FB!itrunc(p, f)
    BY SameUnder DEF DiskBlocks!itrunc, FB!itrunc, DiskBlocks!Busy, FB!Busy
  <1>17. \A f, n : DiskBlocks!writei(p, f, n) => FB!writei(p, f, n)
    BY DEF DiskBlocks!writei, FB!writei, DiskBlocks!Busy, FB!Busy
  <1> QED
    BY <1>1, <1>2, <1>3, <1>4, <1>5, <1>6, <1>7, <1>8, <1>9, <1>10, <1>11, <1>12, <1>13, <1>14, <1>15, <1>16, <1>17
    DEF DiskBlocks!Step, FB!Step, DiskBlocks!Returns, FB!Returns

LEMMA SameBlocks ==
    /\ DiskBlocks!BlocksAssumption => FB!BlocksAssumption
    /\ DiskBlocks!Init => FB!Init
    /\ DiskBlocks!Next => FB!Next
    /\ FB!EachOnce => DiskBlocks!EachOnce
  <1>1. DiskBlocks!BlocksAssumption => FB!BlocksAssumption
    BY DEF DiskBlocks!BlocksAssumption, FB!BlocksAssumption
  <1>2. DiskBlocks!Init => FB!Init
    BY DEF DiskBlocks!Init, FB!Init, DiskBlocks!Block, FB!Block, DiskBlocks!Idle, FB!Idle, DiskBlocks!NoFile,
      FB!NoFile, DiskBlocks!Zeros, FB!Zeros
  <1>3. DiskBlocks!Next => FB!Next BY SameStep DEF DiskBlocks!Next, FB!Next
  <1>4. \A S : DiskBlocks!Cardinality(S) = FB!Cardinality(S) BY DEF DiskBlocks!Cardinality, FB!Cardinality
  <1>5. FB!EachOnce => DiskBlocks!EachOnce
    BY <1>4, SamePlaces DEF DiskBlocks!EachOnce, FB!EachOnce, DiskBlocks!Block, FB!Block
  <1> QED BY <1>1, <1>2, <1>3, <1>5

(* However processes write files and truncate them, each giving way to the *)
(* others in the middle of alloc or free (ALLOC.C), bmap (SUBR.C) or       *)
(* itrunc (IGET.C), no block of any device is lost and none is given       *)
(* twice.                                                                  *)
THEOREM BlocksNeverTwice == DiskBlocks!Spec => []EachOnce
  <1>1. FB!BlocksAssumption BY KernelPartsAssumption, SameBlocks DEF KernelPartsAssumption
  <1>2. FB!Spec => []FB!EachOnce BY <1>1, FB!BlocksOnce
  <1>3. DiskBlocks!Spec => FB!Spec
    <2>1. (DiskBlocks!Init => FB!Init) /\ ([DiskBlocks!Next]_DiskBlocks!vars => [FB!Next]_FB!vars)
      BY SameBlocks DEF DiskBlocks!vars, FB!vars
    <2> QED BY <2>1, PTL DEF DiskBlocks!Spec, FB!Spec
  <1>4. FB!EachOnce => EachOnce BY SameBlocks DEF EachOnce
  <1> QED BY <1>2, <1>3, <1>4, PTL
===============================================================================
