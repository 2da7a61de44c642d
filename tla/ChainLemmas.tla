----------------------------- MODULE ChainLemmas ------------------------------
(***************************************************************************)
(* What appending, unlinking and taking the head do to a chain, in terms   *)
(* of its set of elements: the proofs about the components use nothing     *)
(* else of sequences.  And the least element of a set of numbers, which    *)
(* first fit takes.                                                        *)
(***************************************************************************)
EXTENDS Chain, FiniteSetTheorems, WellFoundedInduction, TLAPS

(* The elements of a chain are in the set it is over, and only the empty   *)
(* chain has none.                                                         *)
LEMMA ChainRange ==
    ASSUME NEW S, NEW s, IsChain(s, S)
    PROVE  /\ Range(s) \subseteq S
           /\ s = <<>> <=> Range(s) = {}
  <1>1. Len(s) \in Nat /\ DOMAIN s = 1 .. Len(s) /\ \A i \in DOMAIN s : s[i] \in S
    BY DEF IsChain
  <1>2. ASSUME s # <<>> PROVE s[1] \in Range(s)
    <2>1. 1 \in DOMAIN s
      BY <1>1, <1>2 DEF IsChain
    <2> QED
      BY <2>1 DEF Range
  <1>3. ASSUME s = <<>> PROVE Range(s) = {}
    BY <1>3 DEF Range
  <1> QED
    BY <1>1, <1>2, <1>3 DEF Range

(* A chain grows by one element at its end. *)
LEMMA ChainAppend ==
    ASSUME NEW S, NEW s, IsChain(s, S), NEW x \in S, x \notin Range(s)
    PROVE  /\ IsChain(Append(s, x), S)
           /\ Range(Append(s, x)) = Range(s) \cup {x}
           /\ Append(s, x) # <<>>
  <1> DEFINE t == Append(s, x)
  <1>1. /\ t \in Seq(S) /\ Len(t) = Len(s) + 1 /\ Len(s) \in Nat
        /\ DOMAIN t = 1 .. Len(s) + 1 /\ DOMAIN s = 1 .. Len(s)
        /\ \A i \in 1 .. Len(s) : t[i] = s[i]
        /\ t[Len(s) + 1] = x
    BY DEF IsChain
  <1>2. \A i \in DOMAIN s : s[i] # x
    BY DEF Range
  <1>3. IsInjective(t)
    BY <1>1, <1>2 DEF IsChain, IsInjective
  <1>4. Range(t) = Range(s) \cup {x}
    BY <1>1 DEF Range
  <1> QED
    BY <1>1, <1>3, <1>4 DEF IsChain

(* The head leaves, the rest stay. *)
LEMMA ChainTail ==
    ASSUME NEW S, NEW s, IsChain(s, S), s # <<>>
    PROVE  /\ Head(s) \in Range(s)
           /\ IsChain(Tail(s), S)
           /\ Range(Tail(s)) = Range(s) \ {Head(s)}
  <1> DEFINE t == Tail(s)
  <1>1. /\ t \in Seq(S) /\ Len(s) \in Nat \ {0} /\ Len(t) = Len(s) - 1
        /\ DOMAIN t = 1 .. Len(s) - 1 /\ DOMAIN s = 1 .. Len(s)
        /\ \A i \in 1 .. Len(s) - 1 : t[i] = s[i + 1]
        /\ Head(s) = s[1]
    BY DEF IsChain
  <1>2. IsInjective(t)
    BY <1>1 DEF IsChain, IsInjective
  <1>3. Range(t) = Range(s) \ {s[1]}
    <2>1. \A i \in 2 .. Len(s) : s[i] # s[1]
      BY <1>1 DEF IsChain, IsInjective
    <2>2. \A i \in 2 .. Len(s) : i - 1 \in DOMAIN t /\ t[i - 1] = s[i]
      BY <1>1
    <2>3. \A i \in DOMAIN t : i + 1 \in 2 .. Len(s) /\ t[i] = s[i + 1]
      BY <1>1
    <2>4. \A i \in DOMAIN s : i = 1 \/ i \in 2 .. Len(s)
      BY <1>1
    <2> HIDE DEF t
    <2>5. Range(t) \subseteq Range(s) \ {s[1]}
      BY <1>1, <2>1, <2>3 DEF Range
    <2>6. Range(s) \ {s[1]} \subseteq Range(t)
      <3> SUFFICES ASSUME NEW i \in DOMAIN s, s[i] # s[1]
                   PROVE  \E j \in DOMAIN t : t[j] = s[i]
        BY DEF Range
      <3> QED
        BY <2>2, <2>4
    <2> QED
      BY <2>5, <2>6
  <1>4. Head(s) \in Range(s)
    <2>1. 1 \in DOMAIN s
      BY <1>1
    <2> QED
      BY <1>1, <2>1 DEF Range
  <1> QED
    BY <1>1, <1>2, <1>3, <1>4 DEF IsChain

(* One element leaves from anywhere, the rest stay. *)
LEMMA ChainWithout ==
    ASSUME NEW S, NEW s, IsChain(s, S), NEW x \in Range(s)
    PROVE  /\ IsChain(Without(s, x), S)
           /\ Range(Without(s, x)) = Range(s) \ {x}
  <1> DEFINE k == CHOOSE i \in DOMAIN s : s[i] = x
             t == [i \in 1 .. Len(s) - 1 |-> IF i < k THEN s[i] ELSE s[i + 1]]
  <1>1. /\ Len(s) \in Nat /\ DOMAIN s = 1 .. Len(s)
        /\ \A i \in DOMAIN s : s[i] \in S
        /\ \A i, j \in DOMAIN s : s[i] = s[j] => i = j
    BY DEF IsChain, IsInjective
  <1>2. k \in 1 .. Len(s) /\ s[k] = x
    BY <1>1 DEF Range
  <1> HIDE DEF k
  <1>3. DOMAIN t = 1 .. Len(s) - 1 /\ t \in Seq(S)
    <2>1. Len(s) - 1 \in Nat
      BY <1>1, <1>2
    <2>2. t \in [1 .. Len(s) - 1 -> S]
      BY <1>1, <1>2
    <2> QED
      BY <2>1, <2>2
  <1>4. \A i \in DOMAIN t : t[i] \in Range(s) /\ t[i] # x
    BY <1>1, <1>2, <1>3 DEF Range
  <1>5. IsInjective(t)
    BY <1>1, <1>2, <1>3 DEF IsInjective
  <1>6. \A y \in Range(s) : y # x => y \in Range(t)
    <2> SUFFICES ASSUME NEW i \in DOMAIN s, s[i] # x
                 PROVE  \E j \in DOMAIN t : t[j] = s[i]
      BY DEF Range
    <2>1. CASE i < k
      BY <2>1, <1>1, <1>2, <1>3
    <2>2. CASE i > k
      <3>1. i - 1 \in DOMAIN t /\ ~(i - 1 < k) /\ (i - 1) + 1 = i
        BY <2>2, <1>1, <1>2, <1>3
      <3>2. t[i - 1] = s[i]
        BY <3>1
      <3> QED
        BY <3>1, <3>2
    <2> QED
      BY <2>1, <2>2, <1>1, <1>2
  <1>7. Range(t) = Range(s) \ {x}
    BY <1>4, <1>6 DEF Range
  <1>8. Without(s, x) = t
    BY DEF Without, k
  <1> QED
    BY <1>3, <1>5, <1>7, <1>8 DEF IsChain
(* A set of numbers up to n has a least one: the one with the fewest below *)
(* it.                                                                     *)
LEMMA LeastExists ==
    ASSUME NEW n \in Nat, NEW Q, Q \subseteq 1 .. n, Q # {}
    PROVE  \E k \in Q : \A j \in Q : k <= j
  <1> DEFINE Below(k) == 1 .. k
             T == {Below(k) : k \in Q}
  <1>1. IsFiniteSet(1 .. n)
    BY FS_Interval
  <1>2. IsWellFoundedOn(StrictSubsetOrdering(1 .. n), SUBSET (1 .. n))
    BY <1>1, FS_StrictSubsetOrderingWellFounded, FS_FiniteSubsetsOfFinite
  <1>3. T \subseteq SUBSET (1 .. n) /\ T # {}
    <2>1. \A k \in Q : Below(k) \subseteq 1 .. n
      OBVIOUS
    <2> HIDE DEF Below
    <2> QED
      BY <2>1
  <1>4. PICK s \in T : \A t \in T : <<t, s>> \notin StrictSubsetOrdering(1 .. n)
    BY <1>2, <1>3, WFMin
  <1>5. PICK k \in Q : s = Below(k)
    BY <1>4
  <1>6. ASSUME NEW j \in Q, j < k PROVE FALSE
    <2>1. Below(j) \subseteq Below(k) /\ Below(j) # Below(k)
      <3>1. k \in Below(k) /\ k \notin Below(j)
        BY <1>6
      <3>2. Below(j) \subseteq Below(k)
        BY <1>6
      <3> QED
        BY <3>1, <3>2
    <2>2. Below(j) \in T /\ Below(j) \in SUBSET (1 .. n) /\ Below(k) \in SUBSET (1 .. n)
      BY <1>3
    <2>3. <<Below(j), Below(k)>> \in StrictSubsetOrdering(1 .. n)
      BY <2>1, <2>2 DEF StrictSubsetOrdering
    <2> QED
      BY <1>4, <1>5, <2>2, <2>3
  <1>7. \A j \in Q : k <= j
    BY <1>6
  <1> QED
    BY <1>7
===============================================================================
