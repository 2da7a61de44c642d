--------------------------- MODULE ResourceMapProofs ---------------------------
(***************************************************************************)
(* coremap and swapmap are the set of free units under first fit, for any  *)
(* memory, any requests and any order of them, as long as the array has a  *)
(* cell to spare: there may be one more free area than allocated ones, and *)
(* the terminator.                                                         *)
(***************************************************************************)
EXTENDS ResourceMap, ChainLemmas, FunctionTheorems, FiniteSetTheorems, TLAPS

-------------------------------------------------------------------------------
(* Least elements. *)

(* LeastOf is that one. *)
LEMMA LeastOfIs ==
    ASSUME NEW Q \in SUBSET Int, NEW k \in Q, \A j \in Q : k <= j PROVE LeastOf(Q) = k
  <1>1. \A i \in Q : (\A j \in Q : i <= j) => i = k OBVIOUS
  <1> QED BY <1>1 DEF LeastOf

(* LeastOf of a set of numbers that has a bound is its least member. *)
LEMMA LeastOfBelow ==
    ASSUME NEW n \in Nat, NEW Q, Q \subseteq 1 .. n, Q # {}
    PROVE  LeastOf(Q) \in Q /\ \A j \in Q : LeastOf(Q) <= j BY LeastExists DEF LeastOf

-------------------------------------------------------------------------------
(* The array as a list of areas. *)

Cell == [addr : Nat, size : Nat]

(* m has its terminator at e: areas before it, in order and apart, nothing *)
(* behind.                                                                 *)
Good(m, e) ==
    /\ m \in [1 .. CELLS -> Cell] /\ e \in 1 .. CELLS
    /\ \A k \in 1 .. e - 1 : m[k].size > 0
    /\ \A k \in e .. CELLS : m[k].size = 0
    /\ \A j, k \in 1 .. e - 1 : j < k => m[j].addr + m[j].size < m[k].addr

In(u, a, n) == a <= u /\ u < a + n

(* Unit u is in one of the areas. *)
Covers(m, e, u) == \E k \in 1 .. e - 1 : In(u, m[k].addr, m[k].size)

(* The model's End is the place of the terminator. *)
LEMMA EndIs ==
    ASSUME CELLS \in Nat, NEW e, Good(map, e) PROVE End = e
  <1> DEFINE Q == {k \in 1 .. CELLS : map[k].size = 0}
  <1>1. e \in Q /\ Q \in SUBSET Int BY DEF Good
  <1>2. \A j \in Q : e <= j BY DEF Good
  <1> HIDE DEF Q
  <1>3. LeastOf(Q) = e BY <1>1, <1>2, LeastOfIs
  <1> QED BY <1>3 DEF End, Q

-------------------------------------------------------------------------------
(* What malloc and mfree do to the array. *)

(* The array after cell k has lost or won n units at its low end, won them *)
(* at its high end, gone, or been displaced by a new area.                 *)
CutAt(m, k, n)   == [m EXCEPT ![k] = Area(m[k].addr + n, m[k].size - n)]
RaisedAt(m, i, n)  == [m EXCEPT ![i].size = @ + n]
LoweredAt(m, k, n) == [m EXCEPT ![k] = Area(m[k].addr - n, m[k].size + n)]
ClosedAt(m, e, k) == [j \in 1 .. CELLS |-> IF j \in k .. e - 1 THEN m[j + 1] ELSE m[j]]
OpenedAt(m, e, k, a, n) ==
    [j \in 1 .. CELLS |-> CASE j = k            -> Area(a, n)
                            [] j \in k + 1 .. e -> m[j - 1]
                            [] OTHER            -> m[j]]

(* The areas of the array have numbers. *)
LEMMA AreasTyped ==
    ASSUME CELLS \in Nat, NEW m, NEW e, Good(m, e)
    PROVE  /\ e \in Nat /\ e >= 1 /\ e <= CELLS
           /\ \A j \in 1 .. e - 1 : /\ j \in 1 .. CELLS
                                    /\ m[j].addr \in Nat /\ m[j].size \in Nat /\ m[j].size > 0
  BY DEF Good, Cell

(* No unit is in two areas. *)
LEMMA AreasApart ==
    ASSUME CELLS \in Nat, NEW m, NEW e, Good(m, e), NEW j \in 1 .. e - 1, NEW k \in 1 .. e - 1,
           NEW u \in Int, In(u, m[j].addr, m[j].size), In(u, m[k].addr, m[k].size)
    PROVE  j = k
  <1> DEFINE a == m[j].addr
             s == m[j].size
             b == m[k].addr
             z == m[k].size
  <1>1. j = k \/ a + s < b \/ b + z < a BY DEF Good
  <1>2. a \in Nat /\ s \in Nat /\ b \in Nat /\ z \in Nat BY DEF Good, Cell
  <1>3. a <= u /\ u < a + s /\ b <= u /\ u < b + z BY DEF In
  <1> HIDE DEF a, s, b, z
  <1> QED BY <1>1, <1>2, <1>3

(* An area loses its first n units and keeps some. *)
LEMMA CutGood ==
    ASSUME CELLS \in Nat, NEW m, NEW e, Good(m, e), NEW k \in 1 .. e - 1,
           NEW n \in Nat, 0 < n, n < m[k].size
    PROVE  /\ Good(CutAt(m, k, n), e)
           /\ \A u \in Int : Covers(CutAt(m, k, n), e, u) <=> Covers(m, e, u) /\ ~In(u, m[k].addr, n)
  <1> SUFFICES ASSUME NEW w, w = CutAt(m, k, n)
               PROVE  /\ Good(w, e)
                   /\ \A u \in Int : Covers(w, e, u) <=> Covers(m, e, u) /\ ~In(u, m[k].addr, n)
    OBVIOUS
  <1> USE DEF CutAt
  <1>1. e \in Nat /\ e <= CELLS /\ k \in 1 .. CELLS /\ k < e BY DEF Good
  <1>2. \A j \in 1 .. CELLS : m[j] \in Cell /\ m[j].addr \in Nat /\ m[j].size \in Nat
    BY DEF Good, Cell
  <1>3. /\ w[k].addr = m[k].addr + n /\ w[k].size = m[k].size - n
        /\ \A j \in 1 .. CELLS \ {k} : w[j] = m[j] BY <1>1 DEF Good, Area
  <1>4. w \in [1 .. CELLS -> Cell]
    <2>1. Area(m[k].addr + n, m[k].size - n) \in Cell BY <1>1, <1>2 DEF Area, Cell
    <2> QED BY <2>1 DEF Good
  <1>5. \A j \in 1 .. e - 1 : w[j].size > 0 BY <1>1, <1>2, <1>3 DEF Good
  <1>6. \A j \in e .. CELLS : w[j].size = 0 BY <1>1, <1>2, <1>3 DEF Good
  <1>7. \A i, j \in 1 .. e - 1 : i < j => w[i].addr + w[i].size < w[j].addr
    <2> SUFFICES ASSUME NEW i \in 1 .. e - 1, NEW j \in 1 .. e - 1, i < j
                 PROVE  w[i].addr + w[i].size < w[j].addr OBVIOUS
    <2>1. m[i].addr + m[i].size < m[j].addr BY DEF Good
    <2>2. i \in 1 .. CELLS /\ j \in 1 .. CELLS BY <1>1
    <2>3. w[i].addr + w[i].size = m[i].addr + m[i].size BY <1>1, <1>2, <1>3, <2>2
    <2>4. w[j].addr >= m[j].addr /\ w[j].addr \in Nat BY <1>1, <1>2, <1>3, <2>2
    <2> QED BY <1>2, <2>1, <2>2, <2>3, <2>4
  <1>8. ASSUME NEW u \in Int
        PROVE  Covers(w, e, u) <=> Covers(m, e, u) /\ ~In(u, m[k].addr, n)
    <2>1. \A j \in 1 .. e - 1 : j # k =>
             /\ In(u, w[j].addr, w[j].size) <=> In(u, m[j].addr, m[j].size)
             /\ In(u, m[j].addr, m[j].size) => ~In(u, m[k].addr, n)
      <3> SUFFICES ASSUME NEW j \in 1 .. e - 1, j # k
                   PROVE  /\ In(u, w[j].addr, w[j].size) <=> In(u, m[j].addr, m[j].size)
                          /\ In(u, m[j].addr, m[j].size) => ~In(u, m[k].addr, n) OBVIOUS
      <3>1. j \in 1 .. CELLS /\ w[j] = m[j] BY <1>1, <1>3
      <3>2. m[j].addr + m[j].size < m[k].addr \/ m[k].addr + m[k].size < m[j].addr
        BY <1>1 DEF Good
      <3> QED BY <1>1, <1>2, <3>1, <3>2 DEF In
    <2>2. In(u, w[k].addr, w[k].size) <=> In(u, m[k].addr, m[k].size) /\ ~In(u, m[k].addr, n)
      BY <1>1, <1>2, <1>3 DEF In
    <2> QED BY <2>1, <2>2 DEF Covers
  <1> QED BY <1>1, <1>4, <1>5, <1>6, <1>7, <1>8 DEF Good

(* Cell k goes, and its units. *)
LEMMA ClosedGood ==
    ASSUME CELLS \in Nat, NEW m, NEW e, Good(m, e), NEW k \in 1 .. e - 1
    PROVE  /\ Good(ClosedAt(m, e, k), e - 1)
           /\ \A u \in Int : Covers(ClosedAt(m, e, k), e - 1, u) <=>
                                Covers(m, e, u) /\ ~In(u, m[k].addr, m[k].size)
  <1> SUFFICES ASSUME NEW w, w = ClosedAt(m, e, k)
               PROVE  /\ Good(w, e - 1)
                   /\ \A u \in Int : Covers(w, e - 1, u) <=>
                                        Covers(m, e, u) /\ ~In(u, m[k].addr, m[k].size)
    OBVIOUS
  <1> USE DEF ClosedAt
  <1>1. e \in Nat /\ e <= CELLS /\ k \in 1 .. CELLS /\ k < e BY DEF Good
  <1>2. \A j \in 1 .. CELLS : m[j] \in Cell /\ m[j].addr \in Nat /\ m[j].size \in Nat
    BY DEF Good, Cell
  <1>3. \A j \in 1 .. CELLS : w[j] = m[IF j \in k .. e - 1 THEN j + 1 ELSE j] BY <1>1
  <1> DEFINE Old(j) == IF j < k THEN j ELSE j + 1
  <1>4. \A j \in 1 .. e - 2 : /\ j \in 1 .. CELLS /\ w[j] = m[Old(j)]
                              /\ Old(j) \in 1 .. e - 1 /\ Old(j) # k BY <1>1, <1>3
  <1>5. \A i, j \in 1 .. e - 2 : i < j => Old(i) < Old(j) BY <1>1
  <1>6. \A i \in 1 .. e - 1 : i # k => \E j \in 1 .. e - 2 : Old(j) = i
    <2> SUFFICES ASSUME NEW i \in 1 .. e - 1, i # k PROVE \E j \in 1 .. e - 2 : Old(j) = i
      OBVIOUS
    <2>1. CASE i < k BY <1>1, <2>1
    <2>2. CASE i > k
      <3>1. i - 1 \in 1 .. e - 2 /\ Old(i - 1) = i BY <1>1, <2>2
      <3> QED BY <3>1
    <2> QED BY <1>1, <2>1, <2>2
  <1> HIDE DEF Old
  <1>7. w \in [1 .. CELLS -> Cell]
    <2>1. \A j \in 1 .. CELLS : (IF j \in k .. e - 1 THEN m[j + 1] ELSE m[j]) \in Cell
      BY <1>1, <1>2
    <2> QED BY <2>1
  <1>8. \A j \in 1 .. e - 2 : w[j].size > 0 BY <1>4 DEF Good
  <1>9. \A j \in e - 1 .. CELLS : w[j].size = 0
    <2> SUFFICES ASSUME NEW j \in e - 1 .. CELLS PROVE w[j].size = 0 OBVIOUS
    <2>1. CASE j = e - 1
      <3>1. w[j] = m[e] BY <1>1, <1>3, <2>1
      <3> QED BY <1>1, <3>1 DEF Good
    <2>2. CASE j \in e .. CELLS
      <3>1. w[j] = m[j] BY <1>1, <1>3, <2>2
      <3> QED BY <2>2, <3>1 DEF Good
    <2> QED BY <1>1, <2>1, <2>2
  <1>10. \A i, j \in 1 .. e - 2 : i < j => w[i].addr + w[i].size < w[j].addr
    BY <1>4, <1>5 DEF Good
  <1>11. ASSUME NEW u \in Int
         PROVE  Covers(w, e - 1, u) <=> Covers(m, e, u) /\ ~In(u, m[k].addr, m[k].size)
    <2>1. \A j \in 1 .. e - 1 : j # k /\ In(u, m[j].addr, m[j].size) => ~In(u, m[k].addr, m[k].size)
      BY AreasApart
    <2>2. Covers(w, e - 1, u) <=> \E j \in 1 .. e - 2 : In(u, m[Old(j)].addr, m[Old(j)].size)
      <3>1. (e - 1) - 1 = e - 2 BY <1>1
      <3>2. Covers(w, e - 1, u) <=> \E j \in 1 .. e - 2 : In(u, w[j].addr, w[j].size)
        BY <3>1 DEF Covers
      <3> QED BY <1>4, <3>2
    <2>3. (\E j \in 1 .. e - 2 : In(u, m[Old(j)].addr, m[Old(j)].size))
          <=> \E i \in 1 .. e - 1 : i # k /\ In(u, m[i].addr, m[i].size) BY <1>4, <1>6
    <2> QED BY <2>1, <2>2, <2>3 DEF Covers
  <1>12. e - 1 \in 1 .. CELLS /\ (e - 1) - 1 = e - 2 BY <1>1
  <1> QED BY <1>7, <1>8, <1>9, <1>10, <1>11, <1>12 DEF Good

(* Area i grows by n units that lie before the next area. *)
LEMMA GrownGood ==
    ASSUME CELLS \in Nat, NEW m, NEW e, Good(m, e), NEW i \in 1 .. e - 1, NEW n \in Nat,
           \A j \in 1 .. e - 1 : i < j => m[i].addr + m[i].size + n < m[j].addr
    PROVE  /\ Good(RaisedAt(m, i, n), e)
           /\ \A u \in Int : Covers(RaisedAt(m, i, n), e, u) <=>
                                Covers(m, e, u) \/ In(u, m[i].addr + m[i].size, n)
  <1> SUFFICES ASSUME NEW w, w = RaisedAt(m, i, n)
               PROVE  /\ Good(w, e)
                   /\ \A u \in Int : Covers(w, e, u) <=>
                                        Covers(m, e, u) \/ In(u, m[i].addr + m[i].size, n)
    OBVIOUS
  <1> USE DEF RaisedAt
  <1>1. e \in Nat /\ e <= CELLS /\ i \in 1 .. CELLS /\ i < e BY DEF Good
  <1>2. \A j \in 1 .. CELLS : m[j] \in Cell /\ m[j].addr \in Nat /\ m[j].size \in Nat
    BY DEF Good, Cell
  <1>3. /\ w[i].addr = m[i].addr /\ w[i].size = m[i].size + n /\ w[i] \in Cell
        /\ \A j \in 1 .. CELLS \ {i} : w[j] = m[j]
        /\ w \in [1 .. CELLS -> Cell] BY <1>1, <1>2 DEF Good, Cell
  <1>4. \A j \in 1 .. e - 1 : w[j].size > 0 BY <1>1, <1>2, <1>3 DEF Good
  <1>5. \A j \in e .. CELLS : w[j].size = 0 BY <1>1, <1>2, <1>3 DEF Good
  <1>6. \A h, j \in 1 .. e - 1 : h < j => w[h].addr + w[h].size < w[j].addr
    <2> SUFFICES ASSUME NEW h \in 1 .. e - 1, NEW j \in 1 .. e - 1, h < j
                 PROVE  w[h].addr + w[h].size < w[j].addr OBVIOUS
    <2>1. h \in 1 .. CELLS /\ j \in 1 .. CELLS /\ w[j].addr = m[j].addr BY <1>1, <1>3
    <2>2. CASE h = i BY <1>2, <1>3, <2>1, <2>2
    <2>3. CASE h # i
      <3>1. w[h] = m[h] BY <1>3, <2>1, <2>3
      <3> QED BY <2>1, <3>1 DEF Good
    <2> QED BY <2>2, <2>3
  <1>7. ASSUME NEW u \in Int
        PROVE  Covers(w, e, u) <=> Covers(m, e, u) \/ In(u, m[i].addr + m[i].size, n)
    <2>1. \A j \in 1 .. e - 1 : j # i =>
             (In(u, w[j].addr, w[j].size) <=> In(u, m[j].addr, m[j].size)) BY <1>1, <1>3
    <2>2. In(u, w[i].addr, w[i].size) <=> \/ In(u, m[i].addr, m[i].size)
                                          \/ In(u, m[i].addr + m[i].size, n)
      BY <1>1, <1>2, <1>3 DEF In
    <2> QED BY <2>1, <2>2 DEF Covers
  <1> QED BY <1>3, <1>4, <1>5, <1>6, <1>7 DEF Good

(* Area k grows downward by n units that lie behind the one before. *)
LEMMA GrownDownGood ==
    ASSUME CELLS \in Nat, NEW m, NEW e, Good(m, e), NEW k \in 1 .. e - 1, NEW n \in Nat,
           n <= m[k].addr,
           \A j \in 1 .. e - 1 : j < k => m[j].addr + m[j].size < m[k].addr - n
    PROVE  /\ Good(LoweredAt(m, k, n), e)
           /\ \A u \in Int : Covers(LoweredAt(m, k, n), e, u) <=> Covers(m, e, u) \/ In(u, m[k].addr - n, n)
  <1> SUFFICES ASSUME NEW w, w = LoweredAt(m, k, n)
               PROVE  /\ Good(w, e)
                   /\ \A u \in Int : Covers(w, e, u) <=> Covers(m, e, u) \/ In(u, m[k].addr - n, n)
    OBVIOUS
  <1> USE DEF LoweredAt
  <1>1. e \in Nat /\ e <= CELLS /\ k \in 1 .. CELLS /\ k < e BY DEF Good
  <1>2. \A j \in 1 .. CELLS : m[j] \in Cell /\ m[j].addr \in Nat /\ m[j].size \in Nat
    BY DEF Good, Cell
  <1>3. /\ w[k].addr = m[k].addr - n /\ w[k].size = m[k].size + n
        /\ \A j \in 1 .. CELLS \ {k} : w[j] = m[j] BY <1>1 DEF Good, Area
  <1>4. w \in [1 .. CELLS -> Cell]
    <2>1. Area(m[k].addr - n, m[k].size + n) \in Cell BY <1>1, <1>2 DEF Area, Cell
    <2> QED BY <2>1 DEF Good
  <1>5. \A j \in 1 .. e - 1 : w[j].size > 0 BY <1>1, <1>2, <1>3 DEF Good
  <1>6. \A j \in e .. CELLS : w[j].size = 0 BY <1>1, <1>2, <1>3 DEF Good
  <1>7. \A h, j \in 1 .. e - 1 : h < j => w[h].addr + w[h].size < w[j].addr
    <2> SUFFICES ASSUME NEW h \in 1 .. e - 1, NEW j \in 1 .. e - 1, h < j
                 PROVE  w[h].addr + w[h].size < w[j].addr OBVIOUS
    <2>1. h \in 1 .. CELLS /\ j \in 1 .. CELLS BY <1>1
    <2>2. w[h].addr + w[h].size = m[h].addr + m[h].size BY <1>1, <1>2, <1>3, <2>1
    <2>3. CASE j = k BY <1>2, <1>3, <2>1, <2>2, <2>3
    <2>4. CASE j # k
      <3>1. w[j] = m[j] BY <1>3, <2>1, <2>4
      <3> QED BY <2>1, <2>2, <3>1 DEF Good
    <2> QED BY <2>3, <2>4
  <1>8. ASSUME NEW u \in Int
        PROVE  Covers(w, e, u) <=> Covers(m, e, u) \/ In(u, m[k].addr - n, n)
    <2>1. \A j \in 1 .. e - 1 : j # k =>
             (In(u, w[j].addr, w[j].size) <=> In(u, m[j].addr, m[j].size)) BY <1>1, <1>3
    <2>2. In(u, w[k].addr, w[k].size) <=> \/ In(u, m[k].addr, m[k].size)
                                          \/ In(u, m[k].addr - n, n)
      BY <1>1, <1>2, <1>3 DEF In
    <2> QED BY <2>1, <2>2 DEF Covers
  <1> QED BY <1>1, <1>4, <1>5, <1>6, <1>7, <1>8 DEF Good

(* A new area between two others, if there is a cell for the terminator. *)
LEMMA OpenedGood ==
    ASSUME CELLS \in Nat, NEW m, NEW e, Good(m, e), e < CELLS, NEW k \in 1 .. e,
           NEW a \in Nat, NEW n \in Nat, n > 0,
           \A j \in 1 .. e - 1 : j < k => m[j].addr + m[j].size < a,
           \A j \in 1 .. e - 1 : k <= j => a + n < m[j].addr
    PROVE  /\ Good(OpenedAt(m, e, k, a, n), e + 1)
           /\ \A u \in Int : Covers(OpenedAt(m, e, k, a, n), e + 1, u) <=> Covers(m, e, u) \/ In(u, a, n)
  <1> SUFFICES ASSUME NEW w, w = OpenedAt(m, e, k, a, n)
               PROVE  /\ Good(w, e + 1)
                   /\ \A u \in Int : Covers(w, e + 1, u) <=> Covers(m, e, u) \/ In(u, a, n)
    OBVIOUS
  <1> USE DEF OpenedAt
  <1>1. e \in Nat /\ e < CELLS /\ k \in 1 .. CELLS /\ k <= e BY DEF Good
  <1>2. \A j \in 1 .. CELLS : m[j] \in Cell /\ m[j].addr \in Nat /\ m[j].size \in Nat
    BY DEF Good, Cell
  <1>3. /\ w[k] = Area(a, n)
        /\ \A j \in 1 .. CELLS : j \in k + 1 .. e => w[j] = m[j - 1]
        /\ \A j \in 1 .. CELLS : j # k /\ j \notin k + 1 .. e => w[j] = m[j] BY <1>1
  <1>4. w[k].addr = a /\ w[k].size = n /\ w[k] \in Cell BY <1>3 DEF Area, Cell
  <1> DEFINE Old(j) == IF j < k THEN j ELSE j - 1
  <1>5. \A j \in 1 .. e : j # k => /\ j \in 1 .. CELLS /\ w[j] = m[Old(j)]
                                   /\ Old(j) \in 1 .. e - 1
                                   /\ j < k <=> Old(j) < k
    <2> SUFFICES ASSUME NEW j \in 1 .. e, j # k
                 PROVE  /\ j \in 1 .. CELLS /\ w[j] = m[Old(j)]
                        /\ Old(j) \in 1 .. e - 1
                        /\ j < k <=> Old(j) < k OBVIOUS
    <2>1. CASE j < k BY <1>1, <1>3, <2>1
    <2>2. CASE j > k BY <1>1, <1>3, <2>2
    <2> QED BY <1>1, <2>1, <2>2
  <1>6. \A i, j \in 1 .. e : i < j /\ i # k /\ j # k => Old(i) < Old(j) BY <1>1
  <1>7. \A i \in 1 .. e - 1 : \E j \in 1 .. e : j # k /\ Old(j) = i
    <2> SUFFICES ASSUME NEW i \in 1 .. e - 1 PROVE \E j \in 1 .. e : j # k /\ Old(j) = i
      OBVIOUS
    <2>1. CASE i < k BY <1>1, <2>1
    <2>2. CASE i >= k
      <3>1. i + 1 \in 1 .. e /\ i + 1 # k /\ Old(i + 1) = i BY <1>1, <2>2
      <3> QED BY <3>1
    <2> QED BY <1>1, <2>1, <2>2
  <1> HIDE DEF Old
  <1>8. w \in [1 .. CELLS -> Cell]
    <2>1. \A j \in 1 .. CELLS : w[j] \in Cell
      <3> SUFFICES ASSUME NEW j \in 1 .. CELLS PROVE w[j] \in Cell OBVIOUS
      <3>1. CASE j \in k + 1 .. e BY <1>1, <1>2, <1>3, <3>1
      <3>2. CASE j \notin k + 1 .. e BY <1>2, <1>3, <1>4, <3>2
      <3> QED BY <3>1, <3>2
    <2>2. w = [j \in 1 .. CELLS |-> w[j]] OBVIOUS
    <2> QED BY <2>1, <2>2
  <1>9. \A j \in 1 .. e : w[j].size > 0 BY <1>4, <1>5 DEF Good
  <1>10. \A j \in e + 1 .. CELLS : w[j].size = 0
    <2> SUFFICES ASSUME NEW j \in e + 1 .. CELLS PROVE w[j].size = 0 OBVIOUS
    <2>1. j \in e .. CELLS /\ j \in 1 .. CELLS /\ j # k /\ j \notin k + 1 .. e BY <1>1
    <2> QED BY <1>3, <2>1 DEF Good
  <1>11. \A i, j \in 1 .. e : i < j => w[i].addr + w[i].size < w[j].addr
    <2> SUFFICES ASSUME NEW i \in 1 .. e, NEW j \in 1 .. e, i < j
                 PROVE  w[i].addr + w[i].size < w[j].addr OBVIOUS
    <2>1. CASE i = k
      <3>0. j # k /\ ~(j < k) BY <1>1, <2>1
      <3>1. Old(j) \in 1 .. e - 1 /\ w[j] = m[Old(j)] /\ k <= Old(j)
        <4>1. Old(j) \in 1 .. e - 1 /\ w[j] = m[Old(j)] /\ ~(Old(j) < k) BY <1>5, <3>0
        <4> QED BY <1>1, <4>1
      <3>2. a + n < m[Old(j)].addr BY <3>1
      <3> QED BY <1>4, <2>1, <3>1, <3>2
    <2>2. CASE j = k
      <3>0. i # k /\ i < k BY <1>1, <2>2
      <3>1. Old(i) \in 1 .. e - 1 /\ w[i] = m[Old(i)] /\ Old(i) < k BY <1>5, <3>0
      <3>2. m[Old(i)].addr + m[Old(i)].size < a BY <3>1
      <3> QED BY <1>4, <2>2, <3>1, <3>2
    <2>3. CASE i # k /\ j # k BY <1>5, <1>6, <2>3 DEF Good
    <2> QED BY <2>1, <2>2, <2>3
  <1>12. (e + 1) - 1 = e /\ e + 1 \in 1 .. CELLS BY <1>1
  <1>13. ASSUME NEW u \in Int PROVE Covers(w, e + 1, u) <=> Covers(m, e, u) \/ In(u, a, n)
    <2>1. Covers(w, e + 1, u) <=> \E j \in 1 .. e : In(u, w[j].addr, w[j].size)
      <3> DEFINE d == e + 1
      <3>1. 1 .. d - 1 = 1 .. e BY <1>1
      <3> HIDE DEF d
      <3>2. Covers(w, d, u) <=> \E j \in 1 .. e : In(u, w[j].addr, w[j].size)
        BY <3>1 DEF Covers
      <3> QED BY <3>2 DEF d
    <2>2. (\E j \in 1 .. e : j # k /\ In(u, w[j].addr, w[j].size))
          <=> \E i \in 1 .. e - 1 : In(u, m[i].addr, m[i].size)
      <3>1. ASSUME NEW j \in 1 .. e, j # k, In(u, w[j].addr, w[j].size)
            PROVE  \E i \in 1 .. e - 1 : In(u, m[i].addr, m[i].size)
        <4>1. Old(j) \in 1 .. e - 1 /\ w[j] = m[Old(j)] BY <1>5, <3>1
        <4> QED BY <3>1, <4>1
      <3>2. ASSUME NEW i \in 1 .. e - 1, In(u, m[i].addr, m[i].size)
            PROVE  \E j \in 1 .. e : j # k /\ In(u, w[j].addr, w[j].size)
        <4>1. PICK j \in 1 .. e : j # k /\ Old(j) = i BY <1>7
        <4>2. w[j] = m[i] BY <1>5, <4>1
        <4> QED BY <3>2, <4>1, <4>2
      <3> QED BY <3>1, <3>2
    <2>3. In(u, w[k].addr, w[k].size) <=> In(u, a, n) BY <1>4
    <2> QED BY <2>1, <2>2, <2>3 DEF Covers
  <1> QED BY <1>8, <1>9, <1>10, <1>11, <1>12, <1>13 DEF Good

(* Areas k - 1 and k become one with the n units between them. *)
LEMMA JoinedGood ==
    ASSUME CELLS \in Nat, NEW m, NEW e, Good(m, e), NEW k \in 2 .. e - 1, NEW n \in Nat,
           m[k - 1].addr + m[k - 1].size + n = m[k].addr
    PROVE  /\ Good(RaisedAt(ClosedAt(m, e, k), k - 1, n + m[k].size), e - 1)
           /\ \A u \in Int :
                 Covers(RaisedAt(ClosedAt(m, e, k), k - 1, n + m[k].size), e - 1, u) <=>
                 Covers(m, e, u) \/ In(u, m[k - 1].addr + m[k - 1].size, n)
  <1> DEFINE c == ClosedAt(m, e, k)
             a == m[k - 1].addr
             s == m[k - 1].size
             b == m[k].addr
             z == m[k].size
             d == e - 1
  <1>1. /\ e \in Nat /\ e <= CELLS /\ k \in 1 .. CELLS /\ k < e /\ k \in 1 .. e - 1
        /\ k - 1 \in 1 .. CELLS /\ k - 1 \in 1 .. e - 1 /\ k - 1 \in 1 .. d - 1 BY DEF Good
  <1>2. \A j \in 1 .. CELLS : m[j] \in Cell /\ m[j].addr \in Nat /\ m[j].size \in Nat
    BY DEF Good, Cell
  <1>3. Good(c, d) /\ \A u \in Int : Covers(c, d, u) <=> Covers(m, e, u) /\ ~In(u, b, z)
    <2>1. k \in 1 .. e - 1 BY <1>1
    <2> QED BY <2>1, ClosedGood
  <1>4. c[k - 1] = m[k - 1] BY <1>1 DEF ClosedAt
  <1>5. a + s + n = b OBVIOUS
  <1>6. c[k - 1].addr = a /\ c[k - 1].size = s BY <1>4
  <1>7. a \in Nat /\ s \in Nat /\ b \in Nat /\ z \in Nat BY <1>1, <1>2
  <1>8. \A j \in 1 .. d - 1 : k - 1 < j => c[k - 1].addr + c[k - 1].size + (n + z) < c[j].addr
    <2> SUFFICES ASSUME NEW j \in 1 .. d - 1, k - 1 < j
                 PROVE  c[k - 1].addr + c[k - 1].size + (n + z) < c[j].addr OBVIOUS
    <2>1. c[j] = m[j + 1] /\ j + 1 \in 1 .. e - 1 /\ j + 1 \in 1 .. CELLS /\ k < j + 1
      BY <1>1 DEF ClosedAt
    <2>2. b + z < c[j].addr BY <1>1, <2>1 DEF Good
    <2>3. c[j].addr \in Nat BY <1>2, <2>1
    <2> HIDE DEF a, s, b, z
    <2> QED BY <1>5, <1>6, <1>7, <2>2, <2>3
  <1>9. \A u \in Int : In(u, b, z) => Covers(m, e, u) BY <1>1 DEF Covers
  <1> HIDE DEF a, s, b, z, c, d
  <1>10. n + z \in Nat BY <1>7
  <1>11. ASSUME NEW u \in Int PROVE In(u, a + s, n + z) <=> In(u, a + s, n) \/ In(u, b, z)
    BY <1>5, <1>7 DEF In
  <1>12. k - 1 \in 1 .. d - 1 BY <1>1
  <1>13. /\ Good(RaisedAt(c, k - 1, n + z), d)
         /\ \A u \in Int : Covers(RaisedAt(c, k - 1, n + z), d, u) <=>
               Covers(c, d, u) \/ In(u, c[k - 1].addr + c[k - 1].size, n + z)
    BY <1>3, <1>8, <1>10, <1>12, GrownGood
  <1>14. \A u \in Int : Covers(RaisedAt(c, k - 1, n + z), d, u) <=>
                           Covers(m, e, u) \/ In(u, a + s, n)
    BY <1>3, <1>6, <1>9, <1>11, <1>13
  <1> QED BY <1>13, <1>14 DEF a, s, z, c, d

-------------------------------------------------------------------------------
(* The array and what is allocated. *)

Holds(x, u) == In(u, x[1], x[2])

(* What is allocated lies apart in the memory.                             *)
AreasOK ==
    /\ IsFiniteSet(areas)
    /\ \A x \in areas : x \in Nat \X Nat /\ x[2] > 0
    /\ \A x \in areas, u \in Int : Holds(x, u) => FIRST <= u /\ u <= LAST
    /\ \A x, y \in areas, u \in Int : Holds(x, u) /\ Holds(y, u) => x = y

(* Every unit of the memory is in an area of the array or in one given out *)
(* and not in both, and the array has no other.                            *)
Exact(e) ==
    \A u \in Int : Covers(map, e, u) <=> /\ FIRST <= u /\ u <= LAST
                                         /\ \A x \in areas : ~Holds(x, u)

MInv == AreasOK /\ \E e \in 1 .. CELLS : Good(map, e) /\ Exact(e)

(* main's mfree into an array of zeros leaves one area and the terminator. *)
LEMMA InitMInv ==
    ASSUME MapAssumption, Init PROVE MInv
  <1>1. Good(map, 2)
    <2>1. map \in [1 .. CELLS -> Cell] BY DEF MapAssumption, Init, Area, Cell
    <2>2. map[1].size > 0 /\ \A k \in 2 .. CELLS : map[k].size = 0
      BY DEF MapAssumption, Init, Area
    <2>3. 2 \in 1 .. CELLS BY DEF MapAssumption
    <2> QED BY <2>1, <2>2, <2>3 DEF Good
  <1>2. Exact(2)
    <2> SUFFICES ASSUME NEW u \in Int PROVE Covers(map, 2, u) <=> FIRST <= u /\ u <= LAST
      BY DEF Exact, Init
    <2>1. map[1].addr = FIRST /\ map[1].size = LAST - FIRST + 1
      BY DEF MapAssumption, Init, Area
    <2>2. Covers(map, 2, u) <=> In(u, map[1].addr, map[1].size) BY DEF Covers
    <2> QED BY <2>1, <2>2 DEF MapAssumption, In
  <1>3. AreasOK BY FS_EmptySet DEF AreasOK, Init
  <1> QED BY <1>1, <1>2, <1>3 DEF MInv, Good

(* malloc takes its units from one area and gives them out. *)
LEMMA MallocMInv ==
    ASSUME MapAssumption, MInv, NEW n \in Sizes, Malloc(n) PROVE MInv'
  <1>1. PICK e \in 1 .. CELLS : Good(map, e) /\ Exact(e) BY DEF MInv
  <1>2. End = e /\ CELLS \in Nat /\ e \in Nat BY <1>1, EndIs DEF MapAssumption
  <1> DEFINE k == LeastOf(Roomy(n))
             a == map[k].addr
  <1>3. k \in 1 .. e - 1 /\ map[k].size >= n
    <2>1. Roomy(n) \subseteq 1 .. e - 1 /\ Roomy(n) # {} /\ e - 1 \in Nat
      BY <1>2 DEF Malloc, Roomy, Live
    <2>2. k \in Roomy(n) BY <2>1, LeastOfBelow
    <2> QED BY <1>2, <2>2 DEF Roomy, Live
  <1>4. map' = Cut(k, n) /\ areas' = areas \cup {<<a, n>>} BY DEF Malloc, First
  <1>5. n \in Nat /\ n > 0 /\ a \in Nat /\ map[k].size \in Nat /\ k \in 1 .. CELLS
    BY <1>1, <1>2, <1>3 DEF MapAssumption, Good, Cell
  <1> HIDE DEF k
  <1>6. PICK d \in 1 .. CELLS :
           /\ Good(map', d)
           /\ \A u \in Int : Covers(map', d, u) <=> Covers(map, e, u) /\ ~In(u, a, n)
    <2>1. CASE map[k].size = n
      <3>1. map' = ClosedAt(map, e, k)
        <4>1. map' = Closed([map EXCEPT ![k] = Area(@.addr + n, @.size - n)], k)
          BY <1>4, <2>1 DEF Cut
        <4>2. \A j \in 1 .. CELLS :
                 (IF j \in k .. e - 1
                  THEN [map EXCEPT ![k] = Area(@.addr + n, @.size - n)][j + 1]
                  ELSE [map EXCEPT ![k] = Area(@.addr + n, @.size - n)][j])
                 = IF j \in k .. e - 1 THEN map[j + 1] ELSE map[j]
          <5> SUFFICES ASSUME NEW j \in 1 .. CELLS
                       PROVE  (IF j \in k .. e - 1
                               THEN [map EXCEPT ![k] = Area(@.addr + n, @.size - n)][j + 1]
                               ELSE [map EXCEPT ![k] = Area(@.addr + n, @.size - n)][j])
                              = IF j \in k .. e - 1 THEN map[j + 1] ELSE map[j] OBVIOUS
          <5> QED BY <1>1, <1>2, <1>3 DEF Good
        <4> QED BY <1>2, <4>1, <4>2 DEF Closed, ClosedAt
      <3>2. e - 1 \in 1 .. CELLS BY <1>2, <1>3
      <3> QED BY <1>1, <1>2, <1>3, <2>1, <3>1, <3>2, ClosedGood
    <2>2. CASE map[k].size # n
      <3>1. map' = CutAt(map, k, n) BY <1>4, <2>2 DEF Cut, CutAt
      <3>2. n < map[k].size BY <1>3, <1>5, <2>2
      <3> QED BY <1>1, <1>2, <1>3, <1>5, <3>1, <3>2, CutGood
    <2> QED BY <2>1, <2>2
  <1>7. \A u \in Int : In(u, a, n) => Covers(map, e, u)
    <2> SUFFICES ASSUME NEW u \in Int, In(u, a, n) PROVE Covers(map, e, u) OBVIOUS
    <2>1. In(u, a, map[k].size) BY <1>3, <1>5 DEF In
    <2> QED BY <1>3, <2>1 DEF Covers
  <1> DEFINE x == <<a, n>>
  <1>8. \A u : Holds(x, u) <=> In(u, a, n) BY DEF Holds
  <1>9. x \in Nat \X Nat /\ x[2] > 0 BY <1>5
  <1> HIDE DEF x
  <1>10. areas' = areas \cup {x} BY <1>4 DEF x
  <1>11. \A u \in Int : Holds(x, u) => /\ FIRST <= u /\ u <= LAST
                                       /\ \A y \in areas : ~Holds(y, u)
    BY <1>1, <1>7, <1>8 DEF Exact
  <1>12. AreasOK'
    <2>1. IsFiniteSet(areas') BY <1>10, FS_AddElement DEF MInv, AreasOK
    <2> QED BY <1>9, <1>10, <1>11, <2>1 DEF MInv, AreasOK
  <1>13. Exact(d)' BY <1>1, <1>6, <1>8, <1>10 DEF Exact
  <1> QED BY <1>6, <1>12, <1>13 DEF MInv

(* swgrow parts an area into two that hold its units. *)
LEMMA DonateMInv ==
    ASSUME MapAssumption, MInv, NEW x \in areas, NEW t \in Sizes, Donate(x[1], x[2], t)
    PROVE  MInv'
  <1>1. PICK e \in 1 .. CELLS : Good(map, e) /\ Exact(e) BY DEF MInv
  <1> DEFINE a == x[1]
             n == x[2]
             y == <<a, n - t>>
             z == <<a + n - t, t>>
  <1>2. /\ a \in Nat /\ n \in Nat /\ t \in Nat /\ 0 < t /\ t < n /\ x = <<a, n>>
    BY DEF MapAssumption, MInv, AreasOK, Donate
  <1>3. map' = map /\ areas' = (areas \ {x}) \cup {y, z} BY <1>2 DEF Donate
  <1>4. /\ y \in Nat \X Nat /\ y[2] > 0
        /\ z \in Nat \X Nat /\ z[2] > 0 BY <1>2
  <1>5. \A u \in Int : /\ Holds(x, u) <=> Holds(y, u) \/ Holds(z, u)
                       /\ ~(Holds(y, u) /\ Holds(z, u))
    <2> SUFFICES ASSUME NEW u \in Int
                 PROVE  /\ In(u, a, n) <=> In(u, a, n - t) \/ In(u, a + n - t, t)
                        /\ ~(In(u, a, n - t) /\ In(u, a + n - t, t)) BY DEF Holds
    <2> HIDE DEF a, n
    <2> QED BY <1>2 DEF In
  <1> HIDE DEF a, n, y, z
  <1>6. AreasOK'
    <2>1. IsFiniteSet(areas')
      <3>1. IsFiniteSet(areas \ {x}) BY FS_RemoveElement DEF MInv, AreasOK
      <3>2. IsFiniteSet((areas \ {x}) \cup {y}) BY <3>1, FS_AddElement
      <3>3. areas' = ((areas \ {x}) \cup {y}) \cup {z} BY <1>3
      <3> QED BY <3>2, <3>3, FS_AddElement
    <2>2. \A w \in areas', u \in Int :
             Holds(w, u) => \/ w \in areas /\ w # x
                            \/ w \in {y, z} /\ Holds(x, u) BY <1>3, <1>5
    <2>3. \A w \in areas', u \in Int : Holds(w, u) => FIRST <= u /\ u <= LAST
      BY <2>2 DEF MInv, AreasOK
    <2>4. ASSUME NEW v \in areas', NEW w \in areas', NEW u \in Int, Holds(v, u), Holds(w, u)
          PROVE  v = w
      <3>1. \A r \in areas : Holds(r, u) /\ Holds(x, u) => r = x BY DEF MInv, AreasOK
      <3>2. CASE v \in {y, z} BY <1>5, <2>2, <2>4, <3>1, <3>2
      <3>3. CASE w \in {y, z} BY <1>5, <2>2, <2>4, <3>1, <3>3
      <3>4. CASE v \in areas /\ w \in areas BY <2>4, <3>4 DEF MInv, AreasOK
      <3> QED BY <1>3, <3>2, <3>3, <3>4
    <2>5. \A w \in areas' : w \in Nat \X Nat /\ w[2] > 0 BY <1>3, <1>4 DEF MInv, AreasOK
    <2> QED BY <2>1, <2>3, <2>4, <2>5 DEF AreasOK
  <1>7. Exact(e)'
    <2>1. \A u \in Int : (\A w \in areas : ~Holds(w, u)) <=> (\A w \in areas' : ~Holds(w, u))
      BY <1>3, <1>5
    <2> QED BY <1>1, <1>3, <2>1 DEF Exact
  <1>8. Good(map', e) BY <1>1, <1>3
  <1> QED BY <1>6, <1>7, <1>8 DEF MInv

(* Behind each area of the array but the last there is one given out, for  *)
(* the unit there is not free and the unit before it is.                   *)
LEMMA AreaBehind ==
    ASSUME MapAssumption, AreasOK, NEW e, Good(map, e), Exact(e), NEW k \in 1 .. e - 2
    PROVE  \E x \in areas : x[1] = map[k].addr + map[k].size
  <1> DEFINE a == map[k].addr
             s == map[k].size
             b == map[k + 1].addr
             z == a + s
  <1>1. /\ e \in Nat /\ k \in 1 .. e - 1 /\ k + 1 \in 1 .. e - 1
        /\ k \in 1 .. CELLS /\ k + 1 \in 1 .. CELLS BY DEF Good, MapAssumption
  <1>2. /\ a \in Nat /\ s \in Nat /\ s > 0 /\ b \in Nat /\ map[k + 1].size > 0
        /\ map[k + 1].size \in Nat /\ z < b BY <1>1 DEF Good, Cell
  <1>3. Covers(map, e, z - 1) /\ Covers(map, e, b)
    <2>1. In(z - 1, a, s)
      <3> HIDE DEF a, s
      <3> QED BY <1>2 DEF In
    <2>2. In(b, b, map[k + 1].size)
      <3> HIDE DEF b
      <3> QED BY <1>2 DEF In
    <2> QED BY <1>1, <2>1, <2>2 DEF Covers
  <1>4. ~Covers(map, e, z)
    <2> SUFFICES ASSUME NEW j \in 1 .. e - 1, In(z, map[j].addr, map[j].size) PROVE FALSE
      BY DEF Covers
    <2>1. map[j].addr <= z /\ z < map[j].addr + map[j].size BY DEF In
    <2>2. CASE j < k
      <3>1. map[j].addr + map[j].size < a BY <1>1, <2>2 DEF Good
      <3>2. map[j].addr \in Nat /\ map[j].size \in Nat BY AreasTyped DEF MapAssumption
      <3> HIDE DEF a, s
      <3>3. map[j].addr + map[j].size <= z BY <1>2, <3>1, <3>2
      <3> QED BY <1>2, <2>1, <3>2, <3>3
    <2>3. CASE j = k
      <3>1. z < a + s BY <2>1, <2>3
      <3> HIDE DEF a, s
      <3> QED BY <1>2, <3>1
    <2>4. CASE j > k
      <3>1. z < map[j].addr BY <1>1, <2>4 DEF Good
      <3>2. map[j].addr \in Nat BY AreasTyped DEF MapAssumption
      <3> HIDE DEF a, s, b
      <3>3. z \in Nat BY <1>2
      <3> HIDE DEF z
      <3> QED BY <2>1, <3>1, <3>2, <3>3
    <2> QED BY <1>1, <2>2, <2>3, <2>4
  <1> HIDE DEF a, s, b
  <1>5. z \in Int /\ z - 1 \in Int /\ FIRST <= z /\ z <= LAST
    <2>1. FIRST <= z - 1 /\ b <= LAST BY <1>2, <1>3 DEF Exact
    <2> QED BY <1>2, <2>1 DEF MapAssumption
  <1>6. PICK x \in areas : Holds(x, z) BY <1>4, <1>5 DEF Exact
  <1>7. ~Holds(x, z - 1) BY <1>3, <1>5 DEF Exact
  <1>8. x[1] \in Nat /\ x[2] \in Nat BY DEF AreasOK
  <1>9. x[1] = z BY <1>5, <1>6, <1>7, <1>8 DEF Holds, In
  <1> QED BY <1>9 DEF a, s

(* So the areas of a set that has them all are at least as many.           *)
LEMMA AreasCounted ==
    ASSUME CELLS \in Nat, NEW m, NEW e, Good(m, e), NEW X, IsFiniteSet(X),
           \A k \in 1 .. e - 2 : \E x \in X : x[1] = m[k].addr + m[k].size
    PROVE  e <= Cardinality(X) + 2 /\ Cardinality(X) \in Nat
  <1> DEFINE Past(k) == m[k].addr + m[k].size
             f == [k \in 1 .. e - 2 |-> CHOOSE x \in X : x[1] = Past(k)]
  <1>1. e \in Nat /\ e - 2 \in Int BY DEF Good
  <1>2. \A k \in 1 .. e - 2 : f[k] \in X /\ f[k][1] = Past(k) OBVIOUS
  <1>3. \A i, j \in 1 .. e - 2 : i < j => Past(i) # Past(j)
    <2> SUFFICES ASSUME NEW i \in 1 .. e - 2, NEW j \in 1 .. e - 2, i < j
                 PROVE  Past(i) # Past(j) OBVIOUS
    <2>1. i \in 1 .. e - 1 /\ j \in 1 .. e - 1 /\ j \in 1 .. CELLS /\ i \in 1 .. CELLS
      BY <1>1 DEF Good
    <2>2. m[i].addr + m[i].size < m[j].addr BY <2>1 DEF Good
    <2>3. /\ m[j].addr \in Nat /\ m[j].size \in Nat
          /\ m[i].addr \in Nat /\ m[i].size \in Nat BY <2>1 DEF Good, Cell
    <2> QED BY <2>2, <2>3
  <1>4. f \in [1 .. e - 2 -> X] BY <1>2
  <1>5. \A i, j \in 1 .. e - 2 : f[i] = f[j] => i = j
    <2> SUFFICES ASSUME NEW i \in 1 .. e - 2, NEW j \in 1 .. e - 2, f[i] = f[j] PROVE i = j
      OBVIOUS
    <2>1. Past(i) = Past(j) BY <1>2
    <2>2. ~(i < j) /\ ~(j < i) BY <1>3, <2>1
    <2> QED BY <1>1, <2>2
  <1> HIDE DEF f
  <1>6. f \in Injection(1 .. e - 2, X) BY <1>4, <1>5, Fun_IsInj
  <1>7. Cardinality(1 .. e - 2) <= Cardinality(X) BY <1>6, FS_Injection
  <1>8. Cardinality(1 .. e - 2) = IF 1 > e - 2 THEN 0 ELSE e - 2 - 1 + 1
    BY <1>1, FS_Interval
  <1>9. Cardinality(X) \in Nat BY FS_CardinalityType
  <1> QED BY <1>1, <1>7, <1>8, <1>9

(* mfree with the cell in hand: in each of its cases the array stays good  *)
(* and has the n units at a in addition.                                   *)
LEMMA ReturnedGood ==
    ASSUME CELLS \in Nat, NEW e, Good(map, e), NEW a \in Nat,
           NEW k \in 1 .. e, k = Place(a), NEW n \in Nat, n > 0,
           \A j \in 1 .. e - 1 : j < k => map[j].addr + map[j].size <= a,
           \A j \in 1 .. e - 1 : k <= j => a + n <= map[j].addr,
           e < CELLS \/ \E j \in 1 .. e - 1 : map[j].addr + map[j].size = a
    PROVE  \E d \in 1 .. CELLS :
              /\ Good(Returned(a, n), d)
              /\ \A u \in Int : Covers(Returned(a, n), d, u) <=> Covers(map, e, u) \/ In(u, a, n)
  <1>1. End = e BY EndIs
  <1>2. /\ e \in Nat /\ e >= 1 /\ e <= CELLS
        /\ \A j \in 1 .. e - 1 : /\ j \in 1 .. CELLS /\ map[j].addr \in Nat
                                 /\ map[j].size \in Nat /\ map[j].size > 0 BY AreasTyped
  <1> DEFINE up  == [map EXCEPT ![k - 1].size = @ + n]
             up2 == [up EXCEPT ![k - 1].size = @ + map[k].size]
             Below == k > 1 /\ map[k - 1].addr + map[k - 1].size = a
  <1>3. \A j \in 1 .. e - 1 : j < k - 1 => map[j].addr + map[j].size < a
    <2> SUFFICES ASSUME NEW j \in 1 .. e - 1, j < k - 1 PROVE map[j].addr + map[j].size < a
      OBVIOUS
    <2>1. k - 1 \in 1 .. e - 1 /\ k - 1 < k BY <1>2
    <2>2. map[j].addr + map[j].size < map[k - 1].addr BY <2>1 DEF Good
    <2>3. map[k - 1].addr + map[k - 1].size <= a BY <2>1
    <2> QED BY <1>2, <2>1, <2>2, <2>3
  <1>4. CASE Below
    <2>1. k - 1 \in 1 .. e - 1 /\ k - 1 \in 1 .. CELLS /\ k \in Nat BY <1>2, <1>4
    <2>2. /\ map[k - 1].addr + map[k - 1].size = a
          /\ map[k - 1].addr \in Nat /\ map[k - 1].size \in Nat BY <1>2, <1>4, <2>1
    <2>3. CASE a + n = map[k].addr /\ k # e
      <3>1. k \in 2 .. e - 1 BY <1>2, <1>4, <2>3
      <3>2. Returned(a, n) = Closed(up2, k) BY <1>4, <2>3 DEF Returned
      <3>3. Closed(up2, k) = RaisedAt(ClosedAt(map, e, k), k - 1, n + map[k].size)
        <4> DEFINE c == ClosedAt(map, e, k)
                   r == RaisedAt(c, k - 1, n + map[k].size)
        <4>1. map[k].size \in Nat /\ map \in [1 .. CELLS -> Cell] /\ map[k - 1] \in Cell
          BY <1>2, <2>1, <3>1 DEF Good
        <4>2. /\ up[k - 1] = [map[k - 1] EXCEPT !.size = @ + n]
              /\ \A j \in 1 .. CELLS \ {k - 1} : up[j] = map[j]
              /\ DOMAIN up = 1 .. CELLS BY <2>1, <4>1
        <4>3. /\ up2[k - 1] = [up[k - 1] EXCEPT !.size = @ + map[k].size]
              /\ \A j \in 1 .. CELLS \ {k - 1} : up2[j] = map[j] BY <2>1, <4>2
        <4>4. up2[k - 1] = [map[k - 1] EXCEPT !.size = @ + (n + map[k].size)]
          BY <2>2, <4>1, <4>2, <4>3 DEF Cell
        <4>5. c[k - 1] = map[k - 1] /\ DOMAIN c = 1 .. CELLS BY <2>1 DEF ClosedAt
        <4>6. \A j \in 1 .. CELLS \ {k - 1} :
                 r[j] = IF j \in k .. e - 1 THEN map[j + 1] ELSE map[j]
          BY <2>1 DEF ClosedAt, RaisedAt
        <4>7. r[k - 1] = up2[k - 1] BY <2>1, <4>4, <4>5 DEF RaisedAt
        <4>8. r = [j \in 1 .. CELLS |-> r[j]] BY DEF ClosedAt, RaisedAt
        <4> HIDE DEF r, up2
        <4>9. \A j \in 1 .. CELLS : (IF j \in k .. e - 1 THEN up2[j + 1] ELSE up2[j]) = r[j]
          <5> SUFFICES ASSUME NEW j \in 1 .. CELLS
                       PROVE  (IF j \in k .. e - 1 THEN up2[j + 1] ELSE up2[j]) = r[j]
            OBVIOUS
          <5>1. CASE j = k - 1 BY <2>1, <4>7, <5>1
          <5>2. CASE j # k - 1 /\ j \in k .. e - 1
            <6>1. j + 1 \in 1 .. CELLS \ {k - 1} BY <1>2, <2>1, <5>2
            <6> QED BY <4>3, <4>6, <5>2, <6>1
          <5>3. CASE j # k - 1 /\ j \notin k .. e - 1 BY <4>3, <4>6, <5>3
          <5> QED BY <5>1, <5>2, <5>3
        <4>10. Closed(up2, k) = r BY <1>1, <4>8, <4>9 DEF Closed
        <4> QED BY <4>10 DEF r
      <3>4. Good(RaisedAt(ClosedAt(map, e, k), k - 1, n + map[k].size), e - 1)
        BY <2>2, <2>3, <3>1, JoinedGood
      <3>5. \A u \in Int :
               Covers(RaisedAt(ClosedAt(map, e, k), k - 1, n + map[k].size), e - 1, u)
               <=> Covers(map, e, u) \/ In(u, a, n) BY <2>2, <2>3, <3>1, JoinedGood
      <3>6. e - 1 \in 1 .. CELLS BY <1>2, <3>1
      <3> QED BY <3>2, <3>3, <3>4, <3>5, <3>6
    <2>4. CASE ~(a + n = map[k].addr /\ k # e)
      <3>1. Returned(a, n) = RaisedAt(map, k - 1, n)
        <4>1. up = RaisedAt(map, k - 1, n) BY DEF RaisedAt
        <4>2. CASE a + n # map[k].addr BY <1>4, <4>1, <4>2 DEF Returned
        <4>3. CASE a + n = map[k].addr
          <5>1. Returned(a, n) = Closed(up2, k) BY <1>4, <4>3 DEF Returned
          <5>2. k = e /\ map[k].size = 0 BY <1>2, <2>4, <4>3 DEF Good
          <5>3. map \in [1 .. CELLS -> Cell] /\ map[k - 1] \in Cell BY <2>1 DEF Good
          <5>4. /\ up \in [1 .. CELLS -> Cell]
                /\ up[k - 1].size \in Nat BY <2>1, <5>3 DEF Cell
          <5> HIDE DEF up
          <5>5. up2 = up BY <2>1, <5>2, <5>4 DEF Cell
          <5>6. Closed(up, k) = up
            <6>1. \A j \in 1 .. CELLS : j \notin k .. e - 1 BY <1>2, <5>2
            <6> QED BY <1>1, <5>4, <6>1 DEF Closed
          <5> QED BY <4>1, <5>1, <5>5, <5>6
        <4> QED BY <4>2, <4>3
      <3>2. \A j \in 1 .. e - 1 : k - 1 < j => map[k - 1].addr + map[k - 1].size + n < map[j].addr
        <4> SUFFICES ASSUME NEW j \in 1 .. e - 1, k - 1 < j PROVE a + n < map[j].addr
          BY <2>2
        <4>1. k <= j /\ k # e BY <1>2
        <4>2. a + n <= map[k].addr /\ a + n # map[k].addr /\ map[k].addr \in Nat
          BY <1>2, <2>4, <4>1
        <4>3. CASE j = k BY <4>2, <4>3
        <4>4. CASE k < j
          <5>1. map[k].addr + map[k].size < map[j].addr /\ map[k].size \in Nat
            BY <1>2, <4>1, <4>4 DEF Good
          <5> QED BY <1>2, <4>2, <5>1
        <4> QED BY <4>1, <4>3, <4>4
      <3>3. Good(RaisedAt(map, k - 1, n), e) BY <2>1, <3>2, GrownGood
      <3>4. \A u \in Int : Covers(RaisedAt(map, k - 1, n), e, u) <=>
                              Covers(map, e, u) \/ In(u, a, n)
        BY <2>1, <2>2, <3>2, GrownGood
      <3>5. e \in 1 .. CELLS BY <1>2
      <3> QED BY <3>1, <3>3, <3>4, <3>5
    <2> QED BY <2>3, <2>4
  <1>5. CASE ~Below
    <2>1. \A j \in 1 .. e - 1 : j < k => map[j].addr + map[j].size < a
      <3> SUFFICES ASSUME NEW j \in 1 .. e - 1, j < k PROVE map[j].addr + map[j].size < a
        OBVIOUS
      <3>1. CASE j < k - 1 BY <1>3, <3>1
      <3>2. CASE j = k - 1
        <4>1. map[j].addr + map[j].size # a /\ map[j].addr + map[j].size <= a
          BY <1>2, <1>5, <3>2
        <4> QED BY <1>2, <4>1
      <3> QED BY <1>2, <3>1, <3>2
    <2>2. CASE a + n = map[k].addr /\ map[k].size # 0
      <3>1. k \in 1 .. e - 1 BY <1>2, <2>2 DEF Good
      <3>2. Returned(a, n) = LoweredAt(map, k, n) BY <1>5, <2>2 DEF Returned, LoweredAt
      <3>3. map[k].addr - n = a /\ n <= map[k].addr BY <2>2
      <3>4. /\ Good(LoweredAt(map, k, n), e)
            /\ \A u \in Int : Covers(LoweredAt(map, k, n), e, u) <=>
                                 Covers(map, e, u) \/ In(u, map[k].addr - n, n)
        BY <2>1, <3>1, <3>3, GrownDownGood
      <3>5. e \in 1 .. CELLS BY <1>2
      <3> QED BY <3>2, <3>3, <3>4, <3>5
    <2>3. CASE ~(a + n = map[k].addr /\ map[k].size # 0)
      <3>1. Returned(a, n) = OpenedAt(map, e, k, a, n)
        BY <1>1, <1>5, <2>3 DEF Returned, Opened, OpenedAt
      <3>2. \A j \in 1 .. e - 1 : k <= j => a + n < map[j].addr
        <4> SUFFICES ASSUME NEW j \in 1 .. e - 1, k <= j PROVE a + n < map[j].addr OBVIOUS
        <4>1. k \in 1 .. e - 1 BY <1>2
        <4>2. a + n <= map[k].addr /\ a + n # map[k].addr /\ map[k].addr \in Nat
          BY <1>2, <2>3, <4>1
        <4>3. CASE j = k BY <4>2, <4>3
        <4>4. CASE k < j
          <5>1. map[k].addr + map[k].size < map[j].addr /\ map[k].size \in Nat
            BY <1>2, <4>1, <4>4 DEF Good
          <5> QED BY <1>2, <4>2, <5>1
        <4> QED BY <4>1, <4>3, <4>4
      <3>3. e < CELLS
        <4> SUFFICES ASSUME NEW j \in 1 .. e - 1, map[j].addr + map[j].size = a PROVE FALSE
          OBVIOUS
        <4>1. ~(j < k) BY <2>1
        <4>2. a + n <= map[j].addr BY <1>2, <4>1
        <4> QED BY <1>2, <4>2
      <3>4. /\ Good(OpenedAt(map, e, k, a, n), e + 1)
            /\ \A u \in Int : Covers(OpenedAt(map, e, k, a, n), e + 1, u) <=>
                                 Covers(map, e, u) \/ In(u, a, n)
        BY <2>1, <3>2, <3>3, OpenedGood
      <3>5. e + 1 \in 1 .. CELLS BY <1>2, <3>3
      <3> QED BY <3>1, <3>4, <3>5
    <2> QED BY <2>2, <2>3
  <1> QED BY <1>4, <1>5

(* mfree gets back what was given out: its units are in no area, so they   *)
(* lie behind every area before its cell and before every area from there  *)
(* on; and if it opens an area, no area of the array ends where it begins, *)
(* so there is a cell.                                                     *)
LEMMA MfreeMInv ==
    ASSUME MapAssumption, MInv, Cardinality(areas) + 2 <= CELLS,
           NEW x \in areas, Mfree(x[1], x[2]) PROVE MInv'
  <1>1. PICK e \in 1 .. CELLS : Good(map, e) /\ Exact(e) BY DEF MInv
  <1>2. CELLS \in Nat /\ End = e BY <1>1, EndIs DEF MapAssumption
  <1>3. /\ e \in Nat /\ e >= 1 /\ e <= CELLS
        /\ \A j \in 1 .. e - 1 : /\ j \in 1 .. CELLS /\ map[j].addr \in Nat
                                 /\ map[j].size \in Nat /\ map[j].size > 0
    BY <1>1, <1>2, AreasTyped
  <1> DEFINE a == x[1]
             n == x[2]
             k == Place(a)
             Q == {j \in 1 .. e : j = e \/ map[j].addr > a}
  <1>4. a \in Nat /\ n \in Nat /\ n > 0 /\ x = <<a, n>> BY DEF MInv, AreasOK
  <1>5. /\ k \in 1 .. e /\ (k = e \/ map[k].addr > a)
        /\ \A j \in 1 .. e : (j = e \/ map[j].addr > a) => k <= j
    <2>1. k = LeastOf(Q) BY <1>2 DEF Place
    <2>2. Q \subseteq 1 .. e /\ Q # {} BY <1>3
    <2>3. LeastOf(Q) \in Q /\ \A j \in Q : LeastOf(Q) <= j
      <3> HIDE DEF Q
      <3> QED BY <1>3, <2>2, LeastOfBelow
    <2> HIDE DEF k
    <2> QED BY <2>1, <2>3
  <1>6. \A j \in 1 .. e - 1, u \in Int : ~(In(u, a, n) /\ In(u, map[j].addr, map[j].size))
    <2>1. \A u \in Int : Covers(map, e, u) => ~Holds(x, u) BY <1>1 DEF Exact
    <2> QED BY <2>1 DEF Covers, Holds
  <1> HIDE DEF k, Q, a, n
  <1>7. \A j \in 1 .. e - 1 : j < k => map[j].addr + map[j].size <= a
    <2> SUFFICES ASSUME NEW j \in 1 .. e - 1, j < k PROVE map[j].addr + map[j].size <= a
      OBVIOUS
    <2>1. map[j].addr <= a BY <1>3, <1>4, <1>5
    <2>2. In(a, a, n) BY <1>4 DEF In
    <2>3. ~In(a, map[j].addr, map[j].size) BY <1>4, <1>6, <2>2
    <2> QED BY <1>3, <1>4, <2>1, <2>3 DEF In
  <1>8. \A j \in 1 .. e - 1 : k <= j => a + n <= map[j].addr
    <2> SUFFICES ASSUME NEW j \in 1 .. e - 1, k <= j PROVE a + n <= map[j].addr OBVIOUS
    <2>1. k \in 1 .. e - 1 /\ map[k].addr > a BY <1>3, <1>5
    <2>2. map[j].addr > a
      <3>1. CASE j = k BY <2>1, <3>1
      <3>2. CASE k < j
        <4>1. map[k].addr + map[k].size < map[j].addr BY <1>1, <2>1, <3>2 DEF Good
        <4> QED BY <1>3, <1>4, <2>1, <4>1
      <3> QED BY <1>3, <2>1, <3>1, <3>2
    <2>3. In(map[j].addr, map[j].addr, map[j].size) BY <1>3 DEF In
    <2>4. ~In(map[j].addr, a, n) BY <1>3, <1>6, <2>3
    <2> QED BY <1>3, <1>4, <2>2, <2>4 DEF In
  <1>9. e < CELLS \/ \E j \in 1 .. e - 1 : map[j].addr + map[j].size = a
    <2> SUFFICES ASSUME \A j \in 1 .. e - 1 : map[j].addr + map[j].size # a PROVE e < CELLS
      OBVIOUS
    <2> DEFINE X == areas \ {x}
    <2>1. IsFiniteSet(X) /\ Cardinality(X) = Cardinality(areas) - 1
      BY FS_RemoveElement DEF MInv, AreasOK
    <2>2. \A j \in 1 .. e - 2 : \E y \in X : y[1] = map[j].addr + map[j].size
      <3> SUFFICES ASSUME NEW j \in 1 .. e - 2
                   PROVE  \E y \in X : y[1] = map[j].addr + map[j].size OBVIOUS
      <3>1. PICK y \in areas : y[1] = map[j].addr + map[j].size BY <1>1, AreaBehind DEF MInv
      <3>2. y # x
        <4>1. j \in 1 .. e - 1 BY <1>3
        <4> QED BY <3>1, <4>1 DEF a
      <3> QED BY <3>1, <3>2
    <2> HIDE DEF X
    <2>3. e <= Cardinality(X) + 2 BY <1>1, <1>2, <2>1, <2>2, AreasCounted
    <2>4. Cardinality(areas) \in Nat BY FS_CardinalityType DEF MInv, AreasOK
    <2> QED BY <1>2, <1>3, <2>1, <2>3, <2>4
  <1>10. map' = Returned(a, n) /\ areas' = areas \ {x} BY <1>4 DEF Mfree, a, n
  <1>11. k = Place(a) BY DEF k
  <1>12. PICK d \in 1 .. CELLS :
            /\ Good(map', d)
            /\ \A u \in Int : Covers(map', d, u) <=> Covers(map, e, u) \/ In(u, a, n)
    BY <1>1, <1>2, <1>4, <1>5, <1>7, <1>8, <1>9, <1>10, <1>11, ReturnedGood
  <1>13. \A u : Holds(x, u) <=> In(u, a, n) BY DEF Holds, a, n
  <1>14. AreasOK'
    <2>1. IsFiniteSet(areas') BY <1>10, FS_RemoveElement DEF MInv, AreasOK
    <2> QED BY <1>10, <2>1 DEF MInv, AreasOK
  <1>15. Exact(d)'
    <2>1. \A u \in Int : Holds(x, u) => FIRST <= u /\ u <= LAST /\ \A y \in areas' : ~Holds(y, u)
      BY <1>10 DEF MInv, AreasOK
    <2>2. \A u \in Int : (\A y \in areas : ~Holds(y, u))
                         <=> ~Holds(x, u) /\ \A y \in areas' : ~Holds(y, u) BY <1>10
    <2> QED BY <1>1, <1>12, <1>13, <2>1, <2>2 DEF Exact
  <1> QED BY <1>12, <1>14, <1>15 DEF MInv

-------------------------------------------------------------------------------
(* First fit. *)

(* A run of free units is within one area of the array.                    *)
LEMMA RunInArea ==
    ASSUME MapAssumption, NEW e, Good(map, e), Exact(e), NEW a \in Int, NEW n \in Nat, n > 0,
           \A u \in Int : In(u, a, n) => Covers(map, e, u)
    PROVE  \E k \in 1 .. e - 1 : map[k].addr <= a /\ a + n <= map[k].addr + map[k].size
  <1>1. /\ CELLS \in Nat /\ e \in Nat
        /\ \A j \in 1 .. e - 1 : /\ map[j].addr \in Nat /\ map[j].size \in Nat
                                 /\ map[j].size > 0 BY AreasTyped DEF MapAssumption
  <1>2. In(a, a, n) BY DEF In
  <1>3. PICK k \in 1 .. e - 1 : In(a, map[k].addr, map[k].size) BY <1>2 DEF Covers
  <1> DEFINE z == map[k].addr + map[k].size
  <1>4. z \in Int /\ map[k].addr <= a /\ a < z BY <1>1, <1>3 DEF In
  <1>5. ASSUME z < a + n PROVE FALSE
    <2>1. In(z, a, n) BY <1>4, <1>5 DEF In
    <2>2. PICK j \in 1 .. e - 1 : In(z, map[j].addr, map[j].size) BY <1>4, <2>1 DEF Covers
    <2>3. CASE j = k BY <1>1, <2>2, <2>3 DEF In
    <2>4. CASE j < k
      <3>1. map[j].addr + map[j].size < map[k].addr BY <2>4 DEF Good
      <3> QED BY <1>1, <2>2, <3>1 DEF In
    <2>5. CASE k < j
      <3>1. z < map[j].addr BY <2>5 DEF Good
      <3> QED BY <1>1, <2>2, <3>1 DEF In
    <2> QED BY <1>1, <2>3, <2>4, <2>5
  <1>6. a + n <= z BY <1>4, <1>5
  <1> QED BY <1>4, <1>6

(* Run is In, as a set. *)
LEMMA RunIs ==
    ASSUME NEW a \in Int, NEW n \in Int
    PROVE  Run(a, n) \subseteq Int /\ \A u \in Int : u \in Run(a, n) <=> In(u, a, n)
  BY DEF Run, In

(* The invariant says all that FirstFit does. *)
LEMMA MInvFirstFit ==
    ASSUME MapAssumption, MInv PROVE FirstFit
  <1>1. PICK e \in 1 .. CELLS : Good(map, e) /\ Exact(e) BY DEF MInv
  <1>2. /\ CELLS \in Nat /\ End = e /\ Live = 1 .. e - 1 /\ e \in Nat /\ FIRST \in Nat /\ FIRST > 0
        /\ \A j \in Live : /\ map[j].addr \in Nat /\ map[j].size \in Nat /\ map[j].size > 0
    BY <1>1, EndIs, AreasTyped DEF MapAssumption, Live
  <1>3. FreeUnits \subseteq Int /\ \A u \in Int : u \in FreeUnits <=> Covers(map, e, u)
    <2>1. \A x \in areas, u \in Int : u \in Run(x[1], x[2]) <=> Holds(x, u)
      <3> SUFFICES ASSUME NEW x \in areas, NEW u \in Int
                   PROVE  u \in Run(x[1], x[2]) <=> Holds(x, u) OBVIOUS
      <3>1. x[1] \in Int /\ x[2] \in Int BY DEF MInv, AreasOK
      <3> QED BY <3>1, RunIs DEF Holds
    <2>2. FreeUnits \subseteq Int BY DEF FreeUnits
    <2>3. \A u \in Int : u \in FreeUnits <=> /\ FIRST <= u /\ u <= LAST
                                             /\ \A x \in areas : ~Holds(x, u)
      BY <2>1 DEF FreeUnits, Given, MapAssumption
    <2> QED BY <1>1, <2>2, <2>3 DEF Exact
  <1>4. UNION {Run(map[k].addr, map[k].size) : k \in Live} = FreeUnits
    <2>1. \A k \in Live : /\ Run(map[k].addr, map[k].size) \subseteq Int
                          /\ \A u \in Int : u \in Run(map[k].addr, map[k].size)
                                            <=> In(u, map[k].addr, map[k].size)
      BY <1>2, RunIs
    <2>2. \A u \in Int : Covers(map, e, u) <=> \E k \in Live : u \in Run(map[k].addr, map[k].size)
      BY <1>2, <2>1 DEF Covers
    <2> QED BY <1>3, <2>1, <2>2
  <1>5. \A j, k \in Live : j < k => map[j].addr + map[j].size < map[k].addr
    BY <1>1, <1>2 DEF Good
  <1>6. \A k \in End .. CELLS : map[k].size = 0 BY <1>1, <1>2 DEF Good
  <1>7. ASSUME NEW n \in 1 .. LAST - FIRST + 1
        PROVE  LET S == {a \in FreeUnits : Run(a, n) \subseteq FreeUnits}
               IN  First(n) = IF S = {} THEN 0 ELSE LeastOf(S)
    <2> DEFINE S == {a \in FreeUnits : Run(a, n) \subseteq FreeUnits}
    <2>1. n \in Int /\ n > 0 /\ n \in Nat BY <1>2 DEF MapAssumption
    <2>2. \A a \in S : a \in Int /\ \E k \in Roomy(n) : map[k].addr <= a
      <3> SUFFICES ASSUME NEW a \in S PROVE a \in Int /\ \E k \in Roomy(n) : map[k].addr <= a
        OBVIOUS
      <3>1. a \in Int BY <1>3
      <3>2. \A u \in Int : In(u, a, n) => Covers(map, e, u) BY <1>3, <2>1, <3>1, RunIs
      <3>3. PICK k \in 1 .. e - 1 : map[k].addr <= a /\ a + n <= map[k].addr + map[k].size
        BY <1>1, <2>1, <3>1, <3>2, RunInArea
      <3>4. map[k].size >= n BY <1>2, <2>1, <3>1, <3>3
      <3> QED BY <1>2, <3>1, <3>3, <3>4 DEF Roomy
    <2>3. \A k \in Roomy(n) : map[k].addr \in S
      <3> SUFFICES ASSUME NEW k \in Roomy(n) PROVE map[k].addr \in S OBVIOUS
      <3>1. k \in 1 .. e - 1 /\ map[k].size >= n /\ map[k].addr \in Nat /\ map[k].size \in Nat
        BY <1>2 DEF Roomy
      <3>2. \A u \in Int : In(u, map[k].addr, n) => Covers(map, e, u)
        <4> SUFFICES ASSUME NEW u \in Int, In(u, map[k].addr, n) PROVE Covers(map, e, u)
          OBVIOUS
        <4>1. In(u, map[k].addr, map[k].size) BY <2>1, <3>1 DEF In
        <4> QED BY <3>1, <4>1 DEF Covers
      <3>3. In(map[k].addr, map[k].addr, n) BY <2>1, <3>1 DEF In
      <3>4. Run(map[k].addr, n) \subseteq Int
            /\ \A u \in Int : u \in Run(map[k].addr, n) <=> In(u, map[k].addr, n)
        BY <2>1, <3>1, RunIs
      <3>5. Run(map[k].addr, n) \subseteq FreeUnits /\ map[k].addr \in FreeUnits
        BY <1>3, <3>1, <3>2, <3>3, <3>4
      <3> QED BY <3>5
    <2>4. CASE Roomy(n) = {}
      <3>1. S = {} BY <2>2, <2>4
      <3> QED BY <2>4, <3>1 DEF First
    <2>5. CASE Roomy(n) # {}
      <3> DEFINE k == LeastOf(Roomy(n))
      <3>1. k \in Roomy(n) /\ \A j \in Roomy(n) : k <= j
        <4>1. Roomy(n) \subseteq 1 .. e - 1 /\ e - 1 \in Nat BY <1>1, <1>2 DEF Roomy
        <4> QED BY <2>5, <4>1, LeastOfBelow
      <3> HIDE DEF k
      <3>2. \A a \in S : map[k].addr <= a
        <4> SUFFICES ASSUME NEW a \in S PROVE map[k].addr <= a OBVIOUS
        <4>1. PICK j \in Roomy(n) : map[j].addr <= a BY <2>2
        <4>2. /\ j \in Live /\ k \in Live /\ k <= j /\ a \in Int BY <2>2, <3>1 DEF Roomy
        <4>3. map[k].addr <= map[j].addr
          <5>1. CASE k = j BY <1>2, <4>2, <5>1
          <5>2. CASE k < j
            <6>1. map[k].addr + map[k].size < map[j].addr BY <1>5, <4>2, <5>2
            <6> QED BY <1>2, <4>2, <6>1
          <5> QED BY <1>2, <4>2, <5>1, <5>2
        <4> QED BY <1>2, <4>1, <4>2, <4>3
      <3>3. map[k].addr \in S /\ S \in SUBSET Int BY <2>2, <2>3, <3>1
      <3>4. LeastOf(S) = map[k].addr
        <4> HIDE DEF S
        <4> QED BY <3>2, <3>3, LeastOfIs
      <3>5. First(n) = map[k].addr BY <2>5 DEF First, k
      <3> QED BY <3>3, <3>4, <3>5
    <2> QED BY <2>4, <2>5
  <1>8. Cardinality(Live) <= Cardinality(areas) + 1
    <2>1. \A k \in 1 .. e - 2 : \E x \in areas : x[1] = map[k].addr + map[k].size
      BY <1>1, AreaBehind DEF MInv
    <2>2. e <= Cardinality(areas) + 2 /\ Cardinality(areas) \in Nat
      BY <1>1, <1>2, <2>1, AreasCounted DEF MInv, AreasOK
    <2>3. Cardinality(1 .. e - 1) = IF 1 > e - 1 THEN 0 ELSE e - 1 - 1 + 1
      BY <1>2, FS_Interval
    <2> QED BY <1>2, <2>2, <2>3
  <1> QED BY <1>4, <1>5, <1>6, <1>7, <1>8 DEF FirstFit

-------------------------------------------------------------------------------
Fits == Cardinality(areas) + 2 <= CELLS

(* Every step keeps the invariant. *)
LEMMA NextMInv ==
    ASSUME MapAssumption, MInv, Fits, [Next]_vars PROVE MInv'
  <1>1. CASE \E n \in Sizes : Malloc(n) BY <1>1, MallocMInv
  <1>2. CASE \E x \in areas : Mfree(x[1], x[2]) BY <1>2, MfreeMInv DEF Fits
  <1>3. CASE \E x \in areas, t \in Sizes : Donate(x[1], x[2], t) BY <1>3, DonateMInv
  <1>4. CASE UNCHANGED vars BY <1>4 DEF MInv, AreasOK, Exact, vars
  <1> QED BY <1>1, <1>2, <1>3, <1>4 DEF Next

(* The array is a set of free units under first fit, for any memory, any   *)
(* sizes and any order of requests, releases and splits.  mfree never      *)
(* looks at the size of the array, so this is so only while the array has  *)
(* two cells more than there are areas given out: one for the free area    *)
(* that may lie before or behind them, one for the terminator.             *)
THEOREM MapIsFirstFit ==
    ASSUME MapAssumption PROVE Spec /\ []Fits => []FirstFit
  <1>1. Init => MInv BY InitMInv
  <1>2. MInv /\ Fits /\ [Next]_vars => MInv' BY NextMInv
  <1>3. MInv => FirstFit BY MInvFirstFit
  <1> QED BY <1>1, <1>2, <1>3, PTL DEF Spec
===============================================================================
