------------------------------ MODULE ResourceMap ------------------------------
(***************************************************************************)
(* coremap and swapmap (KEN/MALLOC.C): an array of free areas in order of  *)
(* address, up to the first of size 0.  The array is shifted in place, so  *)
(* its cells past the end matter: mfree writes the last area over the      *)
(* terminator and trusts the cell behind it to be one.                     *)
(***************************************************************************)
EXTENDS Integers, FiniteSets

CONSTANTS
    FIRST, LAST,    \* main's mfree(map, LAST - FIRST + 1, FIRST)
    CELLS,          \* cells in the array
    Sizes           \* what is asked for

MapAssumption ==
    /\ FIRST \in Nat \ {0} /\ LAST \in Nat /\ FIRST <= LAST
    /\ CELLS \in Nat \ {0, 1} /\ Sizes \subseteq Nat \ {0}

VARIABLES
    map,    \* the array
    areas   \* what is allocated: <<address, size>>

vars == <<map, areas>>

Area(a, n) == [addr |-> a, size |-> n]
Init ==
    /\ map = [k \in 1..CELLS |-> IF k = 1 THEN Area(FIRST, LAST - FIRST + 1) ELSE Area(0, 0)]
    /\ areas = {}

-------------------------------------------------------------------------------
LeastOf(S) == CHOOSE k \in S : \A j \in S : k <= j
End        == LeastOf({k \in 1..CELLS : map[k].size = 0})
Live       == 1..End-1

(* malloc: the first area that is large enough.                            *)
Roomy(n) == {k \in Live : map[k].size >= n}
First(n) == IF Roomy(n) = {} THEN 0 ELSE map[LeastOf(Roomy(n))].addr

(* Cell k goes: all behind it move down, the terminator last.              *)
ClosedShort(m, k) == [j \in 1..CELLS |-> IF j \in k..End-2 THEN m[j + 1] ELSE m[j]]
Closed(m, k) == [j \in 1..CELLS |-> IF j \in k..End-1 THEN m[j + 1] ELSE m[j]]
Cut(k, n) ==
    LET m == [map EXCEPT ![k] = Area(@.addr + n, @.size - n)]
    IN  IF map[k].size = n THEN Closed(m, k) ELSE m

Malloc(n) ==
    /\ Roomy(n) # {}
    /\ map' = Cut(LeastOf(Roomy(n)), n)
    /\ areas' = areas \cup {<<First(n), n>>}

(* mfree: before cell k, which is the first beyond it or the terminator.   *)
Place(a) == LeastOf({k \in 1..End : k = End \/ map[k].addr > a})

(* The new area displaces all behind it but the terminator.                *)
Opened(a, n, k) ==
    [j \in 1..CELLS |-> CASE j = k        -> Area(a, n)
                          [] j \in k+1..End -> map[j - 1]
                          [] OTHER        -> map[j]]
Returned(a, n) ==
    LET k == Place(a)
        up == [map EXCEPT ![k - 1].size = @ + n]
    IN  IF k > 1 /\ map[k - 1].addr + map[k - 1].size = a
        THEN IF a + n = map[k].addr
             THEN Closed([up EXCEPT ![k - 1].size = @ + map[k].size], k)
             ELSE up
        ELSE IF a + n = map[k].addr /\ map[k].size # 0
             THEN [map EXCEPT ![k] = Area(@.addr - n, @.size + n)]
             ELSE Opened(a, n, k)

Mfree(a, n) ==
    /\ map' = Returned(a, n)
    /\ areas' = areas \ {<<a, n>>}

(* swgrow: a block gives its tail away; the two are released apart.        *)
Donate(a, n, t) ==
    /\ t < n
    /\ areas' = (areas \ {<<a, n>>}) \cup {<<a, n - t>>, <<a + n - t, t>>}
    /\ UNCHANGED map

Next ==
    \/ \E n \in Sizes : Malloc(n)
    \/ \E x \in areas : Mfree(x[1], x[2])
    \/ \E x \in areas, t \in Sizes : Donate(x[1], x[2], t)
Spec == Init /\ [][Next]_vars

-------------------------------------------------------------------------------
Run(a, n) == a..a+n-1
Given     == UNION {Run(x[1], x[2]) : x \in areas}
FreeUnits == FIRST..LAST \ Given

(* The array is what ProcSwap takes it for, the set of free units under    *)
(* first fit, after any splits and releases in any order: the areas of the *)
(* array are the runs of free units, apart and in order; each request gets *)
(* the lowest run with room; the cells behind the terminator stay 0; and   *)
(* there are never more free areas than allocated ones and one more, which *)
(* is what bounds the array, for mfree does not look at its size.          *)
FirstFit ==
    /\ UNION {Run(map[k].addr, map[k].size) : k \in Live} = FreeUnits
    /\ \A j, k \in Live : j < k => map[j].addr + map[j].size < map[k].addr
    /\ \A k \in End..CELLS : map[k].size = 0
    /\ \A n \in 1..LAST-FIRST+1 :
        LET S == {a \in FreeUnits : Run(a, n) \subseteq FreeUnits}
        IN  First(n) = IF S = {} THEN 0 ELSE LeastOf(S)
    /\ Cardinality(Live) <= Cardinality(areas) + 1
===============================================================================
