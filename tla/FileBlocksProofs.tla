-------------------------- MODULE FileBlocksProofs ---------------------------
(***************************************************************************)
(* No block of a device is lost or used twice: at every moment each is     *)
(* once in the free list, in one file's map, in what a truncation still    *)
(* has to free, or in one process's hand, for any device, files and        *)
(* processes.                                                              *)
(***************************************************************************)
EXTENDS FileBlocks, ChainLemmas, FunctionTheorems, SequenceTheorems

-------------------------------------------------------------------------------
(* Chains. *)

(* Two chains with no element in common make one. *)
LEMMA ChainConcat ==
    ASSUME NEW S, NEW s, IsChain(s, S), NEW t, IsChain(t, S), Range(s) \cap Range(t) = {}
    PROVE  IsChain(s \o t, S) /\ Range(s \o t) = Range(s) \cup Range(t)
  <1> DEFINE r == s \o t
             m == Len(s)
             n == Len(t)
  <1>1. /\ s \in Seq(S) /\ t \in Seq(S) /\ m \in Nat /\ n \in Nat
        /\ DOMAIN s = 1 .. m /\ DOMAIN t = 1 .. n BY LenProperties DEF IsChain
  <1>2. /\ r \in Seq(S) /\ Len(r) = m + n
        /\ \A i \in 1 .. m + n : r[i] = IF i <= m THEN s[i] ELSE t[i - m]
    BY <1>1, ConcatProperties
  <1>3. DOMAIN r = 1 .. m + n BY <1>2, LenProperties
  <1>4. \A i, j \in 1 .. m : s[i] = s[j] => i = j BY <1>1 DEF IsChain, IsInjective
  <1>5. \A i, j \in 1 .. n : t[i] = t[j] => i = j BY <1>1 DEF IsChain, IsInjective
  <1>6. \A i \in 1 .. m, j \in 1 .. n : s[i] # t[j] BY <1>1 DEF Range
  <1>7. \A i \in 1 .. m : r[i] = s[i] BY <1>1, <1>2
  <1>8. \A j \in 1 .. n : r[m + j] = t[j] /\ m + j \in 1 .. m + n BY <1>1, <1>2
  <1>9. \A i \in 1 .. m + n : i \in 1 .. m \/ (i - m \in 1 .. n /\ i = m + (i - m)) BY <1>1
  <1> HIDE DEF r, m, n
  <1>10. \A i, j \in 1 .. m + n : r[i] = r[j] => i = j
    <2> SUFFICES ASSUME NEW i \in 1 .. m + n, NEW j \in 1 .. m + n, r[i] = r[j] PROVE i = j
      OBVIOUS
    <2>1. CASE i \in 1 .. m /\ j \in 1 .. m BY <2>1, <1>4, <1>7
    <2>0. i = m + (i - m) /\ j = m + (j - m) BY <1>1 DEF m
    <2>2. CASE i \in 1 .. m /\ j - m \in 1 .. n
      <3>1. r[m + (j - m)] = t[j - m] BY <2>2, <1>8
      <3> QED BY <2>0, <2>2, <3>1, <1>6, <1>7
    <2>3. CASE i - m \in 1 .. n /\ j \in 1 .. m
      <3>1. r[m + (i - m)] = t[i - m] BY <2>3, <1>8
      <3> QED BY <2>0, <2>3, <3>1, <1>6, <1>7
    <2>4. CASE i - m \in 1 .. n /\ j - m \in 1 .. n
      <3>1. r[i] = t[i - m] /\ r[j] = t[j - m]
        <4>1. i = m + (i - m) /\ j = m + (j - m) BY <1>1
        <4> QED BY <2>4, <1>8, <4>1
      <3>2. i - m = j - m BY <2>4, <1>5, <3>1
      <3> QED BY <1>1, <3>2
    <2> QED BY <1>9, <2>1, <2>2, <2>3, <2>4
  <1>11. Range(r) = Range(s) \cup Range(t)
    <2>1. \A i \in 1 .. m + n : r[i] \in Range(s) \cup Range(t)
      <3> SUFFICES ASSUME NEW i \in 1 .. m + n PROVE r[i] \in Range(s) \cup Range(t) OBVIOUS
      <3>1. CASE i \in 1 .. m BY <3>1, <1>1, <1>7 DEF Range
      <3>2. CASE i - m \in 1 .. n /\ i = m + (i - m)
        <4>1. r[i] = t[i - m] BY <3>2, <1>8
        <4> QED BY <3>2, <4>1, <1>1 DEF Range
      <3> QED BY <1>9, <3>1, <3>2
    <2>2. \A i \in 1 .. m : s[i] \in Range(r)
      <3>1. \A i \in 1 .. m : i \in 1 .. m + n BY <1>1
      <3> QED BY <3>1, <1>3, <1>7 DEF Range
    <2>3. \A i \in 1 .. n : t[i] \in Range(r) BY <1>3, <1>8 DEF Range
    <2> QED BY <1>1, <1>3, <2>1, <2>2, <2>3 DEF Range
  <1> QED BY <1>2, <1>3, <1>10, <1>11 DEF IsChain, IsInjective, r

(* One element. *)
LEMMA ChainOne ==
    ASSUME NEW S
    PROVE  /\ IsChain(<<>>, S) /\ Range(<<>>) = {}
           /\ \A x \in S : IsChain(<<x>>, S) /\ Range(<<x>>) = {x}
  <1>1. IsChain(<<>>, S) /\ Range(<<>>) = {} BY DEF IsChain, IsInjective, Range
  <1>2. ASSUME NEW x \in S PROVE IsChain(<<x>>, S) /\ Range(<<x>>) = {x}
    <2>1. <<x>> \in Seq(S) /\ DOMAIN <<x>> = 1 .. 1 /\ <<x>>[1] = x OBVIOUS
    <2> QED BY <2>1 DEF IsChain, IsInjective, Range
  <1> QED BY <1>1, <1>2

(* As many chains as there are, none with an element of another's. *)
LEMMA ChainFlatten ==
    ASSUME NEW S, NEW n \in Nat \ {0}, NEW g \in [1 .. n -> Seq(S)],
           \A i \in 1 .. n : IsChain(g[i], S),
           \A i, j \in 1 .. n : i # j => Range(g[i]) \cap Range(g[j]) = {}
    PROVE  /\ IsChain(FlattenSeq(g), S)
           /\ \A x : x \in Range(FlattenSeq(g)) <=> \E i \in 1 .. n : x \in Range(g[i])
  <1> DEFINE Rec(t, m) == \A i \in 1 .. m : t[i] = IF i = 1 THEN g[i] ELSE t[i - 1] \o g[i]
             Has(m) == \E t \in [1 .. m -> Seq(S)] : Rec(t, m)
             f == CHOOSE t : t = [i \in 1 .. n |-> IF i = 1 THEN g[i] ELSE t[i - 1] \o g[i]]
  <1>0. g \in Seq(Seq(S)) /\ Len(g) = n OBVIOUS
  <1>1. FlattenSeq(g) = f[n] BY <1>0 DEF FlattenSeq
  <1>2. \A m \in 1 .. n : Has(m)
    <2> DEFINE Bad == {m \in 1 .. n : ~ Has(m)}
    <2> SUFFICES ASSUME Bad # {} PROVE FALSE OBVIOUS
    <2>1. PICK m \in Bad : \A j \in Bad : m <= j
      <3>1. Bad \subseteq 1 .. n /\ Bad # {} /\ n \in Nat OBVIOUS
      <3> HIDE DEF Bad
      <3> QED BY <3>1, LeastExists
    <2>2. m \in 1 .. n /\ ~ Has(m) OBVIOUS
    <2>3. CASE m = 1
      <3>1. Rec([i \in 1 .. 1 |-> g[1]], 1) /\ [i \in 1 .. 1 |-> g[1]] \in [1 .. 1 -> Seq(S)]
        OBVIOUS
      <3> HIDE DEF Rec
      <3> QED BY <2>2, <2>3, <3>1
    <2>4. CASE m # 1
      <3>0. m - 1 \in 1 .. n /\ ~ (m <= m - 1) BY <2>2, <2>4
      <3>1. m - 1 \in 1 .. n /\ m - 1 \notin Bad BY ONLY <2>1, <3>0
      <3>2. PICK t \in [1 .. m - 1 -> Seq(S)] : Rec(t, m - 1) BY <3>1
      <3> DEFINE t1 == [i \in 1 .. m |-> IF i = m THEN t[m - 1] \o g[m] ELSE t[i]]
      <3>3. t[m - 1] \o g[m] \in Seq(S) BY <2>2, <3>1, ConcatProperties
      <3>4. t1 \in [1 .. m -> Seq(S)]
        <4>1. \A i \in 1 .. m : i # m => i \in 1 .. m - 1 BY <2>2
        <4> QED BY <3>3, <4>1
      <3>5. Rec(t1, m)
        <4> SUFFICES ASSUME NEW i \in 1 .. m
                     PROVE  t1[i] = IF i = 1 THEN g[i] ELSE t1[i - 1] \o g[i] OBVIOUS
        <4>1. CASE i = m
          <5>1. t1[i] = t[m - 1] \o g[m] BY <4>1
          <5>2. m - 1 \in 1 .. m /\ m - 1 # m BY <2>2, <2>4
          <5>3. t1[m - 1] = t[m - 1] BY <5>2
          <5> QED BY <2>4, <4>1, <5>1, <5>3
        <4>2. CASE i # m
          <5>1. i \in 1 .. m - 1 /\ t1[i] = t[i] BY <4>2, <2>2
          <5>2. i # 1 => i - 1 \in 1 .. m /\ i - 1 # m BY <2>2
          <5>3. i # 1 => t1[i - 1] = t[i - 1] BY <5>2
          <5> QED BY <5>1, <5>3, <3>2
        <4> QED BY <4>1, <4>2
      <3> HIDE DEF Rec, t1
      <3> QED BY <2>2, <3>4, <3>5
    <2> QED BY <2>3, <2>4
  <1>3. PICK t \in [1 .. n -> Seq(S)] : Rec(t, n)
    <2>1. n \in 1 .. n OBVIOUS
    <2> HIDE DEF Rec
    <2> QED BY <2>1, <1>2
  <1>4. t = [i \in 1 .. n |-> IF i = 1 THEN g[i] ELSE t[i - 1] \o g[i]]
    <2>1. t = [i \in 1 .. n |-> t[i]] OBVIOUS
    <2> QED BY <2>1, <1>3
  <1>5. f = [i \in 1 .. n |-> IF i = 1 THEN g[i] ELSE f[i - 1] \o g[i]] BY <1>4
  <1> HIDE DEF f
  <1>6. \A i \in 1 .. n : f[i] = IF i = 1 THEN g[i] ELSE f[i - 1] \o g[i] BY <1>5
  <1> DEFINE Got(i) == UNION {Range(g[j]) : j \in 1 .. i}
             Fine(i) == IsChain(f[i], S) /\ Range(f[i]) = Got(i)
  <1>7. \A i \in 1 .. n : Fine(i)
    <2> DEFINE Bad == {m \in 1 .. n : ~ Fine(m)}
    <2> SUFFICES ASSUME Bad # {} PROVE FALSE OBVIOUS
    <2>1. PICK m \in Bad : \A j \in Bad : m <= j
      <3>1. Bad \subseteq 1 .. n /\ Bad # {} /\ n \in Nat OBVIOUS
      <3> HIDE DEF Bad
      <3> QED BY <3>1, LeastExists
    <2>2. m \in 1 .. n /\ ~ Fine(m) OBVIOUS
    <2>3. CASE m = 1
      <3>0. 1 \in 1 .. n OBVIOUS
      <3>1. f[1] = g[1] BY <1>6, <3>0
      <3>2. 1 .. 1 = {1} OBVIOUS
      <3>3. Got(1) = Range(g[1]) BY <3>2
      <3> QED BY <2>2, <2>3, <3>1, <3>3
    <2>4. CASE m # 1
      <3>0. m - 1 \in 1 .. n /\ ~ (m <= m - 1) BY <2>2, <2>4
      <3>1. m - 1 \in 1 .. n /\ m - 1 \notin Bad BY ONLY <2>1, <3>0
      <3>2. Fine(m - 1) BY <3>1
      <3>3. f[m] = f[m - 1] \o g[m] BY <2>2, <2>4, <1>6
      <3>4. Got(m) = Got(m - 1) \cup Range(g[m])
        <4>1. 1 .. m = (1 .. m - 1) \cup {m} BY <2>2
        <4> QED BY <4>1
      <3>5. Got(m - 1) \cap Range(g[m]) = {}
        <4>1. \A j \in 1 .. m - 1 : j \in 1 .. n /\ j # m BY <2>2
        <4> QED BY <2>2, <4>1
      <3>6. IsChain(f[m - 1], S) /\ Range(f[m - 1]) = Got(m - 1) /\ IsChain(g[m], S)
        BY <2>2, <3>2
      <3> HIDE DEF Got
      <3>7. IsChain(f[m - 1] \o g[m], S) /\ Range(f[m - 1] \o g[m]) = Got(m - 1) \cup Range(g[m])
        BY <3>5, <3>6, ChainConcat
      <3> QED BY <2>2, <3>3, <3>4, <3>7
    <2> QED BY <2>3, <2>4
  <1> QED
    <2>1. Fine(n)
      <3>1. n \in 1 .. n OBVIOUS
      <3> HIDE DEF Fine
      <3> QED BY <1>7, <3>1
    <2>2. \A x : x \in Got(n) <=> \E i \in 1 .. n : x \in Range(g[i]) BY ONLY DEF Got
    <2> HIDE DEF Got
    <2> QED BY <1>1, <2>1, <2>2

-------------------------------------------------------------------------------
(* The free list: s in the superblock, then what each list's first block   *)
(* holds, until a first block is 0.  S are the blocks it lists, each once. *)
Cells == 0 .. NBLOCK
Linked(st, s, n, ch) ==
    /\ n \in Nat /\ ch \in [0 .. n -> Seq(Cells)] /\ ch[0] = s
    /\ \A k \in 0 .. n - 1 : ch[k] # <<>> /\ ch[k][1] # 0 /\ ch[k + 1] = st[ch[k][1]]
    /\ ch[n] = <<>> \/ ch[n][1] = 0
    /\ \A k \in 0 .. n : \A j \in 2 .. Len(ch[k]) : ch[k][j] # 0
Once(n, ch) ==
    \A k, l \in 0 .. n : \A i \in 1 .. Len(ch[k]), j \in 1 .. Len(ch[l]) :
        ch[k][i] = ch[l][j] /\ ch[k][i] # 0 => k = l /\ i = j
Listing(n, ch) == {b \in Block : \E k \in 0 .. n : \E j \in 1 .. Len(ch[k]) : ch[k][j] = b}
Listed(st, s, S) == \E n, ch : Linked(st, s, n, ch) /\ Once(n, ch) /\ S = Listing(n, ch)

(* Its parts are lists of blocks, 0 aside. *)
LEMMA LinkedTypes ==
    ASSUME BlocksAssumption, NEW st, NEW s, NEW n, NEW ch, Linked(st, s, n, ch)
    PROVE  /\ n \in Nat /\ s \in Seq(Cells)
           /\ \A k \in 0 .. n : ch[k] \in Seq(Cells) /\ Len(ch[k]) \in Nat
           /\ \A k \in 0 .. n : \A j \in 1 .. Len(ch[k]) : ch[k][j] \in Cells /\ (ch[k][j] # 0 => ch[k][j] \in Listing(n, ch))
           /\ \A k \in 0 .. n : ch[k] = <<>> <=> Len(ch[k]) = 0
  <1>1. n \in Nat /\ ch \in [0 .. n -> Seq(Cells)] /\ ch[0] = s /\ 0 \in 0 .. n
    BY DEF Linked
  <1>2. \A k \in 0 .. n : ch[k] \in Seq(Cells) BY <1>1
  <1>3. \A k \in 0 .. n : Len(ch[k]) \in Nat /\ (ch[k] = <<>> <=> Len(ch[k]) = 0)
    BY <1>2, EmptySeq, LenProperties
  <1>4. ASSUME NEW k \in 0 .. n, NEW j \in 1 .. Len(ch[k])
        PROVE  ch[k][j] \in Cells /\ (ch[k][j] # 0 => ch[k][j] \in Listing(n, ch))
    <2>1. ch[k][j] \in Cells BY <1>2, ElementOfSeq
    <2>2. ch[k][j] # 0 => ch[k][j] \in Block BY <2>1 DEF Cells, Block, BlocksAssumption
    <2> QED BY <2>1, <2>2 DEF Listing
  <1> QED BY <1>1, <1>2, <1>3, <1>4

LEMMA ListedTypes ==
    ASSUME BlocksAssumption, NEW st, NEW s, NEW S, Listed(st, s, S)
    PROVE  S \subseteq Block /\ s \in Seq(Cells) /\ Len(s) \in Nat
  <1>1. PICK n, ch : Linked(st, s, n, ch) /\ S = Listing(n, ch) BY DEF Listed
  <1> QED BY <1>1, LinkedTypes, LenProperties DEF Listing

(* Only what the listed blocks hold matters. *)
LEMMA ListFrame ==
    ASSUME BlocksAssumption, NEW st, NEW s, NEW S, Listed(st, s, S), NEW st2, \A b \in S : st2[b] = st[b]
    PROVE  Listed(st2, s, S)
  <1>1. PICK n, ch : Linked(st, s, n, ch) /\ Once(n, ch) /\ S = Listing(n, ch) BY DEF Listed
  <1>2. ASSUME NEW k \in 0 .. n - 1 PROVE ch[k + 1] = st2[ch[k][1]]
    <2>1. k \in 0 .. n /\ ch[k] # <<>> /\ ch[k][1] # 0 /\ ch[k + 1] = st[ch[k][1]]
      BY <1>1 DEF Linked
    <2>2. 1 \in 1 .. Len(ch[k]) BY <1>1, <2>1, LinkedTypes
    <2>3. ch[k][1] \in S BY <1>1, <2>1, <2>2, LinkedTypes
    <2> QED BY <2>1, <2>3
  <1>3. Linked(st2, s, n, ch) BY <1>1, <1>2 DEF Linked
  <1> QED BY <1>1, <1>3 DEF Listed

(* The last of a list of several comes off. *)
LEMMA ListPop ==
    ASSUME BlocksAssumption, NEW st, NEW s, NEW S, Listed(st, s, S), Len(s) > 1
    PROVE  Last(s) \in S /\ Listed(st, Front(s), S \ {Last(s)})
  <1>1. PICK n, ch : Linked(st, s, n, ch) /\ Once(n, ch) /\ S = Listing(n, ch) BY DEF Listed
  <1>2. /\ n \in Nat /\ s \in Seq(Cells) /\ ch[0] = s /\ 0 \in 0 .. n
        /\ \A k \in 0 .. n : ch[k] \in Seq(Cells) /\ Len(ch[k]) \in Nat
        /\ \A k \in 0 .. n : \A j \in 1 .. Len(ch[k]) : ch[k][j] \in Cells /\ (ch[k][j] # 0 => ch[k][j] \in S)
    <2>1. ch[0] = s /\ n \in Nat BY <1>1 DEF Linked
    <2> QED BY <1>1, <2>1, LinkedTypes
  <1> DEFINE m == Len(s)
             b == s[m]
             f == Front(s)
             c == [ch EXCEPT ![0] = f]
  <1>3. m \in Nat /\ m > 1 /\ Last(s) = b BY <1>2 DEF Last
  <1>4. b # 0 /\ b \in S
    <2>1. m \in 2 .. Len(ch[0]) BY <1>2, <1>3
    <2>2. ch[0][m] # 0 BY <1>1, <1>2, <2>1 DEF Linked
    <2> QED BY <1>2, <1>3, <2>1, <2>2
  <1>5. f \in Seq(Cells) /\ Len(f) = m - 1 /\ \A j \in 1 .. m - 1 : f[j] = s[j]
    <2>1. \A j \in 1 .. m - 1 : s[j] \in Cells BY <1>2, <1>3
    <2> QED BY <1>3, <2>1, SubSeqProperties DEF Front
  <1>6. /\ c \in [0 .. n -> Seq(Cells)] /\ c[0] = f
        /\ \A k \in 0 .. n : k # 0 => c[k] = ch[k]
    <2>1. ch \in [0 .. n -> Seq(Cells)] BY <1>1 DEF Linked
    <2>2. f \in Seq(Cells) /\ 0 \in 0 .. n BY <1>2, <1>5
    <2> HIDE DEF f
    <2> QED BY <2>1, <2>2
  <1> HIDE DEF m, b, f, c
  <1>7. \A k \in 0 .. n : /\ \A j \in 1 .. Len(c[k]) : j \in 1 .. Len(ch[k]) /\ c[k][j] = ch[k][j]
                          /\ Len(c[k]) = IF k = 0 THEN m - 1 ELSE Len(ch[k])
    BY <1>2, <1>3, <1>5, <1>6 DEF m
  <1>8. Linked(st, f, n, c)
    <2>1. ASSUME NEW k \in 0 .. n - 1 PROVE c[k] # <<>> /\ c[k][1] # 0 /\ c[k + 1] = st[c[k][1]]
      <3>1. k \in 0 .. n /\ k + 1 \in 0 .. n /\ k + 1 # 0 /\ ch[k] # <<>> /\ ch[k][1] # 0 /\ ch[k + 1] = st[ch[k][1]]
        BY <1>1, <1>2 DEF Linked
      <3>2. Len(ch[k]) > 0 BY <1>1, <3>1, LinkedTypes
      <3>3. 1 \in 1 .. Len(c[k]) /\ Len(c[k]) > 0 BY <1>3, <1>7, <3>1, <3>2
      <3>4. c[k][1] = ch[k][1] BY <1>7, <3>1, <3>3
      <3>5. c[k] # <<>> BY <3>3, EmptySeq
      <3> QED BY <1>6, <3>1, <3>4, <3>5
    <2>2. c[n] = <<>> \/ c[n][1] = 0
      <3>1. CASE n # 0 BY <1>1, <1>2, <1>6, <3>1 DEF Linked
      <3>2. CASE n = 0
        <4>1. 1 \in 1 .. Len(c[0]) BY <1>2, <1>3, <1>7
        <4>2. c[0][1] = ch[0][1] /\ ch[0] # <<>> BY <1>2, <1>3, <1>7, <4>1, EmptySeq DEF m
        <4> QED BY <1>1, <3>2, <4>2 DEF Linked
      <3> QED BY <3>1, <3>2
    <2>3. ASSUME NEW k \in 0 .. n, NEW j \in 2 .. Len(c[k]) PROVE c[k][j] # 0
      <3>1. Len(c[k]) \in Int BY <1>2, <1>3, <1>7
      <3>2. j \in 1 .. Len(c[k]) BY <3>1
      <3>3. c[k][j] = ch[k][j] /\ j \in 2 .. Len(ch[k]) BY <1>2, <1>7, <3>2
      <3> QED BY <1>1, <3>3 DEF Linked
    <2> QED BY <1>2, <1>6, <2>1, <2>2, <2>3 DEF Linked
  <1>9. Once(n, c) BY <1>1, <1>7 DEF Once
  <1>10. Listing(n, c) = S \ {b}
    <2>1. ASSUME NEW x \in Listing(n, c) PROVE x \in S /\ x # b
      <3>0. PICK k \in 0 .. n : \E j \in 1 .. Len(c[k]) : c[k][j] = x BY DEF Listing
      <3>1. PICK j \in 1 .. Len(c[k]) : c[k][j] = x BY <3>0
      <3>2. j \in 1 .. Len(ch[k]) /\ ch[k][j] = x /\ x \in Block BY <1>7, <3>1 DEF Listing
      <3>3. x \in S BY <1>1, <3>2 DEF Listing
      <3>4. x # b
        <4> SUFFICES ASSUME x = b PROVE FALSE OBVIOUS
        <4>1. m \in 1 .. Len(ch[0]) /\ ch[0][m] = b BY <1>2, <1>3 DEF m, b
        <4>2. k = 0 /\ j = m BY <1>1, <1>2, <1>4, <3>2, <4>1 DEF Once
        <4> QED BY <1>3, <1>7, <4>2, <3>1
      <3> QED BY <3>3, <3>4
    <2>2. ASSUME NEW x \in S, x # b PROVE x \in Listing(n, c)
      <3>0. PICK k \in 0 .. n : \E j \in 1 .. Len(ch[k]) : ch[k][j] = x BY <1>1 DEF Listing
      <3>1. PICK j \in 1 .. Len(ch[k]) : ch[k][j] = x BY <3>0
      <3>2. j \in 1 .. Len(c[k])
        <4>1. CASE k # 0 BY <4>1, <1>6
        <4>2. CASE k = 0
          <5>1. j # m BY <4>2, <3>1, <2>2, <1>2 DEF b
          <5> QED BY <4>2, <5>1, <1>2, <1>3, <1>7 DEF m
        <4> QED BY <4>1, <4>2
      <3> QED BY <1>1, <1>7, <3>1, <3>2 DEF Listing
    <2> QED BY <2>1, <2>2
  <1> QED BY <1>3, <1>4, <1>8, <1>9, <1>10 DEF Listed, f

(* The only one of a list comes off: what it holds is the list. *)
LEMMA ListShift ==
    ASSUME BlocksAssumption, NEW st, NEW b \in Block, NEW S, Listed(st, <<b>>, S)
    PROVE  b \in S /\ Listed(st, st[b], S \ {b})
  <1>1. PICK n, ch : Linked(st, <<b>>, n, ch) /\ Once(n, ch) /\ S = Listing(n, ch)
    BY DEF Listed
  <1>2. /\ n \in Nat /\ ch[0] = <<b>> /\ 0 \in 0 .. n /\ b # 0
        /\ \A k \in 0 .. n : ch[k] \in Seq(Cells) /\ Len(ch[k]) \in Nat
        /\ Len(ch[0]) = 1 /\ ch[0][1] = b
    <2>1. ch[0] = <<b>> /\ n \in Nat BY <1>1 DEF Linked
    <2> QED BY <1>1, <2>1, LinkedTypes DEF Block, BlocksAssumption
  <1>3. n - 1 \in Nat
    <2>1. ch[0] # <<>> BY <1>2
    <2> QED BY <1>1, <1>2, <2>1 DEF Linked
  <1>0. \A k, l \in 0 .. n : \A i \in 1 .. Len(ch[k]), j \in 1 .. Len(ch[l]) :
            ch[k][i] = ch[l][j] /\ ch[k][i] # 0 => k = l /\ i = j BY <1>1 DEF Once
  <1>4. b \in S
    <2>1. 1 \in 1 .. Len(ch[0]) BY <1>2
    <2> QED BY <1>1, <1>2, <2>1, LinkedTypes
  <1> DEFINE m == n - 1
             c == [k \in 0 .. m |-> ch[k + 1]]
  <1>5. /\ c \in [0 .. m -> Seq(Cells)] /\ \A k \in 0 .. m : k + 1 \in 0 .. n /\ c[k] = ch[k + 1]
        /\ m \in Nat /\ m + 1 = n
    <2>1. \A k \in 0 .. m : k + 1 \in 0 .. n BY <1>2, <1>3
    <2> QED BY <1>2, <1>3, <2>1
  <1>6. \A k \in 0 .. n : k # 0 => k - 1 \in 0 .. m /\ c[k - 1] = ch[k] BY <1>2, <1>3
  <1> HIDE DEF m, c
  <1>7. Linked(st, st[b], m, c)
    <2>1. c[0] = st[b]
      <3>1. 0 \in 0 .. n - 1 /\ 0 \in 0 .. m BY <1>3, <1>5
      <3>2. ch[0 + 1] = st[ch[0][1]] BY <1>1, <3>1 DEF Linked
      <3> QED BY <1>2, <1>5, <3>1, <3>2
    <2>2. ASSUME NEW k \in 0 .. m - 1 PROVE c[k] # <<>> /\ c[k][1] # 0 /\ c[k + 1] = st[c[k][1]]
      <3>1. k \in 0 .. m /\ k + 1 \in 0 .. m /\ k + 1 \in 0 .. n - 1 BY <1>5
      <3> QED BY <1>1, <1>5, <3>1 DEF Linked
    <2>3. c[m] = <<>> \/ c[m][1] = 0
      <3>1. m \in 0 .. m BY <1>5
      <3> QED BY <1>1, <1>5, <3>1 DEF Linked
    <2>4. ASSUME NEW k \in 0 .. m, NEW j \in 2 .. Len(c[k]) PROVE c[k][j] # 0
      <3>1. k + 1 \in 0 .. n /\ c[k] = ch[k + 1] BY <1>5
      <3> QED BY <1>1, <3>1 DEF Linked
    <2> QED BY <1>5, <2>1, <2>2, <2>3, <2>4 DEF Linked
  <1>8. Once(m, c)
    <2> SUFFICES ASSUME NEW k \in 0 .. m, NEW l \in 0 .. m, NEW i \in 1 .. Len(c[k]), NEW j \in 1 .. Len(c[l]),
                        c[k][i] = c[l][j], c[k][i] # 0 PROVE k = l /\ i = j BY DEF Once
    <2>0. k + 1 \in 0 .. n /\ c[k] = ch[k + 1] /\ l + 1 \in 0 .. n /\ c[l] = ch[l + 1]
      BY <1>5
    <2>1. k + 1 = l + 1 /\ i = j BY <1>0, <2>0
    <2> QED BY <1>5, <2>1
  <1>9. Listing(m, c) = S \ {b}
    <2>1. ASSUME NEW x \in Listing(m, c) PROVE x \in S /\ x # b
      <3>0. PICK k \in 0 .. m : \E j \in 1 .. Len(c[k]) : c[k][j] = x BY DEF Listing
      <3>1. PICK j \in 1 .. Len(c[k]) : c[k][j] = x BY <3>0
      <3>2. k + 1 \in 0 .. n /\ k + 1 # 0 /\ j \in 1 .. Len(ch[k + 1]) /\ ch[k + 1][j] = x /\ x \in Block
        BY <1>5, <3>1 DEF Listing
      <3>3. x \in S BY <1>1, <3>2 DEF Listing
      <3>4. x # b
        <4> SUFFICES ASSUME x = b PROVE FALSE OBVIOUS
        <4>1. 1 \in 1 .. Len(ch[0]) BY <1>2
        <4>2. ch[0][1] = ch[k + 1][j] /\ ch[0][1] # 0 BY <1>2, <3>2
        <4>3. 0 = k + 1 BY <1>0, <1>2, <3>2, <4>1, <4>2
        <4> QED BY <3>2, <4>3
      <3> QED BY <3>3, <3>4
    <2>2. ASSUME NEW x \in S, x # b PROVE x \in Listing(m, c)
      <3>0. PICK k \in 0 .. n : \E j \in 1 .. Len(ch[k]) : ch[k][j] = x BY <1>1 DEF Listing
      <3>1. PICK j \in 1 .. Len(ch[k]) : ch[k][j] = x BY <3>0
      <3>2. k # 0
        <4> SUFFICES ASSUME k = 0 PROVE FALSE OBVIOUS
        <4>1. j = 1 BY <1>2, <3>1
        <4> QED BY <1>2, <2>2, <3>1, <4>1
      <3>3. k - 1 \in 0 .. m /\ j \in 1 .. Len(c[k - 1]) /\ c[k - 1][j] = x
        BY <1>6, <3>1, <3>2
      <3> QED BY <1>1, <3>3 DEF Listing
    <2> QED BY <2>1, <2>2
  <1> QED BY <1>4, <1>7, <1>8, <1>9 DEF Listed

(* An empty list, and one with 0 at its top, list nothing. *)
LEMMA ListNone ==
    ASSUME BlocksAssumption, NEW st
    PROVE  /\ Listed(st, <<>>, {}) /\ Listed(st, << 0 >>, {})
           /\ \A s, S : Listed(st, s, S) /\ (s = <<>> \/ Last(s) = 0) => S = {}
  <1>1. ASSUME NEW s \in {<<>>, << 0 >>} PROVE Listed(st, s, {})
    <2> DEFINE c == [k \in 0 .. 0 |-> s]
    <2>1. s \in Seq(Cells) /\ (s = <<>> \/ s[1] = 0) /\ \A j \in 1 .. Len(s) : j = 1 /\ s[j] = 0
      <3>1. 0 \in Cells BY DEF Cells, BlocksAssumption
      <3>2. CASE s = <<>> BY <3>2
      <3>3. CASE s = << 0 >>
        <4>1. << 0 >> \in Seq(Cells) BY <3>1
        <4> QED BY <3>3, <4>1
      <3> QED BY <3>2, <3>3
    <2>2. c \in [0 .. 0 -> Seq(Cells)] /\ c[0] = s /\ \A k \in 0 .. 0 : k = 0 BY <2>1
    <2> HIDE DEF c
    <2>3. Linked(st, s, 0, c)
      <3>1. 0 .. 0 - 1 = {} /\ \A j \in 2 .. Len(s) : j \in 1 .. Len(s) /\ j # 1 OBVIOUS
      <3> QED BY <2>1, <2>2, <3>1 DEF Linked
    <2>4. Once(0, c) /\ Listing(0, c) = {} BY <2>1, <2>2 DEF Once, Listing, Block
    <2> QED BY <2>3, <2>4 DEF Listed
  <1>2. ASSUME NEW s, NEW S, Listed(st, s, S), s = <<>> \/ Last(s) = 0 PROVE S = {}
    <2>1. PICK n, ch : Linked(st, s, n, ch) /\ Once(n, ch) /\ S = Listing(n, ch)
      BY <1>2 DEF Listed
    <2>2. /\ n \in Nat /\ ch[0] = s /\ 0 \in 0 .. n /\ Len(s) \in Nat /\ (s = <<>> <=> Len(s) = 0)
      <3>1. ch[0] = s /\ n \in Nat BY <2>1 DEF Linked
      <3> QED BY <2>1, <3>1, LinkedTypes
    <2>3. Len(s) <= 1 /\ \A j \in 1 .. Len(s) : s[j] = 0
      <3>1. CASE s = <<>> BY <2>2, <3>1
      <3>2. CASE s # <<>>
        <4>1. s[Len(s)] = 0 BY <1>2, <3>2 DEF Last
        <4>2. \A j \in 2 .. Len(s) : s[j] # 0 BY <2>1, <2>2 DEF Linked
        <4>3. Len(s) \notin 2 .. Len(s) BY <4>1, <4>2
        <4> QED BY <2>2, <4>1, <4>3
      <3> QED BY <3>1, <3>2
    <2>4. n = 0
      <3> SUFFICES ASSUME n # 0 PROVE FALSE OBVIOUS
      <3>1. 0 \in 0 .. n - 1 BY <2>2
      <3>2. s # <<>> /\ s[1] # 0 BY <2>1, <2>2, <3>1 DEF Linked
      <3> QED BY <2>2, <2>3, <3>2
    <2> QED BY <2>1, <2>2, <2>3, <2>4 DEF Listing, Block
  <1> QED BY <1>1, <1>2

(* A block goes onto a list. *)
LEMMA ListPush ==
    ASSUME BlocksAssumption, NEW st, NEW s, NEW S, Listed(st, s, S), s # <<>>, NEW b \in Block, b \notin S
    PROVE  Listed(st, Append(s, b), S \cup {b})
  <1>1. PICK n, ch : Linked(st, s, n, ch) /\ Once(n, ch) /\ S = Listing(n, ch) BY DEF Listed
  <1>2. /\ n \in Nat /\ s \in Seq(Cells) /\ ch[0] = s /\ 0 \in 0 .. n /\ ch \in [0 .. n -> Seq(Cells)]
        /\ \A k \in 0 .. n : ch[k] \in Seq(Cells) /\ Len(ch[k]) \in Nat /\ (ch[k] = <<>> <=> Len(ch[k]) = 0)
        /\ \A k \in 0 .. n : \A j \in 1 .. Len(ch[k]) : ch[k][j] \in Cells /\ (ch[k][j] # 0 => ch[k][j] \in S)
    <2>1. ch[0] = s /\ n \in Nat /\ ch \in [0 .. n -> Seq(Cells)] BY <1>1 DEF Linked
    <2>2. /\ s \in Seq(Cells)
          /\ \A k \in 0 .. n : ch[k] \in Seq(Cells) /\ Len(ch[k]) \in Nat
          /\ \A k \in 0 .. n : \A j \in 1 .. Len(ch[k]) : ch[k][j] \in Cells /\ (ch[k][j] # 0 => ch[k][j] \in Listing(n, ch))
          /\ \A k \in 0 .. n : ch[k] = <<>> <=> Len(ch[k]) = 0 BY <1>1, LinkedTypes
    <2>3. 0 \in 0 .. n BY <2>1
    <2> QED BY <1>1, <2>1, <2>2, <2>3
  <1> DEFINE m == Len(s) + 1
             f == Append(s, b)
             c == [ch EXCEPT ![0] = f]
  <1>3. m \in Nat /\ m >= 2 /\ b \in Cells /\ b # 0
    BY <1>2 DEF Cells, Block, BlocksAssumption
  <1>4. f \in Seq(Cells) /\ Len(f) = m /\ f[m] = b /\ \A j \in 1 .. m - 1 : f[j] = s[j]
    BY <1>2, <1>3
  <1>5. c \in [0 .. n -> Seq(Cells)] /\ c[0] = f /\ \A k \in 0 .. n : k # 0 => c[k] = ch[k]
    <2>1. f \in Seq(Cells) BY <1>4
    <2> HIDE DEF f
    <2> QED BY <1>2, <2>1
  <1> HIDE DEF f, c
  <1>6. \A k \in 0 .. n : \A j \in 1 .. Len(c[k]) :
            \/ k = 0 /\ j = m /\ c[k][j] = b
            \/ j \in 1 .. Len(ch[k]) /\ c[k][j] = ch[k][j]
    <2> SUFFICES ASSUME NEW k \in 0 .. n, NEW j \in 1 .. Len(c[k])
                 PROVE  \/ k = 0 /\ j = m /\ c[k][j] = b
                        \/ j \in 1 .. Len(ch[k]) /\ c[k][j] = ch[k][j] OBVIOUS
    <2>1. CASE k # 0 BY <2>1, <1>5
    <2>2. CASE k = 0
      <3>1. Len(c[k]) = m /\ j \in 1 .. m BY <2>2, <1>4, <1>5
      <3>2. j = m \/ j \in 1 .. m - 1 BY <3>1, <1>3
      <3> QED BY <2>2, <3>2, <1>2, <1>4, <1>5
    <2> QED BY <2>1, <2>2
  <1>7. \A k \in 0 .. n : \A j \in 1 .. Len(ch[k]) : j \in 1 .. Len(c[k]) /\ c[k][j] = ch[k][j]
    <2> SUFFICES ASSUME NEW k \in 0 .. n, NEW j \in 1 .. Len(ch[k]) PROVE j \in 1 .. Len(c[k]) /\ c[k][j] = ch[k][j]
      OBVIOUS
    <2>1. CASE k # 0 BY <2>1, <1>5
    <2>2. CASE k = 0
      <3>1. j \in 1 .. m - 1 /\ Len(c[k]) = m BY <2>2, <1>2, <1>4, <1>5
      <3> QED BY <2>2, <3>1, <1>2, <1>3, <1>4, <1>5
    <2> QED BY <2>1, <2>2
  <1>8. Linked(st, f, n, c)
    <2>0. \A k \in 0 .. n : ch[k] # <<>> => 1 \in 1 .. Len(ch[k]) /\ c[k] # <<>> /\ c[k][1] = ch[k][1]
      <3> SUFFICES ASSUME NEW k \in 0 .. n, ch[k] # <<>> PROVE 1 \in 1 .. Len(ch[k]) /\ c[k] # <<>> /\ c[k][1] = ch[k][1]
        OBVIOUS
      <3>1. 1 \in 1 .. Len(ch[k]) BY <1>2
      <3>2. 1 \in 1 .. Len(c[k]) /\ c[k][1] = ch[k][1] BY <1>7, <3>1
      <3>3. c[k] # <<>> BY <3>2, EmptySeq
      <3> QED BY <3>1, <3>2, <3>3
    <2>1. ASSUME NEW k \in 0 .. n - 1 PROVE c[k] # <<>> /\ c[k][1] # 0 /\ c[k + 1] = st[c[k][1]]
      <3>1. k \in 0 .. n /\ k + 1 \in 0 .. n /\ k + 1 # 0 /\ ch[k] # <<>> /\ ch[k][1] # 0 /\ ch[k + 1] = st[ch[k][1]]
        BY <1>1, <1>2 DEF Linked
      <3> QED BY <1>5, <2>0, <3>1
    <2>2. c[n] = <<>> \/ c[n][1] = 0
      <3>1. CASE n # 0 BY <1>1, <1>2, <1>5, <3>1 DEF Linked
      <3>2. CASE n = 0 BY <1>1, <1>2, <2>0, <3>2 DEF Linked
      <3> QED BY <3>1, <3>2
    <2>3. ASSUME NEW k \in 0 .. n, NEW j \in 2 .. Len(c[k]) PROVE c[k][j] # 0
      <3>1. Len(c[k]) \in Nat BY <1>5, LenProperties
      <3>2. j \in 1 .. Len(c[k]) /\ j >= 2 BY <3>1
      <3>3. CASE k = 0 /\ j = m /\ c[k][j] = b BY <1>3, <3>3
      <3>4. CASE j \in 1 .. Len(ch[k]) /\ c[k][j] = ch[k][j]
        <4>1. j \in 2 .. Len(ch[k]) BY <1>2, <3>2, <3>4
        <4> QED BY <1>1, <3>4, <4>1 DEF Linked
      <3> QED BY <1>6, <3>2, <3>3, <3>4
    <2> QED BY <1>2, <1>5, <2>1, <2>2, <2>3 DEF Linked
  <1>9. Once(n, c)
    <2> SUFFICES ASSUME NEW k \in 0 .. n, NEW l \in 0 .. n, NEW i \in 1 .. Len(c[k]), NEW j \in 1 .. Len(c[l]),
                        c[k][i] = c[l][j], c[k][i] # 0 PROVE k = l /\ i = j BY DEF Once
    <2>1. CASE i \in 1 .. Len(ch[k]) /\ c[k][i] = ch[k][i] /\ j \in 1 .. Len(ch[l]) /\ c[l][j] = ch[l][j]
      <3>1. ch[k][i] = ch[l][j] /\ ch[k][i] # 0 BY <2>1
      <3>2. \A x, y \in 0 .. n : \A d \in 1 .. Len(ch[x]), e \in 1 .. Len(ch[y]) :
                ch[x][d] = ch[y][e] /\ ch[x][d] # 0 => x = y /\ d = e BY <1>1 DEF Once
      <3> QED BY <2>1, <3>1, <3>2
    <2>2. CASE k = 0 /\ i = m /\ c[k][i] = b
      <3>1. ~ (j \in 1 .. Len(ch[l]) /\ c[l][j] = ch[l][j]) BY <1>2, <2>2
      <3> QED BY <1>6, <2>2, <3>1
    <2>3. CASE l = 0 /\ j = m /\ c[l][j] = b
      <3>1. ~ (i \in 1 .. Len(ch[k]) /\ c[k][i] = ch[k][i]) BY <1>2, <2>3
      <3> QED BY <1>6, <2>3, <3>1
    <2> QED BY <1>6, <2>1, <2>2, <2>3
  <1>10. Listing(n, c) = S \cup {b}
    <2>1. m \in 1 .. Len(c[0]) /\ c[0][m] = b BY <1>3, <1>4, <1>5
    <2>2. b \in Listing(n, c) BY <1>2, <2>1 DEF Listing
    <2>3. \A x \in S : x \in Listing(n, c) BY <1>1, <1>7 DEF Listing
    <2>4. \A x \in Listing(n, c) : x = b \/ x \in S BY <1>1, <1>6 DEF Listing
    <2> QED BY <2>2, <2>3, <2>4
  <1> QED BY <1>8, <1>9, <1>10 DEF Listed, f

(* A block that holds the list goes in front of it. *)
LEMMA ListOver ==
    ASSUME BlocksAssumption, NEW st, NEW b \in Block, NEW S, Listed(st, st[b], S), b \notin S
    PROVE  Listed(st, <<b>>, S \cup {b})
  <1>1. PICK n, ch : Linked(st, st[b], n, ch) /\ Once(n, ch) /\ S = Listing(n, ch)
    BY DEF Listed
  <1>2. /\ n \in Nat /\ ch[0] = st[b] /\ 0 \in 0 .. n /\ ch \in [0 .. n -> Seq(Cells)]
        /\ \A k \in 0 .. n : ch[k] \in Seq(Cells) /\ Len(ch[k]) \in Nat
        /\ \A k \in 0 .. n : \A j \in 1 .. Len(ch[k]) : ch[k][j] \in Cells /\ (ch[k][j] # 0 => ch[k][j] \in S)
    <2>1. ch[0] = st[b] /\ n \in Nat /\ ch \in [0 .. n -> Seq(Cells)] BY <1>1 DEF Linked
    <2>2. /\ \A k \in 0 .. n : ch[k] \in Seq(Cells) /\ Len(ch[k]) \in Nat
          /\ \A k \in 0 .. n : \A j \in 1 .. Len(ch[k]) : ch[k][j] \in Cells /\ (ch[k][j] # 0 => ch[k][j] \in Listing(n, ch))
      BY <1>1, LinkedTypes
    <2>3. 0 \in 0 .. n BY <2>1
    <2> QED BY <1>1, <2>1, <2>2, <2>3
  <1> DEFINE m == n + 1
             f == <<b>>
             c == [k \in 0 .. m |-> IF k = 0 THEN f ELSE ch[k - 1]]
  <1>3. f \in Seq(Cells) /\ Len(f) = 1 /\ f[1] = b /\ b # 0 /\ f # <<>> /\ m \in Nat /\ m # 0 /\ m - 1 = n
    BY <1>2 DEF Cells, Block, BlocksAssumption
  <1> HIDE DEF f
  <1>4. \A k \in 0 .. m : k # 0 => k - 1 \in 0 .. n /\ ch[k - 1] \in Seq(Cells) BY <1>2
  <1>5. c \in [0 .. m -> Seq(Cells)] /\ c[0] = f /\ \A k \in 0 .. m : k # 0 => c[k] = ch[k - 1]
    BY <1>3, <1>4
  <1>6. \A k \in 0 .. n : k + 1 \in 0 .. m /\ k + 1 # 0 /\ c[k + 1] = ch[k] BY <1>2
  <1> HIDE DEF c, m
  <1>7. Linked(st, f, m, c)
    <2>1. ASSUME NEW k \in 0 .. m - 1 PROVE c[k] # <<>> /\ c[k][1] # 0 /\ c[k + 1] = st[c[k][1]]
      <3>1. CASE k = 0 BY <1>2, <1>3, <1>5, <1>6, <3>1
      <3>2. CASE k # 0
        <4>1. k \in 0 .. m /\ k - 1 \in 0 .. n - 1 /\ (k - 1) + 1 = k /\ k \in 0 .. n
          BY <1>2, <1>3, <3>2
        <4>2. ch[k - 1] # <<>> /\ ch[k - 1][1] # 0 /\ ch[k] = st[ch[k - 1][1]]
          BY <1>1, <4>1 DEF Linked
        <4> QED BY <1>5, <1>6, <3>2, <4>1, <4>2
      <3> QED BY <3>1, <3>2
    <2>2. c[m] = <<>> \/ c[m][1] = 0
      <3>1. c[m] = ch[n] BY <1>3, <1>5
      <3> QED BY <1>1, <3>1 DEF Linked
    <2>3. ASSUME NEW k \in 0 .. m, NEW j \in 2 .. Len(c[k]) PROVE c[k][j] # 0
      <3>1. CASE k = 0 BY <1>3, <1>5, <3>1
      <3>2. CASE k # 0 BY <1>1, <1>4, <1>5, <3>2 DEF Linked
      <3> QED BY <3>1, <3>2
    <2> QED BY <1>3, <1>5, <2>1, <2>2, <2>3 DEF Linked
  <1>8. Once(m, c)
    <2> SUFFICES ASSUME NEW k \in 0 .. m, NEW l \in 0 .. m, NEW i \in 1 .. Len(c[k]), NEW j \in 1 .. Len(c[l]),
                        c[k][i] = c[l][j], c[k][i] # 0 PROVE k = l /\ i = j BY DEF Once
    <2>1. CASE k # 0 /\ l # 0
      <3>1. k - 1 = l - 1 /\ i = j BY <1>1, <1>4, <1>5, <2>1 DEF Once
      <3> QED BY <1>3, <3>1
    <2>2. CASE k = 0 /\ l = 0 BY <1>3, <1>5, <2>2
    <2>3. CASE k = 0 /\ l # 0
      <3>1. c[l][j] \in S BY <1>2, <1>4, <1>5, <2>3
      <3> QED BY <1>3, <1>5, <2>3, <3>1
    <2>4. CASE k # 0 /\ l = 0
      <3>1. c[k][i] \in S BY <1>2, <1>4, <1>5, <2>4
      <3> QED BY <1>3, <1>5, <2>4, <3>1
    <2> QED BY <2>1, <2>2, <2>3, <2>4
  <1>9. Listing(m, c) = S \cup {b}
    <2>1. b \in Listing(m, c)
      <3>1. 0 \in 0 .. m /\ 1 \in 1 .. Len(c[0]) /\ c[0][1] = b BY <1>3, <1>5
      <3> QED BY <3>1 DEF Listing
    <2>2. ASSUME NEW x \in S PROVE x \in Listing(m, c)
      <3>0. PICK k \in 0 .. n : \E j \in 1 .. Len(ch[k]) : ch[k][j] = x BY <1>1 DEF Listing
      <3>1. k + 1 \in 0 .. m /\ \E j \in 1 .. Len(c[k + 1]) : c[k + 1][j] = x BY <1>6, <3>0
      <3> QED BY <1>1, <3>1 DEF Listing
    <2>3. ASSUME NEW x \in Listing(m, c) PROVE x = b \/ x \in S
      <3>0. PICK k \in 0 .. m : \E j \in 1 .. Len(c[k]) : c[k][j] = x BY DEF Listing
      <3>1. x \in Block /\ (k = 0 => x = b) BY <1>3, <1>5, <3>0 DEF Listing
      <3>2. k # 0 => x \in S BY <1>1, <1>4, <1>5, <3>0, <3>1 DEF Listing
      <3> QED BY <3>1, <3>2
    <2> QED BY <2>1, <2>2, <2>3
  <1> QED BY <1>7, <1>8, <1>9 DEF Listed, f

-------------------------------------------------------------------------------
(* The map of a file: t is what the blocks hold, tops the inode's          *)
(* addresses, lg whether the file is large.  A word of it is 0 or a block. *)
Rows == 0 .. NADDR - 1
Cols == 0 .. NINDIR - 1
LastRow == NADDR - 1
Tables == [Cols -> Cells]
Word(t, b, k) == IF b = 0 THEN 0 ELSE t[b][k]
MidAt(t, tops, lg, i, k) == IF lg THEN Word(t, tops[i], k) ELSE 0
LowAt(t, tops, lg, k, j) == Word(t, MidAt(t, tops, lg, LastRow, k), j)

(* The places where a block may be. *)
TheList == <<"list", 0, 0, 0>>
HandOf(p) == <<"hand", p, 0, 0>>
ToFree(p) == <<"todo", p, 0, 0>>
TopOf(f, i) == <<"top", f, i, 0>>
MidOf(f, i, k) == <<"mid", f, i, k>>
LowOf(f, k, j) == <<"low", f, k, j>>
OfFile(f, x) == x[1] \in {"top", "mid", "low"} /\ x[2] = f
UnderRow(f, i, x) ==
    \/ x = TopOf(f, i)
    \/ \E k \in Cols : x = MidOf(f, i, k)
    \/ i = LastRow /\ \E k, j \in Cols : x = LowOf(f, k, j)

(* One place is not another. *)
LEMMA PlacesOfFiles ==
    /\ \A f, i : OfFile(f, TopOf(f, i))
    /\ \A f, i, k : OfFile(f, MidOf(f, i, k)) /\ OfFile(f, LowOf(f, i, k))
    /\ \A f, g, i : OfFile(f, TopOf(g, i)) => f = g
    /\ \A f, g, i, k : OfFile(f, MidOf(g, i, k)) \/ OfFile(f, LowOf(g, i, k)) => f = g
    /\ \A f : ~ OfFile(f, TheList)
    /\ \A f, p : ~ OfFile(f, HandOf(p)) /\ ~ OfFile(f, ToFree(p))
  BY DEF OfFile, TopOf, MidOf, LowOf, TheList, HandOf, ToFree

LEMMA PlacesDiffer ==
    /\ \A f, i, g, j : TopOf(f, i) = TopOf(g, j) => f = g /\ i = j
    /\ \A f, i, k, g, j, l : MidOf(f, i, k) = MidOf(g, j, l) => f = g /\ i = j /\ k = l
    /\ \A f, i, k, g, j, l : LowOf(f, i, k) = LowOf(g, j, l) => f = g /\ i = j /\ k = l
    /\ \A f, i, g, j, l : TopOf(f, i) # MidOf(g, j, l) /\ TopOf(f, i) # LowOf(g, j, l)
    /\ \A f, i, k, g, j, l : MidOf(f, i, k) # LowOf(g, j, l) BY DEF TopOf, MidOf, LowOf

LEMMA PlacesElsewhere ==
    /\ \A p, q : HandOf(p) = HandOf(q) => p = q
    /\ \A p, q : ToFree(p) = ToFree(q) => p = q
    /\ \A p, q : HandOf(p) # ToFree(q) /\ HandOf(p) # TheList /\ ToFree(p) # TheList
    /\ \A p, f, i : HandOf(p) # TopOf(f, i) /\ ToFree(p) # TopOf(f, i) /\ TheList # TopOf(f, i)
    /\ \A p, f, i, k : HandOf(p) # MidOf(f, i, k) /\ ToFree(p) # MidOf(f, i, k) /\ TheList # MidOf(f, i, k)
    /\ \A p, f, i, k : HandOf(p) # LowOf(f, i, k) /\ ToFree(p) # LowOf(f, i, k) /\ TheList # LowOf(f, i, k)
  BY DEF TopOf, MidOf, LowOf, TheList, HandOf, ToFree

(* Where home says a block is, there it is, and nowhere else. *)
MapTyped(t, tops, lg) ==
    /\ tops \in [Rows -> Cells]
    /\ lg => \A i \in Rows : tops[i] # 0 => t[tops[i]] \in Tables
    /\ \A k \in Cols : MidAt(t, tops, lg, LastRow, k) # 0 => t[MidAt(t, tops, lg, LastRow, k)] \in Tables
FileMap(t, tops, lg, f, home) ==
    /\ MapTyped(t, tops, lg)
    /\ \A b \in Block : \A i \in Rows : tops[i] = b <=> home[b] = TopOf(f, i)
    /\ \A b \in Block : \A i \in Rows, k \in Cols : MidAt(t, tops, lg, i, k) = b <=> home[b] = MidOf(f, i, k)
    /\ \A b \in Block : \A k, j \in Cols : LowAt(t, tops, lg, k, j) = b <=> home[b] = LowOf(f, k, j)

LEMMA Indices ==
    ASSUME BlocksAssumption
    PROVE  /\ 0 \in Rows /\ LastRow \in Rows /\ LastRow # 0 /\ Rows \subseteq Cols
           /\ Cells = Block \cup {0} /\ 0 \notin Block
           /\ Zeros \in Tables /\ \A k \in Cols : Zeros[k] = 0
  BY DEF BlocksAssumption, Rows, Cols, LastRow, Cells, Block, Zeros, Tables

LEMMA MapCells ==
    ASSUME BlocksAssumption, NEW t, NEW tops, NEW lg \in BOOLEAN, MapTyped(t, tops, lg)
    PROVE  /\ \A i \in Rows : tops[i] \in Cells
           /\ \A i \in Rows, k \in Cols : MidAt(t, tops, lg, i, k) \in Cells
           /\ \A k, j \in Cols : LowAt(t, tops, lg, k, j) \in Cells
           /\ \A i \in Rows, k \in Cols : MidAt(t, tops, lg, i, k) # 0 => lg /\ tops[i] # 0
           /\ \A k, j \in Cols : LowAt(t, tops, lg, k, j) # 0 => MidAt(t, tops, lg, LastRow, k) # 0
  <1>1. \A i \in Rows : tops[i] \in Cells BY DEF MapTyped
  <1>2. ASSUME NEW i \in Rows, NEW k \in Cols
        PROVE  MidAt(t, tops, lg, i, k) \in Cells /\ (MidAt(t, tops, lg, i, k) # 0 => lg /\ tops[i] # 0)
    <2>1. CASE lg /\ tops[i] # 0
      <3>1. t[tops[i]] \in Tables BY <2>1 DEF MapTyped
      <3>2. t[tops[i]][k] \in Cells BY <3>1 DEF Tables
      <3> QED BY <2>1, <3>2 DEF MidAt, Word
    <2>2. CASE ~ (lg /\ tops[i] # 0) BY <2>2, Indices DEF MidAt, Word
    <2> QED BY <2>1, <2>2
  <1>3. ASSUME NEW k \in Cols, NEW j \in Cols
        PROVE  /\ LowAt(t, tops, lg, k, j) \in Cells
               /\ LowAt(t, tops, lg, k, j) # 0 => MidAt(t, tops, lg, LastRow, k) # 0
    <2> DEFINE m == MidAt(t, tops, lg, LastRow, k)
    <2>1. CASE m # 0
      <3>1. t[m] \in Tables BY <2>1 DEF MapTyped
      <3>2. t[m][j] \in Cells BY <3>1 DEF Tables
      <3> QED BY <2>1, <3>2 DEF LowAt, Word
    <2>2. CASE m = 0 BY <2>2, Indices DEF LowAt, Word
    <2> QED BY <2>1, <2>2
  <1> QED BY <1>1, <1>2, <1>3

(* A word of the map that is not 0 is a block whose home is there. *)
AtHome(t, tops, lg, f, home) ==
    /\ \A i \in Rows : tops[i] # 0 => tops[i] \in Block /\ home[tops[i]] = TopOf(f, i) /\ OfFile(f, home[tops[i]])
    /\ \A i \in Rows, k \in Cols : MidAt(t, tops, lg, i, k) # 0 =>
            /\ MidAt(t, tops, lg, i, k) \in Block
            /\ home[MidAt(t, tops, lg, i, k)] = MidOf(f, i, k)
            /\ OfFile(f, home[MidAt(t, tops, lg, i, k)])
    /\ \A k, j \in Cols : LowAt(t, tops, lg, k, j) # 0 =>
            /\ LowAt(t, tops, lg, k, j) \in Block
            /\ home[LowAt(t, tops, lg, k, j)] = LowOf(f, k, j)
            /\ OfFile(f, home[LowAt(t, tops, lg, k, j)])
LEMMA MapBlocks ==
    ASSUME BlocksAssumption, NEW t, NEW tops, NEW lg \in BOOLEAN, NEW f, NEW home, FileMap(t, tops, lg, f, home)
    PROVE  AtHome(t, tops, lg, f, home)
  <1>0. MapTyped(t, tops, lg) BY DEF FileMap
  <1>1. ASSUME NEW i \in Rows, tops[i] # 0
        PROVE  tops[i] \in Block /\ home[tops[i]] = TopOf(f, i)
    <2>1. tops[i] \in Block BY <1>0, <1>1, MapCells, Indices
    <2> QED BY <2>1 DEF FileMap
  <1>2. ASSUME NEW i \in Rows, NEW k \in Cols, MidAt(t, tops, lg, i, k) # 0
        PROVE  MidAt(t, tops, lg, i, k) \in Block /\ home[MidAt(t, tops, lg, i, k)] = MidOf(f, i, k)
    <2>1. MidAt(t, tops, lg, i, k) \in Block BY <1>0, <1>2, MapCells, Indices
    <2> QED BY <2>1 DEF FileMap
  <1>3. ASSUME NEW k \in Cols, NEW j \in Cols, LowAt(t, tops, lg, k, j) # 0
        PROVE  LowAt(t, tops, lg, k, j) \in Block /\ home[LowAt(t, tops, lg, k, j)] = LowOf(f, k, j)
    <2>1. LowAt(t, tops, lg, k, j) \in Block BY <1>0, <1>3, MapCells, Indices
    <2> QED BY <2>1 DEF FileMap
  <1> QED BY <1>1, <1>2, <1>3, PlacesOfFiles DEF AtHome


(* Only the blocks of the file matter, and their homes. *)
LEMMA MapAgree ==
    ASSUME BlocksAssumption, NEW t, NEW tops, NEW lg \in BOOLEAN, NEW f, NEW home, FileMap(t, tops, lg, f, home),
           NEW t2, \A b \in Block : OfFile(f, home[b]) => t2[b] = t[b]
    PROVE  /\ MapTyped(t2, tops, lg)
           /\ \A i \in Rows, k \in Cols : MidAt(t2, tops, lg, i, k) = MidAt(t, tops, lg, i, k)
           /\ \A k, j \in Cols : LowAt(t2, tops, lg, k, j) = LowAt(t, tops, lg, k, j)
  <1>h. AtHome(t, tops, lg, f, home) BY MapBlocks
  <1>0. LastRow \in Rows /\ MapTyped(t, tops, lg) BY Indices DEF FileMap
  <1>1. ASSUME NEW i \in Rows, NEW k \in Cols
        PROVE  MidAt(t2, tops, lg, i, k) = MidAt(t, tops, lg, i, k)
    <2>1. tops[i] # 0 => t2[tops[i]] = t[tops[i]] BY <1>h DEF AtHome
    <2> QED BY <2>1 DEF MidAt, Word
  <1>2. ASSUME NEW k \in Cols, NEW j \in Cols
        PROVE  LowAt(t2, tops, lg, k, j) = LowAt(t, tops, lg, k, j)
    <2> DEFINE m == MidAt(t, tops, lg, LastRow, k)
    <2>1. m # 0 => t2[m] = t[m] BY <1>0, <1>h DEF AtHome
    <2>2. MidAt(t2, tops, lg, LastRow, k) = m BY <1>0, <1>1
    <2> QED BY <2>1, <2>2 DEF LowAt, Word
  <1>3. ASSUME lg, NEW i \in Rows, tops[i] # 0 PROVE t2[tops[i]] \in Tables
    <2>1. t2[tops[i]] = t[tops[i]] BY <1>3, <1>h DEF AtHome
    <2> QED BY <1>0, <1>3, <2>1 DEF MapTyped
  <1>4. ASSUME NEW k \in Cols, MidAt(t2, tops, lg, LastRow, k) # 0
        PROVE  t2[MidAt(t2, tops, lg, LastRow, k)] \in Tables
    <2> DEFINE m == MidAt(t, tops, lg, LastRow, k)
    <2>1. MidAt(t2, tops, lg, LastRow, k) = m /\ m # 0 BY <1>0, <1>1, <1>4
    <2>2. t2[m] = t[m] BY <1>0, <2>1, <1>h DEF AtHome
    <2> QED BY <1>0, <2>1, <2>2 DEF MapTyped
  <1> QED BY <1>0, <1>1, <1>2, <1>3, <1>4 DEF MapTyped

LEMMA MapFrame ==
    ASSUME BlocksAssumption, NEW t, NEW tops, NEW lg \in BOOLEAN, NEW f, NEW home, FileMap(t, tops, lg, f, home),
           NEW t2, \A b \in Block : OfFile(f, home[b]) => t2[b] = t[b],
           NEW home2, \A b \in Block : home2[b] = home[b] \/ (~ OfFile(f, home[b]) /\ ~ OfFile(f, home2[b]))
    PROVE  FileMap(t2, tops, lg, f, home2)
  <1>1. /\ MapTyped(t2, tops, lg)
        /\ \A i \in Rows, k \in Cols : MidAt(t2, tops, lg, i, k) = MidAt(t, tops, lg, i, k)
        /\ \A k, j \in Cols : LowAt(t2, tops, lg, k, j) = LowAt(t, tops, lg, k, j)
    BY MapAgree
  <1>2. ASSUME NEW b \in Block
        PROVE  /\ \A i : home2[b] = TopOf(f, i) <=> home[b] = TopOf(f, i)
               /\ \A i, k : home2[b] = MidOf(f, i, k) <=> home[b] = MidOf(f, i, k)
               /\ \A i, k : home2[b] = LowOf(f, i, k) <=> home[b] = LowOf(f, i, k)
    BY PlacesOfFiles
  <1> QED BY <1>1, <1>2 DEF FileMap

(* A block is put where the inode had no address. *)
LEMMA MapAddTop ==
    ASSUME BlocksAssumption, NEW t, NEW tops, NEW lg \in BOOLEAN, NEW f, NEW home, FileMap(t, tops, lg, f, home),
           NEW i \in Rows, tops[i] = 0, NEW b \in Block, ~ OfFile(f, home[b]),
           NEW t2, \A x \in Block : OfFile(f, home[x]) => t2[x] = t[x], lg => t2[b] = Zeros,
           NEW home2, \A x \in Block : home2[x] = IF x = b THEN TopOf(f, i) ELSE home[x],
           NEW tops2 \in [Rows -> Cells], \A r \in Rows : tops2[r] = IF r = i THEN b ELSE tops[r]
    PROVE  FileMap(t2, tops2, lg, f, home2)
  <1>0. /\ MapTyped(t, tops, lg) /\ MapTyped(t2, tops, lg) /\ LastRow \in Rows /\ b \in Cells /\ b # 0
        /\ \A r \in Rows, k \in Cols : MidAt(t2, tops, lg, r, k) = MidAt(t, tops, lg, r, k)
        /\ \A k, j \in Cols : LowAt(t2, tops, lg, k, j) = LowAt(t, tops, lg, k, j)
    <2>1. LastRow \in Rows /\ b \in Cells /\ b # 0 BY Indices
    <2>2. MapTyped(t, tops, lg) BY DEF FileMap
    <2>3. /\ MapTyped(t2, tops, lg)
          /\ \A r \in Rows, k \in Cols : MidAt(t2, tops, lg, r, k) = MidAt(t, tops, lg, r, k)
          /\ \A k, j \in Cols : LowAt(t2, tops, lg, k, j) = LowAt(t, tops, lg, k, j)
      <3>1. FileMap(t, tops, lg, f, home) /\ lg \in BOOLEAN /\ \A x \in Block : OfFile(f, home[x]) => t2[x] = t[x]
        OBVIOUS
      <3> QED BY ONLY <3>1, BlocksAssumption, MapAgree
    <2> QED BY <2>1, <2>2, <2>3
  <1>1. tops2 \in [Rows -> Cells] /\ \A r \in Rows : tops2[r] = IF r = i THEN b ELSE tops[r]
    OBVIOUS
  <1>2. ASSUME NEW r \in Rows, NEW k \in Cols
        PROVE  MidAt(t2, tops2, lg, r, k) = MidAt(t, tops, lg, r, k)
    <2>1. CASE r = i
      <3>1. MidAt(t, tops, lg, r, k) = 0 BY <2>1 DEF MidAt, Word
      <3>2. lg => t2[b][k] = 0 BY Indices
      <3> QED BY <2>1, <3>1, <3>2, <1>0, <1>1 DEF MidAt, Word
    <2>2. CASE r # i
      <3>1. MidAt(t2, tops2, lg, r, k) = MidAt(t2, tops, lg, r, k)
        BY <2>2, <1>1 DEF MidAt, Word
      <3> QED BY <3>1, <1>0
    <2> QED BY <2>1, <2>2
  <1>3. ASSUME NEW k \in Cols, NEW j \in Cols
        PROVE  LowAt(t2, tops2, lg, k, j) = LowAt(t, tops, lg, k, j)
    <2>1. MidAt(t2, tops2, lg, LastRow, k) = MidAt(t2, tops, lg, LastRow, k) BY <1>0, <1>2
    <2>2. LowAt(t2, tops2, lg, k, j) = LowAt(t2, tops, lg, k, j) BY <2>1 DEF LowAt
    <2> QED BY <2>2, <1>0
  <1>4. MapTyped(t2, tops2, lg)
    <2>1. ASSUME lg, NEW r \in Rows, tops2[r] # 0 PROVE t2[tops2[r]] \in Tables
      <3>1. CASE r = i BY <2>1, <3>1, <1>1, Indices
      <3>2. CASE r # i BY <2>1, <3>2, <1>0, <1>1 DEF MapTyped
      <3> QED BY <3>1, <3>2
    <2>2. ASSUME NEW k \in Cols, MidAt(t2, tops2, lg, LastRow, k) # 0
          PROVE  t2[MidAt(t2, tops2, lg, LastRow, k)] \in Tables
      <3>1. MidAt(t2, tops2, lg, LastRow, k) = MidAt(t2, tops, lg, LastRow, k) BY <1>0, <1>2
      <3> QED BY <1>0, <2>2, <3>1 DEF MapTyped
    <2> QED BY <1>1, <2>1, <2>2 DEF MapTyped
  <1>5. ASSUME NEW x \in Block
        PROVE  /\ \A r \in Rows : tops2[r] = x <=> home2[x] = TopOf(f, r)
               /\ \A r, k : home2[x] = MidOf(f, r, k) <=> home[x] = MidOf(f, r, k)
               /\ \A r, k : home2[x] = LowOf(f, r, k) <=> home[x] = LowOf(f, r, k)
    <2>1. CASE x = b
      <3>1. home2[x] = TopOf(f, i) BY <2>1
      <3>2. \A r \in Rows : tops[r] # x BY <2>1, PlacesOfFiles DEF FileMap
      <3> QED BY <2>1, <3>1, <3>2, <1>1, PlacesDiffer, PlacesOfFiles
    <2>2. CASE x # b
      <3>1. home2[x] = home[x] BY <2>2
      <3>2. x # 0 BY Indices
      <3>3. \A r \in Rows : tops[r] = x <=> home[x] = TopOf(f, r) BY DEF FileMap
      <3> QED BY <2>2, <3>1, <3>2, <3>3, <1>1
    <2> QED BY <2>1, <2>2
  <1>6. ASSUME NEW x \in Block
        PROVE  /\ \A r \in Rows, k \in Cols : MidAt(t2, tops2, lg, r, k) = x <=> home2[x] = MidOf(f, r, k)
               /\ \A k, j \in Cols : LowAt(t2, tops2, lg, k, j) = x <=> home2[x] = LowOf(f, k, j)
    BY <1>2, <1>3, <1>5 DEF FileMap
  <1> QED BY <1>4, <1>5, <1>6 DEF FileMap


(* A block is put in an indirect block. *)
MidAdded(t, tops, lg, f, home, i, k, b, t2, home2) ==
    /\ lg \in BOOLEAN /\ lg # FALSE /\ FileMap(t, tops, lg, f, home)
    /\ i \in Rows /\ k \in Cols /\ tops[i] # 0 /\ MidAt(t, tops, lg, i, k) = 0
    /\ b \in Block /\ ~ OfFile(f, home[b])
    /\ \A x \in Block : OfFile(f, home[x]) /\ x # tops[i] => t2[x] = t[x]
    /\ t2[tops[i]] \in Tables /\ \A l \in Cols : t2[tops[i]][l] = IF l = k THEN b ELSE t[tops[i]][l]
    /\ i = LastRow => t2[b] = Zeros
    /\ \A x \in Block : home2[x] = IF x = b THEN MidOf(f, i, k) ELSE home[x]
LEMMA MapAddMid ==
    ASSUME BlocksAssumption, NEW t, NEW tops, NEW lg, NEW f, NEW home, NEW i, NEW k, NEW b, NEW t2, NEW home2,
           MidAdded(t, tops, lg, f, home, i, k, b, t2, home2)
    PROVE  FileMap(t2, tops, lg, f, home2)
  <1> /\ lg \in BOOLEAN /\ lg # FALSE /\ FileMap(t, tops, lg, f, home)
      /\ i \in Rows /\ k \in Cols /\ tops[i] # 0 /\ MidAt(t, tops, lg, i, k) = 0
      /\ b \in Block /\ ~ OfFile(f, home[b])
      /\ \A x \in Block : OfFile(f, home[x]) /\ x # tops[i] => t2[x] = t[x]
      /\ t2[tops[i]] \in Tables /\ \A l \in Cols : t2[tops[i]][l] = IF l = k THEN b ELSE t[tops[i]][l]
      /\ i = LastRow => t2[b] = Zeros
      /\ \A x \in Block : home2[x] = IF x = b THEN MidOf(f, i, k) ELSE home[x]
    BY DEF MidAdded
  <1>h. AtHome(t, tops, lg, f, home) BY MapBlocks
  <1>0. /\ MapTyped(t, tops, lg) /\ LastRow \in Rows /\ b \in Cells /\ b # 0
        /\ tops[i] \in Block /\ home[tops[i]] = TopOf(f, i) /\ t[tops[i]] \in Tables
    <2>1. LastRow \in Rows /\ b \in Cells /\ b # 0 BY Indices
    <2>2. MapTyped(t, tops, lg) BY DEF FileMap
    <2>3. tops[i] \in Block /\ home[tops[i]] = TopOf(f, i) BY <1>h DEF AtHome
    <2> QED BY <2>1, <2>2, <2>3 DEF MapTyped
  <1>1. t2[tops[i]] \in Tables /\ \A l \in Cols : t2[tops[i]][l] = IF l = k THEN b ELSE t[tops[i]][l]
    BY <1>0 DEF Tables
  <1>2. ASSUME NEW r \in Rows, r # i, tops[r] # 0 PROVE t2[tops[r]] = t[tops[r]]
    <2>1. tops[r] \in Block /\ home[tops[r]] = TopOf(f, r) /\ OfFile(f, home[tops[r]])
      BY <1>2, <1>h DEF AtHome
    <2>2. tops[r] # tops[i] BY <1>0, <1>2, <2>1, PlacesDiffer
    <2> QED BY <2>1, <2>2
  <1>3. ASSUME NEW r \in Rows, NEW l \in Cols
        PROVE  MidAt(t2, tops, lg, r, l) = IF r = i /\ l = k THEN b ELSE MidAt(t, tops, lg, r, l)
    <2>1. CASE r = i BY <2>1, <1>0, <1>1 DEF MidAt, Word
    <2>2. CASE r # i BY <2>2, <1>2 DEF MidAt, Word
    <2> QED BY <2>1, <2>2
  <1>4. ASSUME NEW l \in Cols, MidAt(t, tops, lg, LastRow, l) # 0
        PROVE  LET m == MidAt(t, tops, lg, LastRow, l)
               IN  t2[m] = t[m] /\ MidAt(t2, tops, lg, LastRow, l) = m /\ t[m] \in Tables
    <2> DEFINE m == MidAt(t, tops, lg, LastRow, l)
    <2>1. m \in Block /\ home[m] = MidOf(f, LastRow, l) /\ OfFile(f, home[m])
      BY <1>0, <1>4, <1>h DEF AtHome
    <2>2. m # tops[i]
      <3>1. home[m] # home[tops[i]] BY ONLY <1>0, <2>1, PlacesDiffer
      <3> QED BY ONLY <3>1
    <2>3. MidAt(t2, tops, lg, LastRow, l) = m BY <1>0, <1>3, <1>4
    <2>4. t[m] \in Tables BY <1>0, <1>4 DEF MapTyped
    <2> QED BY <2>1, <2>2, <2>3, <2>4
  <1>5. ASSUME NEW l \in Cols, MidAt(t, tops, lg, LastRow, l) = 0, MidAt(t2, tops, lg, LastRow, l) # 0
        PROVE  MidAt(t2, tops, lg, LastRow, l) = b /\ t2[b] = Zeros BY <1>0, <1>3, <1>5
  <1>6. ASSUME NEW l \in Cols, NEW j \in Cols
        PROVE  LowAt(t2, tops, lg, l, j) = LowAt(t, tops, lg, l, j)
    <2>1. CASE MidAt(t, tops, lg, LastRow, l) # 0 BY <2>1, <1>4 DEF LowAt, Word
    <2>2. CASE MidAt(t, tops, lg, LastRow, l) = 0
      <3>1. LowAt(t, tops, lg, l, j) = 0 BY <2>2 DEF LowAt, Word
      <3>2. LowAt(t2, tops, lg, l, j) = 0
        <4>1. CASE MidAt(t2, tops, lg, LastRow, l) = 0 BY <4>1 DEF LowAt, Word
        <4>2. CASE MidAt(t2, tops, lg, LastRow, l) # 0
          BY <2>2, <4>2, <1>5, Indices DEF LowAt, Word
        <4> QED BY <4>1, <4>2
      <3> QED BY <3>1, <3>2
    <2> QED BY <2>1, <2>2
  <1>7. MapTyped(t2, tops, lg)
    <2>1. ASSUME NEW r \in Rows, tops[r] # 0 PROVE t2[tops[r]] \in Tables
      <3>1. CASE r = i BY <3>1, <1>1
      <3>2. CASE r # i BY <2>1, <3>2, <1>0, <1>2 DEF MapTyped
      <3> QED BY <3>1, <3>2
    <2>2. ASSUME NEW l \in Cols, MidAt(t2, tops, lg, LastRow, l) # 0
          PROVE  t2[MidAt(t2, tops, lg, LastRow, l)] \in Tables
      <3>1. CASE MidAt(t, tops, lg, LastRow, l) # 0 BY <3>1, <1>4
      <3>2. CASE MidAt(t, tops, lg, LastRow, l) = 0 BY <2>2, <3>2, <1>5, Indices
      <3> QED BY <3>1, <3>2
    <2>3. tops \in [Rows -> Cells] BY <1>0 DEF MapTyped
    <2> QED BY <2>1, <2>2, <2>3 DEF MapTyped
  <1>8. \A x \in Block :
            /\ \A r \in Rows : tops[r] = x <=> home[x] = TopOf(f, r)
            /\ \A r \in Rows, l \in Cols : MidAt(t, tops, lg, r, l) = x <=> home[x] = MidOf(f, r, l)
            /\ \A l, j \in Cols : LowAt(t, tops, lg, l, j) = x <=> home[x] = LowOf(f, l, j)
    BY DEF FileMap
  <1>9. ASSUME NEW x \in Block
        PROVE  /\ \A r \in Rows, l \in Cols : MidAt(t2, tops, lg, r, l) = x <=> home2[x] = MidOf(f, r, l)
               /\ \A r : home2[x] = TopOf(f, r) <=> home[x] = TopOf(f, r)
               /\ \A r, l : home2[x] = LowOf(f, r, l) <=> home[x] = LowOf(f, r, l)
    <2>1. CASE x = b
      <3>1. home2[x] = MidOf(f, i, k) /\ ~ OfFile(f, home[x]) BY <2>1
      <3>2. \A r \in Rows, l \in Cols : MidAt(t, tops, lg, r, l) # x
        BY ONLY <3>1, <1>8, PlacesOfFiles, x \in Block
      <3>3. \A r \in Rows, l \in Cols : MidAt(t2, tops, lg, r, l) = x <=> r = i /\ l = k
        BY ONLY <2>1, <3>2, <1>3
      <3> QED BY ONLY <3>1, <3>3, PlacesDiffer, PlacesOfFiles
    <2>2. CASE x # b
      <3>1. home2[x] = home[x] BY <2>2
      <3>2. x # 0 BY Indices
      <3> QED BY ONLY <2>2, <3>1, <3>2, <1>3, <1>8, x \in Block, MidAt(t, tops, lg, i, k) = 0
    <2> QED BY <2>1, <2>2
  <1>10. \A x \in Block :
            /\ \A r \in Rows : tops[r] = x <=> home2[x] = TopOf(f, r)
            /\ \A r \in Rows, l \in Cols : MidAt(t2, tops, lg, r, l) = x <=> home2[x] = MidOf(f, r, l)
            /\ \A l, j \in Cols : LowAt(t2, tops, lg, l, j) = x <=> home2[x] = LowOf(f, l, j)
    BY ONLY <1>6, <1>8, <1>9
  <1> QED BY ONLY <1>7, <1>10 DEF FileMap

(* A block is put in a block of the last, double indirect one. *)
LowAdded(t, tops, lg, f, home, k, j, m, b, t2, home2) ==
    /\ lg \in BOOLEAN /\ FileMap(t, tops, lg, f, home)
    /\ k \in Cols /\ j \in Cols /\ m = MidAt(t, tops, lg, LastRow, k) /\ m # 0 /\ LowAt(t, tops, lg, k, j) = 0
    /\ b \in Block /\ ~ OfFile(f, home[b])
    /\ \A x \in Block : OfFile(f, home[x]) /\ x # m => t2[x] = t[x]
    /\ t2[m] \in Tables /\ \A l \in Cols : t2[m][l] = IF l = j THEN b ELSE t[m][l]
    /\ \A x \in Block : home2[x] = IF x = b THEN LowOf(f, k, j) ELSE home[x]
LEMMA MapAddLow ==
    ASSUME BlocksAssumption, NEW t, NEW tops, NEW lg, NEW f, NEW home, NEW k, NEW j, NEW m, NEW b, NEW t2, NEW home2,
           LowAdded(t, tops, lg, f, home, k, j, m, b, t2, home2)
    PROVE  FileMap(t2, tops, lg, f, home2)
  <1> /\ lg \in BOOLEAN /\ FileMap(t, tops, lg, f, home)
      /\ k \in Cols /\ j \in Cols /\ m = MidAt(t, tops, lg, LastRow, k) /\ m # 0 /\ LowAt(t, tops, lg, k, j) = 0
      /\ b \in Block /\ ~ OfFile(f, home[b])
      /\ \A x \in Block : OfFile(f, home[x]) /\ x # m => t2[x] = t[x]
      /\ t2[m] \in Tables /\ \A l \in Cols : t2[m][l] = IF l = j THEN b ELSE t[m][l]
      /\ \A x \in Block : home2[x] = IF x = b THEN LowOf(f, k, j) ELSE home[x]
    BY DEF LowAdded
  <1>h. AtHome(t, tops, lg, f, home) BY MapBlocks
  <1>0. /\ MapTyped(t, tops, lg) /\ LastRow \in Rows /\ b \in Cells /\ b # 0
        /\ m \in Block /\ home[m] = MidOf(f, LastRow, k) /\ t[m] \in Tables
    <2>1. LastRow \in Rows /\ b \in Cells /\ b # 0 BY Indices
    <2>2. MapTyped(t, tops, lg) BY DEF FileMap
    <2>3. m \in Block /\ home[m] = MidOf(f, LastRow, k) BY <2>1, <1>h DEF AtHome
    <2> QED BY <2>1, <2>2, <2>3 DEF MapTyped
  <1>1. t2[m] \in Tables /\ \A l \in Cols : t2[m][l] = IF l = j THEN b ELSE t[m][l]
    BY <1>0 DEF Tables
  <1>2. ASSUME NEW r \in Rows, tops[r] # 0 PROVE t2[tops[r]] = t[tops[r]]
    <2>1. tops[r] \in Block /\ home[tops[r]] = TopOf(f, r) /\ OfFile(f, home[tops[r]])
      BY <1>2, <1>h DEF AtHome
    <2>2. tops[r] # m BY <1>0, <1>2, <2>1, PlacesDiffer
    <2> QED BY <2>1, <2>2
  <1>3. ASSUME NEW r \in Rows, NEW l \in Cols
        PROVE  MidAt(t2, tops, lg, r, l) = MidAt(t, tops, lg, r, l) BY <1>2 DEF MidAt, Word
  <1>4. ASSUME NEW l \in Cols, l # k, MidAt(t, tops, lg, LastRow, l) # 0
        PROVE  t2[MidAt(t, tops, lg, LastRow, l)] = t[MidAt(t, tops, lg, LastRow, l)]
    <2> DEFINE n == MidAt(t, tops, lg, LastRow, l)
    <2>1. n \in Block /\ home[n] = MidOf(f, LastRow, l) /\ OfFile(f, home[n])
      BY <1>0, <1>4, <1>h DEF AtHome
    <2>2. n # m BY <1>0, <1>4, <2>1, PlacesDiffer
    <2> QED BY <2>1, <2>2
  <1>5. ASSUME NEW r \in Cols, NEW l \in Cols
        PROVE  LowAt(t2, tops, lg, r, l) = IF r = k /\ l = j THEN b ELSE LowAt(t, tops, lg, r, l)
    <2>0. MidAt(t2, tops, lg, LastRow, r) = MidAt(t, tops, lg, LastRow, r) BY <1>0, <1>3
    <2>1. CASE r = k BY <2>0, <2>1, <1>1 DEF LowAt, Word
    <2>2. CASE r # k BY <2>0, <2>2, <1>4 DEF LowAt, Word
    <2> QED BY <2>1, <2>2
  <1>6. MapTyped(t2, tops, lg)
    <2>1. ASSUME lg, NEW r \in Rows, tops[r] # 0 PROVE t2[tops[r]] \in Tables
      BY <2>1, <1>0, <1>2 DEF MapTyped
    <2>2. ASSUME NEW l \in Cols, MidAt(t2, tops, lg, LastRow, l) # 0
          PROVE  t2[MidAt(t2, tops, lg, LastRow, l)] \in Tables
      <3>0. MidAt(t2, tops, lg, LastRow, l) = MidAt(t, tops, lg, LastRow, l) BY <1>0, <1>3
      <3>1. CASE l = k BY <3>0, <3>1, <1>1
      <3>2. CASE l # k BY <2>2, <3>0, <3>2, <1>0, <1>4 DEF MapTyped
      <3> QED BY <3>1, <3>2
    <2>3. tops \in [Rows -> Cells] BY <1>0 DEF MapTyped
    <2> QED BY <2>1, <2>2, <2>3 DEF MapTyped
  <1>7. ASSUME NEW x \in Block
        PROVE  /\ \A r, l \in Cols : LowAt(t2, tops, lg, r, l) = x <=> home2[x] = LowOf(f, r, l)
               /\ \A r : home2[x] = TopOf(f, r) <=> home[x] = TopOf(f, r)
               /\ \A r, l : home2[x] = MidOf(f, r, l) <=> home[x] = MidOf(f, r, l)
    <2>1. CASE x = b
      <3>1. home2[x] = LowOf(f, k, j) BY <2>1
      <3>2. \A r, l \in Cols : LowAt(t, tops, lg, r, l) # x
        BY <2>1, PlacesOfFiles DEF FileMap
      <3>3. \A r, l \in Cols : LowAt(t2, tops, lg, r, l) = x <=> r = k /\ l = j
        BY <2>1, <3>2, <1>5
      <3> QED BY <2>1, <3>1, <3>3, PlacesDiffer, PlacesOfFiles
    <2>2. CASE x # b
      <3>1. home2[x] = home[x] /\ x # 0 BY <2>2, Indices
      <3>3. \A r, l \in Cols : LowAt(t, tops, lg, r, l) = x <=> home[x] = LowOf(f, r, l)
        BY DEF FileMap
      <3> QED BY <2>2, <3>1, <3>3, <1>5
    <2> QED BY <2>1, <2>2
  <1>8. ASSUME NEW x \in Block
        PROVE  /\ \A r \in Rows : tops[r] = x <=> home2[x] = TopOf(f, r)
               /\ \A r \in Rows, l \in Cols : MidAt(t2, tops, lg, r, l) = x <=> home2[x] = MidOf(f, r, l)
    BY <1>3, <1>7 DEF FileMap
  <1> QED BY <1>6, <1>7, <1>8 DEF FileMap


(* A small file becomes large: its blocks go into a new one. *)
Converted(t, tops, lg, f, home, b, t2, tops2, lg2, home2) ==
    /\ lg \in BOOLEAN /\ lg # TRUE /\ FileMap(t, tops, lg, f, home)
    /\ lg2 \in BOOLEAN /\ lg2 # FALSE /\ b \in Block /\ ~ OfFile(f, home[b])
    /\ t2[b] \in Tables /\ \A k \in Cols : t2[b][k] = IF k < NADDR THEN tops[k] ELSE 0
    /\ tops2 \in [Rows -> Cells] /\ \A i \in Rows : tops2[i] = IF i = 0 THEN b ELSE 0
    /\ home2[b] = TopOf(f, 0)
    /\ \A i \in Rows : tops[i] # 0 => home2[tops[i]] = MidOf(f, 0, i)
    /\ \A x \in Block : x # b /\ (\A i \in Rows : tops[i] # x) => home2[x] = home[x]
LEMMA MapConvert ==
    ASSUME BlocksAssumption, NEW t, NEW tops, NEW lg, NEW f, NEW home, NEW b, NEW t2, NEW tops2, NEW lg2, NEW home2,
           Converted(t, tops, lg, f, home, b, t2, tops2, lg2, home2)
    PROVE  FileMap(t2, tops2, lg2, f, home2)
  <1> /\ lg \in BOOLEAN /\ lg # TRUE /\ FileMap(t, tops, lg, f, home)
      /\ lg2 \in BOOLEAN /\ lg2 # FALSE /\ b \in Block /\ ~ OfFile(f, home[b])
      /\ t2[b] \in Tables /\ \A k \in Cols : t2[b][k] = IF k < NADDR THEN tops[k] ELSE 0
      /\ tops2 \in [Rows -> Cells] /\ \A i \in Rows : tops2[i] = IF i = 0 THEN b ELSE 0
      /\ home2[b] = TopOf(f, 0)
      /\ \A i \in Rows : tops[i] # 0 => home2[tops[i]] = MidOf(f, 0, i)
      /\ \A x \in Block : x # b /\ (\A i \in Rows : tops[i] # x) => home2[x] = home[x]
    BY DEF Converted
  <1>h. AtHome(t, tops, lg, f, home) BY MapBlocks
  <1>0. /\ tops \in [Rows -> Cells] /\ 0 \in Rows /\ LastRow \in Rows /\ LastRow # 0
        /\ Rows \subseteq Cols /\ b \in Cells /\ b # 0 /\ 0 \in Cells
        /\ \A k \in Cols : k < NADDR <=> k \in Rows
    <2>1. tops \in [Rows -> Cells] BY DEF FileMap, MapTyped
    <2>2. \A k \in Cols : k < NADDR <=> k \in Rows BY DEF Rows, Cols, BlocksAssumption
    <2> QED BY <2>1, <2>2, Indices
  <1>1. t2[b] \in Tables /\ \A k \in Cols : t2[b][k] = IF k \in Rows THEN tops[k] ELSE 0
    BY <1>0 DEF Tables
  <1>2. tops2 \in [Rows -> Cells] /\ tops2[0] = b /\ \A i \in Rows : i # 0 => tops2[i] = 0
    BY <1>0
  <1>3. /\ \A i \in Rows, k \in Cols : MidAt(t, tops, lg, i, k) = 0
        /\ \A k, j \in Cols : LowAt(t, tops, lg, k, j) = 0
    <2>1. \A i, k : MidAt(t, tops, lg, i, k) = 0 BY DEF MidAt
    <2> QED BY <2>1 DEF LowAt, Word
  <1>4. \A i \in Rows, k \in Cols : MidAt(t2, tops2, lg2, i, k) = IF i = 0 /\ k \in Rows THEN tops[k] ELSE 0
    BY <1>0, <1>1, <1>2 DEF MidAt, Word
  <1>5. \A k \in Cols : MidAt(t2, tops2, lg2, LastRow, k) = 0 BY <1>0, <1>4
  <1>6. \A k, j \in Cols : LowAt(t2, tops2, lg2, k, j) = 0 BY <1>5 DEF LowAt, Word
  <1>7. MapTyped(t2, tops2, lg2) BY <1>1, <1>2, <1>5 DEF MapTyped
  <1>8. \A x \in Block :
            /\ x # 0
            /\ \A r \in Rows : tops[r] = x <=> home[x] = TopOf(f, r)
            /\ \A r \in Rows, l \in Cols : home[x] # MidOf(f, r, l)
            /\ \A l, j \in Cols : home[x] # LowOf(f, l, j) BY <1>3, Indices DEF FileMap
  <1>9. ASSUME NEW x \in Block
        PROVE  /\ \A r \in Rows : tops2[r] = x <=> home2[x] = TopOf(f, r)
               /\ \A r \in Rows, k \in Cols : MidAt(t2, tops2, lg2, r, k) = x <=> home2[x] = MidOf(f, r, k)
               /\ \A k, j \in Cols : LowAt(t2, tops2, lg2, k, j) = x <=> home2[x] = LowOf(f, k, j)
    <2>1. CASE x = b
      <3>1. home2[x] = TopOf(f, 0) /\ ~ OfFile(f, home[x]) /\ tops2[0] = x BY <2>1, <1>2
      <3>2. \A r \in Rows : tops[r] # x BY ONLY <3>1, <1>8, PlacesOfFiles, x \in Block
      <3>3. \A r \in Rows : tops2[r] = x <=> r = 0 BY ONLY <3>1, <1>2, <1>8, x \in Block
      <3>4. \A r \in Rows, k \in Cols : MidAt(t2, tops2, lg2, r, k) # x
        BY ONLY <3>2, <1>4, <1>8, x \in Block
      <3>5. \A k, j \in Cols : LowAt(t2, tops2, lg2, k, j) # x
        BY ONLY <1>6, <1>8, x \in Block
      <3> QED BY ONLY <3>1, <3>3, <3>4, <3>5, PlacesDiffer
    <2>2. CASE \E i \in Rows : tops[i] = x
      <3>1. PICK i \in Rows : tops[i] = x BY <2>2
      <3>2. home2[x] = MidOf(f, 0, i) /\ home[x] = TopOf(f, i) /\ x # 0 /\ OfFile(f, home[x])
        BY <3>1, <1>8, PlacesOfFiles
      <3>3. x # b BY <3>2
      <3>4. \A r \in Rows : tops2[r] # x BY ONLY <3>2, <3>3, <1>2
      <3>5. \A r \in Rows : tops[r] = x <=> r = i
        BY ONLY <3>1, <3>2, <1>8, PlacesDiffer, x \in Block
      <3>6. \A r \in Rows, k \in Cols : MidAt(t2, tops2, lg2, r, k) = x <=> r = 0 /\ k = i
        BY ONLY <3>1, <3>2, <3>5, <1>0, <1>4
      <3> QED BY ONLY <3>2, <3>4, <3>6, <1>6, PlacesDiffer
    <2>3. CASE x # b /\ \A i \in Rows : tops[i] # x
      <3>1. home2[x] = home[x] BY <2>3
      <3> QED BY ONLY <2>3, <3>1, <1>2, <1>4, <1>6, <1>8, x \in Block
    <2> QED BY <2>1, <2>2, <2>3
  <1> QED BY <1>7, <1>9 DEF FileMap

(* One address of the inode, with all that is under it, leaves the map. *)
LEMMA MapCut ==
    ASSUME BlocksAssumption, NEW t, NEW tops, NEW lg \in BOOLEAN, NEW f, NEW home, FileMap(t, tops, lg, f, home),
           NEW i \in Rows,
           NEW home2, \A x \in Block : IF UnderRow(f, i, home[x]) THEN ~ OfFile(f, home2[x]) ELSE home2[x] = home[x],
           NEW tops2 \in [Rows -> Cells], \A r \in Rows : tops2[r] = IF r = i THEN 0 ELSE tops[r]
    PROVE  FileMap(t, tops2, lg, f, home2)
  <1>0. /\ MapTyped(t, tops, lg) /\ LastRow \in Rows /\ 0 \in Cells BY Indices DEF FileMap
  <1>1. tops2 \in [Rows -> Cells] /\ \A r \in Rows : tops2[r] = IF r = i THEN 0 ELSE tops[r]
    OBVIOUS
  <1>2. \A r \in Rows, k \in Cols : MidAt(t, tops2, lg, r, k) = IF r = i THEN 0 ELSE MidAt(t, tops, lg, r, k)
    BY <1>1 DEF MidAt, Word
  <1>3. ASSUME NEW k \in Cols, NEW j \in Cols
        PROVE  LowAt(t, tops2, lg, k, j) = IF i = LastRow THEN 0 ELSE LowAt(t, tops, lg, k, j)
    <2>1. MidAt(t, tops2, lg, LastRow, k) = IF i = LastRow THEN 0 ELSE MidAt(t, tops, lg, LastRow, k)
      BY <1>0, <1>2
    <2> QED BY <2>1 DEF LowAt, Word
  <1>4. MapTyped(t, tops2, lg) BY <1>0, <1>1, <1>2 DEF MapTyped
  <1>5. \A x \in Block :
            /\ x # 0
            /\ \A r \in Rows : tops[r] = x <=> home[x] = TopOf(f, r)
            /\ \A r \in Rows, l \in Cols : MidAt(t, tops, lg, r, l) = x <=> home[x] = MidOf(f, r, l)
            /\ \A l, j \in Cols : LowAt(t, tops, lg, l, j) = x <=> home[x] = LowOf(f, l, j)
    BY Indices DEF FileMap
  <1>6. ASSUME NEW x \in Block
        PROVE  /\ \A r \in Rows : tops2[r] = x <=> home2[x] = TopOf(f, r)
               /\ \A r \in Rows, l \in Cols : MidAt(t, tops2, lg, r, l) = x <=> home2[x] = MidOf(f, r, l)
               /\ \A l, j \in Cols : LowAt(t, tops2, lg, l, j) = x <=> home2[x] = LowOf(f, l, j)
    <2>1. CASE UnderRow(f, i, home[x])
      <3>1. ~ OfFile(f, home2[x]) BY <2>1
      <3>2. /\ \A r \in Rows : home[x] = TopOf(f, r) => r = i
            /\ \A r \in Rows, l \in Cols : home[x] = MidOf(f, r, l) => r = i
            /\ \A l, j \in Cols : home[x] = LowOf(f, l, j) => i = LastRow
        BY ONLY <2>1, PlacesDiffer DEF UnderRow
      <3> QED BY ONLY <3>1, <3>2, <1>1, <1>2, <1>3, <1>5, PlacesOfFiles, x \in Block
    <2>2. CASE ~ UnderRow(f, i, home[x])
      <3>1. home2[x] = home[x] BY <2>2
      <3>2. /\ home[x] # TopOf(f, i)
            /\ \A l \in Cols : home[x] # MidOf(f, i, l)
            /\ i = LastRow => \A l, j \in Cols : home[x] # LowOf(f, l, j)
        BY ONLY <2>2 DEF UnderRow
      <3> QED BY ONLY <3>1, <3>2, <1>1, <1>2, <1>3, <1>5, x \in Block
    <2> QED BY <2>1, <2>2
  <1> QED BY <1>4, <1>6 DEF FileMap

(* A file with no address has no block, small or large. *)
LEMMA MapNone ==
    ASSUME BlocksAssumption, NEW t, NEW tops, NEW lg \in BOOLEAN, NEW f, NEW home, FileMap(t, tops, lg, f, home),
           \A i \in Rows : tops[i] = 0, NEW t2, NEW lg2 \in BOOLEAN
    PROVE  FileMap(t2, tops, lg2, f, home)
  <1>0. LastRow \in Rows BY Indices
  <1>1. \A r \in Rows, k \in Cols : MidAt(t, tops, lg, r, k) = 0 /\ MidAt(t2, tops, lg2, r, k) = 0
    BY DEF MidAt, Word
  <1>2. \A k, j \in Cols : LowAt(t, tops, lg, k, j) = 0 /\ LowAt(t2, tops, lg2, k, j) = 0
    BY <1>0, <1>1 DEF LowAt, Word
  <1>3. MapTyped(t2, tops, lg2) BY <1>0, <1>1 DEF FileMap, MapTyped
  <1> QED BY <1>1, <1>2, <1>3 DEF FileMap


(* The words of a table, each once. *)
LEMMA WordsChain ==
    ASSUME BlocksAssumption, NEW b, store[b] \in Tables,
           \A k, l \in Cols : store[b][k] = store[b][l] /\ store[b][k] # 0 => k = l
    PROVE  /\ IsChain(Words(b), Block)
           /\ \A x \in Block : x \in Range(Words(b)) <=> \E k \in Cols : store[b][k] = x
  <1> DEFINE g == [k \in 1 .. NINDIR |-> IF store[b][NINDIR - k] = 0 THEN <<>> ELSE <<store[b][NINDIR - k]>>]
  <1>0. /\ NINDIR \in Nat \ {0} /\ \A k \in 1 .. NINDIR : NINDIR - k \in Cols
        /\ \A c \in Cols : NINDIR - c \in 1 .. NINDIR /\ NINDIR - (NINDIR - c) = c
        /\ \A k, l \in 1 .. NINDIR : NINDIR - k = NINDIR - l => k = l
    BY DEF BlocksAssumption, Cols
  <1> DEFINE w(k) == store[b][NINDIR - k]
  <1>1. /\ \A k \in 1 .. NINDIR : w(k) # 0 => w(k) \in Block
        /\ \A k, l \in 1 .. NINDIR : w(k) = w(l) /\ w(k) # 0 => k = l
    <2>1. \A c \in Cols : store[b][c] # 0 => store[b][c] \in Block BY Indices DEF Tables
    <2>2. ASSUME NEW k \in 1 .. NINDIR, NEW l \in 1 .. NINDIR, w(k) = w(l), w(k) # 0 PROVE k = l
      <3>1. NINDIR - k = NINDIR - l BY <1>0, <2>2
      <3> QED BY <1>0, <3>1
    <2> QED BY <1>0, <2>1, <2>2
  <1>2. \A k \in 1 .. NINDIR : g[k] = IF w(k) = 0 THEN <<>> ELSE <<w(k)>> OBVIOUS
  <1>3. FlattenSeq(g) = Words(b) BY DEF Words
  <1>4. DOMAIN g = 1 .. NINDIR /\ g = [k \in 1 .. NINDIR |-> g[k]] OBVIOUS
  <1>5. ASSUME NEW x \in Block
        PROVE  (\E k \in 1 .. NINDIR : w(k) = x) <=> \E c \in Cols : store[b][c] = x
    <2>1. ASSUME NEW c \in Cols, store[b][c] = x PROVE \E k \in 1 .. NINDIR : w(k) = x
      <3>1. NINDIR - c \in 1 .. NINDIR /\ w(NINDIR - c) = store[b][c] BY <1>0
      <3> QED BY <2>1, <3>1
    <2>2. ASSUME NEW k \in 1 .. NINDIR, w(k) = x PROVE \E c \in Cols : store[b][c] = x
      BY <1>0, <2>2
    <2> QED BY <2>1, <2>2
  <1> HIDE DEF g, w
  <1>6. \A k \in 1 .. NINDIR : IsChain(g[k], Block) /\ Range(g[k]) = IF w(k) = 0 THEN {} ELSE {w(k)}
    <2> SUFFICES ASSUME NEW k \in 1 .. NINDIR PROVE IsChain(g[k], Block) /\ Range(g[k]) = IF w(k) = 0 THEN {} ELSE {w(k)}
      OBVIOUS
    <2>1. CASE w(k) = 0 BY <1>2, <2>1, ChainOne
    <2>2. CASE w(k) # 0
      <3>1. g[k] = <<w(k)>> /\ w(k) \in Block BY <1>1, <1>2, <2>2
      <3> QED BY <2>2, <3>1, ChainOne
    <2> QED BY <2>1, <2>2
  <1>7. \A k \in 1 .. NINDIR : IsChain(g[k], Block) BY <1>6
  <1>8. g \in [1 .. NINDIR -> Seq(Block)] BY <1>4, <1>7 DEF IsChain
  <1>9. \A k, l \in 1 .. NINDIR : k # l => Range(g[k]) \cap Range(g[l]) = {}
    BY ONLY <1>1, <1>6
  <1>10. IsChain(FlattenSeq(g), Block) /\ \A x : x \in Range(FlattenSeq(g)) <=> \E k \in 1 .. NINDIR : x \in Range(g[k])
    BY ONLY <1>0, <1>7, <1>8, <1>9, ChainFlatten
  <1>11. ASSUME NEW x \in Block
         PROVE  (\E k \in 1 .. NINDIR : x \in Range(g[k])) <=> \E k \in 1 .. NINDIR : w(k) = x
    <2>1. x # 0 BY Indices
    <2> QED BY ONLY <1>6, <2>1
  <1> QED BY <1>3, <1>5, <1>10, <1>11

(* Truncation frees exactly what is under an address. *)
LEMMA MapUnder ==
    ASSUME BlocksAssumption, NEW f, large[f] \in BOOLEAN, NEW tops, NEW home, FileMap(store, tops, large[f], f, home),
           NEW i \in Rows, tops[i] = addr[f][i]
    PROVE  /\ IsChain(Under(f, i), Block)
           /\ \A x \in Block : x \in Range(Under(f, i)) <=> UnderRow(f, i, home[x])
  <1> DEFINE lg == large[f]
             a == addr[f][i]
             mid(k) == MidAt(store, tops, lg, i, k)
             low(k, j) == LowAt(store, tops, lg, k, j)
  <1>h. AtHome(store, tops, lg, f, home) BY MapBlocks
  <1>0. MapTyped(store, tops, lg) BY DEF FileMap
  <1>1. \A x \in Block :
            /\ x # 0
            /\ \A r \in Rows : tops[r] = x <=> home[x] = TopOf(f, r)
            /\ \A r \in Rows, l \in Cols : MidAt(store, tops, lg, r, l) = x <=> home[x] = MidOf(f, r, l)
            /\ \A l, j \in Cols : LowAt(store, tops, lg, l, j) = x <=> home[x] = LowOf(f, l, j)
    BY Indices DEF FileMap
  <1>2. CASE a = 0
    <2>1. Under(f, i) = <<>> BY <1>2 DEF Under
    <2>2. \A k \in Cols : mid(k) = 0 BY <1>2 DEF MidAt, Word
    <2>3. i = LastRow => \A k, j \in Cols : low(k, j) = 0 BY <2>2 DEF LowAt, Word
    <2>4. \A x \in Block : ~ UnderRow(f, i, home[x]) BY <1>1, <1>2, <2>2, <2>3 DEF UnderRow
    <2> QED BY <2>1, <2>4, ChainOne
  <1>3. CASE a # 0 /\ ~ lg
    <2>0. a \in Block /\ home[a] = TopOf(f, i) BY <1>3, <1>h DEF AtHome
    <2>1. Under(f, i) = <<a>> BY <1>3 DEF Under
    <2>2. \A k \in Cols : mid(k) = 0 BY <1>3 DEF MidAt, Word
    <2>3. i = LastRow => \A k, j \in Cols : low(k, j) = 0 BY <2>2 DEF LowAt, Word
    <2>4. \A x \in Block : UnderRow(f, i, home[x]) <=> x = a
      BY <1>1, <2>2, <2>3 DEF UnderRow
    <2> QED BY <2>0, <2>1, <2>4, ChainOne
  <1>4. CASE a # 0 /\ lg
    <2> DEFINE h == [k \in 1 .. NINDIR |-> IF store[a][NINDIR - k] = 0 THEN <<>> ELSE Below(i, store[a][NINDIR - k])]
               Part(c, x) == home[x] = MidOf(f, i, c) \/ (i = LastRow /\ \E j \in Cols : home[x] = LowOf(f, c, j))
    <2>0. /\ NINDIR \in Nat \ {0} /\ \A k \in 1 .. NINDIR : NINDIR - k \in Cols
          /\ \A c \in Cols : NINDIR - c \in 1 .. NINDIR /\ NINDIR - (NINDIR - c) = c
          /\ \A k, l \in 1 .. NINDIR : NINDIR - k = NINDIR - l => k = l
      BY DEF BlocksAssumption, Cols
    <2>1. a \in Block /\ home[a] = TopOf(f, i) BY <1>4, <1>h DEF AtHome
    <2>2. \A c \in Cols : store[a][c] = mid(c) BY <1>4 DEF MidAt, Word
    <2>3. Under(f, i) = Append(FlattenSeq(h), a) BY <1>4 DEF Under
    <2>4. \A k \in 1 .. NINDIR : h[k] = IF mid(NINDIR - k) = 0 THEN <<>> ELSE Below(i, mid(NINDIR - k))
      BY <2>0, <2>2
    <2>5. DOMAIN h = 1 .. NINDIR /\ h = [k \in 1 .. NINDIR |-> h[k]] OBVIOUS
    <2> HIDE DEF h, a, lg, mid, low
    <2>6. ASSUME NEW c \in Cols, mid(c) # 0
          PROVE  /\ IsChain(Below(i, mid(c)), Block)
                 /\ \A x \in Block : x \in Range(Below(i, mid(c))) <=> Part(c, x)
      <3> DEFINE m == mid(c)
      <3>1. m \in Block /\ home[m] = MidOf(f, i, c) BY <2>6, <1>h DEF AtHome, mid
      <3>2. \A x \in Block : home[x] = MidOf(f, i, c) <=> x = m BY <1>1 DEF mid
      <3>3. CASE i # LastRow
        <4>1. Below(i, m) = <<m>> BY <3>3 DEF Below, LastRow
        <4> QED BY <3>1, <3>2, <3>3, <4>1, ChainOne
      <3>4. CASE i = LastRow
        <4>1. \A j \in Cols : low(c, j) = store[m][j]
          BY <2>6, <3>4 DEF LowAt, Word, low, mid
        <4>2. store[m] \in Tables BY <1>0, <2>6, <3>4 DEF MapTyped, mid
        <4>3. \A j \in Cols : \A x \in Block : store[m][j] = x <=> home[x] = LowOf(f, c, j)
          BY <1>1, <4>1 DEF low
        <4>4. \A j \in Cols : store[m][j] # 0 => store[m][j] \in Block
          BY <4>2, Indices DEF Tables
        <4>5. \A j, l \in Cols : store[m][j] = store[m][l] /\ store[m][j] # 0 => j = l
          BY ONLY <4>3, <4>4, PlacesDiffer
        <4>6. /\ IsChain(Words(m), Block)
              /\ \A x \in Block : x \in Range(Words(m)) <=> \E j \in Cols : store[m][j] = x
          BY <4>2, <4>5, WordsChain
        <4>7. m \notin Range(Words(m)) BY ONLY <3>1, <4>3, <4>6, PlacesDiffer
        <4>8. /\ IsChain(Append(Words(m), m), Block)
              /\ Range(Append(Words(m), m)) = Range(Words(m)) \cup {m}
          BY <3>1, <4>6, <4>7, ChainAppend
        <4>9. Below(i, m) = Append(Words(m), m) BY <3>4 DEF Below, LastRow
        <4>10. ASSUME NEW x \in Block PROVE x \in Range(Words(m)) \cup {m} <=> Part(c, x)
          BY <3>2, <3>4, <4>3, <4>6
        <4> QED BY <4>8, <4>9, <4>10
      <3> QED BY <3>3, <3>4
    <2>7. ASSUME NEW k \in 1 .. NINDIR
          PROVE  /\ IsChain(h[k], Block)
                 /\ \A x \in Block : x \in Range(h[k]) <=> Part(NINDIR - k, x)
      <3>0. NINDIR - k \in Cols BY <2>0
      <3>1. CASE mid(NINDIR - k) # 0 BY <3>0, <3>1, <2>4, <2>6
      <3>2. CASE mid(NINDIR - k) = 0
        <4>1. h[k] = <<>> BY <3>2, <2>4
        <4>2. \A x \in Block : home[x] # MidOf(f, i, NINDIR - k) BY <1>1, <3>0, <3>2 DEF mid
        <4>3. i = LastRow => \A j \in Cols : low(NINDIR - k, j) = 0
          BY <3>0, <3>2 DEF LowAt, Word, low, mid
        <4>4. i = LastRow => \A x \in Block : \A j \in Cols : home[x] # LowOf(f, NINDIR - k, j)
          BY <1>1, <3>0, <4>3 DEF low
        <4> QED BY <4>1, <4>2, <4>4, ChainOne
      <3> QED BY <3>1, <3>2
    <2>8. h \in [1 .. NINDIR -> Seq(Block)] BY <2>5, <2>7 DEF IsChain
    <2>9. \A x : \A k, l \in 1 .. NINDIR : Part(NINDIR - k, x) /\ Part(NINDIR - l, x) => k = l
      BY <2>0, PlacesDiffer
    <2>10. \A k \in 1 .. NINDIR : Range(h[k]) \subseteq Block BY <2>7, ChainRange
    <2> HIDE DEF Part
    <2>11. \A k, l \in 1 .. NINDIR : k # l => Range(h[k]) \cap Range(h[l]) = {}
      BY <2>7, <2>9, <2>10
    <2>12. IsChain(FlattenSeq(h), Block) /\ \A x : x \in Range(FlattenSeq(h)) <=> \E k \in 1 .. NINDIR : x \in Range(h[k])
      <3>1. \A k \in 1 .. NINDIR : IsChain(h[k], Block) BY <2>7
      <3> QED BY ONLY <2>0, <2>8, <2>11, <3>1, ChainFlatten
    <2>13. \A x \in Block : x \in Range(FlattenSeq(h)) <=> \E c \in Cols : Part(c, x)
      <3> SUFFICES ASSUME NEW x \in Block PROVE x \in Range(FlattenSeq(h)) <=> \E c \in Cols : Part(c, x)
        OBVIOUS
      <3>1. ASSUME NEW c \in Cols, Part(c, x) PROVE x \in Range(FlattenSeq(h))
        <4>1. NINDIR - c \in 1 .. NINDIR /\ NINDIR - (NINDIR - c) = c BY <2>0
        <4>2. x \in Range(h[NINDIR - c]) BY <3>1, <4>1, <2>7
        <4> QED BY <4>1, <4>2, <2>12
      <3>2. ASSUME x \in Range(FlattenSeq(h)) PROVE \E c \in Cols : Part(c, x)
        BY <3>2, <2>0, <2>7, <2>12
      <3> QED BY <3>1, <3>2
    <2>14. \A c \in Cols : ~ Part(c, a) BY <2>1, PlacesDiffer DEF Part
    <2>15. a \notin Range(FlattenSeq(h)) BY <2>1, <2>13, <2>14
    <2>16. /\ IsChain(Append(FlattenSeq(h), a), Block)
           /\ Range(Append(FlattenSeq(h), a)) = Range(FlattenSeq(h)) \cup {a}
      BY <2>1, <2>12, <2>15, ChainAppend
    <2>17. ASSUME NEW x \in Block PROVE UnderRow(f, i, home[x]) <=> x = a \/ \E c \in Cols : Part(c, x)
      <3>1. home[x] = TopOf(f, i) <=> x = a BY <1>1 DEF a
      <3> QED BY <3>1 DEF UnderRow, Part
    <2> QED BY <2>3, <2>13, <2>16, <2>17
  <1> QED BY <1>2, <1>3, <1>4

-------------------------------------------------------------------------------
(* The invariant. *)
LockPcs == {"reload", "spill", "spilled"}
TruncPcs == {"trunc", "free", "spill", "spilled"}
HandPcs == {"reload", "free", "spill", "spilled"} \cup Returns
AllPcs == {"user", "alloc", "large", "double", "single", "trunc"} \cup HandPcs
Regs == [pc : AllPcs, f : File \cup {0}, bn : Bns \cup {0}, bno : Cells, ret : Returns \cup {"user"},
         tab : Cells, fresh : BOOLEAN, k : Rows, todo : Seq(Block)]
Types ==
    /\ flock \in BOOLEAN /\ large \in [File -> BOOLEAN] /\ addr \in [File -> [Rows -> Cells]]
    /\ store = [b \in Block |-> store[b]] /\ u \in [Proc -> Regs]

(* Two processes are never at one file, nor at the superblock. *)
Alone == \A p, q \in Proc : u[p].f = u[q].f /\ u[p].f # 0 => p = q
Locked == \A p, q \in Proc : u[p].pc \in LockPcs => flock /\ (u[q].pc \in LockPcs => p = q)

(* What a process found before it slept is still so: r are its registers,  *)
(* a and lg its file's addresses and size, t what the blocks hold.         *)
Stage(r) == IF r.pc \in {"alloc", "reload"} THEN r.ret ELSE r.pc
SlotOf(n) == n \div NINDIR - LastRow
Local(r, a, lg, t) ==
    /\ r.pc = "user" => r = Idle
    /\ r.pc # "user" => r.f \in File
    /\ r.pc \in {"alloc", "reload"} => r.ret \in Returns
    /\ r.pc \in LockPcs \cup {"free"} => r.bno # 0
    /\ r.fresh => Stage(r) \in {"double", "second", "single", "data"}
    /\ r.pc \notin TruncPcs => r.todo = <<>> /\ (r.pc # "user" => r.bn \in Bns)
    /\ r.pc \in TruncPcs => \A i \in Rows : r.k < i => a[i] = 0
    /\ Stage(r) = "small" => ~ lg /\ r.bn \in Rows /\ a[r.bn] = 0
    /\ Stage(r) = "convert" => ~ lg
    /\ Stage(r) = "large" => lg
    /\ Stage(r) = "indirect" => lg /\ a[Index(r.bn)] = 0
    /\ Stage(r) \in {"double", "second"} => lg /\ r.tab # 0 /\ Double(r.bn) /\ r.tab = a[LastRow]
    /\ Stage(r) = "second" => t[r.tab][SlotOf(r.bn)] = 0
    /\ Stage(r) \in {"single", "data"} =>
            lg /\ r.tab # 0 /\ r.tab = IF Double(r.bn) THEN MidAt(t, a, lg, LastRow, SlotOf(r.bn)) ELSE a[Index(r.bn)]
    /\ Stage(r) = "data" => t[r.tab][r.bn % NINDIR] = 0

(* What the blocks hold for their files, and what a truncated file has.    *)
Holds == [b \in Block |-> Held(b)]
Cut(f, i) == \E p \in Proc : u[p].f = f /\ u[p].pc \in TruncPcs /\ u[p].k <= i
Tops(f) == [i \in Rows |-> IF Cut(f, i) THEN 0 ELSE addr[f][i]]
Start == IF Holder = {} THEN sfree ELSE store[u[CHOOSE p \in Holder : TRUE].bno]
Places ==
    {TheList} \cup {HandOf(p) : p \in Proc} \cup {ToFree(p) : p \in Proc}
    \cup {TopOf(f, i) : f \in File, i \in Rows} \cup {MidOf(f, i, k) : f \in File, i \in Rows, k \in Cols}
    \cup {LowOf(f, k, j) : f \in File, k \in Cols, j \in Cols}

(* Each block has one home, and is there. *)
FreeHome(home) == {b \in Block : home[b] = TheList}
HandHome(home, p, r) == \A b \in Block : r.pc \in HandPcs /\ r.bno = b <=> home[b] = HandOf(p)
TodoHome(home, p, r) == IsChain(r.todo, Block) /\ \A b \in Block : b \in Range(r.todo) <=> home[b] = ToFree(p)
Homed(home) ==
    /\ \A b \in Block : home[b] \in Places
    /\ Listed(store, Start, FreeHome(home))
    /\ \A p \in Proc : HandHome(home, p, u[p]) /\ TodoHome(home, p, u[p])
    /\ \A f \in File : FileMap(Holds, Tops(f), large[f], f, home)

Found == \A p \in Proc : Local(u[p], addr[u[p].f], large[u[p].f], Holds)
Good == Types /\ Alone /\ Locked /\ Found /\ \E home : Homed(home)
BlocksInv == stale \in BOOLEAN /\ (~ stale => Good)

-------------------------------------------------------------------------------
(* The blocks of a file that are written are in its map. *)
LEMMA BnFacts ==
    ASSUME BlocksAssumption, NEW n \in Bns
    PROVE  /\ n \in Nat /\ n % NINDIR \in Cols /\ Index(n) \in Rows
           /\ Double(n) => SlotOf(n) \in Cols /\ Index(n) = LastRow
           /\ ~ Double(n) => Index(n) # LastRow
           /\ n >= 0 /\ (n < NADDR => n \in Rows)
  <1> DEFINE q == n \div NINDIR
  <1>1. /\ NINDIR \in Nat \ {0} /\ NADDR \in Nat \ {0, 1} /\ n \in Nat
        /\ n <= (NADDR - 1 + NINDIR) * NINDIR - 1 BY DEF BlocksAssumption
  <1>2. q \in Nat /\ n = NINDIR * q + (n % NINDIR) /\ (n % NINDIR) \in 0 .. NINDIR - 1
    BY <1>1
  <1>3. q < NADDR - 1 + NINDIR
    <2> DEFINE m == NADDR - 1 + NINDIR
    <2>1. m \in Nat /\ n < m * NINDIR /\ NINDIR * q <= n BY <1>1, <1>2
    <2> HIDE DEF m, q
    <2>2. CASE q >= m
      <3>1. NINDIR * q >= NINDIR * m /\ NINDIR * m = m * NINDIR BY <1>1, <1>2, <2>1, <2>2
      <3>2. NINDIR * q \in Int /\ m * NINDIR \in Int BY <1>1, <1>2, <2>1
      <3> QED BY <1>1, <2>1, <3>1, <3>2
    <2> QED BY <1>2, <2>1, <2>2 DEF m
  <1> HIDE DEF q
  <1>4. Index(n) = IF q >= NADDR - 1 THEN NADDR - 1 ELSE q BY DEF Index, q
  <1>5. SlotOf(n) = q - (NADDR - 1) BY DEF SlotOf, LastRow, q
  <1> QED BY <1>1, <1>2, <1>3, <1>4, <1>5 DEF Double, Rows, Cols, LastRow

LEMMA LocalIdle ==
    ASSUME BlocksAssumption
    PROVE  /\ Idle \in Regs /\ \A a, lg, t : Local(Idle, a, lg, t)
           /\ \A home, p : HandHome(home, p, Idle) <=> \A b \in Block : home[b] # HandOf(p)
           /\ \A home, p : TodoHome(home, p, Idle) <=> \A b \in Block : home[b] # ToFree(p)
  <1>1. Idle \in Regs BY Indices, EmptySeq DEF Idle, Regs, NoFile, AllPcs
  <1>2. \A a, lg, t : Local(Idle, a, lg, t) BY DEF Local, Stage, Idle, LockPcs, TruncPcs
  <1>3. IsChain(Idle.todo, Block) /\ Range(Idle.todo) = {} BY ChainOne DEF Idle
  <1>4. Idle.pc \notin HandPcs BY DEF Idle, HandPcs, Returns
  <1> QED BY <1>1, <1>2, <1>3, <1>4 DEF HandHome, TodoHome

(* A file that no process truncates. *)
LEMMA WholeTops ==
    ASSUME BlocksAssumption, Types, Alone, NEW f \in File, \A p \in Proc : u[p].f = f => u[p].pc \notin TruncPcs
    PROVE  Tops(f) = addr[f] /\ addr[f] \in [Rows -> Cells]
  <1>1. addr[f] \in [Rows -> Cells] BY DEF Types
  <1>2. \A i \in Rows : ~ Cut(f, i) BY DEF Cut
  <1> QED BY <1>1, <1>2 DEF Tops

(* What holds where a process is at an indirect block. *)
TabStages == {"double", "second", "single", "data"}
LEMMA TabHome ==
    ASSUME BlocksAssumption, Types, Alone, Found, NEW home, Homed(home), NEW p \in Proc, Stage(u[p]) \in TabStages
    PROVE  /\ u[p].f \in File /\ u[p].f # 0 /\ u[p].tab \in Block /\ u[p].tab # 0
           /\ large[u[p].f] /\ Tops(u[p].f) = addr[u[p].f] /\ u[p].bn \in Bns
           /\ OfFile(u[p].f, home[u[p].tab]) /\ Holds[u[p].tab] \in Tables
           /\ FileMap(Holds, addr[u[p].f], large[u[p].f], u[p].f, home)
  <1> DEFINE r == u[p]
             f == u[p].f
             lg == large[f]
  <1>1. r \in Regs /\ Local(r, addr[f], lg, Holds) BY DEF Types, Found
  <1>2. r.pc \notin TruncPcs /\ r.pc # "user" BY DEF Stage, TabStages, TruncPcs
  <1>3. f \in File /\ lg /\ r.tab # 0 /\ r.bn \in Bns BY <1>1, <1>2 DEF Local, TabStages
  <1>4. f # 0 BY <1>3 DEF BlocksAssumption
  <1>5. \A q \in Proc : u[q].f = f => u[q].pc \notin TruncPcs BY <1>2, <1>4 DEF Alone
  <1>6. Tops(f) = addr[f] /\ addr[f] \in [Rows -> Cells] BY <1>3, <1>5, WholeTops
  <1>7. FileMap(Holds, addr[f], lg, f, home) /\ lg \in BOOLEAN
    BY <1>3, <1>6 DEF Homed, Types
  <1>8. AtHome(Holds, addr[f], lg, f, home) /\ MapTyped(Holds, addr[f], lg)
    BY <1>7, MapBlocks DEF FileMap
  <1>9. /\ r.tab \in Block /\ OfFile(f, home[r.tab]) /\ Holds[r.tab] \in Tables
    <2>0. LastRow \in Rows /\ Index(r.bn) \in Rows /\ (Double(r.bn) => SlotOf(r.bn) \in Cols)
      BY <1>3, BnFacts, Indices
    <2>1. CASE \E i \in Rows : r.tab = addr[f][i] BY <2>1, <1>3, <1>8 DEF AtHome, MapTyped
    <2>2. CASE Double(r.bn) /\ r.tab = MidAt(Holds, addr[f], lg, LastRow, SlotOf(r.bn))
      BY <2>0, <2>2, <1>3, <1>8 DEF AtHome, MapTyped
    <2>3. (\E i \in Rows : r.tab = addr[f][i]) \/ (Double(r.bn) /\ r.tab = MidAt(Holds, addr[f], lg, LastRow, SlotOf(r.bn)))
      BY <1>1, <2>0 DEF Local, TabStages
    <2> QED BY <2>1, <2>2, <2>3
  <1> QED BY <1>3, <1>4, <1>6, <1>7, <1>9

LEMMA OneOwner ==
    \A f, g, x : OfFile(f, x) /\ OfFile(g, x) => f = g BY DEF OfFile

(* No other process has an indirect block of the same file in hand. *)
LEMMA FreshOwn ==
    ASSUME BlocksAssumption, Types, Alone, Found, NEW home, Homed(home), NEW q \in Proc, u[q].fresh
    PROVE  /\ u[q].f \in File /\ u[q].f # 0 /\ u[q].tab \in Block /\ OfFile(u[q].f, home[u[q].tab])
           /\ \A p \in Proc : p # q => u[p].f # u[q].f
  <1>1. Stage(u[q]) \in TabStages BY DEF Found, Local, TabStages
  <1>2. u[q].f \in File /\ u[q].f # 0 /\ u[q].tab \in Block /\ OfFile(u[q].f, home[u[q].tab])
    BY <1>1, TabHome
  <1> QED BY <1>2 DEF Alone

LEMMA TableHeld ==
    ASSUME BlocksAssumption, Types, Alone, Found, NEW home, Homed(home), NEW p \in Proc, Stage(u[p]) \in TabStages
    PROVE  Table(p) = Holds[u[p].tab]
  <1>1. u[p].tab \in Block /\ OfFile(u[p].f, home[u[p].tab]) BY TabHome
  <1>2. Holds[u[p].tab] = Held(u[p].tab) BY <1>1 DEF Holds
  <1>3. CASE u[p].fresh BY <1>2, <1>3 DEF Table, Held
  <1>4. CASE ~ u[p].fresh
    <2>1. ASSUME NEW q \in Proc, u[q].fresh PROVE u[q].tab # u[p].tab
      <3>1. OfFile(u[q].f, home[u[q].tab]) /\ u[p].f # u[q].f BY <2>1, <1>4, FreshOwn
      <3> QED BY <1>1, <3>1, OneOwner
    <2> QED BY <1>2, <1>4, <2>1 DEF Table, Held
  <1> QED BY <1>3, <1>4


-------------------------------------------------------------------------------
(* What a step of a process leaves alone. *)

(* What a block holds for its file changes with it, or as one begins or    *)
(* ceases to be new.                                                       *)
LEMMA HeldFrame ==
    ASSUME NEW p \in Proc, \A q \in Proc : q # p => u'[q] = u[q], NEW b \in Block, store'[b] = store[b],
           u'[p].fresh /\ u'[p].tab = b <=> u[p].fresh /\ u[p].tab = b
    PROVE  Holds'[b] = Holds[b]
  <1>1. (\E q \in Proc : u'[q].fresh /\ u'[q].tab = b) <=> \E q \in Proc : u[q].fresh /\ u[q].tab = b
    OBVIOUS
  <1>2. Holds'[b] = (IF \E q \in Proc : u'[q].fresh /\ u'[q].tab = b THEN Zeros ELSE store'[b])
    BY DEF Holds, Held, Zeros, Block
  <1>3. Holds[b] = IF \E q \in Proc : u[q].fresh /\ u[q].tab = b THEN Zeros ELSE store[b]
    BY DEF Holds, Held, Zeros, Block
  <1> QED BY <1>1, <1>2, <1>3

LEMMA OtherLocal ==
    ASSUME BlocksAssumption, Types, Alone, Found, NEW home, Homed(home), NEW q \in Proc, u'[q] = u[q],
           u[q].f # 0 => /\ addr'[u[q].f] = addr[u[q].f] /\ large'[u[q].f] = large[u[q].f]
                         /\ \A b \in Block : OfFile(u[q].f, home[b]) => Holds'[b] = Holds[b]
    PROVE  Local(u'[q], addr'[u'[q].f], large'[u'[q].f], Holds')
  <1> DEFINE r == u[q]
             a == addr[u[q].f]
             lg == large[u[q].f]
  <1>1. Local(r, a, lg, Holds) BY DEF Found
  <1>2. CASE u[q].f = 0
    <2>1. r = Idle BY <1>1, <1>2 DEF Local, BlocksAssumption
    <2>2. u'[q] = Idle BY <2>1
    <2> QED BY <2>2, LocalIdle
  <1>3. CASE u[q].f # 0
    <2>1. addr'[u'[q].f] = a /\ large'[u'[q].f] = lg /\ u'[q] = r BY <1>3
    <2>2. CASE Stage(r) \in TabStages
      <3>1. /\ u[q].f \in File /\ r.tab \in Block /\ OfFile(u[q].f, home[r.tab]) /\ r.bn \in Bns
            /\ FileMap(Holds, a, lg, u[q].f, home) BY <2>2, TabHome
      <3>2. lg \in BOOLEAN BY <3>1 DEF Types
      <3>3. Holds'[r.tab] = Holds[r.tab] BY <1>3, <3>1
      <3>4. \A i \in Rows, k \in Cols : MidAt(Holds', a, lg, i, k) = MidAt(Holds, a, lg, i, k)
        <4>1. \A b \in Block : OfFile(u[q].f, home[b]) => Holds'[b] = Holds[b] BY <1>3
        <4> HIDE DEF r, a, lg
        <4> QED BY ONLY <3>1, <3>2, <4>1, BlocksAssumption, MapAgree
      <3>5. Double(r.bn) => MidAt(Holds', a, lg, LastRow, SlotOf(r.bn)) = MidAt(Holds, a, lg, LastRow, SlotOf(r.bn))
        BY <3>1, <3>4, BnFacts, Indices
      <3> HIDE DEF r, a, lg
      <3>6. Local(r, a, lg, Holds') BY <1>1, <3>3, <3>5 DEF Local
      <3> QED BY <2>1, <3>6
    <2>3. CASE Stage(r) \notin TabStages
      <3> HIDE DEF r, a, lg
      <3>1. Local(r, a, lg, Holds') BY <1>1, <2>3 DEF Local, TabStages
      <3> QED BY <2>1, <3>1
    <2> QED BY <2>2, <2>3
  <1> QED BY <1>2, <1>3

LEMMA OtherFile ==
    ASSUME BlocksAssumption, Types, NEW home, Homed(home), NEW g \in File, addr'[g] = addr[g], large'[g] = large[g],
           \A q \in Proc : u[q].f = g \/ u'[q].f = g => u'[q] = u[q],
           \A b \in Block : OfFile(g, home[b]) => Holds'[b] = Holds[b],
           NEW home2, \A b \in Block : home2[b] = home[b] \/ (~ OfFile(g, home[b]) /\ ~ OfFile(g, home2[b]))
    PROVE  FileMap(Holds', Tops(g)', large'[g], g, home2)
  <1>1. \A i : Cut(g, i)' <=> Cut(g, i) BY DEF Cut
  <1>2. Tops(g)' = Tops(g) BY <1>1 DEF Tops, Rows
  <1>3. FileMap(Holds, Tops(g), large[g], g, home) /\ large[g] \in BOOLEAN
    BY DEF Homed, Types
  <1>4. FileMap(Holds', Tops(g), large[g], g, home2) BY <1>3, MapFrame
  <1> QED BY <1>2, <1>4

(* Where a step of p, at file f, may take blocks from, and put them. *)
Mine(p, f, x) == x \in {TheList, HandOf(p), ToFree(p)} \/ OfFile(f, x)

LEMMA MineOnly ==
    ASSUME NEW p, NEW f, NEW x, Mine(p, f, x)
    PROVE  /\ \A g : g # f => ~ OfFile(g, x)
           /\ \A q : q # p => x # HandOf(q) /\ x # ToFree(q)
  <1>1. CASE OfFile(f, x)
    <2>1. \A q : x # HandOf(q) /\ x # ToFree(q) BY <1>1, PlacesOfFiles
    <2> QED BY <1>1, <2>1, OneOwner
  <1>2. CASE x \in {TheList, HandOf(p), ToFree(p)} BY <1>2, PlacesOfFiles, PlacesElsewhere
  <1> QED BY <1>1, <1>2 DEF Mine

LEMMA GoodNext ==
    ASSUME BlocksAssumption, Types, Alone, Found, NEW home, Homed(home), NEW p \in Proc, NEW f \in File,
           \A q \in Proc : q # p => u'[q] = u[q] /\ u[q].f # f,
           u[p].f \in {0, f}, u'[p].f \in {0, f},
           \A g \in File : g # f => addr'[g] = addr[g] /\ large'[g] = large[g],
           \A b \in Block : Holds'[b] = Holds[b] \/ Mine(p, f, home[b]),
           NEW home2, \A b \in Block : home2[b] = home[b] \/ (Mine(p, f, home[b]) /\ Mine(p, f, home2[b])),
           Types', Locked', Local(u'[p], addr'[u'[p].f], large'[u'[p].f], Holds'),
           \A b \in Block : home2[b] \in Places,
           Listed(store', Start', FreeHome(home2)),
           HandHome(home2, p, u'[p]), TodoHome(home2, p, u'[p]),
           FileMap(Holds', Tops(f)', large'[f], f, home2) PROVE Good'
  <1>0. f # 0 BY DEF BlocksAssumption
  <1>1. Alone'
    <2> SUFFICES ASSUME NEW q \in Proc, NEW r \in Proc, u'[q].f = u'[r].f, u'[q].f # 0 PROVE q = r
      BY DEF Alone
    <2>1. CASE q = p BY <2>1, <1>0
    <2>2. CASE r = p BY <2>2, <1>0
    <2>3. CASE q # p /\ r # p BY <2>3 DEF Alone
    <2> QED BY <2>1, <2>2, <2>3
  <1>2. ASSUME NEW q \in Proc, q # p
        PROVE  Local(u'[q], addr'[u'[q].f], large'[u'[q].f], Holds')
    <2>1. u'[q] = u[q] /\ u[q].f # f BY <1>2
    <2>2. u[q].f # 0 => u[q].f \in File BY DEF Types, Regs
    <2>3. ASSUME NEW b \in Block, OfFile(u[q].f, home[b]) PROVE Holds'[b] = Holds[b]
      BY <2>1, <2>3, MineOnly
    <2> QED BY <2>1, <2>2, <2>3, OtherLocal
  <1>3. Found' BY <1>2 DEF Found
  <1>4. ASSUME NEW q \in Proc, q # p
        PROVE  HandHome(home2, q, u'[q]) /\ TodoHome(home2, q, u'[q])
    <2>1. HandHome(home, q, u[q]) /\ TodoHome(home, q, u[q]) /\ u'[q] = u[q]
      BY <1>4 DEF Homed
    <2>2. \A b \in Block : (home2[b] = HandOf(q) <=> home[b] = HandOf(q)) /\ (home2[b] = ToFree(q) <=> home[b] = ToFree(q))
      BY <1>4, MineOnly
    <2> QED BY <2>1, <2>2 DEF HandHome, TodoHome
  <1>5. ASSUME NEW g \in File, g # f PROVE FileMap(Holds', Tops(g)', large'[g], g, home2)
    <2>0. g # 0 BY DEF BlocksAssumption
    <2>1. \A q \in Proc : u[q].f = g \/ u'[q].f = g => u'[q] = u[q] BY <1>5, <2>0
    <2>2. \A b \in Block : OfFile(g, home[b]) => Holds'[b] = Holds[b] BY <1>5, MineOnly
    <2>3. \A b \in Block : home2[b] = home[b] \/ (~ OfFile(g, home[b]) /\ ~ OfFile(g, home2[b]))
      BY <1>5, MineOnly
    <2> QED BY <1>5, <2>1, <2>2, <2>3, OtherFile
  <1>6. Homed(home2)'
    <2>1. \A g \in File : FileMap(Holds', Tops(g)', large'[g], g, home2) BY <1>5
    <2>2. \A q \in Proc : HandHome(home2, q, u'[q]) /\ TodoHome(home2, q, u'[q]) BY <1>4
    <2>3. \A b \in Block : home2[b] \in Places'
      BY DEF Places, TheList, HandOf, ToFree, TopOf, MidOf, LowOf, Rows, Cols
    <2>4. FreeHome(home2)' = FreeHome(home2) BY DEF FreeHome, Block
    <2> QED BY <2>1, <2>2, <2>4 DEF Homed
  <1> QED BY <1>1, <1>3, <1>6 DEF Good


-------------------------------------------------------------------------------
(* Where the free list starts, before and after a step. *)
LEMMA StartFree ==
    /\ (\A q \in Proc : u[q].pc \notin {"reload", "spilled"}) => Start = sfree
    /\ (\A q \in Proc : u'[q].pc \notin {"reload", "spilled"}) => Start' = sfree'
  <1>1. (\A q \in Proc : u[q].pc \notin {"reload", "spilled"}) => Holder = {} BY DEF Holder
  <1>2. (\A q \in Proc : u'[q].pc \notin {"reload", "spilled"}) => Holder' = {}
    BY DEF Holder
  <1> QED BY <1>1, <1>2 DEF Start

LEMMA StartHeld ==
    ASSUME NEW p \in Proc
    PROVE  /\ Locked /\ u[p].pc \in {"reload", "spilled"} => Start = store[u[p].bno]
           /\ Locked' /\ u'[p].pc \in {"reload", "spilled"} => Start' = store'[u'[p].bno]
  <1>1. Locked /\ u[p].pc \in {"reload", "spilled"} => Holder = {p}
    BY DEF Locked, Holder, LockPcs
  <1>2. Locked' /\ u'[p].pc \in {"reload", "spilled"} => Holder' = {p}
    BY DEF Locked, Holder, LockPcs
  <1>3. (CHOOSE q \in {p} : TRUE) = p OBVIOUS
  <1>4. Holder = {p} => Start = store[u[p].bno] BY <1>3 DEF Start
  <1>5. Holder' = {p} => Start' = store'[u'[p].bno] BY <1>3 DEF Start
  <1> QED BY <1>1, <1>2, <1>4, <1>5

(* A process that is at work. *)
LEMMA AtWork ==
    ASSUME BlocksAssumption, Types, Alone, Found, NEW p \in Proc, u[p].pc # "user"
    PROVE  /\ u[p] \in Regs /\ u[p].f \in File /\ u[p].f # 0
           /\ addr[u[p].f] \in [Rows -> Cells] /\ large[u[p].f] \in BOOLEAN
           /\ Local(u[p], addr[u[p].f], large[u[p].f], Holds)
           /\ \A q \in Proc : q # p => u[q].f # u[p].f
  <1>1. u[p] \in Regs /\ Local(u[p], addr[u[p].f], large[u[p].f], Holds) BY DEF Types, Found
  <1>2. u[p].f \in File /\ u[p].f # 0 BY <1>1 DEF Local, BlocksAssumption
  <1> QED BY <1>1, <1>2 DEF Types, Alone

LEMMA SameHolds ==
    ASSUME NEW p \in Proc, \A q \in Proc : q # p => u'[q] = u[q], store' = store,
           \A b \in Block : u'[p].fresh /\ u'[p].tab = b <=> u[p].fresh /\ u[p].tab = b
    PROVE  Holds' = Holds
  <1>1. \A b \in Block : Holds'[b] = Holds[b] BY HeldFrame
  <1>2. Holds = [b \in Block |-> Holds[b]] /\ Holds' = [b \in Block |-> Holds'[b]]
    BY DEF Holds, Block
  <1> QED BY <1>1, <1>2

(* A step that leaves the files as they are. *)
Away(p) == {TheList, HandOf(p), ToFree(p)}
LEMMA QuietNext ==
    ASSUME BlocksAssumption, Types, Alone, Found, NEW home, Homed(home), NEW p \in Proc, NEW f \in File,
           \A q \in Proc : q # p => u'[q] = u[q] /\ u[q].f # f,
           u[p].f \in {0, f}, u'[p].f \in {0, f}, addr' = addr, large' = large,
           \A b \in Block : store'[b] = store[b] \/ home[b] = HandOf(p),
           \A b \in Block : u'[p].fresh /\ u'[p].tab = b <=> u[p].fresh /\ u[p].tab = b,
           \A i \in Rows : u'[p].f = f /\ u'[p].pc \in TruncPcs /\ u'[p].k <= i
                       <=> u[p].f = f /\ u[p].pc \in TruncPcs /\ u[p].k <= i,
           NEW home2, \A b \in Block : home2[b] = home[b] \/ (home[b] \in Away(p) /\ home2[b] \in Away(p)),
           Types', Locked', Local(u'[p], addr[u'[p].f], large[u'[p].f], Holds'),
           Listed(store', Start', FreeHome(home2)),
           HandHome(home2, p, u'[p]), TodoHome(home2, p, u'[p]) PROVE Good'
  <1>0. f # 0 BY DEF BlocksAssumption
  <1>1. \A b \in Block : Holds'[b] = Holds[b] \/ home[b] = HandOf(p) BY HeldFrame
  <1>2. \A i \in Rows : Cut(f, i)' <=> Cut(f, i) BY <1>0 DEF Cut
  <1>3. Tops(f)' = Tops(f) BY <1>2 DEF Tops, Rows
  <1>4. \A x \in Away(p) : ~ OfFile(f, x) /\ x \in Places /\ Mine(p, f, x)
    BY PlacesOfFiles DEF Away, Places, Mine
  <1>5. FileMap(Holds', Tops(f)', large'[f], f, home2)
    <2>1. FileMap(Holds, Tops(f), large[f], f, home) /\ large[f] \in BOOLEAN
      BY DEF Homed, Types
    <2>2. \A b \in Block : OfFile(f, home[b]) => Holds'[b] = Holds[b] BY <1>1, PlacesOfFiles
    <2>3. \A b \in Block : home2[b] = home[b] \/ (~ OfFile(f, home[b]) /\ ~ OfFile(f, home2[b]))
      BY <1>4
    <2>4. FileMap(Holds', Tops(f), large[f], f, home2)
      BY ONLY <2>1, <2>2, <2>3, BlocksAssumption, MapFrame
    <2> QED BY <1>3, <2>4
  <1>6. \A b \in Block : home2[b] \in Places BY <1>4 DEF Homed
  <1>7. \A b \in Block : home2[b] = home[b] \/ (Mine(p, f, home[b]) /\ Mine(p, f, home2[b]))
    BY <1>4
  <1>8. \A b \in Block : Holds'[b] = Holds[b] \/ Mine(p, f, home[b]) BY <1>1 DEF Mine
  <1>9. Local(u'[p], addr'[u'[p].f], large'[u'[p].f], Holds') OBVIOUS
  <1>10. \A g \in File : g # f => addr'[g] = addr[g] /\ large'[g] = large[g] OBVIOUS
  <1> QED BY <1>5, <1>6, <1>7, <1>8, <1>9, <1>10, GoodNext

-------------------------------------------------------------------------------
(* What the steps have in common: p's registers become r. *)
LEMMA StepTypes ==
    ASSUME Types, NEW p \in Proc, NEW r \in Regs, u' = [u EXCEPT ![p] = r]
    PROVE  /\ u'[p] = r /\ (\A q \in Proc : q # p => u'[q] = u[q])
           /\ flock' \in BOOLEAN /\ large' \in [File -> BOOLEAN] /\ addr' \in [File -> [Rows -> Cells]]
                /\ store' = [b \in Block |-> store'[b]] => Types'
  <1>1. u \in [Proc -> Regs] BY DEF Types
  <1>2. u' \in [Proc -> Regs] /\ u'[p] = r /\ \A q \in Proc : q # p => u'[q] = u[q] BY <1>1
  <1>3. Regs' = Regs /\ Block' = Block /\ Rows' = Rows /\ Cells' = Cells
    BY DEF Regs, Block, Rows, Cells, AllPcs, HandPcs, Returns
  <1> HIDE DEF Regs
  <1> QED BY <1>2, <1>3 DEF Types

LEMMA LockedNext ==
    ASSUME Locked, NEW p \in Proc, \A q \in Proc : q # p => u'[q] = u[q],
           u'[p].pc \in LockPcs => flock',
           u[p].pc \in LockPcs \/ ~ flock \/ (u'[p].pc \notin LockPcs /\ flock' = flock)
    PROVE  Locked'
  <1> SUFFICES ASSUME NEW a \in Proc, NEW b \in Proc, u'[a].pc \in LockPcs
               PROVE  flock' /\ (u'[b].pc \in LockPcs => a = b) BY DEF Locked
  <1>1. CASE u'[p].pc \notin LockPcs /\ flock' = flock BY <1>1 DEF Locked
  <1>2. CASE u[p].pc \in LockPcs \/ ~ flock
    <2>1. \A q \in Proc : q # p => u[q].pc \notin LockPcs BY <1>2 DEF Locked
    <2> QED BY <2>1
  <1> QED BY <1>1, <1>2

(* The free list is as it was. *)
LEMMA ListSame ==
    ASSUME BlocksAssumption, Types, Found, Locked, Locked', NEW home, Homed(home), NEW p \in Proc, NEW f,
           \A q \in Proc : q # p => u'[q] = u[q],
           u[p].pc \notin {"reload", "spilled"}, u'[p].pc \notin {"reload", "spilled"}, sfree' = sfree,
           \A b \in Block : store'[b] = store[b] \/ (Mine(p, f, home[b]) /\ home[b] # TheList),
           NEW home2, \A b \in Block : home2[b] = TheList <=> home[b] = TheList
    PROVE  Listed(store', Start', FreeHome(home2))
  <1>1. FreeHome(home2) = FreeHome(home) BY DEF FreeHome
  <1>2. Start' = Start
    <2>1. CASE \E q \in Proc : u[q].pc \in {"reload", "spilled"}
      <3>1. PICK q \in Proc : u[q].pc \in {"reload", "spilled"} BY <2>1
      <3>2. q # p /\ u'[q] = u[q] /\ u[q].pc \in LockPcs /\ u[q].pc \in HandPcs
        BY <3>1 DEF LockPcs, HandPcs
      <3>3. u[q].bno \in Block BY <3>2, Indices DEF Types, Regs, Found, Local
      <3>4. home[u[q].bno] = HandOf(q) BY <3>2, <3>3 DEF Homed, HandHome
      <3>5. store'[u[q].bno] = store[u[q].bno] BY <3>2, <3>3, <3>4, MineOnly
      <3> QED BY <3>1, <3>2, <3>5, StartHeld
    <2>2. CASE \A q \in Proc : u[q].pc \notin {"reload", "spilled"} BY <2>2, StartFree
    <2> QED BY <2>1, <2>2
  <1>3. \A b \in FreeHome(home) : store'[b] = store[b] BY DEF FreeHome
  <1>4. Listed(store, Start, FreeHome(home)) BY DEF Homed
  <1> QED BY <1>1, <1>2, <1>3, <1>4, ListFrame

(* A step in which p only thinks: no block moves, nothing is written. *)
LEMMA ThinkNext ==
    ASSUME BlocksAssumption, Good, NEW p \in Proc, NEW f \in File, \A q \in Proc : q # p => u[q].f # f,
           NEW r \in Regs, u' = [u EXCEPT ![p] = r], u[p].f \in {0, f}, r.f \in {0, f},
           sfree' = sfree, flock' = flock, store' = store, addr' = addr, large' = large,
           u[p].pc \notin HandPcs \/ u[p].bno = 0, u[p].pc \notin LockPcs,
           r.pc \notin HandPcs \/ r.bno = 0, r.pc \notin LockPcs,
           u[p].todo = <<>>, r.todo = <<>>, u[p].pc \notin TruncPcs, r.pc \notin TruncPcs,
           ~ r.fresh \/ (u[p].fresh /\ r.tab = u[p].tab), ~ u[p].fresh \/ (r.fresh /\ r.tab = u[p].tab),
           Local(r, addr[r.f], large[r.f], Holds) PROVE Good'
  <1>1. PICK home : Homed(home) BY DEF Good
  <1>2. Types /\ Alone /\ Locked /\ Found BY DEF Good
  <1>3. /\ u'[p] = r /\ (\A q \in Proc : q # p => u'[q] = u[q])
        /\ Types'
    <2>1. /\ flock' \in BOOLEAN /\ large' \in [File -> BOOLEAN] /\ addr' \in [File -> [Rows -> Cells]]
          /\ store' = [b \in Block |-> store'[b]] BY <1>2 DEF Types
    <2> QED BY <1>2, <2>1, StepTypes
  <1>4. u[p].pc \notin LockPcs /\ u[p].pc \notin {"reload", "spilled"} /\ r.pc \notin {"reload", "spilled"}
    BY DEF LockPcs
  <1>5. Locked' BY <1>2, <1>3, <1>4, LockedNext
  <1>6. \A b \in Block : u'[p].fresh /\ u'[p].tab = b <=> u[p].fresh /\ u[p].tab = b BY <1>3
  <1>7. Holds' = Holds BY <1>3, <1>6, SameHolds
  <1>8. Listed(store', Start', FreeHome(home))
    <2>1. /\ \A b \in Block : store'[b] = store[b] \/ (Mine(p, f, home[b]) /\ home[b] # TheList)
          /\ \A b \in Block : home[b] = TheList <=> home[b] = TheList OBVIOUS
    <2> QED BY <1>1, <1>2, <1>3, <1>4, <1>5, <2>1, ListSame
  <1>9. HandHome(home, p, r) /\ TodoHome(home, p, r)
    <2>1. HandHome(home, p, u[p]) /\ TodoHome(home, p, u[p]) BY <1>1 DEF Homed
    <2>2. \A b \in Block : b # 0 BY Indices
    <2> QED BY <2>1, <2>2 DEF HandHome, TodoHome
  <1>10. \A i \in Rows : u'[p].f = f /\ u'[p].pc \in TruncPcs /\ u'[p].k <= i
                     <=> u[p].f = f /\ u[p].pc \in TruncPcs /\ u[p].k <= i BY <1>3
  <1>11. /\ \A b \in Block : store'[b] = store[b] \/ home[b] = HandOf(p)
         /\ \A b \in Block : home[b] = home[b] \/ (home[b] \in Away(p) /\ home[b] \in Away(p))
         /\ \A q \in Proc : q # p => u'[q] = u[q] /\ u[q].f # f
         /\ u'[p].f \in {0, f} /\ Local(u'[p], addr[u'[p].f], large[u'[p].f], Holds')
         /\ HandHome(home, p, u'[p]) /\ TodoHome(home, p, u'[p]) BY <1>3, <1>7, <1>9
  <1> QED BY <1>1, <1>2, <1>3, <1>5, <1>6, <1>8, <1>10, <1>11, QuietNext

-------------------------------------------------------------------------------
(* The steps in which a process only looks. *)
LEMMA writeiGood ==
    ASSUME BlocksAssumption, Good, NEW p \in Proc, NEW f \in File, NEW n \in Bns, writei(p, f, n)
    PROVE  Good'
  <1> DEFINE s == [Idle EXCEPT !.f = f, !.bn = n]
             r == IF large[f] THEN [s EXCEPT !.pc = "large"]
                  ELSE IF n >= NADDR THEN [s EXCEPT !.pc = "alloc", !.ret = "convert"]
                  ELSE IF addr[f][n] = 0 THEN [s EXCEPT !.pc = "alloc", !.ret = "small"]
                  ELSE Idle
  <1>1. /\ u[p].pc = "user" /\ (\A q \in Proc : u[q].f # f) /\ u' = [u EXCEPT ![p] = r]
        /\ sfree' = sfree /\ flock' = flock /\ store' = store /\ addr' = addr /\ large' = large
    BY DEF writei, At, Busy, Goes, disk
  <1>2. u[p] = Idle BY <1>1 DEF Good, Found, Local
  <1>3. /\ n \in Nat /\ (n < NADDR => n \in Rows) /\ addr[f] \in [Rows -> Cells] /\ large[f] \in BOOLEAN
        /\ f # 0 BY BnFacts DEF Good, Types, BlocksAssumption
  <1>0. /\ Idle \in Regs /\ Idle.f = 0 /\ Idle.bno = 0 /\ Idle.fresh = FALSE /\ Idle.todo = <<>> /\ Idle.pc = "user"
    BY LocalIdle DEF Idle, NoFile
  <1>4. /\ s \in Regs /\ s.f = f /\ s.bn = n /\ s.pc = "user" /\ s.bno = 0 /\ s.fresh = FALSE /\ s.todo = <<>>
    BY <1>0 DEF Regs
  <1> HIDE DEF s
  <1>5. /\ r.f \in {0, f} /\ r.fresh = FALSE /\ r.todo = <<>> /\ r.bno = 0
        /\ r.pc \in {"user", "alloc", "large"}
        /\ r \in Regs BY <1>0, <1>4 DEF Regs, AllPcs, Returns
  <1>6. Local(r, addr[r.f], large[r.f], Holds)
    <2>1. CASE large[f]
      <3>1. /\ r.pc = "large" /\ r.f = f /\ r.bn = n /\ r.bno = 0 /\ r.fresh = FALSE /\ r.todo = <<>>
        BY <2>1, <1>4 DEF Regs
      <3> HIDE DEF r
      <3> QED BY <3>1, <2>1 DEF Local, Stage, LockPcs, TruncPcs
    <2>2. CASE ~ large[f] /\ n >= NADDR
      <3>1. /\ r.pc = "alloc" /\ r.f = f /\ r.bn = n /\ r.bno = 0 /\ r.fresh = FALSE /\ r.todo = <<>>
              /\ r.ret = "convert" BY <2>2, <1>4 DEF Regs
      <3> HIDE DEF r
      <3> QED BY <3>1, <2>2 DEF Local, Stage, LockPcs, TruncPcs, Returns
    <2>3. CASE ~ large[f] /\ n < NADDR /\ addr[f][n] = 0
      <3>0. ~ (n >= NADDR) BY <1>3, <2>3 DEF BlocksAssumption
      <3>1. /\ r.pc = "alloc" /\ r.f = f /\ r.bn = n /\ r.bno = 0 /\ r.fresh = FALSE /\ r.todo = <<>>
              /\ r.ret = "small" BY <2>3, <1>4, <3>0 DEF Regs
      <3> HIDE DEF r
      <3> QED BY <3>1, <1>3, <2>3 DEF Local, Stage, LockPcs, TruncPcs, Returns
    <2>4. CASE r = Idle
      <3> HIDE DEF r
      <3> QED BY <2>4, LocalIdle
    <2>5. n >= NADDR \/ n < NADDR BY <1>3 DEF BlocksAssumption
    <2> QED BY <2>1, <2>2, <2>3, <2>4, <2>5
  <1>7. /\ u[p].f = 0 /\ u[p].todo = <<>> /\ u[p].fresh = FALSE
        /\ u[p].pc \notin HandPcs /\ u[p].pc \notin LockPcs /\ u[p].pc \notin TruncPcs
    BY <1>2 DEF Idle, NoFile, HandPcs, LockPcs, TruncPcs, Returns
  <1>8. r.pc \notin LockPcs /\ r.pc \notin TruncPcs BY <1>5 DEF LockPcs, TruncPcs
  <1> HIDE DEF r
  <1> QED BY <1>1, <1>5, <1>6, <1>7, <1>8, ThinkNext

LEMMA LargeGood ==
    ASSUME BlocksAssumption, Good, NEW p \in Proc, Large(p) PROVE Good'
  <1> DEFINE f == u[p].f
             n == u[p].bn
             nb == addr[f][Index(n)]
             r == IF nb = 0 THEN [[u[p] EXCEPT !.pc = "alloc"] EXCEPT !.ret = "indirect"]
                  ELSE [[u[p] EXCEPT !.pc = IF Double(n) THEN "double" ELSE "single"] EXCEPT !.tab = nb]
  <1>1. /\ u[p].pc = "large" /\ u' = [u EXCEPT ![p] = r]
        /\ sfree' = sfree /\ flock' = flock /\ store' = store /\ addr' = addr /\ large' = large
    BY DEF Large, At, Goes, To, disk
  <1>2. /\ u[p] \in Regs /\ f \in File /\ f # 0 /\ addr[f] \in [Rows -> Cells] /\ large[f] \in BOOLEAN
        /\ Local(u[p], addr[f], large[f], Holds) /\ \A q \in Proc : q # p => u[q].f # f
    BY <1>1, AtWork DEF Good
  <1>3. u[p].todo = <<>> /\ n \in Bns /\ u[p].fresh = FALSE /\ large[f]
    BY <1>1, <1>2 DEF Local, TruncPcs, Stage, Regs
  <1>4. Index(n) \in Rows /\ (Double(n) => Index(n) = LastRow) /\ nb \in Cells
    BY <1>2, <1>3, BnFacts
  <1>5. r \in Regs /\ r.f = f /\ r.bn = n /\ r.todo = <<>> /\ r.fresh = FALSE /\ r.bno = u[p].bno
        /\ (nb = 0 => r.pc = "alloc" /\ r.ret = "indirect")
        /\ (nb # 0 => r.pc = (IF Double(n) THEN "double" ELSE "single") /\ r.tab = nb)
    BY <1>2, <1>3, <1>4 DEF Regs, AllPcs, Returns
  <1> HIDE DEF r
  <1>6. r.pc \in {"alloc", "double", "single"} BY <1>5
  <1>7. r.pc \notin HandPcs /\ r.pc \notin LockPcs /\ r.pc \notin TruncPcs
    BY <1>6 DEF HandPcs, LockPcs, TruncPcs, Returns
  <1>8. u[p].pc \notin HandPcs /\ u[p].pc \notin LockPcs /\ u[p].pc \notin TruncPcs
    BY <1>1 DEF HandPcs, LockPcs, TruncPcs, Returns
  <1>9. Local(r, addr[f], large[f], Holds)
    BY <1>2, <1>3, <1>4, <1>5 DEF Local, Stage, LockPcs, TruncPcs, Returns
  <1> HIDE DEF f
  <1> QED BY <1>1, <1>2, <1>3, <1>5, <1>7, <1>8, <1>9, ThinkNext DEF f

LEMMA DoubleFetchGood ==
    ASSUME BlocksAssumption, Good, NEW p \in Proc, DoubleFetch(p) PROVE Good'
  <1> DEFINE f == u[p].f
             n == u[p].bn
             nb == Table(p)[SlotOf(n)]
             r == IF nb = 0 THEN [[u[p] EXCEPT !.pc = "alloc"] EXCEPT !.ret = "second"]
                  ELSE [[u[p] EXCEPT !.pc = "single"] EXCEPT !.tab = nb, !.fresh = FALSE]
  <1>1. /\ u[p].pc = "double" /\ u' = [u EXCEPT ![p] = r]
        /\ sfree' = sfree /\ flock' = flock /\ store' = store /\ addr' = addr /\ large' = large
    BY DEF DoubleFetch, At, Goes, To, disk, SlotOf, Slot2, LastRow
  <1>2. /\ u[p] \in Regs /\ f \in File /\ f # 0 /\ addr[f] \in [Rows -> Cells] /\ large[f] \in BOOLEAN
        /\ Local(u[p], addr[f], large[f], Holds) /\ \A q \in Proc : q # p => u[q].f # f
    BY <1>1, AtWork DEF Good
  <1>3. /\ u[p].todo = <<>> /\ n \in Bns /\ large[f] /\ u[p].tab # 0 /\ Double(n) /\ u[p].tab = addr[f][LastRow]
    BY <1>1, <1>2 DEF Local, TruncPcs, Stage
  <1>4. Stage(u[p]) \in TabStages BY <1>1 DEF Stage, TabStages
  <1>5. PICK home : Homed(home) BY DEF Good
  <1>6. Table(p) = Holds[u[p].tab] /\ Holds[u[p].tab] \in Tables /\ SlotOf(n) \in Cols
    BY <1>3, <1>4, <1>5, TabHome, TableHeld, BnFacts DEF Good
  <1>7. nb \in Cells /\ nb = Holds[u[p].tab][SlotOf(n)] /\ (nb # 0 => nb = MidAt(Holds, addr[f], large[f], LastRow, SlotOf(n)))
    BY <1>3, <1>6 DEF Tables, MidAt, Word
  <1>8. nb # 0 => u[p].fresh = FALSE BY <1>2, <1>6, Indices DEF Table, Regs
  <1>9. r \in Regs /\ r.f = f /\ r.bn = n /\ r.todo = <<>> /\ r.bno = u[p].bno
        /\ (nb = 0 => r.pc = "alloc" /\ r.ret = "second" /\ r.tab = u[p].tab /\ r.fresh = u[p].fresh)
        /\ (nb # 0 => r.pc = "single" /\ r.tab = nb /\ r.fresh = FALSE)
    <2> HIDE DEF nb
    <2> QED BY <1>2, <1>3, <1>7 DEF Regs, AllPcs, Returns
  <1> HIDE DEF r, nb
  <1>10. r.pc \in {"alloc", "single"} BY <1>9
  <1>11. r.pc \notin HandPcs /\ r.pc \notin LockPcs /\ r.pc \notin TruncPcs
    BY <1>10 DEF HandPcs, LockPcs, TruncPcs, Returns
  <1>12. u[p].pc \notin HandPcs /\ u[p].pc \notin LockPcs /\ u[p].pc \notin TruncPcs
    BY <1>1 DEF HandPcs, LockPcs, TruncPcs, Returns
  <1>13. Local(r, addr[f], large[f], Holds)
    <2>1. CASE nb = 0
      BY <2>1, <1>3, <1>7, <1>9, <1>2 DEF Local, Stage, LockPcs, TruncPcs, Returns
    <2>2. CASE nb # 0
      BY <2>2, <1>3, <1>7, <1>9, <1>2 DEF Local, Stage, LockPcs, TruncPcs, Returns
    <2> QED BY <2>1, <2>2
  <1> HIDE DEF f
  <1> QED BY <1>1, <1>2, <1>3, <1>8, <1>9, <1>11, <1>12, <1>13, ThinkNext DEF f

LEMMA SingleGood ==
    ASSUME BlocksAssumption, Good, NEW p \in Proc, Single(p) PROVE Good'
  <1> DEFINE f == u[p].f
             n == u[p].bn
             w == Table(p)[n % NINDIR]
             r == IF w = 0 THEN [[u[p] EXCEPT !.pc = "alloc"] EXCEPT !.ret = "data"] ELSE Idle
  <1>1. /\ u[p].pc = "single" /\ u' = [u EXCEPT ![p] = r]
        /\ sfree' = sfree /\ flock' = flock /\ store' = store /\ addr' = addr /\ large' = large
    BY DEF Single, At, Goes, To, disk
  <1>2. /\ u[p] \in Regs /\ f \in File /\ f # 0 /\ addr[f] \in [Rows -> Cells] /\ large[f] \in BOOLEAN
        /\ Local(u[p], addr[f], large[f], Holds) /\ \A q \in Proc : q # p => u[q].f # f
    BY <1>1, AtWork DEF Good
  <1>3. /\ u[p].todo = <<>> /\ n \in Bns /\ large[f]
    BY <1>1, <1>2 DEF Local, TruncPcs, Stage
  <1>4. Stage(u[p]) \in TabStages BY <1>1 DEF Stage, TabStages
  <1>5. PICK home : Homed(home) BY DEF Good
  <1>6. Table(p) = Holds[u[p].tab] /\ (n % NINDIR) \in Cols
    BY <1>3, <1>4, <1>5, TabHome, TableHeld, BnFacts DEF Good
  <1>7. w = Holds[u[p].tab][n % NINDIR] BY <1>6
  <1>8. w # 0 => u[p].fresh = FALSE BY <1>2, <1>6, Indices DEF Table, Regs
  <1> HIDE DEF w
  <1>9. CASE w = 0
    <2>1. r = [u[p] EXCEPT !.pc = "alloc", !.ret = "data"] BY <1>9
    <2>2. r \in Regs /\ r.f = f /\ r.bn = n /\ r.todo = <<>> /\ r.bno = u[p].bno
          /\ r.pc = "alloc" /\ r.ret = "data" /\ r.tab = u[p].tab /\ r.fresh = u[p].fresh
      BY <2>1, <1>2, <1>3 DEF Regs, AllPcs, Returns
    <2> HIDE DEF r
    <2>3. Local(r, addr[f], large[f], Holds)
      BY <2>2, <1>1, <1>2, <1>3, <1>7, <1>9 DEF Local, Stage, LockPcs, TruncPcs, Returns
    <2>4. r.pc \notin HandPcs /\ r.pc \notin LockPcs /\ r.pc \notin TruncPcs
      BY <2>2 DEF HandPcs, LockPcs, TruncPcs, Returns
    <2>5. u[p].pc \notin HandPcs /\ u[p].pc \notin LockPcs /\ u[p].pc \notin TruncPcs
      BY <1>1 DEF HandPcs, LockPcs, TruncPcs, Returns
    <2> HIDE DEF f
    <2> QED BY <1>1, <1>2, <1>3, <2>2, <2>3, <2>4, <2>5, ThinkNext DEF f
  <1>10. CASE w # 0
    <2>1. r = Idle /\ r.f = 0 /\ r.todo = <<>> /\ r.bno = 0 /\ r.fresh = FALSE /\ r.pc = "user"
      BY <1>10 DEF Idle, NoFile
    <2>2. r \in Regs /\ Local(r, addr[r.f], large[r.f], Holds) BY <2>1, LocalIdle
    <2> HIDE DEF r
    <2>4. r.pc \notin HandPcs /\ r.pc \notin LockPcs /\ r.pc \notin TruncPcs
      BY <2>1 DEF HandPcs, LockPcs, TruncPcs, Returns
    <2>5. u[p].pc \notin HandPcs /\ u[p].pc \notin LockPcs /\ u[p].pc \notin TruncPcs
      BY <1>1 DEF HandPcs, LockPcs, TruncPcs, Returns
    <2> HIDE DEF f
    <2> QED BY <1>1, <1>2, <1>3, <1>8, <1>10, <2>1, <2>2, <2>4, <2>5, ThinkNext DEF f
  <1> QED BY <1>9, <1>10

LEMMA NoSpaceGood ==
    ASSUME BlocksAssumption, Good, NEW p \in Proc, NEW l \in Returns, NoSpace(p, l), ~ stale'
    PROVE  Good'
  <1> DEFINE f == u[p].f
  <1>1. /\ u[p].pc = l /\ u[p].bno = 0 /\ ~ u[p].fresh /\ u' = [u EXCEPT ![p] = Idle]
        /\ sfree' = sfree /\ flock' = flock /\ store' = store /\ addr' = addr /\ large' = large
    BY DEF NoSpace, At, Goes, disk
  <1>2. u[p].pc \notin LockPcs /\ u[p].pc \notin TruncPcs /\ u[p].pc # "user"
    BY <1>1 DEF LockPcs, TruncPcs, Returns
  <1>3. /\ f \in File /\ f # 0
        /\ Local(u[p], addr[f], large[f], Holds) /\ \A q \in Proc : q # p => u[q].f # f
    BY <1>2, AtWork DEF Good
  <1>4. u[p].todo = <<>> BY <1>2, <1>3 DEF Local
  <1>5. /\ Idle.f = 0 /\ Idle.todo = <<>> /\ Idle.fresh = FALSE /\ Idle.pc = "user"
        /\ Idle \in Regs /\ Local(Idle, addr[Idle.f], large[Idle.f], Holds)
    BY LocalIdle DEF Idle, NoFile
  <1>6. Idle.pc \notin HandPcs /\ Idle.pc \notin LockPcs /\ Idle.pc \notin TruncPcs
    BY <1>5 DEF HandPcs, LockPcs, TruncPcs, Returns
  <1> HIDE DEF f
  <1> QED BY <1>1, <1>2, <1>3, <1>4, <1>5, <1>6, ThinkNext DEF f

-------------------------------------------------------------------------------
(* The steps that move a block between the list, what is still to free,    *)
(* and a hand.                                                             *)
Moved(home, b, x) == [y \in Block |-> IF y = b THEN x ELSE home[y]]

LEMMA MoveNext ==
    ASSUME BlocksAssumption, Good, NEW home, Homed(home), NEW p \in Proc, u[p].pc # "user",
           NEW r \in Regs, u' = [u EXCEPT ![p] = r], addr' = addr, large' = large, flock' \in BOOLEAN,
           r.f = u[p].f, r.bn = u[p].bn, r.k = u[p].k, r.fresh = u[p].fresh, r.tab = u[p].tab, r.ret = u[p].ret,
           \/ store' = store /\ Stage(r) = Stage(u[p]) /\ r.todo = u[p].todo
              /\ r.pc \notin TruncPcs \cup {"user"} /\ u[p].pc \notin TruncPcs
           \/ r.pc \in TruncPcs /\ u[p].pc \in TruncPcs,
           r.pc \in LockPcs \cup {"free"} => r.bno # 0,
           store' = [b \in Block |-> store'[b]], \A b \in Block : store'[b] = store[b] \/ home[b] = HandOf(p),
           NEW home2, \A b \in Block : home2[b] = home[b] \/ (home[b] \in Away(p) /\ home2[b] \in Away(p)),
           Locked', Listed(store', Start', FreeHome(home2)), HandHome(home2, p, r), TodoHome(home2, p, r)
    PROVE  Good'
  <1> DEFINE f == u[p].f
  <1>1. Types /\ Alone /\ Locked /\ Found BY DEF Good
  <1>2. /\ u[p] \in Regs /\ f \in File /\ f # 0 /\ addr[f] \in [Rows -> Cells] /\ large[f] \in BOOLEAN
        /\ Local(u[p], addr[f], large[f], Holds) /\ \A q \in Proc : q # p => u[q].f # f
    BY <1>1, AtWork
  <1>3. /\ u'[p] = r /\ (\A q \in Proc : q # p => u'[q] = u[q])
        /\ Types'
    <2>1. large' \in [File -> BOOLEAN] /\ addr' \in [File -> [Rows -> Cells]]
      BY <1>1 DEF Types
    <2> QED BY <1>1, <2>1, StepTypes
  <1>4. \A b \in Block : u'[p].fresh /\ u'[p].tab = b <=> u[p].fresh /\ u[p].tab = b BY <1>3
  <1>5. Local(r, addr[f], large[f], Holds')
    <2>1. CASE /\ store' = store /\ Stage(r) = Stage(u[p]) /\ r.todo = u[p].todo
               /\ r.pc \notin TruncPcs \cup {"user"} /\ u[p].pc \notin TruncPcs
      <3>1. Holds' = Holds BY <1>3, <1>4, <2>1, SameHolds
      <3>2. r.pc \in {"alloc", "reload"} => r.ret \in Returns
        BY <1>2, <2>1 DEF Local, Stage, Returns, Regs, AllPcs, HandPcs, TruncPcs
      <3> HIDE DEF f
      <3> QED BY <1>2, <2>1, <3>1, <3>2 DEF Local, LockPcs, TruncPcs
    <2>2. CASE r.pc \in TruncPcs /\ u[p].pc \in TruncPcs
      <3>1. r.fresh = FALSE BY <1>2, <2>2 DEF Local, Stage, TruncPcs, Regs
      <3>2. \A i \in Rows : r.k < i => addr[f][i] = 0 BY <1>2, <2>2 DEF Local
      <3> HIDE DEF f
      <3> QED BY <1>2, <2>2, <3>1, <3>2 DEF Local, Stage, LockPcs, TruncPcs
    <2> QED BY <2>1, <2>2
  <1>6. \A i \in Rows : u'[p].f = f /\ u'[p].pc \in TruncPcs /\ u'[p].k <= i
                    <=> u[p].f = f /\ u[p].pc \in TruncPcs /\ u[p].k <= i BY <1>3
  <1>7. /\ \A q \in Proc : q # p => u'[q] = u[q] /\ u[q].f # f
        /\ u[p].f \in {0, f} /\ u'[p].f \in {0, f} /\ Local(u'[p], addr[u'[p].f], large[u'[p].f], Holds')
        /\ HandHome(home2, p, u'[p]) /\ TodoHome(home2, p, u'[p]) BY <1>2, <1>3, <1>5
  <1> HIDE DEF f
  <1> QED BY <1>1, <1>2, <1>3, <1>4, <1>6, <1>7, QuietNext

(* Where a block moves between the list, a hand and what is to free. *)
LEMMA MovedHome ==
    ASSUME BlocksAssumption, NEW home, NEW b \in Block, NEW p, home[b] \in Away(p), NEW x \in Away(p)
    PROVE  /\ \A y \in Block : Moved(home, b, x)[y] = home[y] \/ (home[y] \in Away(p) /\ Moved(home, b, x)[y] \in Away(p))
           /\ FreeHome(Moved(home, b, x)) = IF x = TheList THEN FreeHome(home) \cup {b} ELSE FreeHome(home) \ {b}
           /\ \A y \in Block : Moved(home, b, x)[y] = IF y = b THEN x ELSE home[y]
  BY DEF Moved, FreeHome

LEMMA NoneLocked ==
    ASSUME Locked, NEW p \in Proc, ~ flock \/ u[p].pc \in LockPcs
    PROVE  /\ \A q \in Proc : q # p => u[q].pc \notin LockPcs
           /\ ~ flock => u[p].pc \notin LockPcs BY DEF Locked

LEMMA allocGood ==
    ASSUME BlocksAssumption, Good, NEW p \in Proc, alloc(p) PROVE Good'
  <1> DEFINE b == Last(sfree)
             none == sfree = <<>> \/ b = 0
             r == IF none THEN [u[p] EXCEPT !.pc = u[p].ret, !.bno = 0]
                  ELSE [u[p] EXCEPT !.pc = IF Len(sfree) = 1 THEN "reload" ELSE u[p].ret, !.bno = b]
  <1>1. /\ u[p].pc = "alloc" /\ ~ flock /\ u' = [u EXCEPT ![p] = r]
        /\ sfree' = (IF none THEN <<>> ELSE Front(sfree)) /\ flock' = (IF none THEN flock ELSE Len(sfree) = 1)
        /\ store' = store /\ addr' = addr /\ large' = large BY DEF alloc, At, Goes, disk
  <1>2. PICK home : Homed(home) BY DEF Good
  <1>3. Types /\ Alone /\ Locked /\ Found BY DEF Good
  <1>4. /\ u[p] \in Regs /\ u[p].f \in File
        /\ Local(u[p], addr[u[p].f], large[u[p].f], Holds) /\ u[p].ret \in Returns
    BY <1>1, <1>3, AtWork DEF Local
  <1>5. \A q \in Proc : u[q].pc \notin LockPcs BY <1>1, <1>3, NoneLocked
  <1>6. Listed(store, sfree, FreeHome(home)) /\ sfree \in Seq(Cells) /\ Len(sfree) \in Nat
    <2>1. Start = sfree BY <1>5, StartFree DEF LockPcs
    <2> QED BY <1>2, <2>1, ListedTypes DEF Homed
  <1>7. ~ none => b \in Block /\ Len(sfree) >= 1 /\ b = sfree[Len(sfree)]
    <2>1. sfree # <<>> => Len(sfree) >= 1 /\ b \in Cells /\ b = sfree[Len(sfree)]
      BY <1>6, LenProperties, ElementOfSeq DEF Last
    <2> QED BY <2>1, Indices
  <1> DEFINE home2 == IF none THEN home ELSE Moved(home, b, HandOf(p))
  <1>8. r \in Regs /\ r.f = u[p].f /\ r.bn = u[p].bn /\ r.k = u[p].k /\ r.fresh = u[p].fresh
        /\ r.tab = u[p].tab /\ r.ret = u[p].ret /\ r.todo = u[p].todo
        /\ (IF none THEN r.pc = u[p].ret /\ r.bno = 0
            ELSE r.pc = (IF Len(sfree) = 1 THEN "reload" ELSE u[p].ret) /\ r.bno = b)
    <2>1. 0 \in Cells /\ (~ none => b \in Cells) BY <1>7, Indices
    <2> HIDE DEF b, none
    <2> QED BY <1>4, <2>1 DEF Regs, AllPcs, HandPcs
  <1>0. none \in BOOLEAN OBVIOUS
  <1>e. Len(sfree) \in Nat /\ (~ none => Len(sfree) >= 1) BY <1>6, <1>7
  <1> HIDE DEF r, none, b
  <1>9. r.pc \in Returns \cup {"reload"} /\ r.pc \in HandPcs /\ u[p].pc \notin HandPcs
        /\ r.pc \notin TruncPcs \cup {"user"} /\ u[p].pc \notin TruncPcs /\ Stage(r) = Stage(u[p])
        /\ (r.pc = "reload" <=> ~ none /\ Len(sfree) = 1) /\ (r.pc \in LockPcs <=> r.pc = "reload")
        /\ r.pc # "spilled"
    BY <1>1, <1>4, <1>8 DEF Returns, TruncPcs, Stage, HandPcs, LockPcs
  <1>10. u'[p] = r /\ \A q \in Proc : q # p => u'[q] = u[q] BY <1>1, <1>3, <1>8 DEF Types
  <1>11. Locked' BY <1>1, <1>3, <1>9, <1>10, LockedNext
  <1>12. \A q \in Proc : q # p => u'[q].pc \notin {"reload", "spilled"}
    BY <1>5, <1>10 DEF LockPcs
  <1>13. HandHome(home, p, u[p]) /\ TodoHome(home, p, u[p]) BY <1>2 DEF Homed
  <1>s. r.pc # "reload" => Start' = sfree' BY <1>9, <1>10, <1>12, StartFree
  <1>h. /\ none => home2 = home
        /\ ~ none /\ home[b] = TheList =>
                /\ FreeHome(home2) = FreeHome(home) \ {b}
                /\ \A y \in Block : home2[y] = home[y] \/ (home[y] \in Away(p) /\ home2[y] \in Away(p))
                /\ \A y \in Block : home2[y] = IF y = b THEN HandOf(p) ELSE home[y]
    <2>1. HandOf(p) \in Away(p) /\ TheList \in Away(p) /\ HandOf(p) # TheList
      BY PlacesElsewhere DEF Away
    <2>2. ASSUME ~ none, home[b] = TheList
          PROVE  /\ FreeHome(home2) = FreeHome(home) \ {b}
                 /\ \A y \in Block : home2[y] = home[y] \/ (home[y] \in Away(p) /\ home2[y] \in Away(p))
                 /\ \A y \in Block : home2[y] = IF y = b THEN HandOf(p) ELSE home[y]
      <3>1. home2 = Moved(home, b, HandOf(p)) /\ b \in Block BY <1>7, <2>2
      <3> HIDE DEF home2
      <3> QED BY <2>1, <2>2, <3>1, MovedHome
    <2> QED BY <2>2
  <1> HIDE DEF home2
  <1>14. /\ ~ none => home[b] = TheList
         /\ Listed(store, Start', FreeHome(home2))
    <2>1. CASE none
      <3>1. Start' = <<>> /\ home2 = home BY <1>1, <1>9, <1>h, <1>s, <2>1
      <3>2. FreeHome(home) = {} BY <1>6, <2>1, ListNone DEF none, b
      <3> QED BY <2>1, <3>1, <3>2, ListNone
    <2>2. CASE ~ none /\ Len(sfree) > 1
      <3>1. b \in FreeHome(home) /\ Listed(store, Front(sfree), FreeHome(home) \ {b})
        BY <1>6, <2>2, ListPop DEF b
      <3>2. home[b] = TheList BY <3>1 DEF FreeHome
      <3>3. r.pc # "reload"
        <4>1. ~ (Len(sfree) = 1)
          <5> DEFINE m == Len(sfree)
          <5>1. m \in Nat /\ m > 1 BY ONLY <1>e, <2>2
          <5> HIDE DEF m
          <5>2. ~ (m = 1) BY ONLY <5>1
          <5> QED BY <5>2 DEF m
        <4> QED BY ONLY <1>9, <4>1
      <3>4. Start' = Front(sfree) BY <1>1, <1>s, <2>2, <3>3
      <3> QED BY <1>h, <2>2, <3>1, <3>2, <3>4
    <2>3. CASE ~ none /\ Len(sfree) = 1
      <3>0. sfree = <<b>> BY <1>6, <1>7, <2>3
      <3>1. b \in FreeHome(home) /\ Listed(store, store[b], FreeHome(home) \ {b})
        BY <1>6, <1>7, <2>3, <3>0, ListShift
      <3>2. home[b] = TheList BY <3>1 DEF FreeHome
      <3>3. Start' = store[b] BY <1>1, <1>8, <1>9, <1>10, <1>11, <2>3, StartHeld
      <3> QED BY <1>h, <2>3, <3>1, <3>2, <3>3
    <2>4. none \/ (~ none /\ Len(sfree) > 1) \/ (~ none /\ Len(sfree) = 1)
      <3> DEFINE m == Len(sfree)
      <3>1. m \in Nat /\ (none \/ m >= 1) BY ONLY <1>0, <1>e
      <3> HIDE DEF m
      <3>2. none \/ (~ none /\ m > 1) \/ (~ none /\ m = 1) BY ONLY <3>1, <1>0
      <3> QED BY <3>2 DEF m
    <2> QED BY <2>1, <2>2, <2>3, <2>4
  <1>m. /\ \A y \in Block : home2[y] = home[y] \/ (home[y] \in Away(p) /\ home2[y] \in Away(p))
        /\ \A y \in Block : home2[y] = IF ~ none /\ y = b THEN HandOf(p) ELSE home[y]
    BY <1>h, <1>14
  <1>15. HandHome(home2, p, r)
    <2>1. \A y \in Block : home[y] # HandOf(p) BY <1>9, <1>13 DEF HandHome
    <2>2. \A y \in Block : y # 0 BY Indices
    <2> QED BY <1>8, <1>9, <1>14, <1>m, <2>1, <2>2 DEF HandHome
  <1>16. TodoHome(home2, p, r)
    <2>1. \A y \in Block : home2[y] = ToFree(p) <=> home[y] = ToFree(p)
      BY <1>14, <1>m, PlacesElsewhere
    <2> QED BY <1>8, <1>13, <2>1 DEF TodoHome
  <1>17. /\ store' = [y \in Block |-> store'[y]] /\ (\A y \in Block : store'[y] = store[y] \/ home[y] = HandOf(p))
         /\ flock' \in BOOLEAN /\ Listed(store', Start', FreeHome(home2))
         /\ r.pc \in LockPcs \cup {"free"} => r.bno # 0
    <2>1. r.pc \in LockPcs \cup {"free"} => r.bno # 0
      BY <1>7, <1>8, <1>9, Indices DEF Returns
    <2> QED BY <1>0, <1>1, <1>3, <1>6, <1>14, <1>m, <2>1 DEF Types
  <1> QED BY <1>1, <1>2, <1>8, <1>9, <1>11, <1>14, <1>m, <1>15, <1>16, <1>17, MoveNext

LEMMA ReloadGood ==
    ASSUME BlocksAssumption, Good, NEW p \in Proc, Reload(p) PROVE Good'
  <1> DEFINE r == [u[p] EXCEPT !.pc = u[p].ret]
  <1>1. /\ u[p].pc = "reload" /\ u' = [u EXCEPT ![p] = r] /\ flock' = FALSE
        /\ sfree' = store[u[p].bno] /\ store' = store /\ addr' = addr /\ large' = large
    BY DEF Reload, At, Goes, To, disk
  <1>2. PICK home : Homed(home) BY DEF Good
  <1>3. Types /\ Alone /\ Locked /\ Found BY DEF Good
  <1>4. /\ u[p] \in Regs /\ u[p].f \in File
        /\ Local(u[p], addr[u[p].f], large[u[p].f], Holds) /\ u[p].ret \in Returns
    BY <1>1, <1>3, AtWork DEF Local
  <1>5. u[p].pc \in LockPcs /\ \A q \in Proc : q # p => u[q].pc \notin LockPcs
    BY <1>1, <1>3, NoneLocked DEF LockPcs
  <1>8. r \in Regs /\ r.f = u[p].f /\ r.bn = u[p].bn /\ r.k = u[p].k /\ r.fresh = u[p].fresh
        /\ r.tab = u[p].tab /\ r.ret = u[p].ret /\ r.todo = u[p].todo /\ r.pc = u[p].ret /\ r.bno = u[p].bno
    BY <1>4 DEF Regs, AllPcs, HandPcs
  <1> HIDE DEF r
  <1>9. r.pc \in Returns /\ r.pc \in HandPcs /\ u[p].pc \in HandPcs /\ r.pc \notin LockPcs \cup {"free"}
        /\ r.pc \notin TruncPcs \cup {"user"} /\ u[p].pc \notin TruncPcs /\ Stage(r) = Stage(u[p])
    BY <1>1, <1>4, <1>8 DEF Returns, TruncPcs, Stage, HandPcs, LockPcs
  <1>10. u'[p] = r /\ \A q \in Proc : q # p => u'[q] = u[q] BY <1>1, <1>3, <1>8 DEF Types
  <1>11. Locked' BY <1>1, <1>3, <1>5, <1>9, <1>10, LockedNext
  <1>12. Listed(store, Start', FreeHome(home))
    <2>1. \A q \in Proc : u'[q].pc \notin {"reload", "spilled"}
      BY <1>5, <1>9, <1>10 DEF LockPcs
    <2>2. Start' = sfree' /\ Start = store[u[p].bno]
      BY <1>1, <1>3, <2>1, StartFree, StartHeld
    <2> QED BY <1>1, <1>2, <2>2 DEF Homed
  <1>13. HandHome(home, p, r) /\ TodoHome(home, p, r)
    BY <1>2, <1>8, <1>9 DEF Homed, HandHome, TodoHome
  <1>14. /\ store' = [y \in Block |-> store'[y]] /\ (\A y \in Block : store'[y] = store[y] \/ home[y] = HandOf(p))
         /\ flock' \in BOOLEAN /\ Listed(store', Start', FreeHome(home))
         /\ r.pc \in LockPcs \cup {"free"} => r.bno # 0
         /\ \A y \in Block : home[y] = home[y] \/ (home[y] \in Away(p) /\ home[y] \in Away(p))
    BY <1>1, <1>3, <1>9, <1>12 DEF Types
  <1> QED BY <1>1, <1>2, <1>8, <1>9, <1>11, <1>13, <1>14, MoveNext

(* What a process that truncates has in its registers. *)
LEMMA TruncRegs ==
    ASSUME BlocksAssumption, Good, NEW home, Homed(home), NEW p \in Proc, u[p].pc \in TruncPcs
    PROVE  /\ u[p].pc # "user" /\ u[p] \in Regs /\ u[p].fresh = FALSE
           /\ u[p].pc \in {"free", "spill", "spilled"} => u[p].bno \in Block /\ home[u[p].bno] = HandOf(p)
           /\ HandHome(home, p, u[p]) /\ TodoHome(home, p, u[p])
  <1>1. u[p].pc # "user" BY DEF TruncPcs
  <1>2. u[p] \in Regs /\ Local(u[p], addr[u[p].f], large[u[p].f], Holds)
    BY <1>1, AtWork DEF Good
  <1>3. u[p].fresh = FALSE BY <1>2 DEF Local, Stage, TruncPcs, Regs
  <1>4. HandHome(home, p, u[p]) /\ TodoHome(home, p, u[p]) BY DEF Homed
  <1>5. ASSUME u[p].pc \in {"free", "spill", "spilled"}
        PROVE  u[p].bno \in Block /\ home[u[p].bno] = HandOf(p)
    <2>1. u[p].bno # 0 /\ u[p].bno \in Cells BY <1>2, <1>5 DEF Local, LockPcs, Regs
    <2>2. u[p].bno \in Block BY <2>1, Indices
    <2>3. u[p].pc \in HandPcs BY <1>5 DEF HandPcs
    <2> QED BY <1>4, <2>2, <2>3 DEF HandHome
  <1> QED BY <1>1, <1>2, <1>3, <1>4, <1>5

LEMMA freeGood ==
    ASSUME BlocksAssumption, Good, NEW p \in Proc, free(p) PROVE Good'
  <1> DEFINE full == Len(sfree) >= NICFREE
             l == IF sfree = <<>> THEN << 0 >> ELSE sfree
             r == [u[p] EXCEPT !.pc = IF full THEN "spill" ELSE "trunc"]
             b == u[p].bno
  <1>1. /\ u[p].pc = "free" /\ ~ flock /\ u' = [u EXCEPT ![p] = r]
        /\ sfree' = (IF full THEN sfree ELSE Append(l, b)) /\ flock' = (IF full THEN TRUE ELSE flock)
        /\ store' = store /\ addr' = addr /\ large' = large BY DEF free, At, Goes, To, disk
  <1>2. PICK home : Homed(home) BY DEF Good
  <1>3. Types /\ Alone /\ Locked /\ Found BY DEF Good
  <1>4. /\ u[p].pc # "user" /\ u[p] \in Regs /\ u[p].pc \in TruncPcs /\ b \in Block /\ home[b] = HandOf(p)
        /\ HandHome(home, p, u[p]) /\ TodoHome(home, p, u[p])
    BY <1>1, <1>2, TruncRegs DEF TruncPcs
  <1>5. \A q \in Proc : u[q].pc \notin LockPcs BY <1>1, <1>3, NoneLocked
  <1>6. Listed(store, sfree, FreeHome(home))
    <2>1. Start = sfree BY <1>5, StartFree DEF LockPcs
    <2> QED BY <1>2, <2>1 DEF Homed
  <1>7. full \in BOOLEAN OBVIOUS
  <1>8. r \in Regs /\ r.f = u[p].f /\ r.bn = u[p].bn /\ r.k = u[p].k /\ r.fresh = u[p].fresh
        /\ r.tab = u[p].tab /\ r.ret = u[p].ret /\ r.todo = u[p].todo /\ r.bno = b
        /\ r.pc = IF full THEN "spill" ELSE "trunc"
    <2> HIDE DEF full
    <2> QED BY <1>4 DEF Regs, AllPcs, HandPcs
  <1> HIDE DEF r, full
  <1>9. /\ r.pc \in TruncPcs /\ u[p].pc \in HandPcs /\ (r.pc \in HandPcs <=> full) /\ (r.pc \in LockPcs => full)
        /\ r.pc \notin {"reload", "spilled"}
    BY <1>1, <1>8 DEF TruncPcs, HandPcs, LockPcs, Returns
  <1>10. u'[p] = r /\ \A q \in Proc : q # p => u'[q] = u[q] BY <1>1, <1>3, <1>8 DEF Types
  <1>11. Locked' BY <1>1, <1>3, <1>9, <1>10, LockedNext
  <1>12. Start' = sfree' BY <1>5, <1>9, <1>10, StartFree DEF LockPcs
  <1> DEFINE home2 == IF full THEN home ELSE Moved(home, b, TheList)
  <1>13. /\ full => home2 = home
         /\ ~ full =>
                /\ FreeHome(home2) = FreeHome(home) \cup {b}
                /\ \A y \in Block : home2[y] = home[y] \/ (home[y] \in Away(p) /\ home2[y] \in Away(p))
                /\ \A y \in Block : home2[y] = IF y = b THEN TheList ELSE home[y]
    <2>1. HandOf(p) \in Away(p) /\ TheList \in Away(p) BY DEF Away
    <2>2. ASSUME ~ full
          PROVE  /\ FreeHome(home2) = FreeHome(home) \cup {b}
                 /\ \A y \in Block : home2[y] = home[y] \/ (home[y] \in Away(p) /\ home2[y] \in Away(p))
                 /\ \A y \in Block : home2[y] = IF y = b THEN TheList ELSE home[y]
      <3>1. home2 = Moved(home, b, TheList) BY <2>2
      <3> HIDE DEF home2, b
      <3> QED BY <1>4, <2>1, <3>1, MovedHome
    <2> QED BY <2>2
  <1> HIDE DEF home2
  <1>14. \A y \in Block : home2[y] = home[y] \/ (home[y] \in Away(p) /\ home2[y] \in Away(p))
    BY <1>13
  <1>15. Listed(store, Start', FreeHome(home2))
    <2>1. CASE full BY <1>1, <1>6, <1>12, <1>13, <2>1
    <2>2. CASE ~ full
      <3>1. Listed(store, l, FreeHome(home)) /\ l # <<>> BY <1>6, ListNone
      <3>2. b \notin FreeHome(home) BY <1>4, PlacesElsewhere DEF FreeHome
      <3> HIDE DEF l, b
      <3>3. Listed(store, Append(l, b), FreeHome(home) \cup {b})
        BY <1>4, <3>1, <3>2, ListPush
      <3> QED BY <1>1, <1>12, <1>13, <2>2, <3>3
    <2> QED BY <2>1, <2>2
  <1>16. HandHome(home2, p, r)
    <2>1. CASE full BY <1>4, <1>8, <1>9, <1>13, <2>1 DEF HandHome
    <2>2. CASE ~ full
      <3>1. \A y \in Block : home[y] = HandOf(p) <=> y = b BY <1>4, <1>9 DEF HandHome
      <3>2. \A y \in Block : home2[y] # HandOf(p) BY <1>13, <2>2, <3>1, PlacesElsewhere
      <3> QED BY <1>9, <2>2, <3>2 DEF HandHome
    <2> QED BY <2>1, <2>2
  <1>17. TodoHome(home2, p, r)
    <2>1. \A y \in Block : home2[y] = ToFree(p) <=> home[y] = ToFree(p)
      BY <1>4, <1>13, PlacesElsewhere
    <2> QED BY <1>4, <1>8, <2>1 DEF TodoHome
  <1>18. /\ store' = [y \in Block |-> store'[y]] /\ (\A y \in Block : store'[y] = store[y] \/ home[y] = HandOf(p))
         /\ flock' \in BOOLEAN /\ Listed(store', Start', FreeHome(home2))
         /\ r.pc \in LockPcs \cup {"free"} => r.bno # 0
    <2>1. b # 0 BY <1>4, Indices
    <2> QED BY <1>1, <1>3, <1>7, <1>8, <1>15, <2>1 DEF Types
  <1> QED BY <1>1, <1>2, <1>4, <1>8, <1>9, <1>11, <1>14, <1>16, <1>17, <1>18, MoveNext

LEMMA SpillGood ==
    ASSUME BlocksAssumption, Good, NEW p \in Proc, Spill(p) PROVE Good'
  <1> DEFINE r == [u[p] EXCEPT !.pc = "spilled"]
             b == u[p].bno
  <1>1. /\ u[p].pc = "spill" /\ u' = [u EXCEPT ![p] = r]
        /\ sfree' = <<>> /\ flock' = flock
        /\ store' = [store EXCEPT ![b] = sfree] /\ addr' = addr /\ large' = large
    BY DEF Spill, At, Goes, To
  <1>2. PICK home : Homed(home) BY DEF Good
  <1>3. Types /\ Alone /\ Locked /\ Found BY DEF Good
  <1>4. /\ u[p].pc # "user" /\ u[p] \in Regs /\ u[p].pc \in TruncPcs /\ b \in Block /\ home[b] = HandOf(p)
        /\ HandHome(home, p, u[p]) /\ TodoHome(home, p, u[p])
    BY <1>1, <1>2, TruncRegs DEF TruncPcs
  <1>5. flock /\ u[p].pc \in LockPcs /\ \A q \in Proc : q # p => u[q].pc \notin LockPcs
    BY <1>1, <1>3 DEF Locked, LockPcs
  <1>6. Listed(store, sfree, FreeHome(home))
    <2>1. Start = sfree BY <1>1, <1>5, StartFree DEF LockPcs
    <2> QED BY <1>2, <2>1 DEF Homed
  <1>8. r \in Regs /\ r.f = u[p].f /\ r.bn = u[p].bn /\ r.k = u[p].k /\ r.fresh = u[p].fresh
        /\ r.tab = u[p].tab /\ r.ret = u[p].ret /\ r.todo = u[p].todo /\ r.bno = b /\ r.pc = "spilled"
    BY <1>4 DEF Regs, AllPcs, HandPcs
  <1> HIDE DEF r
  <1>9. r.pc \in TruncPcs /\ u[p].pc \in HandPcs /\ r.pc \in HandPcs
    BY <1>1, <1>8 DEF TruncPcs, HandPcs
  <1>10. u'[p] = r /\ \A q \in Proc : q # p => u'[q] = u[q] BY <1>1, <1>3, <1>8 DEF Types
  <1>11. Locked' BY <1>1, <1>3, <1>5, <1>10, LockedNext
  <1>12. /\ store' = [y \in Block |-> store'[y]] /\ store'[b] = sfree
         /\ \A y \in Block : y # b => store'[y] = store[y]
    <2>1. store = [y \in Block |-> store[y]] /\ b \in Block BY <1>3, <1>4 DEF Types
    <2> HIDE DEF b
    <2> QED BY <1>1, <2>1
  <1>13. Start' = sfree BY <1>8, <1>10, <1>11, <1>12, StartHeld
  <1>14. Listed(store', Start', FreeHome(home))
    <2>1. b \notin FreeHome(home) BY <1>4, PlacesElsewhere DEF FreeHome
    <2>2. \A y \in FreeHome(home) : store'[y] = store[y] BY <1>12, <2>1 DEF FreeHome
    <2> QED BY <1>6, <1>13, <2>2, ListFrame
  <1>15. HandHome(home, p, r) /\ TodoHome(home, p, r)
    BY <1>4, <1>8, <1>9 DEF HandHome, TodoHome
  <1>16. /\ \A y \in Block : store'[y] = store[y] \/ home[y] = HandOf(p)
         /\ flock' \in BOOLEAN /\ r.bno # 0
         /\ \A y \in Block : home[y] = home[y] \/ (home[y] \in Away(p) /\ home[y] \in Away(p))
    <2>1. b # 0 BY <1>4, Indices
    <2> QED BY <1>1, <1>3, <1>4, <1>8, <1>12, <2>1 DEF Types
  <1> QED BY <1>1, <1>2, <1>4, <1>8, <1>9, <1>11, <1>12, <1>14, <1>15, <1>16, MoveNext

LEMMA SpilledGood ==
    ASSUME BlocksAssumption, Good, NEW p \in Proc, Spilled(p) PROVE Good'
  <1> DEFINE r == [u[p] EXCEPT !.pc = "trunc"]
             b == u[p].bno
  <1>1. /\ u[p].pc = "spilled" /\ u' = [u EXCEPT ![p] = r]
        /\ sfree' = <<b>> /\ flock' = FALSE
        /\ store' = store /\ addr' = addr /\ large' = large
    BY DEF Spilled, At, Goes, To, disk
  <1>2. PICK home : Homed(home) BY DEF Good
  <1>3. Types /\ Alone /\ Locked /\ Found BY DEF Good
  <1>4. /\ u[p].pc # "user" /\ u[p] \in Regs /\ u[p].pc \in TruncPcs /\ b \in Block /\ home[b] = HandOf(p)
        /\ HandHome(home, p, u[p]) /\ TodoHome(home, p, u[p])
    BY <1>1, <1>2, TruncRegs DEF TruncPcs
  <1>5. u[p].pc \in LockPcs /\ \A q \in Proc : q # p => u[q].pc \notin LockPcs
    BY <1>1, <1>3, NoneLocked DEF LockPcs
  <1>6. Listed(store, store[b], FreeHome(home))
    <2>1. Start = store[b] BY <1>1, <1>3, StartHeld
    <2> QED BY <1>2, <2>1 DEF Homed
  <1>8. r \in Regs /\ r.f = u[p].f /\ r.bn = u[p].bn /\ r.k = u[p].k /\ r.fresh = u[p].fresh
        /\ r.tab = u[p].tab /\ r.ret = u[p].ret /\ r.todo = u[p].todo /\ r.bno = b /\ r.pc = "trunc"
    BY <1>4 DEF Regs, AllPcs, HandPcs
  <1> HIDE DEF r
  <1>9. r.pc \in TruncPcs /\ u[p].pc \in HandPcs /\ r.pc \notin HandPcs /\ r.pc \notin LockPcs \cup {"free"}
        /\ r.pc \notin {"reload", "spilled"}
    BY <1>1, <1>8 DEF TruncPcs, HandPcs, LockPcs, Returns
  <1>10. u'[p] = r /\ \A q \in Proc : q # p => u'[q] = u[q] BY <1>1, <1>3, <1>8 DEF Types
  <1>11. Locked' BY <1>1, <1>3, <1>5, <1>9, <1>10, LockedNext
  <1>12. Start' = <<b>> BY <1>1, <1>5, <1>9, <1>10, StartFree DEF LockPcs
  <1> DEFINE home2 == Moved(home, b, TheList)
  <1>13. /\ FreeHome(home2) = FreeHome(home) \cup {b}
         /\ \A y \in Block : home2[y] = home[y] \/ (home[y] \in Away(p) /\ home2[y] \in Away(p))
         /\ \A y \in Block : home2[y] = IF y = b THEN TheList ELSE home[y]
    <2>1. HandOf(p) \in Away(p) /\ TheList \in Away(p) BY DEF Away
    <2> HIDE DEF b
    <2> QED BY <1>4, <2>1, MovedHome
  <1> HIDE DEF home2
  <1>14. Listed(store', Start', FreeHome(home2))
    <2>1. b \notin FreeHome(home) BY <1>4, PlacesElsewhere DEF FreeHome
    <2> QED BY <1>1, <1>4, <1>6, <1>12, <1>13, <2>1, ListOver
  <1>15. HandHome(home2, p, r)
    <2>1. \A y \in Block : home[y] = HandOf(p) <=> y = b BY <1>4, <1>9 DEF HandHome
    <2>2. \A y \in Block : home2[y] # HandOf(p) BY <1>13, <2>1, PlacesElsewhere
    <2> QED BY <1>9, <2>2 DEF HandHome
  <1>16. TodoHome(home2, p, r)
    <2>1. \A y \in Block : home2[y] = ToFree(p) <=> home[y] = ToFree(p)
      BY <1>4, <1>13, PlacesElsewhere
    <2> QED BY <1>4, <1>8, <2>1 DEF TodoHome
  <1>17. /\ store' = [y \in Block |-> store'[y]] /\ (\A y \in Block : store'[y] = store[y] \/ home[y] = HandOf(p))
         /\ flock' \in BOOLEAN BY <1>1, <1>3 DEF Types
  <1> QED BY <1>1, <1>2, <1>4, <1>8, <1>9, <1>11, <1>13, <1>14, <1>15, <1>16, <1>17, MoveNext

(* itrunc frees the next of the blocks under an address. *)
LEMMA TruncFrees ==
    ASSUME BlocksAssumption, Good, NEW p \in Proc, Trunc(p), u[p].todo # <<>> PROVE Good'
  <1> DEFINE b == Head(u[p].todo)
             r == [u[p] EXCEPT !.pc = "free", !.bno = b, !.todo = Tail(@)]
  <1>1. /\ u[p].pc = "trunc" /\ u' = [u EXCEPT ![p] = r] /\ sfree' = sfree /\ flock' = flock
        /\ store' = store /\ addr' = addr /\ large' = large BY DEF Trunc, At, Goes, To
  <1>2. PICK home : Homed(home) BY DEF Good
  <1>3. Types /\ Alone /\ Locked /\ Found BY DEF Good
  <1>4. /\ u[p].pc # "user" /\ u[p] \in Regs /\ u[p].pc \in TruncPcs
        /\ HandHome(home, p, u[p]) /\ TodoHome(home, p, u[p])
    BY <1>1, <1>2, TruncRegs DEF TruncPcs
  <1>5. /\ b \in Range(u[p].todo) /\ IsChain(Tail(u[p].todo), Block)
        /\ Range(Tail(u[p].todo)) = Range(u[p].todo) \ {b}
        /\ IsChain(u[p].todo, Block) /\ Range(u[p].todo) \subseteq Block
    BY <1>4, ChainTail, ChainRange DEF TodoHome
  <1>6. b \in Block /\ home[b] = ToFree(p) /\ b # 0 /\ b \in Cells
    BY <1>4, <1>5, Indices DEF TodoHome
  <1>8. r \in Regs /\ r.f = u[p].f /\ r.bn = u[p].bn /\ r.k = u[p].k /\ r.fresh = u[p].fresh
        /\ r.tab = u[p].tab /\ r.ret = u[p].ret /\ r.todo = Tail(u[p].todo) /\ r.bno = b /\ r.pc = "free"
    <2>1. Tail(u[p].todo) \in Seq(Block) BY <1>5 DEF IsChain
    <2> HIDE DEF b
    <2> QED BY <1>4, <1>6, <2>1 DEF Regs, AllPcs, HandPcs
  <1> HIDE DEF r, b
  <1>9. r.pc \in TruncPcs /\ u[p].pc \notin HandPcs /\ r.pc \in HandPcs /\ r.pc \notin LockPcs
        /\ r.pc \notin {"reload", "spilled"} /\ u[p].pc \notin {"reload", "spilled"}
    BY <1>1, <1>8 DEF TruncPcs, HandPcs, LockPcs, Returns
  <1>10. u'[p] = r /\ \A q \in Proc : q # p => u'[q] = u[q] BY <1>1, <1>3, <1>8 DEF Types
  <1>11. Locked' BY <1>1, <1>3, <1>9, <1>10, LockedNext
  <1> DEFINE home2 == Moved(home, b, HandOf(p))
  <1>13. /\ \A y \in Block : home2[y] = home[y] \/ (home[y] \in Away(p) /\ home2[y] \in Away(p))
         /\ \A y \in Block : home2[y] = IF y = b THEN HandOf(p) ELSE home[y]
    <2>1. HandOf(p) \in Away(p) /\ ToFree(p) \in Away(p) BY DEF Away
    <2> QED BY <1>6, <2>1, MovedHome
  <1> HIDE DEF home2
  <1>14. Listed(store', Start', FreeHome(home2))
    <2>1. \A y \in Block : home2[y] = TheList <=> home[y] = TheList
      BY <1>6, <1>13, PlacesElsewhere
    <2>2. \A y \in Block : store'[y] = store[y] \/ (Mine(p, u[p].f, home[y]) /\ home[y] # TheList)
      BY <1>1
    <2> QED BY <1>1, <1>2, <1>3, <1>9, <1>10, <1>11, <2>1, <2>2, ListSame
  <1>15. HandHome(home2, p, r)
    <2>1. \A y \in Block : home[y] # HandOf(p) BY <1>4, <1>9 DEF HandHome
    <2>2. \A y \in Block : home2[y] = HandOf(p) <=> y = b BY <1>13, <2>1
    <2> QED BY <1>8, <1>9, <2>2 DEF HandHome
  <1>16. TodoHome(home2, p, r)
    <2>1. \A y \in Block : home2[y] = ToFree(p) <=> home[y] = ToFree(p) /\ y # b
      BY <1>13, PlacesElsewhere
    <2>2. \A y \in Block : y \in Range(u[p].todo) <=> home[y] = ToFree(p)
      BY <1>4 DEF TodoHome
    <2> QED BY <1>5, <1>8, <2>1, <2>2 DEF TodoHome
  <1>17. /\ store' = [y \in Block |-> store'[y]] /\ (\A y \in Block : store'[y] = store[y] \/ home[y] = HandOf(p))
         /\ flock' \in BOOLEAN /\ r.bno # 0 BY <1>1, <1>3, <1>6, <1>8 DEF Types
  <1> QED BY <1>1, <1>2, <1>4, <1>8, <1>9, <1>11, <1>13, <1>14, <1>15, <1>16, <1>17, MoveNext

-------------------------------------------------------------------------------
(* The steps that put the block in hand into the map of the file. *)

(* What a block that is p's, in hand or in its file, will hold. *)
LEMMA MyHolds ==
    ASSUME BlocksAssumption, Types, Alone, Found, NEW home, Homed(home), NEW p \in Proc, \A q \in Proc : q # p => u'[q] = u[q],
           NEW y \in Block, home[y] = HandOf(p) \/ OfFile(u[p].f, home[y])
    PROVE  Holds'[y] = IF u'[p].fresh /\ u'[p].tab = y THEN Zeros ELSE store'[y]
  <1>1. ASSUME NEW q \in Proc, q # p, u'[q].fresh, u'[q].tab = y PROVE FALSE
    <2>1. OfFile(u[q].f, home[y]) /\ u[p].f # u[q].f BY <1>1, FreshOwn
    <2> QED BY <2>1, OneOwner, PlacesOfFiles
  <1>2. Holds'[y] = (IF \E q \in Proc : u'[q].fresh /\ u'[q].tab = y THEN Zeros ELSE store'[y])
    BY DEF Holds, Held, Zeros, Block
  <1> QED BY <1>1, <1>2

Whole(t) == t = [y \in Block |-> t[y]]
Placed(home, p, f, b, r, home2) ==
    /\ u[p].pc \in Returns /\ b = u[p].bno /\ u[p].bno # 0 /\ f = u[p].f
    /\ u' = [u EXCEPT ![p] = r] /\ r \in Regs /\ r.pc \in {"user", "large", "double", "single"}
    /\ r.f \in {0, f} /\ r.todo = <<>> /\ (~ r.fresh \/ r.tab = b)
    /\ sfree' = sfree /\ flock' = flock /\ large' \in [File -> BOOLEAN] /\ addr' \in [File -> [Rows -> Cells]]
    /\ \A g \in File : g # f => addr'[g] = addr[g] /\ large'[g] = large[g]
    /\ Whole(store') /\ \A y \in Block : store'[y] = store[y] \/ y = b \/ OfFile(f, home[y])
    /\ OfFile(f, home2[b]) /\ \A y \in Block : home2[y] \in Places
    /\ \A y \in Block : y # b => home2[y] = home[y] \/ (OfFile(f, home[y]) /\ OfFile(f, home2[y]))
    /\ Local(r, addr'[r.f], large'[r.f], Holds') /\ FileMap(Holds', addr'[f], large'[f], f, home2)

LEMMA PlaceNext ==
    ASSUME BlocksAssumption, Good, NEW home, Homed(home), NEW p \in Proc, NEW f \in File, NEW b \in Block,
           NEW r, NEW home2, Placed(home, p, f, b, r, home2) PROVE Good'
  <1>0. /\ u[p].pc \in Returns /\ b = u[p].bno /\ u[p].bno # 0 /\ f = u[p].f
        /\ u' = [u EXCEPT ![p] = r] /\ r \in Regs /\ r.pc \in {"user", "large", "double", "single"}
        /\ r.f \in {0, f} /\ r.todo = <<>> /\ (~ r.fresh \/ r.tab = b)
        /\ sfree' = sfree /\ flock' = flock /\ large' \in [File -> BOOLEAN] /\ addr' \in [File -> [Rows -> Cells]]
        /\ \A g \in File : g # f => addr'[g] = addr[g] /\ large'[g] = large[g]
        /\ Whole(store') /\ \A y \in Block : store'[y] = store[y] \/ y = b \/ OfFile(f, home[y])
        /\ OfFile(f, home2[b]) /\ \A y \in Block : home2[y] \in Places
        /\ \A y \in Block : y # b => home2[y] = home[y] \/ (OfFile(f, home[y]) /\ OfFile(f, home2[y]))
        /\ Local(r, addr'[r.f], large'[r.f], Holds') /\ FileMap(Holds', addr'[f], large'[f], f, home2)
    BY DEF Placed
  <1>1. Types /\ Alone /\ Locked /\ Found BY DEF Good
  <1>2. u[p].pc # "user" /\ u[p].pc \in HandPcs /\ u[p].pc \notin LockPcs \cup TruncPcs
        /\ u[p].pc \notin {"reload", "spilled"}
    BY <1>0 DEF Returns, HandPcs, LockPcs, TruncPcs
  <1>3. /\ u[p] \in Regs /\ f # 0
        /\ Local(u[p], addr[f], large[f], Holds) /\ \A q \in Proc : q # p => u[q].f # f
    BY <1>0, <1>1, <1>2, AtWork
  <1>4. u[p].todo = <<>> BY <1>0, <1>2, <1>3 DEF Local
  <1>5. r.pc \notin HandPcs \cup LockPcs \cup TruncPcs /\ r.pc \notin {"reload", "spilled"}
    BY <1>0 DEF Returns, HandPcs, LockPcs, TruncPcs
  <1>6. /\ u'[p] = r /\ (\A q \in Proc : q # p => u'[q] = u[q])
        /\ Types'
    <2>1. flock' \in BOOLEAN /\ store' = [y \in Block |-> store'[y]]
      BY <1>0, <1>1 DEF Types, Whole
    <2> QED BY <1>0, <1>1, <2>1, StepTypes
  <1>7. Locked' BY <1>0, <1>1, <1>2, <1>5, <1>6, LockedNext
  <1>8. /\ HandHome(home, p, u[p]) /\ TodoHome(home, p, u[p])
        /\ \A y \in Block : home[y] = HandOf(p) <=> y = b
        /\ \A y \in Block : home[y] # ToFree(p)
    <2>1. HandHome(home, p, u[p]) /\ TodoHome(home, p, u[p]) BY DEF Homed
    <2>2. Range(u[p].todo) = {} BY <1>0, <1>4, ChainOne
    <2> QED BY <1>0, <1>2, <2>1, <2>2 DEF HandHome, TodoHome
  <1>9. /\ \A y \in Block : ~ OfFile(f, home[y]) \/ (home[y] # HandOf(p) /\ home[y] # TheList)
        /\ OfFile(f, home2[b]) /\ home2[b] # HandOf(p) /\ home2[b] # TheList /\ home2[b] # ToFree(p)
        /\ home[b] # TheList BY <1>0, <1>8, PlacesOfFiles, PlacesElsewhere
  <1>10. HandHome(home2, p, r) /\ TodoHome(home2, p, r)
    <2>1. \A y \in Block : home2[y] # HandOf(p) /\ home2[y] # ToFree(p)
      BY <1>0, <1>8, <1>9, PlacesOfFiles
    <2>2. IsChain(r.todo, Block) /\ Range(r.todo) = {} BY <1>0, ChainOne
    <2> QED BY <1>0, <1>5, <2>1, <2>2 DEF HandHome, TodoHome
  <1>11. Listed(store', Start', FreeHome(home2))
    <2>1. \A y \in Block : store'[y] = store[y] \/ (Mine(p, f, home[y]) /\ home[y] # TheList)
      BY <1>0, <1>8, <1>9 DEF Mine
    <2>2. \A y \in Block : home2[y] = TheList <=> home[y] = TheList
      BY <1>0, <1>9, PlacesOfFiles
    <2>3. /\ Homed(home) /\ p \in Proc /\ (\A q \in Proc : q # p => u'[q] = u[q]) /\ sfree' = sfree
          /\ u[p].pc \notin {"reload", "spilled"} /\ u'[p].pc \notin {"reload", "spilled"}
      BY <1>0, <1>2, <1>5, <1>6
    <2> QED BY ONLY BlocksAssumption, <1>1, <1>7, <2>1, <2>2, <2>3, ListSame
  <1>12. \A y \in Block : Holds'[y] = Holds[y] \/ Mine(p, f, home[y])
    <2> SUFFICES ASSUME NEW y \in Block, ~ Mine(p, f, home[y]) PROVE Holds'[y] = Holds[y]
      OBVIOUS
    <2>1. y # b /\ ~ OfFile(f, home[y]) BY <1>0, <1>8 DEF Mine
    <2>2. ~ (u[p].fresh /\ u[p].tab = y) BY <1>0, <1>1, <2>1, FreshOwn
    <2>3. ~ (u'[p].fresh /\ u'[p].tab = y) BY <1>0, <1>6, <2>1
    <2> QED BY <1>0, <1>6, <2>1, <2>2, <2>3, HeldFrame
  <1>13. Tops(f)' = addr'[f]
    <2>1. \A i \in Rows : ~ Cut(f, i)' BY <1>0, <1>3, <1>5, <1>6 DEF Cut
    <2>2. addr'[f] \in [Rows -> Cells] BY <1>0
    <2> QED BY <1>0, <2>1, <2>2 DEF Tops, Rows
  <1>14. \A y \in Block : home2[y] = home[y] \/ (Mine(p, f, home[y]) /\ Mine(p, f, home2[y]))
    BY <1>0, <1>8, <1>9 DEF Mine
  <1>15. /\ \A q \in Proc : q # p => u'[q] = u[q] /\ u[q].f # f
         /\ u[p].f \in {0, f} /\ u'[p].f \in {0, f} /\ Local(u'[p], addr'[u'[p].f], large'[u'[p].f], Holds')
         /\ HandHome(home2, p, u'[p]) /\ TodoHome(home2, p, u'[p])
         /\ FileMap(Holds', Tops(f)', large'[f], f, home2) BY <1>0, <1>3, <1>6, <1>10, <1>13
  <1>16. /\ Homed(home) /\ p \in Proc /\ f \in File /\ \A y \in Block : home2[y] \in Places
         /\ \A g \in File : g # f => addr'[g] = addr[g] /\ large'[g] = large[g]
         /\ Types' BY <1>0, <1>6
  <1> QED BY ONLY BlocksAssumption, <1>1, <1>7, <1>11, <1>12, <1>14, <1>15, <1>16, GoodNext

(* What these steps find. *)
LEMMA InHand1 ==
    ASSUME BlocksAssumption, Good, NEW home, Homed(home), NEW p \in Proc, u[p].pc \in Returns, u[p].bno # 0
    PROVE  /\ u[p] \in Regs /\ u[p].f \in File /\ u[p].f # 0 /\ u[p].bno \in Block /\ u[p].bn \in Bns
           /\ home[u[p].bno] = HandOf(p) /\ ~ OfFile(u[p].f, home[u[p].bno])
           /\ addr[u[p].f] \in [Rows -> Cells] /\ large[u[p].f] \in BOOLEAN
           /\ FileMap(Holds, addr[u[p].f], large[u[p].f], u[p].f, home)
           /\ Local(u[p], addr[u[p].f], large[u[p].f], Holds) /\ Stage(u[p]) = u[p].pc
           /\ u[p].todo = <<>> /\ u[p].fresh \in BOOLEAN
           /\ u[p].fresh => u[p].pc \in {"second", "data"}
           /\ store = [y \in Block |-> store[y]] /\ addr \in [File -> [Rows -> Cells]] /\ large \in [File -> BOOLEAN]
  <1>1. Types /\ Alone /\ Locked /\ Found BY DEF Good
  <1>2. u[p].pc # "user" /\ u[p].pc \in HandPcs /\ u[p].pc \notin TruncPcs /\ Stage(u[p]) = u[p].pc
    BY DEF Returns, HandPcs, TruncPcs, Stage
  <1>3. /\ u[p] \in Regs /\ u[p].f \in File /\ u[p].f # 0
        /\ addr[u[p].f] \in [Rows -> Cells] /\ large[u[p].f] \in BOOLEAN
        /\ Local(u[p], addr[u[p].f], large[u[p].f], Holds) /\ \A q \in Proc : q # p => u[q].f # u[p].f
    BY <1>1, <1>2, AtWork
  <1>4. u[p].bno \in Block /\ u[p].bn \in Bns /\ u[p].todo = <<>> /\ u[p].fresh \in BOOLEAN
        /\ (u[p].fresh => u[p].pc \in {"second", "data"})
    BY <1>2, <1>3, Indices DEF Regs, Local, Returns
  <1>5. home[u[p].bno] = HandOf(p) /\ ~ OfFile(u[p].f, home[u[p].bno])
    BY <1>2, <1>4, PlacesOfFiles DEF Homed, HandHome
  <1>6. FileMap(Holds, addr[u[p].f], large[u[p].f], u[p].f, home)
    <2>1. Tops(u[p].f) = addr[u[p].f] BY <1>1, <1>2, <1>3, WholeTops
    <2> QED BY <1>3, <2>1 DEF Homed
  <1> QED BY <1>1, <1>2, <1>3, <1>4, <1>5, <1>6 DEF Types

LEMMA SmallGood ==
    ASSUME BlocksAssumption, Good, NEW p \in Proc, Small(p) PROVE Good'
  <1> DEFINE f == u[p].f
             b == u[p].bno
             i == u[p].bn
  <1>1. /\ u[p].pc = "small" /\ b # 0 /\ u' = [u EXCEPT ![p] = Idle]
        /\ addr' = [addr EXCEPT ![f][i] = b]
        /\ sfree' = sfree /\ flock' = flock /\ store' = store /\ large' = large
    BY DEF Small, At, Goes
  <1>2. PICK home : Homed(home) BY DEF Good
  <1>3. /\ u[p] \in Regs /\ f \in File /\ f # 0 /\ b \in Block /\ i \in Bns
        /\ home[b] = HandOf(p) /\ ~ OfFile(f, home[b])
        /\ addr[f] \in [Rows -> Cells] /\ large[f] \in BOOLEAN
        /\ FileMap(Holds, addr[f], large[f], f, home)
        /\ Local(u[p], addr[f], large[f], Holds) /\ Stage(u[p]) = u[p].pc
        /\ u[p].fresh = FALSE
        /\ store = [y \in Block |-> store[y]] /\ addr \in [File -> [Rows -> Cells]] /\ large \in [File -> BOOLEAN]
    BY <1>1, <1>2, InHand1 DEF Returns
  <1>4. large[f] = FALSE /\ i \in Rows /\ addr[f][i] = 0 BY <1>1, <1>3 DEF Local
  <1> HIDE DEF f, b, i
  <1>5. /\ addr' \in [File -> [Rows -> Cells]] /\ addr'[f] = [addr[f] EXCEPT ![i] = b]
        /\ \A g \in File : g # f => addr'[g] = addr[g]
    <2>1. b \in Cells BY <1>3, Indices
    <2> QED BY <1>1, <1>3, <1>4, <2>1
  <1>6. Idle \in Regs /\ Idle.pc = "user" /\ Idle.f = 0 /\ Idle.todo = <<>> /\ Idle.fresh = FALSE
        /\ Local(Idle, addr'[Idle.f], large'[Idle.f], Holds') BY LocalIdle DEF Idle, NoFile
  <1>7. u'[p] = Idle /\ \A q \in Proc : q # p => u'[q] = u[q] BY <1>1 DEF Good, Types
  <1>8. Holds' = Holds
    <2>1. \A y \in Block : u'[p].fresh /\ u'[p].tab = y <=> u[p].fresh /\ u[p].tab = y
      BY <1>3, <1>6, <1>7
    <2> QED BY <1>1, <1>7, <2>1, SameHolds
  <1> DEFINE home2 == Moved(home, b, TopOf(f, i))
  <1>9. \A y \in Block : home2[y] = IF y = b THEN TopOf(f, i) ELSE home[y] BY DEF Moved
  <1>10. OfFile(f, TopOf(f, i)) /\ TopOf(f, i) \in Places /\ \A y \in Block : home[y] \in Places
    BY <1>2, <1>3, <1>4, PlacesOfFiles DEF Places, Homed
  <1> HIDE DEF home2
  <1>11. FileMap(Holds', addr'[f], large'[f], f, home2)
    <2>3. FileMap(Holds, addr'[f], large[f], f, home2)
      <3> DEFINE lg == large[f]
                 tops == addr[f]
                 t == Holds
                 tops2 == addr'[f]
      <3>1. /\ lg \in BOOLEAN /\ i \in Rows /\ b \in Block /\ tops[i] = 0 /\ ~ OfFile(f, home[b])
            /\ FileMap(t, tops, lg, f, home)
            /\ (\A y \in Block : OfFile(f, home[y]) => t[y] = t[y]) /\ (lg => t[b] = Zeros)
            /\ tops2 \in [Rows -> Cells] /\ \A x \in Rows : tops2[x] = IF x = i THEN b ELSE tops[x]
        BY <1>3, <1>4, <1>5
      <3> HIDE DEF lg, tops, t, tops2
      <3>2. FileMap(t, tops2, lg, f, home2) BY ONLY <3>1, <1>9, BlocksAssumption, MapAddTop
      <3> QED BY <3>2 DEF lg, tops, t, tops2
    <2> QED BY <1>1, <1>5, <1>8, <2>3
  <1>12. /\ OfFile(f, home2[b]) /\ \A y \in Block : home2[y] \in Places
         /\ \A y \in Block : y # b => home2[y] = home[y] \/ (OfFile(f, home[y]) /\ OfFile(f, home2[y]))
         /\ \A g \in File : g # f => addr'[g] = addr[g] /\ large'[g] = large[g]
         /\ \A y \in Block : store'[y] = store[y] \/ y = b \/ OfFile(f, home[y])
         /\ u[p].pc \in Returns BY <1>1, <1>3, <1>5, <1>9, <1>10 DEF Returns
  <1>13. /\ p \in Proc /\ f \in File /\ b \in Block /\ b = u[p].bno /\ f = u[p].f /\ u[p].bno # 0
         /\ Idle \in Regs /\ Idle.pc \in {"user", "large", "double", "single"}
         /\ Idle.f \in {0, f} /\ Idle.todo = <<>> /\ (~ Idle.fresh \/ Idle.tab = b)
         /\ sfree' = sfree /\ flock' = flock /\ large' \in [File -> BOOLEAN] /\ addr' \in [File -> [Rows -> Cells]]
         /\ Whole(store') /\ u' = [u EXCEPT ![p] = Idle]
    BY <1>1, <1>3, <1>5, <1>6 DEF f, b, Whole
  <1>14. Placed(home, p, f, b, Idle, home2) BY <1>6, <1>11, <1>12, <1>13 DEF Placed
  <1> QED BY <1>2, <1>3, <1>14, PlaceNext

LEMMA IndirectGood ==
    ASSUME BlocksAssumption, Good, NEW p \in Proc, Indirect(p) PROVE Good'
  <1> DEFINE f == u[p].f
             b == u[p].bno
             n == u[p].bn
             i == Index(n)
             r == [[u[p] EXCEPT !.pc = IF Double(n) THEN "double" ELSE "single"] EXCEPT
                       !.tab = b, !.fresh = TRUE, !.bno = 0]
  <1>1. /\ u[p].pc = "indirect" /\ b # 0 /\ u' = [u EXCEPT ![p] = r]
        /\ addr' = [addr EXCEPT ![f][i] = b]
        /\ sfree' = sfree /\ flock' = flock /\ store' = store /\ large' = large
    BY DEF Indirect, At, Goes, To
  <1>2. PICK home : Homed(home) BY DEF Good
  <1>3. /\ u[p] \in Regs /\ f \in File /\ f # 0 /\ b \in Block /\ n \in Bns
        /\ home[b] = HandOf(p) /\ ~ OfFile(f, home[b])
        /\ addr[f] \in [Rows -> Cells] /\ large[f] \in BOOLEAN
        /\ FileMap(Holds, addr[f], large[f], f, home)
        /\ Local(u[p], addr[f], large[f], Holds) /\ Stage(u[p]) = u[p].pc
        /\ u[p].fresh = FALSE /\ u[p].todo = <<>> /\ u[p].pc \in Returns
        /\ Whole(store) /\ addr \in [File -> [Rows -> Cells]] /\ large \in [File -> BOOLEAN]
    BY <1>1, <1>2, InHand1 DEF Returns, Whole
  <1>4. large[f] /\ addr[f][i] = 0 /\ i \in Rows /\ (Double(n) => i = LastRow) /\ b \in Cells /\ 0 \in Cells
    BY <1>1, <1>3, BnFacts, Indices DEF Local
  <1>5. /\ r \in Regs /\ r.f = f /\ r.bn = n /\ r.todo = <<>> /\ r.fresh = TRUE /\ r.tab = b
        /\ r.pc = IF Double(n) THEN "double" ELSE "single"
    <2> HIDE DEF b
    <2> QED BY <1>3, <1>4 DEF Regs, AllPcs
  <1> HIDE DEF f, b, n, i, r
  <1>6. /\ addr' \in [File -> [Rows -> Cells]] /\ addr'[f] = [addr[f] EXCEPT ![i] = b]
        /\ \A g \in File : g # f => addr'[g] = addr[g] BY <1>1, <1>3, <1>4
  <1>7. u'[p] = r /\ \A q \in Proc : q # p => u'[q] = u[q] BY <1>1 DEF Good, Types
  <1>8. Holds'[b] = Zeros /\ \A y \in Block : y # b => Holds'[y] = Holds[y]
    <2>1. \A y \in Block : y # b => (u'[p].fresh /\ u'[p].tab = y <=> u[p].fresh /\ u[p].tab = y)
      BY <1>3, <1>5, <1>7
    <2>2. \A y \in Block : y # b => Holds'[y] = Holds[y] BY <1>1, <1>7, <2>1, HeldFrame
    <2>3. Holds'[b] = Zeros BY <1>2, <1>3, <1>5, <1>7, MyHolds DEF Good
    <2> QED BY <2>2, <2>3
  <1> DEFINE home2 == Moved(home, b, TopOf(f, i))
  <1>9. \A y \in Block : home2[y] = IF y = b THEN TopOf(f, i) ELSE home[y] BY DEF Moved
  <1>10. OfFile(f, TopOf(f, i)) /\ TopOf(f, i) \in Places /\ \A y \in Block : home[y] \in Places
    BY <1>2, <1>3, <1>4, PlacesOfFiles DEF Places, Homed
  <1> HIDE DEF home2
  <1>11. FileMap(Holds', addr'[f], large'[f], f, home2)
    <2> DEFINE lg == large[f]
               tops == addr[f]
               t == Holds
               t2 == Holds'
               tops2 == addr'[f]
    <2>1. /\ lg \in BOOLEAN /\ i \in Rows /\ b \in Block /\ tops[i] = 0 /\ ~ OfFile(f, home[b])
          /\ FileMap(t, tops, lg, f, home)
          /\ (\A y \in Block : OfFile(f, home[y]) => t2[y] = t[y]) /\ (lg => t2[b] = Zeros)
          /\ tops2 \in [Rows -> Cells] /\ \A x \in Rows : tops2[x] = IF x = i THEN b ELSE tops[x]
      BY <1>3, <1>4, <1>6, <1>8
    <2> HIDE DEF lg, tops, t, t2, tops2
    <2>2. FileMap(t2, tops2, lg, f, home2) BY ONLY <2>1, <1>9, BlocksAssumption, MapAddTop
    <2> QED BY <2>2, <1>1 DEF lg, tops, t, t2, tops2
  <1>12. Local(r, addr'[f], large'[f], Holds')
    <2>1. b # 0 /\ addr'[f][i] = b /\ large'[f] = large[f] /\ (Double(n) => addr'[f][LastRow] = b)
      BY <1>1, <1>3, <1>4, <1>6
    <2>2. f \in File /\ n \in Bns BY <1>3
    <2> QED BY <2>1, <2>2, <1>4, <1>5 DEF Local, Stage, LockPcs, TruncPcs, i
  <1>13. /\ OfFile(f, home2[b]) /\ \A y \in Block : home2[y] \in Places
         /\ \A y \in Block : y # b => home2[y] = home[y] \/ (OfFile(f, home[y]) /\ OfFile(f, home2[y]))
         /\ \A g \in File : g # f => addr'[g] = addr[g] /\ large'[g] = large[g]
         /\ \A y \in Block : store'[y] = store[y] \/ y = b \/ OfFile(f, home[y])
    BY <1>1, <1>3, <1>6, <1>9, <1>10
  <1>14. Placed(home, p, f, b, r, home2)
    <2>1. /\ u[p].pc \in Returns /\ b = u[p].bno /\ u[p].bno # 0 /\ f = u[p].f
          /\ u' = [u EXCEPT ![p] = r] /\ r \in Regs /\ r.pc \in {"user", "large", "double", "single"}
          /\ r.f \in {0, f} /\ r.todo = <<>> /\ (~ r.fresh \/ r.tab = b)
          /\ sfree' = sfree /\ flock' = flock /\ large' \in [File -> BOOLEAN] /\ addr' \in [File -> [Rows -> Cells]]
          /\ Whole(store') BY <1>1, <1>3, <1>5, <1>6 DEF f, b
    <2>2. Local(r, addr'[r.f], large'[r.f], Holds') BY <1>5, <1>12
    <2> QED BY <2>1, <2>2, <1>11, <1>13 DEF Placed
  <1> QED BY <1>2, <1>3, <1>14, PlaceNext

(* A word of the indirect block in hand is written. *)
LEMMA TableWrite ==
    ASSUME BlocksAssumption, Good, NEW home, Homed(home), NEW p \in Proc, Stage(u[p]) \in TabStages,
           NEW k \in Cols, NEW b \in Block, store' = [store EXCEPT ![u[p].tab] = [Table(p) EXCEPT ![k] = b]]
    PROVE  /\ Whole(store') /\ u[p].tab \in Block /\ OfFile(u[p].f, home[u[p].tab])
           /\ store'[u[p].tab] \in Tables
           /\ \A l \in Cols : store'[u[p].tab][l] = IF l = k THEN b ELSE Holds[u[p].tab][l]
           /\ \A y \in Block : y # u[p].tab => store'[y] = store[y]
  <1> DEFINE m == u[p].tab
             t == Holds[m]
             new == [t EXCEPT ![k] = b]
  <1>1. m \in Block /\ OfFile(u[p].f, home[m]) /\ t \in Tables /\ Table(p) = t
    BY TabHome, TableHeld DEF Good
  <1>2. store = [y \in Block |-> store[y]] BY DEF Good, Types
  <1>3. store' = [store EXCEPT ![m] = new] BY <1>1
  <1>4. new \in Tables /\ \A l \in Cols : new[l] = IF l = k THEN b ELSE t[l]
    <2>1. b \in Cells BY Indices
    <2> HIDE DEF t
    <2> QED BY <1>1, <2>1 DEF Tables
  <1> HIDE DEF new, m, t
  <1>5. store' = [y \in Block |-> store'[y]] /\ store'[m] = new /\ \A y \in Block : y # m => store'[y] = store[y]
    BY <1>1, <1>2, <1>3
  <1> QED BY <1>1, <1>4, <1>5 DEF Whole, m, t

LEMMA SecondGood ==
    ASSUME BlocksAssumption, Good, NEW p \in Proc, Second(p) PROVE Good'
  <1> DEFINE f == u[p].f
             b == u[p].bno
             n == u[p].bn
             k == SlotOf(n)
             m == u[p].tab
             r == [[u[p] EXCEPT !.pc = "single"] EXCEPT !.tab = b, !.fresh = TRUE, !.bno = 0]
  <1>1. /\ u[p].pc = "second" /\ b # 0 /\ u' = [u EXCEPT ![p] = r]
        /\ store' = [store EXCEPT ![m] = [Table(p) EXCEPT ![k] = b]]
        /\ sfree' = sfree /\ flock' = flock /\ addr' = addr /\ large' = large
    BY DEF Second, At, Goes, To, SlotOf, Slot2, LastRow
  <1>2. PICK home : Homed(home) BY DEF Good
  <1>3. /\ u[p] \in Regs /\ f \in File /\ f # 0 /\ b \in Block /\ n \in Bns
        /\ home[b] = HandOf(p) /\ ~ OfFile(f, home[b])
        /\ addr[f] \in [Rows -> Cells] /\ large[f] \in BOOLEAN
        /\ FileMap(Holds, addr[f], large[f], f, home)
        /\ Local(u[p], addr[f], large[f], Holds) /\ Stage(u[p]) = u[p].pc
        /\ u[p].todo = <<>> /\ u[p].pc \in Returns
        /\ addr \in [File -> [Rows -> Cells]] /\ large \in [File -> BOOLEAN]
    BY <1>1, <1>2, InHand1 DEF Returns
  <1>4. /\ large[f] /\ m # 0 /\ Double(n) /\ m = addr[f][LastRow] /\ Holds[m][k] = 0
        /\ k \in Cols /\ LastRow \in Rows /\ b \in Cells /\ 0 \in Cells
    BY <1>1, <1>3, BnFacts, Indices DEF Local
  <1>5. /\ r \in Regs /\ r.f = f /\ r.bn = n /\ r.todo = <<>> /\ r.fresh = TRUE /\ r.tab = b /\ r.pc = "single"
    <2> HIDE DEF b
    <2> QED BY <1>3, <1>4 DEF Regs, AllPcs
  <1>6. /\ Whole(store') /\ m \in Block /\ OfFile(f, home[m])
        /\ store'[m] \in Tables
        /\ \A l \in Cols : store'[m][l] = IF l = k THEN b ELSE Holds[m][l]
        /\ \A y \in Block : y # m => store'[y] = store[y]
    <2>1. Stage(u[p]) \in TabStages BY <1>1, <1>3 DEF TabStages
    <2> QED BY <1>1, <1>2, <1>3, <1>4, <2>1, TableWrite
  <1> HIDE DEF f, b, n, k, m, r
  <1>7. u'[p] = r /\ \A q \in Proc : q # p => u'[q] = u[q] BY <1>1 DEF Good, Types
  <1>8. /\ m # b /\ Holds'[b] = Zeros /\ Holds'[m] = store'[m]
        /\ \A y \in Block : y # b /\ y # m => Holds'[y] = Holds[y]
    <2>0. m # b BY <1>3, <1>6
    <2>1. \A y \in Block : y # b /\ y # m => (u'[p].fresh /\ u'[p].tab = y <=> u[p].fresh /\ u[p].tab = y)
      BY <1>3, <1>5, <1>7 DEF m
    <2>2. \A y \in Block : y # b /\ y # m => Holds'[y] = Holds[y]
      BY <1>6, <1>7, <2>1, HeldFrame
    <2>3. Holds'[b] = Zeros BY <1>2, <1>3, <1>5, <1>7, MyHolds DEF Good
    <2>4. Holds'[m] = store'[m] BY <1>2, <1>3, <1>5, <1>6, <1>7, <2>0, MyHolds DEF Good, f
    <2> QED BY <2>0, <2>2, <2>3, <2>4
  <1> DEFINE home2 == Moved(home, b, MidOf(f, LastRow, k))
  <1>9. \A y \in Block : home2[y] = IF y = b THEN MidOf(f, LastRow, k) ELSE home[y]
    BY DEF Moved
  <1>10. OfFile(f, MidOf(f, LastRow, k)) /\ MidOf(f, LastRow, k) \in Places /\ \A y \in Block : home[y] \in Places
    BY <1>2, <1>3, <1>4, PlacesOfFiles DEF Places, Homed
  <1> HIDE DEF home2
  <1>11. FileMap(Holds', addr'[f], large'[f], f, home2)
    <2> DEFINE lg == large[f]
               tops == addr[f]
               t == Holds
               t2 == Holds'
    <2>1. /\ lg \in BOOLEAN /\ lg # FALSE /\ LastRow \in Rows /\ k \in Cols /\ b \in Block /\ ~ OfFile(f, home[b])
          /\ tops[LastRow] # 0 /\ FileMap(t, tops, lg, f, home)
          /\ (\A y \in Block : OfFile(f, home[y]) /\ y # tops[LastRow] => t2[y] = t[y]) /\ t2[b] = Zeros
          /\ t2[tops[LastRow]] \in Tables
          /\ \A l \in Cols : t2[tops[LastRow]][l] = IF l = k THEN b ELSE t[tops[LastRow]][l]
      BY <1>3, <1>4, <1>6, <1>8
    <2>2. MidAt(t, tops, lg, LastRow, k) = 0 BY <1>4 DEF MidAt, Word
    <2> HIDE DEF lg, tops, t, t2
    <2>3. MidAdded(t, tops, lg, f, home, LastRow, k, b, t2, home2)
      BY ONLY <2>1, <2>2, <1>9 DEF MidAdded
    <2>4. FileMap(t2, tops, lg, f, home2) BY ONLY <2>3, BlocksAssumption, MapAddMid
    <2> QED BY <2>4, <1>1 DEF lg, tops, t, t2
  <1>12. Local(r, addr'[f], large'[f], Holds')
    <2>1. b # 0 /\ large'[f] = large[f] /\ addr'[f] = addr[f] BY <1>1
    <2>2. MidAt(Holds', addr[f], large[f], LastRow, k) = b
      BY <1>4, <1>6, <1>8 DEF MidAt, Word
    <2>3. f \in File /\ n \in Bns BY <1>3
    <2> QED BY <2>1, <2>2, <2>3, <1>4, <1>5 DEF Local, Stage, LockPcs, TruncPcs, k
  <1>13. /\ OfFile(f, home2[b]) /\ \A y \in Block : home2[y] \in Places
         /\ \A y \in Block : y # b => home2[y] = home[y] \/ (OfFile(f, home[y]) /\ OfFile(f, home2[y]))
         /\ \A g \in File : g # f => addr'[g] = addr[g] /\ large'[g] = large[g]
         /\ \A y \in Block : store'[y] = store[y] \/ y = b \/ OfFile(f, home[y])
    BY <1>1, <1>3, <1>6, <1>9, <1>10
  <1>14. Placed(home, p, f, b, r, home2)
    <2>1. /\ u[p].pc \in Returns /\ b = u[p].bno /\ u[p].bno # 0 /\ f = u[p].f
          /\ u' = [u EXCEPT ![p] = r] /\ r \in Regs /\ r.pc \in {"user", "large", "double", "single"}
          /\ r.f \in {0, f} /\ r.todo = <<>> /\ (~ r.fresh \/ r.tab = b)
          /\ sfree' = sfree /\ flock' = flock /\ large' \in [File -> BOOLEAN] /\ addr' \in [File -> [Rows -> Cells]]
          /\ Whole(store') BY <1>1, <1>3, <1>5, <1>6 DEF f, b
    <2>2. Local(r, addr'[r.f], large'[r.f], Holds') BY <1>5, <1>12
    <2> QED BY <2>1, <2>2, <1>11, <1>13 DEF Placed
  <1> QED BY <1>2, <1>3, <1>14, PlaceNext

LEMMA DataGood ==
    ASSUME BlocksAssumption, Good, NEW p \in Proc, Data(p) PROVE Good'
  <1> DEFINE f == u[p].f
             b == u[p].bno
             n == u[p].bn
             i == Index(n)
             k == SlotOf(n)
             j == n % NINDIR
             m == u[p].tab
             x == IF Double(n) THEN LowOf(f, k, j) ELSE MidOf(f, i, j)
  <1>1. /\ u[p].pc = "data" /\ b # 0 /\ u' = [u EXCEPT ![p] = Idle]
        /\ store' = [store EXCEPT ![m] = [Table(p) EXCEPT ![j] = b]]
        /\ sfree' = sfree /\ flock' = flock /\ addr' = addr /\ large' = large
    BY DEF Data, At, Goes
  <1>2. PICK home : Homed(home) BY DEF Good
  <1>3. /\ u[p] \in Regs /\ f \in File /\ f # 0 /\ b \in Block /\ n \in Bns
        /\ home[b] = HandOf(p) /\ ~ OfFile(f, home[b])
        /\ addr[f] \in [Rows -> Cells] /\ large[f] \in BOOLEAN
        /\ FileMap(Holds, addr[f], large[f], f, home)
        /\ Local(u[p], addr[f], large[f], Holds) /\ Stage(u[p]) = u[p].pc
        /\ u[p].todo = <<>> /\ u[p].pc \in Returns
        /\ addr \in [File -> [Rows -> Cells]] /\ large \in [File -> BOOLEAN]
    BY <1>1, <1>2, InHand1 DEF Returns
  <1>4. /\ large[f] /\ m # 0 /\ Holds[m][j] = 0
        /\ m = (IF Double(n) THEN MidAt(Holds, addr[f], large[f], LastRow, k) ELSE addr[f][i])
        /\ j \in Cols /\ i \in Rows /\ LastRow \in Rows
        /\ Double(n) => k \in Cols
        /\ ~ Double(n) => i # LastRow
    <2>1. /\ large[f] /\ m # 0 /\ Holds[m][j] = 0
          /\ m = (IF Double(n) THEN MidAt(Holds, addr[f], large[f], LastRow, k) ELSE addr[f][i])
      BY <1>1, <1>3 DEF Local
    <2>2. /\ j \in Cols /\ i \in Rows /\ LastRow \in Rows
          /\ Double(n) => k \in Cols
          /\ ~ Double(n) => i # LastRow BY <1>3, BnFacts, Indices
    <2> QED BY <2>1, <2>2
  <1>5. Idle \in Regs /\ Idle.pc = "user" /\ Idle.f = 0 /\ Idle.todo = <<>> /\ Idle.fresh = FALSE
        /\ Local(Idle, addr'[Idle.f], large'[Idle.f], Holds') BY LocalIdle DEF Idle, NoFile
  <1>6. /\ Whole(store') /\ m \in Block /\ OfFile(f, home[m])
        /\ store'[m] \in Tables
        /\ \A l \in Cols : store'[m][l] = IF l = j THEN b ELSE Holds[m][l]
        /\ \A y \in Block : y # m => store'[y] = store[y]
    <2>1. Stage(u[p]) \in TabStages BY <1>1, <1>3 DEF TabStages
    <2> QED BY <1>1, <1>2, <1>3, <1>4, <2>1, TableWrite
  <1>10. OfFile(f, x) /\ x \in Places /\ \A y \in Block : home[y] \in Places
    <2>1. \A y \in Block : home[y] \in Places BY <1>2 DEF Homed
    <2>2. CASE Double(n)
      <3>1. x = LowOf(f, k, j) BY <2>2
      <3> HIDE DEF f, k, j, x
      <3> QED BY <1>3, <1>4, <2>1, <2>2, <3>1, PlacesOfFiles DEF Places
    <2>3. CASE ~ Double(n)
      <3>1. x = MidOf(f, i, j) BY <2>3
      <3> HIDE DEF f, i, j, x
      <3> QED BY <1>3, <1>4, <2>1, <2>3, <3>1, PlacesOfFiles DEF Places
    <2> QED BY <2>2, <2>3
  <1>x. (Double(n) => x = LowOf(f, k, j)) /\ (~ Double(n) => x = MidOf(f, i, j)) OBVIOUS
  <1> HIDE DEF f, b, n, i, k, j, m, x
  <1>7. u'[p] = Idle /\ \A q \in Proc : q # p => u'[q] = u[q] BY <1>1 DEF Good, Types
  <1>8. /\ Holds'[m] = store'[m]
        /\ \A y \in Block : y # m => Holds'[y] = Holds[y]
    <2>1. \A y \in Block : y # m => (u'[p].fresh /\ u'[p].tab = y <=> u[p].fresh /\ u[p].tab = y)
      BY <1>3, <1>5, <1>7 DEF m
    <2>2. \A y \in Block : y # m => Holds'[y] = Holds[y] BY <1>6, <1>7, <2>1, HeldFrame
    <2>4. Holds'[m] = store'[m] BY <1>2, <1>3, <1>5, <1>6, <1>7, MyHolds DEF Good, f
    <2> QED BY <2>2, <2>4
  <1> DEFINE home2 == Moved(home, b, x)
  <1>9. \A y \in Block : home2[y] = IF y = b THEN x ELSE home[y] BY DEF Moved
  <1> HIDE DEF home2
  <1>11. FileMap(Holds', addr'[f], large'[f], f, home2)
    <2> DEFINE lg == large[f]
               tops == addr[f]
               t == Holds
               t2 == Holds'
    <2>1. /\ lg \in BOOLEAN /\ lg # FALSE /\ b \in Block /\ ~ OfFile(f, home[b])
          /\ FileMap(t, tops, lg, f, home)
          /\ (\A y \in Block : OfFile(f, home[y]) /\ y # m => t2[y] = t[y])
          /\ t2[m] \in Tables
          /\ (\A l \in Cols : t2[m][l] = IF l = j THEN b ELSE t[m][l]) /\ t[m][j] = 0
      <3>1. /\ lg \in BOOLEAN /\ lg # FALSE /\ b \in Block /\ ~ OfFile(f, home[b])
            /\ FileMap(t, tops, lg, f, home) /\ t[m][j] = 0 BY <1>3, <1>4
      <3>2. \A y \in Block : OfFile(f, home[y]) /\ y # m => t2[y] = t[y] BY <1>8
      <3>3. t2[m] \in Tables /\ \A l \in Cols : t2[m][l] = IF l = j THEN b ELSE t[m][l]
        BY <1>6, <1>8
      <3> QED BY ONLY <3>1, <3>2, <3>3
    <2>2. m = (IF Double(n) THEN MidAt(t, tops, lg, LastRow, k) ELSE tops[i]) BY <1>4
    <2> HIDE DEF lg, tops, t, t2
    <2>3. ASSUME Double(n) PROVE FileMap(t2, tops, lg, f, home2)
      <3>1. LowAt(t, tops, lg, k, j) = 0 BY <1>4, <2>1, <2>2, <2>3 DEF LowAt, Word
      <3>2. LowAdded(t, tops, lg, f, home, k, j, m, b, t2, home2)
        BY ONLY <2>1, <2>2, <2>3, <3>1, <1>4, <1>9, <1>x DEF LowAdded
      <3> QED BY ONLY <3>2, BlocksAssumption, MapAddLow
    <2>4. ASSUME ~ Double(n) PROVE FileMap(t2, tops, lg, f, home2)
      <3>1. MidAt(t, tops, lg, i, j) = 0 /\ m = tops[i]
        BY <1>4, <2>1, <2>2, <2>4 DEF MidAt, Word
      <3>2. MidAdded(t, tops, lg, f, home, i, j, b, t2, home2)
        BY ONLY <2>1, <2>4, <3>1, <1>4, <1>9, <1>x DEF MidAdded
      <3> QED BY ONLY <3>2, BlocksAssumption, MapAddMid
    <2>5. FileMap(t2, tops, lg, f, home2) BY <2>3, <2>4
    <2> QED BY <2>5, <1>1 DEF lg, tops, t, t2
  <1>13. /\ OfFile(f, home2[b]) /\ \A y \in Block : home2[y] \in Places
         /\ \A y \in Block : y # b => home2[y] = home[y] \/ (OfFile(f, home[y]) /\ OfFile(f, home2[y]))
         /\ \A g \in File : g # f => addr'[g] = addr[g] /\ large'[g] = large[g]
         /\ \A y \in Block : store'[y] = store[y] \/ y = b \/ OfFile(f, home[y])
    BY <1>1, <1>3, <1>6, <1>9, <1>10
  <1>14. Placed(home, p, f, b, Idle, home2)
    <2>1. /\ u[p].pc \in Returns /\ b = u[p].bno /\ u[p].bno # 0 /\ f = u[p].f
          /\ u' = [u EXCEPT ![p] = Idle] /\ Idle \in Regs /\ Idle.pc \in {"user", "large", "double", "single"}
          /\ Idle.f \in {0, f} /\ Idle.todo = <<>> /\ (~ Idle.fresh \/ Idle.tab = b)
          /\ sfree' = sfree /\ flock' = flock /\ large' \in [File -> BOOLEAN] /\ addr' \in [File -> [Rows -> Cells]]
          /\ Whole(store') BY <1>1, <1>3, <1>5, <1>6 DEF f, b
    <2> QED BY <2>1, <1>5, <1>11, <1>13 DEF Placed
  <1> QED BY <1>2, <1>3, <1>14, PlaceNext

LEMMA ConvertGood ==
    ASSUME BlocksAssumption, Good, NEW p \in Proc, Convert(p) PROVE Good'
  <1> DEFINE f == u[p].f
             b == u[p].bno
             r == [[u[p] EXCEPT !.pc = "large"] EXCEPT !.bno = 0]
             new == [k \in Cols |-> IF k < NADDR THEN addr[f][k] ELSE 0]
             row == [i \in Rows |-> IF i = 0 THEN b ELSE 0]
             At0(y) == \E i \in Rows : addr[f][i] = y
             RowOf(y) == CHOOSE i \in Rows : addr[f][i] = y
             home2(home) == [y \in Block |-> IF y = b THEN TopOf(f, 0) ELSE IF At0(y) THEN MidOf(f, 0, RowOf(y)) ELSE home[y]]
  <1>1. /\ u[p].pc = "convert" /\ b # 0 /\ u' = [u EXCEPT ![p] = r]
        /\ store' = [store EXCEPT ![b] = new] /\ addr' = [addr EXCEPT ![f] = row]
        /\ large' = [large EXCEPT ![f] = TRUE]
        /\ sfree' = sfree /\ flock' = flock BY DEF Convert, At, Goes, To, Cols, Rows
  <1>2. PICK home : Homed(home) BY DEF Good
  <1>3. /\ u[p] \in Regs /\ f \in File /\ f # 0 /\ b \in Block /\ u[p].bn \in Bns
        /\ home[b] = HandOf(p) /\ ~ OfFile(f, home[b])
        /\ addr[f] \in [Rows -> Cells] /\ large[f] \in BOOLEAN
        /\ FileMap(Holds, addr[f], large[f], f, home)
        /\ Local(u[p], addr[f], large[f], Holds) /\ Stage(u[p]) = u[p].pc
        /\ u[p].fresh = FALSE /\ u[p].todo = <<>> /\ u[p].pc \in Returns
        /\ Whole(store) /\ addr \in [File -> [Rows -> Cells]] /\ large \in [File -> BOOLEAN]
    BY <1>1, <1>2, InHand1 DEF Returns, Whole
  <1>4. large[f] = FALSE /\ b \in Cells /\ 0 \in Cells /\ 0 \in Rows /\ Rows \subseteq Cols
    BY <1>1, <1>3, Indices DEF Local
  <1>5. /\ r \in Regs /\ r.f = f /\ r.bn = u[p].bn /\ r.todo = <<>> /\ r.fresh = FALSE /\ r.pc = "large"
    BY <1>3, <1>4 DEF Regs, AllPcs
  <1>n. new \in Tables /\ \A k \in Cols : new[k] = IF k < NADDR THEN addr[f][k] ELSE 0
    <2>1. \A k \in Cols : k < NADDR => k \in Rows BY DEF Rows, Cols, BlocksAssumption
    <2>2. \A k \in Cols : (IF k < NADDR THEN addr[f][k] ELSE 0) \in Cells
      BY <1>3, <1>4, <2>1
    <2> QED BY <2>2 DEF Tables
  <1>w. row \in [Rows -> Cells] /\ \A i \in Rows : row[i] = IF i = 0 THEN b ELSE 0 BY <1>4
  <1> DEFINE h2 == home2(home)
  <1>9. \A y \in Block : h2[y] = IF y = b THEN TopOf(f, 0) ELSE IF At0(y) THEN MidOf(f, 0, RowOf(y)) ELSE home[y]
    OBVIOUS
  <1>o. \A y : At0(y) => RowOf(y) \in Rows /\ addr[f][RowOf(y)] = y OBVIOUS
  <1>a. \A y : At0(y) <=> \E i \in Rows : addr[f][i] = y OBVIOUS
  <1> HIDE DEF f, b, r, new, row, At0, RowOf, home2, h2
  <1>6. /\ addr' \in [File -> [Rows -> Cells]] /\ addr'[f] = row
        /\ large' \in [File -> BOOLEAN] /\ large'[f] = TRUE
        /\ \A g \in File : g # f => addr'[g] = addr[g] /\ large'[g] = large[g]
    BY <1>1, <1>3, <1>w
  <1>7. u'[p] = r /\ \A q \in Proc : q # p => u'[q] = u[q] BY <1>1 DEF Good, Types
  <1>s. /\ Whole(store') /\ store'[b] = new /\ \A y \in Block : y # b => store'[y] = store[y]
    BY <1>1, <1>3 DEF Whole
  <1>8. Holds'[b] = new BY <1>2, <1>3, <1>5, <1>7, <1>s, MyHolds DEF Good
  <1>h. /\ \A i \in Rows : addr[f][i] # 0 => addr[f][i] \in Block /\ home[addr[f][i]] = TopOf(f, i) /\ OfFile(f, home[addr[f][i]])
        /\ \A y \in Block : \A i \in Rows : addr[f][i] = y => home[y] = TopOf(f, i)
    <2>1. AtHome(Holds, addr[f], large[f], f, home) BY <1>3, MapBlocks
    <2> QED BY <1>3, <2>1 DEF AtHome, FileMap
  <1>c. \A i \in Rows : addr[f][i] # 0 => h2[addr[f][i]] = MidOf(f, 0, i)
    <2> SUFFICES ASSUME NEW i \in Rows, addr[f][i] # 0 PROVE h2[addr[f][i]] = MidOf(f, 0, i)
      OBVIOUS
    <2> DEFINE y == addr[f][i]
    <2>1. y \in Block /\ y # b /\ home[y] = TopOf(f, i) /\ At0(y) BY <1>3, <1>a, <1>h
    <2>2. RowOf(y) \in Rows /\ addr[f][RowOf(y)] = y BY <1>o, <2>1
    <2>3. home[y] = TopOf(f, RowOf(y)) BY <1>h, <2>1, <2>2
    <2> HIDE DEF y
    <2>4. RowOf(y) = i
      <3>1. TopOf(f, i) = TopOf(f, RowOf(y)) BY ONLY <2>1, <2>3
      <3> QED BY ONLY <3>1 DEF TopOf
    <2>5. h2[y] = MidOf(f, 0, i) BY <1>9, <2>1, <2>4
    <2> QED BY <2>5 DEF y
  <1>11. FileMap(Holds', addr'[f], large'[f], f, h2)
    <2> DEFINE lg == large[f]
               tops == addr[f]
               t == Holds
               t2 == Holds'
               tops2 == addr'[f]
               lg2 == large'[f]
    <2>1. /\ lg \in BOOLEAN /\ lg # TRUE /\ FileMap(t, tops, lg, f, home)
          /\ lg2 \in BOOLEAN /\ lg2 # FALSE /\ b \in Block /\ ~ OfFile(f, home[b])
          /\ t2[b] \in Tables /\ \A k \in Cols : t2[b][k] = IF k < NADDR THEN tops[k] ELSE 0
          /\ tops2 \in [Rows -> Cells] /\ \A i \in Rows : tops2[i] = IF i = 0 THEN b ELSE 0
          /\ h2[b] = TopOf(f, 0)
          /\ \A i \in Rows : tops[i] # 0 => h2[tops[i]] = MidOf(f, 0, i)
          /\ \A x \in Block : x # b /\ (\A i \in Rows : tops[i] # x) => h2[x] = home[x]
      <3>1. lg \in BOOLEAN /\ lg # TRUE /\ FileMap(t, tops, lg, f, home) /\ b \in Block /\ ~ OfFile(f, home[b])
        BY <1>3, <1>4
      <3>2. lg2 \in BOOLEAN /\ lg2 # FALSE BY <1>6
      <3>3. t2[b] \in Tables /\ \A k \in Cols : t2[b][k] = IF k < NADDR THEN tops[k] ELSE 0
        BY <1>8, <1>n
      <3>4. tops2 \in [Rows -> Cells] /\ \A i \in Rows : tops2[i] = IF i = 0 THEN b ELSE 0
        BY <1>6, <1>w
      <3>5. h2[b] = TopOf(f, 0) BY <1>3, <1>9
      <3>6. \A i \in Rows : tops[i] # 0 => h2[tops[i]] = MidOf(f, 0, i) BY <1>c
      <3>7. \A x \in Block : x # b /\ (\A i \in Rows : tops[i] # x) => h2[x] = home[x]
        BY <1>9, <1>a
      <3> QED BY ONLY <3>1, <3>2, <3>3, <3>4, <3>5, <3>6, <3>7
    <2> HIDE DEF lg, tops, t, t2, tops2, lg2
    <2>2. Converted(t, tops, lg, f, home, b, t2, tops2, lg2, h2) BY ONLY <2>1 DEF Converted
    <2>3. FileMap(t2, tops2, lg2, f, h2) BY ONLY <2>2, BlocksAssumption, MapConvert
    <2> QED BY <2>3 DEF t2, tops2, lg2
  <1>12. Local(r, addr'[f], large'[f], Holds')
    BY <1>3, <1>5, <1>6 DEF Local, Stage, LockPcs, TruncPcs
  <1>13. /\ OfFile(f, h2[b]) /\ \A y \in Block : h2[y] \in Places
         /\ \A y \in Block : y # b => h2[y] = home[y] \/ (OfFile(f, home[y]) /\ OfFile(f, h2[y]))
    <2>1. OfFile(f, TopOf(f, 0)) /\ TopOf(f, 0) \in Places /\ \A y \in Block : home[y] \in Places
      BY <1>2, <1>3, <1>4, PlacesOfFiles DEF Places, Homed
    <2>2. \A i \in Rows : OfFile(f, MidOf(f, 0, i)) /\ MidOf(f, 0, i) \in Places
      BY <1>3, <1>4, PlacesOfFiles DEF Places
    <2>3. h2[b] = TopOf(f, 0) BY <1>3, <1>9
    <2>4. ASSUME NEW y \in Block, y # b
          PROVE  /\ h2[y] \in Places
                 /\ h2[y] = home[y] \/ (OfFile(f, home[y]) /\ OfFile(f, h2[y]))
      <3>1. CASE At0(y)
        <4>1. h2[y] = MidOf(f, 0, RowOf(y)) /\ RowOf(y) \in Rows /\ addr[f][RowOf(y)] = y
          BY <1>9, <1>o, <2>4, <3>1
        <4>2. home[y] = TopOf(f, RowOf(y)) BY <1>h, <4>1
        <4> QED BY <2>2, <4>1, <4>2, PlacesOfFiles
      <3>2. CASE ~ At0(y) BY <1>9, <2>1, <2>4, <3>2
      <3> QED BY <3>1, <3>2
    <2> QED BY <2>1, <2>3, <2>4
  <1>14. Placed(home, p, f, b, r, h2)
    <2>1. /\ u[p].pc \in Returns /\ b = u[p].bno /\ u[p].bno # 0 /\ f = u[p].f
          /\ u' = [u EXCEPT ![p] = r] /\ r \in Regs /\ r.pc \in {"user", "large", "double", "single"}
          /\ r.f \in {0, f} /\ r.todo = <<>> /\ (~ r.fresh \/ r.tab = b)
          /\ sfree' = sfree /\ flock' = flock /\ large' \in [File -> BOOLEAN] /\ addr' \in [File -> [Rows -> Cells]]
          /\ Whole(store') BY <1>1, <1>3, <1>5, <1>6, <1>s DEF f, b
    <2>2. Local(r, addr'[r.f], large'[r.f], Holds') BY <1>5, <1>12
    <2>3. /\ \A g \in File : g # f => addr'[g] = addr[g] /\ large'[g] = large[g]
          /\ \A y \in Block : store'[y] = store[y] \/ y = b \/ OfFile(f, home[y])
      BY <1>6, <1>s
    <2> QED BY <2>1, <2>2, <2>3, <1>11, <1>13 DEF Placed
  <1> QED BY <1>2, <1>3, <1>14, PlaceNext

-------------------------------------------------------------------------------
(* The steps of itrunc that take an address of the inode. *)
CutBy(p, f, r, k) ==
    /\ u' = [u EXCEPT ![p] = r] /\ r \in Regs /\ r.pc = "trunc" /\ r.f = f /\ ~ r.fresh /\ r.k = k
    /\ r.todo = Under(f, k) /\ k \in Rows
    /\ u[p].f \in {0, f} /\ ~ u[p].fresh /\ u[p].pc \notin HandPcs \cup LockPcs /\ u[p].todo = <<>>
    /\ \A q \in Proc : q # p => u[q].f # f
    /\ sfree' = sfree /\ flock' = flock /\ store' = store /\ large' = large
    /\ addr' \in [File -> [Rows -> Cells]] /\ \A g \in File : g # f => addr'[g] = addr[g]
    /\ Tops(f)[k] = addr[f][k] /\ \A i \in Rows : k < i => addr'[f][i] = 0
    /\ \A i \in Rows : Tops(f)'[i] = IF i = k THEN 0 ELSE Tops(f)[i]

LEMMA TopsTyped ==
    ASSUME BlocksAssumption, NEW f
    PROVE  /\ addr[f] \in [Rows -> Cells] => Tops(f) \in [Rows -> Cells]
           /\ addr'[f] \in [Rows -> Cells] => Tops(f)' \in [Rows -> Cells]
  <1>1. 0 \in Cells BY Indices
  <1>2. addr[f] \in [Rows -> Cells] => Tops(f) \in [Rows -> Cells] BY <1>1 DEF Tops
  <1>3. Rows' = Rows BY DEF Rows
  <1>4. addr'[f] \in [Rows -> Cells] => Tops(f)' \in [Rows -> Cells] BY <1>1, <1>3 DEF Tops
  <1> QED BY <1>2, <1>4

(* MapUnder, its hypotheses in one. *)
Kept(f, i, tops, home) ==
    large[f] \in BOOLEAN /\ FileMap(store, tops, large[f], f, home) /\ i \in Rows /\ tops[i] = addr[f][i]

LEMMA KeptUnder ==
    ASSUME BlocksAssumption, NEW f, NEW i, NEW tops, NEW home, Kept(f, i, tops, home)
    PROVE  /\ IsChain(Under(f, i), Block)
           /\ \A x \in Block : x \in Range(Under(f, i)) <=> UnderRow(f, i, home[x])
  <1>1. large[f] \in BOOLEAN /\ FileMap(store, tops, large[f], f, home) /\ i \in Rows /\ tops[i] = addr[f][i]
    BY DEF Kept
  <1> QED BY <1>1, MapUnder

(* No table of f is new in a process's hands: what is under an address. *)
LEMMA UnderChain ==
    ASSUME BlocksAssumption, Types, Alone, Found, NEW home, Homed(home), NEW f \in File,
           \A q \in Proc : u[q].f = f => ~ u[q].fresh, NEW k \in Rows, Tops(f)[k] = addr[f][k]
    PROVE  /\ IsChain(Under(f, k), Block)
           /\ \A y \in Block : y \in Range(Under(f, k)) <=> UnderRow(f, k, home[y])
  <1>1. FileMap(Holds, Tops(f), large[f], f, home) /\ large[f] \in BOOLEAN
    BY DEF Homed, Types
  <1>2. ASSUME NEW y \in Block, OfFile(f, home[y]) PROVE store[y] = Holds[y]
    <2>1. ASSUME NEW q \in Proc, u[q].fresh, u[q].tab = y PROVE FALSE
      <3>1. OfFile(u[q].f, home[y]) BY <2>1, FreshOwn
      <3> QED BY <1>2, <2>1, <3>1, OneOwner
    <2> QED BY <2>1 DEF Holds, Held
  <1> DEFINE lg == large[f]
             tops == Tops(f)
             t == Holds
  <1>3. lg \in BOOLEAN /\ FileMap(t, tops, lg, f, home) /\ (\A y \in Block : OfFile(f, home[y]) => store[y] = t[y])
        /\ \A y \in Block : home[y] = home[y] \/ (~ OfFile(f, home[y]) /\ ~ OfFile(f, home[y]))
    BY <1>1, <1>2
  <1>4. tops[k] = addr[f][k] OBVIOUS
  <1> HIDE DEF lg, tops, t
  <1>5. FileMap(store, tops, lg, f, home) BY ONLY <1>3, BlocksAssumption, MapFrame
  <1>6. Kept(f, k, tops, home) BY <1>1, <1>4, <1>5 DEF Kept, lg
  <1> QED BY ONLY <1>6, BlocksAssumption, KeptUnder

LEMMA CutNext ==
    ASSUME BlocksAssumption, Good, NEW p \in Proc, NEW f \in File, NEW r, NEW k, CutBy(p, f, r, k)
    PROVE  Good'
  <1>0. /\ u' = [u EXCEPT ![p] = r] /\ r \in Regs /\ r.pc = "trunc" /\ r.f = f /\ ~ r.fresh /\ r.k = k
        /\ r.todo = Under(f, k) /\ k \in Rows
        /\ u[p].f \in {0, f} /\ ~ u[p].fresh /\ u[p].pc \notin HandPcs \cup LockPcs /\ u[p].todo = <<>>
        /\ \A q \in Proc : q # p => u[q].f # f
        /\ sfree' = sfree /\ flock' = flock /\ store' = store /\ large' = large
        /\ addr' \in [File -> [Rows -> Cells]] /\ \A g \in File : g # f => addr'[g] = addr[g]
        /\ Tops(f)[k] = addr[f][k] /\ \A i \in Rows : k < i => addr'[f][i] = 0
        /\ \A i \in Rows : Tops(f)'[i] = IF i = k THEN 0 ELSE Tops(f)[i] BY DEF CutBy
  <1>1. Types /\ Alone /\ Locked /\ Found BY DEF Good
  <1>2. PICK home : Homed(home) BY DEF Good
  <1>3. f # 0 /\ large[f] \in BOOLEAN /\ large' \in [File -> BOOLEAN] /\ Whole(store') /\ flock' \in BOOLEAN
        /\ addr[f] \in [Rows -> Cells] /\ addr'[f] \in [Rows -> Cells]
    BY <1>0, <1>1 DEF BlocksAssumption, Types, Whole
  <1>4. /\ u'[p] = r /\ (\A q \in Proc : q # p => u'[q] = u[q])
        /\ Types'
    <2>1. p \in Proc /\ r \in Regs /\ u' = [u EXCEPT ![p] = r] /\ Types
          /\ flock' \in BOOLEAN /\ large' \in [File -> BOOLEAN] /\ addr' \in [File -> [Rows -> Cells]]
      BY <1>0, <1>1, <1>3
    <2>2. store' = [y \in Block |-> store'[y]] BY <1>3 DEF Whole
    <2> QED BY ONLY <2>1, <2>2, StepTypes
  <1>5. /\ r.pc \notin HandPcs /\ r.pc \notin LockPcs /\ r.pc \notin {"reload", "spilled"} /\ r.pc \in TruncPcs
        /\ u[p].pc \notin LockPcs /\ u[p].pc \notin {"reload", "spilled"} /\ u[p].pc \notin HandPcs
    BY <1>0 DEF HandPcs, LockPcs, TruncPcs, Returns
  <1>6. Locked' BY <1>0, <1>1, <1>4, <1>5, LockedNext
  <1>7. Holds' = Holds
    <2>1. \A b \in Block : u'[p].fresh /\ u'[p].tab = b <=> u[p].fresh /\ u[p].tab = b
      BY <1>0, <1>4
    <2> QED BY <1>0, <1>4, <2>1, SameHolds
  <1>8. \A y \in Block : home[y] # HandOf(p) /\ home[y] # ToFree(p) /\ home[y] \in Places
    <2>1. HandHome(home, p, u[p]) /\ TodoHome(home, p, u[p]) BY <1>2 DEF Homed
    <2>2. Range(u[p].todo) = {} BY <1>0, ChainOne
    <2>3. \A y \in Block : home[y] \in Places BY <1>2 DEF Homed
    <2> QED BY <1>5, <2>1, <2>2, <2>3 DEF HandHome, TodoHome
  <1>9. FileMap(Holds, Tops(f), large[f], f, home) BY <1>2 DEF Homed
  <1>10. IsChain(r.todo, Block) /\ \A y \in Block : y \in Range(r.todo) <=> UnderRow(f, k, home[y])
    <2>1. \A q \in Proc : u[q].f = f => ~ u[q].fresh BY <1>0
    <2>2. k \in Rows /\ Tops(f)[k] = addr[f][k] /\ r.todo = Under(f, k) BY <1>0
    <2>3. IsChain(Under(f, k), Block) /\ \A y \in Block : y \in Range(Under(f, k)) <=> UnderRow(f, k, home[y])
      BY ONLY <1>1, <1>2, <2>1, <2>2, BlocksAssumption, f \in File, UnderChain
    <2> QED BY <2>2, <2>3
  <1> DEFINE home2 == [y \in Block |-> IF UnderRow(f, k, home[y]) THEN ToFree(p) ELSE home[y]]
  <1>11. \A y \in Block : home2[y] = IF UnderRow(f, k, home[y]) THEN ToFree(p) ELSE home[y]
    OBVIOUS
  <1>12. ~ OfFile(f, ToFree(p)) /\ ToFree(p) \in Places /\ ToFree(p) # TheList /\ ToFree(p) # HandOf(p)
         /\ Mine(p, f, ToFree(p)) /\ \A x : UnderRow(f, k, x) => OfFile(f, x) /\ x # TheList
    <2>1. ToFree(p) \in Places /\ Mine(p, f, ToFree(p)) BY DEF Places, Mine
    <2>2. \A x : UnderRow(f, k, x) => OfFile(f, x) BY PlacesOfFiles DEF UnderRow
    <2> QED BY <2>1, <2>2, PlacesOfFiles, PlacesElsewhere
  <1> HIDE DEF home2
  <1>13. HandHome(home2, p, r) /\ TodoHome(home2, p, r)
    <2>1. HandHome(home2, p, r) BY <1>5, <1>8, <1>11, <1>12 DEF HandHome
    <2>2. \A y \in Block : y \in Range(r.todo) <=> home2[y] = ToFree(p)
      BY <1>8, <1>10, <1>11
    <2> QED BY <1>10, <2>1, <2>2 DEF TodoHome
  <1>14. Listed(store', Start', FreeHome(home2))
    <2>1. \A y \in Block : home2[y] = TheList <=> home[y] = TheList BY <1>11, <1>12
    <2>2. /\ p \in Proc /\ sfree' = sfree /\ Homed(home) /\ (\A q \in Proc : q # p => u'[q] = u[q])
          /\ u[p].pc \notin {"reload", "spilled"} /\ u'[p].pc \notin {"reload", "spilled"}
          /\ \A y \in Block : store'[y] = store[y] \/ (Mine(p, f, home[y]) /\ home[y] # TheList)
      BY <1>0, <1>2, <1>4, <1>5
    <2> QED BY ONLY BlocksAssumption, <1>1, <1>6, <2>1, <2>2, ListSame
  <1>15. FileMap(Holds', Tops(f)', large'[f], f, home2)
    <2> DEFINE lg == large[f]
               tops == Tops(f)
               tops2 == Tops(f)'
               t == Holds
    <2>1. lg \in BOOLEAN /\ FileMap(t, tops, lg, f, home) /\ k \in Rows
          /\ tops2 \in [Rows -> Cells] /\ (\A i \in Rows : tops2[i] = IF i = k THEN 0 ELSE tops[i])
          /\ \A y \in Block : IF UnderRow(f, k, home[y]) THEN ~ OfFile(f, home2[y]) ELSE home2[y] = home[y]
      <3>1. tops2 \in [Rows -> Cells] /\ (\A i \in Rows : tops2[i] = IF i = k THEN 0 ELSE tops[i])
        BY <1>0, <1>3, TopsTyped
      <3>2. \A y \in Block : IF UnderRow(f, k, home[y]) THEN ~ OfFile(f, home2[y]) ELSE home2[y] = home[y]
        BY <1>11, <1>12
      <3> QED BY <1>0, <1>3, <1>9, <3>1, <3>2
    <2> HIDE DEF lg, tops, tops2, t
    <2>2. FileMap(t, tops2, lg, f, home2) BY ONLY <2>1, BlocksAssumption, MapCut
    <2> QED BY <1>0, <1>7, <2>2 DEF t, tops2, lg
  <1>16. Local(u'[p], addr'[u'[p].f], large'[u'[p].f], Holds')
    <2>1. r.fresh = FALSE BY <1>0 DEF Regs
    <2>2. Local(r, addr'[f], large'[f], Holds')
      BY <1>0, <2>1 DEF Local, Stage, LockPcs, TruncPcs
    <2> QED BY <1>0, <1>4, <2>2
  <1>17. /\ \A y \in Block : home2[y] = home[y] \/ (Mine(p, f, home[y]) /\ Mine(p, f, home2[y]))
         /\ \A y \in Block : home2[y] \in Places
         /\ \A y \in Block : Holds'[y] = Holds[y] \/ Mine(p, f, home[y])
    BY <1>7, <1>8, <1>11, <1>12 DEF Mine
  <1>18. /\ Homed(home) /\ p \in Proc /\ f \in File
         /\ \A q \in Proc : q # p => u'[q] = u[q] /\ u[q].f # f
         /\ u[p].f \in {0, f} /\ u'[p].f \in {0, f}
         /\ \A g \in File : g # f => addr'[g] = addr[g] /\ large'[g] = large[g]
         /\ HandHome(home2, p, u'[p]) /\ TodoHome(home2, p, u'[p])
    BY <1>0, <1>2, <1>4, <1>13
  <1> QED BY ONLY BlocksAssumption, <1>1, <1>4, <1>6, <1>14, <1>15, <1>16, <1>17, <1>18, GoodNext

LEMMA itruncGood ==
    ASSUME BlocksAssumption, Good, NEW p \in Proc, NEW f \in File, itrunc(p, f) PROVE Good'
  <1> DEFINE r == [Idle EXCEPT !.pc = "trunc", !.f = f, !.k = LastRow, !.todo = Under(f, LastRow)]
             k == LastRow
  <1>1. /\ u[p].pc = "user" /\ (\A q \in Proc : u[q].f # f) /\ u' = [u EXCEPT ![p] = r]
        /\ sfree' = sfree /\ flock' = flock /\ store' = store /\ addr' = addr /\ large' = large
    BY DEF itrunc, At, Busy, Goes, disk, LastRow
  <1>2. u[p] = Idle BY <1>1 DEF Good, Found, Local
  <1>3. Types /\ Alone /\ Found BY DEF Good
  <1>4. addr[f] \in [Rows -> Cells] /\ addr \in [File -> [Rows -> Cells]] /\ f # 0 /\ k \in Rows
    BY <1>3, Indices DEF Types, BlocksAssumption
  <1>5. PICK home : Homed(home) BY DEF Good
  <1>6. Tops(f) = addr[f] BY <1>1, <1>3, WholeTops
  <1>7. Under(f, k) \in Seq(Block)
    <2>1. (\A q \in Proc : u[q].f = f => ~ u[q].fresh) /\ Tops(f)[k] = addr[f][k]
      BY <1>1, <1>6
    <2> QED BY ONLY <1>3, <1>4, <1>5, <2>1, BlocksAssumption, f \in File, UnderChain DEF IsChain
  <1>8. /\ Idle \in Regs /\ Idle.f = 0 /\ Idle.fresh = FALSE /\ Idle.todo = <<>> /\ Idle.pc = "user"
    BY LocalIdle DEF Idle, NoFile
  <1>9. /\ r \in Regs /\ r.pc = "trunc" /\ r.f = f /\ r.fresh = FALSE /\ r.k = k /\ r.todo = Under(f, k)
    <2> DEFINE todo == Under(f, k)
    <2>1. todo \in Seq(Block) /\ r = [Idle EXCEPT !.pc = "trunc", !.f = f, !.k = LastRow, !.todo = todo]
      BY <1>7
    <2> HIDE DEF todo, r
    <2>2. /\ r \in Regs /\ r.pc = "trunc" /\ r.f = f /\ r.fresh = FALSE /\ r.k = k /\ r.todo = todo
      BY <1>4, <1>8, <2>1 DEF Regs, AllPcs
    <2> QED BY <2>2 DEF todo
  <1> HIDE DEF r
  <1>10. \A i \in Rows : ~ (k < i) BY DEF Rows, LastRow, BlocksAssumption
  <1>11. \A i \in Rows : Tops(f)'[i] = IF i = k THEN 0 ELSE Tops(f)[i]
    <2>1. u'[p] = r /\ \A q \in Proc : q # p => u'[q] = u[q] BY <1>1, <1>3, <1>9 DEF Types
    <2>2. \A i \in Rows : Cut(f, i)' <=> i = k
      <3>1. \A i \in Rows : k <= i <=> i = k BY DEF Rows, LastRow, BlocksAssumption
      <3>2. \A q \in Proc : u'[q].f = f <=> q = p BY <1>1, <1>9, <2>1
      <3>3. r.pc \in TruncPcs BY <1>9 DEF TruncPcs
      <3> HIDE DEF k
      <3> QED BY <1>9, <2>1, <3>1, <3>2, <3>3 DEF Cut
    <2> HIDE DEF k
    <2>3. \A i \in Rows : Tops(f)'[i] = IF Cut(f, i)' THEN 0 ELSE addr'[f][i]
      BY DEF Tops, Rows
    <2> QED BY <1>1, <1>6, <2>2, <2>3
  <1>12. u[p].f = 0 /\ u[p].fresh = FALSE /\ u[p].todo = <<>> /\ u[p].pc \notin HandPcs \cup LockPcs
    BY <1>2, <1>8 DEF HandPcs, LockPcs, Returns
  <1>13. CutBy(p, f, r, k) BY <1>1, <1>4, <1>6, <1>9, <1>10, <1>11, <1>12 DEF CutBy
  <1> QED BY <1>13, CutNext

-------------------------------------------------------------------------------
(* itrunc goes to the address before. *)
LEMMA TruncCuts ==
    ASSUME BlocksAssumption, Good, NEW p \in Proc, Trunc(p), u[p].todo = <<>>, u[p].k # 0, NEW f, u[p].f = f
    PROVE  Good'
  <1> DEFINE k == u[p].k - 1
             r == [u[p] EXCEPT !.k = u[p].k - 1, !.todo = Under(f, k)]
  <1>1. /\ u[p].pc = "trunc" /\ u' = [u EXCEPT ![p] = r] /\ sfree' = sfree /\ flock' = flock
        /\ store' = store /\ addr' = [addr EXCEPT ![f][u[p].k] = 0] /\ large' = large
    BY DEF Trunc, At, Goes
  <1>2. PICK home : Homed(home) BY DEF Good
  <1>3. Types /\ Alone /\ Locked /\ Found BY DEF Good
  <1>4. /\ u[p].pc # "user" /\ u[p] \in Regs /\ u[p].pc \in TruncPcs /\ u[p].fresh = FALSE
    BY <1>1, <1>2, TruncRegs DEF TruncPcs
  <1>5. /\ f \in File /\ f # 0 /\ addr[f] \in [Rows -> Cells] /\ (\A q \in Proc : q # p => u[q].f # f)
        /\ Local(u[p], addr[f], large[f], Holds) BY <1>3, <1>4, AtWork
  <1>6. u[p].k \in Rows /\ k \in Rows /\ u[p].k = k + 1 /\ k \in Int
    <2>1. u[p].k \in Rows BY <1>4 DEF Regs
    <2> QED BY <2>1 DEF Rows, BlocksAssumption
  <1>7. \A i \in Rows : u[p].k < i => addr[f][i] = 0 BY <1>4, <1>5 DEF Local
  <1>8. \A i \in Rows : Cut(f, i) <=> u[p].k <= i BY <1>4, <1>5 DEF Cut
  <1>9. \A i \in Rows : Tops(f)[i] = IF u[p].k <= i THEN 0 ELSE addr[f][i] BY <1>8 DEF Tops
  <1>10. Tops(f)[k] = addr[f][k] BY <1>6, <1>9
  <1>11. Under(f, k) \in Seq(Block)
    <2>1. (\A q \in Proc : u[q].f = f => ~ u[q].fresh) /\ f \in File BY <1>4, <1>5
    <2> HIDE DEF k
    <2> QED BY ONLY <1>2, <1>3, <1>6, <1>10, <2>1, BlocksAssumption, UnderChain DEF IsChain
  <1>12. /\ r \in Regs /\ r.pc = "trunc" /\ r.f = f /\ ~ r.fresh /\ r.k = k /\ r.todo = Under(f, k)
    <2> DEFINE todo == Under(f, k)
    <2>1. todo \in Seq(Block) /\ r = [u[p] EXCEPT !.k = k, !.todo = todo] BY <1>11
    <2> HIDE DEF todo, r, k
    <2>2. /\ r \in Regs /\ r.pc = "trunc" /\ r.f = f /\ ~ r.fresh /\ r.k = k /\ r.todo = todo
      BY <1>1, <1>4, <1>6, <2>1 DEF Regs
    <2> QED BY <2>2 DEF todo
  <1> HIDE DEF r
  <1>13. /\ addr' \in [File -> [Rows -> Cells]] /\ (\A g \in File : g # f => addr'[g] = addr[g])
         /\ \A i \in Rows : addr'[f][i] = IF i = u[p].k THEN 0 ELSE addr[f][i]
    <2>1. addr \in [File -> [Rows -> Cells]] /\ 0 \in Cells BY <1>3, Indices DEF Types
    <2> QED BY <1>1, <1>5, <1>6, <2>1
  <1>14. \A i \in Rows : Tops(f)'[i] = IF i = k THEN 0 ELSE Tops(f)[i]
    <2>1. u'[p] = r /\ \A q \in Proc : q # p => u'[q] = u[q] BY <1>1, <1>3, <1>12 DEF Types
    <2>2. r.pc \in TruncPcs BY <1>12 DEF TruncPcs
    <2>3. \A q \in Proc : u'[q].f = f <=> q = p BY <1>5, <1>12, <2>1
    <2>4. \A i \in Rows : Cut(f, i)' <=> k <= i BY <1>12, <2>1, <2>2, <2>3 DEF Cut
    <2> SUFFICES ASSUME NEW i \in Rows PROVE Tops(f)'[i] = IF i = k THEN 0 ELSE Tops(f)[i]
      OBVIOUS
    <2>6. Tops(f)'[i] = IF k <= i THEN 0 ELSE addr'[f][i] BY <2>4 DEF Tops, Rows
    <2>7. i \in Int BY DEF Rows
    <2> HIDE DEF k
    <2> QED BY <1>6, <1>9, <1>13, <2>6, <2>7
  <1>15. \A i \in Rows : k < i => addr'[f][i] = 0
    <2> SUFFICES ASSUME NEW i \in Rows, k < i PROVE addr'[f][i] = 0 OBVIOUS
    <2> DEFINE m == u[p].k
    <2>1. i \in Int /\ k \in Int /\ m = k + 1 BY <1>6 DEF Rows
    <2>2. m < i => addr[f][i] = 0 BY <1>7
    <2>3. addr'[f][i] = IF i = m THEN 0 ELSE addr[f][i] BY <1>13
    <2> HIDE DEF k, m
    <2>4. i = m \/ m < i BY <2>1
    <2> QED BY <2>2, <2>3, <2>4
  <1>16. u[p].pc \notin HandPcs \cup LockPcs BY <1>1 DEF HandPcs, LockPcs, Returns
  <1> HIDE DEF k
  <1>17. CutBy(p, f, r, k)
    BY <1>1, <1>4, <1>5, <1>6, <1>10, <1>12, <1>13, <1>14, <1>15, <1>16 DEF CutBy
  <1> QED BY <1>5, <1>17, CutNext

(* itrunc has freed all that the file had. *)
LEMMA TruncEnds ==
    ASSUME BlocksAssumption, Good, NEW p \in Proc, Trunc(p), u[p].todo = <<>>, u[p].k = 0, NEW f, u[p].f = f
    PROVE  Good'
  <1>1. /\ u[p].pc = "trunc" /\ u' = [u EXCEPT ![p] = Idle] /\ sfree' = sfree /\ flock' = flock
        /\ store' = store /\ addr' = [addr EXCEPT ![f][0] = 0] /\ large' = [large EXCEPT ![f] = FALSE]
    BY DEF Trunc, At, Goes
  <1>2. PICK home : Homed(home) BY DEF Good
  <1>3. Types /\ Alone /\ Locked /\ Found BY DEF Good
  <1>4. /\ u[p].pc # "user" /\ u[p] \in Regs /\ u[p].pc \in TruncPcs /\ u[p].fresh = FALSE
        /\ HandHome(home, p, u[p]) /\ TodoHome(home, p, u[p])
    BY <1>1, <1>2, TruncRegs DEF TruncPcs
  <1>5. /\ f \in File /\ f # 0 /\ addr[f] \in [Rows -> Cells] /\ (\A q \in Proc : q # p => u[q].f # f)
        /\ Local(u[p], addr[f], large[f], Holds) BY <1>3, <1>4, AtWork
  <1>6. /\ Idle \in Regs /\ Idle.f = 0 /\ Idle.fresh = FALSE /\ Idle.todo = <<>> /\ Idle.pc = "user"
    BY LocalIdle DEF Idle, NoFile
  <1>7. /\ addr' \in [File -> [Rows -> Cells]] /\ (\A g \in File : g # f => addr'[g] = addr[g])
        /\ (\A i \in Rows : addr'[f][i] = IF i = 0 THEN 0 ELSE addr[f][i])
        /\ large' \in [File -> BOOLEAN] /\ large'[f] = FALSE /\ \A g \in File : g # f => large'[g] = large[g]
    <2>1. addr \in [File -> [Rows -> Cells]] /\ 0 \in Cells /\ 0 \in Rows /\ large \in [File -> BOOLEAN]
      BY <1>3, Indices DEF Types
    <2> QED BY <1>1, <1>5, <2>1
  <1>8. /\ u'[p] = Idle /\ (\A q \in Proc : q # p => u'[q] = u[q])
        /\ Types'
    <2>1. p \in Proc /\ Idle \in Regs /\ u' = [u EXCEPT ![p] = Idle] /\ Types
          /\ flock' \in BOOLEAN /\ large' \in [File -> BOOLEAN] /\ addr' \in [File -> [Rows -> Cells]]
          /\ store' = [y \in Block |-> store'[y]] BY <1>1, <1>3, <1>6, <1>7 DEF Types
    <2> QED BY ONLY <2>1, StepTypes
  <1>9. /\ Idle.pc \notin HandPcs /\ Idle.pc \notin LockPcs /\ Idle.pc \notin {"reload", "spilled"} /\ Idle.pc \notin TruncPcs
        /\ u[p].pc \notin LockPcs /\ u[p].pc \notin {"reload", "spilled"} /\ u[p].pc \notin HandPcs
    BY <1>1, <1>6 DEF HandPcs, LockPcs, TruncPcs, Returns
  <1>10. Locked' BY <1>1, <1>3, <1>8, <1>9, LockedNext
  <1>11. Holds' = Holds
    <2>1. \A b \in Block : u'[p].fresh /\ u'[p].tab = b <=> u[p].fresh /\ u[p].tab = b
      BY <1>4, <1>6, <1>8
    <2> QED BY <1>1, <1>8, <2>1, SameHolds
  <1>12. HandHome(home, p, Idle) /\ TodoHome(home, p, Idle)
    <2>1. \A y \in Block : home[y] # HandOf(p) BY <1>4, <1>9 DEF HandHome
    <2>2. \A y \in Block : home[y] # ToFree(p) BY <1>4, ChainOne DEF TodoHome
    <2> QED BY <2>1, <2>2, LocalIdle
  <1>13. Listed(store', Start', FreeHome(home))
    <2>1. /\ p \in Proc /\ sfree' = sfree /\ Homed(home) /\ (\A q \in Proc : q # p => u'[q] = u[q])
          /\ u[p].pc \notin {"reload", "spilled"} /\ u'[p].pc \notin {"reload", "spilled"}
          /\ \A y \in Block : store'[y] = store[y] \/ (Mine(p, f, home[y]) /\ home[y] # TheList)
      BY <1>1, <1>2, <1>8, <1>9
    <2>2. \A y \in Block : home[y] = TheList <=> home[y] = TheList OBVIOUS
    <2> QED BY ONLY BlocksAssumption, <1>3, <1>10, <2>1, <2>2, ListSame
  <1>14. \A i \in Rows : Tops(f)[i] = 0 /\ Tops(f)'[i] = 0
    <2> SUFFICES ASSUME NEW i \in Rows PROVE Tops(f)[i] = 0 /\ Tops(f)'[i] = 0 OBVIOUS
    <2>1. i >= 0 /\ i \in Int BY DEF Rows
    <2>2. Cut(f, i) BY <1>4, <2>1 DEF Cut
    <2>3. addr'[f][i] = 0
      <3>1. u[p].k < i => addr[f][i] = 0 BY <1>4, <1>5 DEF Local
      <3> QED BY <1>7, <2>1, <3>1
    <2>4. Tops(f)'[i] = IF Cut(f, i)' THEN 0 ELSE addr'[f][i] BY DEF Tops, Rows
    <2> QED BY <2>2, <2>3, <2>4 DEF Tops
  <1>15. FileMap(Holds', Tops(f)', large'[f], f, home)
    <2>1. FileMap(Holds, Tops(f), large[f], f, home) /\ large[f] \in BOOLEAN
      BY <1>2, <1>3, <1>5 DEF Homed, Types
    <2>2. Tops(f)' = Tops(f)
      <3>1. Tops(f) = [i \in Rows |-> Tops(f)[i]] /\ Tops(f)' = [i \in Rows |-> Tops(f)'[i]]
        BY DEF Tops, Rows
      <3> QED BY <1>14, <3>1
    <2> DEFINE lg == large[f]
               lg2 == large'[f]
               tops == Tops(f)
               t == Holds
    <2>3. /\ lg \in BOOLEAN /\ lg2 \in BOOLEAN /\ FileMap(t, tops, lg, f, home) /\ \A i \in Rows : tops[i] = 0
      BY <1>7, <1>14, <2>1
    <2> HIDE DEF lg, lg2, tops, t
    <2>4. FileMap(t, tops, lg2, f, home) BY ONLY <2>3, BlocksAssumption, MapNone
    <2> QED BY <1>11, <2>2, <2>4 DEF t, tops, lg2
  <1>16. Local(u'[p], addr'[u'[p].f], large'[u'[p].f], Holds') BY <1>8, LocalIdle
  <1>17. /\ \A y \in Block : home[y] = home[y] \/ (Mine(p, f, home[y]) /\ Mine(p, f, home[y]))
         /\ \A y \in Block : home[y] \in Places
         /\ \A y \in Block : Holds'[y] = Holds[y] \/ Mine(p, f, home[y])
    BY <1>2, <1>11 DEF Homed
  <1>18. /\ Homed(home) /\ p \in Proc /\ f \in File
         /\ \A q \in Proc : q # p => u'[q] = u[q] /\ u[q].f # f
         /\ u[p].f \in {0, f} /\ u'[p].f \in {0, f}
         /\ \A g \in File : g # f => addr'[g] = addr[g] /\ large'[g] = large[g]
         /\ HandHome(home, p, u'[p]) /\ TodoHome(home, p, u'[p])
    BY <1>2, <1>5, <1>6, <1>7, <1>8, <1>12
  <1> QED BY ONLY BlocksAssumption, <1>3, <1>8, <1>10, <1>13, <1>15, <1>16, <1>17, <1>18, GoodNext

-------------------------------------------------------------------------------
(* Every step keeps the invariant. *)
LEMMA TruncGood ==
    ASSUME BlocksAssumption, Good, NEW p \in Proc, Trunc(p) PROVE Good'
  <1>1. PICK f : u[p].f = f OBVIOUS
  <1>2. CASE u[p].todo # <<>> BY <1>2, TruncFrees
  <1>3. CASE u[p].todo = <<>> /\ u[p].k # 0 BY <1>1, <1>3, TruncCuts
  <1>4. CASE u[p].todo = <<>> /\ u[p].k = 0 BY <1>1, <1>4, TruncEnds
  <1> QED BY <1>2, <1>3, <1>4

LEMMA StepGood ==
    ASSUME BlocksAssumption, Good, NEW p \in Proc, Step(p), ~ stale' PROVE Good'
  <1>1. CASE alloc(p) BY <1>1, allocGood
  <1>2. CASE Reload(p) BY <1>2, ReloadGood
  <1>3. CASE free(p) BY <1>3, freeGood
  <1>4. CASE Spill(p) BY <1>4, SpillGood
  <1>5. CASE Spilled(p) BY <1>5, SpilledGood
  <1>6. CASE Small(p) BY <1>6, SmallGood
  <1>7. CASE Convert(p) BY <1>7, ConvertGood
  <1>8. CASE Large(p) BY <1>8, LargeGood
  <1>9. CASE Indirect(p) BY <1>9, IndirectGood
  <1>10. CASE DoubleFetch(p) BY <1>10, DoubleFetchGood
  <1>11. CASE Second(p) BY <1>11, SecondGood
  <1>12. CASE Single(p) BY <1>12, SingleGood
  <1>13. CASE Data(p) BY <1>13, DataGood
  <1>14. CASE Trunc(p) BY <1>14, TruncGood
  <1>15. CASE \E l \in Returns : NoSpace(p, l) BY <1>15, NoSpaceGood
  <1>16. CASE \E f \in File : itrunc(p, f) BY <1>16, itruncGood
  <1>17. CASE \E f \in File : \E n \in Bns : writei(p, f, n) BY <1>17, writeiGood
  <1> QED
    BY <1>1, <1>2, <1>3, <1>4, <1>5, <1>6, <1>7, <1>8, <1>9, <1>10, <1>11, <1>12, <1>13, <1>14, <1>15, <1>16,
       <1>17 DEF Step

(* No step follows a stale block. *)
LEMMA StepStale ==
    ASSUME NEW p \in Proc, Step(p), stale \in BOOLEAN PROVE ~ stale /\ stale' \in BOOLEAN
  <1>1. CASE alloc(p) \/ Reload(p) \/ free(p) \/ Spill(p) \/ Spilled(p)
    BY <1>1 DEF alloc, Reload, free, Spill, Spilled, At
  <1>2. CASE Small(p) \/ Convert(p) \/ Large(p) \/ Indirect(p) \/ DoubleFetch(p) \/ Second(p)
    BY <1>2 DEF Small, Convert, Large, Indirect, DoubleFetch, Second, At
  <1>3. CASE Single(p) \/ Data(p) \/ Trunc(p) BY <1>3 DEF Single, Data, Trunc, At
  <1>4. CASE \E l \in Returns : NoSpace(p, l) BY <1>4 DEF NoSpace, At
  <1>5. CASE \E f \in File : itrunc(p, f) \/ \E n \in Bns : writei(p, f, n)
    BY <1>5 DEF itrunc, writei, At
  <1> QED BY <1>1, <1>2, <1>3, <1>4, <1>5 DEF Step

LEMMA BlocksStutter ==
    ASSUME BlocksInv, UNCHANGED vars PROVE BlocksInv'
  <1>1. /\ sfree' = sfree /\ flock' = flock /\ store' = store /\ addr' = addr /\ large' = large /\ u' = u /\ stale' = stale
    BY DEF vars
  <1>2. SUFFICES ASSUME Good PROVE Good' BY <1>1 DEF BlocksInv
  <1>3. Holds' = Holds BY <1>1 DEF Holds, Held, Zeros, Block
  <1>4. Start' = Start BY <1>1 DEF Start, Holder
  <1>5. \A f \in File : Tops(f)' = Tops(f) BY <1>1 DEF Tops, Cut, Rows
  <1>6. Types'
    BY <1>1, <1>2 DEF Good, Types, Regs, Block, Rows, Cells, AllPcs, HandPcs, Returns
  <1>7. Alone' /\ Locked' BY <1>1, <1>2 DEF Good, Alone, Locked
  <1>8. Found' BY <1>1, <1>2, <1>3 DEF Good, Found
  <1>9. PICK home : Homed(home) BY <1>2 DEF Good
  <1>10. Homed(home)'
    <2>1. Places' = Places /\ Block' = Block /\ FreeHome(home)' = FreeHome(home)
      BY DEF Places, TheList, HandOf, ToFree, TopOf, MidOf, LowOf, Rows, Cols, FreeHome, Block
    <2> QED BY <1>1, <1>3, <1>4, <1>5, <1>9, <2>1 DEF Homed
  <1> QED BY <1>6, <1>7, <1>8, <1>10 DEF Good

LEMMA BlocksNext ==
    ASSUME BlocksAssumption, BlocksInv, [Next]_vars PROVE BlocksInv'
  <1>1. CASE UNCHANGED vars BY <1>1, BlocksStutter
  <1>2. CASE Next
    <2>1. PICK p \in Proc : Step(p) BY <1>2 DEF Next
    <2>2. ~ stale /\ stale' \in BOOLEAN BY <2>1, StepStale DEF BlocksInv
    <2> QED BY <2>1, <2>2, StepGood DEF BlocksInv
  <1> QED BY <1>1, <1>2

-------------------------------------------------------------------------------
(* At first all blocks are in the list. *)
LEMMA OneDivision ==
    ASSUME NEW c \in Nat \ {0}, NEW a \in Int, NEW b \in Int, NEW d \in 0 .. c - 1, NEW e \in 0 .. c - 1,
           c * a + d = c * b + e PROVE a = b /\ d = e
  <1>1. ASSUME NEW x \in Int, NEW y \in Int, x < y, NEW g \in 0 .. c - 1, NEW h \in 0 .. c - 1
        PROVE  c * x + g # c * y + h
    <2> DEFINE z == y - x
    <2>1. z \in Int /\ z >= 1 /\ y = x + z BY <1>1
    <2> HIDE DEF z
    <2>2. c * z >= c /\ c * z \in Int BY <2>1
    <2>3. c * y = c * x + c * z /\ c * x \in Int BY <2>1
    <2> QED BY <2>2, <2>3
  <1>2. ~ (a < b) BY <1>1
  <1>3. ~ (b < a) BY <1>1
  <1>4. a = b BY <1>2, <1>3
  <1> QED BY <1>4

LEMMA ListInit ==
    ASSUME BlocksAssumption, Init PROVE Listed(store, sfree, Block)
  <1> DEFINE c == NICFREE
             n == NBLOCK \div NICFREE
             rest == NBLOCK % NICFREE
  <1>1. c \in Nat \ {0, 1} /\ NBLOCK \in Nat \ {0} BY DEF BlocksAssumption
  <1>2. n \in Nat /\ rest \in 0 .. c - 1 /\ NBLOCK = c * n + rest BY <1>1
  <1>3. sfree = [j \in 1 .. rest + 1 |-> NBLOCK - rest + (j - 1)] BY DEF Init
  <1>4. \A b \in Block : b % c = 0 => store[b] = [j \in 1 .. c |-> b - c + (j - 1)]
    BY DEF Init
  <1> HIDE DEF c, n, rest
  <1> DEFINE len(k) == IF k = 0 THEN rest + 1 ELSE c
             ch == [k \in 0 .. n |-> [j \in 1 .. len(k) |-> c * (n - k) + (j - 1)]]
  <1>5. \A k \in 0 .. n : len(k) \in 1 .. c /\ len(k) \in Nat /\ c * (n - k) \in Nat /\ n - k \in Nat
    BY <1>1, <1>2
  <1>6. ASSUME NEW k \in 0 .. n, NEW j \in 1 .. len(k)
        PROVE  c * (n - k) + (j - 1) \in Cells /\ (j - 1) \in 0 .. c - 1 /\ (j # 1 => c * (n - k) + (j - 1) # 0)
    <2> DEFINE d == c * (n - k)
    <2>1. d \in Nat /\ len(k) \in 1 .. c /\ j \in Int BY <1>5
    <2>2. CASE k = 0
      <3>1. d = c * n /\ len(k) = rest + 1 BY <1>2, <2>2
      <3> HIDE DEF d
      <3> QED BY <1>1, <1>2, <2>1, <3>1 DEF Cells, d
    <2>3. CASE k # 0
      <3>1. d = c * n - c * k /\ c * k >= c /\ len(k) = c /\ c * k \in Nat /\ c * n \in Nat
        BY <1>1, <1>2, <2>3
      <3> HIDE DEF d
      <3> QED BY <1>1, <1>2, <2>1, <3>1 DEF Cells, d
    <2> QED BY <2>2, <2>3
  <1>7. \A k \in 0 .. n : /\ ch[k] = [j \in 1 .. len(k) |-> c * (n - k) + (j - 1)]
                          /\ ch[k] \in Seq(Cells) /\ Len(ch[k]) = len(k)
                          /\ \A j \in 1 .. len(k) : ch[k][j] = c * (n - k) + (j - 1)
    <2> SUFFICES ASSUME NEW k \in 0 .. n
                 PROVE  /\ ch[k] = [j \in 1 .. len(k) |-> c * (n - k) + (j - 1)]
                        /\ ch[k] \in Seq(Cells) /\ Len(ch[k]) = len(k)
                        /\ \A j \in 1 .. len(k) : ch[k][j] = c * (n - k) + (j - 1) OBVIOUS
    <2> DEFINE s == [j \in 1 .. len(k) |-> c * (n - k) + (j - 1)]
               m == len(k)
    <2>1. m \in Nat /\ (\A j \in 1 .. m : s[j] = c * (n - k) + (j - 1) /\ s[j] \in Cells) /\ s = [j \in 1 .. m |-> s[j]]
      BY <1>5, <1>6
    <2>2. ch[k] = s OBVIOUS
    <2> HIDE DEF s, m, ch
    <2>3. s \in Seq(Cells) /\ Len(s) = m BY <2>1
    <2> QED BY <2>1, <2>2, <2>3 DEF s, m
  <1> HIDE DEF len, ch
  <1>8. ch[0] = sfree
    <2>1. 0 \in 0 .. n /\ len(0) = rest + 1 /\ n - 0 = n BY <1>2 DEF len
    <2>2. ch[0] = [j \in 1 .. rest + 1 |-> c * n + (j - 1)] BY <1>7, <2>1
    <2>3. c * n = NBLOCK - rest BY <1>1, <1>2
    <2> QED BY <1>3, <2>2, <2>3
  <1>9. ASSUME NEW k \in 0 .. n - 1
        PROVE  ch[k] # <<>> /\ ch[k][1] # 0 /\ ch[k + 1] = store[ch[k][1]]
    <2> DEFINE b == c * (n - k)
    <2>1. k \in 0 .. n /\ k + 1 \in 0 .. n /\ k + 1 # 0 BY <1>2
    <2>2. Len(ch[k]) = len(k) /\ 1 \in 1 .. len(k) /\ ch[k] # <<>> /\ ch[k][1] = b + (1 - 1)
      <3>1. len(k) \in 1 .. c /\ Len(ch[k]) = len(k) BY <1>5, <1>7, <2>1
      <3>2. 1 \in 1 .. len(k) BY <1>1, <3>1
      <3>3. ch[k][1] = c * (n - k) + (1 - 1) BY <1>7, <2>1, <3>2
      <3>4. ch[k] # <<>>
        <4>1. Len(ch[k]) # 0 BY <1>1, <3>1
        <4> QED BY <4>1
      <3> QED BY <3>1, <3>2, <3>3, <3>4
    <2>3. b \in Int /\ b # 0 /\ b \in Cells /\ ch[k][1] = b
      <3>1. b \in Nat /\ b >= c BY <1>1, <1>2
      <3>2. b + (1 - 1) \in Cells BY <1>6, <2>1, <2>2
      <3> HIDE DEF b
      <3> QED BY <1>1, <2>2, <3>1, <3>2
    <2>4. b \in Block BY <2>3 DEF Cells, Block
    <2>5. b % c = 0
      <3> DEFINE q == b \div c
                 e == b % c
                 m == n - k
      <3>1. q \in Int /\ e \in 0 .. c - 1 /\ b = c * q + e BY <1>1, <2>3
      <3>2. b = c * m + 0 /\ m \in Int /\ 0 \in 0 .. c - 1 /\ c \in Nat \ {0} BY <1>1, <1>2
      <3> HIDE DEF q, e, m, b
      <3>3. c * q + e = c * m + 0 BY ONLY <3>1, <3>2
      <3> QED BY ONLY <3>1, <3>2, <3>3, OneDivision DEF e
    <2>6. store[b] = [j \in 1 .. c |-> b - c + (j - 1)] BY <1>4, <2>4, <2>5
    <2>7. ch[k + 1] = [j \in 1 .. c |-> c * (n - (k + 1)) + (j - 1)] BY <1>7, <2>1 DEF len
    <2>8. c * (n - (k + 1)) = b - c BY <1>1, <1>2
    <2> QED BY <2>2, <2>3, <2>6, <2>7, <2>8
  <1>10. ch[n] = <<>> \/ ch[n][1] = 0
    <2>1. n \in 0 .. n /\ 1 \in 1 .. len(n) /\ c * (n - n) = 0 BY <1>1, <1>2, <1>5
    <2>2. ch[n][1] = c * (n - n) + (1 - 1) BY <1>7, <2>1
    <2> QED BY <2>1, <2>2
  <1>11. ASSUME NEW k \in 0 .. n, NEW j \in 2 .. Len(ch[k]) PROVE ch[k][j] # 0
    <2>1. Len(ch[k]) = len(k) /\ len(k) \in Nat BY <1>5, <1>7
    <2>2. j \in 1 .. len(k) /\ j # 1 BY <2>1
    <2> QED BY <1>6, <1>7, <2>2
  <1>12. ch \in [0 .. n -> Seq(Cells)]
    <2>1. ch = [k \in 0 .. n |-> ch[k]] BY DEF ch
    <2> QED BY <1>7, <2>1
  <1>13. Linked(store, sfree, n, ch) BY <1>2, <1>8, <1>9, <1>10, <1>11, <1>12 DEF Linked
  <1>14. ASSUME NEW k \in 0 .. n, NEW l \in 0 .. n, NEW i \in 1 .. Len(ch[k]), NEW j \in 1 .. Len(ch[l]), ch[k][i] = ch[l][j]
         PROVE  k = l /\ i = j
    <2>1. i \in 1 .. len(k) /\ j \in 1 .. len(l) BY <1>7
    <2> DEFINE a == n - k
               b == n - l
               d == i - 1
               e == j - 1
    <2>2. c * a + d = c * b + e
      <3>1. ch[k][i] = c * (n - k) + (i - 1) BY <1>7, <2>1
      <3>2. ch[l][j] = c * (n - l) + (j - 1) BY <1>7, <2>1
      <3> QED BY <1>14, <3>1, <3>2
    <2>3. c \in Nat \ {0} /\ a \in Int /\ b \in Int /\ d \in 0 .. c - 1 /\ e \in 0 .. c - 1
      BY <1>1, <1>5, <1>6, <2>1
    <2> HIDE DEF a, b, d, e
    <2>4. a = b /\ d = e BY ONLY <2>2, <2>3, OneDivision
    <2>5. n \in Int /\ k \in Int /\ l \in Int /\ i \in Int /\ j \in Int BY <1>2, <2>1
    <2> QED BY ONLY <2>4, <2>5 DEF a, b, d, e
  <1>15. ASSUME NEW b \in Block PROVE \E k \in 0 .. n : \E j \in 1 .. Len(ch[k]) : ch[k][j] = b
    <2> DEFINE q == b \div c
               e == b % c
    <2>1. b \in Nat /\ b <= NBLOCK BY DEF Block
    <2>2. q \in Nat /\ e \in 0 .. c - 1 /\ b = c * q + e BY <1>1, <2>1
    <2> HIDE DEF q, e
    <2>3. q <= n
      <3> SUFFICES ASSUME q > n PROVE FALSE BY <1>2, <2>2
      <3> DEFINE z == q - n
      <3>1. z \in Int /\ z >= 1 /\ q = n + z BY <1>2, <2>2
      <3> HIDE DEF z
      <3>2. c * z >= c /\ c * q = c * n + c * z /\ c * z \in Int /\ c * n \in Int
        BY <1>1, <1>2, <3>1
      <3> QED BY <1>1, <1>2, <2>1, <2>2, <3>2
    <2> DEFINE k == n - q
               j == e + 1
    <2>4. k \in 0 .. n /\ n - k = q /\ j - 1 = e BY <1>2, <2>2, <2>3
    <2>5. j \in 1 .. len(k)
      <3>1. CASE k = 0
        <4>1. q = n BY <1>2, <2>2, <3>1
        <4>2. e <= rest
          <5> DEFINE x == c * n
          <5>1. b = x + e /\ NBLOCK = x + rest /\ x \in Int BY <1>1, <1>2, <2>2, <4>1
          <5> HIDE DEF x
          <5> QED BY <1>2, <2>1, <2>2, <5>1
        <4> QED BY <1>2, <2>2, <3>1, <4>2 DEF len
      <3>2. CASE k # 0 BY <1>1, <2>2, <3>2 DEF len
      <3> QED BY <3>1, <3>2
    <2> HIDE DEF k, j
    <2>6. ch[k][j] = c * (n - k) + (j - 1) /\ Len(ch[k]) = len(k) BY <1>7, <2>4, <2>5
    <2>7. ch[k][j] = b BY <2>2, <2>4, <2>6
    <2> QED BY <2>4, <2>5, <2>6, <2>7
  <1>16. Once(n, ch) /\ Block = Listing(n, ch) BY <1>14, <1>15 DEF Once, Listing
  <1> QED BY <1>13, <1>16 DEF Listed

LEMMA BlocksInit ==
    ASSUME BlocksAssumption, Init PROVE BlocksInv
  <1> DEFINE home == [b \in Block |-> TheList]
  <1>0. \A b \in Block : home[b] = TheList OBVIOUS
  <1> HIDE DEF home
  <1>1. /\ (\A p \in Proc : u[p] = Idle) /\ u \in [Proc -> Regs] /\ Idle.f = 0 /\ Idle.pc = "user" /\ Idle.fresh = FALSE
        /\ (\A f \in File : large[f] = FALSE) /\ \A f \in File : addr[f] = [i \in Rows |-> 0]
    BY LocalIdle DEF Init, Idle, NoFile, Rows
  <1>2. Types
    <2>1. 0 \in Cells BY Indices
    <2>2. flock \in BOOLEAN /\ large \in [File -> BOOLEAN] /\ addr \in [File -> [Rows -> Cells]]
      BY <2>1 DEF Init, Rows
    <2>3. store = [b \in Block |-> store[b]] BY DEF Init
    <2> QED BY <1>1, <2>2, <2>3 DEF Types
  <1>3. Alone /\ Locked BY <1>1 DEF Alone, Locked, LockPcs
  <1>4. Found BY <1>1, LocalIdle DEF Found
  <1>5. Listed(store, Start, FreeHome(home))
    <2>1. FreeHome(home) = Block BY <1>0 DEF FreeHome
    <2>2. Start = sfree BY <1>1, StartFree
    <2> QED BY <2>1, <2>2, ListInit
  <1>6. \A p \in Proc : HandHome(home, p, u[p]) /\ TodoHome(home, p, u[p])
    BY <1>0, <1>1, LocalIdle, PlacesElsewhere
  <1>7. ASSUME NEW f \in File PROVE FileMap(Holds, Tops(f), large[f], f, home)
    <2> DEFINE tops == Tops(f)
               t == Holds
    <2>1. f # 0 BY DEF BlocksAssumption
    <2>2. tops = [i \in Rows |-> 0]
      <3>1. \A i \in Rows : ~ Cut(f, i) BY <1>1, <2>1 DEF Cut
      <3> QED BY <1>1, <3>1 DEF Tops
    <2> HIDE DEF tops, t
    <2>3. tops \in [Rows -> Cells] /\ \A i \in Rows : tops[i] = 0 BY <2>2, Indices
    <2>4. \A r \in Rows, k \in Cols : MidAt(t, tops, FALSE, r, k) = 0 BY DEF MidAt
    <2>5. \A k, j \in Cols : LowAt(t, tops, FALSE, k, j) = 0
      BY <2>4, Indices DEF LowAt, Word
    <2>6. LastRow \in Rows /\ \A b \in Block : b # 0 BY Indices
    <2>7. MapTyped(t, tops, FALSE) BY <2>3, <2>4, <2>6 DEF MapTyped
    <2>8. FileMap(t, tops, FALSE, f, home)
      BY <1>0, <2>3, <2>4, <2>5, <2>6, <2>7, PlacesElsewhere DEF FileMap
    <2> QED BY <1>1, <2>8 DEF tops, t
  <1>8. \A b \in Block : home[b] \in Places BY <1>0 DEF Places
  <1>9. Homed(home) BY <1>5, <1>6, <1>7, <1>8 DEF Homed
  <1> QED BY <1>2, <1>3, <1>4, <1>9 DEF BlocksInv, Good, Init

-------------------------------------------------------------------------------
(* The list, as it is read from block to block. *)
NextList(l) == IF l = <<>> \/ Head(l) = 0 THEN <<>> ELSE store[Head(l)]
Lists == CHOOSE c : c = [k \in 0 .. NBLOCK |-> IF k = 0 THEN Start ELSE NextList(c[k - 1])]

LEMMA InListOf ==
    InList = UNION {{<<<<-1, k, j>>, Lists[k][j]>> : j \in DOMAIN Lists[k]} : k \in 0 .. NBLOCK}
  BY DEF InList, Lists, NextList, Start

(* A list has no more parts than there are blocks. *)
LEMMA PartsBound ==
    ASSUME BlocksAssumption, NEW st, NEW s, NEW n, NEW ch, Linked(st, s, n, ch), Once(n, ch)
    PROVE  n \in Nat /\ n <= NBLOCK
  <1> DEFINE S == 0 .. n - 1
             g == [k \in S |-> ch[k][1]]
  <1>1. n \in Nat /\ NBLOCK \in Nat BY DEF Linked, BlocksAssumption
  <1>2. ASSUME NEW k \in S PROVE k \in 0 .. n /\ 1 \in 1 .. Len(ch[k]) /\ ch[k][1] \in Block /\ ch[k][1] # 0
    <2>1. k \in 0 .. n /\ k \in 0 .. n - 1 BY <1>1
    <2>2. ch[k] # <<>> /\ ch[k][1] # 0 BY <2>1 DEF Linked
    <2>3. Len(ch[k]) \in Nat /\ Len(ch[k]) # 0 BY <2>1, <2>2, LinkedTypes
    <2>4. 1 \in 1 .. Len(ch[k]) BY <2>3
    <2>5. ch[k][1] \in Cells BY <2>1, <2>4, LinkedTypes
    <2> QED BY <2>1, <2>2, <2>4, <2>5, Indices
  <1>3. \A k, l \in S : g[k] = g[l] => k = l BY <1>2 DEF Once
  <1>4. g \in [S -> Block] BY <1>2
  <1>5. IsFiniteSet(S) /\ Cardinality(S) = n BY <1>1, FS_Interval
  <1>6. IsFiniteSet(Block) /\ Cardinality(Block) = NBLOCK BY <1>1, FS_Interval DEF Block
  <1> HIDE DEF S, g
  <1>7. ~ (Cardinality(Block) < Cardinality(S)) BY <1>3, <1>4, <1>5, <1>6, FS_PigeonHole
  <1> QED BY <1>1, <1>5, <1>6, <1>7

LEMMA ListsAre ==
    ASSUME BlocksAssumption, NEW n, NEW ch, Linked(store, Start, n, ch), Once(n, ch)
    PROVE  \A k \in 0 .. NBLOCK : Lists[k] = IF k <= n THEN ch[k] ELSE <<>>
  <1> DEFINE c == [k \in 0 .. NBLOCK |-> IF k <= n THEN ch[k] ELSE <<>>]
  <1>1. n \in Nat /\ n <= NBLOCK /\ NBLOCK \in Nat BY PartsBound DEF BlocksAssumption
  <1>2. ch[0] = Start /\ \A k \in 0 .. n : ch[k] # <<>> => Head(ch[k]) = ch[k][1]
    BY DEF Linked
  <1>3. \A k \in 0 .. n - 1 : ch[k + 1] = NextList(ch[k])
    <2> SUFFICES ASSUME NEW k \in 0 .. n - 1 PROVE ch[k + 1] = NextList(ch[k]) OBVIOUS
    <2>1. ch[k] # <<>> /\ ch[k][1] # 0 /\ ch[k + 1] = store[ch[k][1]] BY DEF Linked
    <2>2. k \in 0 .. n BY <1>1
    <2> QED BY <1>2, <2>1, <2>2 DEF NextList
  <1>4. NextList(ch[n]) = <<>> /\ NextList(<<>>) = <<>>
    <2>1. n \in 0 .. n BY <1>1
    <2>2. ch[n] = <<>> \/ ch[n][1] = 0 BY DEF Linked
    <2> QED BY <1>2, <2>1, <2>2 DEF NextList
  <1>5. \A k \in 0 .. NBLOCK : c[k] = IF k = 0 THEN Start ELSE NextList(c[k - 1])
    <2> SUFFICES ASSUME NEW k \in 0 .. NBLOCK PROVE c[k] = IF k = 0 THEN Start ELSE NextList(c[k - 1])
      OBVIOUS
    <2>1. CASE k = 0 BY <1>1, <1>2, <2>1
    <2>2. CASE k # 0
      <3> DEFINE m == k - 1
      <3>1. m \in 0 .. NBLOCK /\ k = m + 1 /\ m \in Int BY <1>1, <2>2
      <3>2. c[m] = IF m <= n THEN ch[m] ELSE <<>> BY <3>1
      <3>3. c[k] = IF k <= n THEN ch[k] ELSE <<>> OBVIOUS
      <3> HIDE DEF c, m
      <3>4. CASE k <= n
        <4>1. m \in 0 .. n - 1 /\ m <= n BY <1>1, <3>1, <3>4
        <4> QED BY <1>3, <2>2, <3>1, <3>2, <3>3, <3>4, <4>1 DEF m
      <3>5. CASE m = n
        <4>1. ~ (k <= n) /\ m <= n BY <1>1, <3>1, <3>5
        <4> QED BY <1>4, <2>2, <3>2, <3>3, <3>5, <4>1 DEF m
      <3>6. CASE ~ (m <= n)
        <4>1. ~ (k <= n) BY <1>1, <3>1, <3>6
        <4> QED BY <1>4, <2>2, <3>2, <3>3, <3>6, <4>1 DEF m
      <3>7. k <= n \/ m = n \/ ~ (m <= n) BY <1>1, <3>1
      <3> QED BY <3>4, <3>5, <3>6, <3>7
    <2> QED BY <2>1, <2>2
  <1>6. c = [k \in 0 .. NBLOCK |-> IF k = 0 THEN Start ELSE NextList(c[k - 1])]
    <2>1. c = [k \in 0 .. NBLOCK |-> c[k]] OBVIOUS
    <2> HIDE DEF c
    <2> QED BY <1>5, <2>1
  <1> HIDE DEF c
  <1>7. Lists = [k \in 0 .. NBLOCK |-> IF k = 0 THEN Start ELSE NextList(Lists[k - 1])]
    BY <1>6 DEF Lists
  <1> DEFINE d == Lists
  <1>8. \A k \in 0 .. NBLOCK : d[k] = IF k = 0 THEN Start ELSE NextList(d[k - 1]) BY <1>7
  <1> HIDE DEF d
  <1>9. \A k \in 0 .. NBLOCK : d[k] = c[k]
    <2> DEFINE Bad == {k \in 0 .. NBLOCK : d[k] # c[k]}
    <2> SUFFICES ASSUME Bad # {} PROVE FALSE OBVIOUS
    <2>1. PICK m \in Bad : \A j \in Bad : m <= j
      <3> DEFINE Up == {k \in 1 .. NBLOCK + 1 : k - 1 \in Bad}
      <3>1. Up # {}
        <4>1. PICK x : x \in Bad OBVIOUS
        <4>2. x + 1 \in Up
          <5>1. x \in 0 .. NBLOCK BY <4>1
          <5>2. x + 1 \in 1 .. NBLOCK + 1 /\ (x + 1) - 1 = x BY <1>1, <5>1
          <5> QED BY <4>1, <5>2
        <4> QED BY <4>2
      <3>2. Up \subseteq 1 .. NBLOCK + 1 /\ NBLOCK + 1 \in Nat BY <1>1
      <3>3. PICK y \in Up : \A j \in Up : y <= j
        <4> HIDE DEF Up
        <4> QED BY <3>1, <3>2, LeastExists
      <3>4. y - 1 \in Bad /\ y \in Int OBVIOUS
      <3>5. ASSUME NEW j \in Bad PROVE y - 1 <= j
        <4>1. j \in 0 .. NBLOCK OBVIOUS
        <4>2. j + 1 \in 1 .. NBLOCK + 1 /\ (j + 1) - 1 = j /\ j \in Int BY <1>1, <4>1
        <4>3. j + 1 \in Up BY <4>2
        <4>4. y <= j + 1 BY <3>3, <4>3
        <4> QED BY <3>4, <4>2, <4>4
      <3> QED BY <3>4, <3>5
    <2>2. m \in 0 .. NBLOCK /\ d[m] # c[m] OBVIOUS
    <2>3. m # 0 BY <1>5, <1>8, <2>2
    <2>4. m - 1 \in 0 .. NBLOCK /\ ~ (m <= m - 1) BY <1>1, <2>2, <2>3
    <2>5. m - 1 \notin Bad BY ONLY <2>1, <2>4
    <2>6. d[m - 1] = c[m - 1] BY <2>4, <2>5
    <2> QED BY <1>5, <1>8, <2>2, <2>3, <2>6
  <1> QED BY <1>9 DEF c, d

LEMMA ListEntries ==
    ASSUME BlocksAssumption, NEW n, NEW ch, Linked(store, Start, n, ch), Once(n, ch)
    PROVE  \A x : x \in InList <=> \E k \in 0 .. n : \E j \in 1 .. Len(ch[k]) : x = <<<<-1, k, j>>, ch[k][j]>>
  <1>1. n \in Nat /\ n <= NBLOCK /\ NBLOCK \in Nat BY PartsBound DEF BlocksAssumption
  <1>2. \A k \in 0 .. NBLOCK : Lists[k] = IF k <= n THEN ch[k] ELSE <<>> BY ListsAre
  <1>3. \A k \in 0 .. n : ch[k] \in Seq(Cells) BY LinkedTypes
  <1>4. \A k \in 0 .. n : DOMAIN ch[k] = 1 .. Len(ch[k]) BY <1>3, LenProperties
  <1>5. \A k \in 0 .. n : k \in 0 .. NBLOCK /\ Lists[k] = ch[k] BY <1>1, <1>2
  <1>6. \A k \in 0 .. NBLOCK : k \in 0 .. n \/ Lists[k] = <<>> BY <1>1, <1>2
  <1>7. \A k \in 0 .. NBLOCK : \A j \in DOMAIN Lists[k] : k \in 0 .. n /\ j \in 1 .. Len(ch[k]) /\ Lists[k] = ch[k]
    BY <1>4, <1>5, <1>6
  <1>8. \A k \in 0 .. n : \A j \in 1 .. Len(ch[k]) : j \in DOMAIN Lists[k] BY <1>4, <1>5
  <1>9. \A x : x \in InList <=> \E k \in 0 .. NBLOCK : \E j \in DOMAIN Lists[k] : x = <<<<-1, k, j>>, Lists[k][j]>>
    BY InListOf
  <1> QED BY <1>5, <1>7, <1>8, <1>9

-------------------------------------------------------------------------------
(* The places of a file. *)
FileEntry(f, x) ==
    \/ \E i \in Rows : x = <<<<f, i>>, Tops(f)[i]>> /\ x[2] # 0
    \/ \E i \in Rows, k \in Cols : x = <<<<f, i, k>>, MidAt(Holds, Tops(f), large[f], i, k)>> /\ x[2] # 0
    \/ \E k, j \in Cols : x = <<<<f, LastRow, k, j>>, LowAt(Holds, Tops(f), large[f], k, j)>> /\ x[2] # 0
    \/ \E p \in Proc : /\ u[p].f = f /\ u[p].pc \in TruncPcs
                       /\ \E j \in DOMAIN u[p].todo : x = <<<<-2, f, j>>, u[p].todo[j]>>

LEMMA AppendAt ==
    ASSUME NEW S, NEW s \in Seq(S), NEW x \in S, NEW z, z = Append(s, x)
    PROVE  z \in Seq(S) /\ Len(z) = Len(s) + 1 /\ z[Len(s) + 1] = x /\ \A i \in 1 .. Len(s) : z[i] = s[i]
  BY AppendProperties

LEMMA Append2 ==
    ASSUME NEW S, NEW s \in Seq(S), NEW x \in S, Len(s) = 2
    PROVE  Append(s, x) = <<s[1], s[2], x>>
  <1>1. PICK z : z = Append(s, x) OBVIOUS
  <1>2. z \in Seq(S) /\ Len(z) = Len(s) + 1 /\ z[Len(s) + 1] = x /\ \A i \in 1 .. Len(s) : z[i] = s[i]
    BY ONLY s \in Seq(S), x \in S, <1>1, AppendAt
  <1>3. \A i \in 1 .. Len(s) : s[i] \in S BY ONLY s \in Seq(S)
  <1>4. s[1] \in S /\ s[2] \in S BY ONLY <1>3, Len(s) = 2
  <1> DEFINE t == <<s[1], s[2], x>>
  <1>5. z \in Seq(S) /\ Len(z) = 3 /\ z[1] = s[1] /\ z[2] = s[2] /\ z[3] = x
    BY ONLY <1>2, Len(s) = 2
  <1>6. t \in Seq(S) /\ Len(t) = 3 /\ t[1] = s[1] /\ t[2] = s[2] /\ t[3] = x
    BY ONLY <1>4, x \in S
  <1>7. \A i \in 1 .. 3 : i = 1 \/ i = 2 \/ i = 3 OBVIOUS
  <1> HIDE DEF t
  <1>8. \A i \in 1 .. Len(z) : z[i] = t[i] BY ONLY <1>5, <1>6, <1>7
  <1>9. z = t BY ONLY <1>5, <1>6, <1>8, SeqEqual
  <1> QED BY ONLY <1>1, <1>9 DEF t

LEMMA Append3 ==
    ASSUME NEW S, NEW s \in Seq(S), NEW x \in S, Len(s) = 3
    PROVE  Append(s, x) = <<s[1], s[2], s[3], x>>
  <1>1. PICK z : z = Append(s, x) OBVIOUS
  <1>2. z \in Seq(S) /\ Len(z) = Len(s) + 1 /\ z[Len(s) + 1] = x /\ \A i \in 1 .. Len(s) : z[i] = s[i]
    BY ONLY s \in Seq(S), x \in S, <1>1, AppendAt
  <1>3. \A i \in 1 .. Len(s) : s[i] \in S BY ONLY s \in Seq(S)
  <1>4. s[1] \in S /\ s[2] \in S /\ s[3] \in S BY ONLY <1>3, Len(s) = 3
  <1> DEFINE t == <<s[1], s[2], s[3], x>>
  <1>5. z \in Seq(S) /\ Len(z) = 4 /\ z[1] = s[1] /\ z[2] = s[2] /\ z[3] = s[3] /\ z[4] = x
    BY ONLY <1>2, Len(s) = 3
  <1>6. t \in Seq(S) /\ Len(t) = 4 /\ t[1] = s[1] /\ t[2] = s[2] /\ t[3] = s[3] /\ t[4] = x
    BY ONLY <1>4, x \in S
  <1>7. \A i \in 1 .. 4 : i = 1 \/ i = 2 \/ i = 3 \/ i = 4 OBVIOUS
  <1> HIDE DEF t
  <1>8. \A i \in 1 .. Len(z) : z[i] = t[i] BY ONLY <1>5, <1>6, <1>7
  <1>9. z = t BY ONLY <1>5, <1>6, <1>8, SeqEqual
  <1> QED BY ONLY <1>1, <1>9 DEF t

LEMMA Appended ==
    /\ \A a, b, c : Append(<<a, b>>, c) = <<a, b, c>>
    /\ \A a, b, c, d : Append(<<a, b, c>>, d) = <<a, b, c, d>>
  <1>1. ASSUME NEW a, NEW b, NEW c PROVE Append(<<a, b>>, c) = <<a, b, c>>
    <2>1. PICK S : S = {a, b, c} OBVIOUS
    <2>2. PICK s : s = <<a, b>> OBVIOUS
    <2>3. s \in Seq(S) /\ Len(s) = 2 /\ c \in S /\ s[1] = a /\ s[2] = b BY <2>1, <2>2
    <2>4. Append(s, c) = <<s[1], s[2], c>> BY ONLY <2>3, Append2
    <2> QED BY <2>2, <2>3, <2>4
  <1>2. ASSUME NEW a, NEW b, NEW c, NEW d PROVE Append(<<a, b, c>>, d) = <<a, b, c, d>>
    <2>1. PICK S : S = {a, b, c, d} OBVIOUS
    <2>2. PICK s : s = <<a, b, c>> OBVIOUS
    <2>3. s \in Seq(S) /\ Len(s) = 3 /\ d \in S /\ s[1] = a /\ s[2] = b /\ s[3] = c
      BY <2>1, <2>2
    <2>4. Append(s, d) = <<s[1], s[2], s[3], d>> BY ONLY <2>3, Append3
    <2> QED BY <2>2, <2>3, <2>4
  <1> QED BY <1>1, <1>2

LEMMA InsideOf ==
    \A P, y : y \in Inside(P) <=> \E x \in P : \E k \in Cols : y = <<Append(x[1], k), Held(x[2])[k]>>
  BY DEF Inside, Cols

(* The addresses that itrunc has not come to. *)
LEMMA LastTop ==
    ASSUME BlocksAssumption, Types, Alone, NEW f \in File
    PROVE  \E last \in Int :
               /\ last = IF Freeing(f) = {} THEN NADDR - 1 ELSE u[CHOOSE p \in Freeing(f) : TRUE].k - 1
               /\ 0 .. last \subseteq Rows
               /\ \A i \in Rows : Tops(f)[i] = IF i \in 0 .. last THEN addr[f][i] ELSE 0
  <1>0. f # 0 /\ NADDR \in Nat \ {0, 1} BY DEF BlocksAssumption
  <1>1. Freeing(f) = {p \in Proc : u[p].f = f /\ u[p].pc \in TruncPcs}
    BY DEF Freeing, TruncPcs
  <1>2. CASE Freeing(f) = {}
    <2>1. \A i \in Rows : ~ Cut(f, i) BY <1>1, <1>2 DEF Cut
    <2>2. \A i \in Rows : i \in 0 .. NADDR - 1 BY DEF Rows
    <2>3. 0 .. NADDR - 1 = Rows /\ NADDR - 1 \in Int BY <1>0 DEF Rows
    <2> QED BY <1>2, <2>1, <2>2, <2>3 DEF Tops
  <1>3. CASE Freeing(f) # {}
    <2>1. PICK p \in Freeing(f) : p = CHOOSE q \in Freeing(f) : TRUE BY <1>3
    <2>2. p \in Proc /\ u[p].f = f /\ u[p].pc \in TruncPcs /\ \A q \in Proc : u[q].f = f => q = p
      BY <1>0, <1>1, <2>1 DEF Alone
    <2>3. \A i \in Rows : Cut(f, i) <=> u[p].k <= i BY <2>2 DEF Cut
    <2>4. u[p].k \in Rows BY <2>2 DEF Types, Regs
    <2> DEFINE last == u[p].k - 1
    <2>5. last \in Int /\ 0 .. last \subseteq Rows BY <1>0, <2>4 DEF Rows
    <2>6. \A i \in Rows : i \in 0 .. last <=> ~ (u[p].k <= i) BY <1>0, <2>4 DEF Rows
    <2>7. \A i \in Rows : Tops(f)[i] = IF i \in 0 .. last THEN addr[f][i] ELSE 0
      <3> HIDE DEF last
      <3> QED BY <2>3, <2>6 DEF Tops
    <2>8. last = u[CHOOSE q \in Freeing(f) : TRUE].k - 1 BY <2>1
    <2> HIDE DEF last
    <2> QED BY <1>3, <2>5, <2>7, <2>8
  <1> QED BY <1>2, <1>3

LEMMA FileEntries ==
    ASSUME BlocksAssumption, Types, Alone, NEW f \in File, NEW home, FileMap(Holds, Tops(f), large[f], f, home)
    PROVE  \A x : x \in InFile(f) <=> FileEntry(f, x)
  <1> DEFINE tops == Tops(f)
             lg == large[f]
             mid(i, k) == MidAt(Holds, tops, lg, i, k)
             low(k, j) == LowAt(Holds, tops, lg, k, j)
  <1>1. PICK last \in Int :
               /\ last = IF Freeing(f) = {} THEN NADDR - 1 ELSE u[CHOOSE p \in Freeing(f) : TRUE].k - 1
               /\ 0 .. last \subseteq Rows
               /\ \A i \in Rows : Tops(f)[i] = IF i \in 0 .. last THEN addr[f][i] ELSE 0
    BY LastTop
  <1> DEFINE A == Some({<<<<f, i>>, addr[f][i]>> : i \in 0 .. last})
             B == IF large[f] THEN Some(Inside(A)) ELSE {}
             C == Some(Inside({x \in B : x[1][2] = NADDR - 1}))
             D == UNION {{<<<<-2, f, j>>, u[p].todo[j]>> : j \in DOMAIN u[p].todo} : p \in Freeing(f)}
  <1>2. InFile(f) = A \cup B \cup C \cup D BY <1>1 DEF InFile
  <1>3. lg \in BOOLEAN /\ MapTyped(Holds, tops, lg) BY DEF FileMap, Types
  <1>4. /\ \A i \in Rows : tops[i] \in Cells
        /\ \A i \in Rows, k \in Cols : mid(i, k) \in Cells
        /\ \A i \in Rows, k \in Cols : mid(i, k) # 0 => lg /\ tops[i] # 0
        /\ \A k, j \in Cols : low(k, j) # 0 => mid(LastRow, k) # 0 BY <1>3, MapCells
  <1>5. \A b \in Cells : b # 0 => b \in Block /\ Held(b) = Holds[b] BY Indices DEF Holds
  <1>6. \A x : x \in A <=> \E i \in Rows : x = <<<<f, i>>, tops[i]>> /\ tops[i] # 0
    <2>1. ASSUME NEW x, x \in A PROVE \E i \in Rows : x = <<<<f, i>>, tops[i]>> /\ tops[i] # 0
      <3>1. PICK i \in 0 .. last : x = <<<<f, i>>, addr[f][i]>> /\ x[2] # 0 BY <2>1 DEF Some
      <3> QED BY <1>1, <3>1
    <2>2. ASSUME NEW i \in Rows, tops[i] # 0 PROVE <<<<f, i>>, tops[i]>> \in A
      <3>1. i \in 0 .. last /\ tops[i] = addr[f][i] BY <1>1, <2>2
      <3> QED BY <2>2, <3>1 DEF Some
    <2> QED BY <2>1, <2>2
  <1> HIDE DEF A
  <1>7. \A x : x \in B <=> \E i \in Rows : \E k \in Cols : x = <<<<f, i, k>>, mid(i, k)>> /\ mid(i, k) # 0
    <2>1. \A x : x \in B <=> lg /\ x[2] # 0 /\ \E y \in A : \E k \in Cols : x = <<Append(y[1], k), Held(y[2])[k]>>
      BY InsideOf DEF Some
    <2>2. ASSUME NEW i \in Rows, NEW k \in Cols, lg, tops[i] # 0 PROVE Held(tops[i])[k] = mid(i, k)
      BY <1>4, <1>5, <2>2 DEF MidAt, Word
    <2> HIDE DEF B, mid, tops, lg
    <2>3. ASSUME NEW x, x \in B
          PROVE  \E i \in Rows : \E k \in Cols : x = <<<<f, i, k>>, mid(i, k)>> /\ mid(i, k) # 0
      <3>1. lg /\ x[2] # 0 BY <2>1, <2>3
      <3>2. PICK y \in A : \E k \in Cols : x = <<Append(y[1], k), Held(y[2])[k]>>
        BY <2>1, <2>3
      <3>3. PICK k \in Cols : x = <<Append(y[1], k), Held(y[2])[k]>> BY <3>2
      <3>4. PICK i \in Rows : y = <<<<f, i>>, tops[i]>> /\ tops[i] # 0 BY <1>6
      <3>5. x = <<<<f, i, k>>, mid(i, k)>> BY <2>2, <3>1, <3>3, <3>4, Appended
      <3> QED BY <3>1, <3>5
    <2>4. ASSUME NEW i \in Rows, NEW k \in Cols, mid(i, k) # 0 PROVE <<<<f, i, k>>, mid(i, k)>> \in B
      <3>1. lg /\ tops[i] # 0 BY <1>4, <2>4
      <3>2. <<<<f, i>>, tops[i]>> \in A BY <1>6, <3>1
      <3>3. <<<<f, i, k>>, mid(i, k)>> = <<Append(<<f, i>>, k), Held(tops[i])[k]>>
        BY <2>2, <3>1, Appended
      <3>4. \E y \in A : \E l \in Cols : <<<<f, i, k>>, mid(i, k)>> = <<Append(y[1], l), Held(y[2])[l]>>
        BY <3>2, <3>3
      <3> QED BY <2>1, <2>4, <3>1, <3>4
    <2> QED BY <2>3, <2>4
  <1> HIDE DEF B
  <1>8. \A x : x \in C <=> \E k \in Cols : \E j \in Cols : x = <<<<f, LastRow, k, j>>, low(k, j)>> /\ low(k, j) # 0
    <2>0. LastRow \in Rows /\ LastRow = NADDR - 1 BY Indices DEF LastRow
    <2>1. \A x : x \in C <=> x[2] # 0 /\ \E y \in B : y[1][2] = LastRow /\ \E j \in Cols : x = <<Append(y[1], j), Held(y[2])[j]>>
      <3>1. {x \in B : x[1][2] = NADDR - 1} = {x \in B : x[1][2] = LastRow} BY <2>0
      <3> QED BY <3>1, InsideOf DEF Some
    <2>2. ASSUME NEW k \in Cols, NEW j \in Cols, mid(LastRow, k) # 0 PROVE Held(mid(LastRow, k))[j] = low(k, j)
      BY <1>4, <1>5, <2>0, <2>2 DEF LowAt, Word
    <2> HIDE DEF C, mid, low, tops, lg
    <2>3. ASSUME NEW x, x \in C
          PROVE  \E k \in Cols : \E j \in Cols : x = <<<<f, LastRow, k, j>>, low(k, j)>> /\ low(k, j) # 0
      <3>1. x[2] # 0 BY <2>1, <2>3
      <3>2. PICK y \in B : y[1][2] = LastRow /\ \E j \in Cols : x = <<Append(y[1], j), Held(y[2])[j]>>
        BY <2>1, <2>3
      <3>3. PICK j \in Cols : x = <<Append(y[1], j), Held(y[2])[j]>> BY <3>2
      <3>4. PICK i \in Rows : \E k \in Cols : y = <<<<f, i, k>>, mid(i, k)>> /\ mid(i, k) # 0
        BY <1>7
      <3>5. PICK k \in Cols : y = <<<<f, i, k>>, mid(i, k)>> /\ mid(i, k) # 0 BY <3>4
      <3>6. i = LastRow BY <3>2, <3>5
      <3>7. x = <<<<f, LastRow, k, j>>, low(k, j)>> BY <2>2, <3>3, <3>5, <3>6, Appended
      <3> QED BY <3>1, <3>7
    <2>4. ASSUME NEW k \in Cols, NEW j \in Cols, low(k, j) # 0 PROVE <<<<f, LastRow, k, j>>, low(k, j)>> \in C
      <3>1. mid(LastRow, k) # 0 BY <1>4, <2>4
      <3>2. <<<<f, LastRow, k>>, mid(LastRow, k)>> \in B BY <1>7, <2>0, <3>1
      <3>3. <<<<f, LastRow, k, j>>, low(k, j)>> = <<Append(<<f, LastRow, k>>, j), Held(mid(LastRow, k))[j]>>
        BY <2>2, <3>1, Appended
      <3>4. \E y \in B : y[1][2] = LastRow /\ \E l \in Cols : <<<<f, LastRow, k, j>>, low(k, j)>> = <<Append(y[1], l), Held(y[2])[l]>>
        BY <3>2, <3>3
      <3> QED BY <2>1, <2>4, <3>4
    <2> QED BY <2>3, <2>4
  <1> HIDE DEF C
  <1>9. \A x : x \in D <=> \E p \in Proc : /\ u[p].f = f /\ u[p].pc \in TruncPcs
                                          /\ \E j \in DOMAIN u[p].todo : x = <<<<-2, f, j>>, u[p].todo[j]>>
    <2>1. Freeing(f) = {p \in Proc : u[p].f = f /\ u[p].pc \in TruncPcs}
      BY DEF Freeing, TruncPcs
    <2> QED BY <2>1
  <1> HIDE DEF D
  <1>10. ASSUME NEW x PROVE x \in InFile(f) <=> FileEntry(f, x)
    <2>1. x \in A <=> \E i \in Rows : x = <<<<f, i>>, tops[i]>> /\ x[2] # 0 BY <1>6
    <2>2. x \in B <=> \E i \in Rows, k \in Cols : x = <<<<f, i, k>>, mid(i, k)>> /\ x[2] # 0
      <3> HIDE DEF mid
      <3> QED BY <1>7
    <2>3. x \in C <=> \E k, j \in Cols : x = <<<<f, LastRow, k, j>>, low(k, j)>> /\ x[2] # 0
      <3> HIDE DEF low
      <3> QED BY <1>8
    <2> QED BY ONLY <1>2, <1>9, <2>1, <2>2, <2>3 DEF FileEntry, mid, low, tops, lg
  <1> QED BY <1>10

-------------------------------------------------------------------------------
(* Where a block is says at which place it is found. *)
PathOf(h) ==
    IF h[1] = "hand" THEN <<h[2]>>
    ELSE IF h[1] = "top" THEN <<h[2], h[3]>>
    ELSE IF h[1] = "mid" THEN <<h[2], h[3], h[4]>>
    ELSE <<h[2], LastRow, h[3], h[4]>>
Spot(home, n, ch, x) ==
    LET b == x[2]
        h == home[b]
    IN  /\ b \in Block /\ x = <<x[1], x[2]>>
        /\ h[1] = "list" => \E k \in 0 .. n : \E j \in 1 .. Len(ch[k]) : x = <<<<-1, k, j>>, ch[k][j]>>
        /\ h[1] = "todo" => /\ IsChain(u[h[2]].todo, Block)
                            /\ \E j \in DOMAIN u[h[2]].todo : x = <<<<-2, u[h[2]].f, j>>, u[h[2]].todo[j]>>
        /\ h[1] \notin {"list", "todo"} => x[1] = PathOf(h)

LEMMA SpotOne ==
    ASSUME NEW home, NEW n, NEW ch, Once(n, ch), NEW x, NEW y, Spot(home, n, ch, x), Spot(home, n, ch, y), x[2] = y[2]
    PROVE  x = y
  <1> DEFINE b == x[2]
             h == home[b]
  <1>1. b \in Block /\ b # 0 /\ x = <<x[1], b>> /\ y = <<y[1], b>> BY DEF Spot, Block
  <1>2. CASE h[1] = "list"
    <2>1. PICK k \in 0 .. n : \E j \in 1 .. Len(ch[k]) : x = <<<<-1, k, j>>, ch[k][j]>>
      BY <1>2 DEF Spot
    <2>2. PICK j \in 1 .. Len(ch[k]) : x = <<<<-1, k, j>>, ch[k][j]>> BY <2>1
    <2>3. PICK l \in 0 .. n : \E i \in 1 .. Len(ch[l]) : y = <<<<-1, l, i>>, ch[l][i]>>
      BY <1>2 DEF Spot
    <2>4. PICK i \in 1 .. Len(ch[l]) : y = <<<<-1, l, i>>, ch[l][i]>> BY <2>3
    <2>5. ch[k][j] = b /\ ch[l][i] = b BY <2>2, <2>4
    <2>6. k = l /\ j = i BY <1>1, <2>5 DEF Once
    <2> QED BY <2>2, <2>4, <2>6
  <1>3. CASE h[1] = "todo"
    <2> DEFINE s == u[h[2]].todo
    <2>1. IsChain(s, Block) BY <1>3 DEF Spot
    <2>2. PICK j \in DOMAIN s : x = <<<<-2, u[h[2]].f, j>>, s[j]>> BY <1>3 DEF Spot
    <2>3. PICK i \in DOMAIN s : y = <<<<-2, u[h[2]].f, i>>, s[i]>> BY <1>3 DEF Spot
    <2>4. s[i] = s[j]
      <3> HIDE DEF h
      <3> DEFINE g == u[h[2]].f
      <3>1. x = <<<<-2, g, j>>, s[j]>> /\ y = <<<<-2, g, i>>, s[i]>> BY <2>2, <2>3
      <3> HIDE DEF b, h, s, g
      <3>2. x[2] = s[j] /\ y[2] = s[i] BY ONLY <3>1
      <3> QED BY <3>2
    <2>5. i = j BY <2>1, <2>4 DEF IsChain, IsInjective
    <2> QED BY <2>2, <2>3, <2>5
  <1>4. CASE h[1] \notin {"list", "todo"}
    <2>1. x[1] = PathOf(h) /\ y[1] = PathOf(h) BY <1>4 DEF Spot
    <2> QED BY <1>1, <2>1
  <1> QED BY <1>2, <1>3, <1>4

Found1 == Some(InList \cup InHand \cup UNION {InFile(f) : f \in File})

LEMMA HandEntries ==
    \A x : x \in InHand <=> \E p \in Proc : u[p].pc \in HandPcs /\ x = <<<<p>>, u[p].bno>>
  <1>1. {"reload", "free", "spill", "spilled"} \cup Returns = HandPcs BY DEF HandPcs
  <1> QED BY <1>1 DEF InHand

LEMMA AllSpots ==
    ASSUME BlocksAssumption, Good, NEW home, Homed(home), NEW n, NEW ch,
           Linked(store, Start, n, ch), Once(n, ch), FreeHome(home) = Listing(n, ch)
    PROVE  /\ \A x \in Found1 : Spot(home, n, ch, x)
           /\ \A b \in Block : \E x \in Found1 : x[2] = b
  <1>0. Types /\ Alone /\ Found BY DEF Good
  <1>1. \A x : x \in InList <=> \E k \in 0 .. n : \E j \in 1 .. Len(ch[k]) : x = <<<<-1, k, j>>, ch[k][j]>>
    BY ListEntries
  <1>2. \A f \in File : \A x : x \in InFile(f) <=> FileEntry(f, x)
    <2> SUFFICES ASSUME NEW f \in File PROVE \A x : x \in InFile(f) <=> FileEntry(f, x)
      OBVIOUS
    <2>1. FileMap(Holds, Tops(f), large[f], f, home) BY DEF Homed
    <2> QED BY <1>0, <2>1, FileEntries
  <1>3. \A x : x \in Found1 <=> x[2] # 0 /\ (x \in InList \/ x \in InHand \/ \E f \in File : x \in InFile(f))
    BY DEF Found1, Some
  <1>4. \A f \in File :
            /\ \A i \in Rows : Tops(f)[i] \in Cells
            /\ \A i \in Rows, k \in Cols : MidAt(Holds, Tops(f), large[f], i, k) \in Cells
            /\ \A k, j \in Cols : LowAt(Holds, Tops(f), large[f], k, j) \in Cells
    <2> SUFFICES ASSUME NEW f \in File
                 PROVE  /\ \A i \in Rows : Tops(f)[i] \in Cells
                        /\ \A i \in Rows, k \in Cols : MidAt(Holds, Tops(f), large[f], i, k) \in Cells
                        /\ \A k, j \in Cols : LowAt(Holds, Tops(f), large[f], k, j) \in Cells
      OBVIOUS
    <2>1. MapTyped(Holds, Tops(f), large[f]) /\ large[f] \in BOOLEAN
      BY <1>0 DEF Homed, FileMap, Types
    <2> QED BY <2>1, MapCells
  <1>5. \A b \in Cells : b # 0 => b \in Block BY Indices
  <1>6. \A f \in File : \A b \in Block :
            /\ \A i \in Rows : Tops(f)[i] = b <=> home[b] = TopOf(f, i)
            /\ \A i \in Rows, k \in Cols : MidAt(Holds, Tops(f), large[f], i, k) = b <=> home[b] = MidOf(f, i, k)
            /\ \A k, j \in Cols : LowAt(Holds, Tops(f), large[f], k, j) = b <=> home[b] = LowOf(f, k, j)
    BY DEF Homed, FileMap
  <1>7. \A p \in Proc : HandHome(home, p, u[p]) /\ TodoHome(home, p, u[p]) /\ u[p] \in Regs
                        /\ (u[p].pc \notin TruncPcs => u[p].todo = <<>>)
    BY <1>0 DEF Homed, Types, Found, Local
  <1>8. ASSUME NEW x \in Found1 PROVE Spot(home, n, ch, x)
    <2>0. x[2] # 0 BY <1>3
    <2>1. CASE x \in InList
      <3>1. PICK k \in 0 .. n : \E j \in 1 .. Len(ch[k]) : x = <<<<-1, k, j>>, ch[k][j]>>
        BY <1>1, <2>1
      <3>2. PICK j \in 1 .. Len(ch[k]) : x = <<<<-1, k, j>>, ch[k][j]>> BY <3>1
      <3>3. x[2] = ch[k][j] /\ x[2] \in Block BY <1>5, <2>0, <3>2, LinkedTypes
      <3>4. x[2] \in FreeHome(home) BY <3>2, <3>3 DEF Listing
      <3>5. home[x[2]][1] = "list" /\ x = <<x[1], x[2]>> BY <3>2, <3>4 DEF FreeHome, TheList
      <3> QED BY <3>1, <3>3, <3>5 DEF Spot
    <2>2. CASE x \in InHand
      <3>1. PICK p \in Proc : u[p].pc \in HandPcs /\ x = <<<<p>>, u[p].bno>>
        BY <2>2, HandEntries
      <3>2. x[2] \in Block BY <1>5, <1>7, <2>0, <3>1 DEF Regs
      <3>3. home[x[2]] = HandOf(p) BY <1>7, <3>1, <3>2 DEF HandHome
      <3>4. home[x[2]][1] = "hand" /\ home[x[2]][2] = p BY <3>3 DEF HandOf
      <3> QED BY <3>1, <3>2, <3>4 DEF Spot, PathOf
    <2>3. CASE \E f \in File : x \in InFile(f)
      <3>1. PICK f \in File : FileEntry(f, x) BY <1>2, <2>3
      <3>2. CASE \E i \in Rows : x = <<<<f, i>>, Tops(f)[i]>>
        <4>1. PICK i \in Rows : x = <<<<f, i>>, Tops(f)[i]>> BY <3>2
        <4>2. x[2] = Tops(f)[i] /\ x[1] = <<f, i>> /\ x = <<x[1], x[2]>> BY <4>1
        <4>3. x[2] \in Block BY <1>4, <1>5, <2>0, <4>2
        <4>4. home[x[2]] = TopOf(f, i) BY <1>6, <4>2, <4>3
        <4> QED BY <4>2, <4>3, <4>4 DEF Spot, PathOf, TopOf
      <3>3. CASE \E i \in Rows, k \in Cols : x = <<<<f, i, k>>, MidAt(Holds, Tops(f), large[f], i, k)>>
        <4>1. PICK i \in Rows, k \in Cols : x = <<<<f, i, k>>, MidAt(Holds, Tops(f), large[f], i, k)>>
          BY <3>3
        <4>2. x[2] = MidAt(Holds, Tops(f), large[f], i, k) /\ x[1] = <<f, i, k>> /\ x = <<x[1], x[2]>>
          BY <4>1
        <4>3. x[2] \in Block BY <1>4, <1>5, <2>0, <4>2
        <4>4. home[x[2]] = MidOf(f, i, k) BY <1>6, <4>2, <4>3
        <4> QED BY <4>2, <4>3, <4>4 DEF Spot, PathOf, MidOf
      <3>4. CASE \E k, j \in Cols : x = <<<<f, LastRow, k, j>>, LowAt(Holds, Tops(f), large[f], k, j)>>
        <4>1. PICK k \in Cols, j \in Cols : x = <<<<f, LastRow, k, j>>, LowAt(Holds, Tops(f), large[f], k, j)>>
          BY <3>4
        <4>2. x[2] = LowAt(Holds, Tops(f), large[f], k, j) /\ x[1] = <<f, LastRow, k, j>> /\ x = <<x[1], x[2]>>
          BY <4>1
        <4>3. x[2] \in Block BY <1>4, <1>5, <2>0, <4>2
        <4>4. home[x[2]] = LowOf(f, k, j) BY <1>6, <4>2, <4>3
        <4> QED BY <4>2, <4>3, <4>4 DEF Spot, PathOf, LowOf
      <3>5. CASE \E p \in Proc : /\ u[p].f = f /\ u[p].pc \in TruncPcs
                                 /\ \E j \in DOMAIN u[p].todo : x = <<<<-2, f, j>>, u[p].todo[j]>>
        <4>1. PICK p \in Proc : /\ u[p].f = f /\ u[p].pc \in TruncPcs
                                /\ \E j \in DOMAIN u[p].todo : x = <<<<-2, f, j>>, u[p].todo[j]>>
          BY <3>5
        <4>2. PICK j \in DOMAIN u[p].todo : x = <<<<-2, f, j>>, u[p].todo[j]>> BY <4>1
        <4>3. IsChain(u[p].todo, Block) /\ x[2] \in Range(u[p].todo)
          BY <1>7, <4>2 DEF TodoHome, Range
        <4>4. x[2] \in Block BY <4>3, ChainRange
        <4>5. home[x[2]] = ToFree(p) BY <1>7, <4>3, <4>4 DEF TodoHome
        <4>6. home[x[2]][1] = "todo" /\ home[x[2]][2] = p BY <4>5 DEF ToFree
        <4> QED BY <4>1, <4>2, <4>3, <4>4, <4>6 DEF Spot
      <3> QED BY <3>1, <3>2, <3>3, <3>4, <3>5 DEF FileEntry
    <2> QED BY <1>3, <2>1, <2>2, <2>3
  <1>9. ASSUME NEW b \in Block PROVE \E x \in Found1 : x[2] = b
    <2>0. b # 0 /\ home[b] \in Places BY Indices DEF Homed
    <2>1. CASE home[b] = TheList
      <3>1. b \in Listing(n, ch) BY <2>1 DEF FreeHome
      <3>2. PICK k \in 0 .. n : \E j \in 1 .. Len(ch[k]) : ch[k][j] = b BY <3>1 DEF Listing
      <3>3. PICK j \in 1 .. Len(ch[k]) : ch[k][j] = b BY <3>2
      <3>4. <<<<-1, k, j>>, ch[k][j]>> \in InList BY <1>1
      <3> QED BY <1>3, <2>0, <3>3, <3>4
    <2>2. CASE \E p \in Proc : home[b] = HandOf(p)
      <3>1. PICK p \in Proc : home[b] = HandOf(p) BY <2>2
      <3>2. u[p].pc \in HandPcs /\ u[p].bno = b BY <1>7, <3>1 DEF HandHome
      <3>3. <<<<p>>, b>> \in InHand BY <3>2, HandEntries
      <3> QED BY <1>3, <2>0, <3>3
    <2>3. CASE \E p \in Proc : home[b] = ToFree(p)
      <3>1. PICK p \in Proc : home[b] = ToFree(p) BY <2>3
      <3>2. b \in Range(u[p].todo) BY <1>7, <3>1 DEF TodoHome
      <3>3. PICK j \in DOMAIN u[p].todo : u[p].todo[j] = b BY <3>2 DEF Range
      <3>4. u[p].todo # <<>> BY <3>2, ChainOne
      <3>5. u[p].pc \in TruncPcs BY <1>7, <3>4
      <3>6. u[p].f \in File
        <4>1. u[p].pc # "user" BY <3>5 DEF TruncPcs
        <4> QED BY <1>0, <4>1, AtWork
      <3>7. FileEntry(u[p].f, <<<<-2, u[p].f, j>>, b>>) BY <3>3, <3>5 DEF FileEntry
      <3>8. <<<<-2, u[p].f, j>>, b>> \in InFile(u[p].f) BY <1>2, <3>6, <3>7
      <3> QED BY <1>3, <2>0, <3>6, <3>8
    <2>4. CASE \E f \in File : \E i \in Rows : home[b] = TopOf(f, i)
      <3>1. PICK f \in File : \E i \in Rows : home[b] = TopOf(f, i) BY <2>4
      <3>2. PICK i \in Rows : home[b] = TopOf(f, i) BY <3>1
      <3>3. Tops(f)[i] = b BY <1>6, <3>2
      <3>4. FileEntry(f, <<<<f, i>>, b>>) BY <2>0, <3>3 DEF FileEntry
      <3> QED BY <1>2, <1>3, <2>0, <3>4
    <2>5. CASE \E f \in File : \E i \in Rows, k \in Cols : home[b] = MidOf(f, i, k)
      <3>1. PICK f \in File : \E i \in Rows, k \in Cols : home[b] = MidOf(f, i, k) BY <2>5
      <3>2. PICK i \in Rows, k \in Cols : home[b] = MidOf(f, i, k) BY <3>1
      <3>3. MidAt(Holds, Tops(f), large[f], i, k) = b BY <1>6, <3>2
      <3>4. FileEntry(f, <<<<f, i, k>>, b>>) BY <2>0, <3>3 DEF FileEntry
      <3> QED BY <1>2, <1>3, <2>0, <3>4
    <2>6. CASE \E f \in File : \E k, j \in Cols : home[b] = LowOf(f, k, j)
      <3>1. PICK f \in File : \E k, j \in Cols : home[b] = LowOf(f, k, j) BY <2>6
      <3>2. PICK k \in Cols, j \in Cols : home[b] = LowOf(f, k, j) BY <3>1
      <3>3. LowAt(Holds, Tops(f), large[f], k, j) = b BY <1>6, <3>2
      <3>4. FileEntry(f, <<<<f, LastRow, k, j>>, b>>) BY <2>0, <3>3 DEF FileEntry
      <3> QED BY <1>2, <1>3, <2>0, <3>4
    <2> QED BY <2>0, <2>1, <2>2, <2>3, <2>4, <2>5, <2>6 DEF Places
  <1> QED BY <1>8, <1>9

LEMMA OnceEach ==
    ASSUME BlocksAssumption, BlocksInv PROVE EachOnce
  <1> SUFFICES ASSUME ~ stale PROVE Cardinality(Found1) = NBLOCK /\ {x[2] : x \in Found1} = Block
    BY DEF EachOnce, Found1
  <1>1. Good BY DEF BlocksInv
  <1>2. PICK home : Homed(home) BY <1>1 DEF Good
  <1>3. PICK n, ch : Linked(store, Start, n, ch) /\ Once(n, ch) /\ FreeHome(home) = Listing(n, ch)
    BY <1>2 DEF Homed, Listed
  <1>4. /\ \A x \in Found1 : Spot(home, n, ch, x)
        /\ \A b \in Block : \E x \in Found1 : x[2] = b BY <1>1, <1>2, <1>3, AllSpots
  <1>5. \A x, y \in Found1 : x[2] = y[2] => x = y BY <1>3, <1>4, SpotOne
  <1>6. \A x \in Found1 : x[2] \in Block BY <1>4 DEF Spot
  <1> DEFINE S == Found1
             g == [b \in Block |-> CHOOSE x \in S : x[2] = b]
  <1>7. {x[2] : x \in S} = Block BY <1>4, <1>6
  <1>8. \A b \in Block : g[b] \in S /\ g[b][2] = b BY <1>4
  <1>9. g \in [Block -> S] /\ \A x \in S : x[2] \in Block /\ g[x[2]] = x BY <1>5, <1>6, <1>8
  <1> HIDE DEF S, g
  <1>10. g \in Bijection(Block, S)
    <2>1. \A a, b \in Block : g[a] = g[b] => a = b BY <1>8
    <2>2. \A x \in S : \E b \in Block : g[b] = x BY <1>9
    <2> QED BY <1>9, <2>1, <2>2 DEF Bijection, Injection, Surjection, IsInjective
  <1>11. IsFiniteSet(Block) /\ Cardinality(Block) = NBLOCK
    BY FS_Interval DEF Block, BlocksAssumption
  <1>12. Cardinality(S) = NBLOCK BY <1>10, <1>11, FS_Bijection DEF ExistsBijection
  <1> QED BY <1>7, <1>12 DEF S

(* Whoever writes and truncates files, and however alloc, free, bmap and   *)
(* itrunc give way to each other where they sleep, each block is in one    *)
(* place: the free list, one file, or the hands of one process.            *)
THEOREM BlocksOnce ==
    ASSUME BlocksAssumption PROVE Spec => []EachOnce
  <1>1. Init => BlocksInv BY BlocksInit
  <1>2. BlocksInv /\ [Next]_vars => BlocksInv' BY BlocksNext
  <1>3. BlocksInv => EachOnce BY OnceEach
  <1> QED BY <1>1, <1>2, <1>3, PTL DEF Spec

===============================================================================
