---------------------------------- MODULE Bind ----------------------------------
(***************************************************************************)
(* BIND, the linker (BUILD/BIND/BIND.C): pass 1 places the public names    *)
(* and picks the library modules, between() lays out the reserved areas    *)
(* and the overlays, pass 2 copies the bytes through two buffers into the  *)
(* program and the overlay file and adds to each reference the address it  *)
(* names.  Sizes are words, below 64K; a block is CBLOCK or DBLOCK words.  *)
(*                                                                         *)
(* A module is [ov, lib, head, body]: assembled objects declare and place  *)
(* their names first, the bytes follow.  A name stands for its number.     *)
(***************************************************************************)
EXTENDS Naturals, Sequences, FiniteSets
CONSTANTS CBLOCK, DBLOCK, PAGE, HEAD, OVHEAD, MAXOVER, Name

BindAssumption == {CBLOCK, DBLOCK, PAGE} \subseteq Nat \ {0} /\ {HEAD, OVHEAD, MAXOVER} \subseteq Nat

LOCAL Least(S) == CHOOSE x \in S : \A y \in S : x <= y
LOCAL Greater(a, b) == IF a > b THEN a ELSE b
LOCAL Rounded(n) == ((n + PAGE - 1) \div PAGE) * PAGE
LOCAL Overlays == 0..MAXOVER
WORD == 65536

Entry(s, name) == [name |-> name, seg |-> s.seg, used |-> FALSE, defn |-> "other", ov |-> s.ov, len |-> 0]

HitsAny(s, name) == {i \in DOMAIN s.tab : s.tab[i].name = name}
Hits(s, name) == {i \in DOMAIN s.tab :
    s.tab[i].name = name /\ (s.ov = 0 \/ s.tab[i].ov = 0 \/ s.tab[i].ov = s.ov)}

Anew(s, e) == IF e.defn \in {"type", "typeres"} THEN [Entry(s, e.name) EXCEPT !.used = e.used] ELSE e

(* PUBLIC.  The root's name takes the place of those of all overlays.      *)
find(s, name) ==
    LET hits  == Hits(s, name)
        first == Least(hits)
    IN  IF hits = {}
        THEN [s EXCEPT !.tab = Append(@, Entry(s, name)), !.lab[name] = [is |-> "public", at |-> Len(s.tab) + 1]]
        ELSE [s EXCEPT
                !.tab = <<>> \o [i \in 1..Len(s.tab) |->
                    IF i = first THEN Anew(s, s.tab[i])
                    ELSE IF s.ov = 0 /\ i \in hits THEN [Anew(s, s.tab[i]) EXCEPT !.defn = "type"]
                    ELSE s.tab[i]],
                !.nerr = IF s.pass = 1 /\ Anew(s, s.tab[first]).seg # s.seg THEN @ + 1 ELSE @,
                !.lab[name] = [is |-> "public", at |-> first]]

(* STATIC: for the check file only; a public of that name goes before it.  *)
findStatic(s, name) ==
    LET hits == Hits(s, name)
    IN  IF hits = {}
        THEN [s EXCEPT !.tab = Append(@, Entry(s, name)), !.lab[name] = [is |-> "type", at |-> Len(s.tab) + 1]]
        ELSE IF s.tab[Least(hits)].defn = "type"
        THEN [s EXCEPT !.lab[name] = [is |-> "type", at |-> Least(hits)]]
        ELSE s

----
NoLabs == [n \in Name |-> [is |-> "other", at |-> 0]]

Opened(s, m) == [s EXCEPT !.ov = m.ov, !.offs = s.over[m.ov], !.seg = "d", !.lab = NoLabs]

(* A name of an earlier module that something waits for makes the module   *)
(* needed.                                                                 *)
Waited(s, i) == i <= s.old /\ s.tab[i].used

Reserve(s, r) ==
    LET i == s.lab[r.name].at
    IN  CASE s.lab[r.name].is = "public" /\ s.tab[i].defn = "other" ->
                [s EXCEPT !.tab[i] = [@ EXCEPT !.defn = "reserve", !.len = r.len, !.ov = s.ov],
                          !.needed = @ \/ Waited(s, i)]
          [] s.lab[r.name].is = "public" /\ s.tab[i].defn = "reserve" ->
                [s EXCEPT !.tab[i] = [@ EXCEPT !.len = Greater(@, r.len), !.ov = IF s.ov = 0 THEN 0 ELSE @]]
          [] s.lab[r.name].is = "public" -> s
          [] s.lab[r.name].is = "type" ->
                [s EXCEPT !.tab[i] = [@ EXCEPT !.defn = "typeres", !.ov = s.ov, !.len = s.offs.r],
                          !.offs.r = @ + r.len]
          [] OTHER -> [s EXCEPT !.offs.r = @ + r.len]

Local(s, r) ==
    LET i  == s.lab[r.name].at
        at == r.at + s.offs[s.seg]
    IN  CASE s.lab[r.name].is = "public" /\ s.tab[i].defn = "public" ->
                [s EXCEPT !.nerr = IF s.needed THEN @ + 1 ELSE @]
          [] s.lab[r.name].is = "public" ->
                [s EXCEPT !.tab[i] = [@ EXCEPT !.defn = "public", !.len = at, !.ov = s.ov],
                          !.patches = @ \cup {i}, !.needed = @ \/ Waited(s, i)]
          [] s.lab[r.name].is = "type" -> [s EXCEPT !.tab[i] = [@ EXCEPT !.ov = s.ov, !.len = at]]
          [] OTHER -> s

Scan1(s, r) ==
    CASE r.op = "seg"     -> [s EXCEPT !.seg = r.seg]
      [] r.op = "public"  -> find(s, r.name)
      [] r.op = "static"  -> findStatic(s, r.name)
      [] r.op = "reserve" -> Reserve(s, r)
      [] r.op = "local"   -> Local(s, r)
      [] r.op = "bytes"   -> [s EXCEPT !.offs[s.seg] = @ + r.n]
      [] r.op \in {"name", "jump"} ->
            IF s.needed /\ s.lab[r.name].is = "public" THEN [s EXCEPT !.tab[s.lab[r.name].at].used = TRUE] ELSE s

(* The end of a module: a library's that nothing needs leaves no trace.    *)
ClosedKeeps(s, before) ==
    IF s.needed THEN [s EXCEPT !.over[s.ov] = s.offs, !.want = Append(@, TRUE)]
    ELSE [s EXCEPT !.tab = SubSeq(@, 1, s.old), !.over = before, !.want = Append(@, FALSE)]
Closed1(s, before) ==
    IF s.needed THEN [s EXCEPT !.over[s.ov] = s.offs, !.want = Append(@, TRUE)]
    ELSE [s EXCEPT !.tab = <<>> \o [i \in 1..s.old |-> IF i \in s.patches THEN [s.tab[i] EXCEPT !.defn = "other"] ELSE s.tab[i]],
                   !.over = before, !.want = Append(@, FALSE)]

pass1(s, m) ==
    LET start == [Opened(s, m) EXCEPT !.needed = ~m.lib, !.patches = {}, !.old = Len(s.tab)]
        recs  == m.head \o m.body
        after[i \in 0..Len(recs)] == IF i = 0 THEN start ELSE Scan1(after[i - 1], recs[i])
    IN  Closed1(after[Len(recs)], s.over)

----
MostOf(over, seg) == LET sizes == {over[o][seg] : o \in Overlays \ {0}} \cup {0}
                     IN  CHOOSE n \in sizes : \A k \in sizes : k <= n

(* The reserved areas of overlay o up to entry n of the table.             *)
Areas(tab, o, n) ==
    LET sum[i \in 0..n] == IF i = 0 THEN 0
                           ELSE sum[i - 1] + (IF tab[i].defn = "reserve" /\ tab[i].ov = o THEN tab[i].len ELSE 0)
    IN  sum[n]

between(s) ==
    LET rootd == s.over[0].d
        based == rootd + s.over[0].r + Areas(s.tab, 0, Len(s.tab))
        base  == [d |-> based, c |-> s.over[0].c]
        first == [o \in Overlays |-> IF o = 0 THEN rootd ELSE based + s.over[o].d]
        over  == [o \in Overlays |-> [s.over[o] EXCEPT !.r = @ + Areas(s.tab, o, Len(s.tab))]]
        codes == Rounded(s.over[0].c + MostOf(s.over, "c"))
    IN  [s EXCEPT
            !.pass = 2, !.ov = 0,
            !.nerr = @ + Cardinality({i \in DOMAIN s.tab : s.tab[i].defn = "other" /\ s.tab[i].used}),
            !.tab  = <<>> \o [i \in DOMAIN s.tab |->
                CASE s.tab[i].defn = "reserve" ->
                        [s.tab[i] EXCEPT !.len = first[s.tab[i].ov] + Areas(s.tab, s.tab[i].ov, i - 1)]
                  [] s.tab[i].ov # 0 -> [s.tab[i] EXCEPT !.len = @ + base[s.tab[i].seg]]
                  [] OTHER -> s.tab[i]],
            !.over = [o \in Overlays |->
                [d |-> IF o = 0 THEN 0 ELSE base.d, c |-> IF o = 0 THEN 0 ELSE base.c, r |-> over[o].r,
                 at |-> first[o] + Areas(s.tab, o, Len(s.tab))]],
            !.sizes = over, !.bases = base, !.alldata = based + MostOf(over, "d") + MostOf(over, "r"),
            !.out   = [code |-> [i \in 1..HEAD |-> 0], data |-> <<>>, to |-> "exe", at |-> 0,
                       codeout |-> 0, codetot |-> codes + HEAD, dataout |-> 0, datatot |-> Rounded(rootd)],
            !.file  = [exe |-> <<>>, ov |-> [i \in 1..OVHEAD |-> 0]],
            !.ovat  = OVHEAD]

----
(* Writing at an offset of the file: what lies between is left a hole.     *)
Hole == 9999
Written(f, at, words) ==
    SubSeq(f, 1, Least({at, Len(f)})) \o [i \in 1..(Greater(at, Len(f)) - Len(f)) |-> Hole] \o words \o SubSeq(f, at + Len(words) + 1, Len(f))

LOCAL Cut(words, n) == SubSeq(words, n + 1, Len(words))

ocode(s, n) ==
    LET o == s.out
    IN  [s EXCEPT !.file[o.to] = Written(@, o.codeout, SubSeq(o.code, 1, n)),
                  !.out = [o EXCEPT !.at = o.codeout + n, !.codeout = @ + n, !.code = Cut(@, n)]]

(* The first data follow the code: what is not there yet is written over   *)
(* later.                                                                  *)
odata(s, n) ==
    LET o      == s.out
        target == o.codetot + o.dataout
        words  == [i \in 1..n |-> IF i <= Len(o.data) THEN o.data[i] ELSE Hole]
        padded == IF o.at # target /\ o.dataout = 0
                  THEN Written(s.file[o.to], o.at, [i \in 1..(target - o.codeout) |-> Hole])
                  ELSE s.file[o.to]
        at     == IF o.at # target /\ o.dataout = 0 THEN o.at + target - o.codeout ELSE target
    IN  [s EXCEPT !.file[o.to] = Written(padded, at, words),
                  !.out = [o EXCEPT !.at = target + n, !.dataout = @ + n, !.data = Cut(@, n)]]

Drained(s) == LET coded == ocode(s, Len(s.out.code))
              IN  IF s.out.data # <<>> THEN odata(coded, Len(s.out.data)) ELSE coded

(* From overlay s.ov to ov: the root's place is kept, an overlay's is after *)
(* those before it.                                                        *)
LOCAL Earlier(s, ov) ==
    LET sum[o \in 0..MAXOVER] == IF o = 0 THEN 0 ELSE sum[o - 1] + s.sizes[o].c + s.sizes[o].d
    IN  IF ov = 0 THEN 0 ELSE sum[ov - 1]
LOCAL Kept(d) == IF d.ov = 0 THEN [d EXCEPT !.root = d.out] ELSE [d EXCEPT !.ovat = d.out.at]
LOCAL Resumed(s, ov, before) ==
    IF ov = 0 THEN [s EXCEPT !.out = s.root]
    ELSE [s EXCEPT !.out = [
            code |-> <<>>, data |-> <<>>, to |-> "ov", at |-> s.ovat,
            codeout |-> OVHEAD + before, codetot |-> OVHEAD + before + s.sizes[ov].c,
            dataout |-> 0, datatot |-> s.sizes[ov].d]]
SetLocationUndrained(s, ov) == IF ov = s.ov THEN s ELSE Resumed(Kept(s), ov, Earlier(s, ov))
set_location(s, ov) ==
    IF ov = s.ov THEN s ELSE Resumed(Kept(Drained(s)), ov, Earlier(s, ov))

Bytes(s, n) ==
    LET buf   == IF s.seg = "d" THEN s.out.data ELSE s.out.code
        more  == buf \o [i \in 1..n |-> 0]
        grown == [s EXCEPT !.offs[s.seg] = @ + n, !.fix = s.seg]
    IN  IF s.seg = "d"
        THEN IF Len(more) > DBLOCK THEN odata([grown EXCEPT !.out.data = more], DBLOCK) ELSE [grown EXCEPT !.out.data = more]
        ELSE IF Len(more) > CBLOCK THEN ocode([grown EXCEPT !.out.code = more], CBLOCK) ELSE [grown EXCEPT !.out.code = more]

(* The last word written is still in its buffer.                           *)
Fix(s, by) == IF s.fix = "d" THEN [s EXCEPT !.out.data[Len(s.out.data)] = (@ + by) % WORD]
              ELSE [s EXCEPT !.out.code[Len(s.out.code)] = (@ + by) % WORD]

Address(s, name) == LET l == s.lab[name] IN IF l.is = "public" THEN s.tab[l.at].len ELSE l.at

Scan2(s, r) ==
    CASE r.op = "seg"     -> [s EXCEPT !.seg = r.seg]
      [] r.op = "public"  -> find(s, r.name)
      [] r.op = "static"  -> findStatic(s, r.name)
      [] r.op = "reserve" ->
            CASE s.lab[r.name].is = "other" -> [s EXCEPT !.lab[r.name].at = s.offs.at, !.offs.at = @ + r.len]
              [] s.lab[r.name].is = "type"  -> [s EXCEPT !.lab[r.name].is = "public", !.offs.at = @ + r.len,
                                                         !.tab[s.lab[r.name].at].len = s.offs.at]
              [] OTHER -> s
      [] r.op = "local"   -> IF s.lab[r.name].is = "public" THEN s
                             ELSE [s EXCEPT !.lab[r.name] = [is |-> "other", at |-> r.at + s.offs[s.seg]]]
      [] r.op = "bytes"   -> Bytes(s, r.n)
      [] r.op = "name"    -> Fix(s, Address(s, r.name))
      [] r.op = "jump"    -> Fix(s, Address(s, r.name) + WORD - s.offs[s.seg])

(* A module that is not wanted is passed over.                             *)
LOCAL Scanned(start, m, want) ==
    LET recs == m.head \o m.body
        after[i \in 0..Len(recs)] == IF i = 0 THEN start ELSE Scan2(after[i - 1], recs[i])
        last  == after[Len(recs)]
    IN  IF want THEN [last EXCEPT !.over[m.ov] = last.offs] ELSE start
pass2(s, m, want) == Scanned(Opened(set_location(s, m.ov), m), m, want)

endup(s) == LET coded == ocode(s, Len(s.out.code))
            IN  IF coded.out.datatot > coded.out.dataout THEN odata(coded, coded.out.datatot - coded.out.dataout) ELSE coded

Empty == [pass |-> 1, tab |-> <<>>, over |-> [o \in Overlays |-> [d |-> 0, c |-> 0, r |-> 0, at |-> 0]],
          nerr |-> 0, want |-> <<>>, ov |-> 0, offs |-> [d |-> 0, c |-> 0, r |-> 0, at |-> 0], seg |-> "d",
          lab |-> NoLabs, needed |-> TRUE, patches |-> {}, old |-> 0, fix |-> "c",
          sizes |-> <<>>, bases |-> <<>>, alldata |-> 0, out |-> <<>>, root |-> <<>>, file |-> <<>>, ovat |-> 0]

Link(mods) ==
    LET one[k \in 0..Len(mods)] == IF k = 0 THEN Empty ELSE pass1(one[k - 1], mods[k])
        mid == between(one[Len(mods)])
        two[k \in 0..Len(mods)] == IF k = 0 THEN mid ELSE pass2(two[k - 1], mods[k], mid.want[k])
    IN  endup(set_location(two[Len(mods)], 0))      \* CSTDIO.S comes last

----
(* What linking means, told from the modules alone.                        *)
LOCAL Says(m, op, name) == \E i \in DOMAIN m.head : m.head[i].op = op /\ m.head[i].name = name
LOCAL Public(m, n) == Says(m, "public", n)
LOCAL Gives(m, n)  == Public(m, n) /\ Says(m, "local", n)
LOCAL Shares(m, n) == Public(m, n) /\ Says(m, "reserve", n)
LOCAL SegAt(m, i) == LET segs == {j \in 1..i : m[j].op = "seg"}
                     IN  m[CHOOSE j \in segs : \A k \in segs : k <= j].seg
LOCAL Size(m, seg, upto) ==
    LET sum[i \in 0..upto] == IF i = 0 THEN 0 ELSE
            sum[i - 1] + (IF m.body[i].op = "bytes" /\ SegAt(m.body, i) = seg THEN m.body[i].n ELSE 0)
    IN  sum[upto]
LOCAL Refs(m) == {i \in DOMAIN m.body : m.body[i].op \in {"name", "jump"}}
LOCAL Sees(a, b) == a.ov = 0 \/ b.ov = 0 \/ a.ov = b.ov

(* The modules of the program: a library's only for a name that one before *)
(* it refers to and none gives.                                            *)
LOCAL Program(mods) ==
    LET in[k \in 0..Len(mods)] ==
            IF k = 0 THEN {} ELSE LET before == in[k - 1] IN
                IF \/ ~mods[k].lib
                   \/ \E n \in Name :
                        /\ \E j \in before : Public(mods[j], n) /\ \E i \in Refs(mods[j]) : mods[j].body[i].name = n
                        /\ ~\E j \in before : Gives(mods[j], n)
                        /\ Gives(mods[k], n) \/ (Shares(mods[k], n) /\ ~\E j \in before : Shares(mods[j], n))
                THEN before \cup {k} ELSE before
    IN  in[Len(mods)]

(* Left out, for what BIND then does: a name an overlay gives that another *)
(* overlay and the root or a library also name.                            *)
LOCAL Parted(mods, n) ==
    \A j \in DOMAIN mods : (Gives(mods[j], n) \/ Shares(mods[j], n)) /\ mods[j].ov # 0 =>
        LET namers == {mods[k].ov : k \in {i \in DOMAIN mods : Public(mods[i], n) \/ Says(mods[i], "static", n)}} IN 0 \in namers => namers \subseteq {0, mods[j].ov}

LOCAL Linked(mods, L, in) ==
    LET At(f, i) == IF i \in DOMAIN f THEN f[i] ELSE Hole
        Laid(k, seg) ==
            LET sum[j \in 0..(k - 1)] == IF j = 0 THEN 0 ELSE sum[j - 1] +
                    (IF j \in in /\ mods[j].ov = mods[k].ov THEN Size(mods[j], seg, Len(mods[j].body)) ELSE 0)
            IN  sum[k - 1]
        Start(k, seg)  == Laid(k, seg) + (IF mods[k].ov = 0 THEN 0 ELSE L.bases[seg])
        Before(ov)     == LET sum[o \in 0..ov] == IF o = 0 THEN OVHEAD ELSE sum[o - 1] + (IF o < ov THEN L.sizes[o].c + L.sizes[o].d ELSE 0)
                          IN  sum[ov]
        Word(k, i)     ==
            LET seg == SegAt(mods[k].body, i)
                at  == Laid(k, seg) + Size(mods[k], seg, i)
            IN  IF mods[k].ov = 0 THEN At(L.file.exe, at + (IF seg = "c" THEN HEAD ELSE L.out.codetot))
                ELSE At(L.file.ov, at + Before(mods[k].ov) + (IF seg = "c" THEN 0 ELSE L.sizes[mods[k].ov].c))
        Value(k, i)    ==
            IF mods[k].body[i].op = "name" THEN Word(k, i)
            ELSE (Word(k, i) + Start(k, SegAt(mods[k].body, i)) + Size(mods[k], SegAt(mods[k].body, i), i)) % WORD
        Uses           == {<<k, i>> \in in \X (1..8) : i \in Refs(mods[k])}
        NameOf(x)      == mods[x[1]].body[x[2]].name
        Seen(k, n, P(_, _)) == {j \in in : P(mods[j], n) /\ Public(mods[k], n) /\ Sees(mods[k], mods[j])}
        Here(k, n)     ==
            LET i == Least({h \in DOMAIN mods[k].head : mods[k].head[h].op = "local" /\ mods[k].head[h].name = n})
            IN  Start(k, SegAt(mods[k].head, i)) + mods[k].head[i].at
        Length(k, n)   ==
            LET lens == {mods[j].head[i].len : <<j, i>> \in
                            {x \in (Seen(k, n, Shares) \cup {k}) \X (1..8) :
                                /\ x[2] \in DOMAIN mods[x[1]].head
                                /\ mods[x[1]].head[x[2]].op = "reserve" /\ mods[x[1]].head[x[2]].name = n}}
            IN  CHOOSE l \in lens : \A m \in lens : m <= l
        Datas(ov)      == LET ks == {k \in in : mods[k].ov = ov}
                              sum[k \in 0..Len(mods)] == IF k = 0 THEN 0 ELSE sum[k - 1] +
                                    (IF k \in ks THEN Size(mods[k], "d", Len(mods[k].body)) ELSE 0)
                          IN  sum[Len(mods)]
        Bad            == \E x \in Uses : Public(mods[x[1]], NameOf(x)) /\ Seen(x[1], NameOf(x), Gives) \cup Seen(x[1], NameOf(x), Shares) = {}
        Twice          == \E n \in Name : \E j, k \in in : j # k /\ Gives(mods[j], n) /\ Gives(mods[k], n) /\ Sees(mods[j], mods[k])
        Given(x)       == Seen(x[1], NameOf(x), Gives)
        Inner(x)       == ~Public(mods[x[1]], NameOf(x)) /\ Says(mods[x[1]], "local", NameOf(x))
        Areas2         == {x \in Uses : Given(x) = {} /\ ~Inner(x)}
        Near(x, y)     == Sees(mods[x[1]], mods[y[1]])
        Same(x, y)     == NameOf(x) = NameOf(y) /\
                            (x[1] = y[1] \/ (Public(mods[x[1]], NameOf(x)) /\ Public(mods[y[1]], NameOf(x))))
        From(x)        == Value(x[1], x[2])
        To(x)          == From(x) + Length(x[1], NameOf(x))
    IN  (\A n \in Name : Parted(mods, n)) =>
            /\ \A k \in DOMAIN mods : L.want[k] = (k \in in)
            /\ (L.nerr = 0) = ~(Bad \/ Twice)
            /\ L.nerr = 0 =>
                /\ \A x \in Uses \ Areas2 : From(x) = Here(IF Inner(x) THEN x[1] ELSE Least(Given(x)), NameOf(x))
                /\ \A x \in Areas2 :
                    /\ From(x) >= Datas(0) /\ To(x) <= L.alldata
                    /\ mods[x[1]].ov # 0 => To(x) <= L.bases.d \/ From(x) >= L.bases.d + Datas(mods[x[1]].ov)
                /\ \A x, y \in Areas2 : Near(x, y) =>
                    IF Same(x, y) THEN From(x) = From(y) ELSE To(x) <= From(y) \/ To(y) <= From(x)
LinksRight(mods) == Linked(mods, Link(mods), Program(mods))
====
