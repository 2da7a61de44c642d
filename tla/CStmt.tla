---------------------------------- MODULE CStmt ----------------------------------
(***************************************************************************)
(* Statements through both passes of the compiler: C88's parser makes a    *)
(* tree of them (C3.C) and GEN labels and jumps of that (GEN2.C, GEN4.C).  *)
(* An expression is opaque, an event named by its token; a condition is    *)
(* given as its tree, in Polish.  The code is run beside the text.         *)
(***************************************************************************)
EXTENDS Integers, Sequences, FiniteSets

CONSTANTS
    LISTS,              \* statements in a list node
    MAXFOR, MAXCASE,    \* GEN's arrays of loops and of cases, entry 0 unused
    CaseValue           \* the number each case token stands for

Tok(ts, p) == IF p <= Len(ts) THEN ts[p] ELSE "end"
Default == -32768       \* 0x8000 stands for default among the cases

----
(* C88.  A tree is its kind and its parts; none is node 0.                 *)
None == <<"NULL">>
At(p, t) == [at |-> p, t |-> t]

RECURSIVE pexpr(_, _), Second(_, _, _)
Second(op, l, r) == At(r.at, <<op, l.t, r.t>>)
pexpr(ts, p) ==
    CASE Tok(ts, p) \in {"&&", "||"} -> LET l == pexpr(ts, p + 1) IN Second(Tok(ts, p), l, pexpr(ts, l.at))
      [] Tok(ts, p) = "!"  -> LET l == pexpr(ts, p + 1) IN At(l.at, <<"!", l.t>>)
      [] Tok(ts, p) = "no" -> At(p + 1, None)
      [] OTHER -> At(p + 1, <<Tok(ts, p), p>>)

RECURSIVE statement(_, _), compound(_, _, _)
doelse(ts, c, s) ==
    IF Tok(ts, s.at) = "else" THEN LET e == statement(ts, s.at + 1) IN At(e.at, <<"IFE", c.t, s.t, e.t>>)
    ELSE At(s.at, <<"IFE", c.t, s.t, None>>)
dowhile(ts, p, c, s) ==
    CASE ts[p] = "if"    -> doelse(ts, c, s)
      [] ts[p] = "while" -> At(s.at, <<"WHIL", c.t, s.t>>)
      [] ts[p] = "for"   -> At(s.at, <<"FORS", p, c.t, s.t>>)
dodow(ts, s) == LET c == pexpr(ts, s.at + 1) IN At(c.at, <<"DOW", s.t, c.t>>)
Labelled(ts, p, s) ==
    CASE ts[p] \in DOMAIN CaseValue -> At(s.at, <<"CAS", s.t, CaseValue[ts[p]]>>)
      [] ts[p] = "default" -> At(s.at, <<"DFLT", s.t>>)
      [] ts[p] = "L:"      -> At(s.at, <<"LAB", s.t>>)
      [] ts[p] = "switch"  -> At(s.at, <<"SWIT", p, s.t>>)

Single == [t \in {"break", "continue", "goto", "return"} |->
    CASE t = "break" -> "BRK" [] t = "continue" -> "CONT" [] t = "goto" -> "GOTOS" [] t = "return" -> "RET"]
statement(ts, p) ==
    CASE Tok(ts, p) \in {"if", "while", "for"} ->
            LET c == pexpr(ts, p + 1) IN dowhile(ts, p, c, statement(ts, c.at))
      [] Tok(ts, p) = "do" -> dodow(ts, statement(ts, p + 1))
      [] Tok(ts, p) \in {"switch", "default", "L:"} \cup DOMAIN CaseValue -> Labelled(ts, p, statement(ts, p + 1))
      [] Tok(ts, p) = "{" -> compound(ts, p + 1, <<>>)
      [] Tok(ts, p) \in DOMAIN Single -> At(p + 1, <<Single[ts[p]]>>)
      [] Tok(ts, p) = ";" -> At(p + 1, None)
      [] OTHER -> At(p + 1, <<"expr", p>>)

(* A full list becomes the first of the next.                              *)
Chained(list) == IF Len(list) = LISTS THEN <<<<"LST", list>>>> ELSE list
Closing(list) == CASE list = <<>> -> None [] Len(list) = 1 -> list[1] [] OTHER -> <<"LST", list>>
Listed(list, s) == IF s.t = None THEN list ELSE Chained(Append(list, s.t))
compound(ts, p, list) ==
    IF Tok(ts, p) = "}" THEN At(p + 1, Closing(list))
    ELSE LET s == statement(ts, p) IN compound(ts, s.at, Listed(list, s))

----
(* GEN.  g: the code so far, the last label given out, and for each loop   *)
(* or switch its label for break and continue and the last of its cases.   *)
Nowhere == 0
Named   == -1           \* the label of the source
Gen0 == [code |-> <<>>, lab |-> 0, brk |-> <<>>, cont |-> <<>>, next |-> <<>>, bad |-> FALSE]
Put(g, ins)     == [g EXCEPT !.code = Append(@, ins)]
genlab(g, l)    == Put(g, <<"label", l>>)
jmp(g, l)       == Put(g, <<"jmp", l>>)
New(g, k)       == [g EXCEPT !.lab = @ + k]
numwhil(g)      == Len(g.brk)
Into(g, brk, cont, next) ==
    [g EXCEPT !.brk = Append(@, brk), !.cont = Append(@, cont), !.next = Append(@, next),
              !.bad = @ \/ Len(g.brk) + 1 >= MAXFOR]
Out(g) == [g EXCEPT !.brk = SubSeq(@, 1, Len(@) - 1), !.cont = SubSeq(@, 1, Len(@) - 1), !.next = SubSeq(@, 1, Len(@) - 1)]

(* Jump to l if the condition is as wanted.                                *)
RECURSIVE gencond(_, _, _, _), genstmt(_, _), genlist(_, _, _)
Either(g, t, true, l)     == gencond(gencond(g, t[2], true, l), t[3], true, l)
PastBoth(g, t, true, l)   == genlab(Either(New(g, 1), t, true, l), g.lab + 1)
PastSecond(g, t, true, l) == genlab(gencond(gencond(New(g, 1), t[2], ~true, g.lab + 1), t[3], true, l), g.lab + 1)
gencond(g, t, true, l) ==
    CASE t[1] \in {"&&", "||"} ->
            IF (t[1] = "||") = true THEN Either(g, t, true, l) ELSE PastSecond(g, t, true, l)
      [] t[1] = "!"    -> gencond(g, t[2], ~true, l)
      [] t[1] \in {"NULL", "1"} -> IF true THEN jmp(g, l) ELSE g
      [] t[1] = "0"    -> IF true THEN g ELSE jmp(g, l)
      [] OTHER         -> Put(g, <<IF true THEN "jnz" ELSE "jz", t[2], l>>)

(* The cases of a switch, in the order of their labels.                    *)
RECURSIVE casefind(_)
casefind(t) ==
    CASE t[1] = "LST"  -> LET all[i \in 0..Len(t[2])] == IF i = 0 THEN <<>> ELSE all[i - 1] \o casefind(t[2][i]) IN all[Len(t[2])]
      [] t[1] = "CAS"  -> <<t[3]>> \o casefind(t[2])
      [] t[1] = "DFLT" -> <<Default>> \o casefind(t[2])
      [] t[1] = "LAB"  -> casefind(t[2])
      [] OTHER         -> <<>>

Largest(s)  == CHOOSE m \in s : \A n \in s : n <= m
Smallest(s) == CHOOSE m \in s : \A n \in s : m <= n
Place(swits, v) == {i \in DOMAIN swits : swits[i] = v}
(* Where v goes: by a table of n labels from the least case on, or by      *)
(* _SWITCH.  With no case but default n wraps to 3.                        *)
Wrapped(n) == ((n + 32768) % 65536) - 32768
Table(swits, base, deflab, lo, n) ==
    <<"table", lo, [i \in 1..n |->
        LET is == Place(swits, lo + i - 1) IN IF is = {} THEN deflab ELSE base + Largest(is)], deflab>>
Fast(numswit, n) == numswit + 4 > n \div 3 /\ n <= 100 /\ n > 0
Dispatched(swits, base, deflab, lo, n) ==
    IF Fast(Len(swits), n) THEN Table(swits, base, deflab, lo, n) ELSE <<"_SWITCH", swits, base>>
dispatch(swits, base, deflab) ==
    LET vs == {swits[i] : i \in DOMAIN swits} \ {Default}
        lo == Smallest(vs \cup {32767})
    IN  Dispatched(swits, base, deflab, lo, Wrapped(Largest(vs \cup {-32767}) - lo + 1))

Body(g, t, brk) == genlab(Out(genstmt(g, t)), brk)
(* With no default there is one more case, whose label is the break's.     *)
doswit(g, p, t, cases) ==
    LET gotdef == Default \in {cases[i] : i \in DOMAIN cases}
        swits  == IF gotdef THEN cases ELSE Append(cases, Default)
        deflab == g.lab + Largest(Place(swits, Default))
        brk    == g.lab + Len(swits) + (IF gotdef THEN 1 ELSE 0)
        cont   == IF numwhil(g) > 0 THEN g.cont[numwhil(g)] ELSE Nowhere
        full   == cases = <<>> \/ Len(cases) >= MAXCASE - 1
    IN  Body(Into([Put(g, <<"value", p>> \o dispatch(swits, g.lab, deflab))
                      EXCEPT !.lab = brk + 1, !.bad = @ \/ full], brk, cont, g.lab), t, brk)

(* if, while, do, for: the labels in the order they are given out.         *)
doife(g, t) ==
    LET then == genstmt(gencond(New(g, 1), t[2], FALSE, g.lab + 1), t[3])
    IN  IF t[4] = None THEN genlab(then, g.lab + 1)
        ELSE genlab(genstmt(genlab(jmp(New(then, 1), then.lab + 1), g.lab + 1), t[4]), then.lab + 1)
dowhil(g, t) ==
    LET lab == g.lab + 1
    IN  genlab(jmp(Out(genstmt(gencond(genlab(Into(New(g, 2), lab + 1, lab, 0), lab), t[2], FALSE, lab + 1), t[3])), lab), lab + 1)
dodo(g, t) ==
    LET lab == g.lab + 1
    IN  genlab(Out(gencond(genlab(genstmt(genlab(Into(New(g, 3), lab + 2, lab + 1, 0), lab), t[2]), lab + 1), t[3], TRUE, lab)), lab + 2)
dofors(g, t) ==
    LET lab  == g.lab + 1
        head == gencond(genlab(Into(Put(New(g, 2), <<"pre", t[2]>>), lab + 1, Nowhere, 0), lab), t[3], FALSE, lab + 1)
        cont == head.lab + 1
        in   == [New(head, 1) EXCEPT !.cont[numwhil(head)] = cont]
    IN  genlab(Out(jmp(Put(genlab(genstmt(in, t[4]), cont), <<"post", t[2]>>), lab)), lab + 1)

Wrong(g) == [g EXCEPT !.bad = TRUE]
Case(g, t) ==
    IF numwhil(g) = 0 THEN Wrong(g)
    ELSE genstmt([genlab(g, g.next[numwhil(g)] + 1) EXCEPT !.next[numwhil(g)] = @ + 1], t)
genlist(g, ts, i) == IF i > Len(ts) THEN g ELSE genlist(genstmt(g, ts[i]), ts, i + 1)
genstmt(g, t) ==
    CASE t[1] = "NULL"  -> g
      [] t[1] = "expr"  -> Put(g, t)
      [] t[1] = "LST"   -> genlist(g, t[2], 1)
      [] t[1] = "LAB"   -> genstmt(genlab(g, Named), t[2])
      [] t[1] = "IFE"   -> doife(g, t)
      [] t[1] = "WHIL"  -> dowhil(g, t)
      [] t[1] = "DOW"   -> dodo(g, t)
      [] t[1] = "FORS"  -> dofors(g, t)
      [] t[1] = "SWIT"  -> doswit(g, t[2], t[3], casefind(t[3]))
      [] t[1] \in {"CAS", "DFLT"} -> Case(g, t[2])
      [] t[1] = "RET"   -> Put(g, <<"return">>)
      [] t[1] = "GOTOS" -> jmp(g, Named)
      [] t[1] = "BRK"   -> IF numwhil(g) = 0 THEN Wrong(g) ELSE jmp(g, g.brk[numwhil(g)])
      [] t[1] = "CONT"  -> IF numwhil(g) = 0 \/ g.cont[numwhil(g)] = Nowhere THEN Wrong(g) ELSE jmp(g, g.cont[numwhil(g)])
Compile(ts) == genstmt(Gen0, statement(ts, 1).t)

----
(* What the text means: where control is and where it goes next.  A node   *)
(* is its first token; it ends before token Ends(ts)[p].                   *)
Marks == {"else", "}", "while;"}
Leaves == {"x", "c", "0", "1", "no", ";"} \cup DOMAIN Single
EndOf(ts, p, later) ==
    LET E(q) == IF q - p \in DOMAIN later THEN later[q - p] ELSE q
        deep[q \in (p - 1)..Len(ts)] ==
            IF q < p THEN 0 ELSE deep[q - 1] + (CASE ts[q] = "{" -> 1 [] ts[q] = "}" -> -1 [] OTHER -> 0)
    IN  CASE ts[p] \in Leaves \cup Marks -> p + 1
          [] ts[p] \in {"while", "for", "&&", "||"} -> E(E(p + 1))
          [] ts[p] = "if" -> IF Tok(ts, E(E(p + 1))) = "else" THEN E(E(E(p + 1)) + 1) ELSE E(E(p + 1))
          [] ts[p] = "do" -> E(E(p + 1) + 1)
          [] ts[p] = "{"  -> Smallest({q \in p..Len(ts) : deep[q] = 0} \cup {Len(ts)}) + 1
          [] OTHER -> E(p + 1)
Before(ts, p, later) == <<EndOf(ts, p, later)>> \o later
Ends(ts) == LET f[k \in 0..Len(ts)] == IF k = 0 THEN <<>> ELSE Before(ts, Len(ts) - k + 1, f[k - 1]) IN f[Len(ts)]

(* t: the text and the end of each of its nodes.                           *)
Around(t, p) == {q \in 1..(p - 1) : t.end[q] > p /\ t.ts[q] \notin Marks}
Parent(t, p) == LET a == Around(t, p) IN IF a = {} THEN 0 ELSE Largest(a)
Loops == {"while", "do", "for"}
Within(t, p, kinds) == LET a == {q \in Around(t, p) : t.ts[q] \in kinds} IN IF a = {} THEN 0 ELSE Largest(a)
Cases == DOMAIN CaseValue \cup {"default"}
OwnCases(t, p) == {q \in (p + 1)..(t.end[p] - 1) : t.ts[q] \in Cases /\ Within(t, q, {"switch"}) = p}

Do(p)    == <<"at", p>>
Done(p)  == <<"done", p>>
Is(p, v) == <<"is", p, v>>
Seek(t, p, v) ==
    LET own == OwnCases(t, p)
        hit == {q \in own : t.ts[q] # "default" /\ CaseValue[t.ts[q]] = v}
        def == {q \in own : t.ts[q] = "default"}
    IN  IF hit \cup def = {} THEN Done(p) ELSE Do(Smallest(IF hit # {} THEN hit ELSE def))

Cond(t, q)  == IF t.ts[q] = "do" THEN t.end[q + 1] + 1 ELSE q + 1
Again(t, q) == IF t.ts[q] = "for" THEN <<"post", q>> ELSE Do(Cond(t, q))
Else(t, q)  == LET e == t.end[t.end[q + 1]] IN IF e < t.end[q] THEN Do(e + 1) ELSE Done(q)
(* The value of node p is v.                                               *)
Decided(t, p, q, v) ==
    CASE t.ts[q] = "!"  -> Is(q, ~v)
      [] t.ts[q] = "&&" -> IF v /\ p = q + 1 THEN Do(t.end[p]) ELSE Is(q, v)
      [] t.ts[q] = "||" -> IF ~v /\ p = q + 1 THEN Do(t.end[p]) ELSE Is(q, v)
      [] t.ts[q] = "do" -> IF v THEN Do(q + 1) ELSE Done(q)
      [] t.ts[q] \in {"while", "for"} -> IF v THEN Do(t.end[p]) ELSE Done(q)
      [] t.ts[q] = "if" -> IF v THEN Do(t.end[p]) ELSE Else(t, q)
Finished(t, p, q) ==
    CASE q = 0 -> <<"end">>
      [] q # 0 /\ t.ts[q] = "{" -> IF t.ts[t.end[p]] = "}" THEN Done(q) ELSE Do(t.end[p])
      [] q # 0 /\ t.ts[q] \in Loops -> Again(t, q)
      [] OTHER -> Done(q)
Begun(t, p) ==
    CASE t.ts[p] \in {"if", "while", "do", "!", "&&", "||", "L:"} \cup Cases -> Do(p + 1)
      [] t.ts[p] = "{"        -> IF t.ts[p + 1] = "}" THEN Done(p) ELSE Do(p + 1)
      [] t.ts[p] = ";"        -> Done(p)
      [] t.ts[p] \in {"1", "no"} -> Is(p, TRUE)
      [] t.ts[p] = "0"        -> Is(p, FALSE)
      [] t.ts[p] = "break"    -> Done(Within(t, p, Loops \cup {"switch"}))
      [] t.ts[p] = "continue" -> Again(t, Within(t, p, Loops))
      [] t.ts[p] = "goto"     -> Do(CHOOSE q \in DOMAIN t.ts : t.ts[q] = "L:")
Moved(t, s) ==
    CASE s[1] = "at"   -> Begun(t, s[2])
      [] s[1] = "is"   -> Decided(t, s[2], Parent(t, s[2]), s[3])
      [] s[1] = "done" -> Finished(t, s[2], Parent(t, s[2]))

(* What control comes to next, and what follows that for each outcome.     *)
Shows(t, s) == s[1] \in {"end", "post"} \/ (s[1] = "at" /\ t.ts[s[2]] \in {"x", "c", "for", "switch", "return"})
RECURSIVE Next(_, _, _)
Next(t, s, n) == IF n = 0 THEN <<"spin">> ELSE IF Shows(t, s) THEN s ELSE Next(t, Moved(t, s), n - 1)
Event(t, s) ==
    CASE s[1] \in {"end", "spin"} -> <<s[1]>>
      [] s[1] = "post" -> s
      [] s[1] = "at" -> (CASE t.ts[s[2]] = "x" -> <<"expr", s[2]>> [] t.ts[s[2]] = "c" -> <<"test", s[2]>>
                           [] t.ts[s[2]] = "for" -> <<"pre", s[2]>> [] t.ts[s[2]] = "switch" -> <<"value", s[2]>>
                           [] t.ts[s[2]] = "return" -> <<"return">>)
Outcomes(e) == CASE e[1] = "test" -> BOOLEAN [] e[1] = "value" -> UNION {{CaseValue[k], CaseValue[k] + 1} : k \in DOMAIN CaseValue} \cup {0}
                 [] e[1] \in {"expr", "pre", "post"} -> {0} [] OTHER -> {}
After(t, s, v) ==
    CASE s[1] = "post" -> Do(s[2] + 1)
      [] s[1] = "at" /\ t.ts[s[2]] = "x" -> Done(s[2])
      [] s[1] = "at" /\ t.ts[s[2]] = "c" -> Is(s[2], v)
      [] s[1] = "at" /\ t.ts[s[2]] = "for" -> Do(s[2] + 1)
      [] s[1] = "at" /\ t.ts[s[2]] = "switch" -> Seek(t, s[2], v)

----
(* The same of the code.                                                   *)
Label(code, l) == CHOOSE i \in DOMAIN code : code[i] = <<"label", l>>
RECURSIVE Reached(_, _, _)
Reached(code, i, n) ==
    IF n = 0 THEN 0
    ELSE IF i > Len(code) THEN i
    ELSE CASE code[i][1] = "label" -> Reached(code, i + 1, n - 1)
           [] code[i][1] = "jmp"   -> Reached(code, Label(code, code[i][2]), n - 1)
           [] OTHER -> i
Does(code, i) ==
    IF i = 0 THEN <<"spin">> ELSE IF i > Len(code) THEN <<"end">>
    ELSE IF code[i][1] \in {"jz", "jnz"} THEN <<"test", code[i][2]>>
    ELSE IF code[i][1] = "value" THEN <<"value", code[i][2]>> ELSE code[i]
Sent(ins, v) ==
    IF ins[3] = "table" THEN (IF v - ins[4] + 1 \in DOMAIN ins[5] THEN ins[5][v - ins[4] + 1] ELSE ins[6])
    ELSE ins[5] + Smallest(IF Place(ins[4], v) # {} THEN Place(ins[4], v) ELSE Place(ins[4], Default))
Goes(code, i, v) ==
    IF code[i][1] \in {"jz", "jnz"} THEN (IF v = (code[i][1] = "jnz") THEN Label(code, code[i][3]) ELSE i + 1)
    ELSE IF code[i][1] = "value" THEN Label(code, Sent(code[i], v)) ELSE i + 1

Settled(t, code, x) == <<Next(t, x[1], 3 * Len(t.ts)), Reached(code, x[2], 2 * Len(code) + 1)>>
Follow(t, code, x) ==
    {Settled(t, code, <<After(t, x[1], v), Goes(code, x[2], v)>>) : v \in Outcomes(Event(t, x[1]))}
RECURSIVE Together(_, _, _, _)
Together(t, code, new, seen) ==
    \/ new = {}
    \/ /\ \A x \in new : Event(t, x[1]) = Does(code, x[2])
       /\ Together(t, code, (UNION {Follow(t, code, x) : x \in new}) \ (seen \cup new), seen \cup new)

(* What GEN must refuse.                                                   *)
Depth(t, p) == 1 + Cardinality({q \in Around(t, p) : t.ts[q] \in Loops \cup {"switch"}})
Refused(t) == \E p \in DOMAIN t.ts :
    \/ t.ts[p] \in {"break"} \cup Cases /\ Within(t, p, Loops \cup {"switch"}) = 0
    \/ t.ts[p] = "continue" /\ Within(t, p, Loops) = 0
    \/ t.ts[p] = "switch" /\ (OwnCases(t, p) = {} \/ Cardinality(OwnCases(t, p)) >= MAXCASE - 1)
    \/ t.ts[p] \in Loops \cup {"switch"} /\ Depth(t, p) >= MAXFOR

(* Left out: a case inside another statement of the switch, which GEN does *)
(* not find; one case twice; a label that is not there or there twice.     *)
Scattered(t) == \E p \in DOMAIN t.ts :
    t.ts[p] \in Cases /\ Within(t, p, {"switch"}) # Within(t, p, Loops \cup {"switch", "if"})
Doubled(t) == \E p, q \in DOMAIN t.ts : p < q /\ t.ts[p] = t.ts[q] /\ t.ts[p] \in Cases \cup {"L:"} /\ (t.ts[p] = "L:" \/ Within(t, p, {"switch"}) = Within(t, q, {"switch"}))
Lost(t) == (\E p \in DOMAIN t.ts : t.ts[p] = "goto") /\ ~\E p \in DOMAIN t.ts : t.ts[p] = "L:"

(* The code does what the text says: the same expressions, tests and       *)
(* returns in the same order whatever each test finds.                     *)
Same(t, g) ==
    (g.bad <=> Refused(t)) /\ (~g.bad => Together(t, g.code, {Settled(t, g.code, <<Do(1), 1>>)}, {}))
Runs(t) == ~(Scattered(t) \/ Doubled(t) \/ Lost(t)) => Same(t, Compile(t.ts))
RunsRight(ts) == Runs([ts |-> ts, end |-> Ends(ts)])
====
