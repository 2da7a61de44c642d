-------------------------------- MODULE AsmExpr --------------------------------
(***************************************************************************)
(* The assembler's operands (BUILD/ASM/ASM4.C): constant expressions by    *)
(* descent, a level of operators at a time, and address expressions, which *)
(* gather registers into an r/m by the table rmto.  A token is a number, a *)
(* name, a register, or a sign.  The value read is an operand of AsmInst.  *)
(***************************************************************************)
EXTENDS AsmInst, Bitwise, FiniteSets

CONSTANTS Values        \* the number each number token stands for

Width == 65536
Signed(n) == IF n % Width < 32768 THEN n % Width ELSE (n % Width) - Width
Truth(b)  == IF b THEN 1 ELSE 0
Quotient(a, b) == IF (a < 0) = (b < 0) THEN (IF a < 0 THEN (-a) \div (-b) ELSE a \div b)
                  ELSE -(IF a < 0 THEN (-a) \div b ELSE a \div (-b))

(* The level (heir) of an operator, and what it does.                      *)
Heir == [s \in {"||", "&&", "|", "^", "&", "==", "!=", "<", "<=", ">", ">=", "<<", ">>", "+", "-", "*", "/", "%"} |->
    CASE s = "||" -> 14 [] s = "&&" -> 15 [] s = "|" -> 16 [] s = "^" -> 17 [] s = "&" -> 18 [] s \in {"==", "!="} -> 19
      [] s \in {"<", "<=", ">", ">="} -> 20 [] s \in {"<<", ">>"} -> 21 [] s \in {"+", "-"} -> 22 [] s \in {"*", "/", "%"} -> 23]
Compares == {"==", "!=", "<", "<=", ">", ">="}

Apply(s, a, b) ==
    Signed(CASE s = "||" -> Truth(a # 0 \/ b # 0)
             [] s = "&&" -> Truth(a # 0 /\ b # 0)
             [] s = "|"  -> (a % Width) | (b % Width)
             [] s = "^"  -> (a % Width) ^^ (b % Width)
             [] s = "&"  -> (a % Width) & (b % Width)
             [] s = "==" -> Truth(a = b)
             [] s = "!=" -> Truth(a # b)
             [] s = "<"  -> Truth(a < b)
             [] s = "<=" -> Truth(a <= b)
             [] s = ">"  -> Truth(a > b)
             [] s = ">=" -> Truth(a >= b)
             [] s = "<<" -> IF b \in 0..15 THEN a * 2^b ELSE 0
             [] s = ">>" -> IF b \in 0..15 THEN a \div 2^b ELSE 0
             [] s = "+"  -> a + b
             [] s = "-"  -> a - b
             [] s = "*"  -> a * b
             [] s = "/"  -> Quotient(a, b)
             [] s = "%"  -> a - b * Quotient(a, b))

Registers == [AX |-> 0, CX |-> 1, DX |-> 2, BX |-> 3, SP |-> 4, BP |-> 5, SI |-> 6, DI |-> 7]
SegmentRegs == [ES |-> 0, CS |-> 1, SS |-> 2, DS |-> 3]
rmto == {<<3, 8, 7>>, <<3, 4, 0>>, <<3, 5, 1>>, <<5, 8, 6>>, <<5, 4, 2>>, <<5, 5, 3>>,
         <<6, 8, 4>>, <<6, 7, 0>>, <<6, 6, 2>>, <<7, 8, 5>>, <<7, 7, 1>>, <<7, 6, 3>>}

----
(* A state of the parse: the place of the current token, what was read,    *)
(* and whether a message was given.                                        *)
Read(at, v, bad)  == [at |-> at, v |-> v, bad |-> bad]
Tok(ts, p)        == IF p <= Len(ts) THEN ts[p] ELSE "end"
IsConst(v)        == v.vis = "const"
HeirOf(s)         == IF s \in DOMAIN Heir THEN Heir[s] ELSE 0

(* The comparison last seen by tokit, which reads one token ahead.         *)
bvalue(ts, p) ==
    LET seen == {i \in 1..p : Tok(ts, i) \in Compares}
    IN  IF seen = {} THEN "==" ELSE ts[CHOOSE i \in seen : \A j \in seen : j <= i]

(* Levels 19 and 20 ask for the operator only after the right side.        *)
Done(s, ts, p, a, b) ==
    CASE Heir[s] = 19 -> Apply(IF bvalue(ts, p) = "==" THEN "==" ELSE "!=", a, b)
      [] Heir[s] = 20 -> IF bvalue(ts, p) \in {"<", "<=", ">", ">="} THEN Apply(bvalue(ts, p), a, b) ELSE a
      [] OTHER        -> Apply(s, a, b)

Faulty(s, b) == s \in {"/", "%"} /\ b = 0
Folded(s, ts, l, r) ==
    CASE s = "+" /\ l.v.vis = "off" /\ IsConst(r.v) -> Read(r.at, [l.v EXCEPT !.off = @ + r.v.val], l.bad \/ r.bad)
      [] s = "-" /\ l.v.vis = "off" /\ IsConst(r.v) -> Read(r.at, [l.v EXCEPT !.off = @ - r.v.val], l.bad \/ r.bad)
      [] s = "+" /\ r.v.vis = "off" /\ IsConst(l.v) -> Read(r.at, [r.v EXCEPT !.off = @ + l.v.val], l.bad \/ r.bad)
      [] s = "-" /\ r.v.vis = "off" /\ IsConst(l.v) -> Read(r.at, [r.v EXCEPT !.off = @ - l.v.val], l.bad \/ r.bad)
      [] IsConst(l.v) /\ IsConst(r.v) /\ ~Faulty(s, r.v.val) ->
            Read(r.at, Constant(Done(s, ts, r.at, l.v.val, r.v.val)), l.bad \/ r.bad)
      [] OTHER -> Read(r.at, l.v, TRUE)

RECURSIVE heir(_, _, _), Rising(_, _, _), Loop(_, _, _), heir24(_, _), heir26(_, _), plusaddr(_, _), plusone(_, _), More(_, _), one(_, _), Asked(_, _), Otherwise(_, _, _)

(* Below 21 the right side is the same level again; from 21 on a loop.     *)
Under(k, ts, p) == IF k < 23 THEN heir(k + 1, ts, p) ELSE heir24(ts, p)
Rising(k, ts, l) ==
    IF HeirOf(Tok(ts, l.at)) # k THEN l ELSE Folded(Tok(ts, l.at), ts, l, heir(k, ts, l.at + 1))
Loop(k, ts, l) ==
    IF HeirOf(Tok(ts, l.at)) # k THEN l ELSE Loop(k, ts, Folded(Tok(ts, l.at), ts, l, Under(k, ts, l.at + 1)))
heir(k, ts, p) == IF k >= 21 THEN Loop(k, ts, Under(k, ts, p)) ELSE Rising(k, ts, Under(k, ts, p))

Minus(s, n) == CASE s = "-" -> -n [] s = "+" -> n [] s = "!" -> Truth(n = 0) [] s = "~" -> -1 - n
Unary(r, s) == IF IsConst(r.v) THEN [r EXCEPT !.v.val = Signed(Minus(s, @))] ELSE [r EXCEPT !.bad = TRUE]
heir24(ts, p) ==
    LET rest == heir24(ts, p + 1)
    IN  CASE Tok(ts, p) \in {"OFFSET", "&"} -> [rest EXCEPT !.bad = @ \/ rest.v.vis # "var", !.v.vis = "off", !.v.vt = CINT]
          [] Tok(ts, p) \in {"-", "+", "!", "~"} -> Unary(rest, Tok(ts, p))
          [] OTHER -> heir26(ts, p)

Missing(r, s, ts) == IF Tok(ts, r.at) = s THEN [r EXCEPT !.at = @ + 1] ELSE [r EXCEPT !.bad = TRUE]
heir26(ts, p) ==
    LET t == Tok(ts, p)
        rest == heir26(ts, p + 1)
        behind == heir26(ts, p + 2)
    IN  CASE t = "(" -> Missing(one(ts, p + 1), ")", ts)
          [] t \in {"BYTE", "WORD"} -> [rest EXCEPT !.v.vt = IF t = "BYTE" THEN CCHAR ELSE CINT]
          [] t \in DOMAIN Values -> Read(p + 1, Constant(Values[t]), FALSE)
          [] t \in DOMAIN SegmentRegs ->
                IF Tok(ts, p + 1) # ":" THEN Read(p + 1, Segment(SegmentRegs[t]), FALSE)
                ELSE [behind EXCEPT !.bad = @ \/ behind.v.vis # "var", !.v.seg = SegmentRegs[t]]
          [] t \in DOMAIN Registers -> Read(p + 1, Register(CINT, Registers[t]), FALSE)
          [] t \in {"name", "["} ->
                plusaddr(ts, IF t = "name" THEN Read(p + 1, Named(CLABEL, 0, DS), FALSE) ELSE Read(p, Based(CLABEL, 8, 0, -1), FALSE))
          [] OTHER      -> Read(p, NoOperand, TRUE)

Bracketed(t, r, ts) == IF t = "[" THEN Missing(r, "]", ts) ELSE r
plusaddr(ts, r) ==
    IF r.bad \/ Tok(ts, r.at) \notin {"[", "+", "-"} THEN r
    ELSE plusaddr(ts, Bracketed(Tok(ts, r.at), plusone(ts, IF Tok(ts, r.at) = "-" THEN r ELSE [r EXCEPT !.at = @ + 1]), ts))

(* A slip: the row of the table by the new register alone.                *)
PlusOver(r, n) ==
    LET way == {x \in rmto : x[1] = n}
    IN  IF way = {} THEN [r EXCEPT !.bad = TRUE]
        ELSE [r EXCEPT !.v.val = (CHOOSE x \in way : x[2] = r.v.val \/ ~\E y \in way : y[2] = r.v.val)[3]]
PlusReg(r, n) ==
    LET way == {x \in rmto : x[1] = n /\ x[2] = r.v.val}
    IN  IF way = {} THEN [r EXCEPT !.bad = TRUE] ELSE [r EXCEPT !.v.val = (CHOOSE x \in way : TRUE)[3]]
Plus(r, plus) ==
    LET next == [r EXCEPT !.at = plus.at, !.bad = @ \/ plus.bad]
    IN  CASE IsConst(plus.v) -> [next EXCEPT !.v.off = @ + plus.v.val]
          [] plus.v.vis = "reg" /\ plus.v.vt = CINT -> PlusReg(next, plus.v.val)
          [] OTHER -> [next EXCEPT !.bad = TRUE]
More(ts, sum) ==
    CASE ~sum.bad /\ Tok(ts, sum.at) = "+" -> plusone(ts, [sum EXCEPT !.at = @ + 1])
      [] ~sum.bad /\ Tok(ts, sum.at) = "-" -> plusone(ts, sum)
      [] OTHER -> sum
plusone(ts, r) == More(ts, Plus(r, heir(23, ts, r.at)))

Either(r, yes, no) ==
    Read(no.at, IF r.v.val # 0 THEN yes.v ELSE no.v, r.bad \/ yes.bad \/ no.bad \/ ~IsConst(r.v))
Otherwise(ts, r, yes) == Either(r, yes, one(ts, yes.at))
Asked(ts, r) == IF Tok(ts, r.at) # "?" THEN r ELSE Otherwise(ts, r, Missing(one(ts, r.at + 1), ":", ts))
one(ts, p) ==
    IF Tok(ts, p) \in DOMAIN Registers THEN Read(p + 1, Register(CINT, Registers[Tok(ts, p)]), FALSE)
    ELSE Asked(ts, heir(14, ts, p))

Whole(ts, r) == [v |-> r.v, bad |-> r.bad \/ r.at # Len(ts) + 1]
Parsed(ts) == Whole(ts, one(ts, 1))

----
(* What an expression means: the operator done last is the rightmost of    *)
(* the lowest level outside parentheses, as in C.                          *)
Depth(ts, i) == LET d[k \in 0..i] == IF k = 0 THEN 0 ELSE d[k - 1] + (CASE ts[k] = "(" -> 1 [] ts[k] = ")" -> -1 [] OTHER -> 0) IN d[i]
EndsOperand(t) == t = ")" \/ t \in DOMAIN Values
Signs(ts) == {i \in 2..Len(ts) : ts[i] \in DOMAIN Heir /\ EndsOperand(ts[i - 1]) /\ Depth(ts, i) = 0}
RECURSIVE Value(_)
Value(ts) ==
    LET signs == Signs(ts)
        last == CHOOSE i \in signs : \A j \in signs : Heir[ts[i]] < Heir[ts[j]] \/ (Heir[ts[i]] = Heir[ts[j]] /\ j <= i)
        asks == {i \in DOMAIN ts : ts[i] = "?" /\ Depth(ts, i) = 0}
        ask  == CHOOSE i \in asks : \A j \in asks : i <= j
        colon == CHOOSE i \in DOMAIN ts : ts[i] = ":" /\ Depth(ts, i) = 0
        tail == SubSeq(ts, 2, Len(ts))
    IN  CASE asks # {} -> IF Value(SubSeq(ts, 1, ask - 1)) # 0 THEN Value(SubSeq(ts, ask + 1, colon - 1)) ELSE Value(SubSeq(ts, colon + 1, Len(ts)))
          [] asks = {} /\ signs # {} ->
                LET b == Value(SubSeq(ts, last + 1, Len(ts)))
                IN  IF Faulty(ts[last], b) THEN 0 ELSE Apply(ts[last], Value(SubSeq(ts, 1, last - 1)), b)
          [] asks = {} /\ signs = {} /\ Len(ts) = 1 -> Values[ts[1]]
          [] asks = {} /\ signs = {} /\ Len(ts) > 1 ->
                (CASE ts[1] = "(" -> Value(SubSeq(ts, 2, Len(ts) - 1))
                   [] ts[1] = "-" -> Signed(-Value(tail)) [] ts[1] = "+" -> Value(tail)
                   [] ts[1] = "!" -> Truth(Value(tail) = 0) [] ts[1] = "~" -> -1 - Value(tail))

(* Comparisons of comparisons are left out: there the assembler tests for  *)
(* the operator it saw last.                                               *)
Plain(ts) == \A i, j \in DOMAIN ts : (i < j /\ {ts[i], ts[j]} \subseteq Compares) => \E k \in i..j : ts[k] \in {"||", "&&", "|", "^", "&", "?", ":"}
Means(ts, r) == (Plain(ts) /\ ~r.bad) => r.v = Constant(Value(ts))
ReadsValue(ts) == Means(ts, Parsed(ts))

(* Square brackets, registers and numbers in any order are their sum.      *)
Base(regs) ==
    CASE regs = {} -> 8 [] regs = {3, 6} -> 0 [] regs = {3, 7} -> 1 [] regs = {5, 6} -> 2 [] regs = {5, 7} -> 3
      [] regs = {6} -> 4 [] regs = {7} -> 5 [] regs = {5} -> 6 [] regs = {3} -> 7 [] OTHER -> -1
Sums(ts, r) ==
    LET regs == {i \in DOMAIN ts : ts[i] \in DOMAIN Registers}
        sum[i \in 0..Len(ts)] ==
            IF i = 0 THEN 0
            ELSE sum[i - 1] + (IF ts[i] \notin DOMAIN Values THEN 0 ELSE IF i > 1 /\ ts[i - 1] = "-" THEN -Values[ts[i]] ELSE Values[ts[i]])
        named == {Registers[ts[i]] : i \in regs}
        fits  == Base(named) >= 0 /\ \A i, j \in regs : (ts[i] = ts[j] => i = j) /\ ~(i > 1 /\ ts[i - 1] = "-")
        whole == Cardinality({i \in DOMAIN ts : ts[i] = "["}) = Cardinality({i \in DOMAIN ts : ts[i] = "]"})
    IN  (\E i \in DOMAIN ts : ts[i] \in {"[", "name"}) =>
        /\ (whole /\ ts[Len(ts)] \in {"]", "name"} \cup DOMAIN Values \cup DOMAIN Registers) => (r.bad <=> ~fits)
        /\ ~r.bad => r.v.vis \in {"var", "off"} /\ r.v.val = Base(named) /\ r.v.off = sum[Len(ts)]
ReadsAddress(ts) == Sums(ts, Parsed(ts))
====
