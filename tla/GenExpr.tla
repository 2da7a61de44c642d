---------------------------------- MODULE GenExpr ----------------------------------
(***************************************************************************)
(* GEN's code for an expression (GEN3.C to GEN6.C), in the small model,    *)
(* without long, float and structure: which register holds what, who is    *)
(* moved or pushed when none is free, and the instructions that come out.  *)
(* The code is run on the part of an 8086 it uses, beside the expression.  *)
(*                                                                         *)
(* The descriptions of operands (int vtype[7]) are the entries of s.v, the *)
(* locals of the routines under way; s.at (regat) says whose a register    *)
(* is.  A pattern is a set of registers.                                   *)
(***************************************************************************)
EXTENDS Integers, Sequences, FiniteSets

CCHAR == 1   CINT == 2   CUNSG == 3   BITS == 9   FUNCTION == 253   ARRAY == 254
AX == 0   CX == 1   DX == 2   BX == 3   SP == 4   BP == 5   SI == 6   DI == 7
ANYPAT == {AX, CX, DX, BX, SI, DI}
INDPAT == {SI, DI}
BYTEPAT == {AX, CX, DX, BX}
Nobody == 0     \* of a register
Lock   == -1    \* regat[DX] = 1

(* The register an operand's address uses: rm 0 to 7, or 8, a name only.   *)
regused == [rm \in 0..8 |-> CASE rm \in {2, 4} -> SI [] rm \in {3, 5} -> DI [] rm = 7 -> BX [] OTHER -> 8]

Least(S)    == CHOOSE x \in S : \A y \in S : x <= y
Greatest(S) == CHOOSE x \in S : \A y \in S : x >= y
Word(n)   == n % 65536
Signed(n) == IF n >= 32768 THEN n - 65536 ELSE n
Bit(k)    == 2 ^ k
(* Division towards zero, as C88 compiles it.                              *)
Quot(a, b) == LET q == (IF a < 0 THEN 0 - a ELSE a) \div (IF b < 0 THEN 0 - b ELSE b)
              IN  IF (a < 0) = (b < 0) THEN q ELSE 0 - q
Rem(a, b)  == a - b * Quot(a, b)
And(x, y) == LET sum[k \in 0..16] == IF k = 0 THEN 0 ELSE
                        sum[k - 1] + (IF (x \div Bit(k - 1)) % 2 = 1 /\ (y \div Bit(k - 1)) % 2 = 1 THEN Bit(k - 1) ELSE 0)
                   IN  sum[16]
Bitwise(op, x, y) == CASE op = "AND" -> And(x, y) [] op = "OR" -> x + y - And(x, y) [] op = "XOR" -> x + y - 2 * And(x, y)

----
(* Operands and instructions.                                              *)
Nil     == [is |-> "CONST", val |-> 0, name |-> 0, off |-> 0, t |-> CINT]
tocon(n) == [Nil EXCEPT !.val = Word(n)]
toreg(r) == [Nil EXCEPT !.is = "REG", !.val = r]
toreglow(r) == [toreg(r) EXCEPT !.t = CCHAR]
tobpm(n) == [Nil EXCEPT !.is = "VAR", !.val = 6, !.off = -n]
ToReg(r, t) == IF t = CCHAR THEN toreglow(r) ELSE toreg(r)

IsBits(t) == t >= BITS /\ t < FUNCTION
realtype(x) == IF x.t = CCHAR THEN "byte" ELSE "word"
Immediate(x) == x.is \in {"CONST", "OFF"}

Gen0 == [code |-> <<>>, v |-> <<>>, at |-> [r \in 0..7 |-> Nobody], cur |-> 0, lab |-> 0,
         si |-> FALSE, post |-> FALSE, pre |-> FALSE, reg |-> 0, cc |-> "", bad |-> FALSE, known |-> FALSE, sunk |-> FALSE]
Put(s, ins) == [s EXCEPT !.code = Append(@, ins)]
Bad(s)      == [s EXCEPT !.bad = TRUE]
Local(s)    == [s EXCEPT !.v = Append(@, Nil)]
Drop(s, n)  == [s EXCEPT !.v = SubSeq(@, 1, Len(@) - n)]
NewLab(s)   == [s EXCEPT !.lab = @ + 1]
genlab(s, l) == Put(s, <<"label", l>>)
asm_jump(s, c, l) == Put(s, <<"jump", c, l>>)

(* Two operands in memory are refused, and the offset of more than a name. *)
asm_add(s, op, l, r) ==
    IF r.is = "VAR" /\ l.is # "REG" THEN Bad(s)
    ELSE Put(s, <<op, l, r, IF Immediate(r) \/ l.is # "REG" THEN realtype(l) ELSE realtype(r)>>)
asm_move_noopt(s, l, r) ==
    IF (r.is = "VAR" /\ l.is # "REG") \/ (r.is = "OFF" /\ (r.val # 8 \/ r.name = 0)) THEN Bad(s)
    ELSE Put(s, <<"mov", l, r, IF Immediate(r) THEN realtype(l) ELSE realtype(r)>>)
asm_move(s, l, r) ==
    IF l.is = "REG" /\ l.t # CCHAR /\ r.is = "CONST" /\ r.val = 0 THEN asm_add(s, "XOR", l, l) ELSE asm_move_noopt(s, l, r)
asm_one(s, op, x) == Put(s, <<op, x, Nil, realtype(x)>>)     \* asm_inc, asm_not, asm_shift_1, asm_shift_CL
asm_lea(s, r, x)  == Put(s, <<"lea", toreg(r), x, "word">>)
asm_push(s, x)    == Put(s, <<"push", x, Nil, "word">>)
Repeated(s, op, x, k) == LET after[i \in 0..k] == IF i = 0 THEN s ELSE asm_one(after[i - 1], op, x) IN after[k]

----
(* Registers.                                                              *)
freev(s, i) ==
    LET x == s.v[i]
        r == IF x.is = "REG" THEN x.val ELSE IF x.is \in {"VAR", "OFF"} THEN regused[x.val] ELSE 8
    IN  IF r < 8 THEN [s EXCEPT !.at[r] = Nobody] ELSE s
Owned(s, i, r) == [s EXCEPT !.v[i].is = "REG", !.v[i].val = r, !.v[i].off = 0, !.at[r] = i]

flip(s, i, j) ==
    [s EXCEPT !.v[i] = s.v[j], !.v[j] = s.v[i],
              !.at = [r \in 0..7 |-> CASE s.at[r] = i -> j [] s.at[r] = j -> i [] OTHER -> s.at[r]]]

(* A bit field comes out of its word.                                      *)
getbits(s, r, t) ==
    LET shr  == (t - BITS) % 16
        bits == ((t - BITS) \div 16) + 1
        x    == toreg(r)
        at0  == IF shr > 1 /\ s.at[CX] = Nobody
                THEN asm_one(asm_move(s, toreglow(CX), tocon(shr)), "shrcl", x) ELSE Repeated(s, "shr", x, shr)
    IN  IF bits < 16 THEN asm_add(at0, "AND", x, tocon(Bit(bits) - 1)) ELSE at0
Fetched(s, r, i) ==
    IF IsBits(s.v[i].t) THEN getbits([s EXCEPT !.v[i].t = CUNSG], r, s.v[i].t) ELSE s
movreg(s, r, i) ==
    Fetched(Owned(freev(asm_move(s, ToReg(r, s.v[i].t), s.v[i]), i), i, r), r, i)

(* The routines that call one another are entered by Do, at the end.       *)
RECURSIVE Do(_, _, _, _)
force(s, i, pat)    == Do("force", s, i, pat)
pushv(s, i, needed) == Do("push", s, i, needed)
getval(s, e, i)     == Do("value", s, i, e)
gencond(s, e, true, lab, keep) == Do("cond", s, keep, <<e, true, lab>>)

(* The register is wanted for something else: its owner goes to a free one *)
(* that suits it, the last first, or to the stack.                         *)
Suits(s, x, r) ==
    /\ s.at[r] = Nobody
    /\ x.t = CCHAR => r <= BX
    /\ x.is \in {"VAR", "OFF"} => r \in {BX, SI, DI}
MovedAddress(s, i, r) ==
    IF r = BX
    THEN [freev(asm_lea(s, BX, [s.v[i] EXCEPT !.is = "VAR"]), i)
            EXCEPT !.at[BX] = i, !.v[i].val = 7, !.v[i].name = 0, !.v[i].off = 0]
    ELSE [freev(asm_move(s, toreg(r), toreg(regused[s.v[i].val])), i)
            EXCEPT !.at[r] = i,
                   !.v[i].val = IF @ = 7 THEN r - 2 ELSE IF r = SI THEN @ - 1 ELSE @ + 1]
Moved(s, i, r) ==
    IF s.v[i].is = "REG" THEN Owned(freev(asm_move(s, ToReg(r, s.v[i].t), s.v[i]), i), i, r) ELSE MovedAddress(s, i, r)

(* To the stack: what is not of two bytes in a register or in memory is    *)
(* made so.                                                                *)
Widens(x) == x.t \notin {CINT, CUNSG}
forcemul(s, i) == IF Immediate(s.v[i]) \/ IsBits(s.v[i].t) THEN force(s, i, ANYPAT) ELSE s
Zeroed(s, i) ==
    LET x == s.v[i]
    IN  [(IF x.t # CCHAR THEN s
          ELSE IF x.val <= BX THEN asm_move(s, toreglow(x.val + 4), tocon(0)) ELSE asm_add(s, "AND", x, tocon(255)))
            EXCEPT !.v[i].t = CINT]
forceint(s, i) ==
    IF ~Widens(s.v[i]) THEN s
    ELSE IF s.v[i].is = "CONST" THEN [s EXCEPT !.v[i].t = CINT] ELSE Zeroed(force(s, i, ANYPAT), i)
Stacked(s, i, needed) ==
    IF needed THEN [s EXCEPT !.v[i].is = "VAR", !.v[i].val = 6, !.v[i].name = 0, !.v[i].off = 0 - s.cur] ELSE s
Pushed(s, i, needed) == Stacked([freev(asm_push(s, s.v[i]), i) EXCEPT !.cur = @ + 2], i, needed)
PushV(s, i, needed) == Pushed(forcemul(IF s.v[i].t = CCHAR THEN forceint(s, i) ELSE s, i), i, needed)

Evicted(s, i) ==
    LET places == {r \in ANYPAT : Suits(s, s.v[i], r)}
    IN  IF places # {} THEN Moved(s, i, Greatest(places)) ELSE pushv(s, i, TRUE)
Got(s, r) == [s EXCEPT !.reg = r]
need(s, pat) ==
    LET free == {r \in pat : s.at[r] = Nobody}
        last == Greatest(pat)
    IN  CASE pat = {} -> Got(Bad(s), AX)
          [] free # {} -> Got(s, Least(IF s.si /\ free \cap INDPAT # {} THEN free \cap INDPAT ELSE free))
          [] OTHER -> IF s.at[last] \in 1..Len(s.v) THEN Got(Evicted(s, s.at[last]), last) ELSE Got(Bad(s), last)

----
(* An operand into a register of the pattern: whether that needs one that  *)
(* it has not, and then how it gets there.                                 *)
Plain(x) == x.name = 0 /\ x.off = 0
Pattern(x, pat) == IF x.t = CCHAR THEN pat \cap BYTEPAT ELSE pat
Holds(x) == IF x.is = "REG" THEN x.val ELSE IF x.is = "CONST" THEN 8 ELSE regused[x.val]
Loaded(s, i, r, had) ==
    CASE s.v[i].is = "OFF" /\ had # 8 /\ Plain(s.v[i]) ->
            IF r = had THEN Owned(s, i, r) ELSE movreg(Owned(s, i, had), r, i)
      [] s.v[i].is = "OFF" /\ (had # 8 \/ s.v[i].val = 6) ->
            Owned(freev(asm_lea(s, r, [s.v[i] EXCEPT !.is = "VAR"]), i), i, r)
      [] s.v[i].is = "REG" /\ r = had -> s
      [] OTHER -> movreg(s, r, i)
Placed(s, i) == Loaded(s, i, s.reg, Holds(s.v[i]))
Force(s, i, pat) ==
    Placed(IF Holds(s.v[i]) \in Pattern(s.v[i], pat) THEN Got(s, Holds(s.v[i])) ELSE need(s, Pattern(s.v[i], pat)), i)

forcereg(s, i) == force(s, i, ANYPAT)
forcerm(s, i) ==
    LET x == s.v[i]
    IN  CASE x.is = "OFF" /\ Plain(x) /\ x.val \in {4, 5} -> [s EXCEPT !.v[i].is = "REG", !.v[i].val = x.val + 2]
          [] (x.is = "OFF" /\ x.val # 8) \/ IsBits(x.t) -> force(s, i, ANYPAT)
          [] OTHER -> s
forcebyt(s, i) == [(IF s.v[i].is # "VAR" THEN force(s, i, BYTEPAT) ELSE s) EXCEPT !.v[i].t = CCHAR]
Addresses(s, i, andit) ==
    IF andit THEN asm_add([s EXCEPT !.v[i].t = CUNSG], "AND", s.v[i], tocon(255)) ELSE [s EXCEPT !.v[i].t = CUNSG]
forceind(s, i) ==
    Addresses(force(IF s.v[i].t = CCHAR THEN [s EXCEPT !.v[i].t = CINT] ELSE s, i, INDPAT), i,
              s.v[i].t = CCHAR /\ ~Immediate(s.v[i]))

Zero(s, i) == [Owned(asm_add(s, "XOR", toreg(s.reg), toreg(s.reg)), i, s.reg) EXCEPT !.v[i].t = CINT]
needzreg(s, i) == Zero(need(s, ANYPAT), i)
(* Everything in a register goes to the stack.                             *)
PushAll(s) == LET after[r \in 0..8] == IF r = 0 THEN s ELSE
                        LET x == after[r - 1] IN IF x.at[r - 1] \in 1..Len(x.v) THEN pushv(x, x.at[r - 1], TRUE) ELSE x
              IN  after[8]

----
(* Expressions are <<operator, subexpressions>>; an operand has its type,  *)
(* its name (0: a local) and its offset.  getval describes e's value in    *)
(* s.v[i]; gencond jumps to lab when the truth of e is the one it is told, *)
(* keeping s.v[keep] where it is.                                          *)
Sums     == {"ADD", "SUB"}
Products == {"MUL", "DIV", "MOD"}
Shifts   == {"SHR", "SHL"}
Masks    == {"AND", "OR", "XOR"}
Logical  == {"LAND", "LOR"}
Compares == {"EQ", "NE", "GE", "LT", "GT", "LE"}
Unaries  == {"NEG", "NOT", "COMP"}
Steps    == [PREI |-> "PREI", PRED |-> "PRED", POSTI |-> "PREI", POSTD |-> "PRED"]
Assigns  == [ASGN |-> "mov", AADD |-> "ADD", ASUB |-> "SUB", AAND |-> "AND", AOR |-> "OR", AXOR |-> "XOR",
             AMUL |-> "MUL", ADIV |-> "DIV", AMOD |-> "MOD", ASHR |-> "SHR", ASHL |-> "SHL"]
Twice    == {"AMUL", "ADIV", "AMOD", "ASHR", "ASHL"}    \* done as l = l op r
flipped  == [op \in Compares \cup {"ADD", "MUL"} \cup Masks |->
                CASE op = "GE" -> "LE" [] op = "LE" -> "GE" [] op = "GT" -> "LT" [] op = "LT" -> "GT" [] OTHER -> op]
Not      == [EQ |-> "NE", NE |-> "EQ", GE |-> "LT", LT |-> "GE", GT |-> "LE", LE |-> "GT", AE |-> "B", B |-> "AE", A |-> "BE", BE |-> "A"]
unsigned == [EQ |-> "EQ", NE |-> "NE", GE |-> "AE", LT |-> "B", GT |-> "A", LE |-> "BE"]

(* The subexpressions of commuting operators, the heavier one first.       *)
RECURSIVE reorder(_)
Swapped(op, l, r) ==
    IF l[1] < r[1] THEN <<(IF r[1] = 100 THEN 0 ELSE l[1]) + r[1], <<flipped[op], r[2], l[2]>>>>
    ELSE <<l[1] + (IF l[1] = 100 THEN 0 ELSE r[1]), <<op, l[2], r[2]>>>>
Node1(w, op, x) == <<(IF w = 0 THEN x[1] ELSE w), <<op, x[2]>>>>
Node2(w, e, x)  == <<(IF w = 0 THEN x[1] ELSE w), <<e[1], e[2], x[2]>>>>
Step1(e, x)     == <<x[1], <<e[1], x[2], e[3]>>>>
Pair(op, l, r)  == <<l[1] + r[1], <<op, l[2], r[2]>>>>
Weights(xs)     == LET sum[i \in 0..Len(xs)] == IF i = 0 THEN 0 ELSE sum[i - 1] + xs[i][1] IN sum[Len(xs)]
Call(e, f, xs)  == <<f[1] + Weights(xs), <<"CALL", e[2], f[2], [i \in DOMAIN xs |-> xs[i][2]]>>>>
Three(e, x, y, z) == <<x[1] + y[1] + z[1], <<"TEST", e[2], x[2], y[2], z[2]>>>>
reorder(e) ==
    CASE e[1] \in DOMAIN flipped   -> Swapped(e[1], reorder(e[2]), reorder(e[3]))
      [] e[1] = "OPND"             -> <<IF e[3] # 0 THEN 4 ELSE 2, e>>
      [] e[1] = "CONST"            -> <<1, e>>
      [] e[1] = "TA"               -> Node1(100, "TA", reorder(e[2]))
      [] e[1] \in Unaries          -> Node1(0, e[1], reorder(e[2]))
      [] e[1] \in {"IND", "CAST"}  -> Node2(IF e[1] = "IND" THEN 3 ELSE 0, e, reorder(e[3]))
      [] e[1] \in DOMAIN Steps     -> Step1(e, reorder(e[2]))
      [] e[1] = "CALL"             -> Call(e, reorder(e[3]), [i \in DOMAIN e[4] |-> reorder(e[4][i])])
      [] e[1] = "TEST"             -> Three(e, reorder(e[3]), reorder(e[4]), reorder(e[5]))
      [] OTHER                     -> Pair(e[1], reorder(e[2]), reorder(e[3]))

(* Two operands; the same type for both.                                   *)
get2(s, e, i, j) == getval([getval(s, e[2], i) EXCEPT !.post = FALSE], e[3], j)
SameType(s, i, j) ==
    CASE s.v[i].t = s.v[j].t -> s [] s.v[j].t > s.v[i].t -> forceint(s, i) [] OTHER -> forceint(s, j)
Combined(s, op, i, j) == freev(asm_add(s, op, s.v[i], s.v[j]), j)
Combine(s, op, i, j) == Combined(forcereg(forcerm(s, j), i), op, i, j)
ConstType(t)  == IF t = CCHAR THEN CINT ELSE t
Folded(s, i, n) == [s EXCEPT !.v[i].val = Word(n), !.v[i].t = ConstType(@)]
BothConst(s, i, j)  == s.v[i].is = "CONST" /\ s.v[j].is = "CONST"

----
(* Addition and subtraction: an address takes an index or an offset.       *)
Indexed(s, i, j) ==
    [s EXCEPT !.at[s.v[j].val] = i,
              !.v[i].val = CASE @ = 8 -> (IF s.v[j].val = SI THEN 4 ELSE 5)
                             [] @ = 7 -> (IF s.v[j].val = SI THEN 0 ELSE 1)
                             [] OTHER -> (IF s.v[j].val = SI THEN 2 ELSE 3)]
Joined(s, used, j) == freev(asm_add(s, "ADD", toreg(used), s.v[j]), j)
AddToAddress(s, i, j) ==
    IF regused[s.v[i].val] # 8 THEN Joined(forceint(s, j), regused[s.v[i].val], j) ELSE Indexed(forceind(s, j), i, j)
Widened(s, i, j, first) ==
    CASE s.v[i].t = s.v[j].t -> s
      [] s.v[first].t = CCHAR -> forceint(s, first)
      [] s.v[first].t # CCHAR /\ s.v[i + j - first].t = CCHAR -> forceint(s, i + j - first)
      [] OTHER -> s
AddTurned(s, i, j) ==
    IF s.v[i].is = "OFF" THEN AddToAddress(s, i, j) ELSE Combine(Widened(s, i, j, i), "ADD", i, j)
ByConst(s, i, n) ==
    CASE n = 0 -> s
      [] n # 0 /\ s.v[i].is = "CONST" -> Folded(s, i, s.v[i].val + n)
      [] n # 0 /\ s.v[i].is = "OFF"   -> [s EXCEPT !.v[i].off = @ + n]
ConstDoes(s, i, j) == s.v[j].is = "CONST" /\ (s.v[j].val = 0 \/ Immediate(s.v[i]))
genadd(s, i, j) ==
    IF ConstDoes(s, i, j) THEN ByConst(s, i, Signed(s.v[j].val))
    ELSE AddTurned(IF s.v[j].is = "OFF" /\ s.v[i].is # "OFF" THEN flip(s, i, j) ELSE s, i, j)
gensub(s, i, j) ==
    IF ConstDoes(s, i, j) THEN ByConst(s, i, 0 - Signed(s.v[j].val)) ELSE Combine(Widened(s, i, j, j), "SUB", i, j)

(* Multiplication, division, remainder.                                    *)
FoldProduct(op, s, i, a, b) ==
    IF b = 0 /\ op # "MUL" THEN Bad(s)
    ELSE [s EXCEPT !.v[i].t = CINT, !.v[i].val = Word(CASE op = "MUL" -> a * b [] op = "DIV" -> Quot(a, b) [] op = "MOD" -> Rem(a, b))]
Power == [n \in {2, 4, 8} |-> CASE n = 2 -> 1 [] n = 4 -> 2 [] n = 8 -> 3]
(* A signed value is made positive before the shift, and negative again.   *)
Sign(s, n) ==
    asm_add(IF n = 2 THEN s ELSE asm_add(s, "XOR", toreg(AX), toreg(DX)), "SUB", toreg(AX), toreg(DX))
ShiftSigned(s, i, n) ==
    [(IF n = 2 THEN asm_one(Sign(Put(s, <<"CWD", Nil, Nil, "word">>), n), "sar", s.v[i])
      ELSE Sign(Repeated(Sign(Put(s, <<"CWD", Nil, Nil, "word">>), n), "sar", s.v[i], Power[n]), n))
        EXCEPT !.known = @ \/ s.v[i].val # AX]
ByPower(op, s, i, n) ==
    CASE op = "MUL"                      -> Repeated(s, "shl", s.v[i], Power[n])
      [] op = "DIV" /\ s.v[i].t = CINT   -> ShiftSigned(need(s, {DX}), i, n)
      [] op = "DIV" /\ s.v[i].t # CINT   -> Repeated(s, "shr", s.v[i], Power[n])
Extended(op, s, i, j) ==
    CASE op = "MUL" -> s
      [] op # "MUL" /\ s.v[i].t = CINT /\ s.v[j].t \in {CINT, CCHAR} -> Put(s, <<"CWD", Nil, Nil, "word">>)
      [] OTHER -> asm_add(s, "XOR", toreg(DX), toreg(DX))
HighClear(s) == asm_move(s, toreglow(AX + 4), tocon(0))
AsWord(s, i)  == IF s.v[i].t = CCHAR THEN [HighClear(s) EXCEPT !.v[i].t = CINT] ELSE s
Locked(op, s, i, j) == forceint(Extended(op, [need(s, {DX}) EXCEPT !.at[DX] = Lock], i, j), j)
Unlocked(s)   == IF s.at[DX] = Lock THEN [s EXCEPT !.at[DX] = Nobody] ELSE s
Result(op, s, i, byt) ==
    CASE op = "MOD" /\ byt  -> asm_move(s, toreglow(AX), toreglow(AX + 4))
      [] op = "MOD" /\ ~byt -> [s EXCEPT !.v[i].val = DX, !.at[DX] = s.at[AX], !.at[AX] = Nobody]
      [] op = "MUL" /\ byt  -> [s EXCEPT !.v[i].t = CINT]
      [] OTHER -> s
Operation(op, s, i, j, byt) ==
    LET signed == (s.v[i].t = CINT \/ (op = "MUL" /\ byt)) /\ s.v[j].t = CINT
    IN  Result(op, freev(asm_one(s, (IF op = "MUL" THEN "mul" ELSE "div") \o (IF signed THEN "s" ELSE "u"), s.v[j]), j), i, byt)
InAX(op, s, i, j) ==
    IF s.v[i].t = CCHAR /\ s.v[j].t = CCHAR
    THEN Operation(op, Unlocked(forcemul(IF op = "MUL" THEN s ELSE HighClear(s), j)), i, j, TRUE)
    ELSE Operation(op, Unlocked(forcemul(Locked(op, AsWord(s, i), i, j), j)), i, j, FALSE)
MulTurned(op, s, i, j) ==
    LET n == s.v[j].val
    IN  CASE BothConst(s, i, j) -> FoldProduct(op, s, i, Signed(s.v[i].val), Signed(n))
          [] ~BothConst(s, i, j) /\ s.v[j].is = "CONST" /\ op # "MOD" /\ n = 1 -> s
          [] ~BothConst(s, i, j) /\ s.v[j].is = "CONST" /\ op # "MOD" /\ n \in {2, 4, 8} ->
                ByPower(op, forcereg([s EXCEPT !.si = FALSE], i), i, n)
          [] OTHER -> InAX(op, force(s, i, {AX}), i, j)
muldiv(op, s, i, j) ==
    MulTurned(op, IF op = "MUL" /\ s.v[j].is = "REG" /\ s.v[j].val = AX THEN flip(s, i, j) ELSE s, i, j)

(* Shifts and masks.                                                       *)
HighByte(s, i) ==
    LET r == s.v[i].val
    IN  IF s.v[i].t = CCHAR THEN asm_move(s, s.v[i], tocon(0))
        ELSE asm_move(asm_move(s, toreglow(r), toreglow(r + 4)), toreglow(r + 4), tocon(0))
ShiftOne(op, s, i) == asm_one(s, IF op = "SHR" THEN "shr" ELSE "shl", s.v[i])
ShiftCL(op, s, i, j) == freev(asm_one(s, IF op = "SHR" THEN "shrcl" ELSE "shlcl", s.v[i]), j)
InCX(s, j) == [force(s, j, {CX}) EXCEPT !.v[j].t = CCHAR]
Shiftable(op, s, i) == forcereg(IF op = "SHL" THEN forceint(s, i) ELSE s, i)
Shift(op, s, i, j) ==
    LET n == s.v[j].val
        a == s.v[i].val
    IN  CASE BothConst(s, i, j) -> Folded(s, i, IF op = "SHR" THEN a \div Bit(n) ELSE a * Bit(n))
          [] ~BothConst(s, i, j) /\ s.v[j].is = "CONST" /\ n = 1 -> ShiftOne(op, Shiftable(op, s, i), i)
          [] ~BothConst(s, i, j) /\ s.v[j].is = "CONST" /\ n = 8 /\ op = "SHR" -> HighByte(force(s, i, BYTEPAT), i)
          [] OTHER -> ShiftCL(op, Shiftable(op, InCX(s, j), i), i, j)
Mask(op, s, i, j) ==
    IF BothConst(s, i, j) THEN Folded(s, i, Bitwise(op, s.v[i].val, s.v[j].val)) ELSE Combine(s, op, i, j)

----
(* One operand: - ! ~, and ++ and --.                                      *)
IsZero(s, i) ==
    genlab(asm_one(asm_jump(asm_move_noopt(asm_add(s, "OR", s.v[i], s.v[i]), s.v[i], tocon(0)), "NE", s.lab), "inc", s.v[i]), s.lab)
UnaryOf(op, s, i) ==
    CASE s.v[i].is = "CONST" ->
            Folded(s, i, CASE op = "NEG" -> 0 - s.v[i].val [] op = "COMP" -> 0 - s.v[i].val - 1
                           [] op = "NOT" -> IF s.v[i].val = 0 THEN 1 ELSE 0)
      [] s.v[i].is # "CONST" /\ op = "NOT" -> IsZero(NewLab(forcereg(s, i)), i)
      [] OTHER -> LET in == forcereg(s, i) IN asm_one(in, IF op = "NEG" THEN "neg" ELSE "not", in.v[i])
genunary(op, s, i) == UnaryOf(op, s, i)

(* A bit field is put into its word.                                       *)
MaskOf(t) == LET shl == (t - BITS) % 16 IN Bit(shl + ((t - BITS) \div 16) + 1) - Bit(shl)
Shl(s, x, shl) ==
    IF shl > 1 /\ s.at[CX] = Nobody THEN asm_one(asm_move(s, toreglow(CX), tocon(shl)), "shlcl", x) ELSE Repeated(s, "shl", x, shl)
PutReg(s, l, i, t) ==
    freev(asm_add(asm_add(Shl(s, s.v[i], (t - BITS) % 16), "AND", s.v[i], tocon(MaskOf(t))), "OR", s.v[l], s.v[i]), l)
PutConst(s, l, n, t) ==
    freev(IF n = 0 THEN s ELSE asm_add(s, "OR", s.v[l], tocon(And(Word(n * Bit((t - BITS) % 16)), MaskOf(t)))), l)
PutInto(s, l, i, t) ==
    IF s.v[i].is = "CONST" THEN PutConst(s, l, s.v[i].val, t) ELSE PutReg(forcereg(forceint(s, i), i), l, i, t)
putbits(s, l, i) == PutInto(asm_add(s, "AND", s.v[l], tocon(65535 - MaskOf(s.v[l].t))), l, i, s.v[l].t)

Stepped(s, op, i, by) ==
    IF by = 1 THEN asm_one(s, IF op = "PREI" THEN "inc" ELSE "dec", s.v[i])
    ELSE asm_add(s, IF op = "PREI" THEN "ADD" ELSE "SUB", s.v[i], tocon(by))
Copied(s, i) == [s EXCEPT !.v = Append(@, s.v[i])]
IordBits(s, op, i, by) ==
    Drop(putbits(Stepped(force(s, i, {AX, CX}), op, i, by), Len(s.v), i), 1)
iord(s, op, i, by) == IF IsBits(s.v[i].t) THEN IordBits(Copied(s, i), op, i, by) ELSE Stepped(s, op, i, by)
genpre(s, op, i, by) == IF s.pre THEN s ELSE iord(s, op, i, by)
PostAnywhere(x) == ANYPAT
PostPattern(x) == IF x.is = "VAR" /\ x.val < 6 THEN ANYPAT \ INDPAT ELSE ANYPAT
PostOf(s, op, i, by, k) == Drop(freev(iord(force(s, i, PostPattern(s.v[i])), op, k, by), k), 1)
genpost(s, op, i, by) == IF s.post THEN s ELSE PostOf(Copied(s, i), Steps[op], i, by, Len(s.v) + 1)

----
(* A call: what the registers hold goes to the stack, and comes back.      *)
SavedOf(at) == {r \in 0..7 : at[r] # Nobody}
SaveRegs(s) ==
    LET after[r \in 0..8] ==
            IF r = 0 THEN s
            ELSE IF s.at[r - 1] = Nobody THEN after[r - 1]
            ELSE [asm_push(after[r - 1], toreg(r - 1)) EXCEPT !.at[r - 1] = Nobody, !.cur = @ + 2]
    IN  after[8]
RestoreRegs(s, at) ==
    LET after[k \in 0..7] ==
            IF k = 0 THEN s
            ELSE IF at[8 - k] = Nobody THEN after[k - 1]
            ELSE [Put(after[k - 1], <<"pop", toreg(8 - k), Nil, "word">>) EXCEPT !.at[8 - k] = at[8 - k], !.cur = @ - 2]
    IN  after[7]
TakenOff(s, i, cur) ==
    [asm_add(IF s.v[i].is = "VAR" /\ s.v[i].val = 6 THEN forcereg(s, i) ELSE s, "ADD", toreg(SP), tocon(s.cur - cur)) EXCEPT !.cur = cur]
Arg(s, i, cur) == pushv(IF s.cur # cur THEN TakenOff(s, i, cur) ELSE s, i, FALSE)
getargs(s, es, i) ==
    LET after[k \in 0..Len(es)] == IF k = 0 THEN s ELSE LET x == after[k - 1] IN Arg(getval(x, es[k], i), i, x.cur)
    IN  after[Len(es)]
Cleaned(s, args) ==
    CASE args = 0 -> s
      [] args # 0 /\ s.cur = args -> [asm_move(s, toreg(SP), toreg(BP)) EXCEPT !.cur = 0]
      [] OTHER -> [asm_add(s, "ADD", toreg(SP), tocon(args)) EXCEPT !.cur = @ - args]
Called(s, i) == Put(s, <<"call", s.v[i], Nil, "word">>)
Target(e) == IF e[3][1] = "IND" THEN e[3][3] ELSE e[3]
Returned(s, i, t) == [s EXCEPT !.v[i] = [toreg(AX) EXCEPT !.t = t], !.at[AX] = i]
AfterArgs(s, e, i, args) == Cleaned(Called(forcerm(getval(s, Target(e), i), i), i), args)
WithArgs(s, e, i, cur) == AfterArgs(s, e, i, s.cur - cur)
CallWith(s, e, i, at) == Returned(RestoreRegs(WithArgs(getargs(s, e[4], i), e, i, s.cur), at), i, e[2])
CallSaving(s, e, i) == CallWith(SaveRegs(s), e, i, s.at)
genfcal(s, e, i) == CallSaving(need(s, {AX}), e, i)

----
(* Assignment: of s.v[i] to the lvalue s.v[j].                             *)
ToType(s, i, t) ==
    CASE s.v[i].is = "CONST" -> [s EXCEPT !.v[i].t = t]
      [] s.v[i].is # "CONST" /\ t = CCHAR -> IF s.v[i].t = CCHAR THEN s ELSE forcebyt(s, i)
      [] s.v[i].is # "CONST" /\ t # CCHAR /\ s.v[i].t = CCHAR -> [forceint(s, i) EXCEPT !.v[i].t = CUNSG]
      [] OTHER -> s
(* An address register that is wanted was pushed: what it pointed to is.   *)
Spilled(x) == x.is = "VAR" /\ x.val = 6 /\ x.name = 0 /\ x.off < 0
Lvalue(s, i) == [s EXCEPT !.known = @ \/ Spilled(s.v[i])]
Does(op) == IF op \in Twice THEN "mov" ELSE Assigns[op]
Store(s, op, i, j) ==
    IF Does(op) = "mov" THEN asm_move(Lvalue(s, j), s.v[j], s.v[i]) ELSE asm_add(Lvalue(s, j), Does(op), s.v[j], s.v[i])
Stored(s, op, i, j) == freev(IF op = "ASGN" THEN Store(s, op, i, j) ELSE flip(Store(s, op, i, j), i, j), j)
AssignTo(s, op, i, j) ==
    IF IsBits(s.v[j].t) THEN putbits(Lvalue(s, j), j, i) ELSE Stored(ToType(s, i, s.v[j].t), op, i, j)
Assign(s, op, i, j) == AssignTo(IF s.v[i].is = "VAR" THEN forcereg(s, i) ELSE s, op, i, j)
Operands(s, e, i, j) ==
    IF e[1] \in Twice
    THEN [getval([forcerm([getval([s EXCEPT !.post = TRUE], <<Assigns[e[1]], e[2], e[3]>>, i) EXCEPT !.post = FALSE], i)
                    EXCEPT !.pre = TRUE], e[2], j) EXCEPT !.pre = FALSE]
    ELSE getval(forcerm(getval(s, e[3], i), i), e[2], j)
genasgn(s, e, i) == Assign(Operands(s, e, i, Len(s.v)), e[1], i, Len(s.v))

----
(* Comparison: s.cc is what holds of the flags when it is true.            *)
Both(s, rel, i, j) ==
    freev(freev([asm_add(s, "CMP", s.v[i], s.v[j])
                    EXCEPT !.cc = IF s.v[i].t = CINT /\ s.v[j].t = CINT THEN rel ELSE unsigned[rel]], i), j)
Compared(s, rel, i, j) ==
    Both(IF s.v[i].is = "VAR" /\ s.v[j].is = "VAR" THEN forcereg(s, i) ELSE s, rel, i, j)
InOrder(s, rel, i, j) ==
    CASE ~Immediate(s.v[i]) -> Compared(s, rel, i, j)
      [] Immediate(s.v[i]) /\ ~Immediate(s.v[j]) -> Compared(flip(s, i, j), flipped[rel], i, j)
      [] OTHER -> Compared(forcereg(s, i), rel, i, j)
Same(s, i, j) == SameType(forcerm(forcerm(s, j), i), i, j)
CompareIn(s, e, i) == Drop(InOrder(Same(get2(s, e, i, i + 1), i, i + 1), e[1], i, i + 1), 2)
compare(s, e) == CompareIn(Local(Local(s)), e, Len(s.v) + 1)
Set(s, i) == genlab(asm_one(asm_jump(s, Not[s.cc], s.lab), "inc", s.v[i]), s.lab)
gencmp(s, e, i) == Set(NewLab(compare(needzreg(s, i), e)), i)

(* What was pushed since is given up.                                      *)
cleanup(s, cur) == IF cur < s.cur THEN [asm_lea(s, SP, tobpm(cur)) EXCEPT !.cur = cur] ELSE s
Reload(s, keep, reg) == force([s EXCEPT !.sunk = @ \/ (s.v[keep].is = "VAR" /\ s.v[keep].off < 0 - s.cur)], keep, {reg})
Kept(s, keep, reg) == IF keep # 0 /\ s.v[keep].val # reg THEN Reload(s, keep, reg) ELSE s
RegOf(s, keep) == IF keep = 0 THEN AX ELSE s.v[keep].val
JumpIf(s, true, lab) == asm_jump(s, IF true THEN s.cc ELSE Not[s.cc], lab)
JumpOnCompare(s, true, lab, keep, reg, cur) == JumpIf(Kept(cleanup(s, cur), keep, reg), true, lab)
Tested(s, i) ==
    freev(IF s.v[i].is = "REG" /\ s.v[i].t # CCHAR THEN asm_add(s, "OR", s.v[i], s.v[i]) ELSE asm_add(s, "CMP", s.v[i], tocon(0)), i)
JumpOnValue(s, true, lab, i, cur) ==
    IF s.v[i].is = "CONST"
    THEN IF (s.v[i].val # 0) = true THEN asm_jump(cleanup(s, cur), "JMP", lab) ELSE s
    ELSE asm_jump(cleanup(Tested(IF s.v[i].is = "OFF" THEN forcereg(s, i) ELSE s, i), cur), IF true THEN "NE" ELSE "EQ", lab)
OnValue(s, e, true, lab, keep, reg, cur, i) ==
    Drop(JumpOnValue(Kept(forcerm(getval(s, e, i), i), keep, reg), true, lab, i, cur), 1)
Either(s, e, true, dolab, lab, keep) ==
    genlab(gencond(gencond(s, e[2], ~true, dolab, keep), e[3], true, lab, keep), dolab)
Cond(s, e, true, lab, keep) ==
    CASE e[1] = IF true THEN "LOR" ELSE "LAND" -> gencond(gencond(s, e[2], true, lab, keep), e[3], true, lab, keep)
      [] e[1] = IF true THEN "LAND" ELSE "LOR" -> Either(NewLab(s), e, true, s.lab + 1, lab, keep)
      [] e[1] \in Compares -> JumpOnCompare(compare(s, e), true, lab, keep, RegOf(s, keep), s.cur)
      [] e[1] = "NOT" -> gencond(s, e[2], ~true, lab, keep)
      [] OTHER -> OnValue(Local(s), e, true, lab, keep, RegOf(s, keep), s.cur, Len(s.v) + 1)

One(s, i, lab) == genlab(asm_one(s, "inc", s.v[i]), lab)
LogIn(s, e, i, lab) == One(gencond(s, e, FALSE, lab, i), i, lab)
LogKeep(s, e, i) == LogIn(NewLab(s), e, i, s.lab + 1)
genlog(s, e, i) == LogKeep(needzreg(PushAll(s), i), e, i)

(* c ? a : b, both in AX.                                                  *)
ConstInt(s, i) == IF s.v[i].is = "CONST" /\ s.v[i].t = CCHAR THEN [s EXCEPT !.v[i].t = CINT] ELSE s
Arm(s, e, i) == forceint(force(ConstInt(getval(s, e, i), i), i, {AX}), i)
(* What one arm pushed the other did not.                                  *)
Uneven(s, cur) == [s EXCEPT !.known = @ \/ s.cur # cur]
SecondArm(s, e, i, lab, lab2) == genlab(Uneven(Arm(genlab(asm_jump(s, "JMP", lab2), lab), e, i), s.cur), lab2)
FirstArm(s, e, i, lab) == SecondArm(NewLab(s), e[5], i, lab, s.lab + 1)
TestIn(s, e, i, lab) == FirstArm(Uneven(freev(Arm(gencond(s, e[3], FALSE, lab, 0), e[4], i), i), s.cur), e, i, lab)
TestFrom(s, e, i) == TestIn(NewLab(s), e, i, s.lab + 1)
gentest(s, e, i) == TestFrom(PushAll(s), e, i)

----
(* Operands.                                                               *)
Operand(e) ==
    [is |-> IF e[2] \in {ARRAY, FUNCTION} THEN "OFF" ELSE "VAR", val |-> IF e[3] # 0 THEN 8 ELSE 6,
     name |-> e[3], off |-> e[4], t |-> IF e[2] \in {ARRAY, FUNCTION} THEN CUNSG ELSE e[2]]
CastTo(s, i, t) == IF t = CCHAR THEN [forcebyt(s, i) EXCEPT !.known = @ \/ IsBits(s.v[i].t)] ELSE [forceint(s, i) EXCEPT !.v[i].t = t]
AddressOf(s, i) ==
    LET x == s.v[i]
    IN  CASE x.is # "VAR" -> Bad(s)
          [] x.is = "VAR" /\ Plain(x) /\ x.val \in {4, 5} -> [s EXCEPT !.v[i].is = "REG", !.v[i].val = @ + 2, !.v[i].t = CUNSG]
          [] OTHER -> [s EXCEPT !.v[i].is = "OFF", !.v[i].t = CUNSG]
Memory(s, i, t) == [s EXCEPT !.v[i].is = "VAR", !.v[i].t = t]
ByRegister(s, i) == [s EXCEPT !.v[i].val = IF @ = SI THEN 4 ELSE 5]
Cleared(s, i) == [s EXCEPT !.v[i].name = 0, !.v[i].off = 0]
Displaced(s, i, j) ==
    IF s.v[j].is = "CONST" THEN [s EXCEPT !.v[i].off = Signed(s.v[j].val)]
    ELSE forceind(Combined(forcerm(forceint(s, j), j), "ADD", i, j), i)
IndexSum(s, i, j) ==
    IF s.v[i].is = "OFF" \/ s.v[j].is = "OFF" THEN genadd(s, i, j) ELSE ByRegister(Displaced(Cleared(forceind(s, i), i), i, j), i)
SumTerms(s, e, i, j) == [getval(getval(s, e[3], j), e[2], i) EXCEPT !.si = FALSE]
Pointed(s, i) == IF s.v[i].is = "OFF" THEN s ELSE Cleared(ByRegister(forceind(s, i), i), i)
IndOf(s, e, i) ==
    IF e[1] = "ADD" THEN Drop(IndexSum(SumTerms(Local(s), e, i, Len(s.v) + 1), i, Len(s.v) + 1), 1)
    ELSE Pointed([getval(s, e, i) EXCEPT !.si = FALSE], i)
genopnd(s, e, i) ==
    CASE e[1] = "OPND"  -> [s EXCEPT !.v[i] = Operand(e)]
      [] e[1] = "CONST" -> [s EXCEPT !.v[i] = [tocon(e[3]) EXCEPT !.t = e[2]]]
      [] e[1] = "CAST"  -> CastTo(getval(s, e[3], i), i, e[2])
      [] e[1] = "TA"    -> AddressOf(getval(s, e[2], i), i)
      [] e[1] = "IND"   -> Memory(IndOf([s EXCEPT !.si = TRUE], e[3], i), i, e[2])

(* The operators with two operands.                                        *)
Does2(op, s, i, j) ==
    CASE op \in Products -> muldiv(op, s, i, j)
      [] op = "ADD"      -> genadd(s, i, j)
      [] op = "SUB"      -> gensub(s, i, j)
      [] op \in Shifts   -> Shift(op, s, i, j)
      [] op \in Masks    -> Mask(op, Same(s, i, j), i, j)
Binary(s, e, i) == Drop(Does2(e[1], get2(s, e, i, Len(s.v)), i, Len(s.v)), 1)
(* Without its value x++ is ++x.                                           *)
PreFor(e) == IF e[1] \in DOMAIN Steps THEN [e EXCEPT ![1] = Steps[@]] ELSE e
getnoval(s, e, i) == freev(getval(s, PreFor(e), i), i)
AfterPre(s, op, i, by) == IF op \in {"PREI", "PRED"} THEN genpre(s, op, i, by) ELSE genpost(s, op, i, by)
Value(s, e, i) ==
    CASE e[1] \in {"OPND", "CONST", "CAST", "TA", "IND"} -> genopnd(s, e, i)
      [] e[1] \in Sums \cup Products \cup Shifts \cup Masks -> Binary(Local(s), e, i)
      [] e[1] \in Compares       -> gencmp(s, e, i)
      [] e[1] \in Logical        -> genlog(s, e, i)
      [] e[1] \in Unaries        -> genunary(e[1], getval(s, e[2], i), i)
      [] e[1] \in DOMAIN Steps   -> AfterPre(getval(s, e[2], i), e[1], i, e[3])
      [] e[1] \in DOMAIN Assigns -> Drop(genasgn(Local(s), e, i), 1)
      [] e[1] = "CALL"           -> genfcal(s, e, i)
      [] e[1] = "TEST"           -> gentest(s, e, i)
      [] e[1] = "LST"            -> getval(getnoval(s, e[2], i), e[3], i)
Do(what, s, i, x) ==
    CASE what = "force" -> Force(s, i, x)
      [] what = "push"  -> PushV(s, i, x)
      [] what = "value" -> Value(s, x, i)
      [] what = "cond"  -> Cond(s, x[1], x[2], x[3], i)

(* A statement: an expression, or return with one.                         *)
Unstacked(s) == IF s.cur = 0 THEN s ELSE [asm_add(s, "ADD", toreg(SP), tocon(s.cur)) EXCEPT !.cur = 0]
Effect(s, e) == Unstacked(Drop(getnoval(Local(s), e, 1), 1))
ReturnAX(s) == freev(IF s.v[1].t = CCHAR THEN HighClear(s) ELSE s, 1)
Leave(s)    == [(IF s.cur = 0 THEN s ELSE asm_move(s, toreg(SP), toreg(BP))) EXCEPT !.cur = 0]
RET(s, e)   == Leave(Drop(ReturnAX(force(ConstInt(getval(Local(s), e, 1), 1), 1, {AX})), 1))
Statement(e, returns) == IF returns THEN RET(Gen0, reorder(e)[2]) ELSE Effect(Gen0, reorder(e)[2])

----
(* The machine.  Names are at 8, 16, ...; the frame is at Frame, the stack *)
(* below it down to Stack.  What a called function leaves in registers and *)
(* below the stack is junk; m.f is what the flags compare, m.below tells   *)
(* that something given up was read from the stack.                        *)
Frame == 112
Stack == 56
Junk  == 43690
Load(mem, a, w) == IF w = "byte" THEN mem[a] ELSE mem[a] + 256 * mem[a + 1]
Save(mem, a, w, n) == IF w = "byte" THEN [mem EXCEPT ![a] = n % 256] ELSE [mem EXCEPT ![a] = n % 256, ![a + 1] = (n \div 256) % 256]
Inside(mem, a, w)  == a \in DOMAIN mem /\ (w = "word" => a + 1 \in DOMAIN mem)
Machine(mem) == [r |-> [r \in 0..7 |-> IF r \in {BP, SP} THEN Frame ELSE Junk], mem |-> mem, f |-> <<0, 0, "word">>, below |-> FALSE, wrong |-> FALSE]

Effective(m, x) ==
    8 * x.name + x.off + CASE x.val = 0 -> m.r[BX] + m.r[SI] [] x.val = 1 -> m.r[BX] + m.r[DI] [] x.val = 2 -> m.r[BP] + m.r[SI]
                           [] x.val = 3 -> m.r[BP] + m.r[DI] [] x.val = 4 -> m.r[SI] [] x.val = 5 -> m.r[DI]
                           [] x.val = 6 -> m.r[BP] [] x.val = 7 -> m.r[BX] [] x.val = 8 -> 0
Reached(m, x) == Word(Effective(m, x))
Sees(m, x, w) ==
    CASE x.is = "CONST" -> IF w = "byte" THEN x.val % 256 ELSE x.val
      [] x.is = "OFF"   -> Reached(m, x)
      [] x.is = "REG"   -> IF w = "word" THEN m.r[x.val] ELSE IF x.val < 4 THEN m.r[x.val] % 256 ELSE m.r[x.val - 4] \div 256
      [] x.is = "VAR"   -> IF Inside(m.mem, Reached(m, x), w) THEN Load(m.mem, Reached(m, x), w) ELSE 0
InByte(old, r, n) == IF r < 4 THEN (old \div 256) * 256 + (n % 256) ELSE (old % 256) + 256 * (n % 256)
Write(m, x, w, n) ==
    CASE x.is = "REG" /\ w = "word" -> [m EXCEPT !.r[x.val] = Word(n)]
      [] x.is = "REG" /\ w = "byte" -> [m EXCEPT !.r[x.val % 4] = InByte(@, x.val, n)]
      [] x.is = "VAR" /\ Inside(m.mem, Reached(m, x), w) -> [m EXCEPT !.mem = Save(@, Reached(m, x), w, n)]
      [] OTHER -> [m EXCEPT !.wrong = TRUE]
(* An operand as wide as the instruction, and not below the stack.         *)
Misfit(m, x, w) ==
    \/ x.is = "REG" /\ (w = "byte") # (x.t = CCHAR)
    \/ x.is = "VAR" /\ ~Inside(m.mem, Reached(m, x), w)
Sunk(m, x) == x.is = "VAR" /\ Reached(m, x) \in Stack..(m.r[SP] - 1)
Looks(m, l, r, w) ==
    [m EXCEPT !.wrong = @ \/ Misfit(m, l, w) \/ Misfit(m, r, w), !.below = @ \/ Sunk(m, l) \/ Sunk(m, r)]

Limit(w)  == IF w = "byte" THEN 256 ELSE 65536
Arith(op, a, b, w) ==
    CASE op = "ADD" -> (a + b) % Limit(w) [] op \in {"SUB", "CMP"} -> (a - b) % Limit(w)
      [] op \in Masks -> Bitwise(op, a, b)
Monadic(op, a, w, cl) ==
    CASE op = "inc" -> (a + 1) % Limit(w) [] op = "dec" -> (a - 1) % Limit(w) [] op = "neg" -> (0 - a) % Limit(w)
      [] op = "not" -> Limit(w) - 1 - a [] op = "shl" -> (2 * a) % Limit(w) [] op = "shr" -> a \div 2
      [] op = "sar" -> a \div 2 + (IF a >= Limit(w) \div 2 THEN Limit(w) \div 2 ELSE 0)
      [] op = "shlcl" -> IF cl > 15 THEN 0 ELSE (a * Bit(cl)) % Limit(w)
      [] op = "shrcl" -> IF cl > 15 THEN 0 ELSE a \div Bit(cl)
Wide(m, n)  == [m EXCEPT !.r[AX] = Word(n), !.r[DX] = Word(n \div 65536)]
Divide(m, q, k, w) ==
    IF w = "byte" THEN (IF q > 255 THEN [m EXCEPT !.wrong = TRUE] ELSE [m EXCEPT !.r[AX] = q + 256 * k])
    ELSE IF q > 65535 \/ q < -32768 THEN [m EXCEPT !.wrong = TRUE] ELSE [m EXCEPT !.r[AX] = Word(q), !.r[DX] = Word(k)]
Double(m)  == (IF m.r[DX] >= 32768 THEN m.r[DX] - 65536 ELSE m.r[DX]) * 65536 + m.r[AX]
(* mul and div: only dividends of one word and its sign happen.            *)
MulDiv(m, op, a, w) ==
    CASE op = "mulu" /\ w = "byte" -> [m EXCEPT !.r[AX] = (@ % 256) * a]
      [] op = "muls" \/ (op = "mulu" /\ w = "word") -> [m EXCEPT !.r[AX] = Word(Signed(@) * Signed(a)), !.r[DX] = Junk]
      [] op \in {"divs", "divu"} /\ a = 0 -> [m EXCEPT !.wrong = TRUE]
      [] op = "divu" /\ a # 0 /\ w = "byte" -> Divide(m, m.r[AX] \div a, m.r[AX] % a, w)
      [] op = "divu" /\ a # 0 /\ w = "word" ->
            IF m.r[DX] # 0 THEN [m EXCEPT !.wrong = TRUE] ELSE Divide(m, m.r[AX] \div a, m.r[AX] % a, w)
      [] op = "divs" /\ a # 0 -> IF m.r[DX] \notin {0, 65535} THEN [m EXCEPT !.wrong = TRUE] ELSE Divide(m, Quot(Double(m), Signed(a)), Rem(Double(m), Signed(a)), w)
(* The function: of the words on the stack.                                *)
Function2(a, b) == Word(3 * a + b + 1)
Entered(m) ==
    LET sp == m.r[SP]
        a  == Function2(Load(m.mem, sp, "word"), Load(m.mem, sp + 2, "word"))
    IN  [m EXCEPT !.r = [r \in 0..7 |-> CASE r = AX -> a [] r \in {SP, BP} -> m.r[r] [] OTHER -> Junk],
                  !.mem = [i \in DOMAIN m.mem |-> IF i \in Stack..(sp - 1) THEN 170 ELSE m.mem[i]]]
PushWord(m, n) == [m EXCEPT !.r[SP] = @ - 2, !.mem = Save(@, m.r[SP] - 2, "word", n)]
PopWord(m, r)  == [m EXCEPT !.r[SP] = @ + 2, !.r[r] = Load(m.mem, m.r[SP], "word")]
(* XOR of a register with itself reads nothing.                            *)
Flagged(m, op, l, r, w) ==
    IF op = "CMP" THEN [m EXCEPT !.f = <<Sees(m, l, w), Sees(m, r, w), w>>]
    ELSE [Write(m, l, w, Arith(op, Sees(m, l, w), Sees(m, r, w), w)) EXCEPT !.f = <<Arith(op, Sees(m, l, w), Sees(m, r, w), w), 0, w>>]
Execute(m, op, l, r, w) ==
    CASE op = "mov"  -> Write(m, l, w, Sees(m, r, w))
      [] op = "lea"  -> Write(m, l, w, Reached(m, r))
      [] op = "push" -> PushWord(m, Sees(m, l, w))
      [] op = "pop"  -> PopWord(m, l.val)
      [] op = "call" -> Entered(m)
      [] op = "CWD"  -> [m EXCEPT !.r[DX] = IF m.r[AX] >= 32768 THEN 65535 ELSE 0]
      [] op \in {"mulu", "muls", "divu", "divs"} -> MulDiv(m, op, Sees(m, l, w), w)
      [] op \in Masks \cup {"ADD", "SUB", "CMP"} -> Flagged(m, op, l, r, w)
      [] OTHER -> [Write(m, l, w, Monadic(op, Sees(m, l, w), w, m.r[CX] % 256))
                     EXCEPT !.f = <<Monadic(op, Sees(m, l, w), w, m.r[CX] % 256), 0, w>>]
SignedIn(n, w) == IF n >= Limit(w) \div 2 THEN n - Limit(w) ELSE n
Holding(c, f) ==
    LET a == SignedIn(f[1], f[3])
        b == SignedIn(f[2], f[3])
    IN  CASE c = "EQ" -> a = b [] c = "NE" -> a # b [] c = "GE" -> a >= b [] c = "LT" -> a < b [] c = "GT" -> a > b [] c = "LE" -> a <= b
          [] c = "AE" -> f[1] >= f[2] [] c = "B" -> f[1] < f[2] [] c = "A" -> f[1] > f[2] [] c = "BE" -> f[1] <= f[2] [] c = "JMP" -> TRUE
(* Jumps are forward: to the label after.                                  *)
Labelled(code, i, l) == CHOOSE k \in i..Len(code) : code[k][1] = "label" /\ code[k][2] = l
Does1(m, ins) ==
    IF ins[1] = "label" THEN m
    ELSE Execute(IF ins[1] \in {"lea", "call"} THEN m ELSE Looks(m, ins[2], ins[3], ins[4]), ins[1], ins[2], ins[3], ins[4])
RECURSIVE Run(_, _, _)
Run(code, i, m) ==
    CASE i > Len(code) \/ m.wrong -> m
      [] i <= Len(code) /\ ~m.wrong /\ code[i][1] = "jump" -> Run(code, IF Holding(code[i][2], m.f) THEN Labelled(code, i, code[i][3]) ELSE i + 1, m)
      [] OTHER -> Run(code, i + 1, Does1(m, code[i]))

----
(* What the expression means: its value n, typed "c", "i", "u", or "x"     *)
(* where int and unsigned met and the code may take it for either ("b":    *)
(* not to be used); the memory after it; what it read and wrote; whether   *)
(* it has a meaning (ok); whether it is a constant (k).                    *)
TypeName(t) == IF t = CCHAR THEN "c" ELSE IF t = CINT THEN "i" ELSE "u"
WidthOf(t)  == IF t = CCHAR THEN "byte" ELSE "word"
V(n, t, mem, ok) == [n |-> n, t |-> t, k |-> FALSE, mem |-> mem, ok |-> ok, read |-> {}, wrote |-> {}]
Data(mem, a) == Inside(mem, a, "word") /\ (a < Stack - 1 \/ a >= Frame)
FieldOf(n, t) == IF IsBits(t) THEN (n \div Bit((t - BITS) % 16)) % Bit(((t - BITS) \div 16) + 1) ELSE n
IntoField(old, n, t) ==
    IF IsBits(t) THEN old - And(old, MaskOf(t)) + And(Word(n * Bit((t - BITS) % 16)), MaskOf(t)) ELSE n
Fetch(mem, a, t, ok) ==
    IF Data(mem, a) THEN [V(FieldOf(Load(mem, a, WidthOf(t)), t), TypeName(t), mem, ok) EXCEPT !.read = {a, a + 1}]
    ELSE V(0, "u", mem, FALSE)
Deposit(mem, a, t, n) == Save(mem, a, WidthOf(t), IntoField(Load(mem, a, "word"), n, t))
(* v, and what was done for it; of two operands neither reads or writes    *)
(* what the other writes.                                                  *)
With(v, W) == [v EXCEPT !.read = @ \cup UNION {w.read : w \in W}, !.wrote = @ \cup UNION {w.wrote : w \in W}]
Apart(p, q) == p.wrote \cap (q.read \cup q.wrote) = {} /\ q.wrote \cap p.read = {}

Num(v) == IF v.t = "i" THEN Signed(v.n) ELSE v.n
Meets(p, q) == IF p.t = q.t THEN p.t ELSE IF {p.t, q.t} = {"c", "i"} THEN "i" ELSE "x"
(* An operation whose result depends on the sign.                          *)
Sure(p, q)  == "x" \in {p.t, q.t} => p.n < 32768 /\ q.n < 32768
Meant(op, a, b) ==
    CASE op = "ADD" -> a + b [] op = "SUB" -> a - b [] op = "MUL" -> Signed(Word(a)) * Signed(Word(b)) [] op = "DIV" -> Quot(a, b) [] op = "MOD" -> Rem(a, b)
      [] op = "SHL" -> Signed(Word(a)) * Bit(b) [] op = "SHR" -> Word(a) \div Bit(b) [] op \in Masks -> Bitwise(op, Word(a), Word(b))
Holds2(op, a, b) ==
    CASE op = "EQ" -> a = b [] op = "NE" -> a # b [] op = "GE" -> a >= b [] op = "LT" -> a < b [] op = "GT" -> a > b [] op = "LE" -> a <= b
Truth(b) == IF b THEN 1 ELSE 0
(* Bytes are added, subtracted and multiplied by 2, 4 and 8 as bytes.      *)
Keeps(op, q) == q.k /\ ((op \in Sums /\ q.n = 0) \/ (op \in {"MUL", "DIV"} /\ q.n \in {1, 2, 4, 8}))
ByPowerOf(p, q) == p.t = "c" /\ q.k /\ q.n \in {1, 2, 4, 8}
Narrow(op, p, q) ==
    /\ ~(p.k /\ q.k)
    /\ \/ p.t = "c" /\ op \in Sums \cup Masks \cup {"DIV", "MOD", "SHR"}
       \/ op = "MUL" /\ (ByPowerOf(p, q) \/ ByPowerOf(q, p))
Signs(p, q) == IF Meets(p, q) \in {"c", "i"} THEN "i" ELSE "u"
As(v, t)    == IF t = "i" THEN Signed(v.n) ELSE v.n
Outcome(op, p, q, n) ==
    [V(Word(n), CASE p.k /\ q.k -> "i"
                  [] ~(p.k /\ q.k) /\ op \in Shifts -> IF p.t = "c" /\ op = "SHL" THEN "i" ELSE p.t
                  [] ~(p.k /\ q.k) /\ op \notin Shifts /\ Keeps(op, q) -> p.t
                  [] ~(p.k /\ q.k) /\ op \in {"ADD", "MUL"} /\ ~Keeps(op, q) /\ Keeps(op, p) -> q.t
                  [] OTHER -> IF Meets(p, q) = "c" /\ ~Narrow(op, p, q) THEN "i" ELSE Meets(p, q), q.mem,
       /\ p.ok /\ q.ok
       /\ (Narrow(op, p, q) /\ q.t = "c") \/ (op = "MUL" /\ Narrow(op, p, q)) => n \in 0..255
       /\ op \in {"DIV", "MOD"} => Sure(p, q) /\ (As(p, Signs(p, q)) # -32768)) EXCEPT !.k = p.k /\ q.k]
Operate(op, p, q) ==
    CASE op \in {"DIV", "MOD"} /\ q.n = 0 -> V(0, "i", q.mem, FALSE)
      [] op \in Shifts /\ q.n >= 16 -> V(0, "i", q.mem, FALSE)
      [] op \in Compares -> V(Truth(Holds2(op, As(p, Signs(p, q)), As(q, Signs(p, q)))), "i", q.mem, p.ok /\ q.ok /\ (op \in {"EQ", "NE"} \/ Sure(p, q)))
      [] OTHER -> Outcome(op, p, q, Meant(op, As(p, Signs(p, q)), IF op \in Shifts THEN q.n ELSE As(q, Signs(p, q))))

RECURSIVE Ev(_, _)
Used(v) == [v EXCEPT !.ok = @ /\ v.t # "b"]
Dyadic(op, p, q) == With([Operate(op, p, q) EXCEPT !.ok = @ /\ Apart(p, q)], {p, q})
Monad(op, v) ==
    CASE op = "NOT" -> [V(Truth(v.n = 0), IF v.k THEN "i" ELSE IF v.t = "u" THEN "x" ELSE v.t, v.mem, v.ok) EXCEPT !.k = v.k]
      [] op # "NOT" -> [V(Word(IF op = "NEG" THEN 0 - v.n ELSE 0 - v.n - 1), IF v.k THEN "i" ELSE v.t, v.mem, v.ok /\ (v.t # "c" \/ v.k)) EXCEPT !.k = v.k]
(* Where an object is, as a value.                                         *)
IsObject(e) == (e[1] = "OPND" /\ e[2] \notin {ARRAY, FUNCTION}) \/ e[1] = "IND"
At(e, mem) == IF e[1] = "OPND" THEN V(IF e[3] = 0 THEN Frame + e[4] ELSE 8 * e[3] + e[4], "u", mem, TRUE) ELSE Used(Ev(e[3], mem))
(* An assigned constant keeps its value in a smaller type.                 *)
Assigned(r, a, t, mem, ok) ==
    [V(IF t = CCHAR THEN r.n % 256 ELSE r.n,
       CASE IsBits(t) \/ (t = CCHAR /\ r.k /\ r.n > 255) -> "b"
         [] t = CCHAR /\ ~(r.k /\ r.n > 255) -> "c"
         [] OTHER -> IF ~IsBits(t) /\ (r.k \/ r.t = TypeName(t)) THEN TypeName(t) ELSE "x",
       Deposit(mem, a, t, r.n), ok) EXCEPT !.wrote = {a, a + 1}]
Changed(n, a, t, mem, ok) ==
    [Fetch(Deposit(mem, a, t, Word(n)), a, t, ok) EXCEPT !.t = IF IsBits(t) THEN "b" ELSE @, !.wrote = {a, a + 1}]
(* The left of *=, evaluated twice, has no effect but one step that is put *)
(* off.                                                                    *)
Stepping(e) == e[1] = "IND" /\ e[3][1] \in DOMAIN Steps /\ e[3][2][1] = "OPND"
RECURSIVE Quiet(_)
Quiet(e) == CASE e[1] \in {"OPND", "CONST"} -> TRUE
              [] e[1] \in {"IND", "CAST"}   -> Quiet(e[3])
              [] e[1] \in Unaries           -> Quiet(e[2])
              [] e[1] \in Sums \cup Products \cup Shifts \cup Masks -> Quiet(e[2]) /\ Quiet(e[3])
              [] OTHER -> FALSE
Update(op, l, a, r, mem, ok) ==
    CASE op = "ASGN" -> Assigned(r, a, l[2], mem, ok)
      [] op \in Twice ->
            LET v == Operate(Assigns[op], Fetch(mem, a, l[2], ok), r)
            IN  Changed(v.n, a, l[2], mem, v.ok /\ (Quiet(l) \/ Stepping(l)))
      [] OTHER -> Changed(Meant(Assigns[op], Fetch(mem, a, l[2], ok).n, r.n), a, l[2], mem, ok)
Assignment(op, l, p, r) ==
    IF ~IsObject(l) \/ ~Data(r.mem, p.n) THEN V(0, "i", r.mem, FALSE)
    ELSE With(Update(op, l, p.n, r, r.mem, p.ok /\ r.ok /\ Apart(p, r) /\ {p.n, p.n + 1} \cap (r.wrote \cup p.wrote) = {}), {p, r})
Stepper(op, by, p, old, t) ==
    LET new == IF op \in {"PREI", "POSTI"} THEN old.n + by ELSE old.n - by
    IN  IF ~old.ok THEN old
        ELSE With(IF op \in {"PREI", "PRED"} THEN Changed(new, p.n, t, p.mem, {p.n, p.n + 1} \cap p.wrote = {})
                  ELSE [old EXCEPT !.mem = Deposit(p.mem, p.n, t, Word(new)), !.wrote = {p.n, p.n + 1}], {p})
Calling(t, b, a) == With(V(Function2(a.n, b.n), TypeName(t), a.mem, a.ok /\ b.ok /\ Apart(a, b)), {a, b})
Chosen(c, x, other) ==
    With(V(x.n, IF {x.t, other} \subseteq {"c", "i"} THEN "i" ELSE IF x.t = other THEN x.t ELSE "x", x.mem, c.ok /\ x.ok), {c, x})
After(p, q) == With(V(Truth(q.n # 0), "i", q.mem, p.ok /\ q.ok), {p, q})
Shortcut(e, p) ==
    IF (p.n # 0) = (e[1] = "LOR") THEN With(V(Truth(p.n # 0), "i", p.mem, p.ok), {p}) ELSE After(p, Used(Ev(e[3], p.mem)))
CastAs(v, t) == With([V(IF t = CCHAR THEN v.n % 256 ELSE v.n, TypeName(t), v.mem, v.ok) EXCEPT !.k = v.k], {v})
Then(e, p) ==
    CASE e[1] \in DOMAIN Assigns -> Assignment(e[1], e[2], p, Used(Ev(e[3], p.mem)))
      [] e[1] \in DOMAIN Steps   -> IF IsObject(e[2]) THEN Stepper(e[1], e[3], p, Fetch(p.mem, p.n, e[2][2], p.ok), e[2][2]) ELSE V(0, "i", p.mem, FALSE)
      [] e[1] = "CALL"           -> Calling(e[2], p, Used(Ev(e[4][2], p.mem)))
      [] e[1] = "TEST"           -> IF p.n # 0 THEN Chosen(p, Used(Ev(e[4], p.mem)), Ev(e[5], p.mem).t) ELSE Chosen(p, Used(Ev(e[5], p.mem)), Ev(e[4], p.mem).t)
      [] e[1] \in Logical        -> Shortcut(e, p)
      [] e[1] = "LST"            -> With([Ev(e[3], p.mem) EXCEPT !.ok = @ /\ p.ok], {p})
      [] e[1] = "CAST"           -> CastAs(p, e[2])
      [] e[1] \in Unaries        -> With(Monad(e[1], p), {p})
      [] IsObject(e)             -> With(Fetch(p.mem, p.n, e[2], p.ok), {p})
      [] OTHER                   -> Dyadic(e[1], p, Used(Ev(e[3], p.mem)))
Ev(e, mem) ==
    CASE e[1] = "CONST" -> [V(Word(e[3]), TypeName(e[2]), mem, TRUE) EXCEPT !.k = TRUE]
      [] e[1] = "TA"    -> At(e[2], mem)
      [] e[1] = "OPND" /\ e[2] \in {ARRAY, FUNCTION} -> At(e, mem)
      [] IsObject(e)    -> Then(e, At(e, mem))
      [] e[1] \in DOMAIN Assigns \cup DOMAIN Steps -> Then(e, IF IsObject(e[2]) THEN At(e[2], mem) ELSE V(0, "i", mem, FALSE))
      [] e[1] = "CALL"  -> Then(e, Used(Ev(e[4][1], mem)))
      [] e[1] \in {"TEST", "CAST"} -> Then(e, Used(Ev(e[3], mem)))
      [] e[1] = "LST"   -> Then(e, Ev(e[2], mem))
      [] OTHER          -> Then(e, Used(Ev(e[2], mem)))

(* What the code does is what the expression means, in every memory: its   *)
(* objects, and what a return leaves in AX.  The stack is as it was, and   *)
(* no register is still somebody's.                                        *)
Clear(mem)   == [a \in DOMAIN mem |-> IF a \in Stack..(Frame - 1) THEN 0 ELSE mem[a]]
Kept2(s, m)  == m.r[BP] = Frame /\ m.r[SP] = Frame /\ s.cur = 0 /\ \A r \in 0..7 : s.at[r] = Nobody
Agrees(s, m, v, returns) ==
    /\ m.below => s.sunk
    /\ ~m.wrong /\ ~s.bad
    /\ Clear(m.mem) = Clear(v.mem)
    /\ returns => m.r[AX] = v.n
    /\ Kept2(s, m)
Does3(s, v, mem, returns) ==
    v.ok /\ (returns => v.t # "b") /\ ~s.known => Agrees(s, Run(s.code, 1, Machine(mem)), v, returns)
DoesRight(e, mems, returns) ==
    LET s == Statement(e, returns) IN \A mem \in mems : Does3(s, Ev(e, mem), mem, returns)
====
