---------------------------------- MODULE CExpr ----------------------------------
(***************************************************************************)
(* C88's expressions (C4.C, C5.C): heir11 to heir26 read tokens by descent *)
(* and make a tree for GEN, with the types and the scaling of addresses    *)
(* put in; constexp reads a constant.  Small model, without long, float    *)
(* and bit-fields.  A type is the bytes of ntype, a node is as in GenExpr. *)
(***************************************************************************)
EXTENDS Integers, Sequences, Bitwise

CONSTANT LISTS      \* expressions to a list node (6)

CCHAR == 1   CINT == 2   CUNSG == 3   CLABEL == 7   CSTRUCT == 8   BITS == 9
FUNCTION == 253   ARRAY == 254   PTRTO == 255
char == <<CCHAR>>    int == <<CINT>>

(* The symbol table: each name's type, its ordinal, or 0 and its offset,   *)
(* and the members of the one structure.  The name "new" is not declared.  *)
struct  == <<CSTRUCT, 6>>
Symbols == [
    c |-> [t |-> char, ord |-> 1, off |-> 0],              i |-> [t |-> int, ord |-> 2, off |-> 0],
    u |-> [t |-> <<CUNSG>>, ord |-> 3, off |-> 0],         p |-> [t |-> <<PTRTO, CINT>>, ord |-> 4, off |-> 0],
    q |-> [t |-> <<PTRTO, CCHAR>>, ord |-> 5, off |-> 0],  a |-> [t |-> <<ARRAY, 3, CINT>>, ord |-> 6, off |-> 0],
    m |-> [t |-> <<ARRAY, 2, ARRAY, 2, CINT>>, ord |-> 7, off |-> 0],
    s |-> [t |-> struct, ord |-> 8, off |-> 0],            ps |-> [t |-> <<PTRTO>> \o struct, ord |-> 9, off |-> 0],
    v |-> [t |-> <<ARRAY, 2>> \o struct, ord |-> 10, off |-> 0],
    f |-> [t |-> <<FUNCTION, CINT>>, ord |-> 11, off |-> 0],
    g |-> [t |-> <<FUNCTION, PTRTO, CINT>>, ord |-> 12, off |-> 0],
    pf |-> [t |-> <<PTRTO, FUNCTION, CINT>>, ord |-> 13, off |-> 0],
    str |-> [t |-> <<ARRAY, 3, CCHAR>>, ord |-> 14, off |-> 0],
    j |-> [t |-> int, ord |-> 0, off |-> 4]]
Members == [n |-> [t |-> int, off |-> 0], t |-> [t |-> <<ARRAY, 2, CCHAR>>, off |-> 2], next |-> [t |-> <<PTRTO>> \o struct, off |-> 4]]
Casts   == [t \in {"(int)", "(char)", "(int*)"} |-> CASE t = "(int)" -> int [] t = "(char)" -> char [] t = "(int*)" -> <<PTRTO, CINT>>]
Numbers == [t \in {"2", "3", "5", "300"} |-> CASE t = "2" -> 2 [] t = "3" -> 3 [] t = "5" -> 5 [] t = "300" -> 300]

(* What tokone makes of a token: its level, heir, and the node it stands   *)
(* for, bvalue; AADD and so on are opeq's.                                 *)
Operators == [
    ASGN |-> <<"=">>, AADD |-> <<"+=">>, ASUB |-> <<"-=">>, AMUL |-> <<"*=">>,
    LOR |-> <<"||">>, LAND |-> <<"&&">>, OR |-> <<"|">>, XOR |-> <<"^">>, AND |-> <<"&">>, EQ |-> <<"==">>, NE |-> <<"!=">>,
    LT |-> <<"<">>, LE |-> <<"<=">>, GT |-> <<">">>, GE |-> <<">=">>, SHL |-> <<"<<">>, SHR |-> <<">>">>,
    ADD |-> <<"+">>, SUB |-> <<"-">>, MUL |-> <<"*">>, DIV |-> <<"/">>, MOD |-> <<"%">>,
    NOT |-> <<"!">>, PREI |-> <<"++">>, PRED |-> <<"--">>]
Signs  == {Operators[op][1] : op \in DOMAIN Operators}
bvalue == [t \in Signs |-> CHOOSE op \in DOMAIN Operators : Operators[op][1] = t]
heir   == [t \in Signs \cup {".", "->"} |->
    CASE t \in {"=", "+=", "-=", "*="} -> 12 [] t = "||" -> 14 [] t = "&&" -> 15 [] t = "|" -> 16 [] t = "^" -> 17
      [] t = "&" -> 18 [] t \in {"==", "!="} -> 19 [] t \in {"<", "<=", ">", ">="} -> 20 [] t \in {"<<", ">>"} -> 21
      [] t \in {"+", "-"} -> 22 [] t \in {"*", "/", "%"} -> 23 [] t \in {"!", "++", "--"} -> 24 [] t \in {".", "->"} -> 25]
Tok(in, i)  == IF i <= Len(in) THEN in[i] ELSE "end"
Heir(in, i) == IF Tok(in, i) \in DOMAIN heir THEN heir[in[i]] ELSE 0

----
(* Types.                                                                  *)
Elem(t)    == IF t[1] = ARRAY THEN SubSeq(t, 3, Len(t)) ELSE Tail(t)
typeof(t)  == IF t[1] = PTRTO THEN CUNSG ELSE t[1]
RECURSIVE dsize(_)
dsize(t) ==
    CASE t[1] = ARRAY    -> t[2] * dsize(Elem(t))
      [] t[1] = FUNCTION -> dsize(Tail(t))
      [] t[1] = CCHAR    -> 1
      [] t[1] = CSTRUCT  -> t[2]
      [] OTHER           -> 2
scaled(t)     == IF t[1] \in {ARRAY, PTRTO} THEN dsize(Elem(t)) ELSE 1
maxtype(a, b) == IF a[1] > b[1] THEN a ELSE b

(* What a routine leaves: the token it stopped at, the node and its type,  *)
(* lval, and whether the node is a structure's address (really_stru).  A   *)
(* node is empty where there was no operand; an error ends the reading.    *)
R(at, node, type, lval) == [at |-> at, node |-> node, type |-> type, lval |-> lval, stru |-> FALSE, ok |-> TRUE]
Wrong(at)  == [R(at, <<>>, int, FALSE) EXCEPT !.ok = FALSE]
Whole(x)   == x.ok /\ x.node # <<>>      \* else nooper()
oconst(n)  == <<"CONST", IF n \in 0..255 THEN CCHAR ELSE CINT, n>>
TA(node)   == <<"TA", node>>

----
(* One routine at the level n, or part of one, on the tokens from i, with  *)
(* what it has read so far.                                                *)
RECURSIVE Do(_, _, _, _)
Level(n, in, i) == Do("level", in, i, n)

scale(x, times) ==
    [x EXCEPT !.node = <<"MUL", oconst(times), IF x.type[1] \in {CCHAR, PTRTO} THEN <<"CAST", CINT, x.node>> ELSE x.node>>, !.type = int]
(* A slip: the difference of two pointers is left in bytes.                *)
BytesBetween(op, x, size) == [x EXCEPT !.type = int]
Difference(op, x, size) == [x EXCEPT !.node = <<IF op = "SUB" THEN "DIV" ELSE "ADIV", x.node, oconst(size)>>, !.type = int]
Summed(op, l, r) == R(r.at, <<op, l.node, r.node>>, maxtype(l.type, r.type), FALSE)
addptr(op, l, r) ==
    LET sizel == scaled(l.type)
        sizer == scaled(r.type)
    IN  CASE sizel = 1 /\ sizer > 1 -> Summed(op, [scale(l, sizer) EXCEPT !.type = r.type], r)
          [] sizer = 1 /\ sizel > 1 -> Summed(op, l, scale(r, sizel))
          [] sizel > 1 /\ sizel = sizer /\ op \in {"SUB", "ASUB"} -> Difference(op, Summed(op, l, r), sizel)
          [] OTHER -> Summed(op, l, r)

(* heir14 to heir23: the first five take all to their right, the others    *)
(* one operand after the other.                                            *)
Join(n, op, l, r) ==
    CASE ~Whole(l) \/ ~Whole(r)                        -> Wrong(r.at)
      [] Whole(l) /\ Whole(r) /\ n \in {14, 15, 19, 20} -> R(r.at, <<op, l.node, r.node>>, int, FALSE)
      [] Whole(l) /\ Whole(r) /\ n = 22                 -> addptr(op, l, r)
      [] OTHER                                         -> Summed(op, l, r)
Rest(n, in, l) ==
    IF ~l.ok \/ Heir(in, l.at) # n THEN l
    ELSE Do("rest", in, Join(n, bvalue[in[l.at]], l, Level(IF n <= 18 THEN n ELSE n + 1, in, l.at + 1)), n)

(* heir13.                                                                 *)
Chosen(c, x, y) ==
    IF ~Whole(c) \/ ~Whole(x) \/ ~Whole(y) THEN Wrong(y.at)
    ELSE LET t == maxtype(x.type, y.type)
         IN  R(y.at, <<"TEST", IF typeof(t) \in {ARRAY, CSTRUCT} THEN CUNSG ELSE typeof(t), c.node, x.node, y.node>>, t, FALSE)
Otherwise(in, c, x) == IF Tok(in, x.at) = ":" /\ x.ok THEN Chosen(c, x, Level(12, in, x.at + 1)) ELSE Wrong(x.at)
Test(in, c) == IF c.ok /\ Tok(in, c.at) = "?" THEN Otherwise(in, c, Level(12, in, c.at + 1)) ELSE c

(* heir12.  Of a float or a bit-field op= is = and op.                     *)
Copied(l, r) ==
    IF ~r.ok \/ r.type # l.type THEN Wrong(r.at) ELSE R(r.at, <<"MOVE", TA(r.node), TA(l.node), dsize(l.type)>>, l.type, FALSE)
Stored(op, l, r) ==
    CASE ~Whole(l) \/ ~Whole(r) \/ r.type[1] = CSTRUCT -> Wrong(r.at)
      [] Whole(l) /\ Whole(r) /\ r.type[1] # CSTRUCT /\ l.type[1] = PTRTO /\ op \in {"AADD", "ASUB"} -> addptr(op, l, r)
      [] OTHER -> R(r.at, <<op, l.node, r.node>>, l.type, FALSE)
Assign(in, l) ==
    CASE ~l.ok \/ Heir(in, l.at) # 12                               -> l
      [] l.ok /\ Heir(in, l.at) = 12 /\ l.type[1] = CSTRUCT /\ in[l.at] = "=" -> Copied(l, Level(12, in, l.at + 1))
      [] OTHER -> IF l.lval THEN Stored(bvalue[in[l.at]], l, Level(12, in, l.at + 1)) ELSE Wrong(l.at)

(* heir11: a full list becomes the first of the next.                      *)
Listed(list, x) == IF Len(list) + 1 = LISTS THEN << <<"LST", Append(list, x.node)>> >> ELSE Append(list, x.node)
Comma(in, list, x) ==
    CASE ~x.ok \/ (list # <<>> /\ x.node = <<>>) -> Wrong(x.at)
      [] x.ok /\ (list # <<>> => x.node # <<>>) /\ Tok(in, x.at) = "," -> Do("comma", in, x.at + 1, Listed(list, x))
      [] OTHER -> IF Len(Listed(list, x)) > 1 THEN [x EXCEPT !.node = <<"LST", Listed(list, x)>>, !.lval = FALSE] ELSE x

----
(* heir24.                                                                 *)
Steps(in, op, x) == IF ~x.lval \/ ~Whole(x) THEN Wrong(x.at) ELSE R(x.at, <<op, x.node, scaled(x.type)>>, x.type, FALSE)
Indirect(x) ==
    LET t == IF x.type[1] \in {PTRTO, ARRAY} THEN Elem(x.type) ELSE char
    IN  CASE ~Whole(x) \/ x.type[1] \notin {PTRTO, ARRAY, CINT, CUNSG} -> Wrong(x.at)
          [] Whole(x) /\ t[1] = ARRAY -> R(x.at, x.node, t, FALSE)
          [] OTHER -> R(x.at, <<"IND", typeof(t), x.node>>, t, TRUE)
Address(x) ==
    CASE ~Whole(x) \/ (~x.lval /\ x.type[1] \notin {ARRAY, FUNCTION, CLABEL, CSTRUCT}) -> Wrong(x.at)
      [] Whole(x) /\ x.type[1] \in {ARRAY, FUNCTION} -> [x EXCEPT !.lval = FALSE]
      [] OTHER -> R(x.at, TA(x.node), <<PTRTO>> \o x.type, FALSE)
Unary(op, x, t) == IF Whole(x) THEN R(x.at, <<op, x.node>>, t, FALSE) ELSE Wrong(x.at)
Negated(x)      == Unary("NEG", x, x.type)
Complement(x)   == Unary("COMP", x, x.type)
SizeOf(x)       == IF x.ok THEN R(x.at, oconst(dsize(x.type)), int, FALSE) ELSE x
Closed(in, x)   == IF Tok(in, x.at) = ")" THEN [x EXCEPT !.at = @ + 1] ELSE Wrong(x.at)
Sizeof(in, i) ==
    CASE Tok(in, i) \in DOMAIN Casts -> R(i + 1, oconst(dsize(Casts[in[i]])), int, FALSE)
      [] Tok(in, i) = "("            -> Closed(in, SizeOf(Level(24, in, i + 1)))
      [] OTHER                       -> SizeOf(Level(24, in, i))
Literal(i, n)   == R(i, oconst(n), IF n > 255 THEN int ELSE char, FALSE)
PostStep(in, x) ==
    IF x.ok /\ Tok(in, x.at) \in {"++", "--"}
    THEN Steps(in, IF in[x.at] = "++" THEN "POSTI" ELSE "POSTD", [x EXCEPT !.at = @ + 1]) ELSE x
Prefix(in, i) ==
    CASE Tok(in, i) = "sizeof" -> Sizeof(in, i + 1)
      [] Tok(in, i) = "*"      -> Indirect(Level(24, in, i + 1))
      [] Tok(in, i) = "&"      -> Address(Level(24, in, i + 1))
      [] Tok(in, i) = "-"      -> IF Tok(in, i + 1) \in DOMAIN Numbers
                                  THEN [PostStep(in, Do("suffix", in, Literal(i + 2, -Numbers[in[i + 1]]), "")) EXCEPT !.lval = FALSE]
                                  ELSE Negated(Level(24, in, i + 1))
      [] Tok(in, i) \in {"++", "--"} -> Steps(in, bvalue[in[i]], Level(24, in, i + 1))
      [] Tok(in, i) = "!"      -> Unary("NOT", Level(24, in, i + 1), int)
      [] Tok(in, i) = "~"      -> Complement(Level(24, in, i + 1))
      [] OTHER                 -> PostStep(in, Level(25, in, i))

(* heir25: indexes, members and calls after a primary.                     *)
Found(x, t) ==      \* the node is where an object of type t is
    CASE t[1] = ARRAY   -> [x EXCEPT !.type = t, !.lval = FALSE, !.stru = FALSE]
      [] t[1] = CSTRUCT -> [x EXCEPT !.type = t, !.lval = FALSE, !.stru = TRUE]
      [] OTHER          -> R(x.at, <<"IND", typeof(t), x.node>>, t, TRUE)
Plus(x, node)      == [x EXCEPT !.node = <<"ADD", @, node>>]
Indexed(x, y)      == Plus([x EXCEPT !.at = y.at], IF scaled(x.type) # 1 THEN scale(y, scaled(x.type)).node ELSE y.node)
Index(in, x, y) ==
    IF ~Whole(y) \/ Tok(in, y.at) # "]" THEN Wrong(y.at)
    ELSE Found([Indexed(x, y) EXCEPT !.at = @ + 1], IF x.type[1] \in {ARRAY, PTRTO} THEN Elem(x.type) ELSE char)
Offset(x, off)     == IF off = 0 THEN x ELSE [x EXCEPT !.node = <<"ADD", oconst(off), @>>]
Member(in, x) ==
    IF Tok(in, x.at + 1) \notin DOMAIN Members THEN Wrong(x.at)
    ELSE Found([Offset(x, Members[in[x.at + 1]].off) EXCEPT !.at = @ + 2], Members[in[x.at + 1]].t)
Returns(t) ==
    CASE t[1] = FUNCTION                       -> Tail(t)
      [] t[1] = PTRTO /\ t[2] = FUNCTION       -> SubSeq(t, 3, Len(t))
      [] OTHER                                 -> t
Called(x, list) ==
    IF ~list.ok THEN Wrong(list.at)
    ELSE R(list.at, <<"CALL", typeof(Returns(x.type)), x.node, list.node>>, IF Returns(x.type) # x.type THEN Returns(x.type) ELSE int, FALSE)
Suffix(in, x) ==
    CASE x.ok /\ Tok(in, x.at) = "["  -> Do("suffix", in, Index(in, x, Level(11, in, x.at + 1)), "")
      [] x.ok /\ Heir(in, x.at) = 25  -> Do("suffix", in, Member(in, x), "")
      [] x.ok /\ Tok(in, x.at) = "("  -> Do("suffix", in, Called(x, IF Tok(in, x.at + 1) = ")" THEN R(x.at + 2, <<>>, int, FALSE)
                                                                   ELSE Do("args", in, x.at + 1, <<>>)), "")
      [] OTHER -> IF x.stru THEN [x EXCEPT !.node = <<"IND", CSTRUCT, @>>, !.stru = FALSE] ELSE x
Primary(in, x) == Suffix(in, IF x.ok /\ Heir(in, x.at) = 25 /\ x.type[1] = CSTRUCT THEN [x EXCEPT !.node = TA(@)] ELSE x)

(* args: the last argument comes first; a full list becomes the last.      *)
Argument(x)    == IF x.type[1] = CSTRUCT THEN <<"MOVE", TA(x.node), <<>>, dsize(x.type)>> ELSE x.node
Put(list, x)   == IF Len(list) + 1 = LISTS THEN << <<"LST", <<Argument(x)>> \o list>> >> ELSE <<Argument(x)>> \o list
Args(in, list, x) ==
    CASE ~Whole(x)                            -> Wrong(x.at)
      [] Whole(x) /\ Tok(in, x.at) = ","      -> Do("args", in, x.at + 1, Put(list, x))
      [] OTHER -> Closed(in, R(x.at, IF Len(Put(list, x)) = 1 THEN Put(list, x)[1] ELSE <<"LST", Put(list, x)>>, int, FALSE))

(* heir26.  Constant indexes and members go into a name's offset; a name   *)
(* not declared is a function if it is called, an automatic int if not.    *)
Operand(x) ==
    R(x.at, <<"OPND", typeof(x.t), x.ord, x.off>>, x.t, x.t[1] < CLABEL \/ x.t[1] \in BITS..(FUNCTION - 1) \/ x.t[1] > ARRAY)
Fold(in, x) ==
    CASE Tok(in, x.at) = "." /\ x.t[1] = CSTRUCT /\ Tok(in, x.at + 1) \in DOMAIN Members ->
            Do("fold", in, [x EXCEPT !.at = @ + 2, !.off = @ + Members[in[x.at + 1]].off, !.t = Members[in[x.at + 1]].t], "")
      [] Tok(in, x.at) = "." /\ x.t[1] # PTRTO /\ ~(x.t[1] = CSTRUCT /\ Tok(in, x.at + 1) \in DOMAIN Members) -> Wrong(x.at)
      [] Tok(in, x.at) = "[" /\ x.t[1] = ARRAY /\ Tok(in, x.at + 1) \in DOMAIN Numbers /\ Tok(in, x.at + 2) = "]" ->
            Do("fold", in, [x EXCEPT !.at = @ + 3, !.off = @ + dsize(Elem(x.t)) * Numbers[in[x.at + 1]], !.t = Elem(x.t)], "")
      [] OTHER -> Operand(x)
Sym(at, t, ord, off) == [at |-> at, t |-> t, ord |-> ord, off |-> off]
Name(in, i) ==
    CASE in[i] \in DOMAIN Symbols -> Sym(i + 1, Symbols[in[i]].t, Symbols[in[i]].ord, Symbols[in[i]].off)
      [] OTHER -> IF Tok(in, i + 1) = "(" THEN Sym(i + 1, <<FUNCTION, CINT>>, 15, 0) ELSE Sym(i + 1, int, 0, -2)
Cast(x, t) == IF Whole(x) THEN R(x.at, <<"CAST", typeof(t), x.node>>, t, x.lval) ELSE Wrong(x.at)
Unit(in, i) ==
    CASE Tok(in, i) \in DOMAIN Casts            -> Cast(Level(24, in, i + 1), Casts[in[i]])
      [] Tok(in, i) = "("                       -> Closed(in, Level(11, in, i + 1))
      [] Tok(in, i) \in DOMAIN Symbols \cup {"new"} -> Do("fold", in, Name(in, i), "")
      [] Tok(in, i) \in DOMAIN Numbers          -> Literal(i + 1, Numbers[in[i]])
      [] OTHER                                  -> R(i, <<>>, int, FALSE)

Do(what, in, x, n) ==
    CASE what = "rest"   -> Rest(n, in, x)
      [] what = "suffix" -> Suffix(in, x)
      [] what = "fold"   -> Fold(in, x)
      [] what = "args"   -> Args(in, n, Level(12, in, x))
      [] what = "comma"  -> Comma(in, n, Level(12, in, x))
      [] what = "level"  ->
            CASE n = 11 -> Do("comma", in, x, <<>>)
              [] n = 12 -> Assign(in, Level(13, in, x))
              [] n = 13 -> Test(in, Level(14, in, x))
              [] n \in 14..23 -> Rest(n, in, Level(n + 1, in, x))
              [] n = 24 -> Prefix(in, x)
              [] n = 25 -> Primary(in, Level(26, in, x))
              [] n = 26 -> Unit(in, x)

----
(* constexp and heir14c to heir25c, on ints of 16 bits.                    *)
Signed(n)  == ((n + 32768) % 65536) - 32768
Word(n)    == n % 65536
Truth(b)   == IF b THEN 1 ELSE 0
Quot(a, b) == LET q == (IF a < 0 THEN -a ELSE a) \div (IF b < 0 THEN -b ELSE b) IN IF (a < 0) = (b < 0) THEN q ELSE -q
(* The operations on two words taken as they are: signed, or not.          *)
Does2(op, a, b) ==
    CASE op = "||" -> Truth(a # 0 \/ b # 0) [] op = "&&" -> Truth(a # 0 /\ b # 0)
      [] op = "|"  -> Word(a) | Word(b) [] op = "^" -> Word(a) ^^ Word(b) [] op = "&" -> Word(a) & Word(b)
      [] op = "==" -> Truth(a = b) [] op = "!=" -> Truth(a # b) [] op = "<" -> Truth(a < b) [] op = "<=" -> Truth(a <= b)
      [] op = ">"  -> Truth(a > b) [] op = ">=" -> Truth(a >= b)
      [] op = "<<" -> (IF b \in 0..15 THEN Word(a) * 2 ^ b ELSE 0) [] op = ">>" -> (IF b \in 0..15 THEN Word(a) \div 2 ^ b ELSE 0)
      [] op = "+"  -> a + b [] op = "-" -> a - b [] op = "*" -> Signed(a) * Signed(b)
      [] op = "/"  -> (IF b = 0 THEN 0 ELSE Quot(a, b)) [] op = "%" -> (IF b = 0 THEN 0 ELSE a - b * Quot(a, b))

C(at, val) == [at |-> at, val |-> Signed(val), ok |-> TRUE]
CWrong(at) == [C(at, 0) EXCEPT !.ok = FALSE]
RECURSIVE Con(_, _, _, _)
constexp(in, i)  == Con("level", in, i, 13)
CJoin(op, l, r)  == IF l.ok /\ r.ok THEN C(r.at, Does2(op, l.val, r.val)) ELSE CWrong(r.at)
CRest(n, in, l) ==
    IF ~l.ok \/ Heir(in, l.at) # n THEN l
    ELSE Con("rest", in, CJoin(in[l.at], l, Con("level", in, l.at + 1, IF n <= 18 THEN n ELSE n + 1)), n)
CChosen(c, x, y) == IF x.ok /\ y.ok THEN C(y.at, IF c.val # 0 THEN x.val ELSE y.val) ELSE CWrong(y.at)
CElse(in, c, x)  == IF Tok(in, x.at) = ":" THEN CChosen(c, x, constexp(in, x.at + 1)) ELSE CWrong(x.at)
CTest(in, c)     == IF c.ok /\ Tok(in, c.at) = "?" THEN CElse(in, c, constexp(in, c.at + 1)) ELSE c
CNeg(x)          == IF x.ok THEN C(x.at, -x.val) ELSE x
CNot(x)          == IF x.ok THEN C(x.at, Truth(x.val = 0)) ELSE x
CClosed(in, x)   == IF x.ok /\ Tok(in, x.at) = ")" THEN [x EXCEPT !.at = @ + 1] ELSE CWrong(x.at)
CSizeof(r)       == IF r.ok THEN C(r.at, r.node[3]) ELSE CWrong(r.at)
CUnit(in, i) ==
    CASE Tok(in, i) = "-"               -> CNeg(Con("level", in, i + 1, 24))
      [] Heir(in, i) = 24               -> CNot(Con("level", in, i + 1, 24))
      [] Tok(in, i) = "sizeof"          -> CSizeof(Sizeof(in, i + 1))
      [] Tok(in, i) = "("               -> CClosed(in, constexp(in, i + 1))
      [] Tok(in, i) \in DOMAIN Numbers  -> C(i + 1, Numbers[in[i]])
      [] OTHER                          -> CWrong(i)
Con(what, in, x, n) ==
    CASE what = "rest"                 -> CRest(n, in, x)
      [] what = "level" /\ n = 13      -> CTest(in, Con("level", in, x, 14))
      [] what = "level" /\ n \in 14..23 -> CRest(n, in, Con("level", in, x, n + 1))
      [] what = "level" /\ n = 24      -> CUnit(in, x)

----
(* What the tree means, on a memory of bytes: each ordinal's place, a      *)
(* frame, and functions that make something of their arguments.            *)
Place == <<4, 6, 8, 10, 12, 14, 20, 28, 34, 36, 1000, 1002, 48, 50, 1004>>
Frame == 60
Data  == 4..65
Addressed(t)     == t \in {ARRAY, FUNCTION, CSTRUCT}
Load(mem, a, t)  == IF a \notin Data THEN 0 ELSE IF t = CCHAR THEN mem[a] ELSE mem[a] + 256 * mem[a + 1]
Save(mem, a, t, n) ==
    IF a \notin Data THEN mem
    ELSE IF t = CCHAR THEN [mem EXCEPT ![a] = n % 256] ELSE [mem EXCEPT ![a] = n % 256, ![a + 1] = Word(n) \div 256]
CopyTo(mem, to, from, len) == [k \in DOMAIN mem |-> IF k \in to..(to + len - 1) /\ from + k - to \in Data THEN mem[from + k - to] ELSE mem[k]]
Weighed(list)    == LET sum[k \in 0..Len(list)] == IF k = 0 THEN 0 ELSE Word(3 * sum[k - 1] + list[k]) IN sum[Len(list)]
Function(a, list) == IF a = 1002 THEN 16 ELSE Word(a + Weighed(list))

W(n, u, at, mem) == [n |-> Word(n), u |-> u, at |-> at, mem |-> mem]
TreeAt(a, t, mem) == W(IF Addressed(t) THEN a ELSE Load(mem, a, t), t = CUNSG \/ Addressed(t), a, mem)
Converted(n, t)  == IF t = CCHAR THEN n % 256 ELSE n
Num(n, u)        == IF u THEN n ELSE Signed(n)
Compares         == {"EQ", "NE", "LT", "LE", "GT", "GE"}
Dyadic(op, x, y) ==
    W(Does2(Operators[op][1], Num(x.n, x.u \/ y.u), Num(y.n, (x.u \/ y.u) /\ op \notin {"SHL", "SHR"})),
      op \notin Compares /\ (x.u \/ y.u), 0, y.mem)
PlainOf == [op \in {"AADD", "ASUB", "AMUL", "ADIV"} |-> CASE op = "AADD" -> "ADD" [] op = "ASUB" -> "SUB" [] op = "AMUL" -> "MUL" [] op = "ADIV" -> "DIV"]
TreeSet(t, at, n, v) == [v EXCEPT !.n = Converted(Word(n), t), !.u = t = CUNSG, !.at = 0, !.mem = Save(v.mem, at, t, n)]
TreeStep(op, t, x, by) ==
    LET new == IF op \in {"PREI", "POSTI"} THEN x.n + by ELSE x.n - by
    IN  IF op \in {"PREI", "PRED"} THEN TreeSet(t, x.at, new, x) ELSE [TreeSet(t, x.at, new, x) EXCEPT !.n = x.n]
RECURSIVE Tree(_, _)
InOrder(list, mem) ==       \* the values of a list's members
    LET done[k \in 0..Len(list)] ==
            IF k = 0 THEN <<mem, <<>> >>
            ELSE LET last == done[k - 1] IN LET v == Tree(list[k], last[1]) IN <<v.mem, Append(last[2], v)>>
    IN  done[Len(list)]
RECURSIVE Flat(_)
Flat(node) ==
    IF node = <<>> THEN <<>> ELSE IF node[1] # "LST" THEN <<node>>
    ELSE LET parts[k \in 0..Len(node[2])] == IF k = 0 THEN <<>> ELSE parts[k - 1] \o Flat(node[2][k]) IN parts[Len(node[2])]
Calls(e, args, x) == W(Function(x.n, args), e[2] = CUNSG, 0, x.mem)
CallAfter(e, done) == Calls(e, [k \in 1..Len(done[2]) |-> done[2][Len(done[2]) + 1 - k].n], Tree(e[3], done[1]))
LastOf(done)      == [done[2][Len(done[2])] EXCEPT !.at = 0]
Then(e, x) ==
    CASE e[1] = "IND"  -> TreeAt(x.n, e[2], x.mem)
      [] e[1] = "TA"   -> W(x.at, TRUE, 0, x.mem)
      [] e[1] = "CAST" -> W(Converted(x.n, e[2]), e[2] = CUNSG, 0, x.mem)
      [] e[1] = "TEST" -> [Tree(IF x.n # 0 THEN e[4] ELSE e[5], x.mem) EXCEPT !.u = e[2] = CUNSG, !.at = 0]
      [] e[1] = "LAND" -> IF x.n = 0 THEN W(0, FALSE, 0, x.mem) ELSE LET y == Tree(e[3], x.mem) IN W(Truth(y.n # 0), FALSE, 0, y.mem)
      [] e[1] = "LOR"  -> IF x.n # 0 THEN W(1, FALSE, 0, x.mem) ELSE LET y == Tree(e[3], x.mem) IN W(Truth(y.n # 0), FALSE, 0, y.mem)
      [] e[1] = "NOT"  -> W(Truth(x.n = 0), FALSE, 0, x.mem)
      [] e[1] = "NEG"  -> W(-x.n, x.u, 0, x.mem)
      [] e[1] = "COMP" -> W(-x.n - 1, x.u, 0, x.mem)
      [] e[1] = "MOVE" -> LET y == Tree(e[2], x.mem) IN W(0, FALSE, 0, CopyTo(y.mem, x.n, y.n, e[4]))
      [] e[1] \in {"PREI", "PRED", "POSTI", "POSTD"} -> TreeStep(e[1], e[2][2], x, e[3])
      [] e[1] = "ASGN" -> LET y == Tree(e[3], x.mem) IN TreeSet(e[2][2], x.at, y.n, y)
      [] e[1] \in DOMAIN PlainOf ->
            LET y == Tree(e[3], x.mem) IN TreeSet(e[2][2], x.at, Dyadic(PlainOf[e[1]], TreeAt(x.at, e[2][2], y.mem), y).n, y)
      [] OTHER         -> Dyadic(e[1], x, Tree(e[3], x.mem))
Tree(e, mem) ==
    CASE e[1] = "CONST" -> W(e[3], FALSE, 0, mem)
      [] e[1] = "OPND"  -> TreeAt(IF e[3] = 0 THEN Frame + e[4] ELSE Place[e[3]] + e[4], e[2], mem)
      [] e[1] = "LST"   -> LastOf(InOrder(Flat(e), mem))
      [] e[1] = "CALL"  -> CallAfter(e, InOrder(Flat(e[4]), mem))
      [] OTHER          -> Then(e, Tree(IF e[1] \in {"IND", "CAST", "TEST", "MOVE"} THEN e[3] ELSE e[2], mem))

----
(* C: how an expression is written, with no more parentheses than it takes, *)
(* and what it means.  An expression is <<word>> or <<word, operand, ...>>; *)
(* a prefix's word ends in 1, a postfix's begins with it.                  *)
Prefixes   == [w \in {"*1", "&1", "-1", "!1", "~1", "++1", "--1", "sizeof1", "(int)1", "(char)1", "(int*)1"} |->
    CASE w = "*1" -> "*" [] w = "&1" -> "&" [] w = "-1" -> "-" [] w = "!1" -> "!" [] w = "~1" -> "~" [] w = "++1" -> "++" [] w = "--1" -> "--"
      [] w = "sizeof1" -> "sizeof" [] w = "(int)1" -> "(int)" [] w = "(char)1" -> "(char)" [] w = "(int*)1" -> "(int*)"]
Postfixes  == [w \in {"1++", "1--", "1.n", "1.t", "1.next", "1->n", "1->t", "1->next"} |->
    CASE w = "1++" -> <<"++">> [] w = "1--" -> <<"--">> [] w = "1.n" -> <<".", "n">> [] w = "1.t" -> <<".", "t">> [] w = "1.next" -> <<".", "next">>
      [] w = "1->n" -> <<"->", "n">> [] w = "1->t" -> <<"->", "t">> [] w = "1->next" -> <<"->", "next">>]
Binaries   == << {"||"}, {"&&"}, {"|"}, {"^"}, {"&"}, {"==", "!="}, {"<", "<=", ">", ">="}, {"<<", ">>"}, {"+", "-"}, {"*", "/", "%"} >>
Infix      == UNION {Binaries[k] : k \in DOMAIN Binaries}
Assignments == {"=", "+=", "-=", "*="}
CallWords  == {"call0", "call1", "call2", "call3", "call4"}
Binding(w) ==
    CASE w \in {",2", ",4"}                    -> 1
      [] w \in Assignments                     -> 2
      [] w = "?:"                              -> 3
      [] w \in Infix                           -> 3 + CHOOSE k \in DOMAIN Binaries : w \in Binaries[k]
      [] w \in DOMAIN Prefixes                 -> 14
      [] w \in {"1++", "1--"}                  -> 15      \* C has p++->n, C88 not
      [] w \in (DOMAIN Postfixes \ {"1++", "1--"}) \cup CallWords \cup {"[]"} -> 16
      [] OTHER                                 -> 17
RECURSIVE Text(_, _)
Listing(e, k) ==
    LET upto[j \in k..Len(e)] == IF j = k THEN Text(e[j], 2) ELSE upto[j - 1] \o <<",">> \o Text(e[j], 2)
    IN  IF k > Len(e) THEN <<>> ELSE upto[Len(e)]
Written(e) ==
    CASE e = <<"sizeof(int*)">>      -> <<"sizeof", "(int*)">>
      [] Len(e) = 1 /\ e # <<"sizeof(int*)">> -> e
      [] e[1] \in DOMAIN Prefixes   -> <<Prefixes[e[1]]>> \o Text(e[2], 14)
      [] e[1] \in DOMAIN Postfixes  -> Text(e[2], 16) \o Postfixes[e[1]]
      [] e[1] \in {",2", ",4"}      -> Listing(e, 2)
      [] e[1] = "[]"                -> Text(e[2], 16) \o <<"[">> \o Text(e[3], 1) \o <<"]">>
      [] e[1] \in CallWords         -> Text(e[2], 16) \o <<"(">> \o Listing(e, 3) \o <<")">>
      [] e[1] = "?:"                -> Text(e[2], 4) \o <<"?">> \o Text(e[3], 2) \o <<":">> \o Text(e[4], 3)
      [] e[1] \in Assignments       -> Text(e[2], 14) \o <<e[1]>> \o Text(e[3], 2)
      [] e[1] \in Infix             -> Text(e[2], Binding(e[1])) \o <<e[1]>> \o Text(e[3], Binding(e[1]) + 1)
Text(e, least) == IF Binding(e[1]) < least THEN <<"(">> \o Written(e) \o <<")">> ELSE Written(e)

(* A value n of type t; at is where it is, 0 if nowhere; ok, it has one.   *)
Size(t)   == dsize(t)
V(n, t, mem, ok) == [n |-> Word(n), t |-> t, at |-> 0, mem |-> mem, ok |-> ok]
Object(a, t, mem, ok) ==
    [V(IF Addressed(t[1]) THEN a ELSE Load(mem, a, t[1]), t, mem, ok /\ (t[1] = FUNCTION \/ {a, a + Size(t) - 1} \subseteq Data)) EXCEPT !.at = a]
No(mem)   == V(0, int, mem, FALSE)
Pointer(t)    == <<PTRTO>> \o t
Arithmetic(t) == t[1] \in {CCHAR, CINT, CUNSG}
Scalar(t)     == Arithmetic(t) \/ t[1] = PTRTO
(* An array is a pointer to its first element, a function to itself.       *)
Val(v) ==
    IF v.t[1] = ARRAY THEN V(v.at, Pointer(Elem(v.t)), v.mem, v.ok)
    ELSE IF v.t[1] = FUNCTION THEN V(v.at, Pointer(v.t), v.mem, v.ok) ELSE [v EXCEPT !.at = 0]
Unsigned(t)   == t[1] \in {CUNSG, PTRTO}
As(v)         == IF Unsigned(v.t) THEN v.n ELSE Signed(v.n)
Usual(s, t)   == IF CUNSG \in {s[1], t[1]} THEN <<CUNSG>> ELSE int
AsUsual(v, t) == IF t[1] = CUNSG THEN v.n ELSE Signed(v.n)
Moved(x, y, sign) ==        \* x a pointer
    V(x.n + sign * As(y) * Size(Elem(x.t)), x.t, y.mem, x.ok /\ y.ok /\ Elem(x.t)[1] # FUNCTION)
Numeric(op, x, y, t) ==
    V(Does2(op, AsUsual(x, t), IF op \in {"<<", ">>"} THEN As(y) ELSE AsUsual(y, t)),
      IF op \in Binaries[6] \cup Binaries[7] THEN int ELSE t, y.mem,
      /\ x.ok /\ y.ok
      /\ op \in {"/", "%"} => y.n # 0
      /\ op \in {"<<", ">>"} => y.n \in 0..15
      /\ op = ">>" => AsUsual(x, t) >= 0)
Binary(op, x, y) ==
    CASE Arithmetic(x.t) /\ Arithmetic(y.t)           -> Numeric(op, x, y, Usual(x.t, y.t))
      [] x.t[1] = PTRTO /\ Arithmetic(y.t)            -> IF op \in {"+", "-"} THEN Moved(x, y, IF op = "+" THEN 1 ELSE -1) ELSE No(y.mem)
      [] Arithmetic(x.t) /\ y.t[1] = PTRTO            -> IF op = "+" THEN Moved(y, [x EXCEPT !.mem = y.mem], 1) ELSE No(y.mem)
      [] x.t[1] = PTRTO /\ y.t = x.t                  ->
            IF op \in Binaries[6] \cup Binaries[7] THEN V(Does2(op, x.n, y.n), int, y.mem, x.ok /\ y.ok)
            ELSE V((x.n - y.n) \div Size(Elem(x.t)), <<CUNSG>>, y.mem, x.ok /\ y.ok /\ op = "-" /\ Elem(x.t)[1] # FUNCTION /\ x.n >= y.n /\ (x.n - y.n) % Size(Elem(x.t)) = 0)
      [] OTHER                                        -> No(y.mem)
Into(v, t) == IF t[1] = CCHAR THEN v.n % 256 ELSE v.n
Set(v, at, t, old) ==       \* v into the object at
    [V(Into(v, t), t, Save(v.mem, at, t[1], v.n), v.ok) EXCEPT !.ok = @ /\ Scalar(v.t) /\ Scalar(t) /\ (t[1] = PTRTO \/ v.t[1] = PTRTO => v.t = t) /\ old]
Assigned(op, l, r) ==
    CASE l.at = 0 \/ ~l.ok \/ ~r.ok \/ l.t[1] \in {ARRAY, FUNCTION} -> No(r.mem)
      [] l.at # 0 /\ l.ok /\ r.ok /\ l.t[1] = CSTRUCT ->
            IF op = "=" /\ r.t = l.t /\ r.at # 0 THEN V(0, l.t, CopyTo(r.mem, l.at, r.at, Size(l.t)), TRUE) ELSE No(r.mem)
      [] OTHER -> IF op = "=" THEN Set(Val(r), l.at, l.t, TRUE)
                  ELSE Set(Binary(IF op = "+=" THEN "+" ELSE IF op = "-=" THEN "-" ELSE "*", Object(l.at, l.t, r.mem, TRUE), Val(r)), l.at, l.t, TRUE)
OneMore(v) == [V(1, int, v.mem, TRUE) EXCEPT !.ok = v.at # 0 /\ v.ok /\ Scalar(v.t)]
Stepped(w, v) ==
    IF v.at = 0 \/ ~Scalar(v.t) THEN No(v.mem)
    ELSE LET new == Set(Binary(IF w \in {"++1", "1++"} THEN "+" ELSE "-", v, OneMore(v)), v.at, v.t, TRUE)
         IN  IF w \in {"++1", "--1"} THEN new ELSE [new EXCEPT !.n = v.n]
Promoted(t) == Usual(t, t)
Monadic(w, v, x) ==     \* x is Val(v)
    CASE w = "*1"          -> IF x.t[1] = PTRTO /\ v.t[1] # FUNCTION THEN Object(x.n, Tail(x.t), x.mem, x.ok) ELSE No(v.mem)
      [] w = "&1"          -> IF v.at # 0 /\ v.t[1] \notin {ARRAY, FUNCTION} THEN V(v.at, Pointer(v.t), v.mem, v.ok) ELSE No(v.mem)
      [] w = "-1"          -> IF Arithmetic(x.t) THEN V(-x.n, Promoted(x.t), x.mem, x.ok) ELSE No(v.mem)
      [] w = "~1"          -> IF Arithmetic(x.t) THEN V(-x.n - 1, Promoted(x.t), x.mem, x.ok) ELSE No(v.mem)
      [] w = "!1"          -> V(Truth(x.n = 0), int, x.mem, x.ok /\ Scalar(x.t))
      [] w = "(int)1"      -> V(x.n, int, x.mem, x.ok /\ Scalar(x.t))
      [] w = "(char)1"     -> V(x.n % 256, char, x.mem, x.ok /\ Scalar(x.t))
      [] w = "(int*)1"     -> V(x.n, <<PTRTO, CINT>>, x.mem, x.ok /\ Scalar(x.t) /\ x.t # char)
      [] w \in {"++1", "--1", "1++", "1--"} -> Stepped(w, v)
      [] w \in {"1.n", "1.t", "1.next"} ->
            IF v.t = struct /\ v.at # 0 THEN LET f == Members[Postfixes[w][2]] IN Object(v.at + f.off, f.t, v.mem, v.ok) ELSE No(v.mem)
      [] OTHER             ->
            IF x.t = Pointer(struct) THEN LET f == Members[Postfixes[w][2]] IN Object(x.n + f.off, f.t, x.mem, x.ok) ELSE No(v.mem)
Common(s, t) == IF Arithmetic(s) /\ Arithmetic(t) THEN Usual(s, t) ELSE s
Chose(c, x, other) ==
    V(x.n, Common(x.t, other.t), x.mem,
      c.ok /\ Scalar(c.t) /\ x.ok /\ Scalar(x.t) /\ (x.t = other.t \/ (Arithmetic(x.t) /\ Arithmetic(other.t))))
RECURSIVE Means(_, _)
After(done, v) == [mem |-> v.mem, ok |-> done.ok /\ v.ok /\ Scalar(v.t) /\ (v.t[1] = PTRTO => v.t[2] # FUNCTION), vals |-> Append(done.vals, v)]
OneByOne(es, mem) ==
    LET done[k \in 0..Len(es)] ==
            IF k = 0 THEN [mem |-> mem, ok |-> TRUE, vals |-> <<>>]
            ELSE LET before == done[k - 1] IN After(before, Val(Means(es[k], before.mem)))
    IN  done[Len(es)]
LastValue(done) == [done.vals[Len(done.vals)] EXCEPT !.ok = done.ok]
(* Arguments are taken from the last on.                                   *)
Result(x, done) ==
    LET t == IF x.t[1] = PTRTO THEN Tail(x.t) ELSE x.t
        n == Len(done.vals)
    IN  IF t[1] # FUNCTION THEN No(x.mem)
        ELSE V(Function(IF x.t[1] = PTRTO THEN x.n ELSE x.at, [k \in 1..n |-> done.vals[n + 1 - k].n]), Tail(t), x.mem, x.ok /\ done.ok)
FunctionOf(e, mem) == IF e = <<"new">> THEN Object(1004, <<FUNCTION, CINT>>, mem, TRUE) ELSE Means(e, mem)
Reversed(es) == [k \in 1..Len(es) |-> es[Len(es) + 1 - k]]
CallResult(e, done) == Result(FunctionOf(e[2], done.mem), [done EXCEPT !.ok = @ /\ \A k \in 3..Len(e) : Binding(e[k][1]) > 1])
Truly(v)          == V(Truth(v.n # 0), int, v.mem, v.ok /\ Scalar(v.t))
Joined(op, x, y) == [IF (x.n = 1) = (op = "||") THEN x ELSE y EXCEPT !.ok = x.ok /\ y.ok]
Second(e, x) ==         \* x is the value of the first operand
    CASE e[1] \in {"||", "&&"} ->
            Joined(e[1], Truly(x), Truly(Val(Means(e[3], x.mem))))
      [] e[1] = "?:"           -> IF x.n # 0 THEN Chose(x, Val(Means(e[3], x.mem)), Val(Means(e[4], x.mem)))
                                  ELSE Chose(x, Val(Means(e[4], x.mem)), Val(Means(e[3], x.mem)))
      [] e[1] = "[]"           -> LET y == Binary("+", x, Val(Means(e[3], x.mem))) IN
                                  IF x.t[1] = PTRTO /\ y.ok THEN Object(y.n, Elem(x.t), y.mem, TRUE) ELSE No(y.mem)
      [] OTHER                 -> Binary(e[1], x, Val(Means(e[3], x.mem)))
SizeOfObject(e, v, mem) == V(Size(v.t), int, mem, v.ok /\ v.at # 0 /\ v.t[1] # FUNCTION /\ Text(e, 14)[1] # "(")
Leaf(w, mem) ==
    CASE w \in DOMAIN Symbols -> Object(IF w = "j" THEN Frame + 4 ELSE Place[Symbols[w].ord], Symbols[w].t, mem, TRUE)
      [] w = "new"            -> Object(Frame - 2, int, mem, TRUE)
      [] w = "sizeof(int*)"   -> V(2, int, mem, TRUE)
      [] w \in DOMAIN Numbers -> V(Numbers[w], int, mem, TRUE)
Monad(w, v) == Monadic(w, v, Val(v))
Store(op, l, e) == Assigned(op, l, Means(e, l.mem))
Means(e, mem) ==
    CASE Len(e) = 1               -> Leaf(e[1], mem)
      [] e[1] = "sizeof1"         -> SizeOfObject(e[2], Means(e[2], mem), mem)
      [] Len(e) = 2 /\ e[1] \notin {"sizeof1", "call0"} -> Monad(e[1], Means(e[2], mem))
      [] e[1] \in CallWords       -> CallResult(e, OneByOne(Reversed(SubSeq(e, 3, Len(e))), mem))
      [] e[1] \in {",2", ",4"}    -> LastValue(OneByOne(Tail(e), mem))
      [] e[1] \in Assignments     -> Store(e[1], Means(e[2], mem), e[3])
      [] OTHER                    -> Second(e, Val(Means(e[2], mem)))

----
(* What C88 makes of an expression means what C says of it, whatever the   *)
(* memory: the same value and the same memory after it, and an object has  *)
(* its type.  A constant expression has C's value.                         *)
Same(x, v, r) ==
    /\ x.mem = v.mem
    /\ v.t[1] # CSTRUCT \/ v.at # 0 => x.n = Val(v).n
    /\ v.at # 0 => r.type = v.t
Agrees(r, v, text, mem) == v.ok => Whole(r) /\ r.at = Len(text) + 1 /\ Same(Tree(r.node, mem), v, r)
Compiled2(e, mems, text, r) == \A mem \in mems : Agrees(r, Means(e, mem), text, mem)
Compiles1(e, mems, text) == Compiled2(e, mems, text, Level(11, text, 1))
TreesRight(e, mems) == Compiles1(e, mems, Text(e, 1))
ConstantAgrees(v, c, text) == v.ok => c.ok /\ c.at = Len(text) + 1 /\ c.val = Signed(v.n)
ConstantRight(e) == ConstantAgrees(Means(e, [a \in 0..67 |-> 0]), constexp(Text(e, 1), 1), Text(e, 1))
====
