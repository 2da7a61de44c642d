--------------------------------- MODULE MCParts ---------------------------------
(***************************************************************************)
(* The parts that share no state with the others nor with each other, each *)
(* on a small machine.  Their product would only multiply their states, so *)
(* a behavior is one of one part; the variables of the rest stand still.   *)
(* The sequential algorithms read one input that grows token by token.     *)
(***************************************************************************)
EXTENDS Sequences, KernelParts

VARIABLES
    input,
    proc, trees, failed,
    linetab, dot, names, put, glob, text, todo, marked, astray,
    tfile, ibuff, iblock, ichanged, obuff, oblock, tline, lines,
    pipe, labels, offs, code, broken, items, ended

mapVars      == <<map, areas>>
keyboardVars == <<shift, down, line, presses>>
calloutVars  == <<callout, calling, due>>
sleepVars    == <<sysclock, tout, napping, deadline>>
ttyVars      == <<rawq, canq, delct, raw, canonb, reader, cpu, fault, typed, got, torn, keys>>
blockVars    == <<sfree, flock, store, iaddr, large, mover, stale, moved>>
shellVars    == <<proc, trees, failed>>
edTextVars   == <<linetab, dot, names, put, glob, text, todo, marked, astray>>
edTempVars   == <<tfile, ibuff, iblock, ichanged, obuff, oblock, tline, lines>>
fileVars     == <<ofile, file, icount, open, cdir, at, alive, made, meant>>
signalVars   == <<sig, signal, state, posts, sent, late>>
psinfoVars   == <<slot, disk, cache, call, answer, moves>>
jumpVars     == <<pipe, labels, offs, code, broken, items, ended>>

----
(* The sequential algorithms, each with the words its input is made of:    *)
(* what may come after what (MayFollow), and how long an input gets.       *)

(* Addresses and constant expressions for the assembler.                   *)
Digits == [d \in {"2", "7"} |-> IF d = "2" THEN 2 ELSE 7]
Expr == INSTANCE AsmExpr WITH Values <- Digits
InAddress(in) == \E i \in DOMAIN in : in[i] \in {"[", "name", "ES"}
ExprAfter(in) ==
    LET last == in[Len(in)]
    IN  CASE in = <<>>               -> {"[", "name", "ES", "(", "2", "-"}
          [] last \in {"name", "]"}  -> {"[", "+", "-"}
          [] last = "ES"             -> {":"}
          [] last \notin {"name", "]", "ES"} /\ InAddress(in) ->
                (CASE last = ":" -> {"[", "name"} [] last \in {"[", "+", "-"} -> {"BX", "SI", "BP", "DI", "2"} [] OTHER -> {"+", "-", "]"})
          [] last \notin {"name", "]", "ES"} /\ ~InAddress(in) ->
                IF last \in {"2", "7", ")"} THEN {"||", "&", "==", "<", "<<", "+", "-", "*", ")", "?", ":"}
                ELSE {"!", "2", "7"} \cup (IF Cardinality({i \in DOMAIN in : in[i] = "("}) < 2 THEN {"("} ELSE {})

(* Instructions, and what stands for each operand.                         *)
Codes == INSTANCE Dis
Floats == INSTANCE AsmInst
Operand == [
    AX |-> Codes!Register(2, 0), AL |-> Codes!Register(1, 0), CX |-> Codes!Register(2, 1), CL |-> Codes!Register(1, 1),
    DX |-> Codes!Register(2, 2), BH |-> Codes!Register(1, 7), ES |-> Codes!Segment(0), CS |-> Codes!Segment(1),
    byte |-> Codes!Named(1, 7, 3), wordInCode |-> Codes!Named(2, 300, 1), near |-> Codes!Named(7, 4, 1), far |-> Codes!Named(7, -400, 1),
    byteBX |-> Codes!Based(1, 7, 0, -1), wordBP |-> Codes!Based(2, 6, 0, -1), wordBPSI |-> Codes!Based(2, 2, -200, 3),
    byteDI |-> Codes!Based(1, 5, -2, 0), someBPDI |-> Codes!Based(7, 3, 5, 2),
    one |-> Codes!Constant(1), minus |-> Codes!Constant(-1), more |-> Codes!Constant(200), wide |-> Codes!Constant(300),
    three |-> Codes!Constant(3), place |-> Codes!Offset(Codes!Named(2, 9, 3))]
FloatOperand == [
    ST0 |-> Floats!ST(0), ST3 |-> Floats!ST(3), int |-> Codes!Named(2, 7, 3), long |-> Codes!Based(3, 6, 0, -1),
    quad |-> Codes!Based(4, 2, -200, 3), ten |-> Codes!Named(5, 7, 0)]
Codings == {"MOV", "TEST", "XCHG", "CALL", "JMP", "INT", "ESC", "IN", "OUT", "LEA", "XLAT"} \cup DOMAIN Codes!Types
OperandOf(in, i) == IF i > Len(in) THEN Codes!NoOperand ELSE Operand[in[i]]
FloatOf(in, i)   == IF i > Len(in) THEN Codes!NoOperand ELSE FloatOperand[in[i]]
InstAfter(in) ==
    LET m == IF in = <<>> THEN "" ELSE IF in[1] \in Codes!Prefixes /\ Len(in) > 1 THEN in[2] ELSE in[1]
        n == IF in # <<>> /\ in[1] \in Codes!Prefixes THEN Len(in) - 1 ELSE Len(in)
    IN  CASE in = <<>> -> (Codings \ Codes!Prefixes) \cup {"LOCK", "REPZ"}
          [] m \in Codes!Prefixes -> {"MOVSB", "INC", "XCHG"}
          [] m \in Codes!Pairs /\ n < 3 -> DOMAIN Operand
          [] m \in Codes!Singles \cup {"RET", "LRET"} /\ n < 2 -> DOMAIN Operand
          [] OTHER -> {}
Instruction(in) ==
    LET pre == IF in[1] \in Codes!Prefixes THEN 1 ELSE 0
        m   == in[1 + pre]
    IN  (Len(in) > pre /\ (m \in Codes!Singles => Len(in) = pre + 2) /\ (m \in Codes!Pairs => Len(in) = pre + 3)) =>
            Codes!ReadsBack(IF pre = 1 THEN in[1] ELSE "", m, OperandOf(in, pre + 2), OperandOf(in, pre + 3))

(* What the assembler reads and writes: see AsmExpr, Dis and AsmInst.      *)
ReadsExpr(in)  == IF InAddress(in) THEN Expr!ReadsAddress(in) ELSE in # <<>> => Expr!ReadsValue(in)
ReadsInst(in)  == in # <<>> => Instruction(in)
ReadsFloat(in) ==
    in # <<>> => Floats!FollowsMap(in[1], FloatOf(in, 2), FloatOf(in, 3)) /\ Floats!Told(in[1], FloatOf(in, 2), FloatOf(in, 3), Floats!FloatOps)

(* Modules for the linker: who gives f and the common x, and who uses them. *)
InCode == [op |-> "seg", seg |-> "c"]
InData == [op |-> "seg", seg |-> "d"]
Public(n) == [op |-> "public", name |-> n]
Local(n, k) == [op |-> "local", name |-> n, at |-> k]
Reserved(n, k) == [op |-> "reserve", name |-> n, len |-> k]
Room(k) == [op |-> "bytes", n |-> k]
Refers(n) == [op |-> "name", name |-> n]
Jump(n) == [op |-> "jump", name |-> n]
Object == [
    usesF |-> [head |-> <<InCode, Public("f")>>, body |-> <<InCode, Room(2), Jump("f"), InData, Room(1), InCode, Room(1), Refers("f")>>],
    givesF |-> [head |-> <<InCode, Public("f"), Local("f", 1), InData, Local("s", 1)>>,
                body |-> <<InCode, Room(2), Refers("s"), InData, Room(2), Refers("f")>>],
    hidesF |-> [head |-> <<InCode, [op |-> "static", name |-> "f"], Local("f", 0)>>, body |-> <<InCode, Room(1), Room(2), Jump("f")>>],
    namesF |-> [head |-> <<InCode, Public("f")>>, body |-> <<InCode, Room(1)>>],
    usesX |-> [head |-> <<InData, Public("x")>>, body |-> <<InData, Room(4), Refers("x")>>],
    givesX |-> [head |-> <<InData, Public("x"), Local("x", 2)>>, body |-> <<InData, Room(3), InCode, Room(3), Refers("x")>>],
    sharesX |-> [head |-> <<InData, Public("x"), Reserved("x", 2)>>, body |-> <<InCode, Room(1), Refers("x")>>],
    sharesMore |-> [head |-> <<InData, Public("x"), Reserved("x", 3), Reserved("s", 1)>>,
                    body |-> <<InCode, Room(1), Refers("s"), Room(2), Refers("x")>>]]
Objects == {<<place, b>> \in {"0", "1", "2", "library"} \X DOMAIN Object : b \in {"hidesF", "namesF"} => place \in {"0", "library"}}
PlaceNo(t) == CASE t[1] = "0" -> 0 [] t[1] = "1" -> 1 [] t[1] = "2" -> 2 [] t[1] = "library" -> 3
Modules(in) == [k \in 1..Len(in) |->
    [ov |-> PlaceNo(in[k]) % 3, lib |-> in[k][1] = "library", head |-> Object[in[k][2]].head, body |-> Object[in[k][2]].body]]
Binder == INSTANCE Bind WITH
    CBLOCK <- 2, DBLOCK <- 3, PAGE <- 2, HEAD <- 2, OVHEAD <- 1, MAXOVER <- 2, Name <- {"f", "x", "s"}

(* C's statements and conditions, in Polish: what is still wanted, nearest  *)
(* first, and how much that is at least.                                   *)
Statements == INSTANCE CStmt WITH
    LISTS <- 2, MAXFOR <- 3, MAXCASE <- 4, CaseValue <- [c \in {"case 2", "case 4", "case 40"} |->
        CASE c = "case 2" -> 2 [] c = "case 4" -> 4 [] c = "case 40" -> 40]
Takes(t) ==
    CASE t = "if" -> <<"C", "S", "E">> [] t \in {"while", "for"} -> <<"C", "S">> [] t = "do" -> <<"S", "W">> [] t = "while;" -> <<"C">>
      [] t \in {"switch", "L:", "else"} \cup Statements!Cases -> <<"S">> [] t = "{" -> <<"B">> [] t = "!" -> <<"C">> [] t \in {"&&", "||"} -> <<"C", "C">>
      [] OTHER -> <<>>
Conditions == {"c", "0", "1", "!", "&&", "||"}
Fills(t, w) == CASE w = "C" -> t \in Conditions [] w = "W" -> t = "while;" [] w = "E" -> t = "else"
                 [] w \in {"S", "B"} -> t \notin Conditions \cup {"while;", "else", "}"}
RECURSIVE Taken(_, _)
Taken(w, t) ==
    IF w = <<>> THEN <<"never">>
    ELSE IF w[1] = "B" THEN (IF t = "}" THEN Tail(w) ELSE IF Fills(t, "B") THEN Takes(t) \o w ELSE <<"never">>)
    ELSE IF Fills(t, w[1]) THEN Takes(t) \o Tail(w)
    ELSE IF w[1] = "E" THEN Taken(Tail(w), t) ELSE <<"never">>
Wants(in) == LET f[i \in 0..Len(in)] == IF i = 0 THEN <<"S">> ELSE Taken(f[i - 1], in[i]) IN f[Len(in)]
AtLeast(w) == LET f[i \in 0..Len(w)] == IF i = 0 THEN 0 ELSE f[i - 1] + (CASE w[i] = "E" -> 0 [] w[i] = "W" -> 2 [] w[i] = "never" -> 99 [] OTHER -> 1) IN f[Len(w)]
Words(p) ==
    CASE p = "loops"    -> {"x", "if", "else", "while", "while;", "do", "for", "{", "}", ";", "break", "continue", "c"}
      [] p = "gotos" -> {"x", "if", "else", "while", "goto", "L:", "return", "{", "}", "c"}
      [] p = "switches" -> {"x", "switch", "case 2", "case 4", "case 40", "default", "{", "}", "break", "while", "continue", "c"}
      [] p = "conds"    -> {"x", "if", "else", "do", "while;"} \cup Conditions
Begins(p, in) == IF p = "switches" /\ in = <<>> THEN {"switch", "while"} ELSE IF p = "switches" /\ in = <<"switch">> THEN {"{"} ELSE Words(p)
Continues(p, in, n) == LET w == Wants(in) IN {t \in Begins(p, in) : Len(in) + 1 + AtLeast(Taken(w, t)) <= n}
Compiles(in) == AtLeast(Wants(in)) = 0 => Statements!RunsRight(in)

(* Expressions in Polish, the first word saying of which kind: sums with   *)
(* more values at once than registers, objects, truths.                    *)
Codegen == INSTANCE GenExpr
Constant(n) == <<"CONST", IF n > 255 THEN Codegen!CINT ELSE Codegen!CCHAR, n>>
Char     == <<"OPND", Codegen!CCHAR, 1, 0>>
Integer  == <<"OPND", Codegen!CINT, 2, 0>>
AutoVar  == <<"OPND", Codegen!CINT, 0, 4>>
Unsigned == <<"OPND", Codegen!CUNSG, 3, 0>>
Array    == <<"OPND", Codegen!ARRAY, 4, 0>>
Pointer  == <<"OPND", Codegen!CUNSG, 5, 0>>
Bits     == <<"OPND", Codegen!BITS + 32 + 2, 6, 0>>
Product  == <<"MUL", Integer, AutoVar>>
Leaf == [c |-> Char, i |-> Integer, m |-> Product, three |-> Constant(3), one |-> Constant(1), u |-> <<"DIV", Unsigned, AutoVar>>,
         b |-> Bits, steps |-> <<"IND", Codegen!CINT, <<"POSTI", Pointer, 2>>>>, element |-> <<"IND", Codegen!CCHAR, <<"ADD", Array, Char>>>>,
         both |-> <<"LAND", Integer, Char>>]
(* Around x three products wait in registers.                              *)
Around(x) == <<"SUB", <<"MUL", AutoVar, AutoVar>>, <<"SUB", Product, <<"SUB", <<"DIV", Unsigned, AutoVar>>, x>>>>>>
With1(t, x) == CASE t = "around" -> Around(x) [] t = "*" -> <<"IND", Codegen!CINT, x>> [] t = "++" -> <<"POSTI", x, 1>> [] OTHER -> <<t, x>>
With2(t, x, y) == CASE t = "CALL" -> <<"CALL", Codegen!CINT, <<"OPND", Codegen!FUNCTION, 7, 0>>, <<x, y>>>>
                    [] t = "TEST" -> <<"TEST", Codegen!CINT, x, y, AutoVar>> [] OTHER -> <<t, x, y>>
Kinds == [sums |-> {"c", "m", "u", "three", "around", "SUB", "MUL", "CALL"},
          objects |-> {"i", "c", "b", "steps", "element", "around", "*", "++", "ASGN", "ASHL"},
          truths |-> {"c", "m", "both", "around", "NOT", "LT", "TEST", "LAND"}]
Unary == {"around", "*", "++", "NOT"}
Arity(t) == IF t \in DOMAIN Leaf THEN 0 ELSE IF t \in Unary THEN 1 ELSE 2
Missing(in) == LET m[k \in 1..Len(in)] == IF k = 1 THEN 1 ELSE m[k - 1] + Arity(in[k]) - 1 IN m[Len(in)]
Polish(in, n) ==
    IF in = <<>> THEN DOMAIN Kinds
    ELSE {t \in Kinds[in[1]] : Missing(in) > 0 /\ Len(in) + Missing(in) + Arity(t) <= n
                                /\ (Len(in) = 1 /\ in[1] # "objects" => Arity(t) = 2) /\ (in[Len(in)] \in {"ASGN", "ASHL"} => t \notin {"around", "ASGN", "ASHL", "++"})}
Built(st, t) ==
    LET n == Len(st)
    IN  CASE Arity(t) = 0 -> Append(st, Leaf[t]) [] Arity(t) = 1 -> Append(SubSeq(st, 1, n - 1), With1(t, st[n]))
          [] Arity(t) = 2 -> Append(SubSeq(st, 1, n - 2), With2(t, st[n], st[n - 1]))
Expression(in) == LET f[k \in 0..(Len(in) - 1)] == IF k = 0 THEN <<>> ELSE Built(f[k - 1], in[Len(in) + 1 - k]) IN f[Len(in) - 1][1]
Memory(c, iLow, iHigh, uLow, uHigh, p, b, j) ==
    [a \in 0..123 |-> CASE a = 8 -> c [] a = 16 -> iLow [] a = 17 -> iHigh [] a = 24 -> uLow [] a = 25 -> uHigh [] a = 40 -> p
                        [] a = 48 -> b [] a = 116 -> j [] a \in 32..39 -> a - 30 [] OTHER -> 0]
Memories == {Memory(3, 5, 0, 7, 0, 34, 221, 2), Memory(200, 253, 255, 1, 129, 32, 12, 7)}
Generates(in) ==
    in # <<>> /\ Missing(in) = 0 => Codegen!DoesRight(Expression(in), Memories, Expression(in)[1] \notin {"ASGN", "ASHL"})

(* C's expressions in Polish, by what they are about.                      *)
Trees == INSTANCE CExpr WITH LISTS <- 3
CKinds == [
    opers    |-> (Trees!Infix \ {"!=", "<=", ">", ">=", "%", "/", "-", "<<", "^", "|"}) \cup {"=", "+=", "?:", "-1", "i", "u"},
    pointers |-> {"p", "q", "a", "m", "i", "2", "+", "-", "[]", "*1", "&1", "+=", "1++"},
    structs  |-> {"s", "ps", "v", "i", "1.n", "1.t", "1.next", "1->n", "1->next", "&1", "*1", "=", "[]", "sizeof1"},
    calls    |-> {"f", "g", "pf", "new", "=", "*1", "call0", "call1", "call2", "call4", ",2", ",4"},
    consts   |-> {"||", "^", "!=", "<<", "-", "/", "%", "?:", "-1", "!1", "sizeof1", "2", "300"}]
CWords == UNION {CKinds[k] : k \in DOMAIN CKinds}
CArity == [w \in CWords |->
    CASE w = "call4" -> 5 [] w = ",4" -> 4 [] w \in {"?:", "call2"} -> 3
      [] w \in Trees!Infix \cup Trees!Assignments \cup {"[]", "call1", ",2"} -> 2
      [] w \in DOMAIN Trees!Prefixes \cup DOMAIN Trees!Postfixes \cup {"call0"} -> 1 [] OTHER -> 0]
CMissing(in) == LET m[k \in 0..Len(in)] == IF k = 0 THEN 1 ELSE m[k - 1] + CArity[in[k]] - 1 IN m[Len(in)]
CPolish(p, in, n) == {w \in CKinds[p] : CMissing(in) > 0 /\ Len(in) + CMissing(in) + CArity[w] <= n}
CBuilt(st, w) ==
    LET n == Len(st)
    IN  Append(SubSeq(st, 1, n - CArity[w]), <<w>> \o [k \in 1..CArity[w] |-> st[n + 1 - k]])
CTree(in) == LET f[k \in 0..Len(in)] == IF k = 0 THEN <<>> ELSE CBuilt(f[k - 1], in[Len(in) + 1 - k]) IN f[Len(in)][1]
Words16(mem, a, list) ==
    LET f[k \in 0..Len(list)] == IF k = 0 THEN mem ELSE [f[k - 1] EXCEPT ![a + 2 * k - 2] = list[k] % 256, ![a + 2 * k - 1] = list[k] \div 256] IN f[Len(list)]
CMemory(i) ==
    Words16(Words16([a \in 0..67 |-> 0], 4, <<200, i, 40000, 16, 51, 7, 300, 65534, 1, 2, 3, 4, 9, 258, 36, 42, 11, 513, 28, 12, 1027, 36, 1000, 25928, 108>>),
            64, <<2>>)
CMemories == {CMemory(5), CMemory(65533)}
Makes(p, in) == CMissing(in) = 0 => IF p = "consts" THEN Trees!ConstantRight(CTree(in)) ELSE Trees!TreesRight(CTree(in), CMemories)

(* Dates by year, day and second: months' ends, and where summer time may  *)
(* start and stop.                                                         *)
Dates == INSTANCE CTime
DateAfter(in) ==
    CASE in = <<>>     -> 70..99
      [] Len(in) = 1 -> {0, 5, 30, 31, 364, 365} \cup 50..60 \cup 110..121 \cup 295..305 \cup 325..335
      [] Len(in) = 2 -> {0, 3599, 3600, 7199, 7200, 86399}
      [] OTHER -> {}

(* Prototypes of up to 8 files on a disk that some of them do not fit.     *)
MakeFs == INSTANCE Mkfs WITH FSIZE <- 16, ISIZE <- 2, NICFREE <- 3, ENTRIES <- 2, INOPB <- 4, NADDR <- 2, NINDIR <- 4, F_N <- 4, F_M <- 2,
    Blocks <- [t \in {"f0", "f1", "f2", "f3", "f4"} |-> CASE t = "f0" -> 0 [] t = "f1" -> 1 [] t = "f2" -> 2 [] t = "f3" -> 3 [] t = "f4" -> 4]

----
Vocabulary == [p \in {"parse", "regex", "bind", "mkfs"} |->
    CASE p = "parse" -> {"a", "<", ">", "|", "&", ";", "(", ")"}
      [] p = "regex" -> {"a", ".", "*", "[^b]", "^", "$", "\\(", "\\)"}
      [] p = "bind"  -> Objects
      [] p = "mkfs"  -> {"dir", "$", "special", "f0", "f1", "f2", "f3", "f4"}]
Longest == [p \in {"parse", "regex", "bind", "expr", "inst", "float", "loops", "gotos", "switches", "conds", "dates", "mkfs", "gen"} \cup DOMAIN CKinds |->
    CASE p = "parse" -> 5 [] p = "regex" -> 4 [] p = "bind" -> 3 [] p = "expr" -> 5 [] p = "inst" -> 4 [] p = "float" -> 3
      [] p = "loops" -> 7 [] p = "gotos" -> 7 [] p = "switches" -> 8 [] p = "conds" -> 8 [] p = "dates" -> 3 [] p = "mkfs" -> 6 [] p = "gen" -> 6
      [] p = "opers" -> 5 [] p = "pointers" -> 5 [] p = "structs" -> 5 [] p = "calls" -> 5 [] p = "consts" -> 5]
MayFollow(p, in) ==
    CASE p = "expr" -> ExprAfter(in)
      [] p = "inst" -> InstAfter(in)
      [] p = "float" -> IF in = <<>> THEN Floats!FloatOps ELSE DOMAIN FloatOperand
      [] p = "bind" -> {t \in Objects : in # <<>> => \/ PlaceNo(in[Len(in)]) <= PlaceNo(t)
                                                     \/ t[1] = "0" /\ \A k \in 1..Len(in) : in[k][1] \in {"0", "library"}}
      [] p \in {"loops", "gotos", "switches", "conds"} -> Continues(p, in, Longest[p])
      [] p = "dates" -> DateAfter(in)
      [] p = "gen" -> Polish(in, Longest[p])
      [] p \in DOMAIN CKinds -> CPolish(p, in, Longest[p])
      [] p = "mkfs" -> IF in = <<>> THEN {"dir"} ELSE IF MakeFs!Whole(in) THEN {} ELSE Vocabulary[p]
      [] OTHER -> Vocabulary[p]

----
(* A file of 1 * 16 + 9 bytes, for seeks from its end.                     *)
FileSize == <<1, 9>>

(* Pipelines, blocks, redirections, background commands, a syntax error.   *)
SomeLines == {
    <<"a", "|", "b", "|", "c", ">", "f">>,
    <<"(", "a", ";", "b", "&", ")", "|", "c">>,
    <<"a", "<", "f", ">", "g", ">", "h", "&", ";", "b">>,
    <<"(", "a", "|", "b", ")", "<", "f", "|", "c">>,
    <<"a", ")">>}
Shells == INSTANCE Shell WITH MAXARGS <- 3, Lines <- SomeLines, NPROC <- 6, NOFILE <- 6, MaxLines <- 2

EdTexts == INSTANCE EdText WITH
    NLINES <- 5, MaxPuts <- 4,
    Char <- {"a", "b"}, ClassOf <- [c \in {"[b]", "[^b]"} |-> {"b"}], Negated <- {"[^b]"}, NBRA <- 2
EdTemps == INSTANCE EdTemp WITH BSIZE <- 4, ALIGN <- 2, NBLOCK <- 4, Lengths <- {0, 2, 3, 5}

Jumps == INSTANCE AsmJumps WITH
    Label <- {"a"}, REACH <- 9, HOLD <- 8, KEEP <- 8, FULL <- 14, Sizes <- {4}, MaxItems <- 5

ASSUME PartsAssumption ==
    /\ EdTexts!TextAssumption /\ EdTemps!TempAssumption
    /\ Binder!BindAssumption /\ Jumps!JumpsAssumption

----
PartsInit ==
    /\ part \in {"map", "keyboard", "callouts", "tty", "blocks", "sleep", "shell", "edtext", "edtemp", "jumps",
                "files", "signals", "psinfo"}
                \cup DOMAIN Longest
    /\ input = <<>>
    /\ Map!Init /\ Keyboard!Init /\ Callouts!Init /\ Tty!Init /\ DiskBlocks!Init /\ Sleep!Init
    /\ Shells!Init /\ EdTexts!Init /\ EdTemps!Init /\ Jumps!Init
    /\ Files!Init /\ Signals!Init /\ PsInfos!Init

Fixed(p) ==
    /\ UNCHANGED part
    /\ IF p = "input"    THEN TRUE ELSE UNCHANGED input
    /\ IF p = "map"      THEN TRUE ELSE UNCHANGED mapVars
    /\ IF p = "keyboard" THEN TRUE ELSE UNCHANGED keyboardVars
    /\ IF p = "callouts" THEN TRUE ELSE UNCHANGED calloutVars
    /\ IF p = "tty"      THEN TRUE ELSE UNCHANGED ttyVars
    /\ IF p = "blocks"   THEN TRUE ELSE UNCHANGED blockVars
    /\ IF p = "sleep"    THEN TRUE ELSE UNCHANGED sleepVars
    /\ IF p = "shell"    THEN TRUE ELSE UNCHANGED shellVars
    /\ IF p = "edtext"   THEN TRUE ELSE UNCHANGED edTextVars
    /\ IF p = "edtemp"   THEN TRUE ELSE UNCHANGED edTempVars
    /\ IF p = "jumps"    THEN TRUE ELSE UNCHANGED jumpVars
    /\ IF p = "files"    THEN TRUE ELSE UNCHANGED fileVars
    /\ IF p = "signals"  THEN TRUE ELSE UNCHANGED signalVars
    /\ IF p = "psinfo"   THEN TRUE ELSE UNCHANGED psinfoVars

PartsNext ==
    \/ part = "map"      /\ Map!Next      /\ Fixed("map")
    \/ part = "keyboard" /\ Keyboard!Next /\ Fixed("keyboard")
    \/ part = "callouts" /\ Callouts!Next /\ Fixed("callouts")
    \/ part = "tty"      /\ Tty!Next      /\ Fixed("tty")
    \/ part = "blocks"   /\ DiskBlocks!Next   /\ Fixed("blocks")
    \/ part = "sleep"    /\ Sleep!Next    /\ Fixed("sleep")
    \/ part = "shell"    /\ Shells!Next   /\ Fixed("shell")
    \/ part = "edtext"   /\ EdTexts!Next  /\ Fixed("edtext")
    \/ part = "edtemp"   /\ EdTemps!Next  /\ Fixed("edtemp")
    \/ part = "jumps"    /\ Jumps!Next    /\ Fixed("jumps")
    \/ part = "files"    /\ Files!Next    /\ Fixed("files")
    \/ part = "signals"  /\ Signals!Next  /\ Fixed("signals")
    \/ part = "psinfo"   /\ PsInfos!Next  /\ Fixed("psinfo")
    \/ /\ part \in DOMAIN Longest
       /\ Len(input) < Longest[part]
       /\ \E t \in MayFollow(part, input) : input' = Append(input, t)
       /\ Fixed("input")
PartsSpec ==
    PartsInit /\ [][PartsNext]_<<part, input, mapVars, keyboardVars, calloutVars, sleepVars, ttyVars,
                                blockVars, shellVars, edTextVars, edTempVars, jumpVars,
                                fileVars, signalVars, psinfoVars>>

----
(* No character finds the block list empty, and what is typed is read,     *)
(* whole and once, as edited: see Tty.                                     *)
Console == part = "tty" => Tty!Whole

(* A line of the shell is parsed by its grammar, wired as it says, and the *)
(* prompt waits for it (Shell); the editor's table is the text its         *)
(* commands mean, its lines read back, its matcher finds the best match    *)
(* (EdText, EdTemp); the run time's dates are the calendar's, and mkfs     *)
(* makes what it is told to (CTime, Mkfs).                                 *)
Programs ==
    /\ part = "parse"  => Shells!ParsesRight(input)
    /\ part = "shell"  => Shells!Wired /\ Shells!Waited
    /\ part = "edtext" => EdTexts!Edited
    /\ part = "edtemp" => EdTemps!ReadBack
    /\ part = "regex"  => EdTexts!MatchesRight(input)
    /\ part = "mkfs"   => MakeFs!ImageRight(input)
    /\ part = "dates"  => (Len(input) = 3 => Dates!DatesRight(input[1], input[2], input[3]))

(* The code of C's statements does what they say, that of expressions, and *)
(* the trees mean what is written: see CStmt, GenExpr and CExpr.           *)
Compiled ==
    /\ part \in {"loops", "gotos", "switches", "conds"} => Compiles(input)
    /\ part = "gen" => Generates(input)
    /\ part \in DOMAIN CKinds => Makes(part, input)

(* What the assembler reads is what is written, its code is what DIS       *)
(* reads back, its jumps land, and the linker gives each reference what    *)
(* the modules mean: see AsmExpr, Dis, AsmInst, AsmJumps and Bind.         *)
Assembled ==
    /\ part = "expr"  => ReadsExpr(input)
    /\ part = "inst"  => ReadsInst(input)
    /\ part = "float" => ReadsFloat(input)
    /\ part = "jumps" => Jumps!JumpsLand
    /\ part = "bind"  => Binder!LinksRight(Modules(input))
====
