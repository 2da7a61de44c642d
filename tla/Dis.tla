---------------------------------- MODULE Dis ----------------------------------
(***************************************************************************)
(* The debugger's disassembler (BUILD/D88/DIS.A), from bytes to mnemonics  *)
(* and operands, and what the assembler's instruction should come back as. *)
(* A printed operand is a register, a segment register, a memory reference *)
(* (n the r/m, 8 for none; w the size where it is shown, 0 where not; over *)
(* the override shown, or -1), an immediate of w bytes, or an address.     *)
(***************************************************************************)
EXTENDS AsmInst

Shown(k, w, n, off, over) == [k |-> k, w |-> w, n |-> n, off |-> off, over |-> over]
ADD_ANY_REG(w, n) == Shown("reg", w, n % 8, 0, -1)
ADD_SEGREG(n)     == Shown("seg", 0, n, 0, -1)
ADD_IMM(w, n)     == Shown("imm", w, n, 0, -1)
ADD_ADDR(n)       == Shown("to", 0, n, 0, -1)

NOOP == [b \in {\h0F, \h27, \h2F, \h37, \h3F, \h90, \h98, \h99, \h9B, \h9C, \h9D, \h9E, \h9F, \hA4, \hA5, \hA6, \hA7, \hAA, \hAB,
                \hAC, \hAD, \hAE, \hAF, \hC3, \hCB, \hCE, \hCF, \hD4, \hD5, \hD6, \hD7, \hF1, \hF4, \hF5, \hF8, \hF9, \hFA,
                \hFB, \hFC, \hFD} |->
    CASE b = \h27 -> "DAA" [] b = \h2F -> "DAS" [] b = \h37 -> "AAA" [] b = \h3F -> "AAS" [] b = \h90 -> "NOP" [] b = \h98 -> "CBW"
      [] b = \h99 -> "CWD" [] b = \h9B -> "WAIT" [] b = \h9C -> "PUSHF" [] b = \h9D -> "POPF" [] b = \h9E -> "SAHF"
      [] b = \h9F -> "LAHF" [] b = \hA4 -> "MOVSB" [] b = \hA5 -> "MOVSW" [] b = \hA6 -> "CMPSB" [] b = \hA7 -> "CMPSW"
      [] b = \hAA -> "STOSB" [] b = \hAB -> "STOSW" [] b = \hAC -> "LODSB" [] b = \hAD -> "LODSW" [] b = \hAE -> "SCASB"
      [] b = \hAF -> "SCASW" [] b = \hC3 -> "RET" [] b = \hCB -> "LRET" [] b = \hCE -> "INTO" [] b = \hCF -> "IRET"
      [] b = \hD4 -> "AAM" [] b = \hD5 -> "AAD" [] b = \hD7 -> "XLAT" [] b = \hF4 -> "HLT" [] b = \hF5 -> "CMC" [] b = \hF8 -> "CLC"
      [] b = \hF9 -> "STC" [] b = \hFA -> "CLI" [] b = \hFB -> "STI" [] b = \hFC -> "CLD" [] b = \hFD -> "STD" [] OTHER -> "NFG"]
IDPPMNU  == <<"INC", "DEC", "PUSH", "POP">>
ARITHMNU == <<"ADD", "OR", "ADC", "SBB", "AND", "SUB", "XOR", "CMP">>
JCOND_MNU == <<"JO", "JNO", "JB", "JNB", "JZ", "JNZ", "JNA", "JA", "JS", "JNS", "JP", "JNP", "JL", "JNL", "JNG", "JG">>
LOOPMNU  == <<"LOOPNZ", "LOOPZ", "LOOP", "JCXZ">>
SHIFTMNU == <<"ROL", "ROR", "RCL", "RCR", "SHL", "SHR", "NFG", "SAR">>
GRP1MNU  == <<"TEST", "NFG", "NOT", "NEG", "MUL", "IMUL", "DIV", "IDIV">>
GRP2MNU  == <<"INC", "DEC", "CALL", "LCALL", "JMP", "LJMP", "PUSH", "NFG">>
PREMNU   == [b \in {\hF0, \hF2, \hF3} |-> CASE b = \hF0 -> "LOCK" [] b = \hF2 -> "REP" [] b = \hF3 -> "REPZ"]

----
Byte(c, i)   == IF i <= Len(c) THEN c[i] ELSE 0
IW(c, i)     == Byte(c, i) + 256 * Byte(c, i + 1)
Extended(b)  == IF b < 128 THEN b ELSE b - 256
ADD_IS(c, i) == Extended(Byte(c, i)) % 65536
EXTRACT(b)   == (b \div 8) % 8

(* The r/m byte at i: its operand and where the next byte is.              *)
AddRmUnsigned(c, i, w, shown, over) ==
    LET b == Byte(c, i)
        mod == b \div 64
    IN  CASE mod = 3              -> [op |-> ADD_ANY_REG(w, b), next |-> i + 1]
          [] mod = 0 /\ b % 8 = 6 -> [op |-> Shown("mem", shown, 8, IW(c, i + 1), over), next |-> i + 3]
          [] mod = 0 /\ b % 8 # 6 -> [op |-> Shown("mem", shown, b % 8, 0, over), next |-> i + 1]
          [] mod = 1              -> [op |-> Shown("mem", shown, b % 8, Byte(c, i + 1), over), next |-> i + 2]
          [] mod = 2              -> [op |-> Shown("mem", shown, b % 8, IW(c, i + 1), over), next |-> i + 3]
ADD_RM(c, i, w, shown, over) ==
    LET b == Byte(c, i)
        mod == b \div 64
    IN  CASE mod = 3              -> [op |-> ADD_ANY_REG(w, b), next |-> i + 1]
          [] mod = 0 /\ b % 8 = 6 -> [op |-> Shown("mem", shown, 8, IW(c, i + 1), over), next |-> i + 3]
          [] mod = 0 /\ b % 8 # 6 -> [op |-> Shown("mem", shown, b % 8, 0, over), next |-> i + 1]
          [] mod = 1              -> [op |-> Shown("mem", shown, b % 8, ADD_IS(c, i + 1), over), next |-> i + 2]
          [] mod = 2              -> [op |-> Shown("mem", shown, b % 8, IW(c, i + 1), over), next |-> i + 3]

(* The instruction at x.i: its byte, prefixes and override in x.           *)
Is(x, m, ops, next) == [pre |-> x.pre, mnu |-> m, ops |-> ops, next |-> next]
W(x)       == 1 + (x.b % 2)                       \* the low bit: byte or word
ToReg(x)   == (x.b \div 2) % 2 = 1
Reg(x)     == EXTRACT(Byte(x.c, x.i + 1))
RM(x)      == ADD_RM(x.c, x.i + 1, W(x), 0, x.over)
Sized(x)   == ADD_RM(x.c, x.i + 1, W(x), W(x), x.over)     \* with BYTE PTR or WORD PTR
WordRM(x)  == ADD_RM(x.c, x.i + 1, CINT, 0, x.over)
Imm(x, k, at) == ADD_IMM(k, IF k = 1 THEN Byte(x.c, at) ELSE IW(x.c, at))
ADD_REGRM(x, m, toReg) ==
    LET rm == RM(x)
        r  == ADD_ANY_REG(W(x), Reg(x))
    IN  Is(x, m, IF toReg THEN <<r, rm.op>> ELSE <<rm.op, r>>, rm.next)

TRY_LOW(x) ==
    LET b == x.b
    IN  CASE b \in {6, \h0E, \h16, \h1E}  -> Is(x, "PUSH", <<ADD_SEGREG(b \div 8)>>, x.i + 1)
          [] b \in {7, \h17, \h1F}        -> Is(x, "POP", <<ADD_SEGREG(b \div 8)>>, x.i + 1)
          [] b \in \h40..\h5F             -> Is(x, IDPPMNU[(b - \h40) \div 8 + 1], <<ADD_ANY_REG(CINT, b)>>, x.i + 1)
          [] b < \h40 /\ b % 8 \in {4, 5} ->
                Is(x, ARITHMNU[b \div 8 + 1], <<ADD_ANY_REG(W(x), 0), Imm(x, W(x), x.i + 1)>>, x.i + 1 + W(x))
          [] b < \h40 /\ b % 8 \in 0..3   -> ADD_REGRM(x, ARITHMNU[b \div 8 + 1], ToReg(x))

TRY_HIGH(x) ==
    LET b     == x.b
        sized == Sized(x)
        name  == ARITHMNU[Reg(x) + 1]
    IN  CASE b \in \h60..\h6F -> Is(x, "NFG", <<>>, x.i + 1)
          [] b \in \h70..\h7F -> Is(x, JCOND_MNU[(b % 16) + 1], <<ADD_ADDR(Extended(Byte(x.c, x.i + 1)))>>, x.i + 2)
          [] b \in {\h80, \h82} -> Is(x, name, <<sized.op, Imm(x, 1, sized.next)>>, sized.next + 1)
          [] b = \h81 -> Is(x, name, <<sized.op, Imm(x, 2, sized.next)>>, sized.next + 2)
          [] b = \h83 -> Is(x, name, <<sized.op, ADD_IMM(2, ADD_IS(x.c, sized.next))>>, sized.next + 1)
          [] b \in {\h84, \h85} -> ADD_REGRM(x, "TEST", ToReg(x))
          [] b \in {\h86, \h87} -> ADD_REGRM(x, "XCHG", ToReg(x))
          [] b \in \h88..\h8B   -> ADD_REGRM(x, "MOV", ToReg(x))

TRY_MOVSR(x) ==
    LET b      == x.b
        word   == WordRM(x)
        direct == Shown("mem", 0, 8, IW(x.c, x.i + 1), x.over)
        acc    == ADD_ANY_REG(W(x), 0)
        k      == 1 + ((b \div 8) % 2)
    IN  CASE b = \h8C -> Is(x, "MOV", <<word.op, ADD_SEGREG(Reg(x))>>, word.next)
          [] b = \h8E -> Is(x, "MOV", <<ADD_SEGREG(Reg(x)), word.op>>, word.next)
          [] b = \h8D -> ADD_REGRM(x, "LEA", TRUE)
          [] b = \h8F -> Is(x, "POP", <<word.op>>, word.next)
          [] b \in \h91..\h97 -> Is(x, "XCHG", <<ADD_ANY_REG(CINT, 0), ADD_ANY_REG(CINT, b)>>, x.i + 1)
          [] b = \h9A -> Is(x, "LCALL", <<Imm(x, 2, x.i + 3), Imm(x, 2, x.i + 1)>>, x.i + 5)
          [] b \in \hA0..\hA3 -> Is(x, "MOV", IF ToReg(x) THEN <<direct, acc>> ELSE <<acc, direct>>, x.i + 3)
          [] b \in {\hA8, \hA9} -> Is(x, "TEST", <<acc, Imm(x, W(x), x.i + 1)>>, x.i + 1 + W(x))
          [] b \in \hB0..\hBF -> Is(x, "MOV", <<ADD_ANY_REG(k, b), Imm(x, k, x.i + 1)>>, x.i + 1 + k)
          [] OTHER -> Is(x, "NFG", <<>>, x.i + 1)

TRY_ALLC0(x) ==
    LET b     == x.b
        rm    == RM(x)
        word  == WordRM(x)
        sized == Sized(x)
    IN  CASE b \in {\hC2, \hCA} -> Is(x, IF b = \hC2 THEN "RET" ELSE "LRET", <<Imm(x, 2, x.i + 1)>>, x.i + 3)
          [] b \in {\hC4, \hC5} -> Is(x, IF b = \hC4 THEN "LES" ELSE "LDS", <<ADD_ANY_REG(CINT, Reg(x)), word.op>>, word.next)
          [] b \in {\hC6, \hC7} -> Is(x, "MOV", <<rm.op, Imm(x, W(x), rm.next)>>, rm.next + W(x))
          [] b = \hCC -> Is(x, "INT", <<ADD_IMM(1, 3)>>, x.i + 1)
          [] b = \hCD -> Is(x, "INT", <<Imm(x, 1, x.i + 1)>>, x.i + 2)
          [] b \in \hD0..\hD3 ->
                Is(x, SHIFTMNU[Reg(x) + 1], <<sized.op, IF ToReg(x) THEN ADD_ANY_REG(CCHAR, 1) ELSE ADD_IMM(1, 1)>>, sized.next)
          [] b \in \hD8..\hDF -> Is(x, "ESC", <<ADD_IMM(1, 8 * (b % 8) + Reg(x)), rm.op>>, rm.next)
          [] OTHER -> Is(x, "NFG", <<>>, x.i + 1)

TRY_LOOP(x) ==
    LET b     == x.b
        rm    == RM(x)
        sized == Sized(x)
        acc   == ADD_ANY_REG(W(x), 0)
        dx    == ADD_ANY_REG(CINT, 2)
        shown == IF Reg(x) \in {0, 1} THEN sized ELSE rm
        near  == ADD_ADDR(Extended(Byte(x.c, x.i + 1)))
    IN  CASE b \in \hE0..\hE3 -> Is(x, LOOPMNU[b - \hE0 + 1], <<near>>, x.i + 2)
          [] b \in {\hE4, \hE5} -> Is(x, "IN", <<acc, Imm(x, 1, x.i + 1)>>, x.i + 2)
          [] b \in {\hE6, \hE7} -> Is(x, "OUT", <<Imm(x, 1, x.i + 1), acc>>, x.i + 2)
          [] b \in {\hEC, \hED} -> Is(x, "IN", <<acc, dx>>, x.i + 1)
          [] b \in {\hEE, \hEF} -> Is(x, "OUT", <<dx, acc>>, x.i + 1)
          [] b = \hEA -> Is(x, "LJMP", <<Imm(x, 2, x.i + 3), Imm(x, 2, x.i + 1)>>, x.i + 5)
          [] b \in {\hE8, \hE9} -> Is(x, IF b = \hE8 THEN "CALL" ELSE "JMP", <<ADD_ADDR(IW(x.c, x.i + 1))>>, x.i + 3)
          [] b = \hEB -> Is(x, "JMP", <<near>>, x.i + 2)
          [] b \in {\hF6, \hF7} /\ Reg(x) = 0 -> Is(x, "TEST", <<sized.op, Imm(x, W(x), sized.next)>>, sized.next + W(x))
          [] b \in {\hF6, \hF7} /\ Reg(x) # 0 -> Is(x, GRP1MNU[Reg(x) + 1], <<sized.op>>, sized.next)
          [] b \in {\hFE, \hFF} -> Is(x, GRP2MNU[Reg(x) + 1], <<shown.op>>, shown.next)
          [] OTHER -> Is(x, "NFG", <<>>, x.i + 1)

(* One instruction at i, its prefixes in front.                            *)
RECURSIVE DIS(_, _, _, _)
DIS(c, i, pre, over) ==
    LET b == Byte(c, i)
        x == [c |-> c, i |-> i, b |-> b, pre |-> pre, over |-> over]
    IN  CASE b \in {\h26, \h2E, \h36, \h3E} -> DIS(c, i + 1, pre, (b - \h26) \div 8)
          [] b \in DOMAIN PREMNU -> DIS(c, i + 1, Append(pre, PREMNU[b]), over)
          [] b \in DOMAIN NOOP   -> Is(x, NOOP[b], <<>>, IF b \in {\hD4, \hD5} THEN i + 2 ELSE i + 1)
          [] b \notin {\h26, \h2E, \h36, \h3E} \cup DOMAIN PREMNU \cup DOMAIN NOOP ->
                CASE b < \h60 -> TRY_LOW(x) [] b \in \h60..\h8B -> TRY_HIGH(x) [] b \in \h8C..\hBF -> TRY_MOVSR(x)
                  [] b \in \hC0..\hDF -> TRY_ALLC0(x) [] b >= \hE0 -> TRY_LOOP(x)

RECURSIVE Listed(_, _), From(_, _)
From(c, d) == <<d>> \o Listed(c, d.next)
Listed(c, i) == IF i > Len(c) THEN <<>> ELSE From(c, DIS(c, i, <<>>, -1))

----
(* What the instruction should read as.  Immediates have the size of what  *)
(* they go with; a memory reference is in SS where BP is in it, else DS.   *)
InSegment(n, over) == IF over >= 0 THEN over ELSE IF n \in {2, 3, 6} THEN SS ELSE DS
Effective(s) == IF s.k = "mem" THEN [s EXCEPT !.over = InSegment(s.n, s.over), !.w = 0] ELSE s
Intended(o, w) ==
    CASE o.vis = "reg"   -> ADD_ANY_REG(o.vt, o.val)
      [] o.vis = "segr"  -> ADD_SEGREG(o.val)
      [] o.vis = "const" -> ADD_IMM(w, IF w = 1 THEN o.val % 256 ELSE o.val % 65536)
      [] o.vis = "off"   -> ADD_IMM(2, o.off % 65536)
      [] o.vis = "var"   -> Shown("mem", 0, o.val, o.off % 65536, InSegment(o.val, o.seg))

Immediates(m, l) == IF m \in Arith \cup {"MOV", "TEST"} THEN l.vt ELSE IF m \in {"RET", "LRET"} THEN 2 ELSE 1
IntendedOps(m, l, r) ==
    LET w == Immediates(m, l)
    IN  CASE m = "XLAT" \/ l = NoOperand -> <<>>
          [] m # "XLAT" /\ l # NoOperand /\ (r = NoOperand \/ m \in Singles) -> <<Intended(l, w)>>
          [] OTHER -> <<Intended(l, w), Intended(r, w)>>

SameMnemonic(m, d) == m = d \/ (m \in DOMAIN Types /\ d \in DOMAIN Types /\ Types[m] = Types[d] /\
                                \E kind \in {JumpOps, Shifts, Prefixes, {"WAIT", "FWAIT"}} : {m, d} \subseteq kind)
Reads(d, m, ops) ==
    /\ SameMnemonic(m, d.mnu) /\ Len(ops) = Len(d.ops)
    /\ \/ \A i \in DOMAIN ops :
            LET got == Effective(d.ops[i])
            IN  got = ops[i] \/ (m = "ESC" /\ got.k = "reg" /\ ops[i].k = "reg" /\ got.n = ops[i].n)
       \/ m \in {"TEST", "XCHG"} /\ Len(ops) = 2 /\ Effective(d.ops[1]) = ops[2] /\ Effective(d.ops[2]) = ops[1]

(* The size of what is done must show.                                     *)
ShowsSize(d, m, l, r) ==
    m \in Arith \cup Shifts \cup Group \cup {"INC", "DEC", "MOV", "TEST"} =>
        \E i \in DOMAIN d.ops : /\ d.ops[i].k = "seg" \/ d.ops[i].w = (IF l.vt = CLABEL THEN r.vt ELSE l.vt)
                                /\ ~(m \in Shifts /\ i = 2)

(* What the assembler takes without a message although no instruction says *)
(* it: a byte where CALL, JMP, LEA, LES or LDS works on words, ESC past    *)
(* 63; and LOOPZ or LOOPNZ to a far label, for which no one inverse jump   *)
(* stands.                                                                 *)
Sensible(m, l, r) ==
    /\ m \in {"CALL", "JMP", "LEA", "LES", "LDS"} => ~(l.vt = CCHAR /\ l.vis \in {"reg", "var"})
    /\ m = "LEA" => r.vis = "var"
    /\ m = "ESC" => l.val <= 63
    /\ m \in {"LOOPNZ", "LOOPNE", "LOOPZ", "LOOPE"} => Fitting(l.off)
Inverse(m) == CHOOSE x \in {JCOND_MNU[i] : i \in 1..16} : Types[x] = Xor1(Types[m])
NearLabel(m, l) == IsLabel(l) /\ (m \in JumpOps \/ (m \in {"CALL", "JMP"} /\ Direct(l)))
SaysSo(pre, m, l, r, list) ==
    LET d == list[1]
    IN    /\ IF pre = "" THEN d.pre = <<>> ELSE Len(d.pre) = 1 /\ SameMnemonic(pre, d.pre[1])
          /\ CASE NearLabel(m, l) /\ m \in JumpOps /\ ~Fitting(l.off) ->
                    /\ Len(list) = 2 /\ Reads(d, Inverse(m), <<ADD_ADDR(3)>>) /\ Reads(list[2], "JMP", <<ADD_ADDR(l.off % 65536)>>)
               [] NearLabel(m, l) /\ (m \notin JumpOps \/ Fitting(l.off)) ->
                    /\ Len(list) = 1 /\ SameMnemonic(m, d.mnu) /\ Len(d.ops) = 1 /\ d.ops[1].k = "to" /\ d.ops[1].n % 65536 = l.off % 65536
               [] ~NearLabel(m, l) /\ m = "XCHG" /\ l = r /\ IsReg(l, CINT, 0) -> Len(list) = 1 /\ d.mnu = "NOP"
               [] OTHER -> Len(list) = 1 /\ Reads(d, m, IntendedOps(m, l, r)) /\ ShowsSize(d, m, l, r)
CodeReads(pre, m, l, r, code) ==
    (Sensible(m, l, r) /\ code # Refused) =>
        SaysSo(pre, m, l, r, Listed((IF pre = "" THEN <<>> ELSE <<Types[pre]>>) \o code, 1))
ReadsBack(pre, m, l, r) == CodeReads(pre, m, l, r, doinst(m, l, r))
====
