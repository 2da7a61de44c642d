-------------------------------- MODULE AsmInst --------------------------------
(***************************************************************************)
(* The assembler's instructions (BUILD/ASM/ASM2.C, and ASM3.C for those of *)
(* the 8087, to the end): from a mnemonic and its operands to the bytes.   *)
(* An operand is what one() leaves: a constant, an OFFSET, a register, a   *)
(* segment register, a stack element, or a variable named or based (val is *)
(* the r/m, 8 for none) with a segment or -1; vt is its type.  NoOperand   *)
(* is one left out; no code is an instruction refused with a message.      *)
(***************************************************************************)
EXTENDS Integers, Sequences, TLC

CCHAR == 1
CINT == 2
CLABEL == 7

Constant(n)   == [vis |-> "const", val |-> n, name |-> 0, off |-> 0, vt |-> CINT, seg |-> -1]
Register(t, r) == [vis |-> "reg", val |-> r, name |-> 0, off |-> 0, vt |-> t, seg |-> -1]
Segment(s)    == [vis |-> "segr", val |-> s, name |-> 0, off |-> 0, vt |-> CINT, seg |-> -1]
Based(t, rm, n, s) == [vis |-> "var", val |-> rm, name |-> 0, off |-> n, vt |-> t, seg |-> s]
Named(t, n, s) == [vis |-> "var", val |-> 8, name |-> 1, off |-> n, vt |-> t, seg |-> s]
Offset(o)     == [o EXCEPT !.vis = "off", !.vt = CINT]
NoOperand     == [vis |-> "ill", val |-> 0, name |-> 0, off |-> 0, vt |-> 0, seg |-> -1]

CS == 1
SS == 2
DS == 3
IsReg(o, t, r) == o.vis = "reg" /\ o.val = r /\ o.vt = t
Accumulator(o) == o.vis = "reg" /\ o.val = 0
Literal(o)     == o.vis \in {"const", "off"}
Direct(o)      == o.vis = "var" /\ o.val = 8
IsLabel(o)     == o.vis = "var" /\ o.vt = CLABEL

Types == [
    ADD |-> 0, OR |-> 1, ADC |-> 2, SBB |-> 3, AND |-> 4, SUB |-> 5, XOR |-> 6, CMP |-> 7,
    PUSH |-> 0, POP |-> 1, INC |-> 0, DEC |-> 1,
    JO |-> 0, JNO |-> 1, JB |-> 2, JC |-> 2, JNAE |-> 2, JAE |-> 3, JNB |-> 3, JNC |-> 3, JE |-> 4, JZ |-> 4,
    JNE |-> 5, JNZ |-> 5, JBE |-> 6, JNA |-> 6, JA |-> 7, JNBE |-> 7, JS |-> 8, JNS |-> 9, JP |-> 10, JPE |-> 10,
    JNP |-> 11, JPO |-> 11, JL |-> 12, JNGE |-> 12, JGE |-> 13, JNL |-> 13, JLE |-> 14, JNG |-> 14, JG |-> 15, JNLE |-> 15,
    LOOPNE |-> 16, LOOPNZ |-> 16, LOOPE |-> 17, LOOPZ |-> 17, LOOP |-> 18, JCXZ |-> 19,
    RET |-> 0, LRET |-> 1, LDS |-> \hC5, LES |-> \hC4,
    ROL |-> 0, ROR |-> 1, RCL |-> 2, RCR |-> 3, SAL |-> 4, SHL |-> 4, SHR |-> 5, SAR |-> 7,
    AAM |-> 0, AAD |-> 1, NOT |-> 2, NEG |-> 3, MUL |-> 4, IMUL |-> 5, DIV |-> 6, IDIV |-> 7, LCALL |-> 3, LJMP |-> 5,
    AAA |-> \h37, AAS |-> \h3F, CBW |-> \h98, CLC |-> \hF8, CLD |-> \hFC, CLI |-> \hFA, CMC |-> \hF5, CMPSB |-> \hA6,
    CMPSW |-> \hA7, CWD |-> \h99, DAA |-> \h27, DAS |-> \h2F, FWAIT |-> \h9B, HLT |-> \hF4, INTO |-> \hCE, IRET |-> \hCF,
    LAHF |-> \h9F, LODSB |-> \hAC, LODSW |-> \hAD, MOVSB |-> \hA4, MOVSW |-> \hA5, NOP |-> \h90, POPF |-> \h9D,
    PUSHF |-> \h9C, SAHF |-> \h9E, SCASB |-> \hAE, SCASW |-> \hAF, STC |-> \hF9, STD |-> \hFD, STI |-> \hFB,
    STOSB |-> \hAA, STOSW |-> \hAB, WAIT |-> \h9B,
    LOCK |-> \hF0, REP |-> \hF3, REPZ |-> \hF3, REPE |-> \hF3, REPNZ |-> \hF2, REPNE |-> \hF2]

Arith  == {"ADD", "OR", "ADC", "SBB", "AND", "SUB", "XOR", "CMP"}
Shifts == {"ROL", "ROR", "RCL", "RCR", "SAL", "SHL", "SHR", "SAR"}
Group  == {"NOT", "NEG", "MUL", "IMUL", "DIV", "IDIV"}
JumpOps == {"JO", "JNO", "JB", "JC", "JNAE", "JAE", "JNB", "JNC", "JE", "JZ", "JNE", "JNZ", "JBE", "JNA", "JA", "JNBE", "JS", "JNS",
            "JP", "JPE", "JNP", "JPO", "JL", "JNGE", "JGE", "JNL", "JLE", "JNG", "JG", "JNLE",
            "LOOPNE", "LOOPNZ", "LOOPE", "LOOPZ", "LOOP", "JCXZ"}
Prefixes == {"LOCK", "REP", "REPZ", "REPE", "REPNZ", "REPNE"}
Pairs   == Arith \cup Shifts \cup {"TEST", "XCHG", "MOV", "LES", "LDS", "ESC", "IN", "OUT", "LEA"}
Singles == Group \cup JumpOps \cup {"PUSH", "POP", "INC", "DEC", "CALL", "JMP", "INT", "XLAT", "LCALL", "LJMP"}
Alone   == DOMAIN Types \ (Pairs \cup Singles \cup Prefixes)

----
Refused    == <<>>
codeb(x)   == <<x % 256>>
codew(x)   == <<x % 256, (x \div 256) % 256>>
Fitting(n) == -128 <= n /\ n <= 127

oconst(o) ==
    IF o.vt = CCHAR /\ o.vis # "off" THEN (IF o.vis = "const" THEN codeb(o.val) ELSE Refused)
    ELSE CASE o.vis = "const" -> codew(o.val)
           [] o.vis = "off" -> IF o.val = 8 /\ o.name # 0 THEN codew(o.off) ELSE Refused
           [] OTHER -> Refused

(* The prefix goes before the opcode already in the pipe.                  *)
OverAny(o)  == IF o.vis # "var" \/ o.seg < 0 \/ o.seg = DS THEN <<>> ELSE <<\h26 + 8 * o.seg>>
whatseg(o) ==
    IF o.vis # "var" \/ o.seg < 0 \/ o.seg = (IF o.val \in {2, 3, 6} THEN SS ELSE DS) THEN <<>> ELSE <<\h26 + 8 * o.seg>>

Mod(o) == IF o.name # 0 \/ ~Fitting(o.off) THEN 128 ELSE IF o.val = 6 \/ o.off # 0 THEN 64 ELSE 0
orm(reg, o) ==
    IF o.vis = "reg" THEN <<192 + 8 * reg + o.val>>
    ELSE IF o.val = 8 THEN <<6 + 8 * reg>> \o codew(o.off)
    ELSE <<Mod(o) + 8 * reg + o.val>> \o (CASE Mod(o) = 0 -> <<>> [] Mod(o) = 64 -> codeb(o.off) [] Mod(o) = 128 -> codew(o.off))

Rm(op, reg, o) ==
    IF o.vis \in {"reg", "var"} /\ ~IsLabel(o) THEN whatseg(o) \o <<op>> \o orm(reg, o) ELSE Refused
With(a, b)     == IF a = Refused \/ b = Refused THEN Refused ELSE a \o b

(* Operands of one type: SEG and foreign names are left out.               *)
twosame(l, r) ==
    CASE l.vt = r.vt       -> <<l, r>>
      [] r.vis = "const"   -> <<l, [r EXCEPT !.vt = l.vt]>>
      [] l.vt = CLABEL     -> <<[l EXCEPT !.vt = r.vt], r>>
      [] r.vt = CLABEL     -> <<l, [r EXCEPT !.vt = l.vt]>>
      [] OTHER             -> Refused

----
addtype(type, l, r) ==
    CASE Literal(r) /\ Accumulator(l) -> With(<<3 + l.vt + 8 * type>>, oconst(r))
      [] Literal(r) /\ ~Accumulator(l) ->
            IF l.vt = CINT /\ r.vis = "const" /\ Fitting(r.val)
            THEN With(Rm(129 + l.vt, type, l), codeb(r.val))
            ELSE With(Rm(127 + l.vt, type, l), oconst(r))
      [] ~Literal(r) /\ l.vis = "reg"                   -> Rm(8 * type + r.vt + 1, l.val, r)
      [] ~Literal(r) /\ l.vis # "reg" /\ r.vis = "reg"  -> Rm(8 * type + l.vt - CCHAR, r.val, l)
      [] OTHER -> Refused

pushtype(type, o) ==
    CASE o.vis = "reg"  -> IF o.vt = CCHAR THEN Refused ELSE <<\h50 + o.val + 8 * type>>
      [] o.vis = "segr" -> IF type = 1 /\ o.val = CS THEN Refused ELSE <<6 + type + 8 * o.val>>
      [] o.vis = "var"  -> IF type = 1 THEN Rm(\h8F, 0, [o EXCEPT !.vt = CINT]) ELSE Rm(\hFF, 6, [o EXCEPT !.vt = CINT])
      [] OTHER          -> Refused

inctype(type, o) ==
    IF Literal(o) THEN Refused
    ELSE IF o.vis = "reg" /\ o.vt = CINT THEN <<\h40 + o.val + 8 * type>> ELSE Rm(\hFD + o.vt, type, o)

testtype(l, r) ==
    CASE r.vis = "const" ->
            IF Accumulator(l) THEN (IF l.vt = CCHAR THEN <<\hA8>> \o codeb(r.val) ELSE <<\hA9>> \o codew(r.val))
            ELSE With(Rm(\hF5 + l.vt, 0, l), oconst(r))
      [] r.vis # "const" /\ l.vis = "reg"                  -> Rm(\h83 + l.vt, l.val, r)
      [] r.vis # "const" /\ l.vis # "reg" /\ r.vis = "reg" -> Rm(\h83 + r.vt, r.val, l)
      [] OTHER -> Refused

xchgtype(l, r) ==
    CASE l.vis = "reg" ->
            IF r.vis = "reg" /\ l.val = 0 /\ l.vt = CINT THEN <<\h90 + r.val>> ELSE Rm(\h85 + l.vt, l.val, r)
      [] l.vis # "reg" /\ r.vis = "reg" -> Rm(\h85 + r.vt, r.val, l)
      [] OTHER -> Refused

movtype(l, r) ==
    CASE l.vis = "segr" -> Rm(\h8E, l.val, r)
      [] l.vis # "segr" /\ r.vis = "segr" -> Rm(\h8C, r.val, l)
      [] l.vis # "segr" /\ Literal(r) ->
            IF l.vis = "reg" THEN With(<<\hB0 + 8 * (l.vt - 1) + l.val>>, oconst(r)) ELSE With(Rm(\hC5 + l.vt, 0, l), oconst(r))
      [] l.vis = "reg" /\ r.vis \in {"reg", "var"} ->
            IF l.val = 0 /\ Direct(r) THEN whatseg(r) \o <<\hA0 + l.vt - 1>> \o codew(r.off) ELSE Rm(\h89 + l.vt, l.val, r)
      [] l.vis \notin {"reg", "segr"} /\ r.vis = "reg" ->
            IF r.val = 0 /\ Direct(l) THEN whatseg(l) \o <<\hA2 + r.vt - 1>> \o codew(l.off) ELSE Rm(\h87 + r.vt, r.val, l)
      [] OTHER -> Refused

lestype(op, l, r) == IF l.vis = "reg" /\ r.vis = "var" THEN Rm(op, l.val, [r EXCEPT !.vt = CINT]) ELSE Refused
leatype(l, r)     == IF l.vis = "reg" THEN Rm(\h8D, l.val, IF r.vt = CLABEL THEN [r EXCEPT !.vt = CINT] ELSE r) ELSE Refused

InByte(o)  == o.vis = "const" /\ o.val \in 0..255
inttype(o) == IF ~InByte(o) THEN Refused ELSE IF o.val = 3 THEN <<\hCC>> ELSE <<\hCD, o.val>>

rortype(type, l, r) ==
    CASE r.vis = "const" /\ r.val = 1 -> Rm(\hCF + l.vt, type, l)
      [] IsReg(r, CCHAR, 1)           -> Rm(\hD1 + l.vt, type, l)
      [] OTHER                        -> Refused

esctype(l, r) == IF InByte(l) THEN Rm(\hD8 + l.val \div 8, l.val % 8, r) ELSE Refused

(* IN with op E4, OUT with op E6: the accumulator and a port.              *)
InOut(op, acc, port) ==
    CASE Accumulator(acc) /\ IsReg(port, CINT, 2) -> <<op + 8 + acc.vt - 1>>
      [] Accumulator(acc) /\ InByte(port)         -> <<op + acc.vt - 1, port.val>>
      [] OTHER                                    -> Refused

nottype(type, o)  == IF type \in {2, 3} /\ Literal(o) THEN Refused ELSE Rm(\hF5 + o.vt, type, o)
longtype(type, o) == IF o.vis # "var" THEN Refused ELSE Rm(\hFF, type, IF o.vt = CLABEL THEN [o EXCEPT !.vt = CINT] ELSE o)
rettype(type, o)  == IF o = NoOperand THEN <<IF type = 1 THEN \hCB ELSE \hC3>>
                     ELSE IF o.vis = "const" THEN <<IF type = 1 THEN \hCA ELSE \hC2>> \o codew(o.val) ELSE Refused

(* A jump in the pipe, as flush passes it on to a label `to` bytes away.   *)
Xor1(n) == IF n % 2 = 0 THEN n + 1 ELSE n - 1
shortj  == [n \in 0..20 |-> IF n < 16 THEN \h70 + n ELSE IF n < 20 THEN \hE0 + n - 16 ELSE \hEB]
jump(type, to) ==
    IF type # 21 /\ Fitting(to) THEN <<shortj[type]>> \o codeb(to)
    ELSE IF type \in {18, 19} THEN Refused
    ELSE (IF type < 20 THEN <<shortj[IF type < 18 THEN Xor1(type) ELSE type], 3>> ELSE <<>>)
         \o <<IF type <= 20 THEN \hE9 ELSE \hE8>> \o codew(to)

jotype(type, o)   == IF IsLabel(o) THEN jump(type, o.off) ELSE Refused
Going(type, reg, o) == IF Direct(o) /\ o.vt = CLABEL THEN jump(type, o.off) ELSE Rm(\hFF, reg, o)
calltype(o)       == Going(21, 2, o)
jmptype(o)        == Going(20, 4, o)

doinst(m, l, r) ==
    LET same == twosame(l, r)
        Two(F(_, _)) == IF same = Refused THEN Refused ELSE F(same[1], same[2])
    IN  CASE m \in Arith -> Two(LAMBDA a, b : addtype(Types[m], a, b))
          [] m = "TEST"  -> Two(testtype)
          [] m = "XCHG"  -> Two(xchgtype)
          [] m = "MOV"   -> Two(movtype)
          [] m \in {"PUSH", "POP"} -> pushtype(Types[m], l)
          [] m \in {"INC", "DEC"}  -> inctype(Types[m], l)
          [] m \in JumpOps         -> jotype(Types[m], l)
          [] m = "CALL"            -> calltype(l)
          [] m = "JMP"             -> jmptype(l)
          [] m \in {"RET", "LRET"} -> rettype(Types[m], l)
          [] m \in {"LES", "LDS"}  -> lestype(Types[m], l, r)
          [] m = "INT"             -> inttype(l)
          [] m \in Shifts          -> rortype(Types[m], l, r)
          [] m = "AAM"             -> <<\hD4, 10>>
          [] m = "AAD"             -> <<\hD5, 10>>
          [] m = "ESC"             -> esctype(l, r)
          [] m = "IN"              -> InOut(\hE4, l, r)
          [] m = "OUT"             -> InOut(\hE6, r, l)
          [] m \in Group           -> nottype(Types[m], l)
          [] m = "LEA"             -> leatype(l, r)
          [] m = "XLAT"            -> <<\hD7>>
          [] m \in {"LCALL", "LJMP"} -> longtype(Types[m], l)
          [] OTHER                 -> <<Types[m]>>

----
(* The 8087's instructions, the tables as they stand.                      *)
CLONG == 3
CQWORD == 4
CTBYTE == 5
ST(i) == [NoOperand EXCEPT !.vis = "st", !.val = i]

Entry(t, m, names) == t[CHOOSE i \in DOMAIN names : names[i] = m]

float0n == <<"F2XM1", "FABS", "FCHS", "FCLEX", "FCOMPP", "FDECSTP", "FDISI", "FENI", "FINCSTP", "FINIT", "FLDLG2", "FLDLN2", "FLDL2E",
             "FLDL2T", "FLDPI", "FLDZ", "FLD1", "FNOP", "FPATAN", "FPREM", "FPTAN", "FRNDINT", "FSCALE", "FSQRT", "FTST", "FXAM",
             "FXTRACT", "FYL2X", "FYL2XP1">>
float0i == <<\hd9f0, \hd9e1, \hd9e0, \hdbe2, \hded9, \hd9f6, \hdbe1, \hdbe0, \hd9f7, \hdbe3, \hd9ec, \hd9ed, \hd9ea,
             \hd9e9, \hd9eb, \hd9ee, \hd9e8, \hd9d0, \hd9f3, \hd9f8, \hd9f2, \hd9fc, \hd9fd, \hd9fa, \hd9e4, \hd9e5, \hd9f4, \hd9f1, \hd9f9>>
float1n == <<"FNCLEX", "FNDISI", "FNENI", "FNINIT">>
float1i == <<\hdbe2, \hdbe1, \hdbe0, \hdbe3>>
float2n == <<"FLD", "FST", "FSTP">>
float2st == <<\hd9c0, \hddd0, \hddd8>>
float2mem == <<<<\hd900, \hdd00, \hdb05>>, <<\hd902, \hdd02, \hdd02>>, <<\hd903, \hdd03, \hdb07>>>>
float3n == <<"FFREE", "FXCH">>
float3i == <<\hddc0, \hd9c8>>
float4n == <<"FADDP", "FDIVP", "FDIVRP", "FMULP", "FSUBP", "FSUBRP">>
float4i == <<\hdec0, \hdef8, \hdef0, \hdec8, \hdee8, \hdee0>>
float5n == <<"FADD", "FDIV", "FDIVR", "FMUL", "FSUB", "FSUBR">>
Float5Alike == <<<<\hd8c0, \hdcc0, \hdec1, \hd800, \hdc00>>, <<\hd8f0, \hdcf0, \hdef9, \hd806, \hdc06>>,
                 <<\hd8f8, \hdcf8, \hdef1, \hd807, \hdc07>>, <<\hd8c8, \hdcc8, \hdec9, \hd801, \hdc01>>,
                 <<\hd8e0, \hdce0, \hdee9, \hd804, \hdc04>>, <<\hd8e8, \hdce8, \hdee0, \hd805, \hdc05>>>>
float5i == <<<<\hd8c0, \hdcc0, \hdec1, \hd800, \hdc00>>, <<\hd8f0, \hdcf8, \hdef9, \hd806, \hdc06>>,
             <<\hd8f8, \hdcf0, \hdef1, \hd807, \hdc07>>, <<\hd8c8, \hdcc8, \hdec9, \hd801, \hdc01>>,
             <<\hd8e0, \hdce8, \hdee9, \hd804, \hdc04>>, <<\hd8e8, \hdce0, \hdee0, \hd805, \hdc05>>>>
float6n == <<"FBLD", "FBSTP", "FLDCW", "FLDENV", "FRSTOR", "FSAVE", "FSTCW", "FSTENV", "FSTSW">>
float6i == <<\hdf04, \hdf06, \hd905, \hd904, \hdd04, \hdd06, \hd907, \hd906, \hdd07>>
float7n == <<"FNSAVE", "FNSTCW", "FNSTENV", "FNSTSW">>
float7i == <<\hdd06, \hd907, \hd906, \hdd07>>
float8n == <<"FIADD", "FICOM", "FICOMP", "FIDIV", "FIDIVR", "FIMUL", "FISUB", "FISUBR">>
float8i == <<0, 2, 3, 6, 7, 1, 4, 5>>
float9n == <<"FILD", "FIST", "FISTP">>
float9i == <<<<\hdb00, \hdf00, \hdf05>>, <<\hdb02, \hdf02, \hdf06>>, <<\hdb03, \hdf03, \hdf07>>>>
float10n == <<"FCOM", "FCOMP">>
float10i == <<<<\hd8d1, \hd8d0, \hd802, \hdc02>>, <<\hd8d9, \hd8d8, \hd803, \hdc03>>>>

(* Which table a mnemonic is in, and its row.                              *)
Tables == <<float0n, float1n, float2n, float3n, float4n, float5n, float6n, float7n, float8n, float9n, float10n>>
FloatOps == UNION {{Tables[k][i] : i \in DOMAIN Tables[k]} : k \in DOMAIN Tables}
ClassOf(m) == (CHOOSE k \in DOMAIN Tables : \E i \in DOMAIN Tables[k] : Tables[k][i] = m) - 1

----
wait        == <<\h9b>>
revcodew(x) == <<x \div 256, x % 256>>
ofrm(x, o)  == Rm(x \div 256, x % 256, o)
Memory(o)   == o.vis = "var"
None(o)     == o = NoOperand
OfSize(o, default, sizes) == IF o.vt \in DOMAIN sizes THEN sizes[o.vt] ELSE default

float2(m, l, r) ==
    CASE None(r) /\ l.vis = "st" -> wait \o revcodew(Entry(float2st, m, float2n) + l.val)
      [] None(r) /\ Memory(l)    -> With(wait, ofrm(Entry(float2mem, m, float2n)[OfSize(l, 1, (CQWORD :> 2) @@ (CTBYTE :> 3))], l))
      [] OTHER                   -> Refused

float3(m, l, r) ==
    CASE None(l)                 -> wait \o revcodew(Entry(float3i, m, float3n) + Entry(<<0, 1>>, m, float3n))
      [] None(r) /\ l.vis = "st" -> wait \o revcodew(Entry(float3i, m, float3n) + l.val)
      [] OTHER                   -> Refused

float4(m, l, r) ==
    IF l.vis = "st" /\ r.vis = "st" /\ r.val = 0 THEN wait \o revcodew(Entry(float4i, m, float4n) + l.val) ELSE Refused

float5(m, l, r) ==
    LET row == Entry(float5i, m, float5n)
    IN  CASE l.vis = "st" /\ r.vis = "st" ->
                IF l.val = 0 THEN wait \o revcodew(row[1] + r.val)
                ELSE IF r.val = 0 THEN wait \o revcodew(row[2] + l.val) ELSE Refused
          [] None(l) /\ None(r)   -> wait \o revcodew(row[3])
          [] Memory(l) /\ None(r) -> With(wait, ofrm(row[OfSize(l, 4, CQWORD :> 5)], l))
          [] OTHER                -> Refused

float8(m, l, r) ==
    IF Memory(l) /\ None(r) THEN With(wait, ofrm(Entry(float8i, m, float8n) + OfSize(l, \hde00, CLONG :> \hda00), l)) ELSE Refused
float9(m, l, r) ==
    IF Memory(l) /\ None(r) THEN With(wait, ofrm(Entry(float9i, m, float9n)[OfSize(l, 2, (CLONG :> 1) @@ (CQWORD :> 3))], l)) ELSE Refused

float10(m, l, r) ==
    LET row == Entry(float10i, m, float10n)
    IN  CASE None(l)                 -> wait \o revcodew(row[1])
          [] None(r) /\ l.vis = "st" -> wait \o revcodew(row[2] + l.val)
          [] None(r) /\ Memory(l)    -> With(wait, ofrm(row[OfSize(l, 3, CQWORD :> 4)], l))
          [] OTHER                   -> Refused

dofinst(m, l, r) ==
    LET class == ClassOf(m)
    IN  CASE class = 0 -> IF None(l) THEN wait \o revcodew(Entry(float0i, m, float0n)) ELSE Refused
          [] class = 1 -> IF None(l) THEN revcodew(Entry(float1i, m, float1n)) ELSE Refused
          [] class = 2 -> float2(m, l, r)
          [] class = 3 -> float3(m, l, r)
          [] class = 4 -> float4(m, l, r)
          [] class = 5 -> float5(m, l, r)
          [] class = 6 -> IF Memory(l) /\ None(r) THEN With(wait, ofrm(Entry(float6i, m, float6n), l)) ELSE Refused
          [] class = 7 -> IF Memory(l) /\ None(r) THEN ofrm(Entry(float7i, m, float7n), l) ELSE Refused
          [] class = 8 -> float8(m, l, r)
          [] class = 9 -> float9(m, l, r)
          [] class = 10 -> float10(m, l, r)

----
(* The 8087's map: arithmetic by its number in the r/m byte's middle, D8   *)
(* and DC on reals, DA and DE on integers of four and two bytes, D8, DC    *)
(* and DE to the top of the stack, from it, and from it with a pop; there  *)
(* the two subtractions change places, and the two divisions.  Loads and   *)
(* stores by D9, DD, DB and DF.                                            *)
Numbered == <<"ADD", "MUL", "COM", "COMP", "SUB", "SUBR", "DIV", "DIVR">>
Arithmetic(i) == <<"F" \o Numbered[i], "FI" \o Numbered[i], "F" \o Numbered[i] \o "P">>
Paired(i) == IF i \in {5, 7} THEN i + 1 ELSE IF i \in {6, 8} THEN i - 1 ELSE i
Integral(o) == IF o.vt \in {CLONG, CQWORD} THEN o.vt ELSE CINT
Real(o)   == IF o.vt = CQWORD THEN CQWORD ELSE CLONG

Expected(m, l, r) ==
    LET Arithmetical(k) == \E i \in 1..8 : Arithmetic(i)[k] = m
        n(k)            == (CHOOSE i \in 1..8 : Arithmetic(i)[k] = m) - 1
        Back(k)         == Paired(n(k) + 1) - 1
        Reg(op, mid, i) == <<op, 192 + 8 * mid + i>>
        Mem(op, mid)    == Rm(op, mid, l)
        Store           == CASE m \in {"FLD", "FILD"} -> 0 [] m \in {"FST", "FIST"} -> 2 [] m \in {"FSTP", "FISTP"} -> 3 [] OTHER -> 0
        comparing       == m \in {"FCOM", "FCOMP"}
    IN  CASE Arithmetical(1) /\ Memory(l)  -> Mem(IF Real(l) = CQWORD THEN \hDC ELSE \hD8, n(1))
          [] Arithmetical(2) /\ Memory(l)  -> Mem(IF Integral(l) = CLONG THEN \hDA ELSE \hDE, n(2))
          [] m = "FCOMPP"                  -> Reg(\hDE, 3, 1)
          [] comparing /\ ~Memory(l)       -> Reg(\hD8, n(1), IF None(l) THEN 1 ELSE l.val)
          [] Arithmetical(1) /\ ~comparing /\ l.vis = "st" /\ l.val = 0 -> Reg(\hD8, n(1), r.val)
          [] Arithmetical(1) /\ ~comparing /\ l.vis = "st" /\ l.val > 0 -> Reg(\hDC, Back(1), l.val)
          [] Arithmetical(1) /\ ~comparing /\ None(l) -> Reg(\hDE, Back(1), 1)
          [] Arithmetical(3) /\ m \notin {"FCOMP", "FCOMPP"} -> Reg(\hDE, Back(3), l.val)
          [] m \in {"FLD", "FST", "FSTP"} /\ Memory(l) ->
                IF l.vt = CTBYTE THEN Mem(\hDB, IF m = "FLD" THEN 5 ELSE 7) ELSE Mem(IF Real(l) = CQWORD THEN \hDD ELSE \hD9, Store)
          [] m \in {"FLD", "FST", "FSTP"} /\ ~Memory(l) -> Reg(IF m = "FLD" THEN \hD9 ELSE \hDD, Store, l.val)
          [] m \in {"FILD", "FIST", "FISTP"} ->
                (CASE Integral(l) = CLONG -> Mem(\hDB, Store) [] Integral(l) = CINT -> Mem(\hDF, Store) [] Integral(l) = CQWORD -> Mem(\hDF, IF m = "FILD" THEN 5 ELSE 7))
          [] OTHER -> Refused

(* An arithmetic, load or store instruction is as the map has it.  FST of  *)
(* ten bytes and FIST of eight do not exist, and FSUBR alone, which gets   *)
(* the code that leaves its result in ST and pops it, is not counted here. *)
FollowsMap(m, l, r) ==
    LET code == dofinst(m, l, r)
        want == Expected(m, l, r)
    IN  (/\ code # Refused /\ want # Refused
         /\ ~(m = "FSUBR" /\ None(l)) /\ ~(m = "FST" /\ l.vt = CTBYTE) /\ ~(m = "FIST" /\ l.vt = CQWORD))
        => code = wait \o want

(* No two instructions have one code: but FIST of eight bytes, which does  *)
(* not exist, gets the code of FBSTP.                                      *)
Told(m, l, r, instructions) ==
    LET code == dofinst(m, l, r)
    IN  (code # Refused /\ ~(m = "FIST" /\ l.vt = CQWORD)) =>
            \A x \in instructions \ {m, "FIST"} : dofinst(x, l, r) # code
====
