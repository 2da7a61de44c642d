---------------------------------- MODULE Tty ----------------------------------
(***************************************************************************)
(* The console's input (DMR/TTY.C, KL.C, KBD.C): characters come at        *)
(* interrupt time into the raw queue, a 0377 after each line; a reader     *)
(* waits for one, edits the line in canonb and takes it from the canonical *)
(* queue.  The queues are made of blocks from one list.  Output is the     *)
(* built one: echo goes out before ttyinput returns.                       *)
(***************************************************************************)
EXTENDS Integers, Sequences, SequencesExt, FiniteSets, FiniteSetsExt

CONSTANTS
    Reader, None,
    NCLIST, BLOCK,      \* blocks, and characters in one
    CANBSIZ, TTYHOG,
    Letter, Key, RawKey,    \* letters; bound: what is typed, and in raw mode
    Want,               \* sizes of reads
    MaxTyped            \* bound: keys typed

Delim == "0377"
Special == {"erase", "kill", "eot"}
TtyAssumption ==
    /\ None \notin Reader /\ NCLIST \in Nat /\ MaxTyped \in Nat
    /\ BLOCK \in Nat \ {0} /\ CANBSIZ \in Nat \ {0}
    /\ TTYHOG \in 1..507     \* t_delct is one byte, and a line has two characters
    /\ Letter \cap (Special \cup {Delim, "nl", "esc", "intr", "cr"}) = {}
    /\ Key \subseteq Letter \cup Special \cup {"nl", "esc", "intr"} /\ RawKey \subseteq Key
    /\ Want \subseteq Nat \ {0}

VARIABLES
    rawq, canq,     \* [q, off]: characters, and how far into its block the first is
    delct, raw,     \* t_delct; RAW is set
    canonb,         \* the line being edited
    pc,             \* of each reader
    cpu,            \* the reader in the kernel
    fault,          \* a putc found no block
    typed, got,     \* history: put in rawq, and delivered, since the last flush
    torn,           \* history: a flush came in the middle of canon
    keys            \* keys typed

vars == <<rawq, canq, delct, raw, canonb, pc, cpu, fault, typed, got, torn, keys>>

Empty == [q |-> <<>>, off |-> 0]
User  == [at |-> "user", want |-> 0]
Init ==
    /\ rawq = Empty /\ canq = Empty /\ delct = 0 /\ raw = FALSE /\ canonb = <<>>
    /\ pc = [r \in Reader |-> User] /\ cpu = None
    /\ fault = FALSE /\ typed = <<>> /\ got = <<>> /\ torn = FALSE /\ keys = 0

----
(* getc and putc.                                                          *)
Rest(l)    == IF Len(l.q) = 1 THEN Empty ELSE [q |-> Tail(l.q), off |-> (l.off + 1) % BLOCK]
Put(l, c)  == [l EXCEPT !.q = Append(@, c)]
Blocks(l)  == IF l.q = <<>> THEN 0 ELSE (l.off + Len(l.q) + BLOCK - 1) \div BLOCK
Fits(a, b, c) == Blocks(a) + Blocks(b) + Blocks(c) <= NCLIST

Awake(p) == [r \in Reader |-> IF p[r].at = "asleep" THEN [p[r] EXCEPT !.at = "canon"] ELSE p[r]]

(* A slip: the count is forgotten.                                         *)
FlushKeepsCount(p) ==
    /\ rawq' = Empty /\ canq' = Empty /\ UNCHANGED delct
    /\ pc' = Awake(p)
    /\ typed' = <<>> /\ got' = <<>>
    /\ torn' = (torn \/ (cpu # None /\ pc[cpu].at \in {"scan", "popped", "deliver"}))
flushtty(p) ==
    /\ rawq' = Empty /\ canq' = Empty /\ delct' = 0
    /\ pc' = Awake(p)
    /\ typed' = <<>> /\ got' = <<>>
    /\ torn' = (torn \/ (cpu # None /\ pc[cpu].at \in {"scan", "popped", "deliver"}))

(* The echo takes one block of what is left, two for a newline if they are *)
(* small.                                                                  *)
Ends(c)   == raw \/ c \in {"nl", "eot"}
EchoOf(c) == [Empty EXCEPT !.q = IF c = "eot" /\ ~raw THEN <<>> ELSE IF c = "nl" THEN <<"cr", c>> ELSE <<c>>]

ttyinput(c) ==
    /\ keys < MaxTyped /\ keys' = keys + 1
    /\ IF (c = "intr" /\ ~raw) \/ Len(rawq.q) >= TTYHOG
       THEN flushtty(pc) /\ UNCHANGED fault
       ELSE LET one == Put(rawq, c)
                all == IF Ends(c) THEN Put(one, Delim) ELSE one
            IN  /\ rawq' = all
                /\ delct' = IF Ends(c) THEN (delct + 1) % 256 ELSE delct
                /\ pc' = IF Ends(c) THEN Awake(pc) ELSE pc
                /\ typed' = typed \o IF Ends(c) THEN <<c, Delim>> ELSE <<c>>
                /\ fault' = (fault \/ ~Fits(all, canq, EchoOf(c)))
                /\ UNCHANGED <<canq, got, torn>>
    /\ UNCHANGED <<raw, canonb, cpu>>

----
(* ttread: what canq has, or else canon, which sleeps or takes a line.     *)
Goto(r, l) == pc' = [pc EXCEPT ![r].at = l]

Read(r, n) ==
    /\ cpu = None /\ pc[r].at = "user"
    /\ cpu' = r
    /\ pc' = [pc EXCEPT ![r] = [at |-> IF canq.q # <<>> THEN "out" ELSE "canon", want |-> n]]
    /\ UNCHANGED <<rawq, canq, delct, raw, canonb, fault, typed, got, torn, keys>>

Canon(r) ==
    /\ cpu \in {r, None} /\ pc[r].at = "canon"
    /\ IF delct = 0
       THEN Goto(r, "asleep") /\ cpu' = None /\ UNCHANGED canonb
       ELSE Goto(r, "scan") /\ cpu' = r /\ canonb' = <<>>
    /\ UNCHANGED <<rawq, canq, delct, raw, fault, typed, got, torn, keys>>

(* One character against the line so far: a special one acts unless a "\"  *)
(* is before it, which it then replaces.                                   *)
ActsAlways(l, c) == ~raw /\ c \in Special    \* a slip: "\" quotes nothing
Acts(l, c) == ~raw /\ c \in Special /\ (l # <<>> => Last(l) # "esc")
Edited(l, c) ==
    CASE raw \/ c \notin Special         -> Append(l, c)
      [] ~Acts(l, c)                     -> Append(Front(l), c)
      [] c = "kill"                      -> <<>>
      [] c = "erase" /\ l # <<>>         -> Front(l)
      [] OTHER                           -> l

Scan(r) ==
    /\ cpu = r /\ pc[r].at = "scan"
    /\ IF rawq.q = <<>>
       THEN Goto(r, "deliver") /\ UNCHANGED <<rawq, canonb>>
       ELSE LET c == Head(rawq.q)
                l == Edited(canonb, c)
            IN  /\ rawq' = Rest(rawq)
                /\ IF c = Delim
                   THEN Goto(r, "popped") /\ UNCHANGED canonb
                   ELSE /\ canonb' = l
                        /\ IF Len(l) > Len(canonb) /\ Len(l) + 2 >= CANBSIZ THEN Goto(r, "deliver") ELSE UNCHANGED pc
    /\ UNCHANGED <<canq, delct, raw, cpu, fault, typed, got, torn, keys>>

(* t_delct--, an instruction after getc: an interrupt may come between.    *)
Popped(r) ==
    /\ cpu = r /\ pc[r].at = "popped"
    /\ delct' = (delct - 1) % 256
    /\ Goto(r, "deliver")
    /\ UNCHANGED <<rawq, canq, raw, canonb, cpu, fault, typed, got, torn, keys>>

Deliver(r) ==
    /\ cpu = r /\ pc[r].at = "deliver"
    /\ IF canonb = <<>>
       THEN Goto(r, "out") /\ UNCHANGED <<canq, canonb, fault>>
       ELSE /\ canq' = Put(canq, Head(canonb))
            /\ canonb' = Tail(canonb)
            /\ fault' = (fault \/ ~Fits(rawq, canq', Empty))
            /\ UNCHANGED pc
    /\ UNCHANGED <<rawq, delct, raw, cpu, typed, got, torn, keys>>

Out(r) ==
    /\ cpu = r /\ pc[r].at = "out"
    /\ IF canq.q = <<>> \/ pc[r].want = 0
       THEN pc' = [pc EXCEPT ![r] = User] /\ cpu' = None /\ UNCHANGED <<canq, got>>
       ELSE /\ pc' = [pc EXCEPT ![r].want = @ - 1]
            /\ got' = Append(got, Head(canq.q))
            /\ canq' = Rest(canq)
            /\ UNCHANGED cpu
    /\ UNCHANGED <<rawq, delct, raw, canonb, fault, typed, torn, keys>>

(* stty: the queues are flushed; then the mode may change, and in between  *)
(* an interrupt may come.                                                  *)
wflushtty(r) ==
    /\ cpu = None /\ pc[r].at = "user"
    /\ flushtty([pc EXCEPT ![r].at = "mode"]) /\ cpu' = r
    /\ UNCHANGED <<raw, canonb, fault, keys>>
ttystty(r) ==
    /\ cpu = r /\ pc[r].at = "mode"
    /\ raw' \in BOOLEAN
    /\ Goto(r, "user") /\ cpu' = None
    /\ UNCHANGED <<rawq, canq, delct, canonb, fault, typed, got, torn, keys>>

Next ==
    \/ \E c \in IF raw THEN RawKey ELSE Key : ttyinput(c)
    \/ \E r \in Reader : \/ \E n \in Want : Read(r, n)
                         \/ Canon(r) \/ Scan(r) \/ Popped(r) \/ Deliver(r) \/ Out(r)
                         \/ wflushtty(r) \/ ttystty(r)
Spec == Init /\ [][Next]_vars

----
(* What is left of a line, by counting.  A "\" before an erase, a kill or  *)
(* an end of file is dropped and that is a character as any other; else    *)
(* all stays that comes after the last kill, except erases and what they   *)
(* match.                                                                  *)
Places(t, I)   == SelectSeq([i \in DOMAIN t |-> i], LAMBDA i : i \in I)
At(t, I)       == [k \in DOMAIN Places(t, I) |-> t[Places(t, I)[k]]]
Count(t, c, I) == Cardinality({i \in I : t[i] = c})
Quoted(t) == {i \in 2..Len(t) : t[i] \in Special /\ t[i-1] = "esc"}
Own(t)    == {i \in 1..Len(t) : (t[i] \in Special => i \in Quoted(t)) /\ i + 1 \notin Quoted(t)}
Kept(t) ==
    LET acts(c) == {i \in 1..Len(t) : t[i] = c} \ Quoted(t)
        after == Max({0} \cup acts("kill"))
        left == {i \in Own(t) : i > after /\ \A j \in i+1..Len(t) :
                    Cardinality(acts("erase") \cap (i+1..j)) <= Cardinality(Own(t) \cap (i+1..j))}
    IN  At(t, left)

(* The lines typed, and how many of them are still in rawq.                *)
Lines ==
    LET e == <<0>> \o Places(typed, {i \in DOMAIN typed : typed[i] = Delim})
    IN  [j \in 1..Len(e)-1 |-> SubSeq(typed, e[j] + 1, e[j + 1] - 1)]
Waiting == Count(rawq.q, Delim, DOMAIN rawq.q)
(* A line that canonb holds, and where no erase leaves a "\" as the last   *)
(* character, which would quote the next.                                  *)
Plain(t) ==
    IF raw THEN Len(t) + 2 < CANBSIZ
    ELSE /\ Cardinality(Own(t)) + 2 < CANBSIZ
         /\ \A i \in 1..Len(t) : t[i] = "erase" /\ i \notin Quoted(t) =>
               LET l == Kept(SubSeq(t, 1, i)) IN l = <<>> \/ Last(l) # "esc"

(* Whatever is typed while whoever reads, the count the readers wait on is *)
(* the number of lines in the raw queue, and no reader sleeps while there  *)
(* is one.  (After a flush in the middle of canon the count may be one     *)
(* less than nothing: see the README.)                                     *)
PoppedOne == cpu # None /\ pc[cpu].at = "popped"
Attended ==
    /\ \A r \in Reader : pc[r].at = "asleep" => delct = 0
    /\ ~torn => delct = Waiting + (IF PoppedOne THEN 1 ELSE 0)

(* No character ever finds the block list empty, and what was read is what *)
(* was typed, line by line, as edited.                                     *)
Whole ==
    /\ ~fault
    /\ ~torn /\ (cpu = None \/ pc[cpu].at \in {"canon", "out", "mode"}) =>
        LET ls == Lines
            n  == Len(ls) - Waiting
            all[j \in 0..n] == IF j = 0 THEN <<>> ELSE all[j-1] \o (IF raw THEN ls[j] ELSE Kept(ls[j]))
        IN  (\A j \in DOMAIN ls : j <= n + 1 => Plain(ls[j])) => got \o canq.q = all[n]
====
