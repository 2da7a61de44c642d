-------------------------------- MODULE AsmJumps --------------------------------
(***************************************************************************)
(* The assembler's pipe (BUILD/ASM/ASM5.C): what a segment's lines put in  *)
(* it, and flush, which makes a jump short where its label is near, gives  *)
(* the labels their places and passes on all but the end of the pipe,      *)
(* where a later label may still shorten a jump.                           *)
(*                                                                         *)
(* A conditional jump or a LOOP is 2 bytes, or 5 round a long jump; JMP is *)
(* 2 or 3, CALL 3.  REACH is 129 in the code, HOLD 256, KEEP 128, FULL 940.*)
(***************************************************************************)
EXTENDS Integers, Sequences
CONSTANTS Label, REACH, HOLD, KEEP, FULL, Sizes, MaxItems
JumpsAssumption ==
    REACH \in Nat /\ HOLD \in Nat /\ KEEP \in Nat /\ FULL \in Nat /\ KEEP + 1 >= REACH /\ FULL > HOLD

VARIABLES
    pipe,       \* the items not passed on: [op, n, name, long]
    labels,     \* labels near the end of what was passed on: [name, at]
    offs,       \* the length of what was passed on
    code,       \* what was passed on: [op, name, at, size, to]
    broken,     \* "internal error in jump optimization"
    items, ended

Bytes(n)     == [op |-> "bytes", n |-> n, name |-> "", long |-> FALSE]
Labelled(l)  == [op |-> "label", n |-> 0, name |-> l, long |-> FALSE]
Jumps(op, l) == [op |-> op, n |-> 0, name |-> l, long |-> FALSE]
Evens        == [op |-> "even", n |-> 0, name |-> "", long |-> FALSE]
IsJump(x)    == x.op \in {"jcc", "jmp", "call"}

InPipe(x) == CASE x.op = "bytes" -> x.n + 1 [] IsJump(x) -> 4 [] x.op = "label" -> 3 [] x.op = "even" -> 1
Worst(x)  == CASE x.op = "bytes" -> x.n [] IsJump(x) -> 5 [] x.op = "label" -> 0 [] x.op = "even" -> 1

LOCAL SumOf(f(_), s) == LET sum[i \in 0..Len(s)] == IF i = 0 THEN 0 ELSE sum[i - 1] + f(s[i]) IN sum[Len(s)]

----
(* The first pass: the labels at their worst places.                       *)
Farthest(p) ==
    LET labs[i \in 0..Len(p)] ==
            IF i = 0 THEN labels
            ELSE IF p[i].op = "label" THEN Append(labs[i - 1], [name |-> p[i].name, at |-> SumOf(Worst, SubSeq(p, 1, i - 1))])
            ELSE labs[i - 1]
    IN  labs[Len(p)]

(* Is the label of jump x near?  Ahead, it is where the first pass put it  *)
(* less what was saved since.                                              *)
NearBack(s, x) ==
    \E i \in DOMAIN s.labs : s.labs[i].name = x.name /\ s.at - s.labs[i].at + 3 <= REACH
Near(s, x) ==
    \E i \in DOMAIN s.labs :
        /\ s.labs[i].name = x.name /\ \A j \in 1..(i - 1) : s.labs[j].name # x.name
        /\ IF s.labs[i].at <= s.at THEN s.at - s.labs[i].at + 3 <= REACH
                                   ELSE s.labs[i].at - s.at - s.saved <= REACH

(* The second pass, an item at a time.                                     *)
Shortened(s, x) ==
    CASE x.op = "label" -> [s EXCEPT !.labs[s.m].at = s.at, !.m = @ + 1, !.out = Append(@, x)]
      [] x.op = "even"  -> [s EXCEPT !.at = @ + (s.at % 2), !.saved = @ + 1 - (s.at % 2), !.out = Append(@, x)]
      [] x.op = "bytes" -> [s EXCEPT !.at = @ + x.n, !.out = Append(@, x)]
      [] IsJump(x) ->
            IF ~x.long /\ x.op # "call" /\ Near(s, x)
            THEN [s EXCEPT !.at = @ + 2, !.saved = @ + 3, !.out = Append(@, x)]
            ELSE [s EXCEPT !.at = @ + (IF x.op = "jcc" THEN 5 ELSE 3), !.saved = @ + (IF x.op = "jcc" THEN 0 ELSE 2),
                           !.out = Append(@, [x EXCEPT !.long = TRUE])]

Second(p) ==
    LET s[i \in 0..Len(p)] ==
            IF i = 0 THEN [at |-> 0, saved |-> 0, labs |-> Farthest(p), m |-> Len(labels) + 1, out |-> <<>>]
            ELSE Shortened(s[i - 1], p[i])
    IN  s[Len(p)]

(* The third pass: item x at its place, a short jump with its distance.    *)
Length(s, x) == CASE x.op = "bytes" -> x.n [] x.op = "label" -> 0 [] x.op = "even" -> s.at % 2
                  [] IsJump(x) -> IF ~x.long THEN 2 ELSE IF x.op = "jcc" THEN 5 ELSE 3
Passed(s, x) ==
    LET i    == CHOOSE j \in 1..(Len(s.labs) + 1) :
                    (j <= Len(s.labs) => s.labs[j].name = x.name) /\ \A k \in 1..(j - 1) : s.labs[k].name # x.name
        size == Length(s, x)
        to   == IF IsJump(x) /\ ~x.long THEN s.labs[i].at - (s.at + 2) ELSE 0
    IN  [s EXCEPT !.at = @ + size, !.m = IF x.op = "label" THEN @ + 1 ELSE @,
                  !.broken = @ \/ (x.op = "label" /\ s.labs[s.m].at # s.at),
                  !.code = Append(@, [op |-> x.op, name |-> x.name, long |-> x.long, at |-> offs + s.at, size |-> size, to |-> to])]

(* The labels a jump still to come may be near to.                         *)
Kept(labs, at) ==
    LET ahead == {i \in DOMAIN labs : labs[i].at > at}
        last  == IF ahead = {} THEN Len(labs) ELSE (CHOOSE i \in ahead : \A j \in ahead : i <= j) - 1
        keep[i \in 0..last] ==
            IF i = 0 THEN <<>> ELSE IF labs[i].at > at - KEEP THEN Append(keep[i - 1], [labs[i] EXCEPT !.at = @ - at]) ELSE keep[i - 1]
    IN  keep[last]

flush(p, eoseg) ==
    LET two  == Second(p)
        stop == SumOf(InPipe, p) - (IF eoseg THEN 0 ELSE HOLD)
        n    == CHOOSE k \in 0..Len(p) : /\ k > 0 => SumOf(InPipe, SubSeq(p, 1, k - 1)) < stop
                                         /\ k < Len(p) => SumOf(InPipe, SubSeq(p, 1, k)) >= stop
        s[i \in 0..n] ==
            IF i = 0 THEN [at |-> 0, labs |-> two.labs, m |-> Len(labels) + 1, broken |-> FALSE, code |-> <<>>]
            ELSE Passed(s[i - 1], two.out[i])
        last == s[n]
    IN  /\ pipe'   = SubSeq(two.out, n + 1, Len(p))
        /\ labels' = IF eoseg THEN <<>> ELSE Kept(two.labs, last.at)
        /\ offs'   = offs + last.at
        /\ code'   = code \o last.code
        /\ broken' = (broken \/ last.broken)

(* A line's items; more than FULL of them starts a flush.                  *)
Put(x) ==
    LET more == Append(pipe, x)
    IN  /\ ~ended /\ items < MaxItems /\ items' = items + 1 /\ UNCHANGED ended
        /\ IF SumOf(InPipe, more) > FULL THEN flush(more, FALSE)
           ELSE pipe' = more /\ UNCHANGED <<labels, offs, code, broken>>

codeb(n)   == Put(Bytes(n))
label(l)   == (\A i \in DOMAIN pipe : pipe[i] # Labelled(l)) /\ (\A i \in DOMAIN code : code[i].op = "label" => code[i].name # l)
              /\ Put(Labelled(l))
jump(op, l) == Put(Jumps(op, l))
evenb      == Put(Evens)
EndSegment == ~ended /\ flush(pipe, TRUE) /\ ended' = TRUE /\ UNCHANGED items

Init == pipe = <<>> /\ labels = <<>> /\ offs = 0 /\ code = <<>> /\ broken = FALSE /\ items = 0 /\ ended = FALSE
Next ==
    \/ \E n \in Sizes : codeb(n)
    \/ \E l \in Label : label(l)
    \/ \E l \in Label, op \in {"jcc", "jmp", "call"} : jump(op, l)
    \/ evenb
    \/ EndSegment

----
(* A segment without EVEN: every label is at the sum of the sizes before   *)
(* it, and a short jump's distance leads to its label, wherever the        *)
(* flushes fell.  EVEN counts from the last flush: one held back can move  *)
(* a label that a jump before it was already measured to.                  *)
JumpsLand ==
    /\ ~broken
    /\ (\A i \in DOMAIN code : code[i].op # "even") =>
        /\ \A i \in DOMAIN code : code[i].at = SumOf(LAMBDA x : x.size, SubSeq(code, 1, i - 1))
        /\ \A i, j \in DOMAIN code :
            (IsJump(code[i]) /\ ~code[i].long /\ code[j].op = "label" /\ code[j].name = code[i].name) =>
                /\ code[i].at + 2 + code[i].to = code[j].at
                /\ code[i].to <= REACH - 2 /\ code[i].to >= 1 - REACH
    /\ ended => \A i \in DOMAIN code :
            (IsJump(code[i]) /\ ~code[i].long) => \E j \in DOMAIN code : code[j].op = "label" /\ code[j].name = code[i].name
====
