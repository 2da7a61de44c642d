---------------------------------- MODULE EdText ----------------------------------
(***************************************************************************)
(* The buffer of ed (USR/ED.C): a table of temporary-file addresses, one a *)
(* line, whose lowest bit marks the lines a global command has yet to do.  *)
(* Commands rearrange the table in place, some under the global command.   *)
(* And, without state, ed's regular expressions and substitution.          *)
(***************************************************************************)
EXTENDS Integers, Sequences, FiniteSets

CONSTANTS
    NLINES,     \* cells of linetab
    MaxPuts,    \* bound: lines put in the temporary file
    Char,       \* characters of lines
    ClassOf,    \* the classes of patterns: token -> the set in brackets
    Negated,    \* those that begin with ^
    NBRA        \* \( \) pairs

TextAssumption == NLINES \in Nat \ {0, 1, 2} /\ MaxPuts \in Nat

zero    == 0            \* the cell before the first line, which holds 0
endcore == NLINES - 2

VARIABLES
    linetab,    \* its cells from zero + 1 to dol; nothing reads those beyond
    dot,
    names,      \* names['x' - 'a']
    put,        \* lines put in the temporary file: number n is at 2(n - 1)
    glob,       \* the command under global and where that is, or Off
    text,       \* history: the lines as the commands mean them
    todo,       \* history: what the global command must still visit
    marked,     \* history: the line 'x was set to, 0 if none or forgotten
    astray      \* history: global met a line that it should not have

vars == <<linetab, dot, names, put, glob, text, todo, marked, astray>>

Off == [cmd |-> "none", at |-> "top"]
Init ==
    /\ linetab = <<>> /\ dot = zero
    /\ names = 0 /\ put = 0 /\ glob = Off
    /\ text = <<>> /\ todo = {} /\ marked = 0 /\ astray = FALSE

----
Bit(tl)   == tl % 2
Clean(tl) == tl - Bit(tl)
Line(tl)  == tl \div 2 + 1      \* the number of a line by its address
Addr(n)   == 2 * (n - 1)
New(n) == [k \in 1..n |-> Addr(put + k)]
Numbers(n) == [k \in 1..n |-> put + k]   \* of the next n lines put

dol == Len(linetab)
Before(s, k) == SubSeq(s, 1, k)
After(s, k)  == SubSeq(s, k + 1, Len(s))
Inserted(s, a, ns) == Before(s, a) \o ns \o After(s, a)
Room(n, more) == dol + n <= endcore /\ put + more <= MaxPuts

Reversed(T, a1, a2) == [k \in DOMAIN T |-> IF k \in a1..a2-1 THEN T[a1 + a2 - 1 - k] ELSE T[k]]
RotatedTwice(T, a, b, c) == Reversed(Reversed(T, a, b), b, c)
Rotated(T, a, b, c) == Reversed(Reversed(Reversed(T, a, b), b, c), a, c)

(* move: lines a1..a2 of table T, after adt; not into themselves.          *)
MovedTable(T, a1, a2, adt) ==
    IF adt < a1 THEN (IF adt + 1 = a1 THEN T ELSE Rotated(T, adt + 1, a1, a2 + 1))
    ELSE Rotated(T, a1, a2 + 1, adt + 1)
MovedDot(a1, a2, adt) == IF adt < a1 THEN adt + a2 - a1 + 1 ELSE adt

----
(* Commands on lines a1..a2; the abstract text says what each means.       *)
Put(n) == put' = put + n
Lines(a1, a2) == a1 \in 1..dol /\ a2 \in a1..dol

append(a, n) ==        \* also insert, with the line before
    /\ a \in 0..dol /\ Room(n, n)
    /\ linetab' = Inserted(linetab, a, New(n))
    /\ dot' = a + n /\ Put(n)
    /\ text' = Inserted(text, a, Numbers(n))
    /\ UNCHANGED names

delete(a1, a2) ==
    /\ Lines(a1, a2)
    /\ linetab' = Before(linetab, a1 - 1) \o After(linetab, a2)
    /\ dot' = IF a1 > Len(linetab') THEN Len(linetab') ELSE a1
    /\ text' = Before(text, a1 - 1) \o After(text, a2)
    /\ UNCHANGED <<names, put>>

change(a1, a2, n) ==   \* delete, then append before
    /\ Lines(a1, a2) /\ Room(n - (a2 - a1 + 1), n)
    /\ linetab' = Before(linetab, a1 - 1) \o New(n) \o After(linetab, a2)
    /\ dot' = a1 - 1 + n /\ Put(n)
    /\ text' = Before(text, a1 - 1) \o Numbers(n) \o After(text, a2)
    /\ UNCHANGED names

move(a1, a2, adt) ==
    /\ Lines(a1, a2) /\ adt \in (0..dol) \ (a1..a2)
    /\ linetab' = MovedTable(linetab, a1, a2, adt)
    /\ dot' = MovedDot(a1, a2, adt)
    /\ LET block == SubSeq(text, a1, a2)
       IN  text' = IF adt < a1
                   THEN Before(text, adt) \o block \o SubSeq(text, adt + 1, a1 - 1) \o After(text, a2)
                   ELSE Before(text, a1 - 1) \o SubSeq(text, a2 + 1, adt) \o block \o After(text, adt)
    /\ UNCHANGED <<names, put>>

copy(a1, a2, adt) ==    \* at the end of the buffer, then moved
    /\ Lines(a1, a2) /\ adt \in 0..dol /\ Room(a2 - a1 + 1, a2 - a1 + 1)
    /\ LET n == a2 - a1 + 1
       IN  /\ linetab' = MovedTable(linetab \o New(n), dol + 1, dol + n, adt)
           /\ dot' = MovedDot(dol + 1, dol + n, adt)
           /\ Put(n)
           /\ text' = Inserted(text, adt, Numbers(n))
    /\ UNCHANGED names

(* substitute on one line: what comes out replaces it, the rest of a split *)
(* line is appended.  (More lines: one after another.)                     *)
substitute(a, n) ==
    /\ Lines(a, a) /\ Room(n - 1, n)
    /\ linetab' = Inserted([linetab EXCEPT ![a] = New(1)[1]], a, Tail(New(n)))
    /\ text' = Before(text, a - 1) \o Numbers(n) \o After(text, a)
    /\ dot' = a + n - 1 /\ Put(n)
    /\ UNCHANGED names

mark(a) ==
    /\ Lines(a, a)
    /\ names' = Clean(linetab[a]) + 1
    /\ marked' = text[a]
    /\ dot' = dot
    /\ UNCHANGED <<linetab, put, text>>

(* 'x in address: dol + 1, an error, if there is no such line.             *)
Named == LET S == {k \in 1..dol : Clean(linetab[k]) + 1 = names} \cup {k \in {zero} : names = 1}
         IN  IF S = {} THEN dol + 1 ELSE CHOOSE k \in S : \A j \in S : k <= j

----
Few == 1..2
Idle == UNCHANGED <<glob, todo, astray>>

Command ==
    /\ glob = Off /\ Idle
    /\ \/ /\ UNCHANGED marked
          /\ \/ \E a \in 0..dol, n \in Few : append(a, n)
             \/ \E a1, a2 \in 1..dol : delete(a1, a2)
             \/ \E a1, a2 \in 1..dol, n \in Few : change(a1, a2, n)
             \/ \E a1, a2 \in 1..dol, adt \in 0..dol : move(a1, a2, adt)
             \/ \E a1, a2 \in 1..dol, adt \in 0..dol : copy(a1, a2, adt)
             \/ \E a \in 1..dol, n \in Few : substitute(a, n)
       \/ names = 0 /\ \E a \in 1..dol : mark(a)    \* bound: one k

edit(n) ==     \* init, and the file's lines; names stays
    /\ glob = Off /\ Idle
    /\ linetab' = [k \in 1..n |-> Addr(k)]
    /\ dot' = n /\ put' = n
    /\ text' = [k \in 1..n |-> k] /\ marked' = 0
    /\ UNCHANGED names

(* global, or its opposite: mark the lines that match, or do not, then run *)
(* the command at the first marked, from the top again, until all are done.*)
global(cmd, hit) ==
    /\ glob = Off
    /\ linetab' = [j \in 1..dol |-> Clean(linetab[j]) + (IF j \in hit THEN 1 ELSE 0)]
    /\ todo' = {text[j] : j \in hit}
    /\ glob' = [cmd |-> cmd, at |-> "visit"] /\ astray' = FALSE
    /\ UNCHANGED <<dot, names, put, text, marked>>

Marked == {j \in 1..dol : Bit(linetab[j]) = 1}
Visit ==
    /\ glob.at = "visit" /\ Marked # {}
    /\ LET a == CHOOSE j \in Marked : \A i \in Marked : j <= i
       IN  /\ linetab' = [linetab EXCEPT ![a] = Clean(@)]
           /\ dot' = a
           /\ astray' = (astray \/ text[a] \notin todo)
           /\ todo' = todo \ {text[a]}
    /\ glob' = [glob EXCEPT !.at = "run"]
    /\ UNCHANGED <<names, put, text, marked>>
Under ==        \* at dot
    /\ glob.at = "run" /\ glob' = [glob EXCEPT !.at = "visit"]
    /\ UNCHANGED <<todo, astray, marked>>
    /\ CASE glob.cmd = "d"   -> delete(dot, dot)
         [] glob.cmd = "-d"  -> delete(dot - 1, dot)
         [] glob.cmd = "m0"  -> move(dot, dot, 0)
         [] glob.cmd = "m$"  -> move(dot, dot, dol)
         [] glob.cmd = "-m$" -> move(dot - 1, dot, dol)
         [] glob.cmd = "t0"  -> copy(dot, dot, 0)
         [] glob.cmd = "a"   -> append(dot, 1)
         [] glob.cmd = "s"   -> \E n \in Few : substitute(dot, n)
GlobalEnds ==
    /\ glob.at = "visit" /\ Marked = {}
    /\ glob' = Off /\ todo' = {}
    /\ UNCHANGED <<linetab, dot, names, put, text, marked, astray>>
(* The command is an error (a move into itself, a bad address, no room):   *)
(* reset leaves global, and the marks where they are.                      *)
GlobalStops ==
    /\ glob.at = "run" /\ ~ENABLED Under
    /\ glob' = Off /\ todo' = {}
    /\ UNCHANGED <<linetab, dot, names, put, text, marked, astray>>

Globals == {"d", "-d", "m0", "m$", "-m$", "t0", "a", "s"}
Next ==
    \/ Command
    \/ \E n \in {0, 2} : edit(n)
    \/ \E cmd \in Globals, hit \in SUBSET (1..dol) \ {{}} : global(cmd, hit)
    \/ Visit \/ Under \/ GlobalEnds \/ GlobalStops
Spec == Init /\ [][Next]_vars

----
(* The table is the text that the commands mean, line for line, and dot is *)
(* in it; a line set with k is found again wherever it has been moved, and *)
(* never another for it (but for the first line put, whose address 0 is    *)
(* also what the cell before the text holds, and after an e, which forgets *)
(* to clear the names).  The global command comes to each line marked that *)
(* still exists, once, and to no other, whatever its command did to the    *)
(* table - and to what an earlier global, stopped by an error, left marked.*)
Edited ==
    /\ Len(text) = dol /\ \A k \in 1..dol : Line(linetab[k]) = text[k]
    /\ dot \in zero..dol
    /\ marked > 1 => Named = IF \E k \in 1..dol : text[k] = marked
                             THEN CHOOSE k \in 1..dol : text[k] = marked ELSE dol + 1
    /\ ~astray
    /\ glob.at = "visit" => {text[k] : k \in Marked} = todo \cap {text[k] : k \in 1..dol}

----
(* Regular expressions and substitution in one line.  A pattern is a       *)
(* sequence of tokens, what the line's delimiter encloses; a class such as *)
(* [^ab] is one token, as are \( and \).                                   *)
Item(op, arg) == [op |-> op, arg |-> arg, star |-> FALSE]
Error == [ok |-> FALSE, items |-> <<>>, circfl |-> FALSE]

(* compile: items, the open brackets, how many there were.                 *)
RECURSIVE Compiled(_, _, _, _)
Compiled(p, items, open, nbra) ==
    IF p = <<>> THEN [ok |-> TRUE, items |-> items, circfl |-> FALSE]
    ELSE LET c == Head(p)
             q == Tail(p)
             more(i) == Compiled(q, Append(items, i), open, nbra)
         IN  CASE c = "\\(" -> IF nbra >= NBRA THEN Error
                              ELSE Compiled(q, Append(items, Item("CBRA", nbra)), <<nbra>> \o open, nbra + 1)
               [] c = "\\)" -> IF open = <<>> THEN Error
                              ELSE Compiled(q, Append(items, Item("CKET", Head(open))), Tail(open), nbra)
               [] c = "."   -> more(Item("CDOT", c))
               [] c = "*"   -> LET last == items[Len(items)]
                               IN  IF last.op \in {"CBRA", "CKET"} THEN Error
                                   ELSE Compiled(q, [items EXCEPT ![Len(items)].star = TRUE], open, nbra)
               [] c = "$" /\ q = <<>> -> more(Item("CDOL", c))
               [] c \in DOMAIN ClassOf -> more(Item(IF c \in Negated THEN "NCCL" ELSE "CCL", ClassOf[c]))
               [] OTHER     -> more(Item("CCHR", c))

compile(p) ==
    LET caret == p # <<>> /\ Head(p) = "^"
        q == IF caret THEN Tail(p) ELSE p
    IN  IF q # <<>> /\ Head(q) = "*" THEN Error
        ELSE [Compiled(q, <<>>, <<>>, 0) EXCEPT !.circfl = caret]

----
(* Lines are read from 1; the terminator stands behind the last character. *)
End(line) == Len(line) + 1

(* Whether an item takes the character at lp.                              *)
Takes(i, line, lp) ==
    /\ lp <= Len(line)
    /\ CASE i.op = "CCHR" -> line[lp] = i.arg
         [] i.op = "CDOT" -> TRUE
         [] i.op = "CCL"  -> line[lp] \in i.arg
         [] i.op = "NCCL" -> line[lp] \notin i.arg

(* advance: [ok, loc2, bra, ket]; err if it comes upon a starred $.  A     *)
(* star gives back one character at a time, but not down to locs.          *)
RECURSIVE advance(_, _, _, _, _), Star(_, _, _, _, _, _), StarOver(_, _, _, _, _, _)
Fail(m) == [m EXCEPT !.ok = FALSE]
Reach(i, line, lp) == CHOOSE k \in lp..End(line) :
    ~Takes(i, line, k) /\ \A j \in lp..k-1 : Takes(i, line, j)
advance(items, line, lp, locs, m) ==
    IF items = <<>> THEN [m EXCEPT !.ok = TRUE, !.loc2 = lp]
    ELSE LET i == Head(items)
         IN  IF i.star THEN IF i.op = "CDOL" THEN [Fail(m) EXCEPT !.err = TRUE]
                            ELSE Star(Tail(items), line, Reach(i, line, lp), lp, locs, m)
             ELSE CASE i.op = "CBRA" -> advance(Tail(items), line, lp, locs, [m EXCEPT !.bra[i.arg] = lp])
                    [] i.op = "CKET" -> advance(Tail(items), line, lp, locs, [m EXCEPT !.ket[i.arg] = lp])
                    [] i.op = "CDOL" -> IF lp = End(line) THEN advance(Tail(items), line, lp, locs, m) ELSE Fail(m)
                    [] OTHER -> IF Takes(i, line, lp) THEN advance(Tail(items), line, lp + 1, locs, m) ELSE Fail(m)
StarOver(items, line, lp, curlp, locs, m) ==
    LET r == advance(items, line, lp, locs, m)
    IN  IF lp = locs THEN Fail(m)
        ELSE IF r.ok \/ r.err \/ lp = curlp + 1 THEN r
        ELSE Star(items, line, lp - 1, curlp, locs, r)
Star(items, line, lp, curlp, locs, m) ==
    LET r == advance(items, line, lp, locs, m)
    IN  IF lp = locs THEN Fail(m)
        ELSE IF r.ok \/ r.err \/ lp = curlp THEN r
        ELSE Star(items, line, lp - 1, curlp, locs, r)

(* execute: [ok, loc1, loc2, ...], from p1 on; locs is 0 the first time.   *)
RECURSIVE Search(_, _, _, _, _)
Search(x, line, p1, locs, m) ==
    LET r == advance(x.items, line, p1, locs, m)
    IN  IF r.ok THEN [r EXCEPT !.loc1 = p1]
        ELSE IF r.err \/ x.circfl \/ p1 = End(line) THEN r
        ELSE Search(x, line, p1 + 1, locs, r)
NoMatch == [ok |-> FALSE, err |-> FALSE, loc1 |-> 0, loc2 |-> 0,
            bra |-> [k \in 0..NBRA-1 |-> 0], ket |-> [k \in 0..NBRA-1 |-> 0]]
execute(x, line) == Search(x, line, 1, 0, NoMatch)
Again(x, line, m) == IF x.circfl THEN Fail(m) ELSE Search(x, line, m.loc2, m.loc2, m)

(* dosub: the line, and m with loc2 behind what was put in.  rhs: "&",     *)
(* 1 .. NBRA as strings for the pairs, or characters.                      *)
Place(line, a, b) == SubSeq(line, a, b - 1)
Pairs == [d \in {"\\1", "\\2", "\\3", "\\4", "\\5"} |->
    CASE d = "\\1" -> 0 [] d = "\\2" -> 1 [] d = "\\3" -> 2 [] d = "\\4" -> 3 [] d = "\\5" -> 4]
RECURSIVE Filled(_, _, _)
Filled(rhs, line, m) ==
    IF rhs = <<>> THEN <<>>
    ELSE (CASE Head(rhs) = "&" -> Place(line, m.loc1, m.loc2)
            [] Head(rhs) \in DOMAIN Pairs -> Place(line, m.bra[Pairs[Head(rhs)]], m.ket[Pairs[Head(rhs)]])
            [] OTHER -> <<Head(rhs)>>) \o Filled(Tail(rhs), line, m)
dosub(line, m, rhs) ==
    LET head == SubSeq(line, 1, m.loc1 - 1) \o Filled(rhs, line, m)
    IN  [line |-> head \o SubSeq(line, m.loc2, Len(line)), m |-> [m EXCEPT !.loc2 = Len(head) + 1]]

RECURSIVE AllSubs(_, _, _)
AllSubs(x, s, rhs) ==
    LET m == Again(x, s.line, s.m)
    IN  IF s.m.loc2 = End(s.line) \/ ~m.ok THEN s.line
        ELSE AllSubs(x, dosub(s.line, m, rhs), rhs)
Substituted(x, line, rhs, gsubf) ==
    LET m == execute(x, line)
        s == dosub(line, m, rhs)
    IN  IF ~m.ok THEN line ELSE IF gsubf THEN AllSubs(x, s, rhs) ELSE s.line

----
(* What a match is: where each item of the pattern begins, on the line     *)
(* from i on; of all the ways to cut, the one that gives the most to each  *)
(* item in turn.                                                           *)
Fits(i, line, a, b) ==
    CASE i.op \in {"CBRA", "CKET"} -> a = b
      [] i.op = "CDOL" -> a = b /\ a = End(line)
      [] i.star -> \A k \in a..b-1 : Takes(i, line, k)
      [] OTHER -> b = a + 1 /\ Takes(i, line, a)
RECURSIVE Cuts(_, _, _)
Cuts(items, line, a) ==
    IF items = <<>> THEN {<<a>>}
    ELSE UNION {{<<a>> \o c : c \in Cuts(Tail(items), line, b)} :
                b \in {k \in a..End(line) : Fits(Head(items), line, a, k)}}
CutsAt(x, line, i) == Cuts(x.items, line, i)
Greedier(c, d) == \E k \in DOMAIN c : c[k] > d[k] /\ \A j \in 1..k-1 : c[j] = d[j]
Best(S) == CHOOSE c \in S : \A d \in S \ {c} : Greedier(c, d)
Starts(x, line) == {i \in IF x.circfl THEN {1} ELSE 1..End(line) : CutsAt(x, line, i) # {}}
First(S) == CHOOSE k \in S : \A j \in S : k <= j

Whole(x) == \A k \in DOMAIN x.items : x.items[k].op = "CDOL" => ~x.items[k].star
Closed(x) == {x.items[k].arg : k \in {j \in DOMAIN x.items : x.items[j].op = "CKET"}}

(* The backtracking matcher, with its registers, one pass and the tricks   *)
(* for the star, finds the leftmost match and takes the greediest cut, and *)
(* the pairs enclose what they do in that cut, not in a failed attempt;    *)
(* and fails only where there is no match.                                 *)
FindsBest(x, line) ==
    LET m == execute(x, line)
        S == Starts(x, line)
        c == Best(CutsAt(x, line, First(S)))
    IN  /\ m.ok = (S # {})
        /\ m.ok =>
            /\ m.loc1 = c[1] /\ m.loc2 = c[Len(c)]
            /\ \A k \in DOMAIN x.items : x.items[k].op \in {"CBRA", "CKET"} /\ x.items[k].arg \in Closed(x) =>
                (IF x.items[k].op = "CBRA" THEN m.bra ELSE m.ket)[x.items[k].arg] = c[k]

(* Without g one replacement; with it, every match of what is left, after  *)
(* the last (for a pattern without stars that takes a character: a starred *)
(* one passes over what begins where the last match ended, see advance).   *)
RECURSIVE Replaced(_, _, _, _)
Replaced(x, line, from, gsubf) ==
    LET S == {i \in Starts(x, line) : i >= from}
        c == Best(CutsAt(x, line, First(S)))
    IN  IF S = {} THEN SubSeq(line, from, Len(line))
        ELSE SubSeq(line, from, First(S) - 1) \o <<"<">> \o SubSeq(line, First(S), c[Len(c)] - 1) \o <<">">>
             \o IF gsubf /\ c[Len(c)] <= Len(line) THEN Replaced(x, line, c[Len(c)], gsubf)
                ELSE SubSeq(line, c[Len(c)], Len(line))
Substitutes(x, line) ==
    /\ Substituted(x, line, <<"<", "&", ">">>, FALSE) = Replaced(x, line, 1, FALSE)
    /\ (\A k \in DOMAIN x.items : ~x.items[k].star) /\ (\E k \in DOMAIN x.items : x.items[k].op \notin {"CBRA", "CKET"})
       => Substituted(x, line, <<"<", "&", ">">>, TRUE) = Replaced(x, line, 1, TRUE)

SomeLines == UNION {[1..n -> Char] : n \in 0..3}
MatchesRight(p) ==
    LET x == compile(p)
    IN  x.ok /\ Whole(x) => \A line \in SomeLines : FindsBest(x, line) /\ Substitutes(x, line)
====
