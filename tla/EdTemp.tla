---------------------------------- MODULE EdTemp ----------------------------------
(***************************************************************************)
(* The temporary file of ed (USR/ED.C): lines are put at its end and read  *)
(* back at any time, through two buffers.  ibuff holds a block that was    *)
(* read, obuff the block that is being filled, which the file lacks.       *)
(***************************************************************************)
EXTENDS Integers, Sequences

CONSTANTS
    BSIZE,      \* characters to a block (512)
    ALIGN,      \* lines begin at its multiples (4)
    NBLOCK,     \* blocks that can be used (255)
    Lengths     \* of lines
TempAssumption == BSIZE \in Nat \ {0} /\ ALIGN \in Nat \ {0} /\ BSIZE % ALIGN = 0 /\ NBLOCK \in Nat

VARIABLES
    tfile,      \* blocks written, by number
    ibuff, iblock, ichanged, obuff, oblock,
    tline,      \* where the next line goes
    lines       \* history: [at, len] of the lines put
vars == <<tfile, ibuff, iblock, ichanged, obuff, oblock, tline, lines>>

None    == -1
Nul     == <<0, 0>>
Char(n, j) == <<n, j>>      \* character j of line n
Garbage == [k \in 0..BSIZE-1 |-> <<-1, -1>>]
Empty   == [b \in {} |-> Garbage]
Init ==
    /\ tfile = Empty /\ ibuff = Garbage /\ obuff = Garbage /\ ichanged = FALSE
    /\ iblock = None /\ oblock = None /\ tline = 0 /\ lines = <<>>

----
Now == [file |-> tfile, ib |-> ibuff, i |-> iblock, changed |-> ichanged, ob |-> obuff, o |-> oblock, ok |-> TRUE]
Becomes(s) ==
    /\ tfile' = s.file /\ ibuff' = s.ib /\ iblock' = s.i /\ ichanged' = s.changed
    /\ obuff' = s.ob /\ oblock' = s.o

Saved(f, b, buf) == [k \in DOMAIN f \cup {b} |-> IF k = b THEN buf ELSE f[k]]

(* getblock: block b in one of the buffers, to be read or written; not ok  *)
(* past the last block, or if the file does not have it.                   *)
GetblockUnsaved(s, b, write) ==
    CASE b >= NBLOCK -> [s EXCEPT !.ok = FALSE]
      [] b = s.i -> [s EXCEPT !.changed = @ \/ write]
      [] b = s.o -> s
      [] ~write  -> [s EXCEPT !.i = b, !.ok = b \in DOMAIN s.file, !.ib = IF b \in DOMAIN s.file THEN s.file[b] ELSE @]
      [] OTHER   -> [s EXCEPT !.o = b]
Getblock(s, b, write) ==
    CASE b >= NBLOCK -> [s EXCEPT !.ok = FALSE]
      [] b = s.i -> [s EXCEPT !.changed = @ \/ write]
      [] b = s.o -> s
      [] ~write  -> LET f == IF s.changed THEN Saved(s.file, s.i, s.ib) ELSE s.file
                    IN  [s EXCEPT !.file = f, !.changed = FALSE, !.i = b, !.ok = b \in DOMAIN f,
                                  !.ib = IF b \in DOMAIN f THEN f[b] ELSE @]
      [] OTHER   -> [s EXCEPT !.file = IF s.o = None THEN @ ELSE Saved(@, s.o, s.ob), !.o = b]

At(s, a)     == IF a \div BSIZE = s.i THEN s.ib[a % BSIZE] ELSE s.ob[a % BSIZE]
Set(s, a, c) == IF a \div BSIZE = s.i THEN [s EXCEPT !.ib[a % BSIZE] = c] ELSE [s EXCEPT !.ob[a % BSIZE] = c]
Last(a)      == a % BSIZE = BSIZE - 1

(* putline, from character j of line n at a on: the next block is had when *)
(* a character, not the terminator, has filled the last.                   *)
RECURSIVE PutFrom(_, _, _, _, _)
PutFrom(s, a, n, j, len) ==
    IF ~s.ok THEN s
    ELSE IF j > len THEN Set(s, a, Nul)
    ELSE LET t == Set(s, a, Char(n, j))
         IN  PutFrom(IF Last(a) THEN Getblock(t, (a + 1) \div BSIZE, TRUE) ELSE t, a + 1, n, j + 1, len)

putline(len) ==
    LET n == Len(lines) + 1
        s == PutFrom(Getblock(Now, tline \div BSIZE, TRUE), tline, n, 1, len)
        up == (tline + len + ALIGN) \div ALIGN
    IN  /\ Becomes(s)
        /\ IF s.ok THEN /\ tline' = up * ALIGN
                        /\ lines' = Append(lines, [at |-> tline, len |-> len])
           ELSE UNCHANGED <<tline, lines>>

(* getline: what it reads, and the buffers after.                          *)
RECURSIVE GetFrom(_, _, _)
GetFrom(s, a, got) ==
    IF ~s.ok \/ Len(got) > BSIZE * NBLOCK THEN [s |-> s, got |-> got]
    ELSE LET c == At(s, a)
         IN  IF c = Nul THEN [s |-> s, got |-> got]
             ELSE GetFrom(IF Last(a) THEN Getblock(s, (a + 1) \div BSIZE, FALSE) ELSE s, a + 1, Append(got, c))
Get(a) == GetFrom(Getblock(Now, a \div BSIZE, FALSE), a, <<>>)
getline(l) == Becomes(Get(l.at).s) /\ UNCHANGED <<tline, lines>>

init ==     \* another file is edited
    /\ lines # <<>>
    /\ tfile' = Empty /\ iblock' = None /\ oblock' = None /\ ichanged' = FALSE
    /\ tline' = 0 /\ lines' = <<>>
    /\ ibuff' = Garbage /\ obuff' = Garbage   \* no block's now

Next ==
    \/ \E len \in Lengths : putline(len)
    \/ \E k \in DOMAIN lines : getline(lines[k])
    \/ init
Spec == Init /\ [][Next]_vars

----
(* Every line reads back as it was put, whichever lines were read and put  *)
(* since, in whichever buffer or block its pieces are now.                 *)
ReadBack ==
    \A n \in DOMAIN lines :
        Get(lines[n].at).s.ok /\ Get(lines[n].at).got = [j \in 1..lines[n].len |-> Char(n, j)]
====
