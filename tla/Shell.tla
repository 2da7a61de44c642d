---------------------------------- MODULE Shell ----------------------------------
(***************************************************************************)
(* The shell (USR/SH.C).  Its parser works on a line of tokens: the        *)
(* symbols, ">>" being "+" as gettoken returns it, and words.  main and    *)
(* runcmd are processes that walk the tree of a line, fork, and wire pipes *)
(* and files to descriptors 0 and 1 by closing one and trusting dup, open  *)
(* and creat to return the lowest.                                         *)
(***************************************************************************)
EXTENDS Integers, Sequences, FiniteSets

CONSTANTS
    MAXARGS,    \* argv's cells, the last for the terminator
    Lines,      \* what may be typed, in tokens
    NPROC,      \* processes there is room for, the shell among them
    NOFILE,     \* descriptors of a process (15)
    MaxLines    \* bound: lines typed

Pid == 1..NPROC
Fd  == 0..NOFILE-1
sh == 1         \* the shell itself

VARIABLES
    proc,       \* [pc, nth: its line, node: the path to its node in the tree, parent, fd]
    trees,      \* history: what was typed, parsed
    failed      \* history: the lines of which a fork found no room

vars == <<proc, trees, failed>>

Symbols == {"<", ">", "+", "|", "&", ";", "(", ")"}

----
(* Commands.                                                               *)
execcmd(argv)     == [type |-> "EXEC", argv |-> argv]
redircmd(c, tok, file) == [type |-> "REDIR", sub |-> c, mode |-> tok, file |-> file,
                           fd |-> IF tok = "<" THEN 0 ELSE 1]
pipecmd(l, r)     == [type |-> "PIPE", left |-> l, right |-> r]
listcmd(l, r)     == [type |-> "LIST", left |-> l, right |-> r]
backcmd(c)        == [type |-> "BACK", sub |-> c]
panic             == [type |-> "panic"]

(* A parser returns a command and the tokens it leaves; panic leaves none. *)
Parsed(c, s) == [cmd |-> c, rest |-> s]
Panics       == Parsed(panic, <<>>)
Then(r, Make(_)) == IF r.cmd = panic THEN r ELSE Parsed(Make(r.cmd), r.rest)
peek(s, toks) == s # <<>> /\ Head(s) \in toks

RECURSIVE parseline(_), Backed(_), parsepipe(_), parseredirs(_), Args(_, _)

parseredirs(r) ==
    IF ~peek(r.rest, {"<", ">", "+"}) THEN r
    ELSE IF Len(r.rest) < 2 \/ r.rest[2] \in Symbols THEN Panics
    ELSE parseredirs(Parsed(redircmd(r.cmd, Head(r.rest), r.rest[2]), SubSeq(r.rest, 3, Len(r.rest))))

parseblock(s) ==
    LET r == parseline(Tail(s))
    IN  IF peek(r.rest, {")"}) THEN parseredirs(Parsed(r.cmd, Tail(r.rest))) ELSE Panics

(* The redirections go around the command whose argv still grows.          *)
RECURSIVE WithArg(_, _)
WithArg(c, q) == IF c.type = "EXEC" THEN [c EXCEPT !.argv = Append(@, q)]
                 ELSE [c EXCEPT !.sub = WithArg(@, q)]
ArgsWide(r, argc) ==
    IF r.rest = <<>> \/ peek(r.rest, {"|", ")", "&", ";"}) THEN r
    ELSE IF Head(r.rest) \in Symbols \/ argc >= MAXARGS THEN Panics
    ELSE LET q == parseredirs(Parsed(WithArg(r.cmd, Head(r.rest)), Tail(r.rest)))
         IN  IF q.cmd = panic THEN q ELSE Args(q, argc + 1)
Args(r, argc) ==
    IF r.rest = <<>> \/ peek(r.rest, {"|", ")", "&", ";"}) THEN r
    ELSE IF Head(r.rest) \in Symbols \/ argc + 1 >= MAXARGS THEN Panics
    ELSE LET q == parseredirs(Parsed(WithArg(r.cmd, Head(r.rest)), Tail(r.rest)))
         IN  IF q.cmd = panic THEN q ELSE Args(q, argc + 1)

parseexec(s) ==
    IF peek(s, {"("}) THEN parseblock(s)
    ELSE LET r == parseredirs(Parsed(execcmd(<<>>), s))
         IN  IF r.cmd = panic THEN r ELSE Args(r, 0)

parsepipe(s) ==
    LET r == parseexec(s)
    IN  IF peek(r.rest, {"|"})
        THEN Then(parsepipe(Tail(r.rest)), LAMBDA c : pipecmd(r.cmd, c)) ELSE r

Backed(r) == IF peek(r.rest, {"&"}) THEN Backed(Parsed(backcmd(r.cmd), Tail(r.rest))) ELSE r
parseline(s) ==
    LET r == Backed(parsepipe(s))
    IN  IF peek(r.rest, {";"})
        THEN Then(parseline(Tail(r.rest)), LAMBDA c : listcmd(r.cmd, c)) ELSE r

parsecmd(s) == LET r == parseline(s) IN IF r.rest = <<>> THEN r.cmd ELSE panic

----
(* The language, as a grammar: the trees of a text, cut in every way.      *)
Cuts(w) == 0..Len(w)
To(w, k)   == SubSeq(w, 1, k)
From(w, k) == SubSeq(w, k + 1, Len(w))

RECURSIVE LineTrees(_), PipeTrees(_), Redirected(_, _), Simple(_)

Redirected(T, w) ==     \* any of T with the redirections w, first inmost
    IF w = <<>> THEN T
    ELSE IF Len(w) >= 2 /\ w[1] \in {"<", ">", "+"} /\ w[2] \notin Symbols
         THEN Redirected({redircmd(t, w[1], w[2]) : t \in T}, From(w, 2))
         ELSE {}

(* Words and redirections in any mixture.                                  *)
Simple(w) ==
    LET files == {k \in DOMAIN w : k > 1 /\ w[k - 1] \in {"<", ">", "+"}}
        words == {k \in DOMAIN w : w[k] \notin Symbols} \ files
        pick(S) == SelectSeq([k \in DOMAIN w |-> <<k, w[k]>>], LAMBDA x : x[1] \in S)
        text(S) == [j \in DOMAIN pick(S) |-> pick(S)[j][2]]
    IN  IF Cardinality(words) < MAXARGS
        THEN Redirected({execcmd(text(words))}, text(DOMAIN w \ words)) ELSE {}
ExecTrees(w) ==
    Simple(w) \cup
    UNION {IF w # <<>> /\ w[1] = "(" /\ k > 1 /\ w[k] = ")"
           THEN Redirected(LineTrees(SubSeq(w, 2, k - 1)), From(w, k)) ELSE {} : k \in DOMAIN w}
PipeTrees(w) ==
    ExecTrees(w) \cup
    UNION {{pipecmd(l, r) : l \in ExecTrees(To(w, k - 1)), r \in PipeTrees(From(w, k))} :
            k \in {j \in DOMAIN w : w[j] = "|"}}
RECURSIVE BackTrees(_)
BackTrees(w) ==
    PipeTrees(w) \cup
    (IF w # <<>> /\ w[Len(w)] = "&" THEN {backcmd(t) : t \in BackTrees(To(w, Len(w) - 1))} ELSE {})
LineTrees(w) ==
    BackTrees(w) \cup
    UNION {{listcmd(l, r) : l \in BackTrees(To(w, k - 1)), r \in LineTrees(From(w, k))} :
            k \in {j \in DOMAIN w : w[j] = ";"}}

(* The parser, which looks one token ahead and never goes back, accepts    *)
(* just the lines of the grammar and finds the only tree of each.          *)
ParsesRight(w) == LineTrees(w) = IF parsecmd(w) = panic THEN {} ELSE {parsecmd(w)}

----

NoFile   == [what |-> "none"]
Terminal == [what |-> "tty"]
File(c)  == [what |-> "file", name |-> c.file, mode |-> c.mode]
End(p, e) == [what |-> e, of |-> <<proc[p].nth, proc[p].node>>]    \* "r" or "w" of p's pipe

Free == [pc |-> "free"]
Init ==
    /\ proc = [p \in Pid |-> IF p = sh
         THEN [pc |-> "prompt", nth |-> 0, node |-> <<>>, parent |-> 0,
               fd |-> [k \in Fd |-> IF k <= 2 THEN Terminal ELSE NoFile]]
         ELSE Free]
    /\ trees = <<>> /\ failed = {}

----
RECURSIVE Sub(_, _)
Sub(c, node) ==
    IF node = <<>> THEN c
    ELSE Sub(CASE c.type = "PIPE" \/ c.type = "LIST" -> IF Head(node) = 1 THEN c.left ELSE c.right
               [] OTHER -> c.sub, Tail(node))
Cmd(p) == Sub(trees[proc[p].nth], proc[p].node)
Runs(p, type) == proc[p].pc = "run" /\ Cmd(p).type = type

(* Descriptors.                                                            *)
Close(f, k)  == [f EXCEPT ![k] = NoFile]
Lowest(f)    == CHOOSE k \in Fd : f[k] = NoFile /\ \A j \in 0..k-1 : f[j] # NoFile
Opened(f, x) == [f EXCEPT ![Lowest(f)] = x]
PipeFds(p)   ==     \* p[0] and p[1], once pipe has returned
    <<CHOOSE k \in Fd : proc[p].fd[k] = End(p, "r"), CHOOSE k \in Fd : proc[p].fd[k] = End(p, "w")>>

(* exit: the parent is told, children go to init, which waits for them.    *)
Gone(P, p) ==
    [q \in Pid |->
        IF q = p THEN [P[q] EXCEPT !.pc = "zombie", !.fd = [k \in Fd |-> NoFile]]
        ELSE IF P[q] # Free /\ P[q].parent = p THEN [P[q] EXCEPT !.parent = 0] ELSE P[q]]
Exits(p) == proc' = Gone(proc, p) /\ UNCHANGED <<trees, failed>>

(* fork1: the child goes on at node with descriptors fd, or p panics.      *)
Unused == {q \in Pid : proc[q] = Free}
Fork(p, nth, node, fd, pc) ==
    IF Unused = {} THEN proc' = Gone(proc, p) /\ failed' = failed \cup {nth}
    ELSE LET c == CHOOSE q \in Unused : \A r \in Unused : q <= r
         IN  /\ proc' = [proc EXCEPT ![c] = [pc |-> "run", nth |-> nth, node |-> node, parent |-> p, fd |-> fd],
                                     ![p].pc = pc]
             /\ UNCHANGED failed
Goes(p, node, fd) ==
    /\ proc' = [proc EXCEPT ![p].node = node, ![p].fd = fd, ![p].pc = "run"]
    /\ UNCHANGED <<trees, failed>>
At(p, l) == proc[p].pc = l /\ UNCHANGED trees

(* wait: for any child there is.                                           *)
Wait(p, pc) ==
    \E q \in Pid :
        /\ proc[q].pc = "zombie" /\ proc[q].parent = p
        /\ proc' = [proc EXCEPT ![q] = Free, ![p].pc = pc]
        /\ UNCHANGED failed
InitWaits(q) ==
    /\ At(q, "zombie") /\ proc[q].parent = 0
    /\ proc' = [proc EXCEPT ![q] = Free]
    /\ UNCHANGED failed

----
main(s) ==
    /\ proc[sh].pc = "prompt" /\ Len(trees) < MaxLines
    /\ trees' = Append(trees, parsecmd(s))
    /\ Fork(sh, Len(trees'), <<>>, proc[sh].fd, "wait")
Prompt == At(sh, "wait") /\ Wait(sh, "prompt")

Empty(p) ==         \* no command, or a line that does not parse
    /\ proc[p].pc = "run" /\ (Cmd(p) = panic \/ Cmd(p) = execcmd(<<>>))
    /\ Exits(p)
Exec(p) ==
    /\ Runs(p, "EXEC") /\ Cmd(p).argv # <<>>
    /\ proc' = [proc EXCEPT ![p].pc = "exec"]
    /\ UNCHANGED <<trees, failed>>

RedirOpens(p) ==
    Opened(Close(proc[p].fd, Cmd(p).fd), File(Cmd(p)))
Redir(p) ==
    /\ Runs(p, "REDIR")
    /\ Goes(p, Append(proc[p].node, 1), RedirOpens(p))
RedirFails(p) == Runs(p, "REDIR") /\ Exits(p)

List(p) ==
    /\ Runs(p, "LIST") /\ UNCHANGED trees
    /\ Fork(p, proc[p].nth, Append(proc[p].node, 1), proc[p].fd, "list")
ListWaits(p) == At(p, "list") /\ Wait(p, "right")
Right(p)     == proc[p].pc = "right" /\ Goes(p, Append(proc[p].node, 2), proc[p].fd)

Pipe(p) ==
    /\ Runs(p, "PIPE") /\ UNCHANGED <<trees, failed>>
    /\ proc' = [proc EXCEPT ![p].pc = "pipe", ![p].fd = Opened(Opened(@, End(p, "r")), End(p, "w"))]
SideKeeps(p, k) ==
    LET d == PipeFds(p)
    IN  Close(Opened(Close(proc[p].fd, 2 - k), proc[p].fd[d[3 - k]]), d[3 - k])
Side(p, k) ==       \* child k of a pipe: 1 writes, 2 reads
    LET d == PipeFds(p)
        f == Opened(Close(proc[p].fd, 2 - k), proc[p].fd[d[3 - k]])
    IN  Close(Close(f, d[1]), d[2])
PipeLeft(p)  == At(p, "pipe")  /\ Fork(p, proc[p].nth, Append(proc[p].node, 1), Side(p, 1), "pipe2")
PipeRight(p) == At(p, "pipe2") /\ Fork(p, proc[p].nth, Append(proc[p].node, 2), Side(p, 2), "close")
PipeCloses(p) ==
    /\ At(p, "close")
    /\ proc' = [proc EXCEPT ![p].pc = "wait1", ![p].fd = Close(Close(@, PipeFds(p)[1]), PipeFds(p)[2])]
    /\ UNCHANGED failed
PipeWaits(p) == (At(p, "wait1") /\ Wait(p, "wait2")) \/ (At(p, "wait2") /\ Wait(p, "exit"))

Back(p)     == Runs(p, "BACK") /\ UNCHANGED trees
               /\ Fork(p, proc[p].nth, Append(proc[p].node, 1), proc[p].fd, "exit")
Leaves(p)   == proc[p].pc = "exit" /\ Exits(p)

(* A command reads to the end of its input: a pipe's comes when nobody has *)
(* its writing end.                                                        *)
Finishes(p) ==
    /\ proc[p].pc = "exec"
    /\ LET i == proc[p].fd[0]
       IN  i.what = "r" => \A q \in Pid, k \in Fd :
               proc[q] # Free => proc[q].fd[k] # [i EXCEPT !.what = "w"]
    /\ Exits(p)

Step(p) ==
    \/ Empty(p) \/ Exec(p) \/ Redir(p) \/ RedirFails(p) \/ List(p) \/ ListWaits(p) \/ Right(p)
    \/ Pipe(p) \/ PipeLeft(p) \/ PipeRight(p) \/ PipeCloses(p) \/ PipeWaits(p)
    \/ Back(p) \/ Leaves(p) \/ Finishes(p) \/ InitWaits(p)
Next == (\E s \in Lines : main(s)) \/ Prompt \/ (\E p \in Pid \ {sh} : Step(p))
Spec == Init /\ [][Next]_vars

----
(* What the tree of the line alone gives the command at a node.            *)
RECURSIVE Meant(_, _, _, _)
Meant(c, at, node, fd) ==    \* at: the line, and the path so far
    IF node = <<>> THEN fd
    ELSE LET k == Head(node)
             end(e) == [what |-> e, of |-> at]
             sub == CASE c.type \in {"PIPE", "LIST"} -> IF k = 1 THEN c.left ELSE c.right [] OTHER -> c.sub
             new == CASE c.type = "PIPE"  -> [fd EXCEPT ![2 - k] = end(IF k = 1 THEN "w" ELSE "r")]
                      [] c.type = "REDIR" -> [fd EXCEPT ![c.fd] = File(c)]
                      [] OTHER -> fd
         IN  Meant(sub, <<at[1], Append(at[2], k)>>, Tail(node), new)

(* Every command starts with 0, 1 and 2 as its place in the line says and  *)
(* no other descriptor: no pipe end is left open anywhere to keep a reader *)
(* from its end of file.                                                   *)
Wired == \A p \in Pid : proc[p].pc = "exec" => 
    LET n == proc[p].nth
    IN  proc[p].fd = Meant(trees[n], <<n, <<>>>>, proc[p].node, proc[sh].fd)

RECURSIVE InBack(_, _)
InBack(c, node) == node # <<>> /\ (c.type = "BACK" \/ InBack(Sub(c, <<Head(node)>>), Tail(node)))

(* The prompt comes back when the line is over but for its "&" parts       *)
(* (or a fork of it failed), and it does: nothing waits for ever.            *)
Waited ==
    /\ proc[sh].pc = "prompt" => \A p \in Pid \ {sh} :
        proc[p] = Free \/ proc[p].nth \in failed \/ InBack(trees[proc[p].nth], proc[p].node)
    /\ \/ proc[sh].pc # "wait"
       \/ ENABLED Prompt
       \/ \E p \in Pid \ {sh} : ENABLED Step(p)
====
