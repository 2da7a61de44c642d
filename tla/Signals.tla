--------------------------------- MODULE Signals ---------------------------------
(***************************************************************************)
(* Signals: one pending signal per process (p_sig), posted by kill, by the *)
(* keyboard's interrupt or by a broken pipe; looked at by sleep, at the    *)
(* end of a call and by the clock.  A process leaves the processor only    *)
(* asleep or in user mode: no two are between those points.                *)
(***************************************************************************)
EXTENDS Integers, FiniteSets

CONSTANTS
    Proc,       \* processes; a slot may be used again
    KILL, INT,  \* SIGKIL, and what the keyboard sends
    Other,      \* signals reset when they are caught
    Kept,       \* SIGINS and SIGTRC: caught again and again
    MaxPosts    \* bound: signals posted

VARIABLES
    sig,        \* p_sig
    signal,     \* u_signal: "default", "ignore" or "catch"
    state,      \* where the process is
    posts,
    sent, late  \* for the properties: sent and not dealt with; posted between sleep's test and its sleep

vars == <<sig, signal, state, posts, sent, late>>

NoSignal == 0
Signal == {KILL, INT} \cup Other \cup Kept
----
SignalAssumption == NoSignal \notin Signal /\ KILL # INT

Free == "free"
Alive(p) == state[p] \notin {Free, "zombie"}
InKernel == {"call", "tested", "jump", "exit"}
(* The processor is free for p: nobody else is between two sleeps.         *)
Runs(p) == \A q \in Proc \ {p} : state[q] \notin InKernel

Init ==
    /\ sig = [p \in Proc |-> NoSignal]
    /\ signal = [p \in Proc |-> [s \in Signal |-> "default"]]
    /\ state = [p \in Proc |-> IF p = CHOOSE q \in Proc : TRUE THEN "user" ELSE Free]
    /\ posts = 0
    /\ sent = [p \in Proc |-> {}]
    /\ late = {}

Issig(g, p) == g[p] # NoSignal /\ signal[p][g[p]] # "ignore"
issig(p) == Issig(sig, p)
Goes(p, where) == state' = [state EXCEPT ![p] = where]
Still == UNCHANGED <<sig, signal, posts, sent, late>>

(* psignal to each of to: a killed process stays killed, and one that may  *)
(* be disturbed is.                                                        *)
(* A slip: the last signal wins.                                           *)
PostLast(s, old) == s
Post(s, old) == IF old = KILL THEN KILL ELSE s
psignal(to, s) ==
    /\ posts < MaxPosts /\ posts' = posts + 1
    /\ sig' = [p \in Proc |-> IF p \in to THEN Post(s, sig[p]) ELSE sig[p]]
    /\ state' = [p \in Proc |-> IF p \in to /\ state[p] = "wait" THEN "ready" ELSE state[p]]
    /\ sent' = [p \in Proc |-> IF p \in to /\ s # NoSignal THEN sent[p] \cup {s} ELSE sent[p]]
    /\ late' = late \cup {p \in to : state[p] = "tested"}
    /\ UNCHANGED signal

----
(* trap, and sleep at a priority a signal may disturb: the test, the sleep *)
(* and the second test when somebody has made the process run.             *)
Trap(p)      == state[p] = "user" /\ Runs(p) /\ Goes(p, "call") /\ Still
SleepTest(p) == state[p] = "call" /\ Goes(p, IF issig(p) THEN "jump" ELSE "tested") /\ Still
SleepWait(p) == state[p] = "tested" /\ Goes(p, "wait") /\ Still
SleepSure(p) == state[p] = "call" /\ Goes(p, "sleep") /\ Still
Wakeup(p) ==
    \/ state[p] = "wait" /\ Goes(p, "ready") /\ Still
    \/ state[p] = "sleep" /\ Runs(p) /\ Goes(p, "call") /\ Still
Resumed(p) == state[p] = "ready" /\ Runs(p) /\ Goes(p, IF issig(p) THEN "jump" ELSE "call")
              /\ late' = late \ {p} /\ UNCHANGED <<sig, signal, posts, sent>>

(* psig: the handler, which is forgotten as it is called, or the end.      *)
psig(p) ==
    /\ sig' = [sig EXCEPT ![p] = NoSignal]
    /\ sent' = [sent EXCEPT ![p] = {}]
    /\ late' = late \ {p}
    /\ UNCHANGED posts
    /\ IF signal[p][sig[p]] = "catch"
       THEN /\ signal' = IF sig[p] \in Kept THEN signal ELSE [signal EXCEPT ![p][sig[p]] = "default"]
            /\ Goes(p, "user")
       ELSE /\ signal' = [signal EXCEPT ![p] = [s \in Signal |-> "ignore"]]
            /\ Goes(p, "exit")
(* The end of a call; after a jump it is told EINTR.                       *)
Returns(p) ==
    /\ state[p] \in {"call", "jump"}
    /\ IF issig(p) THEN psig(p) ELSE Goes(p, "user") /\ Still
Clock(p) == state[p] = "user" /\ Runs(p) /\ issig(p) /\ psig(p)

(* Who sends: another process by number, the keyboard to a terminal's      *)
(* processes, zombies included, and a write on a broken pipe.              *)
kill(p, to, s) == state[p] = "call" /\ to # {} /\ p \notin to /\ (\A q \in to : state[q] # Free) /\ psignal(to, s)
Keyboard == psignal({p \in Proc : state[p] # Free}, INT)
BrokenPipe(p) == state[p] = "call" /\ \E s \in Other : psignal({p}, s)

ssig(p, s, how) ==
    /\ state[p] = "call" /\ s # KILL
    /\ signal' = [signal EXCEPT ![p][s] = how]
    /\ sig' = IF sig[p] = s THEN [sig EXCEPT ![p] = NoSignal] ELSE sig
    /\ sent' = [sent EXCEPT ![p] = @ \ {s}]
    /\ UNCHANGED <<state, posts, late>>
exec(p) ==
    /\ state[p] = "call"
    /\ signal' = [signal EXCEPT ![p] = [s \in Signal |-> IF @[s] = "ignore" THEN "ignore" ELSE "default"]]
    /\ UNCHANGED <<sig, state, posts, sent, late>>
fork(p, q) ==
    /\ state[p] = "call" /\ state[q] = Free
    /\ signal' = [signal EXCEPT ![q] = signal[p]]
    /\ Goes(q, "ready")
    /\ UNCHANGED <<sig, posts, sent, late>>
exit(p) ==
    /\ state[p] = "call"
    /\ signal' = [signal EXCEPT ![p] = [s \in Signal |-> "ignore"]]
    /\ Goes(p, "exit")
    /\ UNCHANGED <<sig, posts, sent, late>>
Dies(p) == state[p] = "exit" /\ Goes(p, "zombie") /\ Still
Reap(p, q) ==
    /\ state[p] = "call" /\ state[q] = "zombie"
    /\ Goes(q, Free)
    /\ sig' = [sig EXCEPT ![q] = NoSignal]
    /\ sent' = [sent EXCEPT ![q] = {}]
    /\ late' = late \ {q}
    /\ UNCHANGED <<signal, posts>>

Next ==
    \/ Keyboard
    \/ \E p \in Proc :
        \/ Trap(p) \/ SleepTest(p) \/ SleepWait(p) \/ SleepSure(p) \/ Wakeup(p) \/ Resumed(p) \/ Returns(p) \/ Clock(p)
        \/ BrokenPipe(p) \/ exec(p) \/ exit(p) \/ Dies(p)
        \/ \E to \in SUBSET Proc, s \in Signal \cup {NoSignal} : kill(p, to, s)
        \/ \E s \in Signal, how \in {"default", "ignore", "catch"} : ssig(p, s, how)
        \/ \E q \in Proc : fork(p, q) \/ Reap(p, q)
Spec == Init /\ [][Next]_vars

----
(* A process that was sent SIGKIL keeps it until it leaves, whatever it or *)
(* others do; it never sleeps where a signal may disturb it while one it   *)
(* does not ignore is pending, unless the signal came from an interrupt    *)
(* between sleep's test and its sleep; a call is broken off only for a     *)
(* signal sent and not ignored; a new process starts clear.                *)
Delivered ==
    \A p \in Proc :
        /\ KILL \in sent[p] /\ Alive(p) /\ state[p] # "exit" => sig[p] = KILL
        /\ state[p] = "wait" /\ issig(p) => p \in late
        /\ state[p] = "jump" => \E s \in sent[p] : signal[p][s] # "ignore"
        /\ sig[p] \in sent[p] \cup {NoSignal}
        /\ state[p] = Free => sig[p] = NoSignal
====
