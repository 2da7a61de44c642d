------------------------------- MODULE SleepCall -------------------------------
(***************************************************************************)
(* The sleep system call (sslep, KEN/SYS2.C), the clock's second (CLOCK.C) *)
(* and stime (SYS4.C).  All sleepers wait on one address and share tout,   *)
(* the time of the next wakeup; the clock compares it for equality only.   *)
(***************************************************************************)
EXTENDS Integers

CONSTANTS
    Proc,
    Naps,       \* seconds asked for
    MaxTime     \* bound: the clock stops there

SleepAssumption == Naps \subseteq Nat /\ MaxTime \in Nat

VARIABLES
    time, tout,
    pc,         \* "user", "asleep" on tout, or "woken" and not yet on
    d           \* until when
vars == <<time, tout, pc, d>>

Init ==
    /\ time = 0 /\ tout = 0
    /\ pc = [p \in Proc |-> "user"] /\ d = [p \in Proc |-> 0]

----
(* One turn of the loop: done, or tout is brought forward if it is past or *)
(* too late, and the process sleeps.                                       *)
MustSetStale(e) == tout > e
MustSet(e) == tout <= time \/ tout > e
Wait(p, e) ==
    /\ d' = [d EXCEPT ![p] = e]
    /\ IF e > time
       THEN /\ pc' = [pc EXCEPT ![p] = "asleep"]
            /\ tout' = IF MustSet(e) THEN e ELSE tout
       ELSE /\ pc' = [pc EXCEPT ![p] = "user"]
            /\ UNCHANGED tout
    /\ UNCHANGED time

sslep(p, n) == pc[p] = "user"  /\ Wait(p, time + n)
Again(p)    == pc[p] = "woken" /\ Wait(p, d[p])

(* A signal takes a sleeper, or one about to sleep again, out of the call. *)
Signal(p) ==
    /\ pc[p] # "user"
    /\ pc' = [pc EXCEPT ![p] = "user"]
    /\ UNCHANGED <<time, tout, d>>

Woken == [p \in Proc |-> IF pc[p] = "asleep" THEN "woken" ELSE pc[p]]

Second ==
    /\ time < MaxTime
    /\ time' = time + 1
    /\ pc' = IF time' = tout THEN Woken ELSE pc
    /\ UNCHANGED <<tout, d>>

stime(t) ==
    /\ time' = t
    /\ pc' = Woken
    /\ UNCHANGED <<tout, d>>

Sleeper(p) == Again(p) \/ Signal(p) \/ \E n \in Naps : sslep(p, n)
Next == Second \/ (\E t \in 0..MaxTime : stime(t)) \/ (\E p \in Proc : Sleeper(p))
Spec == Init /\ [][Next]_vars

----
(* Nobody oversleeps: however calls, signals and settings of the clock     *)
(* fall, a process asleep has a wakeup before it that is not beyond its    *)
(* own time, and a clock that counts by ones will meet.                    *)
NoOversleep == \A p \in Proc : pc[p] = "asleep" => time < tout /\ tout <= d[p]

====
