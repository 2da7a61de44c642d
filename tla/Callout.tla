-------------------------------- MODULE Callout --------------------------------
(***************************************************************************)
(* The callouts of KEN/CLOCK.C: what timeout sorts in and the clock calls. *)
(* An entry's time counts from the entry before it, so the clock counts    *)
(* down one entry only.  A function called may call timeout itself, as     *)
(* ttrstrt does through ttstart.                                           *)
(***************************************************************************)
EXTENDS Integers, Sequences, FiniteSets

CONSTANTS
    Call,       \* the calls in flight, by name
    Times       \* the delays asked for, in ticks

(* timeout does not look at NCALL: its callers must leave room.            *)
CalloutAssumption == Times \subseteq Nat

VARIABLES
    callout,    \* the entries before the one without a function
    calling,    \* the clock's: what it has yet to call of those whose time has come
    due         \* history: for each call in the list, the ticks left to it
vars == <<callout, calling, due>>

Entry(c, t) == [call |-> c, time |-> t]
Init == callout = <<>> /\ calling = <<>> /\ due = [c \in {} |-> 0]

----
Sum(l, k) == LET s[j \in 0..Len(l)] == IF j = 0 THEN 0 ELSE s[j - 1] + l[j].time IN s[k]

(* Before the first entry that is due later.                               *)
PlacedBefore(l, c, t) ==
    LET n == Cardinality({k \in DOMAIN l : Sum(l, k) < t})
        later == IF n = Len(l) THEN <<>>
                 ELSE <<Entry(l[n + 1].call, Sum(l, n + 1) - t)>> \o SubSeq(l, n + 2, Len(l))
    IN  SubSeq(l, 1, n) \o <<Entry(c, t)>> \o later
Placed(l, c, t) ==
    LET n == Cardinality({k \in DOMAIN l : Sum(l, k) <= t})
        later == IF n = Len(l) THEN <<>>
                 ELSE <<Entry(l[n + 1].call, Sum(l, n + 1) - t)>> \o SubSeq(l, n + 2, Len(l))
    IN  SubSeq(l, 1, n) \o <<Entry(c, t - Sum(l, n))>> \o later

Adds(c, t) ==
    /\ callout' = Placed(callout, c, t)
    /\ due' = [x \in DOMAIN due \cup {c} |-> IF x = c THEN t ELSE due[x]]
timeout(c, t) ==
    /\ calling = <<>> /\ c \notin DOMAIN due
    /\ Adds(c, t) /\ UNCHANGED calling

(* The first entry with time left loses a tick; those without any at the   *)
(* head of the list go, and are called in order.                           *)
Ticked(l) ==
    LET some == {k \in DOMAIN l : l[k].time > 0}
        k == CHOOSE j \in some : \A i \in some : j <= i
    IN  IF some = {} THEN l ELSE [l EXCEPT ![k].time = @ - 1]
Called(l) == {k \in DOMAIN l : Sum(l, k) <= 0}

clock ==
    /\ calling = <<>> /\ callout # <<>>
    /\ LET l == Ticked(callout)
           n == Cardinality(Called(l))
       IN  /\ callout' = SubSeq(l, n + 1, Len(l))
           /\ calling' = [k \in 1..n |-> l[k].call]
           /\ due' = [c \in DOMAIN due \ {l[k].call : k \in Called(l)} |-> due[c] - 1]
(* A function called may ask to be called again, but not at once.          *)
Calls ==
    /\ calling # <<>>
    /\ calling' = Tail(calling)
    /\ \/ UNCHANGED <<callout, due>>
       \/ \E t \in Times \ {0} : Adds(Head(calling), t)

Next == clock \/ Calls \/ \E c \in Call, t \in Times : timeout(c, t)
Spec == Init /\ [][Next]_vars

----
(* Whatever is added between whichever entries and whatever a called       *)
(* function adds again, each call stands in the list once and comes when   *)
(* the ticks asked for are over, neither lost nor put off by the others.   *)
OnTime ==
    /\ DOMAIN due = {callout[k].call : k \in DOMAIN callout}
    /\ Len(callout) = Cardinality(DOMAIN due)
    /\ \A k \in DOMAIN callout : Sum(callout, k) = due[callout[k].call]
    /\ \A k \in DOMAIN callout : callout[k].time >= 0
====
