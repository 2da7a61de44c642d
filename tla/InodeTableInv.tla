---------------------------- MODULE InodeTableInv ----------------------------
(***************************************************************************)
(* What is claimed of the inode table.                                     *)
(***************************************************************************)
EXTENDS InodeTable

Reg == [pc : Label, call : Call, name : Name \cup {NoName}, name2 : Name \cup {NoName},
        off : Off \cup {0}, ino : Ino \cup {0}, dp : Slot \cup {NoSlot},
        ip : Slot \cup {NoSlot}, lp : Slot \cup {NoSlot}, k : Nat, ret : Label]

Node == [used : BOOLEAN, nlink : 0..255]

(* Every variable has its type: a call that needs an inode has one. *)
TypeOK ==
    /\ flag \in [Slot -> SUBSET Flag]
    /\ count \in [Slot -> Nat]
    /\ num \in [Slot -> Ino \cup {0}]
    /\ node \in [Slot -> Node]
    /\ dnode \in [Ino -> Node]
    /\ dir \in [Off -> [name : Name \cup {NoName}, ino : Ino \cup {0}]]
    /\ spare \in Seq(Ino \cup {0})
    /\ ilock \in BOOLEAN /\ updlock \in BOOLEAN
    /\ u \in [Proc -> Reg]
    /\ fd \in [Proc -> Slot \cup {NoSlot}]
    /\ chan \in [Proc -> Slot \cup {Ilock, NoChan}]
    /\ cpu \in Proc \cup {NoProc}
    /\ left \in Nat /\ lost \in Nat

(* The references a process has to a slot. *)
Reference == {"fd", "dp", "ip", "lp"}
Refers(p, r) == CASE r = "fd" -> fd[p] [] r = "dp" -> u[p].dp
                  [] r = "ip" -> u[p].ip [] r = "lp" -> u[p].lp
References(s) == {x \in Proc \X Reference : Refers(x[1], x[2]) = s}

(* i_count is the number of references there are: descriptors and the      *)
(* inodes calls have in hand, and for the root rootdir and every current   *)
(* directory.  A slot too low is reused under somebody; one too high never *)
(* leaves.                                                                 *)
RefCount ==
    \A s \in Slot :
        count[s] = Cardinality(References(s))
                     + (IF s = Root THEN 1 + Cardinality(Proc) + lost ELSE 0)

(* No inode is in core twice. *)
NoAlias == \A s, t \in Slot : num[s] = num[t] /\ num[s] # 0 => s = t

Busy(q, s) ==
    \/ u[q].dp = s \/ u[q].ip = s \/ u[q].lp = s
    \/ /\ u[q].call = "sync" /\ u[q].pc \in {"ibread", "ibwrite"}
       /\ u[q].k = s

(* Whoever sleeps on an inode's lock has left IWANT set, and somebody has  *)
(* the inode in hand and will call prele; whoever waits for the spare list *)
(* has somebody refilling it.  (A directory creat has kept is never        *)
(* released: lost.)                                                        *)
NoLostWakeup ==
    \A p \in Proc :
        /\ chan[p] \in Slot =>
              /\ "WANT" \in flag[chan[p]]
              /\ lost = 0 => \E q \in Proc \ {p} : Busy(q, chan[p])
        /\ chan[p] = Ilock => \E q \in Proc : u[q].pc = "scan"

Loaded(s) == \A p \in Proc : u[p].pc = "iread" => u[p].ip # s

(* INODE.H: an inode in core that is not marked modified is what the disk  *)
(* has: a change that is not marked is lost at the last iput.              *)
Coherent ==
    \A s \in Slot :
        num[s] \in Ino /\ Loaded(s) /\ "UPD" \notin flag[s]
            => node[s] = dnode[num[s]]

(* INODE.H: an inode is named by its dev/inumber pair, so one that somebody *)
(* refers to keeps its number.                                              *)
Named == \A s \in Slot : count[s] > 0 => num[s] # 0

(* Every system call ends, unless a creat that failed has kept the         *)
(* directory.                                                              *)
CallsEnd == \A p \in Proc : u[p].pc # "user" ~> u[p].pc = "user" \/ lost > 0

(* SYS2.C:220-222: link unlocks the file "to avoid possibly hanging the    *)
(* namei", so its second namei comes back.                                 *)
LinkEnds == \A p \in Proc : u[p].call = "link2" ~> u[p].call # "link2" \/ lost > 0

(* What iget or namei has returned and nobody has released yet. *)
Owns(p, s) ==
    \/ /\ u[p].dp = s
       /\ u[p].pc \in {"search", "ialloc", "iloop", "allocd", "scan", "mkwrite", "lkwrite"}
    \/ /\ u[p].ip = s
       /\ u[p].pc \in {"opened", "otrunc", "unlinked", "unwrite", "allocd", "mkwrite",
                        "linked", "exists"}

(* NAMI.C:4, IGET.C:11: what iget and namei return is locked, and is so    *)
(* until the caller unlocks it.                                            *)
LockHeld == \A p \in Proc, s \in Slot : Owns(p, s) => "LOCK" \in flag[s]
===============================================================================
