----------------------------- MODULE LossyFifo -----------------------------
(***************************************************************************)
(* What a queue between two threads of dfsrr promises, seen from outside:  *)
(* items are offered one after the other, each is delivered at most once   *)
(* and in the order it was offered, the backlog is bounded, an item is     *)
(* refused only when the backlog is at its limit or nobody holds a queue,  *)
(* and an item that was taken may be lost.  The agent's Output (module     *)
(* Output) and the server's Store2Mysql (module Store2Mysql) are both      *)
(* shown to implement it.                                                  *)
(*                                                                         *)
(* Items are numbered 1, 2, ... in the order they are offered.             *)
(***************************************************************************)
EXTENDS Naturals, Sequences

CONSTANT Cap    \* the largest backlog

(* What the theorems assume of Cap; who uses the queue states its own.     *)
CapAssumption == Cap \in Nat \ {0}

VARIABLES
    offered,    \* how many items were offered so far
    backlog,    \* accepted, neither delivered nor lost, oldest first
    delivered,  \* delivered, oldest first
    open        \* FALSE while there is no queue to put an item into

fifoVars == <<offered, backlog, delivered, open>>

Init ==
    /\ offered = 0
    /\ backlog = <<>>
    /\ delivered = <<>>
    /\ open \in BOOLEAN

(* The producer offers an item and the queue keeps it. *)
Accept ==
    /\ open
    /\ Len(backlog) < Cap
    /\ offered' = offered + 1
    /\ backlog' = Append(backlog, offered + 1)
    /\ UNCHANGED <<delivered, open>>

(* The producer offers an item that is discarded: the backlog is full, but *)
(* for the one item that may be in the consumer's hands.                   *)
Refuse ==
    /\ open => Len(backlog) + 1 >= Cap
    /\ offered' = offered + 1
    /\ UNCHANGED <<backlog, delivered, open>>

Deliver ==
    /\ open
    /\ backlog # <<>>
    /\ delivered' = Append(delivered, Head(backlog))
    /\ backlog' = Tail(backlog)
    /\ UNCHANGED <<offered, open>>

(* The oldest item is lost: it was taken and its delivery failed. *)
LoseHead ==
    /\ open
    /\ backlog # <<>>
    /\ backlog' = Tail(backlog)
    /\ UNCHANGED <<offered, delivered, open>>

(* The queue is destroyed with everything in it, or a new one takes its    *)
(* place.                                                                  *)
Replace ==
    /\ backlog' = <<>>
    /\ open' \in BOOLEAN
    /\ UNCHANGED <<offered, delivered>>

Next == Accept \/ Refuse \/ Deliver \/ LoseHead \/ Replace

Spec == Init /\ [][Next]_fifoVars

-----------------------------------------------------------------------------
TypeOK ==
    /\ offered \in Nat
    /\ backlog \in Seq(1..offered)
    /\ delivered \in Seq(1..offered)
    /\ open \in BOOLEAN

Increasing(s) == \A i, j \in 1..Len(s) : i < j => s[i] < s[j]

(* Every item of s was offered before every item of t. *)
Before(s, t) == \A i \in 1..Len(s), j \in 1..Len(t) : s[i] < t[j]

(* At most once and in order: what was delivered, and what still may be,   *)
(* are numbered in the order they were offered, without a repetition, and  *)
(* nothing that waits is older than something already delivered.           *)
InOrder ==
    /\ Increasing(delivered)
    /\ Increasing(backlog)
    /\ Before(delivered, backlog)

BacklogBounded == Len(backlog) <= Cap
=============================================================================
