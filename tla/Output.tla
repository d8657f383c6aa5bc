------------------------------- MODULE Output -------------------------------
(***************************************************************************)
(* One output kind of the agent (src/src/dfsrr/output.cpp) over its whole  *)
(* life.  The collector thread offers every sample with addData; the send  *)
(* thread pops one item with sendData and hands it to send, outside the    *)
(* lock.  A failed send makes Dfsrr::sendData erase the output, and its    *)
(* queue dies with it; checkOutput puts a new output in its place minutes  *)
(* later; dfsrrctl.sh stops the agent with kill -9.                        *)
(*                                                                         *)
(* Each step under mutex_ is one action.  Samples are numbered in the      *)
(* order the collector produces them.                                      *)
(***************************************************************************)
EXTENDS Naturals, Sequences

CONSTANTS
    maxSize,    \* maxSize_, 2048 in the code
    MaxOffered  \* bound: samples the collector produces

ASSUME OutputAssumption == maxSize \in Nat /\ MaxOffered \in Nat

None == 0       \* the send thread holds no item

VARIABLES
    offered,    \* samples produced so far
    dataQueue,  \* dataQueue_
    od,         \* the item sendData holds between pop and send, or None
    sent,       \* items send() reported as sent
    alive       \* the output is in outputVec_

vars == <<offered, dataQueue, od, sent, alive>>

(* The constructor of OutputTcp throws when there is no way to connect.    *)
Init ==
    /\ offered = 0
    /\ dataQueue = <<>>
    /\ od = None
    /\ sent = <<>>
    /\ alive \in BOOLEAN

(* addData: the test is size() > maxSize_, so maxSize_ + 1 items fit. *)
AddData ==
    /\ alive
    /\ offered < MaxOffered
    /\ offered' = offered + 1
    /\ dataQueue' = IF Len(dataQueue) > maxSize
                    THEN dataQueue
                    ELSE Append(dataQueue, offered + 1)
    /\ UNCHANGED <<od, sent, alive>>

(* The collector's loop over outputVec_ finds no output of this kind. *)
Unrecorded ==
    /\ ~alive
    /\ offered < MaxOffered
    /\ offered' = offered + 1
    /\ UNCHANGED <<dataQueue, od, sent, alive>>

(* Mutant of Pop: waits for a second item. *)
PopLate ==
    /\ alive /\ od = None
    /\ Len(dataQueue) > 1
    /\ od' = Head(dataQueue)
    /\ dataQueue' = Tail(dataQueue)
    /\ UNCHANGED <<offered, sent, alive>>

(* The first half of sendData, under the lock. *)
Pop ==
    /\ alive
    /\ od = None
    /\ dataQueue # <<>>
    /\ od' = Head(dataQueue)
    /\ dataQueue' = Tail(dataQueue)
    /\ UNCHANGED <<offered, sent, alive>>

(* send returned 0. *)
SendOk ==
    /\ od # None
    /\ sent' = Append(sent, od)
    /\ od' = None
    /\ UNCHANGED <<offered, dataQueue, alive>>

(* Mutant of SendFail: the queue survives. *)
SendFailKeep ==
    /\ od # None
    /\ od' = None
    /\ alive' = FALSE
    /\ UNCHANGED <<offered, dataQueue, sent>>

(* send returned -1: the item is gone, and outputVec_.erase destroys the   *)
(* output and everything queued in it.                                     *)
SendFail ==
    /\ od # None
    /\ od' = None
    /\ dataQueue' = <<>>
    /\ alive' = FALSE
    /\ UNCHANGED <<offered, sent>>

(* checkOutput finds the kind missing and pushes a new output. *)
Renew ==
    /\ ~alive
    /\ alive' = TRUE
    /\ UNCHANGED <<offered, dataQueue, od, sent>>

(* kill -9 and a new start: nothing queued survives. *)
Kill ==
    /\ dataQueue' = <<>>
    /\ od' = None
    /\ alive' \in BOOLEAN
    /\ UNCHANGED <<offered, sent>>

Next ==
    \/ AddData
    \/ Unrecorded
    \/ Pop
    \/ SendOk
    \/ SendFail
    \/ Renew
    \/ Kill

Spec == Init /\ [][Next]_vars

(* The send thread scans outputVec_ every 30 ms and send() returns. *)
FairSpec == Spec /\ WF_vars(Pop) /\ WF_vars(SendOk \/ SendFail)

-----------------------------------------------------------------------------
Held == IF od = None THEN <<>> ELSE <<od>>

(* Types of the variables, for every step of Output. *)
TypeOK ==
    /\ offered \in Nat
    /\ dataQueue \in Seq(1..offered)
    /\ od \in 0..offered
    /\ sent \in Seq(1..offered)
    /\ alive \in BOOLEAN

(* The detailed queue keeps the promise of LossyFifo. *)
Fifo == INSTANCE LossyFifo WITH
            Cap <- maxSize + 2,
            backlog <- Held \o dataQueue,
            delivered <- sent,
            open <- alive

(* addData, sendData, erase and checkOutput together are a bounded lossy   *)
(* queue: a sample is discarded only by a full or missing output, and a    *)
(* new output starts with an empty queue.                                  *)
ImplementsFifo == Fifo!Spec

(* addData and sendData together: what went out, what is in send's hands   *)
(* and what waits are in the order the samples were produced, none twice,  *)
(* whatever was discarded, lost by a failed send or lost with the process. *)
InOrder == Fifo!InOrder

(* A queued sample does not wait forever: send thread pops it, or the      *)
(* queue it is in is destroyed.                                            *)
Drains ==
    \A n \in 1..MaxOffered :
        (\E i \in 1..Len(dataQueue) : dataQueue[i] = n)
            ~> (\A i \in 1..Len(dataQueue) : dataQueue[i] # n)
=============================================================================
