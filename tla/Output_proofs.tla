--------------------------- MODULE Output_proofs ---------------------------
(***************************************************************************)
(* Theorems about Output, for every maxSize: its steps are steps of        *)
(* LossyFifo, hence what an output sends is in order and never sent twice. *)
(***************************************************************************)
EXTENDS Output, SequenceTheorems, TLAPS

FifoP == INSTANCE LossyFifo_proofs WITH
            Cap <- maxSize + 2,
            backlog <- Held \o dataQueue,
            delivered <- sent,
            open <- alive

(* addData's bound: never more than maxSize_ + 1 items wait. *)
QueueBounded == Len(dataQueue) <= maxSize + 1

(* An erased output holds nothing that its replacement could inherit. *)
ErasedIsEmpty == ~alive => dataQueue = <<>> /\ od = None

OutputInv == TypeOK /\ QueueBounded /\ ErasedIsEmpty

(* The invariant the refinement rests on holds initially. *)
LEMMA OutputInit == Init => OutputInv
  BY OutputAssumption DEF Init, OutputInv, TypeOK, QueueBounded, ErasedIsEmpty, None

(* Every action of Output keeps it. *)
LEMMA OutputStep == OutputInv /\ [Next]_vars => OutputInv'
  <1> SUFFICES ASSUME OutputInv, [Next]_vars
               PROVE  OutputInv'
    OBVIOUS
  <1> USE OutputAssumption DEF OutputInv, QueueBounded, ErasedIsEmpty, None
  <1>a. 1..offered \subseteq 1..(offered + 1) /\ offered \in Nat /\ Len(dataQueue) \in Nat
    BY LenProperties DEF TypeOK
  <1>b. dataQueue # <<>> =>
           /\ Head(dataQueue) \in 1..offered
           /\ Tail(dataQueue) \in Seq(1..offered)
           /\ Len(Tail(dataQueue)) = Len(dataQueue) - 1
    BY HeadTailProperties DEF TypeOK
  <1>1. CASE AddData
    <2>1. sent \in Seq(1..(offered + 1)) /\ dataQueue \in Seq(1..(offered + 1))
      BY <1>a, SeqMonotonic DEF TypeOK
    <2>2. /\ Append(dataQueue, offered + 1) \in Seq(1..(offered + 1))
          /\ Len(Append(dataQueue, offered + 1)) = Len(dataQueue) + 1
      BY <1>a, <2>1, AppendProperties DEF TypeOK
    <2>3. dataQueue' \in Seq(1..(offered + 1)) /\ Len(dataQueue') <= maxSize + 1
      <3>1. CASE Len(dataQueue) > maxSize
        BY <1>1, <2>1, <3>1 DEF AddData
      <3>2. CASE ~(Len(dataQueue) > maxSize)
        BY <1>1, <1>a, <2>2, <3>2 DEF AddData
      <3> QED  BY <3>1, <3>2
    <2>4. od \in 0..(offered + 1) /\ offered + 1 \in Nat /\ alive \in BOOLEAN
      BY <1>a DEF TypeOK
    <2> QED  BY <1>1, <2>1, <2>3, <2>4 DEF AddData, TypeOK
  <1>2. CASE Unrecorded
    <2>1. sent \in Seq(1..(offered + 1)) /\ dataQueue \in Seq(1..(offered + 1))
      BY <1>a, SeqMonotonic DEF TypeOK
    <2> QED  BY <1>2, <1>a, <2>1 DEF Unrecorded, TypeOK
  <1>3. CASE Pop
    <2>1. /\ dataQueue' \in Seq(1..offered) /\ od' \in 0..offered
          /\ Len(dataQueue') = Len(dataQueue) - 1
      BY <1>3, <1>a, <1>b DEF Pop
    <2>2. Len(dataQueue') <= maxSize + 1
      BY <1>a, <2>1
    <2> QED  BY <1>3, <2>1, <2>2 DEF Pop, TypeOK
  <1>4. CASE SendOk
    <2>1. Append(sent, od) \in Seq(1..offered)
      BY <1>4, AppendProperties DEF SendOk, TypeOK
    <2> QED  BY <1>4, <2>1 DEF SendOk, TypeOK
  <1>5. CASE SendFail
    <2>1. /\ offered' = offered /\ sent' = sent /\ od' = None
          /\ dataQueue' = <<>> /\ alive' = FALSE
      BY <1>5 DEF SendFail
    <2>2. TypeOK'
      <3>1. dataQueue' \in Seq(1..offered)
        BY <2>1, EmptySeq
      <3>2. alive' \in BOOLEAN
        BY <2>1
      <3> QED  BY <2>1, <3>1, <3>2 DEF TypeOK
    <2>3. Len(dataQueue') <= maxSize + 1
      BY <2>1
    <2>4. dataQueue' = <<>> /\ od' = 0
      BY <2>1
    <2> QED  BY <2>2, <2>3, <2>4
  <1>6. CASE Renew
    BY <1>6 DEF Renew, TypeOK
  <1>7. CASE Kill
    BY <1>7, EmptySeq DEF Kill, TypeOK
  <1>8. CASE UNCHANGED vars
    BY <1>8 DEF vars, TypeOK
  <1> QED  BY <1>1, <1>2, <1>3, <1>4, <1>5, <1>6, <1>7, <1>8 DEF Next

(* Types and the queue bound hold in every reachable state. *)
THEOREM OutputInvariant == Spec => []OutputInv
  BY OutputInit, OutputStep, PTL DEF Spec

(* addData, sendData, erase and checkOutput keep the types of Output.      *)
THEOREM OutputTypeOK == Spec => []TypeOK
  <1>1. OutputInv => TypeOK
    BY DEF OutputInv
  <1> QED  BY <1>1, OutputInvariant, PTL

-----------------------------------------------------------------------------
(* What the sender holds, put before the queue, is the abstract backlog.   *)
LEMMA BacklogFacts ==
  ASSUME TypeOK
  PROVE  /\ Held \in Seq(1..offered) /\ Held \o dataQueue \in Seq(1..offered)
         /\ Len(Held \o dataQueue) = Len(Held) + Len(dataQueue)
         /\ Len(Held) \in {0, 1} /\ Len(dataQueue) \in Nat
         /\ od = None => Held \o dataQueue = dataQueue
         /\ od # None => /\ Held = <<od>>
                         /\ Held \o dataQueue # <<>>
                         /\ Head(Held \o dataQueue) = od
                         /\ Tail(Held \o dataQueue) = dataQueue
  <1>1. CASE od = None
    BY <1>1, ConcatEmptySeq, EmptySeq, LenProperties DEF TypeOK, Held
  <1>2. CASE od # None
    <2>1. od \in 1..offered /\ Held = <<od>> /\ Held \in Seq(1..offered) /\ Len(Held) = 1
      BY <1>2 DEF TypeOK, Held, None
    <2>2. Len(dataQueue) \in Nat
      BY LenProperties DEF TypeOK
    <2> QED  BY <1>2, <2>1, <2>2, FifoP!InFront DEF TypeOK
  <1> QED  BY <1>1, <1>2

(* A step of Output is a step of LossyFifo or leaves its variables alone.  *)
LEMMA StepRefines ==
  OutputInv /\ OutputInv' /\ [Next]_vars => [Fifo!Next]_(Fifo!fifoVars)
  <1> SUFFICES ASSUME OutputInv, OutputInv', [Next]_vars
               PROVE  [Fifo!Next]_(Fifo!fifoVars)
    OBVIOUS
  <1> USE OutputAssumption
  <1> USE DEF Fifo!fifoVars, Fifo!Next
  <1>a. TypeOK /\ QueueBounded /\ ErasedIsEmpty /\ TypeOK'
    BY DEF OutputInv
  <1>1. CASE AddData /\ Len(dataQueue) > maxSize
    <2>1. Fifo!Refuse
      BY <1>1, <1>a, BacklogFacts DEF AddData, Fifo!Refuse, Held
    <2> QED  BY <2>1
  <1>2. CASE AddData /\ ~(Len(dataQueue) > maxSize)
    <2>1. Held' = Held
      BY <1>2 DEF AddData, Held
    <2>2. offered + 1 \in 1..(offered + 1) /\ offered \in Nat
      BY <1>a DEF TypeOK
    <2>3. Held \in Seq(Nat) /\ dataQueue \in Seq(Nat)
      BY <1>a, BacklogFacts, SeqMonotonic, 1..offered \subseteq Nat DEF TypeOK
    <2>4. Held \o Append(dataQueue, offered + 1) = Append(Held \o dataQueue, offered + 1)
      BY <2>2, <2>3, FifoP!AppendBehind
    <2>5. Len(Held \o dataQueue) < maxSize + 2
      BY <1>2, <1>a, BacklogFacts
    <2>6. Fifo!Accept
      BY <1>2, <2>1, <2>4, <2>5 DEF AddData, Fifo!Accept
    <2> QED  BY <2>6
  <1>3. CASE Unrecorded
    <2>1. Fifo!Refuse
      BY <1>3 DEF Unrecorded, Fifo!Refuse, Held
    <2> QED  BY <2>1
  <1>4. CASE Pop
    <2>1. od' # None /\ od' = Head(dataQueue) /\ dataQueue' = Tail(dataQueue)
      BY <1>4, <1>a, HeadTailProperties DEF Pop, TypeOK, None
    <2>2. Held' \o dataQueue' = Held \o dataQueue
      <3>1. Held \o dataQueue = dataQueue
        BY <1>4, <1>a, BacklogFacts DEF Pop
      <3>2. Held' = <<Head(dataQueue)>>
        BY <2>1 DEF Held
      <3>3. <<Head(dataQueue)>> \o Tail(dataQueue) = dataQueue
        BY <1>4, <1>a, FifoP!PutBack DEF Pop, TypeOK
      <3> QED  BY <2>1, <3>1, <3>2, <3>3
    <2> QED  BY <1>4, <2>2 DEF Pop
  <1>5. CASE SendOk
    <2>1. /\ Held' \o dataQueue' = Tail(Held \o dataQueue)
          /\ sent' = Append(sent, Head(Held \o dataQueue))
          /\ Held \o dataQueue # <<>>
      <3>1. Held' \o dataQueue' = dataQueue
        BY <1>5, <1>a, ConcatEmptySeq DEF SendOk, Held, TypeOK
      <3> QED  BY <1>5, <1>a, <3>1, BacklogFacts DEF SendOk
    <2>2. alive
      BY <1>5, <1>a DEF SendOk, ErasedIsEmpty
    <2>3. Fifo!Deliver
      BY <1>5, <2>1, <2>2 DEF SendOk, Fifo!Deliver
    <2> QED  BY <2>3
  <1>6. CASE SendFail \/ Renew \/ Kill
    <2>1. /\ dataQueue' = <<>> /\ Held' = <<>>
          /\ alive' \in BOOLEAN /\ UNCHANGED <<offered, sent>>
      BY <1>6, <1>a DEF SendFail, Renew, Kill, Held, ErasedIsEmpty
    <2>2. Held' \o dataQueue' = <<>>
      BY <2>1
    <2>3. Fifo!Replace
      BY <2>1, <2>2 DEF Fifo!Replace
    <2> QED  BY <2>3
  <1>7. CASE UNCHANGED vars
    BY <1>7 DEF vars, Held
  <1> QED  BY <1>1, <1>2, <1>3, <1>4, <1>5, <1>6, <1>7 DEF Next

(* The output of the agent keeps the promise of the lossy queue, for every *)
(* queue size.                                                             *)
THEOREM OutputImplementsFifo == Spec => ImplementsFifo
  <1>1. Init => Fifo!Init
    BY DEF Init, Fifo!Init, Held
  <1>2. Spec => []OutputInv
    BY OutputInvariant
  <1> QED  BY <1>1, <1>2, StepRefines, PTL DEF Spec, ImplementsFifo, Fifo!Spec

(* What the agent sends through an output is in order, none of it twice.   *)
THEOREM OutputInOrder == Spec => []InOrder
  <1>1. FifoP!CapAssumption
    BY OutputAssumption DEF FifoP!CapAssumption
  <1>2. FifoP!Spec => []FifoP!FifoInv
    BY <1>1, FifoP!FifoInvariant
  <1>3. Fifo!Spec => FifoP!Spec
    BY PTL DEF Fifo!Spec, FifoP!Spec, Fifo!Init, FifoP!Init, Fifo!Next, FifoP!Next,
       Fifo!fifoVars, FifoP!fifoVars, Fifo!Accept, FifoP!Accept, Fifo!Refuse,
       FifoP!Refuse, Fifo!Deliver, FifoP!Deliver, Fifo!LoseHead, FifoP!LoseHead,
       Fifo!Replace, FifoP!Replace
  <1>4. FifoP!FifoInv => InOrder
    BY DEF FifoP!FifoInv, FifoP!InOrder, InOrder, Fifo!InOrder, Fifo!Increasing,
           FifoP!Increasing, Fifo!Before, FifoP!Before
  <1> QED  BY OutputImplementsFifo, <1>2, <1>3, <1>4, PTL DEF ImplementsFifo
=============================================================================
