-------------------------- MODULE LossyFifo_proofs --------------------------
(* Theorems about LossyFifo: the bounded queue is in order for every Cap;  *)
(* and what the modules that implement it need of a queue and the item     *)
(* taken from its head.                                                    *)
EXTENDS LossyFifo, SequenceTheorems, TLAPS

(***************************************************************************)
(* The inductive invariant: InOrder alone says nothing about the number    *)
(* the next item gets, which TypeOK bounds from below.                     *)
(***************************************************************************)
FifoInv == TypeOK /\ InOrder /\ BacklogBounded

(* A number larger than all of s keeps s increasing. *)
LEMMA IncreasingAppend ==
  ASSUME NEW s \in Seq(Nat), NEW n \in Nat,
         Increasing(s),
         \A i \in 1..Len(s) : s[i] < n
  PROVE  Increasing(Append(s, n))
  <1>1. /\ Len(s) \in Nat
        /\ Len(Append(s, n)) = Len(s) + 1
        /\ \A i \in 1..Len(s) : Append(s, n)[i] = s[i]
        /\ Append(s, n)[Len(s) + 1] = n
    BY AppendProperties, LenProperties
  <1>2. \A i \in 1..Len(s) : s[i] \in Nat
    BY ElementOfSeq
  <1> QED  BY <1>1, <1>2, SMTT(20) DEF Increasing

(* Without its head an increasing sequence is increasing, and above it. *)
LEMMA IncreasingTail ==
  ASSUME NEW s \in Seq(Nat), s # <<>>, Increasing(s)
  PROVE  /\ Increasing(Tail(s))
         /\ \A i \in 1..Len(Tail(s)) : Head(s) < Tail(s)[i]
  <1>1. /\ Len(s) \in Nat \ {0}
        /\ Len(Tail(s)) = Len(s) - 1
        /\ \A i \in 1..Len(Tail(s)) : Tail(s)[i] = s[i + 1]
        /\ Head(s) = s[1]
    BY HeadTailProperties, EmptySeq
  <1> QED  BY <1>1 DEF Increasing

(* The invariant holds initially. *)
LEMMA FifoInit == CapAssumption /\ Init => FifoInv
  BY DEF CapAssumption, Init, FifoInv, TypeOK, InOrder, BacklogBounded, Increasing, Before

(* Every step of a queue keeps the invariant. *)
LEMMA FifoStep == CapAssumption /\ FifoInv /\ [Next]_fifoVars => FifoInv'
  <1> SUFFICES ASSUME CapAssumption, FifoInv, [Next]_fifoVars
               PROVE  FifoInv'
    OBVIOUS
  <1> USE DEF CapAssumption
  <1>a. /\ backlog \in Seq(Nat) /\ delivered \in Seq(Nat)
        /\ Len(backlog) \in Nat /\ Len(delivered) \in Nat
        /\ \A i \in 1..Len(backlog) : backlog[i] \in 1..offered
        /\ \A i \in 1..Len(delivered) : delivered[i] \in 1..offered
        /\ offered \in Nat
    BY SeqMonotonic, ElementOfSeq, LenProperties, 1..offered \subseteq Nat DEF FifoInv, TypeOK
  <1>b. backlog # <<>> =>
           /\ Len(backlog) \in Nat \ {0}
           /\ Head(backlog) = backlog[1]
           /\ Tail(backlog) \in Seq(1..offered)
           /\ Len(Tail(backlog)) = Len(backlog) - 1
           /\ \A i \in 1..Len(Tail(backlog)) : Tail(backlog)[i] = backlog[i + 1]
    BY HeadTailProperties, EmptySeq DEF FifoInv, TypeOK
  <1>1. CASE Accept
    <2>1. TypeOK'
      BY <1>1, SeqMonotonic, AppendProperties, 1..offered \subseteq 1..(offered + 1)
         DEF Accept, FifoInv, TypeOK
    <2>2. Increasing(Append(backlog, offered + 1))
      <3>1. \A i \in 1..Len(backlog) : backlog[i] < offered + 1
        BY <1>a
      <3> QED  BY <1>a, <3>1, IncreasingAppend DEF FifoInv, InOrder
    <2>3. Before(delivered, Append(backlog, offered + 1))
      <3>1. /\ Len(Append(backlog, offered + 1)) = Len(backlog) + 1
            /\ \A i \in 1..Len(backlog) : Append(backlog, offered + 1)[i] = backlog[i]
            /\ Append(backlog, offered + 1)[Len(backlog) + 1] = offered + 1
        BY <1>a, AppendProperties
      <3> QED  BY <1>a, <3>1 DEF Before, FifoInv, InOrder
    <2>4. BacklogBounded'
      BY <1>1, <1>a, AppendProperties DEF Accept, BacklogBounded
    <2> QED  BY <1>1, <2>1, <2>2, <2>3, <2>4 DEF Accept, FifoInv, InOrder
  <1>2. CASE Refuse
    <2>1. TypeOK'
      BY <1>2, SeqMonotonic, 1..offered \subseteq 1..(offered + 1) DEF Refuse, FifoInv, TypeOK
    <2> QED  BY <1>2, <2>1 DEF Refuse, FifoInv, InOrder, BacklogBounded
  <1>3. CASE Deliver
    <2>1. Head(backlog) \in 1..offered
      BY <1>3, <1>a, <1>b DEF Deliver
    <2>2. TypeOK'
      BY <1>3, <1>b, <2>1, AppendProperties DEF Deliver, FifoInv, TypeOK
    <2>3. Increasing(Append(delivered, Head(backlog)))
      <3>1. \A i \in 1..Len(delivered) : delivered[i] < Head(backlog)
        BY <1>3, <1>a, <1>b DEF Deliver, FifoInv, InOrder, Before
      <3>2. Head(backlog) \in Nat
        BY <1>a, <2>1
      <3> QED  BY <1>a, <3>1, <3>2, IncreasingAppend DEF FifoInv, InOrder
    <2>4. /\ Increasing(Tail(backlog))
          /\ \A i \in 1..Len(Tail(backlog)) : Head(backlog) < Tail(backlog)[i]
      BY <1>3, <1>a, IncreasingTail DEF Deliver, FifoInv, InOrder
    <2>5. Before(Append(delivered, Head(backlog)), Tail(backlog))
      <3>1. /\ Len(Append(delivered, Head(backlog))) = Len(delivered) + 1
            /\ \A i \in 1..Len(delivered) :
                 Append(delivered, Head(backlog))[i] = delivered[i]
            /\ Append(delivered, Head(backlog))[Len(delivered) + 1] = Head(backlog)
        BY <1>a, <2>1, AppendProperties
      <3> QED  BY <1>3, <1>a, <1>b, <2>4, <3>1 DEF Deliver, Before, FifoInv, InOrder
    <2>6. BacklogBounded'
      BY <1>3, <1>a, <1>b DEF Deliver, FifoInv, BacklogBounded
    <2> QED  BY <1>3, <2>2, <2>3, <2>4, <2>5, <2>6 DEF Deliver, FifoInv, InOrder
  <1>4. CASE LoseHead
    <2>1. TypeOK'
      BY <1>4, <1>b DEF LoseHead, FifoInv, TypeOK
    <2>2. Increasing(Tail(backlog))
      BY <1>4, <1>a, IncreasingTail DEF LoseHead, FifoInv, InOrder
    <2>3. Before(delivered, Tail(backlog))
      BY <1>4, <1>a, <1>b DEF LoseHead, Before, FifoInv, InOrder
    <2>4. BacklogBounded'
      BY <1>4, <1>a, <1>b DEF LoseHead, FifoInv, BacklogBounded
    <2> QED  BY <1>4, <2>1, <2>2, <2>3, <2>4 DEF LoseHead, FifoInv, InOrder
  <1>5. CASE Replace
    BY <1>5 DEF Replace, FifoInv, TypeOK, InOrder, BacklogBounded, Increasing, Before
  <1>6. CASE UNCHANGED fifoVars
    BY <1>6 DEF fifoVars, FifoInv, TypeOK, InOrder, BacklogBounded
  <1> QED  BY <1>1, <1>2, <1>3, <1>4, <1>5, <1>6 DEF Next

(* Every queue that keeps the promise delivers in order and at most once.  *)
THEOREM FifoInvariant == CapAssumption => (Spec => []FifoInv)
  <1> SUFFICES ASSUME CapAssumption PROVE Spec => []FifoInv
    OBVIOUS
  <1>1. Init => FifoInv
    BY FifoInit
  <1>2. FifoInv /\ [Next]_fifoVars => FifoInv'
    BY FifoStep
  <1> QED  BY <1>1, <1>2, PTL DEF Spec

(* The backlog and what was delivered only ever hold items that arrived.   *)
THEOREM FifoTypeOK == CapAssumption => (Spec => []TypeOK)
  <1> SUFFICES ASSUME CapAssumption PROVE Spec => []TypeOK
    OBVIOUS
  <1>1. FifoInv => TypeOK
    BY DEF FifoInv
  <1>2. Spec => []FifoInv
    BY FifoInvariant
  <1> QED  BY <1>1, <1>2, PTL

(* addData's test keeps the backlog within its capacity, for every Cap.    *)
THEOREM FifoBounded == CapAssumption => (Spec => []BacklogBounded)
  <1> SUFFICES ASSUME CapAssumption PROVE Spec => []BacklogBounded
    OBVIOUS
  <1>1. FifoInv => BacklogBounded
    BY DEF FifoInv
  <1>2. Spec => []FifoInv
    BY FifoInvariant
  <1> QED  BY <1>1, <1>2, PTL

(* The order that a user of the queue sees, without the types: whatever was  *)
(* delivered or waits is in the order of arrival, and nothing occurs twice.  *)
THEOREM FifoInOrder == CapAssumption => (Spec => []InOrder)
  <1> SUFFICES ASSUME CapAssumption PROVE Spec => []InOrder
    OBVIOUS
  <1>1. FifoInv => InOrder
    BY DEF FifoInv
  <1>2. Spec => []FifoInv
    BY FifoInvariant
  <1> QED  BY <1>1, <1>2, PTL

-----------------------------------------------------------------------------
(* The item put back in front is the queue it was taken from. *)
LEMMA PutBack ==
  ASSUME NEW S, NEW q \in Seq(S), q # <<>>
  PROVE  <<Head(q)>> \o Tail(q) = q
  <1> DEFINE p == <<Head(q)>> \o Tail(q)
  <1>1. /\ Head(q) \in S /\ Tail(q) \in Seq(S)
        /\ Len(Tail(q)) = Len(q) - 1
        /\ \A i \in 1..Len(Tail(q)) : Tail(q)[i] = q[i + 1]
        /\ Len(q) \in Nat \ {0}
    BY HeadTailProperties, EmptySeq
  <1>2. <<Head(q)>> \in Seq(S) /\ Len(<<Head(q)>>) = 1
    BY <1>1
  <1>3. /\ p \in Seq(S)
        /\ Len(p) = Len(q)
        /\ \A i \in 1..Len(q) : p[i] = IF i <= 1 THEN <<Head(q)>>[i] ELSE Tail(q)[i - 1]
    BY <1>1, <1>2, ConcatProperties
  <1>4. \A i \in 1..Len(q) : p[i] = q[i]
    BY <1>1, <1>3
  <1> QED  BY <1>3, <1>4, SeqEqual

(* An item in front of a queue is the head, and the queue the tail. *)
LEMMA InFront ==
  ASSUME NEW S, NEW x \in S, NEW q \in Seq(S)
  PROVE  /\ <<x>> \o q \in Seq(S)
         /\ <<x>> \o q # <<>>
         /\ Len(<<x>> \o q) = 1 + Len(q)
         /\ Head(<<x>> \o q) = x
         /\ Tail(<<x>> \o q) = q
  <1>1. <<x>> \in Seq(S) /\ Len(<<x>>) = 1 /\ Len(q) \in Nat
    BY LenProperties
  <1>2. /\ <<x>> \o q \in Seq(S)
        /\ Len(<<x>> \o q) = 1 + Len(q)
        /\ \A i \in 1..(1 + Len(q)) :
             (<<x>> \o q)[i] = IF i <= 1 THEN <<x>>[i] ELSE q[i - 1]
    BY <1>1, ConcatProperties
  <1>3. <<x>> \o q # <<>>
    BY <1>1, <1>2, EmptySeq
  <1>4. Head(<<x>> \o q) = x
    BY <1>1, <1>2, <1>3
  <1>5. /\ Tail(<<x>> \o q) \in Seq(S)
        /\ Len(Tail(<<x>> \o q)) = Len(q)
        /\ \A i \in 1..Len(q) : Tail(<<x>> \o q)[i] = q[i]
    BY <1>1, <1>2, <1>3, HeadTailProperties
  <1>6. Tail(<<x>> \o q) = q
    BY <1>5, SeqEqual
  <1> QED  BY <1>2, <1>3, <1>4, <1>6

(* Appending to the back leaves the front alone. *)
LEMMA AppendBehind ==
  ASSUME NEW S, NEW h \in Seq(S), NEW q \in Seq(S), NEW e \in S
  PROVE  h \o Append(q, e) = Append(h \o q, e)
  <1>1. <<e>> \in Seq(S)
    OBVIOUS
  <1>2. Append(q, e) = q \o <<e>>
    BY AppendIsConcat
  <1>3. Append(h \o q, e) = (h \o q) \o <<e>>
    BY AppendIsConcat, ConcatProperties
  <1> QED  BY <1>1, <1>2, <1>3, ConcatAssociative
=============================================================================
