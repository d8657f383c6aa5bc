--------------------------- MODULE Network_proofs ---------------------------
(***************************************************************************)
(* Theorems about Network, for every number of messages: what the two      *)
(* threads share without a lock is used after its end only if they met,    *)
(* and without a meeting the server gets the messages without a gap.       *)
(***************************************************************************)
EXTENDS Network, SequenceTheorems, TLAPS

(* The phases of the two threads tell what is left of the shared objects.  *)
Phases ==
    /\ lpc \in {"wait", "drain", "event"} => inSet /\ bev = "live"
    /\ lpc = "freed" => inSet
    /\ lpc \notin {"wait", "drain", "event", "freed"} => ~inSet
    /\ spc \in {"failed", "free", "join", "gone"} => ~inSet
    /\ base = "freed" => spc \in {"join", "gone"}
    /\ spc = "gone" => lpc = "ended"
    /\ spc \in {"begin", "write", "writing", "next"} => called > 0
    /\ conn \in {"connecting", "up"} => lpc \in {"wait", "drain"}
    /\ lpc = "drain" => conn # "connecting"

(* As long as the threads did not meet, send runs only while the           *)
(* connection is in the set, and nothing freed was used.                   *)
Apart ==
    /\ Together => met
    /\ ~met => /\ ~crashed
               /\ spc \in {"begin", "write", "writing", "next"} => inSet

(* send has been called for a message that is not in the buffer yet.       *)
Pending == IF spc \in {"begin", "write", "writing"} THEN 1 ELSE 0

(* Peer, wire and output buffer hold the messages one behind the other;    *)
(* once the connection has ended the buffer does not matter any more.      *)
Stream ==
    ~met =>
        /\ \A i \in 1..Len(peer) : peer[i] = i
        /\ \A i \in 1..Len(wire) : wire[i] = Len(peer) + i
        /\ conn \in {"connecting", "up"} =>
               /\ \A i \in 1..Len(output) : output[i] = Len(peer) + Len(wire) + i
               /\ called = Len(peer) + Len(wire) + Len(output) + Pending

NetworkInv == TypeOK /\ Phases /\ Apart /\ Stream

-----------------------------------------------------------------------------
(* The types hold initially and are kept. *)
LEMMA NetworkInit == Init => NetworkInv
  <1> SUFFICES ASSUME Init PROVE NetworkInv
    OBVIOUS
  <1> USE NetworkAssumption DEF Init
  <1>1. TypeOK
    <2>1. <<>> \in Seq(1..called)
      BY EmptySeq
    <2>2. output \in Seq(1..called) /\ wire \in Seq(1..called) /\ peer \in Seq(1..called)
      BY <2>1, Zenon
    <2>3. called \in 0..MaxMsgs
      OBVIOUS
    <2>4. /\ spc = "idle" /\ lpc = "wait" /\ inSet = TRUE /\ bev = "live" /\ base = "live"
          /\ conn = "connecting" /\ unacked = FALSE /\ crashed = FALSE /\ met = FALSE
      BY Zenon
    <2> HIDE DEF Init
    <2> QED  BY <2>2, <2>3, <2>4 DEF TypeOK
  <1>2. Len(peer) = 0 /\ Len(wire) = 0 /\ Len(output) = 0
    BY EmptySeq
  <1>3. Stream
    BY <1>2 DEF Stream, Pending
  <1> QED  BY <1>1, <1>3 DEF NetworkInv, Phases, Apart, Together

(* What SubSeq takes from the front or the back of a buffer. *)
LEMMA Cut ==
  ASSUME NEW S, NEW q \in Seq(S), NEW k \in 0..Len(q)
  PROVE  /\ SubSeq(q, 1, k) \in Seq(S) /\ Len(SubSeq(q, 1, k)) = k
         /\ \A i \in 1..k : SubSeq(q, 1, k)[i] = q[i]
         /\ SubSeq(q, k + 1, Len(q)) \in Seq(S)
         /\ Len(SubSeq(q, k + 1, Len(q))) = Len(q) - k
         /\ \A i \in 1..(Len(q) - k) : SubSeq(q, k + 1, Len(q))[i] = q[k + i]
  <1>1. Len(q) \in Nat /\ \A i \in 1..Len(q) : q[i] \in S
    BY LenProperties, ElementOfSeq
  <1> QED  BY <1>1

(* Every action keeps the types. *)
LEMMA TypeStep == TypeOK /\ Phases /\ [Next]_vars => TypeOK'
  <1> SUFFICES ASSUME TypeOK, Phases, [Next]_vars PROVE TypeOK'
    OBVIOUS
  <1> USE NetworkAssumption
  <1>m. [Next]_vars => met' \in BOOLEAN
    BY DEF Next, Sender, Loop, Step, TypeOK, vars, SendTest, Begin, WriteEnter, WriteLeave, SendReturns,
           Destroy, FreeBase, Join, Drain, Drained, Notice, Free, Erase, Finalize,
           LoopReturns, Connected, Break, PeerReads, Together
  <1>u. \A b : Use(b) => crashed' \in BOOLEAN
    BY DEF Use
  <1>1. CASE SendTest
    <2>1. Seq(1..called) \subseteq Seq(1..(called + 1))
      BY SeqMonotonic, 1..called \subseteq 1..(called + 1) DEF TypeOK
    <2> QED  BY <1>1, <1>m, <2>1 DEF SendTest, TypeOK, bevVars, connVars
  <1>2. CASE Begin \/ WriteEnter \/ SendReturns \/ Destroy \/ FreeBase \/ Join
    BY <1>2, <1>m, <1>u DEF Begin, WriteEnter, SendReturns, Destroy, FreeBase, Join, TypeOK,
       bevVars, connVars
  <1>3. CASE WriteLeave
    <2>1. Append(output, called) \in Seq(1..called)
      BY <1>3, AppendProperties DEF WriteLeave, Phases, TypeOK
    <2> QED  BY <1>3, <1>m, <1>u, <2>1 DEF WriteLeave, TypeOK, bevVars, connVars
  <1>4. CASE Drained
    <2>1. PICK k \in 1..Len(output) :
            /\ output' = SubSeq(output, k + 1, Len(output))
            /\ wire' = IF conn = "up" THEN wire \o SubSeq(output, 1, k) ELSE wire
      BY <1>4 DEF Drained
    <2>2. k \in 0..Len(output) /\ output \in Seq(1..called) /\ wire \in Seq(1..called)
      BY LenProperties DEF TypeOK
    <2>3. output' \in Seq(1..called) /\ SubSeq(output, 1, k) \in Seq(1..called)
      BY <2>1, <2>2, Cut
    <2>4. wire \o SubSeq(output, 1, k) \in Seq(1..called)
      BY <2>2, <2>3, ConcatProperties
    <2>5. wire' \in Seq(1..called)
      BY <2>1, <2>2, <2>4
    <2> QED  BY <1>4, <1>m, <2>3, <2>5 DEF Drained, TypeOK, sendVars, bevVars
  <1>5. CASE Finalize
    BY <1>5, <1>m, <1>u, EmptySeq DEF Finalize, TypeOK, sendVars, connVars
  <1>6. CASE Drain \/ Notice \/ Free \/ Erase \/ LoopReturns
    BY <1>6, <1>m, <1>u DEF Drain, Notice, Free, Erase, LoopReturns, TypeOK,
       sendVars, bevVars, connVars
  <1>7. CASE Connected
    BY <1>7, <1>m DEF Connected, TypeOK, sendVars, bevVars
  <1>8. CASE Break
    <2>1. PICK k \in 0..Len(wire) :
            wire' = SubSeq(wire, 1, k) /\ unacked' = (conn' = "cut" /\ k < Len(wire))
      BY <1>8 DEF Break
    <2>2. wire' \in Seq(1..called) /\ unacked' \in BOOLEAN
      BY <2>1, Cut DEF TypeOK
    <2> QED  BY <1>8, <1>m, <2>2 DEF Break, TypeOK, sendVars, bevVars
  <1>9. CASE PeerReads
    <2>1. /\ Head(wire) \in 1..called /\ Tail(wire) \in Seq(1..called)
      BY <1>9, HeadTailProperties DEF PeerReads, TypeOK
    <2>2. Append(peer, Head(wire)) \in Seq(1..called)
      BY <2>1, AppendProperties DEF TypeOK
    <2> QED  BY <1>9, <1>m, <2>1, <2>2 DEF PeerReads, TypeOK, sendVars, bevVars
  <1>10. CASE UNCHANGED vars
    BY <1>10 DEF vars, sendVars, bevVars, connVars, TypeOK
  <1> QED  BY <1>1, <1>2, <1>3, <1>4, <1>5, <1>6, <1>7, <1>8, <1>9, <1>10 DEF Next, Sender, Loop
(* Every action keeps the phases. *)
LEMMA PhasesStep == TypeOK /\ Phases /\ [Next]_vars => Phases'
  <1> SUFFICES ASSUME TypeOK, Phases, [Next]_vars PROVE Phases'
    OBVIOUS
  <1>1. CASE SendTest \/ Begin \/ WriteEnter \/ WriteLeave \/ SendReturns \/ Destroy
    BY <1>1 DEF SendTest, Begin, WriteEnter, WriteLeave, SendReturns, Destroy, Phases, TypeOK,
       bevVars, connVars
  <1>2. CASE FreeBase \/ Join
    BY <1>2 DEF FreeBase, Join, Phases, bevVars, connVars
  <1>3. CASE Drain \/ Drained
    BY <1>3 DEF Drain, Drained, Phases, sendVars, bevVars, connVars
  <1>4. CASE Notice \/ Free \/ Erase \/ Finalize \/ LoopReturns
    BY <1>4 DEF Notice, Free, Erase, Finalize, LoopReturns, Phases, sendVars, bevVars, connVars
  <1>5. CASE Connected \/ Break \/ PeerReads
    BY <1>5 DEF Connected, Break, PeerReads, Phases, sendVars, bevVars
  <1>6. CASE UNCHANGED vars
    BY <1>6 DEF vars, sendVars, bevVars, connVars, Phases
  <1> QED  BY <1>1, <1>2, <1>3, <1>4, <1>5, <1>6 DEF Next, Sender, Loop

(* A step notes a meeting of the threads, and is one unless nothing moves. *)
LEMMA Noted == [Next]_vars /\ Apart => (Together => met)' /\ (~met' => ~met)
  <1> SUFFICES ASSUME [Next]_vars, Apart PROVE (Together => met)' /\ (~met' => ~met)
    OBVIOUS
  <1>1. CASE UNCHANGED vars
    BY <1>1 DEF vars, sendVars, Apart, Together
  <1>2. CASE Next
    <2>1. Step
      BY <1>2 DEF Next, Sender, Loop, SendTest, Begin, WriteEnter, WriteLeave, SendReturns,
         Destroy, FreeBase, Join, Drain, Drained, Notice, Free, Erase, Finalize,
         LoopReturns, Connected, Break, PeerReads
    <2> QED  BY <2>1 DEF Step
  <1> QED  BY <1>1, <1>2

(* A freed object is used only in a step in which the threads meet.        *)
LEMMA ApartStep == TypeOK /\ Phases /\ Apart /\ [Next]_vars => Apart'
  <1> SUFFICES ASSUME TypeOK, Phases, Apart, [Next]_vars, ~met'
               PROVE  ~crashed' /\ (spc' \in {"begin", "write", "writing", "next"} => inSet')
    BY Noted DEF Apart
  <1>a. ~met /\ ~Together' /\ ~crashed
    BY Noted DEF Apart
  <1>u. Use(TRUE) => ~crashed'
    BY DEF Use
  <1>1. CASE SendTest \/ Begin \/ Destroy \/ Join
    BY <1>1, <1>a DEF SendTest, Begin, Destroy, Join, Apart, bevVars
  <1>2. CASE WriteEnter \/ WriteLeave
    <2>1. inSet /\ lpc' = lpc /\ spc' \in {"writing", "next"}
      BY <1>2, <1>a DEF WriteEnter, WriteLeave, Apart
    <2>2. lpc \notin {"drain", "event", "freed", "erased", "empty"}
      BY <1>a, <2>1 DEF Together
    <2>3. lpc = "wait"
      BY <2>1, <2>2 DEF TypeOK, Phases
    <2>4. bev # "freed" /\ lpc # "drain"
      BY <2>3 DEF Phases
    <2> QED  BY <1>2, <1>a, <2>1, <2>4 DEF WriteEnter, WriteLeave, Use, bevVars
  <1>3. CASE SendReturns
    BY <1>3, <1>a DEF SendReturns, Apart, Use, bevVars
  <1>4. CASE FreeBase
    <2>1. lpc \notin {"drain", "event", "freed", "erased", "empty"}
      BY <1>4, <1>a DEF FreeBase, Together
    <2>2. lpc = "ended"
      BY <1>4, <2>1 DEF FreeBase, Phases, TypeOK
    <2> QED  BY <1>4, <1>a, <2>2 DEF FreeBase, Use
  <1>5. CASE Drain
    <2>1. spc # "writing"
      BY <1>5, <1>a DEF Drain, Together, sendVars
    <2> QED  BY <1>5, <1>a, <2>1 DEF Drain, Use, Apart, sendVars, bevVars
  <1>6. CASE Drained \/ Notice \/ Free
    BY <1>6, <1>a DEF Drained, Notice, Free, Apart, sendVars, bevVars
  <1>7. CASE Erase
    <2>1. spc \notin {"begin", "write", "writing", "next"}
      BY <1>7, <1>a DEF Erase, Together, sendVars
    <2> QED  BY <1>7, <1>a, <2>1 DEF Erase, sendVars
  <1>8. CASE Finalize
    <2>1. spc \notin {"writing", "join"}
      BY <1>8, <1>a DEF Finalize, Together, sendVars
    <2>2. spc # "gone"
      BY <1>8 DEF Finalize, Phases
    <2>3. base = "live"
      BY <2>1, <2>2 DEF Phases, TypeOK
    <2> QED  BY <1>8, <1>a, <2>1, <2>3 DEF Finalize, Use, Apart, sendVars
  <1>9. CASE LoopReturns
    <2>1. spc # "join"
      BY <1>9, <1>a DEF LoopReturns, Apart, Together
    <2>2. spc # "gone"
      BY <1>9 DEF LoopReturns, Phases
    <2>3. base = "live"
      BY <2>1, <2>2 DEF Phases, TypeOK
    <2> QED  BY <1>9, <1>a, <2>3 DEF LoopReturns, Use, Apart, sendVars, bevVars
  <1>10. CASE Connected \/ Break \/ PeerReads
    BY <1>10, <1>a DEF Connected, Break, PeerReads, Apart, sendVars, bevVars
  <1>11. CASE UNCHANGED vars
    BY <1>11, <1>a DEF vars, Apart, sendVars, bevVars
  <1> QED  BY <1>1, <1>2, <1>3, <1>4, <1>5, <1>6, <1>7, <1>8, <1>9, <1>10, <1>11 DEF Next, Sender, Loop

-----------------------------------------------------------------------------
(* Every action keeps the stream without a gap. *)
LEMMA StreamStep == NetworkInv /\ [Next]_vars => Stream'
  <1> SUFFICES ASSUME TypeOK, Phases, Apart, Stream, [Next]_vars, ~met'
               PROVE  Stream'
    BY DEF NetworkInv, Stream
  <1>a. ~met /\ ~crashed /\ ~crashed'
    BY Noted, ApartStep DEF Apart
  <1>l. /\ Len(peer) \in Nat /\ Len(wire) \in Nat /\ Len(output) \in Nat /\ called \in Nat
        /\ peer \in Seq(1..called) /\ wire \in Seq(1..called) /\ output \in Seq(1..called)
    BY NetworkAssumption, LenProperties DEF TypeOK
  <1>s. /\ \A i \in 1..Len(peer) : peer[i] = i
        /\ \A i \in 1..Len(wire) : wire[i] = Len(peer) + i
        /\ conn \in {"connecting", "up"} =>
               /\ \A i \in 1..Len(output) : output[i] = Len(peer) + Len(wire) + i
               /\ called = Len(peer) + Len(wire) + Len(output) + Pending
    BY <1>a DEF Stream
  <1>1. CASE SendTest
    <2>1. conn \in {"connecting", "up"} => inSet
      BY DEF Phases
    <2>2. conn' \in {"connecting", "up"} => Pending = 0 /\ Pending' = 1
      BY <1>1, <2>1 DEF SendTest, Pending, connVars
    <2> QED  BY <1>1, <1>l, <1>s, <2>2 DEF SendTest, Stream, connVars
  <1>2. CASE Begin
    <2>1. inSet
      BY <1>2, <1>a DEF Begin, Apart
    <2>2. Pending' = Pending
      BY <1>2, <2>1 DEF Begin, Pending
    <2> QED  BY <1>2, <1>s, <2>2 DEF Begin, Stream, connVars
  <1>3. CASE WriteEnter \/ SendReturns
    <2>1. Pending' = Pending
      BY <1>3 DEF WriteEnter, SendReturns, Pending
    <2> QED  BY <1>3, <1>s, <2>1 DEF WriteEnter, SendReturns, Stream, connVars
  <1>4. CASE WriteLeave
    <2>1. conn \in {"connecting", "up"} => output' = Append(output, called)
      <3>1. conn \in {"connecting", "up"} => bev = "live"
        BY DEF Phases
      <3> QED  BY <1>4, <1>a, <3>1 DEF WriteLeave
    <2>2. Pending = 1 /\ Pending' = 0
      BY <1>4 DEF WriteLeave, Pending
    <2>3. /\ Len(Append(output, called)) = Len(output) + 1
          /\ \A i \in 1..Len(output) : Append(output, called)[i] = output[i]
          /\ Append(output, called)[Len(output) + 1] = called
      BY <1>l
    <2>4. conn \in {"connecting", "up"} =>
            /\ \A i \in 1..Len(output') : output'[i] = Len(peer) + Len(wire) + i
            /\ called = Len(peer) + Len(wire) + Len(output') + Pending'
      <3> SUFFICES ASSUME conn \in {"connecting", "up"}
                   PROVE  /\ \A i \in 1..Len(output') : output'[i] = Len(peer) + Len(wire) + i
                          /\ called = Len(peer) + Len(wire) + Len(output') + Pending'
        OBVIOUS
      <3>1. Len(output') = Len(output) + 1 /\ called = Len(peer) + Len(wire) + Len(output) + 1
        BY <1>s, <2>1, <2>2, <2>3
      <3>2. ASSUME NEW i \in 1..(Len(output) + 1)
            PROVE  output'[i] = Len(peer) + Len(wire) + i
        <4>1. CASE i \in 1..Len(output)
          BY <1>s, <2>1, <2>3, <4>1
        <4>2. CASE i = Len(output) + 1
          BY <1>l, <2>1, <2>3, <3>1, <4>2
        <4> QED  BY <1>l, <4>1, <4>2
      <3> QED  BY <1>l, <2>2, <3>1, <3>2
    <2> QED  BY <1>4, <1>s, <2>4 DEF WriteLeave, Stream, connVars
  <1>5. CASE Destroy \/ FreeBase \/ Join
    <2>1. Pending' = Pending
      BY <1>5 DEF Destroy, FreeBase, Join, Pending
    <2> QED  BY <1>5, <1>s, <2>1 DEF Destroy, FreeBase, Join, Stream, connVars, bevVars
  <1>6. CASE Drain \/ Notice \/ Free \/ Erase \/ LoopReturns
    <2>1. Pending' = Pending
      BY <1>6 DEF Drain, Notice, Free, Erase, LoopReturns, Pending, sendVars
    <2> QED  BY <1>6, <1>s, <2>1 DEF Drain, Notice, Free, Erase, LoopReturns, Stream, sendVars, connVars
  <1>7. CASE Drained
    <2>1. PICK k \in 1..Len(output) :
            /\ output' = SubSeq(output, k + 1, Len(output))
            /\ wire' = IF conn = "up" THEN wire \o SubSeq(output, 1, k) ELSE wire
      BY <1>7 DEF Drained
    <2>2. conn' = conn /\ peer' = peer /\ called' = called /\ Pending' = Pending
      BY <1>7 DEF Drained, Pending, sendVars
    <2> DEFINE front == SubSeq(output, 1, k)
               back == SubSeq(output, k + 1, Len(output))
    <2>3. /\ front \in Seq(1..called) /\ Len(front) = k
          /\ \A i \in 1..k : front[i] = output[i]
          /\ Len(back) = Len(output) - k
          /\ \A i \in 1..(Len(output) - k) : back[i] = output[k + i]
      BY <1>l, Cut, SMTT(20)
    <2> HIDE DEF front, back
    <2>4. /\ Len(wire \o front) = Len(wire) + k
          /\ \A i \in 1..(Len(wire) + k) :
                (wire \o front)[i] = IF i <= Len(wire) THEN wire[i] ELSE front[i - Len(wire)]
      <3>1. /\ Len(wire \o front) = Len(wire) + Len(front)
            /\ \A i \in 1..(Len(wire) + Len(front)) :
                  (wire \o front)[i] = IF i <= Len(wire) THEN wire[i] ELSE front[i - Len(wire)]
        BY <1>l, <2>3, ConcatProperties
      <3> QED  BY <2>3, <3>1
    <2>5. CASE conn = "up"
      <3>1. wire' = wire \o front /\ output' = back
        BY <2>1, <2>5 DEF front, back
      <3>2. \A i \in 1..Len(output) : output[i] = Len(peer) + Len(wire) + i
        BY <1>s, <2>5
      <3>3. \A i \in 1..(Len(wire) + k) : (wire \o front)[i] = Len(peer) + i
        <4> SUFFICES ASSUME NEW i \in 1..(Len(wire) + k)
                     PROVE  (wire \o front)[i] = Len(peer) + i
          OBVIOUS
        <4>1. CASE i <= Len(wire)
          <5>1. i \in 1..Len(wire) /\ (wire \o front)[i] = wire[i]
            BY <1>l, <2>4, <4>1
          <5> QED  BY <1>s, <5>1
        <4>2. CASE ~(i <= Len(wire))
          <5>1. /\ i - Len(wire) \in 1..k /\ i - Len(wire) \in 1..Len(output)
                /\ (wire \o front)[i] = front[i - Len(wire)]
            BY <1>l, <2>4, <4>2
          <5>2. (wire \o front)[i] = output[i - Len(wire)]
            BY <2>3, <5>1
          <5>3. output[i - Len(wire)] = Len(peer) + Len(wire) + (i - Len(wire))
            BY <3>2, <5>1
          <5> QED  BY <1>l, <5>2, <5>3
        <4> QED  BY <4>1, <4>2
      <3>4. \A i \in 1..Len(back) : back[i] = Len(peer) + (Len(wire) + k) + i
        BY <1>l, <2>3, <3>2, SMTT(20)
      <3>5. called = Len(peer) + (Len(wire) + k) + Len(back) + Pending
        BY <1>l, <1>s, <2>3, <2>5
      <3>6. /\ \A i \in 1..Len(wire') : wire'[i] = Len(peer') + i
            /\ \A i \in 1..Len(output') : output'[i] = Len(peer') + Len(wire') + i
            /\ called' = Len(peer') + Len(wire') + Len(output') + Pending'
        BY <2>2, <2>4, <3>1, <3>3, <3>4, <3>5
      <3>7. \A i \in 1..Len(peer') : peer'[i] = i
        BY <1>s, <2>2
      <3> QED  BY <3>6, <3>7 DEF Stream
    <2>6. CASE conn # "up"
      <3>1. conn' \notin {"connecting", "up"} /\ wire' = wire
        <4>1. conn # "connecting"
          BY <1>7, <1>l, <1>s, <2>1, <2>6 DEF Drained, Phases
        <4> QED  BY <2>1, <2>2, <2>6, <4>1
      <3> QED  BY <1>s, <2>2, <3>1 DEF Stream
    <2> QED  BY <2>5, <2>6
  <1>8. CASE Finalize
    <2>1. conn' \notin {"connecting", "up"}
      BY <1>8 DEF Finalize, Phases, connVars
    <2> QED  BY <1>8, <1>s, <2>1 DEF Finalize, Stream, connVars
  <1>9. CASE Connected
    <2>1. Pending' = Pending
      BY <1>9 DEF Connected, Pending, sendVars
    <2> QED  BY <1>9, <1>s, <2>1 DEF Connected, Stream, sendVars
  <1>10. CASE Break
    <2>1. PICK k \in 0..Len(wire) : wire' = SubSeq(wire, 1, k)
      BY <1>10 DEF Break
    <2>2. Len(wire') = k /\ \A i \in 1..k : wire'[i] = wire[i]
      BY <1>l, <2>1, Cut
    <2>3. conn' \notin {"connecting", "up"} /\ peer' = peer
      BY <1>10 DEF Break
    <2>4. \A i \in 1..Len(wire') : wire'[i] = Len(peer') + i
      <3> SUFFICES ASSUME NEW i \in 1..k PROVE wire'[i] = Len(peer') + i
        BY <2>2
      <3>1. i \in 1..Len(wire) /\ wire'[i] = wire[i]
        BY <1>l, <2>2
      <3> QED  BY <1>s, <2>3, <3>1
    <2> QED  BY <1>s, <2>3, <2>4 DEF Stream
  <1>11. CASE PeerReads
    <2>1. wire # <<>> /\ peer' = Append(peer, Head(wire)) /\ wire' = Tail(wire)
      BY <1>11 DEF PeerReads
    <2>2. /\ Head(wire) = wire[1] /\ Len(wire) > 0
          /\ Len(wire') = Len(wire) - 1
          /\ \A i \in 1..Len(wire') : wire'[i] = wire[i + 1]
      BY <1>l, <2>1, HeadTailProperties, EmptySeq
    <2>3. /\ Len(peer') = Len(peer) + 1
          /\ \A i \in 1..Len(peer) : peer'[i] = peer[i]
          /\ peer'[Len(peer) + 1] = Head(wire)
      BY <1>l, <2>1
    <2>4. /\ conn' = conn /\ output' = output /\ called' = called /\ Pending' = Pending
      BY <1>11 DEF PeerReads, Pending, sendVars
    <2>5. \A i \in 1..Len(peer') : peer'[i] = i
      <3> SUFFICES ASSUME NEW i \in 1..(Len(peer) + 1) PROVE peer'[i] = i
        BY <2>3
      <3>1. CASE i \in 1..Len(peer)
        BY <1>s, <2>3, <3>1
      <3>2. CASE i = Len(peer) + 1
        <4>1. wire[1] = Len(peer) + 1
          BY <1>l, <1>s, <2>2
        <4> QED  BY <2>2, <2>3, <3>2, <4>1
      <3> QED  BY <1>l, <3>1, <3>2
    <2>6. \A i \in 1..Len(wire') : wire'[i] = Len(peer') + i
      BY <1>l, <1>s, <2>2, <2>3
    <2>7. Len(peer') + Len(wire') = Len(peer) + Len(wire)
      BY <1>l, <2>2, <2>3
    <2>8. conn' \in {"connecting", "up"} =>
            /\ \A i \in 1..Len(output') : output'[i] = Len(peer') + Len(wire') + i
            /\ called' = Len(peer') + Len(wire') + Len(output') + Pending'
      BY <1>l, <1>s, <2>4, <2>7
    <2> QED  BY <2>5, <2>6, <2>8 DEF Stream
  <1>12. CASE UNCHANGED vars
    <2>1. Pending' = Pending
      BY <1>12 DEF vars, Pending, sendVars
    <2> QED  BY <1>12, <1>s, <2>1 DEF vars, Stream, sendVars, connVars
  <1> QED  BY <1>1, <1>2, <1>3, <1>4, <1>5, <1>6, <1>7, <1>8, <1>9, <1>10, <1>11, <1>12
           DEF Next, Sender, Loop

(* What the invariant promises holds in every reachable state. *)
THEOREM NetworkInvariant == Spec => []NetworkInv
  <1>1. NetworkInv /\ [Next]_vars => NetworkInv'
    BY TypeStep, PhasesStep, ApartStep, StreamStep DEF NetworkInv
  <1> QED  BY NetworkInit, <1>1, PTL DEF Spec

(* The buffers only ever hold messages that send was called with.          *)
THEOREM NetworkTypeOK == Spec => []TypeOK
  <1>1. NetworkInv => TypeOK
    BY DEF NetworkInv
  <1> QED  BY <1>1, NetworkInvariant, PTL

(* bufferevent_free before eraseBev and event_base_free before join use    *)
(* nothing that is gone unless the two threads meet.                       *)
THEOREM NetworkCrashNeedsRace == Spec => []CrashNeedsRace
  <1>1. NetworkInv => CrashNeedsRace
    BY DEF NetworkInv, Apart, CrashNeedsRace
  <1> QED  BY <1>1, NetworkInvariant, PTL

(* However the socket takes the output and wherever the connection ends,   *)
(* the server gets the messages from the first one on without a gap.       *)
THEOREM NetworkNoGap == Spec => []NoGap
  <1>1. NetworkInv => NoGap
    BY DEF NetworkInv, Stream, NoGap
  <1> QED  BY <1>1, NetworkInvariant, PTL
=============================================================================
