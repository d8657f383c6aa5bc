---------------------------- MODULE Agent_proofs ----------------------------
(***************************************************************************)
(* Theorems about the agent's two sides that Agent and Sampling model      *)
(* apart.  About Agent, for every configuration, number of outputs, size   *)
(* of the vector's buffer and of the queues: what the two threads share    *)
(* without a lock stays sound until they meet inside the vector, so that   *)
(* only a meeting can end the agent.  About Sampling, for every interval,  *)
(* list of collectors and set of devices: when samples are taken and what  *)
(* the traffic collector's rates add up to.                                *)
(***************************************************************************)
EXTENDS Agent, Sampling, FiniteSetTheorems, SequenceTheorems, TLAPS

(* Where the indices of the two loops may be, met or not. *)
Bounds ==
    /\ si <= fin + 1
    /\ spc \in {"send", "erase", "destroy"} => si <= fin
    /\ spc = "pop" => si <= fin \/ stale
    /\ cpc = "grow" => fin < MaxSlot
    /\ cpc \in {"convert", "add", "scan"} => ci <= cend
    /\ cpc = "add" => form \in Kind

(* The threads have not met: both run, the sender's iterator is good, and  *)
(* the end that the collector has read is the end.                         *)
Apart ==
    /\ Alive /\ spc # "dead" /\ ~stale
    /\ spc \in {"erase", "destroy"} => cpc \in {"idle", "check"}
    /\ cpc \in {"convert", "add", "scan"} => cend = fin

(* Every slot holds an output, no two of one kind; but for the last one    *)
(* while the elements behind an erased one have been moved down.           *)
Filled ==
    /\ \A i \in 1..fin : Live(slot[i]) \/ (spc = "destroy" /\ i = fin /\ slot[i] = Null)
    /\ \A i, j \in 1..fin : i # j /\ Live(slot[i]) /\ Live(slot[j])
                                => kind[slot[i]] # kind[slot[j]]

(* What is queued, converted or in the sender's hand has the form of the   *)
(* output it belongs to.                                                   *)
Fitting ==
    /\ \A o \in Object : \A i \in 1..Len(queue[o]) : queue[o][i] = kind[o]
    /\ cpc = "add" => form = kind[slot[ci]]
    /\ spc = "send" => item = kind[slot[si]]

(* checkOutput has seen the kinds that are there; the one it adds is new.  *)
Checked ==
    /\ cpc = "scan" => \A i \in 1..(ci - 1) : kind[slot[i]] \in seen
    /\ cpc \in {"make", "grow"} => \A i \in 1..fin : kind[slot[i]] \in seen
    /\ cpc = "grow" => /\ Live(slot[fin + 1]) /\ kind[slot[fin + 1]] \in seen
                       /\ \A i \in 1..fin : kind[slot[i]] # kind[slot[fin + 1]]

Sound == ~raced => Apart /\ Filled /\ Fitting /\ Checked

AgentInv == TypeOK /\ Bounds /\ Sound

-----------------------------------------------------------------------------
(* The kinds that are configured are few, and the vector has a slot more.  *)
LEMMA FewKinds == Cardinality(Configured) \in Nat /\ MaxSlot \in Nat /\ Cardinality(Configured) < MaxSlot
  <1>1. IsFiniteSet({"tcp"} \cup {"local"})
    BY FS_Singleton, FS_AddElement
  <1>2. IsFiniteSet(Configured)
    BY <1>1, FS_Subset, AgentAssumption, {"tcp"} \cup {"local"} = Kind DEF Kind
  <1> QED  BY <1>2, FS_CardinalityType, AgentAssumption

(* The vector that parseConfig fills satisfies the invariant. *)
LEMMA AgentInit == Init => AgentInv
  <1> SUFFICES ASSUME Init PROVE AgentInv
    OBVIOUS
  <1>1. PICK n \in 0..Cardinality(Configured) :
          \E v \in [1..n -> Configured], name \in [1..n -> Object] :
          /\ \A i, j \in 1..n : i # j => v[i] # v[j] /\ name[i] # name[j]
          /\ Configured \ {"tcp"} \subseteq {v[i] : i \in 1..n}
          /\ slot = [i \in Slots |-> IF i <= n THEN name[i] ELSE Null]
          /\ fin = n
          /\ cap = n
          /\ kind = [o \in Object |->
                        IF \E i \in 1..n : name[i] = o
                        THEN v[CHOOSE i \in 1..n : name[i] = o] ELSE Free]
    BY Zenon DEF Init
  <1>2. PICK v \in [1..n -> Configured], name \in [1..n -> Object] :
          /\ \A i, j \in 1..n : i # j => v[i] # v[j] /\ name[i] # name[j]
          /\ Configured \ {"tcp"} \subseteq {v[i] : i \in 1..n}
          /\ slot = [i \in Slots |-> IF i <= n THEN name[i] ELSE Null]
          /\ fin = n
          /\ cap = n
          /\ kind = [o \in Object |->
                        IF \E i \in 1..n : name[i] = o
                        THEN v[CHOOSE i \in 1..n : name[i] = o] ELSE Free]
    BY <1>1, Zenon
  <1>3. n \in Nat /\ n < MaxSlot /\ MaxSlot \in Nat /\ 1..n \subseteq Slots
    BY FewKinds DEF Slots
  <1>4. /\ queue = [o \in Object |-> <<>>] /\ linked = [o \in Object |-> kind[o] = "tcp"]
        /\ cpc = "idle" /\ ci = 1 /\ cend = 0 /\ form = Null /\ seen = {}
        /\ spc = "sleep" /\ si = 1 /\ item = Null /\ stale = FALSE
        /\ elapsed = checkOutputIntv /\ raced = FALSE
    BY DEF Init
  <1>5. \A i \in 1..n : slot[i] = name[i] /\ name[i] \in Object /\ kind[name[i]] = v[i]
    BY <1>2, <1>3
  <1>6. kind \in [Object -> Kind \cup {Free}]
    <2>1. ASSUME NEW o \in Object, \E i \in 1..n : name[i] = o
          PROVE  v[CHOOSE i \in 1..n : name[i] = o] \in Kind
      BY <2>1, AgentAssumption
    <2> QED  BY <1>2, <2>1
  <1>7. \A o \in Object : queue[o] = <<>> /\ queue[o] \in Seq(Kind) /\ Len(queue[o]) = 0
    BY <1>4, EmptySeq
  <1>8. slot \in [Slots -> Object \cup {Null}]
    <2>1. ASSUME NEW i \in Slots PROVE (IF i <= n THEN name[i] ELSE Null) \in Object \cup {Null}
      BY <1>3 DEF Slots
    <2> QED  BY <1>2, <2>1
  <1>9. \A i \in 1..n : slot[i] \in Object /\ kind[slot[i]] \in Kind
    BY <1>5, AgentAssumption
  <1>10. TypeOK
    <2>1. /\ fin \in 0..MaxSlot /\ cap \in Nat /\ ci \in Slots /\ cend \in 0..MaxSlot
          /\ si \in 1..(MaxSlot + 1) /\ elapsed \in 0..checkOutputIntv
      BY <1>2, <1>3, <1>4, AgentAssumption DEF Slots
    <2>2. linked \in [Object -> BOOLEAN]
      BY <1>4, Zenon
    <2>3. queue \in [Object -> Seq(Kind)] /\ \A o \in Object : Len(queue[o]) <= maxSize + 1
      BY <1>4, <1>7, AgentAssumption
    <2> QED  BY <1>4, <1>6, <1>8, <2>1, <2>2, <2>3 DEF TypeOK
  <1>11. Bounds
    BY <1>2, <1>3, <1>4 DEF Bounds
  <1>12. Apart /\ Fitting /\ Checked
    BY <1>4, <1>7 DEF Apart, Alive, Fitting, Checked
  <1>13. Filled
    <2>1. fin = n /\ Free \notin Kind
      BY <1>2 DEF Kind, Free
    <2>2. \A i \in 1..n : Live(slot[i])
      BY <1>9, <2>1, AgentAssumption DEF Live
    <2>3. \A i, j \in 1..n : i # j => v[i] # v[j]
      BY <1>2, Zenon
    <2>4. \A i, j \in 1..n : i # j => kind[slot[i]] # kind[slot[j]]
      BY <1>5, <2>3
    <2> QED  BY <2>1, <2>2, <2>4 DEF Filled
  <1> QED  BY <1>10, <1>11, <1>12, <1>13 DEF AgentInv, Sound

-----------------------------------------------------------------------------
(* What the loop over the vector does with its index. *)
LEMMA LoopStep ==
  ASSUME NEW a, NEW d, TypeOK, ci <= cend, NextSlot(a, d)
  PROVE  /\ \/ cpc' = d /\ ci' = ci
            \/ cpc' = a /\ ci' = ci + 1 /\ ci < cend
         /\ ci' \in Slots /\ ci' <= cend
  BY AgentAssumption DEF NextSlot, TypeOK, Slots

(* An output that is alive has one of the kinds. *)
LEMMA LiveKind ==
  ASSUME TypeOK, NEW i \in Slots, Live(slot[i])
  PROVE  slot[i] \in Object /\ kind[slot[i]] \in Kind
  BY DEF TypeOK, Live

(* The collector keeps the types and the bounds. *)
LEMMA CollectorTypes == TypeOK /\ Bounds /\ Collector => TypeOK' /\ Bounds'
  <1> SUFFICES ASSUME TypeOK, Bounds, Collector PROVE TypeOK' /\ Bounds'
    OBVIOUS
  <1>0. MaxSlot \in Nat \ {0} /\ maxSize \in Nat /\ checkOutputIntv \in Nat /\ 1 \in Slots
    BY FewKinds, AgentAssumption DEF Slots
  <1>r. raced \in BOOLEAN /\ (Meet(cpc', spc) \in BOOLEAN)
    BY DEF TypeOK, Meet
  <1>1. CASE Collect
    BY <1>0, <1>1, <1>r DEF Collect, TypeOK, Bounds, vecVars, objVars, sndVars
  <1>2. CASE Convert
    <2>1. ci \in Slots /\ kind[slot[ci]] \in Kind
      BY <1>2, LiveKind DEF Convert, TypeOK
    <2> QED  BY <1>2, <2>1 DEF Convert, TypeOK, Bounds, vecVars, objVars, sndVars
  <1>3. CASE AddData
    <2>1. ci \in Slots /\ slot[ci] \in Object /\ ci <= cend /\ form \in Kind
      BY <1>3, LiveKind DEF AddData, TypeOK, Bounds
    <2>2. cpc' \in {"convert", "check"} /\ ci' \in Slots /\ ci' <= cend
      BY <1>3, <2>1, LoopStep DEF AddData
    <2>3. queue' \in [Object -> Seq(Kind)] /\ \A o \in Object : Len(queue'[o]) <= maxSize + 1
      <3>1. ASSUME NEW o \in Object PROVE queue'[o] \in Seq(Kind) /\ Len(queue'[o]) <= maxSize + 1
        <4>1. /\ queue[o] \in Seq(Kind) /\ Len(queue[o]) \in Nat /\ Len(queue[o]) <= maxSize + 1
              /\ Append(queue[o], form) \in Seq(Kind) /\ Len(Append(queue[o], form)) = Len(queue[o]) + 1
          BY <2>1, AppendProperties, LenProperties DEF TypeOK
        <4>2. \/ queue'[o] = queue[o]
              \/ queue'[o] = Append(queue[o], form) /\ ~(Len(queue[o]) > maxSize)
          BY <1>3, <2>1 DEF AddData, TypeOK
        <4>3. maxSize \in Nat
          BY <1>0
        <4>4. CASE queue'[o] = queue[o]
          BY <4>1, <4>4, Zenon
        <4>5. CASE queue'[o] = Append(queue[o], form) /\ ~(Len(queue[o]) > maxSize)
          <5>1. Len(queue'[o]) <= maxSize + 1
            BY <4>1, <4>3, <4>5
          <5> QED  BY <4>1, <4>5, <5>1, Zenon
        <4> QED  BY <4>2, <4>4, <4>5
      <3> QED  BY <1>3, <3>1 DEF AddData, TypeOK
    <2> QED  BY <1>3, <2>1, <2>2, <2>3 DEF AddData, TypeOK, Bounds, vecVars, sndVars
  <1>4. CASE CheckLater \/ CheckNow \/ CheckDone
    BY <1>0, <1>4, <1>r DEF CheckLater, CheckNow, CheckDone, TypeOK, Bounds, vecVars, objVars, sndVars
  <1>5. CASE Scan
    <2>1. ci \in Slots /\ ci <= cend /\ (Live(slot[ci]) => kind[slot[ci]] \in Kind)
      BY <1>5, LiveKind DEF Scan, TypeOK, Bounds
    <2>2. cpc' \in {"scan", "make"} /\ ci' \in Slots /\ ci' <= cend
      BY <1>5, <2>1, LoopStep DEF Scan
    <2> QED  BY <1>5, <2>1, <2>2 DEF Scan, TypeOK, Bounds, vecVars, objVars, sndVars
  <1>6. ASSUME NEW k \in Kind, Recreate(k) PROVE TypeOK' /\ Bounds'
    <2>1. PICK o \in Object : kind[o] = Free /\ PushBack(k, o)
      BY <1>6 DEF Recreate
    <2>2. /\ kind' \in [Object -> Kind \cup {Free}] /\ linked' \in [Object -> BOOLEAN]
          /\ queue' \in [Object -> Seq(Kind)] /\ \A p \in Object : Len(queue'[p]) <= maxSize + 1
      BY <1>0, <2>1, EmptySeq DEF PushBack, TypeOK
    <2>3. fin \in Nat /\ cap \in Nat /\ stale \in BOOLEAN
      BY DEF TypeOK
    <2>4. slot' \in [Slots -> Object \cup {Null}]
      <3>1. CASE fin = cap
        BY <2>1, <3>1 DEF PushBack, TypeOK
      <3>2. CASE fin # cap
        BY <2>1, <3>2 DEF PushBack, TypeOK
      <3> QED  BY <3>1, <3>2
    <2>5. /\ cap' \in Nat /\ stale' \in BOOLEAN /\ raced' \in BOOLEAN
          /\ \/ fin' = fin + 1 /\ cpc' = cpc /\ (stale' \/ spc = "sleep")
             \/ fin' = fin /\ cpc' = "grow" /\ stale' = stale
      <3>1. CASE fin = cap
        <4>1. /\ stale' = (spc # "sleep") /\ raced' = (raced \/ stale')
              /\ fin' = fin + 1 /\ cpc' = cpc
          BY <2>1, <3>1, Zenon DEF PushBack
        <4>2. cap' \in Nat
          BY <2>1, <2>3, <3>1 DEF PushBack
        <4>3. stale' \in BOOLEAN /\ (stale' \/ spc = "sleep") /\ raced' \in BOOLEAN
          BY <1>r, <4>1, Zenon
        <4> QED  BY <4>1, <4>2, <4>3, Zenon
      <3>2. CASE fin # cap
        BY <1>r, <2>1, <2>3, <3>2 DEF PushBack
      <3> QED  BY <3>1, <3>2
    <2> QED  BY <1>0, <1>6, <2>2, <2>4, <2>5 DEF Recreate, TypeOK, Bounds
  <1>7. CASE Grow
    BY <1>0, <1>7 DEF Grow, TypeOK, Bounds, objVars, sndVars
  <1>10. CASE ConnectFails
    BY <1>0, <1>10 DEF ConnectFails, TypeOK, Bounds, vecVars, objVars, sndVars, Kind
  <1>8. CASE CollectorUsesFreed
    <2>1. ci <= cend
      BY <1>8 DEF CollectorUsesFreed, Bounds
    <2>2. cpc' \in {"scan", "make", "convert", "check"} /\ ci' \in Slots /\ ci' <= cend
      BY <1>8, <2>1, LoopStep DEF CollectorUsesFreed
    <2> QED  BY <1>8, <2>2 DEF CollectorUsesFreed, TypeOK, Bounds, vecVars, objVars, sndVars
  <1>9. CASE CollectorCrashes
    BY <1>9 DEF CollectorCrashes, Crash, TypeOK, Bounds, vecVars, objVars
  <1> QED  BY <1>1, <1>2, <1>3, <1>4, <1>5, <1>6, <1>7, <1>8, <1>9, <1>10 DEF Collector

(* The sender keeps the types and the bounds. *)
LEMMA SenderTypes == TypeOK /\ Bounds /\ Sender => TypeOK' /\ Bounds'
  <1> SUFFICES ASSUME TypeOK, Bounds, Sender PROVE TypeOK' /\ Bounds'
    OBVIOUS
  <1>0. MaxSlot \in Nat \ {0} /\ 1 \in Slots /\ Slots = 1..MaxSlot
    BY FewKinds, AgentAssumption DEF Slots
  <1>r. raced \in BOOLEAN /\ Meet(cpc, spc') \in BOOLEAN
    BY DEF TypeOK, Meet
  <1>1. CASE Wake
    <2>1. 1 \in 1..(MaxSlot + 1) /\ 1 <= fin + 1
      BY <1>0 DEF TypeOK
    <2>2. /\ si' = 1 /\ stale' = FALSE /\ spc' = "test"
          /\ UNCHANGED <<slot, fin, cap, kind, queue, linked, cpc, ci, cend, form, seen,
                         item, elapsed, raced>>
      BY <1>1 DEF Wake, vecVars, objVars, colVars
    <2>3. Bounds'
      BY <2>1, <2>2 DEF Bounds
    <2> QED  BY <2>1, <2>2, <2>3 DEF TypeOK
  <1>2. CASE Test
    <2>1. si \in Nat /\ fin \in Nat /\ si <= fin + 1
      BY <1>0 DEF TypeOK, Bounds
    <2>2. \/ spc' = "sleep"
          \/ spc' = "pop" /\ (si # fin + 1 \/ stale)
      BY <1>2, Zenon DEF Test
    <2>3. spc' = "sleep" \/ (spc' = "pop" /\ (si <= fin \/ stale))
      BY <2>1, <2>2
    <2>4. /\ fin' = fin /\ si' = si /\ stale' = stale /\ cpc' = cpc /\ ci' = ci /\ cend' = cend
          /\ form' = form
      BY <1>2 DEF Test, vecVars, colVars
    <2>5. Bounds'
      BY <2>1, <2>3, <2>4 DEF Bounds
    <2> QED  BY <1>2, <2>3, <2>5 DEF Test, TypeOK, vecVars, objVars, colVars
  <1>3. CASE Pop
    <2>1. si \in Slots /\ si <= fin /\ fin <= MaxSlot
      BY <1>0, <1>3 DEF Pop, TypeOK, Bounds
    <2>2. slot[si] \in Object /\ kind[slot[si]] \in Kind
      BY <1>3, <2>1, LiveKind DEF Pop
    <2>3. CASE queue[slot[si]] = <<>>
      BY <1>0, <1>3, <2>1, <2>3 DEF Pop, TypeOK, Bounds, vecVars, colVars
    <2>4. CASE queue[slot[si]] # <<>>
      <3>1. /\ Head(queue[slot[si]]) \in Kind /\ Tail(queue[slot[si]]) \in Seq(Kind)
            /\ Len(Tail(queue[slot[si]])) = Len(queue[slot[si]]) - 1
            /\ Len(queue[slot[si]]) \in Nat /\ Len(queue[slot[si]]) <= maxSize + 1
        BY <2>2, <2>4, HeadTailProperties, LenProperties DEF TypeOK
      <3>2. Len(Tail(queue[slot[si]])) <= maxSize + 1
        BY <3>1, AgentAssumption
      <3>3. queue' \in [Object -> Seq(Kind)] /\ \A o \in Object : Len(queue'[o]) <= maxSize + 1
        BY <1>3, <2>2, <2>4, <3>1, <3>2 DEF Pop, TypeOK
      <3>4. item' \in Kind
        BY <1>3, <2>4, <3>1 DEF Pop
      <3> QED  BY <1>0, <1>3, <2>1, <2>4, <3>3, <3>4 DEF Pop, TypeOK, Bounds, vecVars, colVars
    <2> QED  BY <2>3, <2>4
  <1>4. CASE SendOk \/ SendFail
    BY <1>0, <1>r, <1>4 DEF SendOk, SendFail, TypeOK, Bounds, vecVars, objVars, colVars
  <1>5. CASE Erase
    <2>1. si \in Slots /\ si <= fin /\ fin \in 0..MaxSlot
      BY <1>0, <1>5 DEF Erase, TypeOK, Bounds
    <2>2. slot' \in [Slots -> Object \cup {Null}]
      <3>1. ASSUME NEW i \in Slots
            PROVE  (IF i \in si..(fin - 1) THEN slot[i + 1]
                    ELSE IF i = fin /\ si < fin THEN Null ELSE slot[i]) \in Object \cup {Null}
        BY <1>0, <2>1 DEF TypeOK
      <3> QED  BY <1>5, <3>1 DEF Erase
    <2>3. kind' \in [Object -> Kind \cup {Free}]
      BY <1>5 DEF Erase, TypeOK
    <2>4. queue' \in [Object -> Seq(Kind)] /\ \A o \in Object : Len(queue'[o]) <= maxSize + 1
      BY <1>5, EmptySeq, AgentAssumption DEF Erase, TypeOK
    <2> QED  BY <1>5, <2>1, <2>2, <2>3, <2>4 DEF Erase, TypeOK, Bounds, colVars
  <1>6. CASE Destroy
    <2>1. fin' \in 0..MaxSlot /\ fin' = fin - 1 /\ fin \in Nat /\ si <= fin
      BY <1>0, <1>6 DEF Destroy, TypeOK, Bounds
    <2>2. kind' \in [Object -> Kind \cup {Free}]
      BY <1>6 DEF Destroy, TypeOK
    <2>3. queue' \in [Object -> Seq(Kind)] /\ \A o \in Object : Len(queue'[o]) <= maxSize + 1
      BY <1>6, EmptySeq, AgentAssumption DEF Destroy, TypeOK
    <2> QED  BY <1>0, <1>6, <2>1, <2>2, <2>3 DEF Destroy, TypeOK, Bounds, colVars
  <1>7. CASE SenderUsesFreed
    BY <1>0, <1>7 DEF SenderUsesFreed, TypeOK, Bounds, vecVars, objVars, colVars
  <1>8. CASE SenderCrashes
    BY <1>8 DEF SenderCrashes, Crash, TypeOK, Bounds, vecVars, objVars
  <1> QED  BY <1>1, <1>2, <1>3, <1>4, <1>5, <1>6, <1>7, <1>8 DEF Sender

(* Every step keeps the types and the bounds. *)
LEMMA TypeStep == TypeOK /\ Bounds /\ [Next]_vars => TypeOK' /\ Bounds'
  <1> SUFFICES ASSUME TypeOK, Bounds, [Next]_vars PROVE TypeOK' /\ Bounds'
    OBVIOUS
  <1>1. CASE Tick
    BY <1>1, AgentAssumption DEF Tick, TypeOK, Bounds, vecVars, objVars, colVars, sndVars
  <1>2. CASE Disconnect
    BY <1>2 DEF Disconnect, TypeOK, Bounds, vecVars, colVars, sndVars
  <1>3. CASE UNCHANGED vars
    BY <1>3 DEF vars, TypeOK, Bounds, vecVars, objVars, colVars, sndVars
  <1> QED  BY <1>1, <1>2, <1>3, CollectorTypes, SenderTypes DEF Next

-----------------------------------------------------------------------------
(* Consequences of the invariant while the threads have not met: what the  *)
(* loops and the sender look at is an output, and not one that is free.    *)
LEMMA SlotLive ==
  ASSUME AgentInv, ~raced, NEW i \in 1..fin, spc # "destroy" \/ i < fin
  PROVE  i \in Slots /\ Live(slot[i]) /\ slot[i] \in Object /\ kind[slot[i]] \in Kind
  <1>1. i \in Slots /\ fin \in Nat
    BY FewKinds DEF AgentInv, TypeOK, Slots
  <1>2. Live(slot[i])
    BY <1>1 DEF AgentInv, Sound, Filled
  <1> QED  BY <1>1, <1>2, LiveKind DEF AgentInv

(* The collector does not crash before the threads have met. *)
LEMMA CollectorLooks ==
  ASSUME AgentInv, ~raced, cpc \in {"convert", "add", "scan"}
  PROVE  /\ ci \in 1..fin /\ ci \in Slots /\ cend = fin /\ fin \in Nat /\ spc # "destroy" /\ spc # "erase"
         /\ Live(slot[ci]) /\ slot[ci] \in Object /\ kind[slot[ci]] \in Kind
  <1>1. cend = fin /\ spc # "destroy" /\ spc # "erase" /\ ci <= cend /\ ci \in Nat \ {0} /\ fin \in Nat
    BY FewKinds DEF AgentInv, Sound, Apart, Bounds, TypeOK, Slots
  <1> QED  BY <1>1, SlotLive

(* The sender does not crash before the threads have met. *)
LEMMA SenderLooks ==
  ASSUME AgentInv, ~raced, spc \in {"pop", "send", "erase"}
  PROVE  /\ si \in 1..fin /\ si \in Slots /\ fin \in Nat
         /\ Live(slot[si]) /\ slot[si] \in Object /\ kind[slot[si]] \in Kind
  <1>1. si <= fin /\ si \in Nat \ {0} /\ fin \in Nat
    BY FewKinds DEF AgentInv, Sound, Apart, Bounds, TypeOK
  <1> QED  BY <1>1, SlotLive

-----------------------------------------------------------------------------
(* No step is a bad access before the threads have met. *)
LEMMA NoBadAccess ==
  AgentInv /\ ~raced =>
    ~CollectorCrashes /\ ~CollectorUsesFreed /\ ~SenderCrashes /\ ~SenderUsesFreed
  <1> SUFFICES ASSUME AgentInv, ~raced
               PROVE  ~CollectorCrashes /\ ~CollectorUsesFreed /\ ~SenderCrashes /\ ~SenderUsesFreed
    OBVIOUS
  <1>1. ~CollectorCrashes /\ ~CollectorUsesFreed
    BY CollectorLooks DEF CollectorCrashes, CollectorUsesFreed, Live, Dangling
  <1>2. ~stale /\ (spc = "send" => item = kind[slot[si]])
    BY DEF AgentInv, Sound, Apart, Fitting
  <1>3. ~SenderCrashes /\ ~SenderUsesFreed
    BY <1>2, SenderLooks DEF SenderCrashes, SenderUsesFreed, Sending, Live, Dangling
  <1> QED  BY <1>1, <1>3

(* The steps of the collector that leave the vector and the queues alone.  *)
LEMMA LookingSound ==
  ASSUME AgentInv, ~raced', Collect \/ Convert \/ CheckLater \/ CheckNow \/ ConnectFails \/ CheckDone
  PROVE  Apart' /\ Filled' /\ Fitting' /\ Checked'
  <1>1. /\ UNCHANGED <<slot, fin, kind, queue, spc, si, item, stale>>
        /\ raced' = raced \/ raced' = (raced \/ Meet(cpc', spc))
    BY DEF Collect, Convert, CheckLater, CheckNow, ConnectFails, CheckDone, vecVars, objVars, sndVars
  <1>2. ~raced
    BY <1>1
  <1>3. Apart /\ Filled /\ Fitting /\ Checked
    BY <1>2 DEF AgentInv, Sound
  <1>4. Filled'
    BY <1>1, <1>3 DEF Filled, Live
  <1>5. CASE Collect
    <2>1. cend' = fin /\ cpc' \in {"check", "convert"} /\ ~Meet(cpc', spc)
      BY <1>5 DEF Collect
    <2> QED  BY <1>1, <1>3, <1>4, <2>1 DEF Apart, Alive, Fitting, Checked, Meet
  <1>6. CASE Convert
    BY <1>1, <1>3, <1>4, <1>6 DEF Convert, Apart, Alive, Fitting, Checked
  <1>7. CASE CheckLater \/ CheckDone
    BY <1>1, <1>3, <1>4, <1>7 DEF CheckLater, CheckDone, Apart, Alive, Fitting, Checked
  <1>8. CASE CheckNow
    <2>1. /\ cend' = fin /\ ci' = 1 /\ ~Meet(cpc', spc)
          /\ cpc' = "scan" \/ (cpc' = "make" /\ fin = 0)
      BY <1>8 DEF CheckNow
    <2> QED  BY <1>1, <1>3, <1>4, <2>1 DEF Apart, Alive, Fitting, Checked, Meet
  <1>9. CASE ConnectFails
    BY <1>1, <1>3, <1>4, <1>9 DEF ConnectFails, vecVars, Apart, Alive, Fitting, Checked
  <1> QED  BY <1>5, <1>6, <1>7, <1>8, <1>9

(* addData fits the item to the queue of the output that converted it. *)
LEMMA AddDataSound ==
  ASSUME AgentInv, ~raced', AddData
  PROVE  Apart' /\ Filled' /\ Fitting' /\ Checked'
  <1>1. /\ UNCHANGED <<slot, fin, kind, spc, si, item, stale, cend, form>> /\ ~raced /\ cpc = "add"
    BY DEF AddData, vecVars, sndVars
  <1>2. Apart /\ Filled /\ Fitting /\ Checked /\ TypeOK
    BY <1>1 DEF AgentInv, Sound
  <1>3. ci \in 1..fin /\ slot[ci] \in Object /\ cend = fin /\ spc # "erase" /\ spc # "destroy"
    BY <1>1, CollectorLooks
  <1>4. cpc' \in {"convert", "check"}
    BY <1>1, LoopStep DEF AddData, AgentInv, Bounds
  <1>5. \A o \in Object : \A i \in 1..Len(queue'[o]) : queue'[o][i] = kind[o]
    <2>1. ASSUME NEW o \in Object, NEW i \in 1..Len(queue'[o]) PROVE queue'[o][i] = kind[o]
      <3>1. queue[o] \in Seq(Kind) /\ form \in Kind /\ form = kind[slot[ci]]
        BY <1>1, <1>2 DEF TypeOK, Fitting, AgentInv, Bounds
      <3>2. /\ Len(Append(queue[o], form)) = Len(queue[o]) + 1 /\ Len(queue[o]) \in Nat
            /\ \A j \in 1..Len(queue[o]) : Append(queue[o], form)[j] = queue[o][j]
            /\ Append(queue[o], form)[Len(queue[o]) + 1] = form
        BY <3>1, AppendProperties, LenProperties
      <3>3. \/ queue'[o] = queue[o]
            \/ queue'[o] = Append(queue[o], form) /\ o = slot[ci]
        BY <1>2 DEF AddData, TypeOK
      <3>4. CASE queue'[o] = queue[o]
        BY <1>2, <2>1, <3>4 DEF Fitting
      <3>5. CASE queue'[o] = Append(queue[o], form) /\ o = slot[ci]
        <4>1. i \in 1..Len(queue[o]) \/ i = Len(queue[o]) + 1
          BY <2>1, <3>2, <3>5
        <4> QED  BY <1>2, <3>1, <3>2, <3>5, <4>1 DEF Fitting
      <3> QED  BY <3>3, <3>4, <3>5
    <2> QED  BY <2>1
  <1>6. Apart' /\ Checked'
    BY <1>1, <1>2, <1>3, <1>4 DEF Apart, Alive, Checked
  <1>7. Filled'
    BY <1>1, <1>2 DEF Filled, Live
  <1>8. Fitting'
    BY <1>1, <1>2, <1>4, <1>5 DEF Fitting
  <1> QED  BY <1>6, <1>7, <1>8

(* The pass over the vector remembers every kind that it finds. *)
LEMMA ScanSound ==
  ASSUME AgentInv, ~raced', Scan
  PROVE  Apart' /\ Filled' /\ Fitting' /\ Checked'
  <1>1. UNCHANGED <<slot, fin, kind, queue, spc, si, item, stale, cend, form>> /\ ~raced /\ cpc = "scan"
    BY DEF Scan, vecVars, objVars, sndVars
  <1>2. Apart /\ Filled /\ Fitting /\ Checked
    BY <1>1 DEF AgentInv, Sound
  <1>3. /\ ci \in 1..fin /\ fin \in Nat /\ cend = fin /\ spc # "erase" /\ spc # "destroy"
        /\ Live(slot[ci])
    BY <1>1, CollectorLooks
  <1>4. seen' = seen \cup {kind[slot[ci]]}
    BY <1>3 DEF Scan
  <1>5. \/ cpc' = "make" /\ ci = fin
        \/ cpc' = "scan" /\ ci' = ci + 1
    BY <1>3 DEF Scan, NextSlot
  <1>6. Checked'
    <2>1. \A i \in 1..ci : kind[slot[i]] \in seen'
      BY <1>1, <1>2, <1>3, <1>4 DEF Checked
    <2> QED  BY <1>1, <1>3, <1>5, <2>1 DEF Checked
  <1>7. Apart' /\ Fitting'
    BY <1>1, <1>2, <1>3, <1>5 DEF Apart, Alive, Fitting
  <1>8. Filled'
    BY <1>1, <1>2 DEF Filled, Live
  <1> QED  BY <1>6, <1>7, <1>8

(* What checkOutput adds is of a kind that is not there. *)
LEMMA RecreateSound ==
  ASSUME AgentInv, ~raced', NEW k \in Kind, Recreate(k)
  PROVE  Apart' /\ Filled' /\ Fitting' /\ Checked'
  <1>1. PICK o \in Object : kind[o] = Free /\ PushBack(k, o)
    BY DEF Recreate
  <1>2. ~raced
    BY <1>1 DEF PushBack
  <1>3. /\ cpc = "make" /\ fin < MaxSlot /\ k \notin seen /\ seen' = seen \cup {k}
        /\ UNCHANGED <<ci, cend, form, spc, si, item>>
    BY DEF Recreate, Missing
  <1>4. Apart /\ Filled /\ Fitting /\ Checked /\ TypeOK /\ Bounds
    BY <1>2 DEF AgentInv, Sound
  <1>5. spc # "erase" /\ spc # "destroy" /\ fin \in Nat /\ fin + 1 \in Slots
    BY <1>3, <1>4, FewKinds DEF Apart, TypeOK, Slots
  <1>6. \A i \in 1..fin : /\ i \in Slots /\ slot[i] \in Object /\ kind[slot[i]] \in Kind
                          /\ slot[i] # o
    BY <1>1, <1>2, <1>5, SlotLive DEF Live
  <1>7. /\ kind'[o] = k /\ queue'[o] = <<>>
        /\ \A p \in Object \ {o} : kind'[p] = kind[p] /\ queue'[p] = queue[p]
        /\ k # Free /\ o # Null
    BY <1>1, <1>4, AgentAssumption DEF PushBack, TypeOK, Kind, Free
  <1>8. slot'[fin + 1] = o /\ \A i \in 1..fin : slot'[i] = slot[i]
    <2>1. CASE fin = cap
      BY <1>1, <1>5, <1>6, <2>1 DEF PushBack
    <2>2. CASE fin # cap
      BY <1>1, <1>4, <1>5, <1>6, <2>2 DEF PushBack, TypeOK
    <2> QED  BY <2>1, <2>2
  <1>9. /\ \A i \in 1..fin : kind'[slot'[i]] = kind[slot[i]] /\ kind[slot[i]] \in seen
        /\ \A i \in 1..fin : Live(slot[i])'
        /\ slot'[fin + 1] # Null /\ kind'[slot'[fin + 1]] = k /\ k # Free
    <2>1. \A i \in 1..fin : kind[slot[i]] \in seen /\ Live(slot[i])
      BY <1>2, <1>3, <1>4, <1>5, SlotLive DEF Checked
    <2>2. \A i \in 1..fin : kind'[slot'[i]] = kind[slot[i]] /\ Live(slot[i])'
      BY <1>6, <1>7, <1>8, <2>1 DEF Live
    <2> QED  BY <1>7, <1>8, <2>1, <2>2
  <1>10. Fitting'
    <2>1. \A p \in Object : \A i \in 1..Len(queue'[p]) : queue'[p][i] = kind'[p]
      BY <1>4, <1>7, EmptySeq DEF Fitting
    <2>2. cpc' # "add"
      BY <1>1, <1>3 DEF PushBack
    <2>3. spc = "send" => si \in 1..fin /\ item = kind[slot[si]]
      BY <1>2, <1>4, SenderLooks DEF Fitting
    <2> QED  BY <1>3, <1>9, <2>1, <2>2, <2>3 DEF Fitting
  <1>11. CASE fin = cap
    <2>1. fin' = fin + 1 /\ cpc' = "make" /\ spc = "sleep" /\ ~stale'
      BY <1>1, <1>3, <1>11 DEF PushBack
    <2>2. Apart'
      BY <1>3, <1>4, <2>1 DEF Apart, Alive
    <2>3. \A i \in 1..fin' : i \in 1..fin \/ i = fin + 1
      BY <1>5, <2>1
    <2>4. Filled'
      <3>1. \A i \in 1..fin' : Live(slot[i])'
        BY <1>9, <2>3 DEF Live
      <3>2. \A i, j \in 1..fin : i # j => kind[slot[i]] # kind[slot[j]]
        BY <1>2, <1>4, <1>5, SlotLive DEF Filled
      <3>3. \A i, j \in 1..fin' : i # j => kind'[slot'[i]] # kind'[slot'[j]]
        BY <1>3, <1>9, <2>3, <3>2
      <3> QED  BY <3>1, <3>3 DEF Filled
    <2>5. Checked'
      BY <1>3, <1>9, <2>1, <2>3 DEF Checked
    <2> QED  BY <1>10, <2>2, <2>4, <2>5
  <1>12. CASE fin # cap
    <2>1. fin' = fin /\ cpc' = "grow" /\ stale' = stale
      BY <1>1, <1>12 DEF PushBack
    <2>2. Apart'
      BY <1>3, <1>4, <1>5, <2>1 DEF Apart, Alive
    <2>3. Filled'
      <3>1. \A i, j \in 1..fin : i # j => kind[slot[i]] # kind[slot[j]]
        BY <1>2, <1>4, <1>5, SlotLive DEF Filled
      <3> QED  BY <1>9, <2>1, <3>1 DEF Filled
    <2>4. Checked'
      <3>1. kind'[slot'[fin + 1]] \in seen' /\ \A i \in 1..fin : kind'[slot'[i]] \in seen'
        BY <1>3, <1>9
      <3>2. \A i \in 1..fin : kind'[slot'[i]] # kind'[slot'[fin + 1]]
        BY <1>3, <1>9
      <3> QED  BY <1>9, <2>1, <3>1, <3>2 DEF Checked, Live
    <2> QED  BY <1>10, <2>2, <2>3, <2>4
  <1> QED  BY <1>11, <1>12

(* The rest of push_back brings the new output into the vector. *)
LEMMA GrowSound ==
  ASSUME AgentInv, ~raced', Grow
  PROVE  Apart' /\ Filled' /\ Fitting' /\ Checked'
  <1>1. /\ UNCHANGED <<slot, kind, queue, spc, si, item, stale, cend, form, seen>> /\ ~raced
        /\ cpc = "grow" /\ cpc' = "make" /\ fin' = fin + 1
    BY DEF Grow, objVars, sndVars
  <1>2. Apart /\ Filled /\ Fitting /\ Checked /\ fin \in Nat
    BY <1>1, FewKinds DEF AgentInv, Sound, TypeOK
  <1>3. spc # "erase" /\ spc # "destroy"
    BY <1>1, <1>2 DEF Apart
  <1>4. \A i \in 1..(fin + 1) : i \in 1..fin \/ i = fin + 1
    BY <1>2
  <1>5. Apart' /\ Fitting'
    BY <1>1, <1>2 DEF Apart, Alive, Fitting
  <1>6. Filled'
    <2>1. \A i \in 1..(fin + 1) : Live(slot[i])
      BY <1>1, <1>2, <1>3, <1>4 DEF Filled, Checked
    <2>2. \A i, j \in 1..(fin + 1) : i # j => kind[slot[i]] # kind[slot[j]]
      BY <1>1, <1>2, <1>3, <1>4, <2>1 DEF Filled, Checked
    <2> QED  BY <1>1, <2>1, <2>2 DEF Filled, Live
  <1>7. Checked'
    BY <1>1, <1>2, <1>4 DEF Checked
  <1> QED  BY <1>5, <1>6, <1>7

-----------------------------------------------------------------------------
(* The steps of the sender that leave vector and outputs alone. *)
LEMMA WalkingSound ==
  ASSUME AgentInv, ~raced', Wake \/ Test \/ SendOk \/ SendFail
  PROVE  Apart' /\ Filled' /\ Fitting' /\ Checked'
  <1>1. /\ UNCHANGED <<slot, fin, kind, queue, cpc, ci, cend, form, seen>>
        /\ raced' = raced \/ raced' = (raced \/ Meet(cpc, spc'))
        /\ spc' \in {"sleep", "test", "pop", "erase"}
        /\ stale' = stale \/ ~stale'
    BY DEF Wake, Test, SendOk, SendFail, vecVars, objVars, colVars
  <1>2. ~raced
    BY <1>1
  <1>3. Apart /\ Filled /\ Fitting /\ Checked
    BY <1>2 DEF AgentInv, Sound
  <1>4. spc # "destroy" /\ (spc' = "erase" => ~Meet(cpc, spc'))
    BY <1>1 DEF Wake, Test, SendOk, SendFail
  <1>5. Apart'
    BY <1>1, <1>3, <1>4 DEF Apart, Alive, Meet
  <1>6. Filled'
    BY <1>1, <1>3, <1>4 DEF Filled, Live
  <1>7. Fitting'
    BY <1>1, <1>3 DEF Fitting
  <1>8. Checked'
    BY <1>1, <1>3 DEF Checked, Live
  <1> QED  BY <1>5, <1>6, <1>7, <1>8

(* What the sender takes fits the output it takes it from. *)
LEMMA PopSound ==
  ASSUME AgentInv, ~raced', Pop
  PROVE  Apart' /\ Filled' /\ Fitting' /\ Checked'
  <1>1. /\ UNCHANGED <<slot, fin, kind, cpc, ci, cend, form, seen, stale>> /\ ~raced /\ spc = "pop"
        /\ spc' \in {"test", "send"}
    BY DEF Pop, vecVars, colVars
  <1>2. Apart /\ Filled /\ Fitting /\ Checked /\ TypeOK
    BY <1>1 DEF AgentInv, Sound
  <1>3. slot[si] \in Object
    BY <1>1, SenderLooks
  <1>4. Apart' /\ Checked'
    <2>1. Apart'
      BY <1>1, <1>2 DEF Apart, Alive
    <2>2. Checked'
      BY <1>1, <1>2 DEF Checked, Live
    <2> QED  BY <2>1, <2>2
  <1>5. Filled'
    BY <1>1, <1>2 DEF Filled, Live
  <1>6. CASE queue[slot[si]] = <<>>
    <2>1. queue' = queue /\ spc' = "test"
      BY <1>6 DEF Pop
    <2>2. Fitting'
      BY <1>1, <1>2, <2>1 DEF Fitting
    <2> QED  BY <1>4, <1>5, <2>2
  <1>7. CASE queue[slot[si]] # <<>>
    <2>1. /\ si' = si /\ item' = Head(queue[slot[si]])
          /\ \A o \in Object : queue'[o] = IF o = slot[si] THEN Tail(queue[o]) ELSE queue[o]
      BY <1>2, <1>7 DEF Pop, TypeOK
    <2>2. /\ Len(queue[slot[si]]) \in Nat \ {0}
          /\ Head(queue[slot[si]]) = queue[slot[si]][1]
          /\ Len(Tail(queue[slot[si]])) = Len(queue[slot[si]]) - 1
          /\ \A i \in 1..Len(Tail(queue[slot[si]])) :
                 Tail(queue[slot[si]])[i] = queue[slot[si]][i + 1]
      BY <1>2, <1>3, <1>7, HeadTailProperties, LenProperties, EmptySeq DEF TypeOK
    <2>3. item' = kind[slot[si]]
      BY <1>2, <1>3, <2>1, <2>2 DEF Fitting
    <2>4. \A o \in Object : \A i \in 1..Len(queue'[o]) : queue'[o][i] = kind[o]
      <3>1. ASSUME NEW o \in Object, NEW i \in 1..Len(queue'[o]) PROVE queue'[o][i] = kind[o]
        <4>1. CASE o # slot[si]
          BY <1>2, <2>1, <3>1, <4>1 DEF Fitting
        <4>2. CASE o = slot[si]
          <5>1. queue'[o] = Tail(queue[slot[si]])
            BY <2>1, <4>2
          <5>2. i \in 1..Len(Tail(queue[slot[si]]))
            BY <3>1, <5>1
          <5>3. i + 1 \in 1..Len(queue[o]) /\ queue'[o][i] = queue[o][i + 1]
            BY <2>2, <4>2, <5>1, <5>2
          <5> QED  BY <1>2, <5>3 DEF Fitting
        <4> QED  BY <4>1, <4>2
      <3> QED  BY <3>1
    <2> QED  BY <1>1, <1>2, <1>4, <1>5, <2>1, <2>3, <2>4 DEF Fitting
  <1> QED  BY <1>4, <1>5, <1>6, <1>7

(* Moving the later elements down destroys the one that failed, and it     *)
(* only, though the end has not moved yet.                                 *)
LEMMA EraseSound ==
  ASSUME AgentInv, ~raced', Erase
  PROVE  Apart' /\ Filled' /\ Fitting' /\ Checked'
  <1> DEFINE gone == {o \in Object : si < fin /\ slot[si] = o}
  <1>1. /\ UNCHANGED <<fin, si, cpc, ci, cend, form, seen, stale>> /\ ~raced /\ spc = "erase"
        /\ spc' = "destroy"
    BY DEF Erase, colVars
  <1>2. Apart /\ Filled /\ Fitting /\ TypeOK /\ cpc \in {"idle", "check"}
    BY <1>1 DEF AgentInv, Sound, Apart
  <1>3. si \in 1..fin /\ fin \in Nat /\ 1..fin \subseteq Slots
    BY <1>1, FewKinds, SenderLooks DEF AgentInv, TypeOK, Slots
  <1>4. \A i \in 1..fin : slot[i] \in Object /\ slot[i] # Null /\ kind[slot[i]] # Free
    BY <1>1, SlotLive DEF Live
  <1>5. \A i, j \in 1..fin : i # j => kind[slot[i]] # kind[slot[j]]
    BY <1>2, <1>4 DEF Filled, Live
  <1>6. /\ \A i \in 1..fin : slot'[i] = IF i \in si..(fin - 1) THEN slot[i + 1]
                                      ELSE IF i = fin /\ si < fin THEN Null ELSE slot[i]
        /\ \A o \in Object : /\ o \in gone => kind'[o] = Free /\ queue'[o] = <<>>
                             /\ o \notin gone => kind'[o] = kind[o] /\ queue'[o] = queue[o]
    BY <1>3 DEF Erase
  <1>7. ASSUME NEW i \in 1..fin, i < fin \/ si = fin
        PROVE  \E k \in 1..fin : /\ slot'[i] = slot[k] /\ kind'[slot[k]] = kind[slot[k]]
                                 /\ k = IF si <= i /\ i < fin THEN i + 1 ELSE i
    <2>1. CASE si = fin
      <3>1. slot'[i] = slot[i] /\ gone = {}
        BY <1>3, <1>6, <2>1
      <3> QED  BY <1>3, <1>4, <1>6, <2>1, <3>1
    <2>2. CASE si < fin /\ i < si
      <3>1. slot'[i] = slot[i] /\ slot[i] \notin gone
        BY <1>3, <1>5, <1>6, <2>2
      <3> QED  BY <1>3, <1>4, <1>6, <2>2, <3>1
    <2>3. CASE si < fin /\ si <= i
      <3>1. i + 1 \in 1..fin /\ i + 1 # si /\ slot'[i] = slot[i + 1]
        BY <1>3, <1>6, <1>7, <2>3
      <3>2. slot[i + 1] \notin gone
        BY <1>3, <1>5, <3>1
      <3> QED  BY <1>3, <1>4, <1>6, <1>7, <2>3, <3>1, <3>2
    <2> QED  BY <1>3, <1>7, <2>1, <2>2, <2>3
  <1>8. Filled'
    <2>1. \A i \in 1..fin : (i < fin \/ si = fin) => slot'[i] # Null /\ kind'[slot'[i]] # Free
      BY <1>4, <1>7
    <2>2. si < fin => slot'[fin] = Null
      BY <1>3, <1>6
    <2>3. ASSUME NEW i \in 1..fin, NEW j \in 1..fin, i # j,
                 i < fin \/ si = fin, j < fin \/ si = fin
          PROVE  kind'[slot'[i]] # kind'[slot'[j]]
      <3>1. PICK k \in 1..fin : /\ slot'[i] = slot[k] /\ kind'[slot[k]] = kind[slot[k]]
                               /\ k = IF si <= i /\ i < fin THEN i + 1 ELSE i
        BY <1>7, <2>3
      <3>2. PICK l \in 1..fin : /\ slot'[j] = slot[l] /\ kind'[slot[l]] = kind[slot[l]]
                               /\ l = IF si <= j /\ j < fin THEN j + 1 ELSE j
        BY <1>7, <2>3
      <3>3. k # l
        BY <1>3, <2>3, <3>1, <3>2
      <3> QED  BY <1>5, <3>1, <3>2, <3>3
    <2>4. \A i \in 1..fin : (i < fin \/ si = fin) \/ (i = fin /\ si < fin)
      BY <1>3
    <2> QED  BY <1>1, <2>1, <2>2, <2>3, <2>4 DEF Filled, Live
  <1>9. Fitting'
    <2>1. \A o \in Object : \A i \in 1..Len(queue'[o]) : queue'[o][i] = kind'[o]
      <3>1. ASSUME NEW o \in Object PROVE \A i \in 1..Len(queue'[o]) : queue'[o][i] = kind'[o]
        <4>1. CASE o \in gone
          <5>1. queue'[o] = <<>>
            BY <1>6, <4>1, Zenon
          <5>2. Len(queue'[o]) = 0
            BY <5>1, EmptySeq
          <5> QED  BY <5>2
        <4>2. CASE o \notin gone
          BY <1>2, <1>6, <4>2 DEF Fitting
        <4> QED  BY <4>1, <4>2
      <3> QED  BY <3>1
    <2> QED  BY <1>1, <1>2, <2>1 DEF Fitting
  <1>10. Apart' /\ Checked'
    BY <1>1, <1>2 DEF Apart, Alive, Checked
  <1> QED  BY <1>8, <1>9, <1>10

(* Lowering the end destroys what is behind it, and nothing before it. *)
LEMMA DestroySound ==
  ASSUME AgentInv, ~raced', Destroy
  PROVE  Apart' /\ Filled' /\ Fitting' /\ Checked'
  <1>1. /\ UNCHANGED <<slot, si, cpc, ci, cend, form, seen, stale>> /\ ~raced /\ spc = "destroy"
        /\ spc' = "test" /\ fin' = fin - 1
    BY DEF Destroy, colVars
  <1>2. Apart /\ Filled /\ Fitting /\ TypeOK /\ cpc \in {"idle", "check"}
    BY <1>1 DEF AgentInv, Sound, Apart
  <1>3. fin \in Nat \ {0}
    BY <1>1 DEF AgentInv, TypeOK, Bounds
  <1>4. \A o \in Object : /\ slot[fin] = o => kind'[o] = Free /\ queue'[o] = <<>>
                          /\ slot[fin] # o => kind'[o] = kind[o] /\ queue'[o] = queue[o]
    BY DEF Destroy
  <1>5. \A i \in 1..(fin - 1) : i \in 1..fin /\ slot[i] \in Object /\ Live(slot[i])
    BY <1>1, <1>3, SlotLive
  <1>6. \A i \in 1..(fin - 1) : slot[i] # slot[fin]
    BY <1>2, <1>3, <1>5 DEF Filled, Live
  <1>7. \A i \in 1..(fin - 1) : kind'[slot[i]] = kind[slot[i]]
    BY <1>4, <1>5, <1>6
  <1>8. Filled'
    <2>1. \A i, j \in 1..(fin - 1) : i # j => kind[slot[i]] # kind[slot[j]]
      BY <1>2, <1>5 DEF Filled
    <2> QED  BY <1>1, <1>5, <1>7, <2>1 DEF Filled, Live
  <1>9. Fitting'
    <2>1. \A o \in Object : \A i \in 1..Len(queue'[o]) : queue'[o][i] = kind'[o]
      <3>1. ASSUME NEW o \in Object PROVE \A i \in 1..Len(queue'[o]) : queue'[o][i] = kind'[o]
        <4>1. CASE slot[fin] = o
          <5>1. queue'[o] = <<>>
            BY <1>4, <4>1
          <5>2. Len(queue'[o]) = 0
            BY <5>1, EmptySeq
          <5> QED  BY <5>2
        <4>2. CASE slot[fin] # o
          BY <1>2, <1>4, <4>2 DEF Fitting
        <4> QED  BY <4>1, <4>2
      <3> QED  BY <3>1
    <2> QED  BY <1>1, <1>2, <2>1 DEF Fitting
  <1>10. Apart' /\ Checked'
    BY <1>1, <1>2 DEF Apart, Alive, Checked
  <1> QED  BY <1>8, <1>9, <1>10

-----------------------------------------------------------------------------
(* What happens around the agent touches none of it. *)
LEMMA OutsideSound ==
  ASSUME AgentInv, ~raced', Tick \/ Disconnect \/ UNCHANGED vars
  PROVE  Apart' /\ Filled' /\ Fitting' /\ Checked'
  <1>1. UNCHANGED <<slot, fin, kind, queue, cpc, ci, cend, form, seen, spc, si, item, stale, raced>>
    BY DEF Tick, Disconnect, vars, vecVars, objVars, colVars, sndVars
  <1>2. Apart /\ Filled /\ Fitting /\ Checked
    BY <1>1 DEF AgentInv, Sound
  <1>3. Apart' /\ Fitting'
    BY <1>1, <1>2 DEF Apart, Alive, Fitting
  <1>4. Filled' /\ Checked'
    BY <1>1, <1>2 DEF Filled, Checked, Live
  <1> QED  BY <1>3, <1>4

(* Having met is for good. *)
LEMMA RacedStays == AgentInv /\ [Next]_vars /\ raced => raced'
  BY DEF Next, Collector, Sender, Collect, Convert, AddData, CheckLater, CheckNow, Scan, Recreate,
         PushBack, Grow, ConnectFails, CheckDone, CollectorUsesFreed, CollectorCrashes, Wake, Test,
         Pop, SendOk, SendFail, Erase, Destroy, SenderUsesFreed, SenderCrashes, Crash, Tick,
         Disconnect, vars

(* Every step keeps the invariant. *)
LEMMA AgentStep == AgentInv /\ [Next]_vars => AgentInv'
  <1> SUFFICES ASSUME AgentInv, [Next]_vars PROVE AgentInv'
    OBVIOUS
  <1>1. TypeOK' /\ Bounds'
    BY TypeStep DEF AgentInv
  <1>2. ASSUME ~raced' PROVE Apart' /\ Filled' /\ Fitting' /\ Checked'
    <2>1. ~raced
      BY <1>2, RacedStays
    <2>2. CASE Collector
      BY <1>2, <2>1, <2>2, NoBadAccess, LookingSound, AddDataSound, ScanSound, RecreateSound, GrowSound
         DEF Collector
    <2>3. CASE Sender
      BY <1>2, <2>1, <2>3, NoBadAccess, WalkingSound, PopSound, EraseSound, DestroySound DEF Sender
    <2> QED  BY <1>2, <2>2, <2>3, OutsideSound DEF Next
  <1> QED  BY <1>1, <1>2 DEF AgentInv, Sound

(* The inductive invariant of the agent's vector and its two threads: the  *)
(* types, the range of every index and, until they meet, what every slot,  *)
(* every queue and every intermediate result holds.                        *)
THEOREM AgentInvariant == Spec => []AgentInv
  <1> QED  BY AgentInit, AgentStep, PTL DEF Spec

(* Types and bounds hold for every configuration, also after the threads   *)
(* have met: queues hold at most maxSize + 1 items, indices stay in reach. *)
THEOREM AgentTypeOK == Spec => []TypeOK
  <1>1. AgentInv => TypeOK
    BY DEF AgentInv
  <1> QED  BY <1>1, AgentInvariant, PTL

(* Without a meeting of the threads inside the vector no failed send, lost *)
(* connection, constructor that throws or output made anew ends the agent. *)
THEOREM AgentCrashNeedsRace == Spec => []CrashNeedsRace
  <1>1. AgentInv => CrashNeedsRace
    BY DEF AgentInv, Sound, Apart, CrashNeedsRace
  <1> QED  BY <1>1, AgentInvariant, PTL

(* checkOutput never adds a second output of a kind that is there.         *)
THEOREM AgentOneOutputPerKind == Spec => []OneOutputPerKind
  <1>1. AgentInv => OneOutputPerKind
    BY DEF AgentInv, Sound, Filled, OneOutputPerKind
  <1> QED  BY <1>1, AgentInvariant, PTL

(* What is queued in an output was converted by an output of its kind.     *)
THEOREM AgentOwnForm == Spec => []OwnForm
  <1>1. AgentInv => OwnForm
    BY DEF AgentInv, Sound, Fitting, OwnForm
  <1> QED  BY <1>1, AgentInvariant, PTL
-----------------------------------------------------------------------------
(* Sampling *)

(* The line of device d was parsed in this pass and has a packet. *)
Stamped(d) == d \in DOMAIN snap \ todo /\ snap[d] > 0

(* What the types leave open: readings are functions, and a device that    *)
(* never vanished is there.                                                *)
ReadTypes ==
    /\ sets \in Nat /\ slow \in BOOLEAN
    /\ downs \in [Dev -> Nat]
    /\ DOMAIN snap \subseteq Dev /\ \A d \in DOMAIN snap : snap[d] \in Nat
    /\ IsReading(first) /\ DOMAIN first = DOMAIN last
    /\ \A d \in Dev : downs[d] = 0 => d \in up

(* currTrafficMap_ is lastTrafficMap_ but for the lines parsed since.      *)
CurrIsLast ==
    \A d \in Dev :
       /\ d \in DOMAIN curr <=> d \in DOMAIN last \/ Stamped(d)
       /\ Stamped(d) => curr[d].count = snap[d]
       /\ d \in DOMAIN last /\ ~Stamped(d) => curr[d] = last[d]

Got(d) == credited[d] + lost[d]

(* NeverMore with what the counter of a device may still bring: from the   *)
(* last reading to the snapshot, and from there to now.                    *)
Budget ==
    \A d \in Dev :
       /\ d \notin DOMAIN last => Got(d) = 0
       /\ d \in DOMAIN last \ DOMAIN snap => Got(d) + Delta(kern[d], last[d].count) <= moved[d]
       /\ d \in DOMAIN snap \ DOMAIN last => Delta(kern[d], snap[d]) <= moved[d]
       /\ d \in DOMAIN snap \cap DOMAIN last =>
             Got(d) + Delta(snap[d], last[d].count) + Delta(kern[d], snap[d]) <= moved[d]

(* AddsUp, with a counter that only grows while the device stays. *)
Growing ==
    \A d \in Dev : downs[d] = 0 =>
       /\ d \in DOMAIN last =>
             /\ Got(d) = last[d].count - first[d].count
             /\ last[d].count <= kern[d]
             /\ d \in DOMAIN snap => last[d].count <= snap[d]
       /\ d \in DOMAIN snap => snap[d] <= kern[d]

(* RateNeedsTime: the stamps of a pass of the traffic collector lie behind *)
(* those of the pass before, unless the clock was set back or the pass     *)
(* took the whole interval.                                                *)
Stamps ==
    sets > 0 \/ slow \/
    /\ now >= lastTime[Net]
    /\ \A d \in Dev : lost[d] = 0
    /\ \A d \in DOMAIN curr : curr[d].ts < lastTime[Net] + intv
    /\ \A d \in DOMAIN last : last[d].ts < lastTime[Net] + intv
    /\ pc \in {"open", "stamp"} => \A d \in DOMAIN last : last[d].ts < lastTime[Net]
    /\ \A d \in Dev : Stamped(d) => curr[d].ts >= lastTime[Net]

(* GridKept: the collector was not due at the last look at it. *)
Grid ==
    \A m \in Mod :
       /\ lastTime[m] % intv = 0
       /\ lastTime[m] # 0 /\ (looked[m] = lastTime[m] \/ ~skipped[m])
          => looked[m] < lastTime[m] + intv

SamplingInv ==
    /\ SamplingTypeOK /\ ReadTypes /\ CurrIsLast /\ Budget /\ Growing
    /\ Stamps /\ Grid

(* What the assumption says of the constants. *)
LEMMA IntervalFacts ==
  Modules \in Nat /\ Modules > 0 /\ intv \in Nat /\ intv > 0 /\ Net \in Mod /\ Start \in Nat
  BY SamplingAssumption DEF Mod

(* The next multiple of the interval. *)
LEMMA NextMultiple ==
  ASSUME NEW a \in Nat, NEW b \in Nat, b > 0, a % b = 0
  PROVE  (a + b) % b = 0
  <1>1. a = b * (a \div b) + (a % b) /\ a \div b \in Int
    OBVIOUS
  <1>2. a + b = b * ((a \div b) + 1)
    BY <1>1
  <1>3. ASSUME NEW q \in Int PROVE (b * q) % b = 0
    OBVIOUS
  <1> QED  BY <1>1, <1>2, <1>3

(* The invariant holds initially. *)
LEMMA SamplingInvInit == SamplingInit => SamplingInv
  <1> SUFFICES ASSUME SamplingInit PROVE SamplingInv
    OBVIOUS
  <1> USE SamplingAssumption, IntervalFacts
  <1>0. DOMAIN Nothing = {}
    BY DEF Nothing
  <1>1. SamplingTypeOK
    <2>1. kern \in [Dev -> Nat]
      BY DEF SamplingInit
    <2>2. IsReading(curr) /\ IsReading(last)
      BY <1>0 DEF SamplingInit, IsReading
    <2>3. 1 \in Mod
      BY DEF Mod
    <2> QED  BY <1>0, <2>1, <2>2, <2>3 DEF SamplingInit, SamplingTypeOK
  <1>2. ReadTypes
    <2>1. IsReading(first) /\ DOMAIN first = DOMAIN last
      BY <1>0 DEF SamplingInit, IsReading
    <2>2. slow \in BOOLEAN
      BY DEF SamplingInit
    <2> QED  BY <1>0, <2>1, <2>2 DEF SamplingInit, ReadTypes
  <1>3. CurrIsLast /\ Budget /\ Growing
    BY <1>0 DEF SamplingInit, CurrIsLast, Budget, Growing, Stamped, Got
  <1>4. Stamps
    BY <1>0 DEF SamplingInit, Stamps, Stamped
  <1>5. Grid
    BY DEF SamplingInit, Grid
  <1> QED  BY <1>1, <1>2, <1>3, <1>4, <1>5 DEF SamplingInv

(* A reading that grows by a line. *)
LEMMA JoinedFacts ==
  ASSUME NEW f, NEW g
  PROVE  /\ DOMAIN Joined(f, g) = DOMAIN f \cup DOMAIN g
         /\ \A d \in DOMAIN f : Joined(f, g)[d] = f[d]
         /\ \A d \in DOMAIN g \ DOMAIN f : Joined(f, g)[d] = g[d]
  BY DEF Joined

(* The clock goes on, or is set back, which is counted. *)
LEMMA ClockStep ==
  ASSUME SamplingInv, ClockTick \/ \E k \in 1..MaxBack : SetBack(k)
  PROVE  SamplingInv'
  <1>1. UNCHANGED <<loopVars, kernelVars, readVars, sumVars>>
    BY DEF ClockTick, SetBack
  <1>2. now' \in Nat /\ sets' \in Nat /\ ((now' >= now /\ sets' = sets) \/ sets' > 0)
    BY SamplingAssumption DEF ClockTick, SetBack, SamplingInv, SamplingTypeOK, ReadTypes
  <1>3. SamplingTypeOK' /\ ReadTypes'
    BY <1>1, <1>2 DEF SamplingInv, SamplingTypeOK, ReadTypes, loopVars, kernelVars, readVars, sumVars,
                      IsReading
  <1>4. CurrIsLast' /\ Budget' /\ Growing' /\ Grid'
    BY <1>1 DEF SamplingInv, CurrIsLast, Budget, Growing, Grid, Stamped, Got,
                loopVars, kernelVars, readVars, sumVars
  <1>5. Stamps'
    <2>1. now \in Nat /\ lastTime[Net] \in Nat /\ sets \in Nat
      BY IntervalFacts DEF SamplingInv, SamplingTypeOK, ReadTypes
    <2> QED  BY <1>1, <1>2, <2>1 DEF SamplingInv, Stamps, Stamped,
                loopVars, kernelVars, readVars, sumVars
  <1> QED  BY <1>3, <1>4, <1>5 DEF SamplingInv

(* What the kernel does to a device: packets, and devices that vanish and  *)
(* come back with a counter of 0.                                          *)
LEMMA KernelStep ==
  ASSUME SamplingInv, NEW d \in Dev, Move(d) \/ Down(d) \/ Up(d)
  PROVE  SamplingInv'
  <1>1. UNCHANGED <<now, sets, loopVars, readVars, sumVars>>
    BY DEF Move, Down, Up
  <1>t. SamplingTypeOK /\ ReadTypes
    BY DEF SamplingInv
  <1>2. /\ up' \subseteq Dev /\ kern' \in [Dev -> Nat] /\ moved' \in [Dev -> Nat]
        /\ downs' \in [Dev -> Nat]
    BY <1>t DEF Move, Down, Up, SamplingTypeOK, ReadTypes
  <1>k. \A e \in Dev : kern[e] \in Nat /\ moved[e] \in Nat /\ downs[e] \in Nat
    BY <1>t DEF SamplingTypeOK, ReadTypes
  <1>3. \A e \in Dev : downs'[e] = 0 => downs[e] = 0 /\ e \in up' /\ kern'[e] >= kern[e]
    <2>1. CASE Move(d)
      BY <1>t, <1>k, <2>1 DEF Move, SamplingTypeOK, ReadTypes
    <2>2. CASE Down(d)
      BY <1>t, <1>k, <2>2 DEF Down, SamplingTypeOK, ReadTypes
    <2>3. CASE Up(d)
      BY <1>t, <1>k, <2>3 DEF Up, SamplingTypeOK, ReadTypes
    <2> QED  BY <2>1, <2>2, <2>3
  <1>4. \A e \in Dev : /\ moved'[e] >= moved[e] /\ kern'[e] \in Nat /\ moved'[e] \in Nat
                       /\ kern'[e] <= kern[e] \/ kern'[e] - kern[e] <= moved'[e] - moved[e]
    <2>1. CASE Move(d)
      BY <1>t, <1>k, <2>1 DEF Move, SamplingTypeOK
    <2>2. CASE Down(d)
      BY <1>k, <2>2 DEF Down
    <2>3. CASE Up(d)
      BY <1>t, <1>k, <2>3 DEF Up, SamplingTypeOK
    <2> QED  BY <2>1, <2>2, <2>3
  <1>5. SamplingTypeOK' /\ ReadTypes'
    BY <1>1, <1>2, <1>3, <1>t DEF SamplingTypeOK, ReadTypes, loopVars, readVars, sumVars, IsReading
  <1>6. CurrIsLast' /\ Stamps' /\ Grid'
    BY <1>1 DEF SamplingInv, CurrIsLast, Stamps, Grid, Stamped, loopVars, readVars, sumVars
  <1>r. /\ \A e \in Dev : credited[e] \in Nat /\ lost[e] \in Nat
        /\ \A e \in DOMAIN last : last[e].count \in Nat
        /\ \A e \in DOMAIN snap : snap[e] \in Nat
        /\ snap' = snap /\ last' = last /\ credited' = credited /\ lost' = lost /\ first' = first
    BY <1>1, <1>t DEF SamplingTypeOK, ReadTypes, IsReading, readVars, sumVars
  <1>7. Budget'
    <2> SUFFICES ASSUME NEW e \in Dev
                 PROVE
       /\ e \notin DOMAIN last => Got(e) = 0
       /\ e \in DOMAIN last \ DOMAIN snap => Got(e) + Delta(kern'[e], last[e].count) <= moved'[e]
       /\ e \in DOMAIN snap \ DOMAIN last => Delta(kern'[e], snap[e]) <= moved'[e]
       /\ e \in DOMAIN snap \cap DOMAIN last =>
             Got(e) + Delta(snap[e], last[e].count) + Delta(kern'[e], snap[e]) <= moved'[e]
      BY <1>r DEF Budget, Got
    <2> QED  BY <1>4, <1>k, <1>r DEF SamplingInv, Budget, Got, Delta
  <1>8. Growing'
    BY <1>3, <1>4, <1>k, <1>r DEF SamplingInv, Growing, Got
  <1> QED  BY <1>5, <1>6, <1>7, <1>8 DEF SamplingInv

(* The loop goes on to a collector. *)
LEMMA OnwardFacts ==
  ASSUME pos \in Mod, Onward
  PROVE  pos' \in Mod /\ pc' = "look"
  BY SamplingAssumption DEF Onward, Mod

(* A look at collector m: the history of looks, and whether the last one   *)
(* was early enough.                                                       *)
LEMMA LookedFacts ==
  ASSUME SamplingInv, NEW m \in Mod, Looked(m)
  PROVE  /\ looked' \in [Mod -> Nat] /\ skipped' \in [Mod -> BOOLEAN]
         /\ \A k \in Mod : k # m => looked'[k] = looked[k] /\ skipped'[k] = skipped[k]
         /\ looked'[m] = now
         /\ ~skipped'[m] => /\ now <= looked[m] + 1
                            /\ looked[m] = lastTime[m] \/ ~skipped[m]
  <1>1. /\ now \in Nat /\ looked \in [Mod -> Nat] /\ skipped \in [Mod -> BOOLEAN]
    BY DEF SamplingInv, SamplingTypeOK
  <1>2. looked' \in [Mod -> Nat] /\ looked'[m] = now /\ \A k \in Mod : k # m => looked'[k] = looked[k]
    BY <1>1 DEF Looked
  <1>3. skipped'[m] = ((looked[m] # lastTime[m] /\ skipped[m]) \/ now > looked[m] + 1)
    BY <1>1 DEF Looked
  <1>4. ~skipped'[m] => ~(now > looked[m] + 1) /\ (looked[m] = lastTime[m] \/ ~skipped[m])
    BY <1>3
  <1>5. looked[m] \in Nat
    BY <1>1
  <1>6. skipped' \in [Mod -> BOOLEAN] /\ \A k \in Mod : k # m => skipped'[k] = skipped[k]
    BY <1>1 DEF Looked
  <1> QED  BY <1>1, <1>2, <1>4, <1>5, <1>6

(* A collector that is not due: its next grid time is not there yet.       *)
LEMMA PassStep ==
  ASSUME SamplingInv, Pass
  PROVE  SamplingInv'
  <1>t. /\ SamplingTypeOK /\ ReadTypes /\ pos \in Mod /\ pc = "look" /\ Looked(pos)
        /\ UNCHANGED <<now, sets, lastTime, kernelVars, readVars, sumVars>>
    BY DEF SamplingInv, SamplingTypeOK, Pass
  <1>1. pos' \in Mod /\ pc' = "look"
    BY <1>t, OnwardFacts DEF Pass
  <1>2. SamplingTypeOK' /\ ReadTypes'
    BY <1>t, <1>1, LookedFacts DEF SamplingTypeOK, ReadTypes, kernelVars, readVars, sumVars, IsReading
  <1>3. CurrIsLast' /\ Budget' /\ Growing'
    BY <1>t DEF SamplingInv, CurrIsLast, Budget, Growing, Stamped, Got,
                kernelVars, readVars, sumVars
  <1>4. Stamps'
    BY <1>t, <1>1 DEF SamplingInv, Stamps, Stamped, kernelVars, readVars, sumVars
  <1>5. Grid'
    <2> SUFFICES ASSUME NEW m \in Mod
                 PROVE  /\ lastTime[m] % intv = 0
                        /\ lastTime[m] # 0 /\ (looked'[m] = lastTime[m] \/ ~skipped'[m])
                             => looked'[m] < lastTime[m] + intv
      BY <1>t DEF Grid
    <2>g. /\ lastTime[m] % intv = 0 /\ lastTime[m] \in Nat /\ looked[m] \in Nat /\ now \in Nat
          /\ lastTime[m] # 0 /\ (looked[m] = lastTime[m] \/ ~skipped[m])
               => looked[m] < lastTime[m] + intv
      BY <1>t DEF SamplingInv, Grid, SamplingTypeOK
    <2>1. CASE m # pos
      BY <1>t, <2>g, <2>1, LookedFacts
    <2>2. CASE m = pos
      <3> SUFFICES ASSUME lastTime[m] # 0, looked'[m] = lastTime[m] \/ ~skipped'[m]
                   PROVE  looked'[m] < lastTime[m] + intv
        BY <2>g
      <3>1. looked'[m] = now
        BY <1>t, <2>2, LookedFacts
      <3>2. CASE ~skipped'[m]
        <4>1. now <= looked[m] + 1 /\ looked[m] < lastTime[m] + intv
          BY <1>t, <2>2, <2>g, <3>2, LookedFacts
        <4>2. (lastTime[m] + intv) % intv = 0
          BY <2>g, NextMultiple, IntervalFacts
        <4>3. now # lastTime[m] + intv
          <5> SUFFICES ASSUME now = lastTime[m] + intv PROVE FALSE
            OBVIOUS
          <5>1. now - lastTime[m] >= intv
            BY <2>g, IntervalFacts
          <5> QED  BY <2>2, <4>2, <5>1 DEF Pass, Due
        <4> QED  BY <2>g, <3>1, <4>1, <4>3, IntervalFacts
      <3>3. CASE looked'[m] = lastTime[m]
        BY <2>g, <3>3, IntervalFacts
      <3> QED  BY <3>2, <3>3
    <2> QED  BY <2>1, <2>2
  <1> QED  BY <1>2, <1>3, <1>4, <1>5 DEF SamplingInv

(* A sample is taken: one interval at least after the one before.          *)
LEMMA TakeStep ==
  ASSUME SamplingInv, TakeSample
  PROVE  SamplingInv'
  <1>t. /\ SamplingTypeOK /\ ReadTypes /\ pos \in Mod /\ pc = "look" /\ Looked(pos)
        /\ UNCHANGED <<now, sets, pos, kernelVars, readVars, sumVars>> /\ now \in Nat
        /\ lastTime' = [lastTime EXCEPT ![pos] = now] /\ lastTime \in [Mod -> Nat]
        /\ pc' = IF pos = Net THEN "open" ELSE "other"
    BY DEF SamplingInv, SamplingTypeOK, TakeSample
  <1>l. /\ lastTime' \in [Mod -> Nat] /\ lastTime'[pos] = now
        /\ \A m \in Mod : m # pos => lastTime'[m] = lastTime[m]
    BY <1>t
  <1>d. now % intv = 0 /\ now - lastTime[pos] >= intv
    BY DEF TakeSample, Due
  <1>2. SamplingTypeOK' /\ ReadTypes'
    BY <1>t, <1>l, LookedFacts DEF SamplingTypeOK, ReadTypes, kernelVars, readVars, sumVars, IsReading
  <1>3. CurrIsLast' /\ Budget' /\ Growing'
    BY <1>t DEF SamplingInv, CurrIsLast, Budget, Growing, Stamped, Got,
                kernelVars, readVars, sumVars
  <1>4. Stamps'
    <2>1. CASE pos # Net
      BY <1>t, <1>l, <2>1, IntervalFacts DEF SamplingInv, Stamps, Stamped, kernelVars, readVars, sumVars
    <2>2. CASE pos = Net
      <3>1. \A d \in Dev : ~Stamped(d)
        BY <1>t DEF SamplingTypeOK, Stamped, Nothing
      <3>2. /\ lastTime[Net] \in Nat /\ lastTime'[Net] = now /\ now >= lastTime[Net] + intv
            /\ \A d \in DOMAIN curr : curr[d].ts \in Nat
            /\ \A d \in DOMAIN last : last[d].ts \in Nat
        BY <1>t, <1>l, <1>d, <2>2, IntervalFacts DEF SamplingTypeOK, IsReading
      <3>3. sets > 0 \/ slow \/
              /\ \A d \in Dev : lost[d] = 0
              /\ \A d \in DOMAIN curr : curr[d].ts < lastTime[Net] + intv
              /\ \A d \in DOMAIN last : last[d].ts < lastTime[Net] + intv
        BY DEF SamplingInv, Stamps
      <3>4. UNCHANGED <<now, sets, slow, lost, curr, last, snap, todo>>
        BY <1>t DEF readVars, sumVars
      <3>5. \A d \in Dev : ~Stamped(d)'
        BY <3>1, <3>4 DEF Stamped
      <3> QED  BY <1>t, <3>2, <3>3, <3>4, <3>5, IntervalFacts DEF Stamps
    <2> QED  BY <2>1, <2>2
  <1>5. Grid'
    <2> SUFFICES ASSUME NEW m \in Mod
                 PROVE  /\ lastTime'[m] % intv = 0
                        /\ lastTime'[m] # 0 /\ (looked'[m] = lastTime'[m] \/ ~skipped'[m])
                             => looked'[m] < lastTime'[m] + intv
      BY DEF Grid
    <2>1. CASE m # pos
      BY <1>t, <1>l, <2>1, LookedFacts DEF SamplingInv, Grid
    <2>2. CASE m = pos
      BY <1>t, <1>l, <1>d, <2>2, LookedFacts, IntervalFacts
    <2> QED  BY <2>1, <2>2
  <1> QED  BY <1>2, <1>3, <1>4, <1>5 DEF SamplingInv

(* A collector is done, or has nothing to read. *)
LEMMA DoneStep ==
  ASSUME SamplingInv, OtherDone \/ ReadFails
  PROVE  SamplingInv'
  <1>t. /\ SamplingTypeOK /\ ReadTypes /\ pos \in Mod /\ pc # "stamp" /\ Onward
        /\ UNCHANGED <<now, sets, lastTime, looked, skipped, kernelVars, readVars, sumVars>>
    BY DEF SamplingInv, SamplingTypeOK, OtherDone, ReadFails
  <1>1. pos' \in Mod /\ pc' = "look"
    BY <1>t, OnwardFacts
  <1>2. SamplingTypeOK' /\ ReadTypes'
    BY <1>t, <1>1 DEF SamplingTypeOK, ReadTypes, kernelVars, readVars, sumVars, IsReading
  <1>3. CurrIsLast' /\ Budget' /\ Growing' /\ Grid'
    BY <1>t DEF SamplingInv, CurrIsLast, Budget, Growing, Grid, Stamped, Got,
                kernelVars, readVars, sumVars
  <1>4. Stamps'
    BY <1>t, <1>1 DEF SamplingInv, Stamps, Stamped, kernelVars, readVars, sumVars
  <1> QED  BY <1>2, <1>3, <1>4 DEF SamplingInv

(* The file is read: the counters of the devices that are there. *)
LEMMA ReadStep ==
  ASSUME SamplingInv, ReadNetDev
  PROVE  SamplingInv'
  <1>t. /\ SamplingTypeOK /\ ReadTypes /\ pc = "open" /\ pc' = "stamp"
        /\ snap' = [d \in up |-> kern[d]] /\ todo' = up /\ up \subseteq Dev
        /\ UNCHANGED <<now, sets, pos, lastTime, looked, skipped, kernelVars, curr, slow, sumVars>>
    BY DEF SamplingInv, SamplingTypeOK, ReadNetDev
  <1>s. /\ DOMAIN snap = {} /\ DOMAIN snap' = up
        /\ \A d \in up : snap'[d] = kern[d] /\ kern[d] \in Nat
    BY <1>t DEF SamplingTypeOK, Nothing
  <1>n. (\A d \in Dev : ~Stamped(d)) /\ (\A d \in Dev : ~Stamped(d)')
    BY <1>t, <1>s DEF Stamped
  <1>r. /\ \A d \in Dev : credited[d] \in Nat /\ lost[d] \in Nat /\ moved[d] \in Nat
        /\ \A d \in DOMAIN last : last[d].count \in Nat
    BY <1>t DEF SamplingTypeOK, IsReading
  <1>1. SamplingTypeOK'
    BY <1>t, <1>s DEF SamplingTypeOK, kernelVars, sumVars, IsReading
  <1>2. ReadTypes'
    BY <1>t, <1>s DEF ReadTypes, kernelVars, sumVars, IsReading
  <1>3. CurrIsLast'
    BY <1>t, <1>n DEF SamplingInv, CurrIsLast, sumVars
  <1>4. Budget'
    <2> SUFFICES ASSUME NEW d \in Dev
                 PROVE
       /\ d \notin DOMAIN last => Got(d) = 0
       /\ d \in DOMAIN last \ up => Got(d) + Delta(kern[d], last[d].count) <= moved[d]
       /\ d \in up \ DOMAIN last => Delta(kern[d], kern[d]) <= moved[d]
       /\ d \in up \cap DOMAIN last =>
             Got(d) + Delta(kern[d], last[d].count) + Delta(kern[d], kern[d]) <= moved[d]
      BY <1>t, <1>s DEF Budget, Got, kernelVars, sumVars
    <2> QED  BY <1>s, <1>r DEF SamplingInv, Budget, Got, Delta
  <1>5. Growing'
    BY <1>t, <1>s DEF SamplingInv, Growing, Got, kernelVars, sumVars
  <1>6. Stamps'
    BY <1>t, <1>n DEF SamplingInv, Stamps, kernelVars, sumVars
  <1>7. Grid'
    BY <1>t DEF SamplingInv, Grid
  <1> QED  BY <1>1, <1>2, <1>3, <1>4, <1>5, <1>6, <1>7 DEF SamplingInv

(* A line is parsed: its device has a new reading, or keeps the old one if *)
(* the line shows no packet.                                               *)
LEMMA StampStep ==
  ASSUME SamplingInv, NEW d \in Dev, Stamp(d)
  PROVE  SamplingInv'
  <1> DEFINE new == [count |-> snap[d], ts |-> now]
  <1>t. /\ SamplingTypeOK /\ ReadTypes /\ pc = "stamp" /\ d \in todo /\ d \in DOMAIN snap
        /\ todo' = todo \ {d} /\ snap[d] \in Nat /\ now \in Nat /\ pos = Net
        /\ UNCHANGED <<now, sets, loopVars, kernelVars, snap, sumVars>>
    BY DEF SamplingInv, SamplingTypeOK, ReadTypes, Stamp
  <1>w. slow' = (slow \/ now >= lastTime[Net] + intv)
    BY DEF Stamp
  <1>n. ~Stamped(d) /\ (Stamped(d)' <=> snap[d] > 0)
    BY <1>t DEF Stamped
  <1>o. \A e \in Dev : e # d => (Stamped(e)' <=> Stamped(e))
    BY <1>t DEF Stamped
  <1>c. /\ DOMAIN curr' = DOMAIN curr \cup (IF snap[d] > 0 THEN {d} ELSE {})
        /\ \A e \in DOMAIN curr : e # d => curr'[e] = curr[e]
        /\ snap[d] > 0 => curr'[d] = new
        /\ ~(snap[d] > 0) => curr' = curr
    <2> DEFINE line == [e \in {d} |-> new]
    <2>1. DOMAIN line = {d} /\ line[d] = new
      OBVIOUS
    <2>2. curr' = IF snap[d] > 0 THEN Joined(line, curr) ELSE curr
      BY DEF Stamp, Counts
    <2> HIDE DEF line, new
    <2>3. /\ DOMAIN Joined(line, curr) = DOMAIN line \cup DOMAIN curr
          /\ \A e \in DOMAIN line : Joined(line, curr)[e] = line[e]
          /\ \A e \in DOMAIN curr \ DOMAIN line : Joined(line, curr)[e] = curr[e]
      BY JoinedFacts
    <2>4. CASE snap[d] > 0
      <3>1. curr' = Joined(line, curr)
        BY <2>2, <2>4
      <3> QED  BY <2>1, <2>3, <2>4, <3>1
    <2>5. CASE ~(snap[d] > 0)
      BY <2>2, <2>5
    <2> QED  BY <2>4, <2>5
  <1>v. new.count = snap[d] /\ new.ts = now
    OBVIOUS
  <1> HIDE DEF new
  <1>1. SamplingTypeOK'
    <2>1. IsReading(curr')
      BY <1>t, <1>c, <1>v DEF SamplingTypeOK, IsReading
    <2>2. DOMAIN last \subseteq DOMAIN curr'
      BY <1>t, <1>c DEF SamplingTypeOK
    <2> QED  BY <1>t, <2>1, <2>2 DEF SamplingTypeOK, loopVars, kernelVars, sumVars, IsReading
  <1>2. ReadTypes'
    <2>1. slow' \in BOOLEAN
      BY <1>w
    <2> QED  BY <1>t, <2>1 DEF ReadTypes, kernelVars, sumVars, IsReading
  <1>3. CurrIsLast'
    <2> SUFFICES ASSUME NEW e \in Dev
                 PROVE  /\ e \in DOMAIN curr' <=> e \in DOMAIN last \/ Stamped(e)'
                        /\ Stamped(e)' => curr'[e].count = snap[e]
                        /\ e \in DOMAIN last /\ ~Stamped(e)' => curr'[e] = last[e]
      BY <1>t DEF CurrIsLast, sumVars
    <2>1. /\ e \in DOMAIN curr <=> e \in DOMAIN last \/ Stamped(e)
          /\ Stamped(e) => curr[e].count = snap[e]
          /\ e \in DOMAIN last /\ ~Stamped(e) => curr[e] = last[e]
      BY DEF SamplingInv, CurrIsLast
    <2>2. CASE e # d
      BY <1>c, <1>o, <2>1, <2>2
    <2>3. CASE e = d
      BY <1>c, <1>n, <1>v, <2>1, <2>3
    <2> QED  BY <2>2, <2>3
  <1>4. Budget' /\ Growing' /\ Grid'
    BY <1>t DEF SamplingInv, Budget, Growing, Grid, Got, loopVars, kernelVars, sumVars
  <1>5. Stamps'
    <2> SUFFICES ASSUME ~(sets > 0), ~slow'
                 PROVE
          /\ now >= lastTime[Net]
          /\ \A e \in Dev : lost[e] = 0
          /\ \A e \in DOMAIN curr' : curr'[e].ts < lastTime[Net] + intv
          /\ \A e \in DOMAIN last : last[e].ts < lastTime[Net] + intv
          /\ \A e \in DOMAIN last : last[e].ts < lastTime[Net]
          /\ \A e \in Dev : Stamped(e)' => curr'[e].ts >= lastTime[Net]
      BY <1>t DEF Stamps, loopVars, sumVars
    <2>1. ~slow /\ ~(now >= lastTime[Net] + intv)
      BY <1>w
    <2>2. /\ now >= lastTime[Net]
          /\ \A e \in Dev : lost[e] = 0
          /\ \A e \in DOMAIN curr : curr[e].ts < lastTime[Net] + intv
          /\ \A e \in DOMAIN last : last[e].ts < lastTime[Net] + intv
          /\ \A e \in DOMAIN last : last[e].ts < lastTime[Net]
          /\ \A e \in Dev : Stamped(e) => curr[e].ts >= lastTime[Net]
      BY <1>t, <2>1 DEF SamplingInv, Stamps
    <2>3. lastTime[Net] \in Nat
      BY <1>t, IntervalFacts DEF SamplingTypeOK
    <2>4. now < lastTime[Net] + intv
      BY <1>t, <2>1, <2>3, IntervalFacts
    <2>5. \A e \in DOMAIN curr' : curr'[e].ts < lastTime[Net] + intv
      BY <1>c, <1>v, <2>2, <2>4
    <2>6. ASSUME NEW e \in Dev, Stamped(e)' PROVE curr'[e].ts >= lastTime[Net]
      <3>1. CASE e = d
        BY <1>c, <1>n, <1>v, <2>2, <2>6, <3>1
      <3>2. CASE e # d
        <4>1. Stamped(e) /\ e \in DOMAIN curr
          BY <1>o, <2>6, <3>2 DEF SamplingInv, CurrIsLast
        <4> QED  BY <1>c, <2>2, <3>2, <4>1
      <3> QED  BY <3>1, <3>2
    <2> QED  BY <2>2, <2>5, <2>6
  <1> QED  BY <1>1, <1>2, <1>3, <1>4, <1>5 DEF SamplingInv

(* What a device brought to the reading that is now summed up: the packets *)
(* of its line, or nothing.                                                *)
LEMMA SummedFacts ==
  ASSUME SamplingInv, Calculate, NEW d \in Dev
  PROVE  /\ Got(d)' = Got(d) + Packets(d)
         /\ Stamped(d) => d \in DOMAIN curr /\ curr[d].count = snap[d]
         /\ ~Stamped(d) /\ d \in DOMAIN last => d \in DOMAIN curr /\ curr[d] = last[d]
         /\ ~Stamped(d) /\ d \notin DOMAIN last => d \notin DOMAIN curr
         /\ Stamped(d) <=> d \in DOMAIN snap /\ snap[d] > 0
         /\ d \in DOMAIN curr => curr[d].count \in Nat \ {0} /\ curr[d].ts \in Nat
         /\ d \in DOMAIN last => last[d].count \in Nat \ {0} /\ last[d].ts \in Nat
         /\ d \in DOMAIN snap => snap[d] \in Nat
         /\ credited[d] \in Nat /\ lost[d] \in Nat /\ kern[d] \in Nat /\ moved[d] \in Nat
         /\ Packets(d) \in Nat /\ credited'[d] \in Nat /\ lost'[d] \in Nat
  <1>1. /\ Stamped(d) => d \in DOMAIN curr /\ curr[d].count = snap[d]
        /\ ~Stamped(d) /\ d \in DOMAIN last => d \in DOMAIN curr /\ curr[d] = last[d]
        /\ ~Stamped(d) /\ d \notin DOMAIN last => d \notin DOMAIN curr
    BY DEF SamplingInv, CurrIsLast
  <1>2. Stamped(d) <=> d \in DOMAIN snap /\ snap[d] > 0
    BY DEF Calculate, Stamped
  <1>3. /\ d \in DOMAIN curr => curr[d].count \in Nat \ {0} /\ curr[d].ts \in Nat
        /\ d \in DOMAIN last => last[d].count \in Nat \ {0} /\ last[d].ts \in Nat
        /\ d \in DOMAIN snap => snap[d] \in Nat
        /\ credited[d] \in Nat /\ lost[d] \in Nat /\ kern[d] \in Nat /\ moved[d] \in Nat
    BY DEF SamplingInv, SamplingTypeOK, ReadTypes, IsReading
  <1>4. Packets(d) \in Nat
    BY <1>3 DEF Packets, Delta
  <1>5. /\ credited'[d] = credited[d] + IF Rated(d) THEN Packets(d) ELSE 0
        /\ lost'[d] = lost[d] + IF Rated(d) THEN 0 ELSE Packets(d)
    BY DEF Calculate, Sum
  <1>6. Got(d)' = Got(d) + Packets(d) /\ credited'[d] \in Nat /\ lost'[d] \in Nat
    <2>1. CASE Rated(d)
      BY <1>3, <1>4, <1>5, <2>1 DEF Got
    <2>2. CASE ~Rated(d)
      BY <1>3, <1>4, <1>5, <2>2 DEF Got
    <2> QED  BY <2>1, <2>2
  <1> QED  BY <1>1, <1>2, <1>3, <1>4, <1>6

(* The rates are made: nothing more than the budget of a device allows.    *)
LEMMA CalculateStep ==
  ASSUME SamplingInv, Calculate
  PROVE  SamplingInv'
  <1>t. /\ SamplingTypeOK /\ ReadTypes /\ pc = "stamp" /\ todo = {} /\ Sum
        /\ last' = curr /\ snap' = Nothing /\ first' = Joined(first, curr) /\ Onward
        /\ UNCHANGED <<now, sets, lastTime, looked, skipped, kernelVars, todo, curr, slow>>
        /\ pos \in Mod
    BY DEF SamplingInv, SamplingTypeOK, Calculate, Sum
  <1>s. DOMAIN snap' = {}
    BY <1>t DEF Nothing
  <1>p. pos' \in Mod /\ pc' = "look"
    BY <1>t, OnwardFacts
  <1>n. \A d \in Dev : ~Stamped(d)'
    BY <1>s DEF Stamped
  <1>f. /\ DOMAIN first' = DOMAIN curr
        /\ \A d \in DOMAIN last : first'[d] = first[d]
        /\ \A d \in DOMAIN curr \ DOMAIN last : first'[d] = curr[d]
    <2>1. DOMAIN first = DOMAIN last /\ DOMAIN last \subseteq DOMAIN curr
      BY <1>t DEF SamplingTypeOK, ReadTypes
    <2>2. /\ DOMAIN Joined(first, curr) = DOMAIN first \cup DOMAIN curr
          /\ \A d \in DOMAIN first : Joined(first, curr)[d] = first[d]
          /\ \A d \in DOMAIN curr \ DOMAIN first : Joined(first, curr)[d] = curr[d]
      BY JoinedFacts
    <2> QED  BY <1>t, <2>1, <2>2
  <1>1. SamplingTypeOK'
    <2>1. credited' \in [Dev -> Nat] /\ lost' \in [Dev -> Nat]
      <3>1. \A d \in Dev : credited'[d] \in Nat /\ lost'[d] \in Nat
        BY SummedFacts
      <3>2. /\ credited' = [d \in Dev |-> credited[d] + IF Rated(d) THEN Packets(d) ELSE 0]
            /\ lost' = [d \in Dev |-> lost[d] + IF Rated(d) THEN 0 ELSE Packets(d)]
        BY <1>t DEF Sum
      <3>3. credited' = [d \in Dev |-> credited'[d]] /\ lost' = [d \in Dev |-> lost'[d]]
        BY <3>2
      <3> QED  BY <3>1, <3>3
    <2>2. IsReading(curr') /\ IsReading(last')
      BY <1>t DEF SamplingTypeOK, IsReading
    <2>3. todo' \subseteq DOMAIN snap'
      BY <1>t
    <2> QED  BY <1>t, <1>p, <2>1, <2>2, <2>3 DEF SamplingTypeOK, kernelVars
  <1>2. ReadTypes'
    <2>1. IsReading(first')
      BY <1>t, <1>f DEF SamplingTypeOK, ReadTypes, IsReading
    <2> QED  BY <1>t, <1>s, <1>f, <2>1 DEF ReadTypes, kernelVars
  <1>3. CurrIsLast'
    BY <1>t, <1>n DEF CurrIsLast
  <1>4. Budget'
    <2>e. last' = curr /\ kern' = kern /\ moved' = moved
      BY <1>t DEF kernelVars
    <2> SUFFICES ASSUME NEW d \in Dev
                 PROVE  /\ d \notin DOMAIN curr => Got(d)' = 0
                        /\ d \in DOMAIN curr =>
                              Got(d)' + Delta(kern[d], curr[d].count) <= moved[d]
      BY <2>e, <1>s DEF Budget, Got, Delta
    <2>1. /\ d \notin DOMAIN last => Got(d) = 0
          /\ d \in DOMAIN last \ DOMAIN snap => Got(d) + Delta(kern[d], last[d].count) <= moved[d]
          /\ d \in DOMAIN snap \ DOMAIN last => Delta(kern[d], snap[d]) <= moved[d]
          /\ d \in DOMAIN snap \cap DOMAIN last =>
                Got(d) + Delta(snap[d], last[d].count) + Delta(kern[d], snap[d]) <= moved[d]
      BY DEF SamplingInv, Budget
    <2>2. CASE d \notin DOMAIN last
      <3>1. Packets(d) = 0 /\ Got(d)' = 0
        BY <2>1, <2>2, SummedFacts DEF Packets
      <3>2. CASE Stamped(d)
        <4>1. d \in DOMAIN snap \ DOMAIN last /\ curr[d].count = snap[d]
          BY <2>2, <3>2, SummedFacts DEF Stamped
        <4>2. Delta(kern[d], snap[d]) \in Int
          BY SummedFacts, <1>t, <4>1 DEF Delta, SamplingTypeOK, ReadTypes
        <4> QED  BY <2>1, <3>1, <4>1, <4>2
      <3>3. CASE ~Stamped(d)
        BY <2>2, <3>1, <3>3, SummedFacts
      <3> QED  BY <3>2, <3>3
    <2>3. CASE d \in DOMAIN last /\ Stamped(d)
      BY <2>1, <2>3, SummedFacts DEF Packets, Got
    <2>4. CASE d \in DOMAIN last /\ ~Stamped(d)
      <3>1. Packets(d) = 0 /\ d \in DOMAIN curr /\ curr[d].count = last[d].count
        BY <2>4, SummedFacts DEF Packets, Delta
      <3>2. Got(d) \in Nat /\ Got(d)' = Got(d)
        BY <3>1, SummedFacts DEF Got
      <3> QED  BY <2>1, <2>4, <3>1, <3>2, SummedFacts DEF Delta
    <2> QED  BY <2>2, <2>3, <2>4
  <1>5. Growing'
    <2> SUFFICES ASSUME NEW d \in Dev, downs[d] = 0, d \in DOMAIN curr
                 PROVE  Got(d)' = curr[d].count - first'[d].count /\ curr[d].count <= kern[d]
      BY <1>t, <1>s DEF Growing, kernelVars
    <2>1. /\ d \in DOMAIN last =>
             /\ Got(d) = last[d].count - first[d].count
             /\ last[d].count <= kern[d]
             /\ d \in DOMAIN snap => last[d].count <= snap[d]
          /\ d \in DOMAIN snap => snap[d] <= kern[d]
          /\ d \notin DOMAIN last => Got(d) = 0
          /\ d \in DOMAIN last => first[d].count \in Nat
      BY DEF SamplingInv, Growing, Budget, ReadTypes, IsReading
    <2>2. CASE d \notin DOMAIN last
      BY <1>f, <2>1, <2>2, SummedFacts DEF Packets
    <2>3. CASE d \in DOMAIN last /\ Stamped(d)
      BY <1>f, <2>1, <2>3, SummedFacts DEF Packets, Delta
    <2>4. CASE d \in DOMAIN last /\ ~Stamped(d)
      BY <1>f, <2>1, <2>4, SummedFacts DEF Packets, Delta
    <2> QED  BY <2>2, <2>3, <2>4
  <1>6. Stamps'
    <2> SUFFICES ASSUME ~(sets > 0), ~slow
                 PROVE  /\ now >= lastTime[Net]
                        /\ \A d \in Dev : lost'[d] = 0
                        /\ \A d \in DOMAIN curr : curr[d].ts < lastTime[Net] + intv
      BY <1>t, <1>p, <1>n DEF Stamps
    <2>1. /\ now >= lastTime[Net]
          /\ \A d \in Dev : lost[d] = 0
          /\ \A d \in DOMAIN curr : curr[d].ts < lastTime[Net] + intv
          /\ \A d \in DOMAIN last : last[d].ts < lastTime[Net]
          /\ \A d \in Dev : Stamped(d) => curr[d].ts >= lastTime[Net]
      BY <1>t DEF SamplingInv, Stamps
    <2>2. lastTime[Net] \in Nat
      BY <1>t, IntervalFacts DEF SamplingTypeOK
    <2>3. ASSUME NEW d \in Dev PROVE lost'[d] = 0
      <3>1. lost'[d] = lost[d] + IF Rated(d) THEN 0 ELSE Packets(d)
        BY <1>t DEF Sum
      <3>2. CASE Stamped(d) /\ d \in DOMAIN last
        <4>1. d \in DOMAIN curr /\ curr[d].ts > last[d].ts
          BY <2>1, <2>2, <3>2, SummedFacts
        <4>2. Rated(d)
          BY <3>2, <4>1, SummedFacts DEF Rated, Delta
        <4> QED  BY <2>1, <3>1, <4>2
      <3>3. CASE ~(Stamped(d) /\ d \in DOMAIN last)
        <4>1. Packets(d) = 0
          BY <3>3, SummedFacts DEF Packets, Delta
        <4> QED  BY <2>1, <3>1, <4>1
      <3> QED  BY <3>2, <3>3
    <2> QED  BY <2>1, <2>3
  <1>7. Grid'
    BY <1>t DEF SamplingInv, Grid
  <1> QED  BY <1>1, <1>2, <1>3, <1>4, <1>5, <1>6, <1>7 DEF SamplingInv

(* Every step keeps the invariant. *)
LEMMA SamplingInvStep == SamplingInv /\ [SamplingNext]_samplingVars => SamplingInv'
  <1> SUFFICES ASSUME SamplingInv, [SamplingNext]_samplingVars PROVE SamplingInv'
    OBVIOUS
  <1>1. CASE UNCHANGED samplingVars
    <2>1. /\ UNCHANGED <<now, sets, pos, pc, lastTime, looked, skipped, up, kern, moved, downs>>
          /\ UNCHANGED <<snap, todo, curr, slow, last, first, credited, lost>>
      BY <1>1 DEF samplingVars, loopVars, kernelVars, readVars, sumVars
    <2>2. SamplingTypeOK' /\ ReadTypes'
      BY <2>1 DEF SamplingInv, SamplingTypeOK, ReadTypes, IsReading
    <2>3. CurrIsLast' /\ Budget' /\ Growing' /\ Stamps' /\ Grid'
      BY <2>1 DEF SamplingInv, CurrIsLast, Budget, Growing, Stamps, Grid, Stamped, Got
    <2> QED  BY <2>2, <2>3 DEF SamplingInv
  <1>2. CASE ClockTick \/ \E k \in 1..MaxBack : SetBack(k)
    BY <1>2, ClockStep
  <1>3. CASE \E d \in Dev : Move(d) \/ Down(d) \/ Up(d)
    BY <1>3, KernelStep
  <1>4. CASE Pass
    BY <1>4, PassStep
  <1>5. CASE TakeSample
    BY <1>5, TakeStep
  <1>6. CASE OtherDone \/ ReadFails
    BY <1>6, DoneStep
  <1>7. CASE ReadNetDev
    BY <1>7, ReadStep
  <1>8. CASE \E d \in Dev : Stamp(d)
    BY <1>8, StampStep
  <1>9. CASE Calculate
    BY <1>9, CalculateStep
  <1> QED
    BY <1>1, <1>2, <1>3, <1>4, <1>5, <1>6, <1>7, <1>8, <1>9 DEF SamplingNext

(* The loop of run and the traffic collector keep the invariant. *)
THEOREM SamplingInvariant == SamplingSpec => []SamplingInv
  BY SamplingInvInit, SamplingInvStep, PTL DEF SamplingSpec

(* The types of the loop and of the two readings; a reading has no device  *)
(* without a packet, and loses none that it had (Traffic::collect).        *)
THEOREM SamplingTypesOK == SamplingSpec => []SamplingTypeOK
  <1>1. SamplingInv => SamplingTypeOK
    BY DEF SamplingInv
  <1> QED  BY <1>1, SamplingInvariant, PTL

(* The rates of a device account for no more packets than there were,      *)
(* whatever the device, its counter and the clock do (Delta).              *)
THEOREM SamplingNeverMore == SamplingSpec => []NeverMore
  <1>1. SamplingInv => NeverMore
    <2> SUFFICES ASSUME SamplingInv, NEW d \in Dev PROVE Got(d) <= moved[d]
      BY DEF NeverMore, Got
    <2>1. /\ kern[d] \in Nat /\ moved[d] \in Nat /\ Got(d) \in Nat
          /\ d \in DOMAIN snap => snap[d] \in Nat
          /\ d \in DOMAIN last => last[d].count \in Nat
      BY DEF SamplingInv, SamplingTypeOK, ReadTypes, IsReading, Got
    <2> QED  BY <2>1 DEF SamplingInv, Budget, Delta
  <1> QED  BY <1>1, SamplingInvariant, PTL

(* The rates of a device that never vanished add up to what its counter    *)
(* grew by (calculate, lastTrafficMap_ = currTrafficMap_).                 *)
THEOREM SamplingAddsUp == SamplingSpec => []AddsUp
  <1>1. SamplingInv => AddsUp
    BY DEF SamplingInv, SamplingTypeOK, IsReading, Growing, AddsUp, Got
  <1> QED  BY <1>1, SamplingInvariant, PTL

(* No packet is lost to a span of no time, but for a clock that was set    *)
(* back and a reading that took the whole interval (Ratio).                *)
THEOREM SamplingRateNeedsTime == SamplingSpec => []RateNeedsTime
  <1>1. SamplingInv => RateNeedsTime
    BY DEF SamplingInv, Stamps, RateNeedsTime
  <1> QED  BY <1>1, SamplingInvariant, PTL

(* A collector's samples lie one interval apart, but when two looks at it  *)
(* were more than a second apart (nowTime % mod.intv).                     *)
THEOREM SamplingGridKept == SamplingSpec => GridKept
  <1>1. ASSUME SamplingInv, [SamplingNext]_samplingVars, NEW m \in Mod,
               lastTime[m] # 0, lastTime'[m] # lastTime[m]
        PROVE  lastTime'[m] = lastTime[m] + intv \/ skipped'[m]
    <2>1. TakeSample
      <3> SUFFICES ASSUME ~TakeSample PROVE lastTime' = lastTime
        BY <1>1
      <3> QED  BY <1>1 DEF SamplingNext, samplingVars, loopVars, ClockTick, SetBack, Move, Down, Up,
                   Pass, OtherDone, ReadNetDev, ReadFails, Stamp, Calculate
    <2>t. /\ pos \in Mod /\ lastTime \in [Mod -> Nat] /\ now \in Nat /\ looked \in [Mod -> Nat]
          /\ Looked(pos) /\ lastTime' = [lastTime EXCEPT ![pos] = now]
          /\ now % intv = 0 /\ now - lastTime[pos] >= intv
      BY <1>1, <2>1 DEF TakeSample, Due, SamplingInv, SamplingTypeOK
    <2>2. m = pos /\ lastTime'[m] = now
      BY <1>1, <2>t
    <2> SUFFICES ASSUME ~skipped'[m] PROVE now = lastTime[m] + intv
      BY <2>2
    <2>3. now <= looked[m] + 1 /\ (looked[m] = lastTime[m] \/ ~skipped[m])
      BY <1>1, <2>t, <2>2, LookedFacts
    <2>4. looked[m] < lastTime[m] + intv
      BY <1>1, <2>3 DEF SamplingInv, Grid
    <2> QED  BY <2>t, <2>2, <2>3, <2>4, IntervalFacts
  <1>2. SamplingInv /\ [SamplingNext]_samplingVars
        => [\A m \in Mod :
              lastTime[m] # 0 /\ lastTime'[m] # lastTime[m]
              => lastTime'[m] = lastTime[m] + intv \/ skipped'[m]]_samplingVars
    BY <1>1
  <1> QED  BY <1>2, SamplingInvariant, PTL DEF SamplingSpec, GridKept
=============================================================================
