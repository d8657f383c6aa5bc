---------------------------- MODULE Server_proofs ----------------------------
(**************************************************************************)
(* Theorems about the two parts of the server, which share nothing but the *)
(* statements that pass between them.                                      *)
(*                                                                         *)
(* RecvData, for every header length, counter width, chunk length and set  *)
(* of body sizes: messages are framed right unless a header was cut or an  *)
(* entry was inherited, the server dies of a message only for a cause, and *)
(* timeout() never evicts a client.                                        *)
(*                                                                         *)
(* Store2Mysql, for every queue size and any number of statements and lost *)
(* connections: it implements LossyFifo, its rows are in order and never   *)
(* repeated, every statement is accounted for, and a lost connection costs *)
(* at most two of them.                                                    *)
(**************************************************************************)
EXTENDS RecvData, Store2Mysql, Integers, SequenceTheorems, TLAPS

(***************************************************************************)
(* RecvData                                                                *)
(***************************************************************************)
(* A number below the modulus is its own remainder. *)
LEMMA ModSmall ==
  ASSUME NEW a \in Nat, NEW b \in Nat, a < b
  PROVE  a % b = a
  OBVIOUS

(* A remainder lies below the modulus, and the modulus leaves none. *)
LEMMA ModRange ==
  ASSUME NEW a \in Nat, NEW b \in Nat, b > 0
  PROVE  a % b \in 0..(b - 1) /\ b % b = 0
  OBVIOUS

(* A number between the modulus and twice the modulus loses it once. *)
LEMMA ModOnce ==
  ASSUME NEW a \in Nat, NEW b \in Nat, a < b
  PROVE  (a + b) % b = a
  OBVIOUS

(* What the assumption says of the constants, ready for arithmetic. *)
LEMMA ConstantFacts ==
  /\ PkgLen \in Nat /\ PkgLen > 1 /\ Width \in Nat /\ PkgLen < Width
  /\ \A b \in BodySize : b \in Nat /\ b > 0 /\ b + PkgLen < Width
  /\ \A g \in Garbage : g \in 0..(Width - 1)
  /\ \A n \in 1..MaxRead : n \in Nat /\ n > 0
  <1>1. \A b \in BodySize : b \in Nat /\ b > 0 /\ b + PkgLen < Width
    BY RecvAssumption
  <1>2. PkgLen \in Nat /\ PkgLen > 1 /\ Width \in Nat
    BY RecvAssumption
  <1>3. PkgLen < Width
    <2>1. PICK b \in BodySize : TRUE
      BY RecvAssumption
    <2> QED  BY <1>1, <1>2, <2>1
  <1>4. \A g \in Garbage : g \in 0..(Width - 1)
    BY RecvAssumption
  <1> QED  BY <1>1, <1>2, <1>3, <1>4, RecvAssumption

(* availableLen is never more than the chunk has left, and the sum of the  *)
(* lengths never leaves the counter.                                       *)
LEMMA AdvanceRange ==
  ASSUME ParserTypeOK, NEW k \in Key
  PROVE  /\ Modulus(k) \in Nat
         /\ Available(k) \in Nat /\ Available(k) <= rem
         /\ Modulus(k) # 0 =>
               ((currLen[k] + Available(k)) % Width) % Modulus(k) \in 0..(Width - 1)
  <1>1. /\ size[k] \in 0..(Width - 1) /\ currLen[k] \in 0..(Width - 1) /\ rem \in Nat
        /\ PkgLen \in Nat /\ Width \in Nat /\ Width > 0
    BY ConstantFacts DEF ParserTypeOK
  <1>2. Modulus(k) \in 0..(Width - 1)
    BY <1>1, ModRange DEF Modulus
  <1>3. (size[k] + PkgLen + (Width - currLen[k])) % Width \in Nat
    BY <1>1, ModRange
  <1>4. Available(k) \in Nat /\ Available(k) <= rem
    BY <1>1, <1>3 DEF Available
  <1>5. (currLen[k] + Available(k)) % Width \in 0..(Width - 1)
    BY <1>1, <1>4, ModRange
  <1>6. ASSUME Modulus(k) # 0
        PROVE  ((currLen[k] + Available(k)) % Width) % Modulus(k) \in 0..(Modulus(k) - 1)
    BY <1>2, <1>5, <1>6, ModRange
  <1> QED  BY <1>1, <1>2, <1>4, <1>6

(* Types hold initially. *)
LEMMA TypeInit == ParserInit => ParserTypeOK
  <1> SUFFICES ASSUME ParserInit PROVE ParserTypeOK
    OBVIOUS
  <1>1. 0 \in 0..(Width - 1) /\ PkgLen \in 0..PkgLen
    BY ConstantFacts
  <1> QED  BY <1>1 DEF ParserInit, ParserTypeOK, Empty

(* Every action keeps the types. *)
LEMMA TypeStep == ParserTypeOK /\ [ParserNext]_parserVars => ParserTypeOK'
  <1> SUFFICES ASSUME ParserTypeOK, [ParserNext]_parserVars
               PROVE  ParserTypeOK'
    OBVIOUS
  <1>z. 0 \in 0..(Width - 1) /\ PkgLen \in 0..(Width - 1) /\ PkgLen \in 0..PkgLen
    BY ConstantFacts
  <1>1. CASE StartStore \/ UNCHANGED parserVars
    BY <1>1 DEF StartStore, parserVars, ciVars, truthVars, ParserTypeOK
  <1>2. ASSUME NEW k \in Key, Accept(k) PROVE ParserTypeOK'
    <2>1. /\ open' \in [Key -> BOOLEAN] /\ readable' \in [Key -> BOOLEAN]
          /\ body' \in [Key -> BodySize] /\ off' \in [Key -> Nat]
          /\ whole' \in [Key -> BOOLEAN] /\ spoiled' \in [Key -> BOOLEAN]
      BY <1>2 DEF Accept, ParserTypeOK, Clean
    <2> QED  BY <1>2, <2>1 DEF Accept, ParserTypeOK, ciVars
  <1>3. ASSUME NEW k \in Key, Close(k) PROVE ParserTypeOK'
    BY <1>3 DEF Close, ParserTypeOK, ciVars, truthVars
  <1>4. ASSUME NEW k \in Key, Timeout(k) PROVE ParserTypeOK'
    <2>1. /\ open' \in [Key -> BOOLEAN] /\ known' \subseteq Key
          /\ timeoutCount' \in [Key -> Nat] /\ currLen' \in [Key -> 0..(Width - 1)]
      BY <1>4, <1>z DEF Timeout, ParserTypeOK
    <2>2. /\ genuine' \in [Key -> 0..PkgLen] /\ size' \in [Key -> 0..(Width - 1)]
          /\ msgLen' \in [Key -> Nat]
      BY <1>4, <1>z DEF Timeout, ParserTypeOK, Empty
    <2> QED  BY <1>4, <2>1, <2>2 DEF Timeout, ParserTypeOK, truthVars
  <1>5. ASSUME NEW k \in Key, Receive(k) PROVE ParserTypeOK'
    <2>1. rem' \in Nat /\ known' \subseteq Key
      BY <1>5, ConstantFacts DEF Receive, ParserTypeOK
    <2> QED  BY <1>5, <2>1 DEF Receive, ParserTypeOK, truthVars
  <1>6. ASSUME NEW k \in Key, CutHead(k) PROVE ParserTypeOK'
    <2>1. rem \in Nat /\ currLen[k] \in Nat /\ off[k] \in Nat /\ rem + currLen[k] < PkgLen
      BY <1>6 DEF CutHead, ParserTypeOK
    <2>2. rem + currLen[k] \in 0..(Width - 1) /\ rem \in 0..PkgLen /\ off[k] + rem \in Nat
      BY <2>1, ConstantFacts
    <2>3. currLen' \in [Key -> 0..(Width - 1)] /\ genuine' \in [Key -> 0..PkgLen]
      BY <1>6, <2>1, <2>2 DEF CutHead, ParserTypeOK
    <2>4. spoiled' \in [Key -> BOOLEAN]
      BY <1>6 DEF CutHead, ParserTypeOK
    <2>5. whole' \in [Key -> BOOLEAN] /\ off' \in [Key -> Nat]
      BY <1>6, <2>2 DEF CutHead, Take, ParserTypeOK
    <2> QED  BY <1>6, <2>3, <2>4, <2>5 DEF CutHead, Take, ParserTypeOK
  <1>7. ASSUME NEW k \in Key, FullHead(k) PROVE ParserTypeOK'
    <2>1. rem \in Nat /\ currLen[k] \in Nat /\ off[k] \in Nat /\ rem + currLen[k] >= PkgLen
          /\ currLen[k] < PkgLen
      BY <1>7 DEF FullHead, ParserTypeOK
    <2>2. rem - (PkgLen - currLen[k]) \in Nat /\ off[k] + (PkgLen - currLen[k]) \in Nat
      BY <2>1, ConstantFacts
    <2>3. SizeRead(k) \subseteq 0..(Width - 1)
      BY ConstantFacts DEF SizeRead, ParserTypeOK
    <2>4. size' \in [Key -> 0..(Width - 1)]
      BY <1>7, <2>3 DEF FullHead, ParserTypeOK
    <2>5. currLen' \in [Key -> 0..(Width - 1)] /\ genuine' \in [Key -> 0..PkgLen] /\ rem' \in Nat
      BY <1>7, <1>z, <2>2 DEF FullHead, ParserTypeOK, Empty
    <2>6. whole' \in [Key -> BOOLEAN] /\ off' \in [Key -> Nat]
      BY <1>7, <2>2 DEF FullHead, Take, ParserTypeOK
    <2> QED  BY <1>7, <2>4, <2>5, <2>6 DEF FullHead, Take, ParserTypeOK
  <1>8. ASSUME NEW k \in Key, Body(k) \/ Complete(k) PROVE ParserTypeOK'
    <2>1. Modulus(k) # 0 /\ Advance(k)
      BY <1>8 DEF Body, Complete
    <2>2. rem' \in Nat /\ currLen' \in [Key -> 0..(Width - 1)]
      <3>1. rem - Available(k) \in Nat
        BY AdvanceRange DEF ParserTypeOK
      <3> QED  BY <2>1, <3>1, AdvanceRange DEF Advance, ParserTypeOK
    <2>3. off[k] + Available(k) \in Nat /\ msgLen[k] + Available(k) \in Nat
      BY AdvanceRange DEF ParserTypeOK
    <2>4. CASE Body(k)
      <3>1. whole' \in [Key -> BOOLEAN] /\ off' \in [Key -> Nat] /\ msgLen' \in [Key -> Nat]
        BY <2>3, <2>4 DEF Body, Take, ParserTypeOK
      <3>2. pc' \in {"idle", "head", "body", "dead"}
        BY <2>4 DEF Body
      <3> QED  BY <2>2, <2>4, <3>1, <3>2 DEF Body, Take, ParserTypeOK
    <2>5. CASE Complete(k)
      <3>1. whole' \in [Key -> BOOLEAN] /\ off' \in [Key -> Nat] /\ body' \in [Key -> BodySize]
        BY <2>5 DEF Complete, Finish, ParserTypeOK
      <3>2. msgLen' \in [Key -> Nat] /\ size' \in [Key -> 0..(Width - 1)]
        BY <1>z, <2>5 DEF Complete, ParserTypeOK
      <3>3. pc' \in {"idle", "head", "body", "dead"}
        BY <2>5 DEF Complete
      <3> QED  BY <2>2, <2>5, <3>1, <3>2, <3>3 DEF Complete, ParserTypeOK
    <2> QED  BY <1>8, <2>4, <2>5
  <1>9. ASSUME NEW k \in Key, DivideByZero(k) PROVE ParserTypeOK'
    BY <1>9 DEF DivideByZero, ParserTypeOK, ciVars, truthVars
  <1> QED  BY <1>1, <1>2, <1>3, <1>4, <1>5, <1>6, <1>7, <1>8, <1>9 DEF ParserNext, Loop

-----------------------------------------------------------------------------
(* recvData knows where it is in the packet that connection k is sending:  *)
(* between two packets, one byte before the end of a header, or in a body  *)
(* of known size of which the message has everything received so far.      *)
Aligned(k) ==
    /\ whole[k]
    /\ currLen[k] = off[k] /\ off[k] < PkgLen + body[k]
    /\ \/ off[k] = 0 /\ genuine[k] = Empty /\ msgLen[k] = 0
       \/ off[k] = PkgLen - 1 /\ genuine[k] = PkgLen - 1 /\ msgLen[k] = 0
       \/ /\ off[k] >= PkgLen /\ genuine[k] = Empty
          /\ size[k] = body[k] /\ msgLen[k] = off[k] - PkgLen

(* The strengthening of Framed, CrashNeedsCause and EntriesStay. *)
ParseInv ==
    /\ ParserTypeOK
    /\ \A k \in Key : spoiled[k] \/ Aligned(k)
    /\ \A k \in Key : timeoutCount[k] = 0
    /\ pc = "body" => currLen[key] = PkgLen
    /\ CrashNeedsCause

(* Holds initially. *)
LEMMA ParseInit == ParserInit => ParseInv
  <1> SUFFICES ASSUME ParserInit PROVE ParseInv
    OBVIOUS
  <1>1. ASSUME NEW k \in Key PROVE Aligned(k)
    <2>1. body[k] \in BodySize /\ off[k] = 0 /\ currLen[k] = 0 /\ whole[k]
      BY DEF ParserInit
    <2>2. 0 < PkgLen + body[k]
      BY <2>1, ConstantFacts
    <2> QED  BY <2>1, <2>2 DEF ParserInit, Aligned
  <1> QED  BY <1>1, TypeInit DEF ParserInit, ParseInv, CrashNeedsCause

(* Inside a body that is aligned, availableLen is the rest of the message  *)
(* or what the chunk has left of it, and the position advances by it.      *)
LEMMA AlignedAdvance ==
  ASSUME ParserTypeOK, NEW k \in Key, Aligned(k), currLen[k] >= PkgLen
  PROVE  /\ Modulus(k) = PkgLen + body[k] /\ Modulus(k) # 0
         /\ size[k] = body[k] /\ genuine[k] = Empty /\ msgLen[k] = off[k] - PkgLen
         /\ off[k] + Available(k) <= PkgLen + body[k]
         /\ (currLen[k] + Available(k)) % Width = off[k] + Available(k)
         /\ off[k] + Available(k) < PkgLen + body[k] =>
               ((currLen[k] + Available(k)) % Width) % Modulus(k) = off[k] + Available(k)
         /\ off[k] + Available(k) = PkgLen + body[k] =>
               ((currLen[k] + Available(k)) % Width) % Modulus(k) = 0
  <1>1. /\ body[k] \in Nat /\ body[k] > 0 /\ body[k] + PkgLen < Width
        /\ PkgLen \in Nat /\ PkgLen > 1 /\ Width \in Nat /\ rem \in Nat
    BY ConstantFacts DEF ParserTypeOK
  <1>2. /\ currLen[k] = off[k] /\ off[k] \in Nat /\ off[k] < PkgLen + body[k]
        /\ size[k] = body[k] /\ genuine[k] = Empty /\ msgLen[k] = off[k] - PkgLen
    BY <1>1 DEF Aligned, ParserTypeOK
  <1>3. Modulus(k) = PkgLen + body[k]
    BY <1>1, <1>2, ModSmall DEF Modulus
  <1>4. (size[k] + PkgLen + (Width - currLen[k])) % Width = PkgLen + body[k] - off[k]
    <2>1. PkgLen + body[k] - off[k] \in Nat /\ PkgLen + body[k] - off[k] < Width
      BY <1>1, <1>2
    <2>2. size[k] + PkgLen + (Width - currLen[k]) = (PkgLen + body[k] - off[k]) + Width
      BY <1>1, <1>2
    <2> QED  BY <1>1, <2>1, <2>2, ModOnce
  <1>5. Available(k) \in Nat /\ off[k] + Available(k) <= PkgLen + body[k]
    BY <1>1, <1>2, <1>4 DEF Available
  <1> DEFINE a == off[k] + Available(k)
  <1>6. a \in Nat /\ a < Width /\ a <= PkgLen + body[k] /\ currLen[k] + Available(k) = a
    BY <1>1, <1>2, <1>5
  <1> HIDE DEF a
  <1>7. a % Width = a
    BY <1>1, <1>6, ModSmall
  <1>8. a < PkgLen + body[k] => a % (PkgLen + body[k]) = a
    BY <1>1, <1>6, ModSmall
  <1>9. (PkgLen + body[k]) % (PkgLen + body[k]) = 0
    BY <1>1, ModRange
  <1>10. Modulus(k) # 0
    BY <1>1, <1>3
  <1>11. /\ a <= PkgLen + body[k]
         /\ (currLen[k] + Available(k)) % Width = a
         /\ a < PkgLen + body[k] =>
               ((currLen[k] + Available(k)) % Width) % Modulus(k) = a
         /\ a = PkgLen + body[k] =>
               ((currLen[k] + Available(k)) % Width) % Modulus(k) = 0
    BY <1>3, <1>6, <1>7, <1>8, <1>9
  <1> QED  BY <1>2, <1>3, <1>10, <1>11 DEF a

(* An action on connection k leaves every other connection's entry alone.  *)
LEMMA OtherKeys ==
  ASSUME ParserTypeOK, NEW k \in Key, NEW j \in Key, j # k,
         Accept(k) \/ Timeout(k) \/ CutHead(k) \/ FullHead(k) \/ Body(k) \/ Complete(k)
  PROVE  /\ spoiled'[j] = spoiled[j] /\ readable'[j] = readable[j]
         /\ timeoutCount'[j] = timeoutCount[j] /\ Aligned(j)' = Aligned(j)
  <1>1. CASE Accept(k)
    BY <1>1 DEF Accept, ciVars, Aligned, ParserTypeOK
  <1>2. CASE Timeout(k)
    BY <1>2 DEF Timeout, truthVars, Aligned, ParserTypeOK
  <1>3. CASE CutHead(k)
    BY <1>3 DEF CutHead, Take, Aligned, ParserTypeOK
  <1>4. CASE FullHead(k)
    BY <1>4 DEF FullHead, Take, Aligned, ParserTypeOK
  <1>5. CASE Body(k)
    BY <1>5 DEF Body, Advance, Take, Aligned, ParserTypeOK
  <1>6. CASE Complete(k)
    BY <1>6 DEF Complete, Advance, Finish, Aligned, ParserTypeOK
  <1> QED  BY <1>1, <1>2, <1>3, <1>4, <1>5, <1>6

(* One iteration keeps an unspoiled connection aligned.                    *)
LEMMA LoopAligned ==
  ASSUME ParseInv, NEW k \in Key, CutHead(k) \/ FullHead(k) \/ Body(k) \/ Complete(k),
         ~spoiled'[k]
  PROVE  Aligned(k)'
  <1>a. /\ ParserTypeOK /\ PkgLen \in Nat /\ PkgLen > 1 /\ rem \in Nat
        /\ off[k] \in Nat /\ currLen[k] \in Nat /\ msgLen[k] \in Nat
        /\ body[k] \in Nat /\ body[k] > 0
    BY ConstantFacts DEF ParseInv, ParserTypeOK
  <1>b. ~spoiled[k] /\ Aligned(k)
    BY DEF CutHead, FullHead, Body, Complete, ParseInv, ParserTypeOK
  <1>1. CASE CutHead(k)
    <2>1. genuine'[k] = PkgLen - 1
      BY <1>1 DEF CutHead, ParserTypeOK, ParseInv
    <2>2. currLen[k] = off[k] /\ whole[k] /\ rem + off[k] < PkgLen
      BY <1>1, <1>b DEF CutHead, Aligned
    <2>3. /\ whole'[k] /\ off'[k] = off[k] + rem /\ body'[k] = body[k]
          /\ currLen'[k] = off[k] + rem /\ msgLen'[k] = msgLen[k]
      BY <1>1, <1>a, <2>2 DEF CutHead, Take, ParserTypeOK
    <2>4. off[k] + rem = PkgLen - 1 /\ msgLen[k] = 0
      <3>1. CASE genuine[k] = Empty
        BY <1>1, <1>a, <1>b, <2>1, <2>2, <3>1 DEF CutHead, Aligned, ParserTypeOK, Empty
      <3>2. CASE genuine[k] # Empty
        BY <1>a, <1>b, <2>2, <3>2 DEF Aligned
      <3> QED  BY <3>1, <3>2
    <2> QED  BY <1>a, <2>1, <2>3, <2>4 DEF Aligned
  <1>2. CASE FullHead(k)
    <2>1. /\ currLen[k] = off[k] /\ whole[k] /\ off[k] < PkgLen /\ msgLen[k] = 0
          /\ \/ off[k] = 0 /\ genuine[k] = Empty
             \/ off[k] = PkgLen - 1 /\ genuine[k] = PkgLen - 1
      BY <1>2, <1>a, <1>b DEF FullHead, Aligned
    <2>2. SizeRead(k) = {body[k]}
      BY <2>1 DEF SizeRead
    <2>3. size'[k] = body[k]
      BY <1>2, <2>2 DEF FullHead, ParserTypeOK, ParseInv
    <2>4. off[k] + (PkgLen - currLen[k]) = PkgLen /\ PkgLen < PkgLen + body[k]
      BY <1>a, <2>1
    <2>5. whole'[k] /\ off'[k] = PkgLen /\ body'[k] = body[k]
      BY <1>2, <1>a, <2>1, <2>4 DEF FullHead, Take, ParserTypeOK
    <2>6. currLen'[k] = PkgLen /\ genuine'[k] = Empty /\ msgLen'[k] = 0
      BY <1>2, <1>a, <2>1 DEF FullHead, ParserTypeOK
    <2> QED  BY <1>a, <2>3, <2>4, <2>5, <2>6 DEF Aligned
  <1>3. CASE Body(k) \/ Complete(k)
    <2>1. currLen[k] >= PkgLen
      BY <1>3, <1>a DEF Body, Complete, InBody, ParseInv
    <2>2. /\ size[k] = body[k] /\ genuine[k] = Empty /\ msgLen[k] = off[k] - PkgLen
          /\ off[k] + Available(k) <= PkgLen + body[k] /\ currLen[k] = off[k] /\ whole[k]
          /\ off[k] >= PkgLen /\ Available(k) \in Nat
      BY <1>a, <1>b, <2>1, AlignedAdvance, AdvanceRange DEF Aligned
    <2>3. currLen'[k] = ((currLen[k] + Available(k)) % Width) % Modulus(k)
      BY <1>3, <1>a DEF Body, Complete, Advance, ParserTypeOK
    <2>4. CASE Body(k)
      <3>1. off[k] + Available(k) < PkgLen + body[k]
        <4>1. msgLen[k] + Available(k) # size[k]
          BY <2>4 DEF Body
        <4> QED  BY <1>a, <2>2, <4>1
      <3>2. currLen'[k] = off[k] + Available(k)
        BY <1>a, <1>b, <2>1, <2>3, <3>1, AlignedAdvance
      <3>3. whole'[k] /\ off'[k] = off[k] + Available(k) /\ body'[k] = body[k]
        BY <1>a, <2>2, <2>4, <3>1 DEF Body, Take, ParserTypeOK
      <3>4. /\ msgLen'[k] = msgLen[k] + Available(k) /\ size'[k] = size[k]
            /\ genuine'[k] = genuine[k]
        BY <1>a, <2>4 DEF Body, ParserTypeOK
      <3>5. off'[k] >= PkgLen /\ msgLen'[k] = off'[k] - PkgLen
        BY <1>a, <2>2, <3>3, <3>4
      <3> QED  BY <2>2, <3>1, <3>2, <3>3, <3>4, <3>5 DEF Aligned
    <2>5. CASE Complete(k)
      <3>1. off[k] + Available(k) = PkgLen + body[k]
        <4>1. msgLen[k] + Available(k) = size[k]
          BY <2>5 DEF Complete
        <4> QED  BY <1>a, <2>2, <4>1
      <3>2. currLen'[k] = 0
        BY <1>a, <1>b, <2>1, <2>3, <3>1, AlignedAdvance
      <3>3. whole'[k] /\ off'[k] = 0 /\ body'[k] \in BodySize
        BY <1>a, <2>2, <2>5, <3>1 DEF Complete, Finish, ParserTypeOK
      <3>4. msgLen'[k] = 0 /\ genuine'[k] = Empty
        BY <1>a, <2>2, <2>5 DEF Complete, ParserTypeOK
      <3>5. 0 < PkgLen + body'[k]
        BY <1>a, <3>3, ConstantFacts
      <3> QED  BY <3>2, <3>3, <3>4, <3>5 DEF Aligned
    <2> QED  BY <1>3, <2>4, <2>5
  <1> QED  BY <1>1, <1>2, <1>3

(* An entry that is clean and a packet of which nothing was sent agree.    *)
LEMMA CleanAligned ==
  ASSUME ParserTypeOK, NEW k \in Key, Accept(k), ~spoiled'[k]
  PROVE  Aligned(k)'
  <1>1. Clean(k)
    BY DEF Accept, ParserTypeOK
  <1>2. off'[k] = 0 /\ whole'[k] /\ body'[k] \in BodySize
    BY DEF Accept, ParserTypeOK
  <1>3. 0 < PkgLen + body'[k]
    BY <1>2, ConstantFacts
  <1> QED  BY <1>1, <1>2, <1>3 DEF Accept, ciVars, Clean, Aligned

(* When a message ends the server, its connection is spoiled or its agent  *)
(* is not understood.                                                      *)
LEMMA DeathHasCause ==
  ASSUME ParseInv, NEW k \in Key, Complete(k) \/ DivideByZero(k), pc' = "dead"
  PROVE  spoiled'[k] \/ ~readable'[k]
  <1>1. CASE Complete(k)
    <2>1. ~(whole'[k] /\ readable[k]) /\ readable' = readable
      BY <1>1 DEF Complete
    <2>2. ~spoiled'[k] => whole'[k]
      BY <1>1, LoopAligned DEF Aligned
    <2> QED  BY <2>1, <2>2
  <1>2. CASE DivideByZero(k)
    <2>1. currLen[k] >= PkgLen /\ Modulus(k) = 0 /\ ParserTypeOK /\ spoiled' = spoiled
      BY <1>2, ConstantFacts DEF DivideByZero, InBody, ParseInv, ParserTypeOK
    <2>2. ~Aligned(k)
      BY <2>1, AlignedAdvance
    <2> QED  BY <2>1, <2>2 DEF ParseInv
  <1> QED  BY <1>1, <1>2

(* Every action keeps the invariant. *)
LEMMA ParseStep == ParseInv /\ [ParserNext]_parserVars => ParseInv'
  <1> SUFFICES ASSUME ParseInv, [ParserNext]_parserVars
               PROVE  ParseInv'
    OBVIOUS
  <1>a. ParserTypeOK /\ ParserTypeOK'
    BY TypeStep DEF ParseInv
  <1>1. CASE StartStore \/ UNCHANGED parserVars
    <2>1. UNCHANGED <<ciVars, truthVars, spoiled, pc, key, readable>>
      BY <1>1 DEF StartStore, parserVars
    <2> QED  BY <1>a, <2>1 DEF ParseInv, Aligned, ciVars, truthVars, CrashNeedsCause
  <1>2. ASSUME NEW k \in Key, Accept(k) PROVE ParseInv'
    <2>1. \A j \in Key : spoiled'[j] \/ Aligned(j)'
      BY <1>2, <1>a, OtherKeys, CleanAligned DEF ParseInv
    <2>2. pc' = "idle" /\ timeoutCount' = timeoutCount
      BY <1>2 DEF Accept, ciVars
    <2> QED  BY <1>a, <2>1, <2>2 DEF ParseInv, CrashNeedsCause
  <1>3. ASSUME NEW k \in Key, Close(k) PROVE ParseInv'
    <2>1. UNCHANGED <<ciVars, truthVars, spoiled, pc, key, readable>>
      BY <1>3 DEF Close
    <2> QED  BY <1>a, <2>1 DEF ParseInv, Aligned, ciVars, truthVars, CrashNeedsCause
  <1>4. ASSUME NEW k \in Key, Timeout(k) PROVE ParseInv'
    <2>1. timeoutCount[k] = 0
      BY DEF ParseInv
    <2>2. /\ currLen' = currLen /\ genuine' = genuine /\ size' = size /\ msgLen' = msgLen
          /\ UNCHANGED <<truthVars, spoiled, pc, key, readable>>
      BY <1>4, <1>a, <2>1 DEF Timeout, ParserTypeOK
    <2>3. \A j \in Key : timeoutCount'[j] = 0
      BY <1>4, <1>a DEF Timeout, ParserTypeOK, ParseInv
    <2> QED  BY <1>a, <2>2, <2>3 DEF ParseInv, Aligned, truthVars, CrashNeedsCause
  <1>5. ASSUME NEW k \in Key, Receive(k) PROVE ParseInv'
    <2>1. /\ pc' = "head"
          /\ UNCHANGED <<currLen, genuine, size, msgLen, timeoutCount, truthVars, spoiled>>
      BY <1>5 DEF Receive
    <2> QED  BY <1>a, <2>1 DEF ParseInv, Aligned, truthVars, CrashNeedsCause
  <1>6. ASSUME NEW k \in Key, CutHead(k) \/ FullHead(k) \/ Body(k) \/ Complete(k)
        PROVE  ParseInv'
    <2>1. \A j \in Key : spoiled'[j] \/ Aligned(j)'
      BY <1>6, <1>a, OtherKeys, LoopAligned DEF ParseInv
    <2>2. timeoutCount' = timeoutCount
      BY <1>6 DEF CutHead, FullHead, Body, Complete
    <2>3. pc' = "body" => currLen'[key'] = PkgLen
      BY <1>6, <1>a DEF CutHead, FullHead, Body, Complete, ParserTypeOK
    <2>4. pc' = "dead" => Complete(k)
      BY <1>6 DEF CutHead, FullHead, Body
    <2>5. CrashNeedsCause'
      BY <1>6, <2>4, DeathHasCause DEF CrashNeedsCause
    <2> QED  BY <1>a, <2>1, <2>2, <2>3, <2>5 DEF ParseInv
  <1>7. ASSUME NEW k \in Key, DivideByZero(k) PROVE ParseInv'
    <2>1. UNCHANGED <<ciVars, truthVars, spoiled, key, readable>> /\ pc' = "dead"
      BY <1>7 DEF DivideByZero
    <2>2. CrashNeedsCause'
      BY <1>7, <2>1, DeathHasCause DEF CrashNeedsCause
    <2> QED  BY <1>a, <2>1, <2>2 DEF ParseInv, Aligned, ciVars, truthVars
  <1> QED  BY <1>1, <1>2, <1>3, <1>4, <1>5, <1>6, <1>7 DEF ParserNext, Loop

(* The invariant of the parser. *)
THEOREM ParseInvariant == ParserSpec => []ParseInv
  BY ParseInit, ParseStep, PTL DEF ParserSpec

(* recvData keeps its counters in UINT32 and never takes more bytes than   *)
(* the chunk has.                                                          *)
THEOREM RecvTypeOK == ParserSpec => []ParserTypeOK
  <1>1. ParseInv => ParserTypeOK
    BY DEF ParseInv
  <1> QED  BY <1>1, ParseInvariant, PTL

(* Every message recvData makes of an unspoiled connection is the body of  *)
(* one packet, however the bytes were cut.                                 *)
THEOREM RecvFramed == ParserSpec => []Framed
  <1>1. ParseInv => Framed
    BY DEF ParseInv, Framed, Aligned
  <1> QED  BY <1>1, ParseInvariant, PTL

(* A message ends the server only for a cause. *)
THEOREM RecvCrashNeedsCause == ParserSpec => []CrashNeedsCause
  <1>1. ParseInv => CrashNeedsCause
    BY DEF ParseInv
  <1> QED  BY <1>1, ParseInvariant, PTL

(* timeout() never evicts: the count it tests is always 0.                 *)
THEOREM RecvEntriesStay == ParserSpec => EntriesStay
  <1>1. ParseInv /\ [ParserNext]_parserVars => [known \subseteq known']_parserVars
    <2> SUFFICES ASSUME ParseInv, ParserNext
                 PROVE  known \subseteq known'
      OBVIOUS
    <2>1. ASSUME NEW k \in Key, Timeout(k) PROVE known \subseteq known'
      <3>1. ~(timeoutCount[k] >= 2)
        BY DEF ParseInv
      <3> QED  BY <2>1, <3>1 DEF Timeout
    <2>2. CASE StartStore
      BY <2>2 DEF StartStore, ciVars
    <2>3. ASSUME NEW k \in Key, Accept(k) \/ Close(k) \/ Receive(k) \/ DivideByZero(k)
          PROVE  known \subseteq known'
      BY <2>3 DEF Accept, Close, Receive, DivideByZero, ciVars
    <2>4. ASSUME NEW k \in Key, CutHead(k) \/ FullHead(k) \/ Body(k) \/ Complete(k)
          PROVE  known \subseteq known'
      BY <2>4 DEF CutHead, FullHead, Body, Complete
    <2> QED  BY <2>1, <2>2, <2>3, <2>4 DEF ParserNext, Loop
  <1> QED  BY <1>1, ParseInvariant, PTL DEF ParserSpec, EntriesStay

(***************************************************************************)
(* Store2Mysql                                                             *)
(***************************************************************************)
FifoP == INSTANCE LossyFifo_proofs WITH
            Cap <- maxSize + 2,
            backlog <- Held \o dataQueue,
            delivered <- stored,
            open <- alive

(* addData's bound: never more than maxSize_ + 1 statements wait. *)
QueueBounded == Len(dataQueue) <= maxSize + 1

(* A process that ended holds nothing its successor could inherit, and it  *)
(* ended over a null connection.                                           *)
DeadIsEmpty == ~alive => dataQueue = <<>> /\ sd = None

StoreInv == TypeOK /\ QueueBounded /\ DeadIsEmpty

(* How many more statements the connection that just ended may cost. *)
Owed == CASE conn = "broken" -> 2 [] conn = "closed" -> 1 [] OTHER -> 0

(* LossPerBreak made inductive: a break is paid for when it happens. *)
LossInv == lost + Owed <= 2 * breaks

(* The invariant the refinement rests on holds initially. *)
LEMMA StoreInit == Init => StoreInv
  BY StoreAssumption DEF Init, StoreInv, TypeOK, QueueBounded, DeadIsEmpty, None

(* Every action of Store2Mysql keeps it. *)
LEMMA StoreStep == StoreInv /\ [Next]_vars => StoreInv'
  <1> SUFFICES ASSUME StoreInv, [Next]_vars
               PROVE  StoreInv'
    OBVIOUS
  <1> USE StoreAssumption
  <1>a. /\ TypeOK /\ QueueBounded /\ DeadIsEmpty
        /\ offered \in Nat /\ Len(dataQueue) \in Nat
        /\ 1..offered \subseteq 1..(offered + 1)
    BY LenProperties DEF StoreInv, TypeOK
  <1>b. dataQueue # <<>> =>
           /\ Head(dataQueue) \in 1..offered
           /\ Tail(dataQueue) \in Seq(1..offered)
           /\ Len(Tail(dataQueue)) = Len(dataQueue) - 1
    BY <1>a, HeadTailProperties DEF TypeOK
  <1>c. sd # None => Append(stored, sd) \in Seq(1..offered)
    <2> SUFFICES ASSUME sd # None PROVE Append(stored, sd) \in Seq(1..offered)
      OBVIOUS
    <2>1. sd \in 1..offered
      BY <1>a DEF TypeOK, None
    <2> QED  BY <1>a, <2>1, AppendProperties DEF TypeOK
  <1>1. CASE AddData
    <2>1. stored \in Seq(1..(offered + 1)) /\ dataQueue \in Seq(1..(offered + 1))
      BY <1>a, SeqMonotonic DEF TypeOK
    <2>2. /\ Append(dataQueue, offered + 1) \in Seq(1..(offered + 1))
          /\ Len(Append(dataQueue, offered + 1)) = Len(dataQueue) + 1
      BY <1>a, <2>1, AppendProperties
    <2>3. /\ dataQueue' \in Seq(1..(offered + 1)) /\ Len(dataQueue') <= maxSize + 1
          /\ refused' \in Nat
      <3>1. CASE Len(dataQueue) > maxSize
        <4>1. dataQueue' = dataQueue /\ refused' = refused + 1
          BY <1>1, <3>1 DEF AddData
        <4> QED  BY <1>a, <2>1, <4>1 DEF TypeOK, QueueBounded
      <3>2. CASE ~(Len(dataQueue) > maxSize)
        <4>1. dataQueue' = Append(dataQueue, offered + 1) /\ refused' = refused
          BY <1>1, <3>2 DEF AddData
        <4> QED  BY <1>a, <2>2, <3>2, <4>1 DEF TypeOK
      <3> QED  BY <3>1, <3>2
    <2>4. TypeOK'
      BY <1>1, <1>a, <2>1, <2>3 DEF AddData, TypeOK, dbVars
    <2>5. QueueBounded' /\ DeadIsEmpty'
      BY <1>1, <2>3 DEF AddData, QueueBounded, DeadIsEmpty
    <2> QED  BY <2>4, <2>5 DEF StoreInv
  <1>2. CASE Pop
    <2>1. TypeOK'
      BY <1>2, <1>a, <1>b DEF Pop, TypeOK, dbVars, histVars
    <2>2. QueueBounded' /\ DeadIsEmpty'
      BY <1>2, <1>a, <1>b DEF Pop, QueueBounded, DeadIsEmpty
    <2> QED  BY <2>1, <2>2 DEF StoreInv
  <1>3. CASE ExecOk \/ ExecRejected \/ LostDuringQuery \/ GoneAway
    <2>1. TypeOK'
      <3>1. CASE ExecOk
        <4>1. stored' \in Seq(1..offered)
          BY <3>1, <1>c DEF ExecOk
        <4> QED  BY <3>1, <4>1, <1>a DEF ExecOk, TypeOK, None, dbVars, histVars
      <3>2. CASE ExecRejected
        BY <3>2, <1>a DEF ExecRejected, TypeOK, None, dbVars
      <3>3. CASE LostDuringQuery
        <4>1. CASE stored' = Append(stored, sd) /\ lost' = lost
          <5>1. stored' \in Seq(1..offered) /\ sd # None /\ offered' = offered
            BY <3>3, <4>1, <1>c DEF LostDuringQuery
          <5> QED  BY <3>3, <4>1, <5>1, <1>a DEF LostDuringQuery, TypeOK, None
        <4>2. CASE stored' = stored /\ lost' = lost + 1
          BY <3>3, <4>2, <1>a DEF LostDuringQuery, TypeOK, None
        <4> QED  BY <3>3, <4>1, <4>2 DEF LostDuringQuery
      <3>4. CASE GoneAway
        BY <3>4, <1>a DEF GoneAway, TypeOK, None
      <3> QED  BY <1>3, <3>1, <3>2, <3>3, <3>4
    <2>2. dataQueue' = dataQueue /\ alive' = alive /\ alive
      BY <1>3 DEF ExecOk, ExecRejected, LostDuringQuery, GoneAway
    <2> QED  BY <1>a, <2>1, <2>2 DEF StoreInv, QueueBounded, DeadIsEmpty
  <1>4. CASE ExecOnNull
    <2>1. dataQueue' \in Seq(1..offered) /\ Len(dataQueue') = 0
      BY <1>4, EmptySeq DEF ExecOnNull
    <2>2. buried' \in Nat
      BY <1>4, <1>a DEF ExecOnNull, TypeOK
    <2>3. TypeOK'
      <3>1. sd' \in 0..offered
        BY <1>4, <1>a DEF ExecOnNull, None
      <3>3. alive' \in BOOLEAN
        BY <1>4 DEF ExecOnNull
      <3>2. UNCHANGED <<offered, stored, conn, dbUp, breaks, lost, refused>>
        BY <1>4 DEF ExecOnNull, dbVars
      <3> QED  BY <1>a, <2>1, <2>2, <3>1, <3>2, <3>3 DEF TypeOK
    <2>4. dataQueue' = <<>> /\ sd' = None
      BY <1>4 DEF ExecOnNull
    <2> QED  BY <2>1, <2>3, <2>4 DEF StoreInv, QueueBounded, DeadIsEmpty
  <1>5. CASE Restart \/ Break \/ DbStop \/ DbStart \/ UNCHANGED vars
    <2>1. UNCHANGED queueVars
      BY <1>5 DEF Restart, Break, DbStop, DbStart, vars
    <2>2. alive' = alive \/ alive'
      BY <1>5 DEF Restart, Break, DbStop, DbStart, vars
    <2>3. TypeOK'
      <3>1. CASE Restart
        BY <3>1, <1>a DEF Restart, TypeOK, queueVars, histVars
      <3>2. CASE Break
        BY <3>2, <1>a DEF Break, TypeOK, queueVars
      <3>3. CASE DbStop
        BY <3>3, <1>a DEF DbStop, TypeOK, queueVars, histVars
      <3>4. CASE DbStart
        BY <3>4, <1>a DEF DbStart, TypeOK, queueVars, histVars
      <3>5. CASE UNCHANGED vars
        BY <3>5, <1>a DEF vars, TypeOK, queueVars, histVars, dbVars
      <3> QED  BY <1>5, <3>1, <3>2, <3>3, <3>4, <3>5
    <2> QED  BY <1>a, <2>1, <2>2, <2>3 DEF StoreInv, QueueBounded, DeadIsEmpty, queueVars
  <1> QED  BY <1>1, <1>2, <1>3, <1>4, <1>5 DEF Next, Exec

(* Types and the queue bound hold in every reachable state. *)
THEOREM StoreInvariant == Spec => []StoreInv
  BY StoreInit, StoreStep, PTL DEF Spec

(* Queueing, executing and reconnecting keep the types of Store2Mysql.     *)
THEOREM StoreTypeOK == Spec => []TypeOK
  <1>1. StoreInv => TypeOK
    BY DEF StoreInv
  <1> QED  BY <1>1, StoreInvariant, PTL

-----------------------------------------------------------------------------
(* Every action moves as many statements as it removes. *)
LEMMA AccountedStep == StoreInv /\ Accounted /\ [Next]_vars => Accounted'
  <1> SUFFICES ASSUME StoreInv, Accounted, [Next]_vars
               PROVE  Accounted'
    OBVIOUS
  <1>s. sd \in 0..offered /\ dataQueue \in Seq(1..offered) /\ stored \in Seq(1..offered)
    BY DEF StoreInv, TypeOK
  <1>a. /\ Len(stored) \in Nat /\ Len(dataQueue) \in Nat
        /\ offered \in Nat /\ lost \in Nat /\ buried \in Nat /\ refused \in Nat
    BY <1>s, LenProperties DEF StoreInv, TypeOK
  <1>c. sd # None => Len(Append(stored, sd)) = Len(stored) + 1
    BY <1>s, AppendProperties DEF None
  <1>1. CASE AddData
    <2>1. /\ dataQueue \in Seq(Nat) /\ offered + 1 \in Nat
      BY <1>a, <1>s, SeqMonotonic, 1..offered \subseteq Nat
    <2>2. Len(Append(dataQueue, offered + 1)) = Len(dataQueue) + 1
      BY <2>1, AppendProperties
    <2>3. Len(dataQueue') + refused' = Len(dataQueue) + refused + 1
      <3>1. CASE Len(dataQueue) > maxSize
        BY <1>1, <1>a, <3>1 DEF AddData
      <3>2. CASE ~(Len(dataQueue) > maxSize)
        BY <1>1, <1>a, <2>2, <3>2 DEF AddData
      <3> QED  BY <3>1, <3>2
    <2>4. /\ offered' = offered + 1 /\ stored' = stored /\ sd' = sd
          /\ lost' = lost /\ buried' = buried
      BY <1>1 DEF AddData
    <2>5. Len(dataQueue') \in Nat /\ refused' \in Nat
      BY <1>1, <1>a, <2>2 DEF AddData
    <2>6. PICK s \in Nat, q \in Nat, qq \in Nat, r \in Nat, rr \in Nat, rest \in Nat :
             /\ s = Len(stored) /\ q = Len(dataQueue) /\ qq = Len(dataQueue')
             /\ r = refused /\ rr = refused' /\ rest = lost + buried
      BY <1>a, <2>5
    <2>7. qq + rr = q + r + 1
      BY <2>3, <2>6
    <2>8. CASE sd = None
      <3>1. offered = s + q + r + rest
        BY <1>a, <2>6, <2>8 DEF Accounted
      <3>2. offered + 1 = s + qq + rr + rest
        BY <2>7, <3>1
      <3> QED  BY <1>a, <2>4, <2>6, <2>8, <3>2, SMTT(20) DEF Accounted
    <2>9. CASE sd # None
      <3>1. offered = s + 1 + q + r + rest
        BY <1>a, <2>6, <2>9 DEF Accounted
      <3>2. offered + 1 = s + 1 + qq + rr + rest
        BY <2>7, <3>1
      <3> QED  BY <1>a, <2>4, <2>6, <2>9, <3>2, SMTT(20) DEF Accounted
    <2> QED  BY <2>8, <2>9
  <1>2. CASE Pop
    <2>1. /\ Len(Tail(dataQueue)) = Len(dataQueue) - 1
          /\ Head(dataQueue) \in 1..offered
      BY <1>2, <1>s, HeadTailProperties DEF Pop
    <2>2. sd' # None /\ sd = None
      BY <1>2, <1>a, <2>1 DEF Pop, None
    <2>4. /\ Len(dataQueue') = Len(dataQueue) - 1 /\ offered' = offered /\ stored' = stored
          /\ lost' = lost /\ buried' = buried /\ refused' = refused
      BY <1>2, <2>1 DEF Pop, histVars
    <2> QED  BY <1>a, <2>2, <2>4 DEF Accounted
  <1>3. CASE ExecOk \/ ExecRejected \/ LostDuringQuery \/ GoneAway
    <2>1. /\ sd # None /\ sd' = None /\ dataQueue' = dataQueue
          /\ offered' = offered /\ buried' = buried
      BY <1>3 DEF ExecOk, ExecRejected, LostDuringQuery, GoneAway, histVars
    <2>2. \/ Len(stored') = Len(stored) + 1 /\ lost' = lost /\ refused' = refused
          \/ stored' = stored /\ lost' = lost + 1 /\ refused' = refused
          \/ stored' = stored /\ lost' = lost /\ refused' = refused + 1
      BY <1>3, <1>c, <2>1 DEF ExecOk, ExecRejected, LostDuringQuery, GoneAway, histVars
    <2> QED  BY <1>a, <2>1, <2>2 DEF Accounted
  <1>4. CASE ExecOnNull
    <2>1. sd # None /\ sd' = None /\ Len(dataQueue') = 0
      BY <1>4 DEF ExecOnNull
    <2>2. /\ buried' = buried + Len(dataQueue) + 1
          /\ offered' = offered /\ stored' = stored /\ lost' = lost /\ refused' = refused
      BY <1>4 DEF ExecOnNull
    <2> QED  BY <1>a, <2>1, <2>2 DEF Accounted
  <1>5. CASE Restart \/ Break \/ DbStop \/ DbStart \/ UNCHANGED vars
    <2>1. UNCHANGED <<offered, dataQueue, sd, stored, lost, buried, refused>>
      BY <1>5 DEF Restart, Break, DbStop, DbStart, vars, queueVars, histVars
    <2> QED  BY <2>1 DEF Accounted
  <1> QED  BY <1>1, <1>2, <1>3, <1>4, <1>5 DEF Next, Exec

(* No statement disappears without a reason. *)
THEOREM StoreAccounted == Spec => []Accounted
  <1>1. Init => Accounted
    BY DEF Init, Accounted
  <1> QED  BY <1>1, StoreInvariant, AccountedStep, PTL DEF Spec

(* A connection that ends costs at most two statements. *)
THEOREM StoreLossPerBreak == Spec => []LossPerBreak
  <1>1. Init => LossInv
    BY DEF Init, LossInv, Owed
  <1>2. StoreInv /\ LossInv /\ [Next]_vars => LossInv'
    <2> SUFFICES ASSUME StoreInv, LossInv, [Next]_vars
                 PROVE  LossInv'
      OBVIOUS
    <2>a. lost \in Nat /\ breaks \in Nat
      BY DEF StoreInv, TypeOK
    <2>1. CASE AddData \/ Pop \/ ExecOk \/ ExecRejected \/ ExecOnNull \/ DbStop \/ DbStart
               \/ UNCHANGED vars
      <3>1. UNCHANGED <<lost, breaks, conn>>
        BY <2>1 DEF AddData, Pop, ExecOk, ExecRejected, ExecOnNull, DbStop, DbStart, vars,
           dbVars, histVars
      <3> QED  BY <3>1 DEF LossInv, Owed
    <2>2. CASE LostDuringQuery
      BY <2>a, <2>2 DEF LostDuringQuery, LossInv, Owed
    <2>3. CASE GoneAway
      BY <2>a, <2>3 DEF GoneAway, LossInv, Owed
    <2>4. CASE Restart
      BY <2>a, <2>4 DEF Restart, LossInv, Owed, histVars
    <2>5. CASE Break
      BY <2>a, <2>5 DEF Break, LossInv, Owed
    <2> QED  BY <2>1, <2>2, <2>3, <2>4, <2>5 DEF Next, Exec
  <1>3. StoreInv /\ LossInv => LossPerBreak
    BY DEF StoreInv, TypeOK, LossInv, LossPerBreak, Owed
  <1> QED  BY <1>1, <1>2, <1>3, StoreInvariant, PTL DEF Spec

-----------------------------------------------------------------------------
(* What the store thread holds, put before the queue, is the abstract      *)
(* backlog.                                                                *)
LEMMA BacklogFacts ==
  ASSUME TypeOK
  PROVE  /\ Held \in Seq(1..offered) /\ Held \o dataQueue \in Seq(1..offered)
         /\ Len(Held \o dataQueue) = Len(Held) + Len(dataQueue)
         /\ Len(Held) \in {0, 1} /\ Len(dataQueue) \in Nat
         /\ sd = None => Held \o dataQueue = dataQueue
         /\ sd # None => /\ Held = <<sd>>
                         /\ Held \o dataQueue # <<>>
                         /\ Head(Held \o dataQueue) = sd
                         /\ Tail(Held \o dataQueue) = dataQueue
  <1>1. CASE sd = None
    BY <1>1, ConcatEmptySeq, EmptySeq, LenProperties DEF TypeOK, Held
  <1>2. CASE sd # None
    <2>1. sd \in 1..offered /\ Held = <<sd>> /\ Held \in Seq(1..offered) /\ Len(Held) = 1
      BY <1>2 DEF TypeOK, Held, None
    <2>2. Len(dataQueue) \in Nat
      BY LenProperties DEF TypeOK
    <2> QED  BY <1>2, <2>1, <2>2, FifoP!InFront DEF TypeOK
  <1> QED  BY <1>1, <1>2

(* A step of Store2Mysql is a step of LossyFifo or leaves its variables    *)
(* alone.                                                                  *)
LEMMA StepRefines ==
  StoreInv /\ StoreInv' /\ [Next]_vars => [Fifo!Next]_(Fifo!fifoVars)
  <1> SUFFICES ASSUME StoreInv, StoreInv', [Next]_vars
               PROVE  [Fifo!Next]_(Fifo!fifoVars)
    OBVIOUS
  <1> USE StoreAssumption
  <1> USE DEF Fifo!fifoVars, Fifo!Next
  <1>a. TypeOK /\ QueueBounded /\ DeadIsEmpty /\ TypeOK'
    BY DEF StoreInv
  <1>1. CASE AddData /\ Len(dataQueue) > maxSize
    <2>1. Fifo!Refuse
      BY <1>1, <1>a, BacklogFacts DEF AddData, Fifo!Refuse, Held
    <2> QED  BY <2>1
  <1>2. CASE AddData /\ ~(Len(dataQueue) > maxSize)
    <2>1. Held' = Held
      BY <1>2 DEF AddData, Held
    <2>2. offered + 1 \in 1..(offered + 1) /\ offered \in Nat
      BY <1>a DEF TypeOK
    <2>3. Held \in Seq(Nat) /\ dataQueue \in Seq(Nat)
      BY <1>a, BacklogFacts, SeqMonotonic, 1..offered \subseteq Nat DEF TypeOK
    <2>4. Held \o Append(dataQueue, offered + 1) = Append(Held \o dataQueue, offered + 1)
      BY <2>2, <2>3, FifoP!AppendBehind
    <2>5. Len(Held \o dataQueue) < maxSize + 2
      BY <1>2, <1>a, BacklogFacts
    <2>6. Fifo!Accept
      BY <1>2, <2>1, <2>4, <2>5 DEF AddData, Fifo!Accept
    <2> QED  BY <2>6
  <1>3. CASE Pop
    <2>1. sd' # None /\ sd' = Head(dataQueue) /\ dataQueue' = Tail(dataQueue)
      BY <1>3, <1>a, HeadTailProperties DEF Pop, TypeOK, None
    <2>2. Held' \o dataQueue' = Held \o dataQueue
      <3>1. Held \o dataQueue = dataQueue
        BY <1>3, <1>a, BacklogFacts DEF Pop
      <3>2. Held' = <<Head(dataQueue)>>
        BY <2>1 DEF Held
      <3>3. <<Head(dataQueue)>> \o Tail(dataQueue) = dataQueue
        BY <1>3, <1>a, FifoP!PutBack DEF Pop, TypeOK
      <3> QED  BY <2>1, <3>1, <3>2, <3>3
    <2> QED  BY <1>3, <2>2 DEF Pop
  <1>4. CASE ExecOk \/ ExecRejected \/ LostDuringQuery \/ GoneAway
    <2>1. /\ alive /\ sd # None /\ sd' = None /\ dataQueue' = dataQueue
          /\ offered' = offered /\ alive' = alive
      BY <1>4 DEF ExecOk, ExecRejected, LostDuringQuery, GoneAway
    <2>2. stored' = Append(stored, sd) \/ stored' = stored
      BY <1>4 DEF ExecOk, ExecRejected, LostDuringQuery, GoneAway
    <2>3. /\ Held \o dataQueue # <<>> /\ Head(Held \o dataQueue) = sd
          /\ Held' \o dataQueue' = Tail(Held \o dataQueue)
      <3>1. Held' \o dataQueue' = dataQueue
        BY <2>1, <1>a, ConcatEmptySeq DEF Held, TypeOK
      <3> QED  BY <1>a, <2>1, <3>1, BacklogFacts
    <2>4. CASE stored' = Append(stored, sd)
      <3>1. Fifo!Deliver
        BY <2>1, <2>3, <2>4 DEF Fifo!Deliver
      <3> QED  BY <3>1
    <2>5. CASE stored' = stored
      <3>1. Fifo!LoseHead
        BY <2>1, <2>3, <2>5 DEF Fifo!LoseHead
      <3> QED  BY <3>1
    <2> QED  BY <2>2, <2>4, <2>5
  <1>5. CASE ExecOnNull \/ Restart
    <2>1. /\ dataQueue' = <<>> /\ Held' = <<>>
          /\ alive' \in BOOLEAN /\ UNCHANGED <<offered, stored>>
      BY <1>5, <1>a DEF ExecOnNull, Restart, Held, DeadIsEmpty, queueVars
    <2>2. Held' \o dataQueue' = <<>>
      BY <2>1
    <2>3. Fifo!Replace
      BY <2>1, <2>2 DEF Fifo!Replace
    <2> QED  BY <2>3
  <1>6. CASE Break \/ DbStop \/ DbStart \/ UNCHANGED vars
    <2>1. UNCHANGED queueVars /\ alive' = alive
      BY <1>6 DEF Break, DbStop, DbStart, vars
    <2> QED  BY <2>1 DEF queueVars, Held
  <1> QED  BY <1>1, <1>2, <1>3, <1>4, <1>5, <1>6 DEF Next, Exec

(* Queueing, popping, executing and reconnecting keep the promise of the   *)
(* lossy queue, for every queue size.                                      *)
THEOREM StoreImplementsFifo == Spec => ImplementsFifo
  <1>1. Init => Fifo!Init
    BY DEF Init, Fifo!Init, Held
  <1> QED  BY <1>1, StoreInvariant, StepRefines, PTL DEF Spec, ImplementsFifo, Fifo!Spec

(* The rows of the database are in the order of arrival, none twice.       *)
THEOREM StoreInOrder == Spec => []InOrder
  <1>1. FifoP!CapAssumption
    BY StoreAssumption DEF FifoP!CapAssumption
  <1>2. FifoP!Spec => []FifoP!FifoInv
    BY <1>1, FifoP!FifoInvariant
  <1>3. Fifo!Spec => FifoP!Spec
    BY PTL DEF Fifo!Spec, FifoP!Spec, Fifo!Init, FifoP!Init, Fifo!Next, FifoP!Next,
       Fifo!fifoVars, FifoP!fifoVars, Fifo!Accept, FifoP!Accept, Fifo!Refuse,
       FifoP!Refuse, Fifo!Deliver, FifoP!Deliver, Fifo!LoseHead, FifoP!LoseHead,
       Fifo!Replace, FifoP!Replace
  <1>4. FifoP!FifoInv => InOrder
    BY DEF FifoP!FifoInv, FifoP!InOrder, InOrder, Fifo!InOrder, Fifo!Increasing,
           FifoP!Increasing, Fifo!Before, FifoP!Before
  <1> QED  BY StoreImplementsFifo, <1>2, <1>3, <1>4, PTL DEF ImplementsFifo
=============================================================================
