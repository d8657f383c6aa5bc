------------------------- MODULE OutputLocal_proofs -------------------------
(***************************************************************************)
(* Theorems about OutputLocal, for every number of collectors and rows,    *)
(* every interval, period, rotation and queue size: the local output is an *)
(* Output, its rows are stored once and whole, only old ones are purged,   *)
(* and dfsrrTool -w shows the newest, whatever the agent does meanwhile.   *)
(***************************************************************************)
EXTENDS OutputLocal, SequenceTheorems, FiniteSetTheorems, WellFoundedInduction, TLAPS

(* The collectors are looked at one after the other: those up to p have    *)
(* given the sample of this second, those behind it are all due or not.    *)
Passes ==
    \E p \in 0..Modules :
        /\ \A m \in 1..p : taken[m] = now
        /\ \A i, j \in (p + 1)..Modules : taken[i] = taken[j]
        /\ 0 < p /\ p < Modules => Due(p + 1)
        /\ offered <= Modules * now + p

(* What is queued is younger than what is in hand, and that is no older    *)
(* than what is stored.                                                    *)
Ordered ==
    /\ \A i, j \in 1..Len(dataQueue) : i < j => dataQueue[i].n < dataQueue[j].n
    /\ \A i \in 1..Len(dataQueue) : od.n < dataQueue[i].n
    /\ \A m \in Mod : \A i \in DOMAIN tables[m] :
          /\ \A j \in 1..Len(dataQueue) : tables[m][i].n < dataQueue[j].n
          /\ pc # "idle" => tables[m][i].n <= od.n

(* Of the sample in hand the rows before the next one are stored. *)
InHand ==
    /\ pc # "exec" => row = 1
    /\ \A m \in Mod : \A i \in DOMAIN tables[m] :
          tables[m][i].n = od.n => m = od.mod /\ tables[m][i].k < row /\ tables[m][i].ts = od.ts
    /\ \A k \in 1..(row - 1) : Has(tables[od.mod], od.n, k)

(* The rows of a sample have one time, so that a purge takes all or none.  *)
OneTime ==
    \A m \in Mod : \A i, j \in DOMAIN tables[m] :
        tables[m][i].n = tables[m][j].n => tables[m][i].ts = tables[m][j].ts

LocalInv == TypeOK /\ Passes /\ Ordered /\ InHand /\ OneTime /\ Whole

(* What the assumption says of the constants. *)
LEMMA LocalConstants ==
  /\ Modules \in Nat /\ Modules > 0 /\ Rows \in Nat /\ Rows > 0 /\ intv \in Nat /\ intv > 0
  /\ maxSize \in Nat /\ Width \in Nat /\ Width > 0 /\ Start \in Nat /\ MaxTime \in Nat
  /\ Start <= MaxTime /\ MaxTime < Width /\ 1 \in Mod /\ 1 \in 1..Rows
  /\ Start \in Start..MaxTime
  BY LocalAssumption DEF Mod

(* A set of numbers that is not empty has a smallest one. *)
LEMMA Smallest ==
  ASSUME NEW N \in SUBSET Nat, N # {}
  PROVE  \E m \in N : \A n \in N : m <= n
  <1>1. PICK m \in N : \A n \in N : <<n, m>> \notin OpToRel(<, Nat)
    BY NatLessThanWellFounded, WFMin, Zenon
  <1>2. ASSUME NEW n \in N, ~(m <= n) PROVE FALSE
    <2>1. n < m /\ n \in Nat /\ m \in Nat
      BY <1>2
    <2>2. <<n, m>> \in OpToRel(<, Nat)
      BY <2>1, Zenon DEF OpToRel
    <2> QED  BY <1>1, <2>2
  <1> QED  BY <1>2

(* A finite set of numbers has a largest one: among its subsets without    *)
(* one there would be a smallest.                                          *)
LEMMA MaxFacts ==
  ASSUME NEW S \in SUBSET Nat, IsFiniteSet(S), S # {}
  PROVE  Max(S) \in S /\ \A x \in S : x <= Max(S)
  <1> DEFINE Bounded(T) == \E m \in T : \A x \in T : x <= m
             Bad == {T \in SUBSET S : T # {} /\ ~Bounded(T)}
             Sizes == {Cardinality(T) : T \in Bad}
  <1>1. Bad = {}
    <2> SUFFICES ASSUME Bad # {} PROVE FALSE
      OBVIOUS
    <2>1. \A T \in SUBSET S : IsFiniteSet(T) /\ Cardinality(T) \in Nat
      BY FS_Subset, FS_CardinalityType
    <2>2. Sizes \in SUBSET Nat /\ Sizes # {}
      BY <2>1
    <2> HIDE DEF Sizes
    <2>3. PICK c \in Sizes : \A d \in Sizes : c <= d
      BY <2>2, Smallest
    <2>4. PICK T \in Bad : c = Cardinality(T)
      BY <2>3 DEF Sizes
    <2>5. PICK x \in T : x \in Nat
      BY <2>4
    <2>6. Cardinality(T \ {x}) = Cardinality(T) - 1 /\ Cardinality(T) \in Nat
      BY <2>1, <2>4, <2>5, FS_RemoveElement
    <2>7. T \ {x} \notin Bad
      <3> SUFFICES ASSUME T \ {x} \in Bad PROVE FALSE
        OBVIOUS
      <3>1. Cardinality(T \ {x}) \in Sizes
        BY DEF Sizes
      <3> QED  BY <2>3, <2>4, <2>6, <3>1
    <2>8. CASE T \ {x} = {}
      <3>1. \A y \in T : y <= x
        BY <2>5, <2>8
      <3> QED  BY <2>4, <2>5, <3>1
    <2>9. CASE T \ {x} # {}
      <3>1. PICK m \in T \ {x} : \A y \in T \ {x} : y <= m
        BY <2>4, <2>7, <2>9
      <3>2. m \in Nat /\ T \subseteq Nat
        BY <2>4, <3>1
      <3>3. CASE m <= x
        <4>1. \A y \in T : y <= x
          BY <2>5, <3>1, <3>2, <3>3
        <4> QED  BY <2>4, <2>5, <4>1
      <3>4. CASE ~(m <= x)
        <4>1. \A y \in T : y <= m
          BY <2>5, <3>1, <3>2, <3>4
        <4> QED  BY <2>4, <3>1, <4>1
      <3> QED  BY <3>3, <3>4
    <2> QED  BY <2>8, <2>9
  <1>2. PICK m \in S : \A x \in S : x <= m
    BY <1>1
  <1>3. \A x \in S : m >= x
    BY <1>2
  <1>4. Max(S) \in S /\ \A x \in S : Max(S) >= x
    BY <1>3, Zenon DEF Max
  <1> QED  BY <1>4

(* A row gets a rowid behind all others. *)
LEMMA NextIdFacts ==
  ASSUME NEW t, Table(t)
  PROVE  NextId(t) \in Nat \ {0} /\ \A i \in DOMAIN t : i < NextId(t)
  <1>1. DOMAIN t \in SUBSET Nat /\ IsFiniteSet(DOMAIN t)
    BY DEF Table
  <1>2. CASE DOMAIN t = {}
    BY <1>2 DEF NextId
  <1>3. CASE DOMAIN t # {}
    <2>1. Max(DOMAIN t) \in DOMAIN t /\ \A x \in DOMAIN t : x <= Max(DOMAIN t)
      BY <1>1, <1>3, MaxFacts
    <2> QED  BY <1>1, <1>3, <2>1 DEF NextId
  <1> QED  BY <1>2, <1>3

(* A table with one row more. *)
LEMMA ExtendedFacts ==
  ASSUME NEW t, Table(t), NEW r \in StoredRow
  PROVE  /\ Table(Extended(t, r))
         /\ DOMAIN Extended(t, r) = DOMAIN t \cup {NextId(t)} /\ NextId(t) \notin DOMAIN t
         /\ \A i \in DOMAIN t : Extended(t, r)[i] = t[i] /\ i < NextId(t)
         /\ Extended(t, r)[NextId(t)] = r
         /\ NextId(t) \in Nat
         /\ \A n, k : Has(Extended(t, r), n, k) <=> Has(t, n, k) \/ (r.n = n /\ r.k = k)
  <1>1. NextId(t) \in Nat \ {0} /\ \A i \in DOMAIN t : i < NextId(t) /\ i \in Nat
    BY NextIdFacts DEF Table
  <1>2. NextId(t) \notin DOMAIN t
    BY <1>1
  <1>3. /\ DOMAIN Extended(t, r) = DOMAIN t \cup {NextId(t)}
        /\ \A i \in DOMAIN t : Extended(t, r)[i] = t[i]
        /\ Extended(t, r)[NextId(t)] = r
    BY <1>2 DEF Extended
  <1>4. IsFiniteSet(DOMAIN t \cup {NextId(t)})
    BY FS_AddElement DEF Table
  <1>5. Table(Extended(t, r))
    <2>1. Extended(t, r) = [i \in DOMAIN Extended(t, r) |-> Extended(t, r)[i]]
      BY DEF Extended
    <2> QED  BY <1>1, <1>3, <1>4, <2>1 DEF Table
  <1>6. \A n, k : Has(Extended(t, r), n, k) <=> Has(t, n, k) \/ (r.n = n /\ r.k = k)
    BY <1>3 DEF Has
  <1> QED  BY <1>1, <1>2, <1>3, <1>5, <1>6

(* A table without some of its rows. *)
LEMMA RestrictFacts ==
  ASSUME NEW t, Table(t), NEW S \in SUBSET DOMAIN t
  PROVE  /\ Table(Restrict(t, S)) /\ DOMAIN Restrict(t, S) = S
         /\ \A i \in S : Restrict(t, S)[i] = t[i]
  <1>1. DOMAIN Restrict(t, S) = S /\ \A i \in S : Restrict(t, S)[i] = t[i]
    BY DEF Restrict
  <1>2. Restrict(t, S) = [i \in DOMAIN Restrict(t, S) |-> Restrict(t, S)[i]]
    BY DEF Restrict
  <1>3. IsFiniteSet(S)
    BY FS_Subset DEF Table
  <1> QED  BY <1>1, <1>2, <1>3 DEF Table

(* The invariant holds initially. *)
LEMMA LocalInit == Init => LocalInv
  <1> SUFFICES ASSUME Init PROVE LocalInv
    OBVIOUS
  <1> USE LocalConstants
  <1>1. \A m \in Mod : tables[m] = <<>> /\ DOMAIN tables[m] = {} /\ taken[m] = 0
    BY DEF Init
  <1>2. TypeOK
    <2>1. \A m \in Mod : Table(tables[m])
      BY <1>1, FS_EmptySet DEF Table
    <2>2. /\ dataQueue \in Seq(Sample) /\ Len(dataQueue) <= maxSize + 1
          /\ sent \in Seq(1..offered) /\ shown \in Seq(StoredRow)
      BY DEF Init
    <2>3. alive \in BOOLEAN
      BY DEF Init
    <2>4. taken \in [Mod -> Nat] /\ rotate \in Nat
      BY LocalAssumption DEF Init
    <2> QED  BY <1>1, <2>1, <2>2, <2>3, <2>4 DEF Init, TypeOK
  <1>3. Passes
    <2>1. \A i, j \in 1..Modules : taken[i] = taken[j]
      BY <1>1 DEF Mod
    <2>2. offered <= Modules * now
      BY DEF Init
    <2>3. 0 \in 0..Modules /\ Modules * now + 0 = Modules * now
      BY DEF Init
    <2> QED  BY <2>1, <2>2, <2>3 DEF Passes
  <1>4. Ordered /\ InHand /\ OneTime /\ Whole
    BY <1>1 DEF Init, Ordered, InHand, OneTime, Whole
  <1> QED  BY <1>2, <1>3, <1>4 DEF LocalInv

(* What the types say without the records they are made of. *)
LEMMA LocalTypes ==
  ASSUME TypeOK
  PROVE  /\ now \in Nat /\ now <= MaxTime /\ offered \in Nat /\ Modules * now \in Nat
         /\ \A m \in Mod : taken[m] \in Nat
         /\ Len(dataQueue) \in Nat
         /\ \A i \in 1..Len(dataQueue) :
               dataQueue[i] \in Sample /\ dataQueue[i].n \in 1..offered /\ dataQueue[i].ts \in Nat
         /\ od.n \in 0..offered /\ od.mod \in Mod /\ od.ts \in Nat
         /\ od.n = 0 <=> pc = "idle"
         /\ \A m \in Mod : \A i \in DOMAIN tables[m] :
               /\ i \in Nat \ {0} /\ tables[m][i].n \in 1..offered /\ tables[m][i].mod \in Mod
               /\ tables[m][i].k \in 1..Rows /\ tables[m][i].ts \in Nat
  <1>1. now \in Nat /\ now <= MaxTime /\ offered \in Nat /\ Modules * now \in Nat
    BY LocalConstants DEF TypeOK
  <1>2. /\ Len(dataQueue) \in Nat
        /\ \A i \in 1..Len(dataQueue) : dataQueue[i] \in Sample
    BY LenProperties, ElementOfSeq DEF TypeOK
  <1>3. od \in IF pc = "idle" THEN {NoSample} ELSE Sample
    BY DEF TypeOK
  <1>4. /\ od.n \in 0..offered /\ od.mod \in Mod /\ od.ts \in Nat
        /\ od.n = 0 <=> pc = "idle"
    BY <1>1, <1>3, LocalConstants DEF NoSample, Sample
  <1>5. \A m \in Mod : \A i \in DOMAIN tables[m] :
               /\ i \in Nat \ {0} /\ tables[m][i].n \in 1..offered /\ tables[m][i].mod \in Mod
               /\ tables[m][i].k \in 1..Rows /\ tables[m][i].ts \in Nat
    BY DEF TypeOK, Table, StoredRow
  <1> QED  BY <1>1, <1>2, <1>4, <1>5 DEF TypeOK, Sample

(* The clock goes on when no collector is due. *)
LEMMA TickStep ==
  ASSUME LocalInv, Tick
  PROVE  LocalInv'
  <1> USE LocalConstants
  <1>t. /\ TypeOK /\ now' = now + 1 /\ now < MaxTime /\ \A m \in Mod : ~Due(m)
        /\ UNCHANGED <<taken, offered, dataQueue, alive, od, sent, failed, pc, row>>
        /\ UNCHANGED <<lastTime, rotate, made, tables, reading, tpc, lastN, shown>>
    BY DEF LocalInv, Tick, queueVars, sendVars, dbVars, toolVars
  <1>n. now \in Nat /\ offered \in Nat /\ now \in Start..MaxTime
    BY <1>t, LocalTypes DEF TypeOK
  <1>1. TypeOK'
    <2>1. now' \in Start..MaxTime /\ lastTime' <= now'
      BY <1>t, <1>n DEF TypeOK
    <2> QED  BY <1>t, <2>1 DEF TypeOK, Sample, StoredRow, Table
  <1>2. Passes'
    <2>1. PICK p \in 0..Modules : /\ \A m \in 1..p : taken[m] = now
                                  /\ \A i, j \in (p + 1)..Modules : taken[i] = taken[j]
                                  /\ 0 < p /\ p < Modules => Due(p + 1)
                                  /\ offered <= Modules * now + p
      BY DEF LocalInv, Passes
    <2>2. p = 0 \/ p = Modules
      <3> SUFFICES ASSUME 0 < p, p < Modules PROVE FALSE
        BY <2>1
      <3>1. p + 1 \in Mod
        BY DEF Mod
      <3> QED  BY <1>t, <2>1, <3>1
    <2>3. \A i, j \in 1..Modules : taken[i] = taken[j]
      BY <2>1, <2>2
    <2>4. offered <= Modules * (now + 1)
      <3>1. Modules * (now + 1) = Modules * now + Modules /\ Modules * now \in Nat
        BY <1>n
      <3> QED  BY <1>n, <2>1, <3>1
    <2>5. 0 \in 0..Modules /\ 0 + 1 = 1
      OBVIOUS
    <2>6. offered' <= Modules * now' + 0
      BY <1>t, <1>n, <2>4
    <2>7. \A i, j \in (0 + 1)..Modules : taken'[i] = taken'[j]
      BY <1>t, <2>3
    <2> QED  BY <2>5, <2>6, <2>7 DEF Passes
  <1>3. Ordered' /\ InHand' /\ OneTime' /\ Whole'
    BY <1>t DEF LocalInv, Ordered, InHand, OneTime, Whole, Has
  <1> QED  BY <1>1, <1>2, <1>3 DEF LocalInv

(* Samples and rows of before are ones of now when the numbers grow. *)
LEMMA GrownTypes ==
  ASSUME TypeOK, offered' = offered + 1
  PROVE  /\ Sample \subseteq Sample' /\ StoredRow \subseteq StoredRow'
         /\ dataQueue \in Seq(Sample') /\ sent \in Seq((1..offered)') /\ shown \in Seq(StoredRow')
         /\ failed \subseteq (1..offered)'
  <1>1. offered \in Nat /\ 1..offered \subseteq 1..(offered + 1)
    BY DEF TypeOK
  <1>2. Sample \subseteq Sample' /\ StoredRow \subseteq StoredRow'
    BY <1>1 DEF Sample, StoredRow
  <1> QED  BY <1>1, <1>2, SeqMonotonic DEF TypeOK

(* The next of the collectors gives its sample of this second. *)
LEMMA CollectPasses ==
  ASSUME LocalInv, NEW m \in Mod, Collect(m)
  PROVE  Passes' /\ offered < Modules * (MaxTime + 1)
  <1> USE LocalConstants
  <1>t. /\ TypeOK /\ now' = now /\ taken' = [taken EXCEPT ![m] = now] /\ offered' = offered + 1
        /\ Due(m) /\ \A k \in 1..(m - 1) : ~Due(k)
        /\ now \in Nat /\ now <= MaxTime /\ offered \in Nat /\ Modules * now \in Nat
        /\ m \in Nat /\ m >= 1 /\ m <= Modules /\ taken \in [Mod -> Nat]
    <2>1. TypeOK /\ taken \in [Mod -> Nat]
      BY DEF LocalInv, TypeOK
    <2>2. m \in Nat /\ m >= 1 /\ m <= Modules
      BY DEF Mod
    <2>3. /\ now' = now /\ taken' = [taken EXCEPT ![m] = now] /\ offered' = offered + 1
          /\ Due(m) /\ \A k \in 1..(m - 1) : ~Due(k)
      BY DEF Collect
    <2> QED  BY <2>1, <2>2, <2>3, LocalTypes
  <1>1. PICK p \in 0..Modules : /\ \A k \in 1..p : taken[k] = now
                                /\ \A i, j \in (p + 1)..Modules : taken[i] = taken[j]
                                /\ 0 < p /\ p < Modules => Due(p + 1)
                                /\ offered <= Modules * now + p
    BY DEF LocalInv, Passes
  <1>2. taken[m] # now
    BY <1>t DEF Due
  <1>3. m = p + 1
    <2>1. m > p
      BY <1>t, <1>1, <1>2
    <2> SUFFICES ASSUME m > p + 1 PROVE FALSE
      BY <1>t, <2>1
    <2>2. taken[p + 1] = taken[m] /\ p + 1 \in 1..(m - 1)
      BY <1>t, <1>1
    <2> QED  BY <1>t, <2>2 DEF Due
  <1>4. /\ \A k \in 1..(p + 1) : taken'[k] = now
        /\ \A k \in ((p + 1) + 1)..Modules : taken'[k] = taken[k]
    BY <1>t, <1>1, <1>3 DEF Mod
  <1>5. \A i, j \in ((p + 1) + 1)..Modules : taken'[i] = taken'[j]
    BY <1>1, <1>4
  <1>6. 0 < p + 1 /\ p + 1 < Modules => Due((p + 1) + 1)'
    <2> SUFFICES ASSUME p + 1 < Modules PROVE Due((p + 1) + 1)'
      OBVIOUS
    <2>1. (p + 1) + 1 \in ((p + 1) + 1)..Modules /\ (p + 1) + 1 \in (p + 1)..Modules
          /\ m \in (p + 1)..Modules
      BY <1>t, <1>3
    <2>2. taken'[(p + 1) + 1] = taken[m]
      BY <1>1, <1>4, <2>1
    <2> QED  BY <1>t, <2>2 DEF Due
  <1>7. offered' <= Modules * now' + (p + 1) /\ p + 1 \in 0..Modules
    BY <1>t, <1>1, <1>3
  <1>8. Passes'
    BY <1>t, <1>4, <1>5, <1>6, <1>7 DEF Passes
  <1>9. offered < Modules * (MaxTime + 1)
    <2>1. offered < Modules * now + Modules
      BY <1>t, <1>1, <1>3
    <2>2. Modules * (now + 1) = Modules * now + Modules
      BY <1>t
    <2>3. Modules * (now + 1) <= Modules * (MaxTime + 1)
      BY <1>t
    <2>4. Modules * (now + 1) \in Nat /\ Modules * (MaxTime + 1) \in Nat
      BY <1>t
    <2> QED  BY <1>t, <2>1, <2>2, <2>3, <2>4
  <1> QED  BY <1>8, <1>9

(* A sample is put behind the others, if there is an output and room.      *)
LEMMA CollectStep ==
  ASSUME LocalInv, NEW m \in Mod, Collect(m)
  PROVE  LocalInv'
  <1> USE LocalConstants
  <1> DEFINE s == [n |-> offered + 1, mod |-> m, ts |-> now]
  <1>t. /\ TypeOK /\ now' = now /\ taken' = [taken EXCEPT ![m] = now] /\ offered' = offered + 1
        /\ dataQueue' = IF ~alive \/ Len(dataQueue) > maxSize THEN dataQueue
                        ELSE Append(dataQueue, s)
        /\ UNCHANGED <<alive, od, sent, failed, pc, row>>
        /\ UNCHANGED <<lastTime, rotate, made, tables, reading, tpc, lastN, shown>>
    BY DEF LocalInv, Collect, sendVars, dbVars, toolVars
  <1>n. offered \in Nat /\ now \in Nat /\ s \in Sample' /\ s.n = offered + 1
    <2>1. offered \in Nat /\ now \in Nat /\ offered + 1 \in 1..offered'
      BY <1>t, LocalTypes
    <2> QED  BY <2>1 DEF Sample
  <1>q. \/ dataQueue' = dataQueue
        \/ /\ Len(dataQueue) <= maxSize /\ dataQueue' = Append(dataQueue, s)
           /\ Len(dataQueue') = Len(dataQueue) + 1 /\ dataQueue' \in Seq(Sample')
           /\ \A i \in 1..Len(dataQueue) : dataQueue'[i] = dataQueue[i]
           /\ dataQueue'[Len(dataQueue) + 1] = s
    <2>1. CASE ~alive \/ Len(dataQueue) > maxSize
      BY <1>t, <2>1
    <2>2. CASE ~(~alive \/ Len(dataQueue) > maxSize)
      <3>1. Len(dataQueue) <= maxSize /\ dataQueue \in Seq(Sample') /\ Len(dataQueue) \in Nat
        BY <1>t, <2>2, GrownTypes, LocalTypes
      <3> HIDE DEF s
      <3>2. /\ Append(dataQueue, s) \in Seq(Sample')
            /\ Len(Append(dataQueue, s)) = Len(dataQueue) + 1
            /\ \A i \in 1..Len(dataQueue) : Append(dataQueue, s)[i] = dataQueue[i]
            /\ Append(dataQueue, s)[Len(dataQueue) + 1] = s
        BY <1>n, <3>1, AppendProperties
      <3>3. dataQueue' = Append(dataQueue, s)
        BY <1>t, <2>2 DEF s
      <3> QED  BY <3>1, <3>2, <3>3
    <2> QED  BY <2>1, <2>2
  <1>1. TypeOK'
    <2>1. dataQueue' \in Seq(Sample') /\ Len(dataQueue') <= maxSize + 1
      <3>1. Len(dataQueue) \in Nat /\ Len(dataQueue) <= maxSize + 1 /\ dataQueue \in Seq(Sample')
        BY <1>t, GrownTypes, LocalTypes DEF TypeOK
      <3> HIDE DEF s
      <3> QED  BY <1>q, <3>1
    <2>2. od' \in IF pc' = "idle" THEN {NoSample} ELSE Sample'
      BY <1>t, GrownTypes DEF TypeOK
    <2>3. \A k \in Mod : Table(tables[k])' /\ (DOMAIN tables'[k] # {} => k \in made')
      BY <1>t, GrownTypes DEF TypeOK, Table
    <2>4. taken' \in [Mod -> Nat] /\ offered' \in Nat
      BY <1>t, <1>n DEF TypeOK
    <2>5. sent' \in Seq((1..offered)') /\ shown' \in Seq(StoredRow') /\ failed' \subseteq (1..offered)'
      BY <1>t, GrownTypes
    <2> QED  BY <1>t, <2>1, <2>2, <2>3, <2>4, <2>5 DEF TypeOK
  <1>2. Passes'
    BY CollectPasses
  <1>3. Ordered'
    <2>1. CASE dataQueue' = dataQueue
      BY <1>t, <2>1 DEF LocalInv, Ordered
    <2>2. CASE dataQueue' # dataQueue
      <3>1. /\ Len(dataQueue') = Len(dataQueue) + 1 /\ Len(dataQueue) \in Nat
            /\ \A i \in 1..Len(dataQueue) : /\ dataQueue'[i] = dataQueue[i]
                                            /\ dataQueue[i].n < offered + 1
            /\ dataQueue'[Len(dataQueue) + 1].n = offered + 1
        <4>1. Len(dataQueue) \in Nat /\ \A i \in 1..Len(dataQueue) : dataQueue[i].n \in 1..offered
          BY <1>t, LocalTypes
        <4>2. \A i \in 1..Len(dataQueue) : dataQueue[i].n < offered + 1
          BY <1>n, <4>1
        <4> HIDE DEF s
        <4> QED  BY <1>n, <1>q, <2>2, <4>1, <4>2
      <3>2. od.n < offered + 1
        BY <1>t, <1>n, LocalTypes
      <3>3. \A k \in Mod : \A i \in DOMAIN tables[k] : tables[k][i].n < offered + 1
        BY <1>t, <1>n, LocalTypes
      <3> HIDE DEF s
      <3>4. \A i, j \in 1..Len(dataQueue') : i < j => dataQueue'[i].n < dataQueue'[j].n
        <4>1. \A i, j \in 1..Len(dataQueue) : i < j => dataQueue[i].n < dataQueue[j].n
          BY DEF LocalInv, Ordered
        <4>2. \A i \in 1..Len(dataQueue') : i \in 1..Len(dataQueue) \/ i = Len(dataQueue) + 1
          BY <3>1
        <4>3. ASSUME NEW i \in 1..Len(dataQueue'), NEW j \in 1..Len(dataQueue'), i < j
              PROVE  dataQueue'[i].n < dataQueue'[j].n
          <5>1. i \in 1..Len(dataQueue)
            BY <3>1, <4>3
          <5>2. CASE j \in 1..Len(dataQueue)
            BY <3>1, <4>1, <4>3, <5>1, <5>2
          <5>3. CASE j = Len(dataQueue) + 1
            BY <3>1, <5>1, <5>3
          <5> QED  BY <4>2, <5>2, <5>3
        <4> QED  BY <4>3
      <3>5. \A i \in 1..Len(dataQueue') :
               /\ od.n < dataQueue'[i].n
               /\ \A k \in Mod : \A j \in DOMAIN tables[k] : tables[k][j].n < dataQueue'[i].n
        BY <3>1, <3>2, <3>3 DEF LocalInv, Ordered
      <3> QED  BY <1>t, <3>4, <3>5 DEF LocalInv, Ordered
    <2> QED  BY <2>1, <2>2
  <1>4. InHand' /\ OneTime' /\ Whole'
    BY <1>t DEF LocalInv, InHand, OneTime, Whole, Has
  <1> QED  BY <1>1, <1>2, <1>3, <1>4 DEF LocalInv

(* A new output, and a sample taken from the queue. *)
LEMMA RecreateStep ==
  ASSUME LocalInv, Recreate
  PROVE  LocalInv'
  <1>t. /\ TypeOK /\ alive' = TRUE /\ lastTime' = now
        /\ UNCHANGED <<now, taken, offered, dataQueue, od, sent, failed, pc, row>>
        /\ UNCHANGED <<rotate, made, tables, reading, tpc, lastN, shown>>
    BY DEF LocalInv, Recreate, clockVars, sendVars, toolVars
  <1>1. TypeOK'
    <2>1. alive' \in BOOLEAN /\ lastTime' \in Nat /\ lastTime' <= now
      BY <1>t, LocalTypes
    <2> QED  BY <1>t, <2>1 DEF TypeOK, Sample, StoredRow, Table
  <1>2. Passes'
    BY <1>t DEF LocalInv, Passes, Due
  <1>3. Ordered' /\ InHand' /\ OneTime' /\ Whole'
    BY <1>t DEF LocalInv, Ordered, InHand, OneTime, Whole, Has
  <1> QED  BY <1>1, <1>2, <1>3 DEF LocalInv

LEMMA PopStep ==
  ASSUME LocalInv, Pop
  PROVE  LocalInv'
  <1>t. /\ TypeOK /\ pc = "idle" /\ dataQueue # <<>> /\ od' = Head(dataQueue)
        /\ dataQueue' = Tail(dataQueue) /\ pc' = "test" /\ row' = 1
        /\ UNCHANGED <<now, taken, offered, alive, sent, failed>>
        /\ UNCHANGED <<lastTime, rotate, made, tables, reading, tpc, lastN, shown>>
    BY DEF LocalInv, Pop, clockVars, dbVars, toolVars
  <1>q. /\ Len(dataQueue) \in Nat \ {0} /\ od' = dataQueue[1] /\ od' \in Sample
        /\ dataQueue' \in Seq(Sample) /\ Len(dataQueue') = Len(dataQueue) - 1
        /\ \A i \in 1..Len(dataQueue') : i + 1 \in 1..Len(dataQueue) /\ dataQueue'[i] = dataQueue[i + 1]
    <2>1. dataQueue \in Seq(Sample) /\ Len(dataQueue) \in Nat \ {0}
      BY <1>t, EmptySeq, LenProperties DEF TypeOK
    <2> QED  BY <1>t, <2>1, HeadTailProperties
  <1>1. TypeOK'
    <2>1. dataQueue' \in Seq(Sample') /\ Len(dataQueue') <= maxSize + 1 /\ od' \in Sample'
      BY <1>t, <1>q, LocalConstants DEF TypeOK, Sample
    <2>2. row' \in 1..Rows /\ od' \in IF pc' = "idle" THEN {NoSample} ELSE Sample'
      BY <1>t, <2>1, LocalConstants
    <2>3. shown' \in Seq(StoredRow') /\ \A m \in Mod : Table(tables[m])'
      BY <1>t DEF TypeOK, StoredRow, Table
    <2> QED  BY <1>t, <2>1, <2>2, <2>3 DEF TypeOK
  <1>2. Passes'
    BY <1>t DEF LocalInv, Passes, Due
  <1>o. /\ \A i \in 1..Len(dataQueue') : od'.n < dataQueue'[i].n
        /\ \A i, j \in 1..Len(dataQueue') : i < j => dataQueue'[i].n < dataQueue'[j].n
        /\ \A m \in Mod : \A i \in DOMAIN tables[m] :
              /\ tables[m][i].n < od'.n
              /\ \A j \in 1..Len(dataQueue') : tables[m][i].n < dataQueue'[j].n
    <2>1. /\ \A i, j \in 1..Len(dataQueue) : i < j => dataQueue[i].n < dataQueue[j].n
          /\ \A m \in Mod : \A i \in DOMAIN tables[m] :
                \A j \in 1..Len(dataQueue) : tables[m][i].n < dataQueue[j].n
      BY DEF LocalInv, Ordered
    <2>2. 1 \in 1..Len(dataQueue) /\ \A i \in 1..Len(dataQueue') : i \in Nat /\ 1 < i + 1
      BY <1>q
    <2>3. \A i \in 1..Len(dataQueue') : dataQueue[1].n < dataQueue[i + 1].n
      BY <1>q, <2>1, <2>2
    <2>4. \A i, j \in 1..Len(dataQueue') : i < j => dataQueue[i + 1].n < dataQueue[j + 1].n
      <3> SUFFICES ASSUME NEW i \in 1..Len(dataQueue'), NEW j \in 1..Len(dataQueue'), i < j
                   PROVE  dataQueue[i + 1].n < dataQueue[j + 1].n
        OBVIOUS
      <3>1. i + 1 < j + 1
        BY <2>2
      <3> QED  BY <1>q, <2>1, <3>1
    <2> QED  BY <1>q, <2>1, <2>2, <2>3, <2>4
  <1>i. \A m \in Mod : \A i \in DOMAIN tables[m] : tables[m][i].n \in Nat /\ tables[m][i].n # od'.n
    BY <1>t, <1>q, <1>o, LocalTypes DEF Sample
  <1>3. Ordered'
    <2>1. \A m \in Mod : \A i \in DOMAIN tables[m] : tables[m][i].n <= od'.n
      <3>1. od'.n \in Nat
        BY <1>t, <1>q, LocalTypes DEF Sample
      <3> QED  BY <1>o, <1>i, <3>1
    <2> QED  BY <1>t, <1>o, <2>1 DEF Ordered
  <1>4. InHand'
    BY <1>t, <1>i DEF InHand
  <1>5. OneTime' /\ Whole'
    <2>1. od.n = 0 /\ \A m \in Mod : \A i \in DOMAIN tables[m] : tables[m][i].n # od.n
      BY <1>t, LocalTypes
    <2> QED  BY <1>t, <2>1 DEF LocalInv, OneTime, Whole, Has
  <1> QED  BY <1>1, <1>2, <1>3, <1>4, <1>5 DEF LocalInv

(* Whether it is time to purge, and a table that is made. *)
LEMMA TestStep ==
  ASSUME LocalInv, TestPeriod \/ CreateTable
  PROVE  LocalInv'
  <1>t. /\ TypeOK
        /\ UNCHANGED <<now, taken, offered, dataQueue, alive, od, sent, failed, row>>
        /\ UNCHANGED <<rotate, tables, reading, tpc, lastN, shown>>
    BY DEF LocalInv, TestPeriod, CreateTable, clockVars, queueVars, sendVars, toolVars
  <1>p. /\ pc' \in {"purge", "exec"} /\ pc \in {"test", "exec"} /\ (pc = "exec" => pc' = "exec")
        /\ made \subseteq made' /\ made' \subseteq Mod
        /\ lastTime' \in Nat /\ lastTime' <= now
    BY <1>t, LocalTypes DEF TestPeriod, CreateTable, TypeOK, sendVars
  <1>1. TypeOK'
    BY <1>t, <1>p DEF TypeOK, Sample, StoredRow, Table
  <1>2. Passes'
    BY <1>t DEF LocalInv, Passes, Due
  <1>3. Ordered' /\ InHand' /\ OneTime' /\ Whole'
    BY <1>t, <1>p DEF LocalInv, Ordered, InHand, OneTime, Whole, Has
  <1> QED  BY <1>1, <1>2, <1>3 DEF LocalInv

(* The rows that a purge leaves. *)
LEMMA KeptFacts ==
  ASSUME NEW t, Table(t)
  PROVE  /\ DOMAIN Kept(t) = {i \in DOMAIN t : ~(t[i].ts < Cutoff)}
         /\ \A i \in DOMAIN Kept(t) : Kept(t)[i] = t[i]
  BY RestrictFacts DEF Kept

LEMMA KeptTable ==
  ASSUME NEW t, Table(t)
  PROVE  Table(Kept(t))
  BY RestrictFacts DEF Kept

(* Whole samples go: those of one number have one time. *)
LEMMA PurgeStep ==
  ASSUME LocalInv, Purge
  PROVE  LocalInv'
  <1>t. /\ TypeOK /\ pc = "purge" /\ pc' = "exec"
        /\ UNCHANGED <<now, taken, offered, dataQueue, alive, od, sent, failed, row>>
        /\ UNCHANGED <<lastTime, rotate, made, reading, tpc, lastN, shown>>
        /\ \/ tables' = tables
           \/ od.mod \in Mod /\ tables' = [tables EXCEPT ![od.mod] = Kept(tables[od.mod])]
    BY LocalTypes DEF LocalInv, Purge, clockVars, queueVars, toolVars
  <1>1. CASE tables' = tables
    <2>1. TypeOK'
      BY <1>t, <1>1 DEF TypeOK, Sample, StoredRow, Table
    <2>2. Passes'
      BY <1>t DEF LocalInv, Passes, Due
    <2>3. Ordered' /\ InHand' /\ OneTime' /\ Whole'
      BY <1>t, <1>1 DEF LocalInv, Ordered, InHand, OneTime, Whole, Has
    <2> QED  BY <2>1, <2>2, <2>3 DEF LocalInv
  <1>2. CASE tables' # tables
    <2>d. /\ DOMAIN tables' = Mod /\ tables'[od.mod] = Kept(tables[od.mod])
          /\ \A m \in Mod : m # od.mod => tables'[m] = tables[m]
      BY <1>t, <1>2 DEF TypeOK
    <2>s. \A m \in Mod : Table(tables[m])
      BY <1>t DEF TypeOK
    <2>k. \A m \in Mod :
             /\ Table(tables'[m]) /\ DOMAIN tables'[m] \subseteq DOMAIN tables[m]
             /\ \A i \in DOMAIN tables'[m] : tables'[m][i] = tables[m][i]
             /\ \A i, j \in DOMAIN tables[m] :
                  tables[m][i].n = tables[m][j].n /\ i \in DOMAIN tables'[m] => j \in DOMAIN tables'[m]
      <3> SUFFICES ASSUME NEW m \in Mod
                   PROVE  /\ Table(tables'[m]) /\ DOMAIN tables'[m] \subseteq DOMAIN tables[m]
                          /\ \A i \in DOMAIN tables'[m] : tables'[m][i] = tables[m][i]
                          /\ \A i, j \in DOMAIN tables[m] :
                               tables[m][i].n = tables[m][j].n /\ i \in DOMAIN tables'[m]
                               => j \in DOMAIN tables'[m]
        OBVIOUS
      <3>1. CASE m # od.mod
        BY <2>d, <2>s, <3>1
      <3>2. CASE m = od.mod
        <4> DEFINE t == tables[m]
        <4>1. \A i, j \in DOMAIN t : t[i].n = t[j].n => t[i].ts = t[j].ts
          BY DEF LocalInv, OneTime
        <4>2. tables'[m] = Kept(t) /\ Table(t)
          BY <2>d, <2>s, <3>2
        <4> HIDE DEF t
        <4>3. /\ Table(Kept(t)) /\ DOMAIN Kept(t) \subseteq DOMAIN t
              /\ \A i \in DOMAIN Kept(t) : Kept(t)[i] = t[i]
              /\ \A i, j \in DOMAIN t :
                   t[i].n = t[j].n /\ i \in DOMAIN Kept(t) => j \in DOMAIN Kept(t)
          <5>0. Table(Kept(t))
            BY <4>2, KeptTable
          <5>1. /\ DOMAIN Kept(t) = {i \in DOMAIN t : ~(t[i].ts < Cutoff)}
                /\ \A i \in DOMAIN Kept(t) : Kept(t)[i] = t[i]
            BY <4>2, KeptFacts
          <5> QED  BY <4>1, <5>0, <5>1
        <4> QED  BY <4>2, <4>3 DEF t
      <3> QED  BY <3>1, <3>2
    <2>h. \A m \in Mod : \A n, k :
             /\ Has(tables'[m], n, k) => Has(tables[m], n, k)
             /\ Has(tables[m], n, k) /\ (\E i \in DOMAIN tables'[m] : tables[m][i].n = n)
                => Has(tables'[m], n, k)
      BY <2>k DEF Has
    <2>1. TypeOK'
      <3>1. \A m \in Mod : Table(tables[m])' /\ (DOMAIN tables'[m] # {} => m \in made')
        <4>1. StoredRow' = StoredRow
          BY <1>t DEF StoredRow
        <4>2. \A m \in Mod : DOMAIN tables[m] # {} => m \in made
          BY <1>t DEF TypeOK
        <4> QED  BY <1>t, <2>k, <4>1, <4>2 DEF Table
      <3> QED  BY <1>t, <2>d, <3>1 DEF TypeOK, Sample, StoredRow
    <2>2. Passes'
      BY <1>t DEF LocalInv, Passes, Due
    <2>3. Ordered' /\ OneTime'
      BY <1>t, <2>k DEF LocalInv, Ordered, OneTime
    <2>4. InHand'
      <3>1. row = 1
        BY <1>t DEF LocalInv, InHand
      <3> QED  BY <1>t, <2>k, <3>1 DEF LocalInv, InHand
    <2>5. Whole'
      <3> SUFFICES ASSUME NEW m \in Mod
                   PROVE  LET t == tables'[m] IN
        /\ \A i, j \in DOMAIN t : i < j => t[i].n < t[j].n \/ (t[i].n = t[j].n /\ t[i].k < t[j].k)
        /\ \A i \in DOMAIN t : \A k \in 1..(t[i].k - 1) : Has(t, t[i].n, k)
        /\ \A i \in DOMAIN t : Has(t, t[i].n, Rows) \/ t[i].n = od.n \/ t[i].n \in failed
        BY <1>t DEF Whole
      <3>1. LET t == tables[m] IN
        /\ \A i, j \in DOMAIN t : i < j => t[i].n < t[j].n \/ (t[i].n = t[j].n /\ t[i].k < t[j].k)
        /\ \A i \in DOMAIN t : \A k \in 1..(t[i].k - 1) : Has(t, t[i].n, k)
        /\ \A i \in DOMAIN t : Has(t, t[i].n, Rows) \/ t[i].n = od.n \/ t[i].n \in failed
        BY DEF LocalInv, Whole
      <3>2. \A i, j \in DOMAIN tables'[m] : i < j =>
               \/ tables'[m][i].n < tables'[m][j].n
               \/ tables'[m][i].n = tables'[m][j].n /\ tables'[m][i].k < tables'[m][j].k
        BY <2>k, <3>1
      <3>3. ASSUME NEW i \in DOMAIN tables'[m], NEW k, Has(tables[m], tables[m][i].n, k)
            PROVE  Has(tables'[m], tables'[m][i].n, k)
        BY <2>k, <2>h, <3>3
      <3>4. ASSUME NEW i \in DOMAIN tables'[m]
            PROVE  /\ \A k \in 1..(tables'[m][i].k - 1) : Has(tables'[m], tables'[m][i].n, k)
                   /\ \/ Has(tables'[m], tables'[m][i].n, Rows)
                      \/ tables'[m][i].n = od.n \/ tables'[m][i].n \in failed
        <4>1. i \in DOMAIN tables[m] /\ tables'[m][i] = tables[m][i]
          BY <2>k
        <4> QED  BY <3>1, <3>3, <4>1
      <3> QED  BY <3>2, <3>4
    <2> QED  BY <2>1, <2>2, <2>3, <2>4, <2>5 DEF LocalInv
  <1> QED  BY <1>1, <1>2

(* What a statement leaves of the sample in hand. *)
LEMMA InsertedFacts ==
  ASSUME LocalInv, Insert
  PROVE  /\ ThisRow \in StoredRow /\ ThisRow.n = od.n /\ ThisRow.k = row /\ ThisRow.ts = od.ts
         /\ ThisRow.mod = od.mod /\ od.mod \in made
         /\ pc = "exec" /\ od \in Sample /\ od.n \in 1..offered /\ row \in 1..Rows
         /\ \/ /\ row < Rows /\ row' = row + 1 /\ UNCHANGED <<od, sent, pc>>
            \/ /\ row = Rows /\ row' = 1 /\ od' = NoSample /\ pc' = "idle"
               /\ sent' = Append(sent, od.n)
         /\ DOMAIN tables' = Mod /\ tables'[od.mod] = Extended(tables[od.mod], ThisRow)
         /\ \A m \in Mod : m # od.mod => tables'[m] = tables[m]
  <1>1. /\ pc = "exec" /\ od \in Sample /\ row \in 1..Rows /\ od.mod \in made
        /\ tables' = [tables EXCEPT ![od.mod] = Extended(tables[od.mod], ThisRow)]
        /\ DOMAIN tables = Mod
    BY DEF LocalInv, TypeOK, Insert, Writable
  <1>2. od.n \in 1..offered /\ od.mod \in Mod /\ od.ts \in Nat
    BY <1>1 DEF Sample
  <1>3. ThisRow \in StoredRow /\ ThisRow.n = od.n /\ ThisRow.k = row /\ ThisRow.ts = od.ts
        /\ ThisRow.mod = od.mod
    BY <1>1, <1>2 DEF ThisRow, StoredRow
  <1>4. \/ /\ row < Rows /\ row' = row + 1 /\ UNCHANGED <<od, sent, pc>>
        \/ /\ row = Rows /\ row' = 1 /\ od' = NoSample /\ pc' = "idle"
           /\ sent' = Append(sent, od.n)
    BY <1>1, LocalConstants DEF Insert
  <1> QED  BY <1>1, <1>2, <1>3, <1>4

(* A statement stores the next row of the sample in hand behind the rows   *)
(* of all the samples before; with the last one the sample is whole.       *)
LEMMA InsertStep ==
  ASSUME LocalInv, Insert
  PROVE  LocalInv'
  <1> DEFINE t == tables[od.mod]
             x == NextId(t)
             u == tables'[od.mod]
  <1>t. /\ TypeOK
        /\ UNCHANGED <<now, taken, offered, dataQueue, alive, failed>>
        /\ UNCHANGED <<lastTime, rotate, made, reading, tpc, lastN, shown>>
    BY DEF LocalInv, Insert, clockVars, queueVars, toolVars
  <1>r. /\ ThisRow \in StoredRow /\ ThisRow.n = od.n /\ ThisRow.k = row /\ ThisRow.ts = od.ts
        /\ ThisRow.mod = od.mod /\ od.mod \in made
        /\ pc = "exec" /\ od \in Sample /\ od.n \in 1..offered /\ row \in 1..Rows
        /\ \/ /\ row < Rows /\ row' = row + 1 /\ UNCHANGED <<od, sent, pc>>
           \/ /\ row = Rows /\ row' = 1 /\ od' = NoSample /\ pc' = "idle"
              /\ sent' = Append(sent, od.n)
        /\ DOMAIN tables' = Mod /\ u = Extended(t, ThisRow)
        /\ \A m \in Mod : m # od.mod => tables'[m] = tables[m]
    BY InsertedFacts
  <1>o. od.mod \in Mod /\ Table(t) /\ \A m \in Mod : Table(tables[m])
    BY <1>t, LocalTypes DEF TypeOK
  <1>e. /\ Table(u) /\ DOMAIN u = DOMAIN t \cup {x} /\ x \notin DOMAIN t
        /\ \A i \in DOMAIN t : u[i] = t[i] /\ i < x
        /\ u[x] = ThisRow /\ x \in Nat
        /\ \A n, k : Has(u, n, k) <=> Has(t, n, k) \/ (od.n = n /\ row = k)
    <2>1. /\ Table(Extended(t, ThisRow))
          /\ DOMAIN Extended(t, ThisRow) = DOMAIN t \cup {x} /\ x \notin DOMAIN t
          /\ \A i \in DOMAIN t : Extended(t, ThisRow)[i] = t[i] /\ i < x
          /\ Extended(t, ThisRow)[x] = ThisRow /\ x \in Nat
          /\ \A n, k : Has(Extended(t, ThisRow), n, k)
                       <=> Has(t, n, k) \/ (ThisRow.n = n /\ ThisRow.k = k)
      <3>1. Table(t) /\ ThisRow \in StoredRow
        BY <1>r, <1>o
      <3> HIDE DEF t
      <3> QED  BY <3>1, ExtendedFacts, Zenon
    <2> HIDE DEF t, x, u
    <2> QED  BY <1>r, <2>1
  <1>v. /\ \A i \in DOMAIN t : /\ t[i].n \in 1..offered /\ t[i].k \in 1..Rows /\ t[i].n <= od.n
                               /\ t[i].n = od.n => t[i].k < row /\ t[i].ts = od.ts
        /\ \A k \in 1..(row - 1) : Has(t, od.n, k)
        /\ \A m \in Mod : m # od.mod => \A i \in DOMAIN tables[m] : tables[m][i].n # od.n
    BY <1>t, <1>r, <1>o, LocalTypes DEF LocalInv, Ordered, InHand
  <1>n. od'.n = od.n \/ (od'.n = 0 /\ pc' = "idle")
    BY <1>r DEF NoSample
  <1>m. \A m \in Mod : tables'[m] = IF m = od.mod THEN u ELSE tables[m]
    BY <1>r
  <1> HIDE DEF t, x, u
  <1>1. TypeOK'
    <2>1. \A m \in Mod : Table(tables[m])' /\ (DOMAIN tables'[m] # {} => m \in made')
      <3> SUFFICES ASSUME NEW m \in Mod
                   PROVE  Table(tables'[m]) /\ (DOMAIN tables'[m] # {} => m \in made)
        BY <1>t DEF Table, StoredRow
      <3> QED  BY <1>t, <1>r, <1>o, <1>m, <1>e DEF TypeOK
    <2>2. /\ od' \in IF pc' = "idle" THEN {NoSample} ELSE Sample'
          /\ pc' \in {"idle", "test", "purge", "exec"}
      BY <1>t, <1>r DEF Sample
    <2>3. row' \in 1..Rows
      BY <1>r, LocalConstants
    <2>4. sent' \in Seq(1..offered)
      <3>1. sent \in Seq(1..offered)
        BY <1>t DEF TypeOK
      <3>2. Append(sent, od.n) \in Seq(1..offered)
        BY <1>r, <3>1, AppendProperties
      <3> QED  BY <1>r, <3>1, <3>2
    <2> QED  BY <1>t, <1>r, <2>1, <2>2, <2>3, <2>4 DEF TypeOK, Sample, StoredRow
  <1>2. Passes'
    BY <1>t DEF LocalInv, Passes, Due
  <1>3. Ordered'
    <2>1. /\ \A i, j \in 1..Len(dataQueue) : i < j => dataQueue[i].n < dataQueue[j].n
          /\ \A i \in 1..Len(dataQueue) : od.n < dataQueue[i].n /\ dataQueue[i].n \in 1..offered
          /\ \A m \in Mod : \A i \in DOMAIN tables[m] :
                /\ \A j \in 1..Len(dataQueue) : tables[m][i].n < dataQueue[j].n
                /\ tables[m][i].n <= od.n
      BY <1>t, <1>r, LocalTypes DEF LocalInv, Ordered
    <2>2. \A i \in 1..Len(dataQueue) : od'.n < dataQueue[i].n
      BY <1>n, <2>1
    <2>3. ASSUME NEW m \in Mod, NEW i \in DOMAIN tables'[m]
          PROVE  /\ \A j \in 1..Len(dataQueue) : tables'[m][i].n < dataQueue[j].n
                 /\ pc' # "idle" => tables'[m][i].n <= od'.n
      <3>1. tables'[m][i].n = od.n \/ (i \in DOMAIN tables[m] /\ tables'[m][i] = tables[m][i])
        BY <1>r, <1>m, <1>e, <2>3 DEF t
      <3>2. tables'[m][i].n <= od.n /\ \A j \in 1..Len(dataQueue) : tables'[m][i].n < dataQueue[j].n
        BY <1>r, <2>1, <3>1
      <3> QED  BY <1>r, <3>2
    <2> QED  BY <1>t, <2>1, <2>2, <2>3 DEF Ordered
  <1>4. InHand'
    <2>1. CASE row = Rows
      <3>1. row' = 1 /\ od'.n = 0
        BY <1>r, <2>1 DEF NoSample
      <3>2. \A m \in Mod : \A i \in DOMAIN tables'[m] : tables'[m][i].n # 0
        <4>1. \A i \in DOMAIN u : u[i].n # 0
          BY <1>r, <1>e, <1>v
        <4>2. \A m \in Mod : \A i \in DOMAIN tables[m] : tables[m][i].n # 0
          BY <1>t, LocalTypes
        <4> QED  BY <1>m, <4>1, <4>2
      <3> QED  BY <3>1, <3>2 DEF InHand
    <2>2. CASE row # Rows
      <3>1. row' = row + 1 /\ od' = od /\ pc' = "exec"
        BY <1>r, <2>2
      <3>2. \A i \in DOMAIN u : u[i].n = od.n => u[i].k < row + 1 /\ u[i].ts = od.ts
        BY <1>r, <1>e, <1>v
      <3>3. \A k \in 1..row : Has(u, od.n, k)
        BY <1>r, <1>e, <1>v
      <3>4. \A m \in Mod : m # od.mod => \A i \in DOMAIN tables'[m] : tables'[m][i].n # od.n
        BY <1>m, <1>v
      <3>5. (row + 1) - 1 = row
        BY <1>r
      <3> QED  BY <1>o, <1>m, <3>1, <3>2, <3>3, <3>4, <3>5 DEF InHand
    <2> QED  BY <2>1, <2>2
  <1>5. OneTime'
    <2>1. \A m \in Mod : \A i, j \in DOMAIN tables[m] :
             tables[m][i].n = tables[m][j].n => tables[m][i].ts = tables[m][j].ts
      BY DEF LocalInv, OneTime
    <2>2. \A i, j \in DOMAIN u : u[i].n = u[j].n => u[i].ts = u[j].ts
      BY <1>r, <1>o, <1>e, <1>v, <2>1 DEF t
    <2> QED  BY <1>m, <2>1, <2>2 DEF OneTime
  <1>6. Whole'
    <2> DEFINE Good(w, nr, bad) ==
        /\ \A i, j \in DOMAIN w : i < j => w[i].n < w[j].n \/ (w[i].n = w[j].n /\ w[i].k < w[j].k)
        /\ \A i \in DOMAIN w : \A k \in 1..(w[i].k - 1) : Has(w, w[i].n, k)
        /\ \A i \in DOMAIN w : Has(w, w[i].n, Rows) \/ w[i].n = nr \/ w[i].n \in bad
    <2>1. \A m \in Mod : Good(tables[m], od.n, failed)
      BY DEF LocalInv, Whole
    <2>2. ASSUME NEW m \in Mod, m # od.mod PROVE Good(tables'[m], od'.n, failed)
      <3>1. \A i \in DOMAIN tables[m] : tables[m][i].n # od.n
        BY <1>v, <2>2
      <3> QED  BY <1>m, <2>1, <2>2, <3>1
    <2>3. Good(u, od'.n, failed)
      <3>0. Good(t, od.n, failed)
        BY <1>o, <2>1 DEF t
      <3>1. ASSUME NEW i \in DOMAIN u, NEW j \in DOMAIN u, i < j
            PROVE  u[i].n < u[j].n \/ (u[i].n = u[j].n /\ u[i].k < u[j].k)
        <4>1. CASE j = x
          <5>1. i \in DOMAIN t /\ u[i] = t[i] /\ u[j].n = od.n /\ u[j].k = row
            BY <1>r, <1>e, <3>1, <4>1
          <5> QED  BY <1>r, <1>v, <5>1
        <4>2. CASE j # x
          <5>1. j \in DOMAIN t /\ u[j] = t[j] /\ j < x
            BY <1>e, <4>2
          <5>2. i \in DOMAIN t /\ u[i] = t[i]
            <6>1. i # x
              BY <1>e, <1>o, <3>1, <5>1 DEF Table
            <6> QED  BY <1>e, <6>1
          <5> QED  BY <3>0, <3>1, <5>1, <5>2
        <4> QED  BY <4>1, <4>2
      <3>2. ASSUME NEW i \in DOMAIN u, NEW k \in 1..(u[i].k - 1)
            PROVE  Has(u, u[i].n, k)
        <4>1. CASE i = x
          BY <1>r, <1>e, <1>v, <3>2, <4>1
        <4>2. CASE i # x
          BY <1>e, <3>0, <3>2, <4>2
        <4> QED  BY <4>1, <4>2
      <3>3. ASSUME NEW i \in DOMAIN u
            PROVE  Has(u, u[i].n, Rows) \/ u[i].n = od'.n \/ u[i].n \in failed
        <4>1. CASE u[i].n # od.n
          <5>1. i \in DOMAIN t /\ u[i] = t[i]
            BY <1>r, <1>e, <4>1
          <5> QED  BY <1>e, <3>0, <4>1, <5>1
        <4>2. CASE u[i].n = od.n
          <5>1. CASE row = Rows
            BY <1>e, <4>2, <5>1
          <5>2. CASE row # Rows
            BY <1>r, <4>2, <5>2
          <5> QED  BY <5>1, <5>2
        <4> QED  BY <4>1, <4>2
      <3> QED  BY <3>1, <3>2, <3>3
    <2> QED  BY <1>t, <1>m, <2>2, <2>3 DEF Whole
  <1> QED  BY <1>1, <1>2, <1>3, <1>4, <1>5, <1>6 DEF LocalInv

(* What a failed send leaves is counted among the failed ones. *)
LEMMA FailStep ==
  ASSUME LocalInv, SendFails
  PROVE  LocalInv'
  <1>t. /\ TypeOK /\ pc = "exec" /\ failed' = failed \cup {od.n} /\ od' = NoSample
        /\ pc' = "idle" /\ row' = 1 /\ dataQueue' = <<>> /\ alive' = FALSE
        /\ UNCHANGED <<now, taken, offered, sent, lastTime, rotate, made, tables>>
        /\ UNCHANGED <<reading, tpc, lastN, shown>>
    BY DEF LocalInv, SendFails, clockVars, dbVars, toolVars
  <1>n. od.n \in 1..offered /\ od'.n = 0
        /\ \A m \in Mod : \A i \in DOMAIN tables[m] : tables[m][i].n # 0
    BY <1>t, LocalTypes DEF NoSample
  <1>1. TypeOK'
    <2>1. dataQueue' \in Seq(Sample) /\ Len(dataQueue') <= maxSize + 1
      BY <1>t, LocalConstants
    <2>2. alive' \in BOOLEAN
      BY <1>t
    <2>3. row' \in 1..Rows /\ failed' \subseteq 1..offered
      BY <1>t, <1>n, LocalConstants DEF TypeOK
    <2> QED  BY <1>t, <2>1, <2>2, <2>3 DEF TypeOK, Sample, StoredRow, Table
  <1>2. Passes'
    BY <1>t DEF LocalInv, Passes, Due
  <1>3. Ordered'
    <2>1. Len(dataQueue') = 0
      BY <1>t
    <2> QED  BY <1>t, <2>1 DEF Ordered
  <1>4. InHand' /\ OneTime'
    BY <1>t, <1>n DEF LocalInv, InHand, OneTime
  <1>5. Whole'
    BY <1>t, <1>n DEF LocalInv, Whole, Has
  <1> QED  BY <1>1, <1>2, <1>3, <1>4, <1>5 DEF LocalInv

-----------------------------------------------------------------------------
(* The place of row i in the order of a select. *)
Rank(t, i) == Cardinality(UpTo(t, i))

(* Row i comes before row j in the order of a select. *)
Listed(t, i, j) == t[i].ts > t[j].ts \/ (t[i].ts = t[j].ts /\ i < j)

(* The places of rows are different and follow their order. *)
LEMMA RankFacts ==
  ASSUME NEW t, Table(t)
  PROVE  /\ Cardinality(DOMAIN t) \in Nat
         /\ \A i \in DOMAIN t : Rank(t, i) \in 1..Cardinality(DOMAIN t)
         /\ \A i, j \in DOMAIN t : Listed(t, i, j) => Rank(t, i) < Rank(t, j)
  <1>0. /\ \A i \in DOMAIN t : i \in Nat /\ t[i].ts \in Nat
        /\ IsFiniteSet(DOMAIN t)
    BY DEF Table, StoredRow
  <1>1. \A i \in DOMAIN t : /\ UpTo(t, i) \in SUBSET DOMAIN t /\ i \in UpTo(t, i)
                            /\ IsFiniteSet(UpTo(t, i)) /\ Rank(t, i) \in Nat /\ Rank(t, i) # 0
                            /\ Rank(t, i) <= Cardinality(DOMAIN t)
    <2> SUFFICES ASSUME NEW i \in DOMAIN t
                 PROVE  /\ UpTo(t, i) \in SUBSET DOMAIN t /\ i \in UpTo(t, i)
                        /\ IsFiniteSet(UpTo(t, i)) /\ Rank(t, i) \in Nat /\ Rank(t, i) # 0
                        /\ Rank(t, i) <= Cardinality(DOMAIN t)
      OBVIOUS
    <2>1. UpTo(t, i) \in SUBSET DOMAIN t /\ i \in UpTo(t, i)
      BY <1>0 DEF UpTo
    <2>2. IsFiniteSet(UpTo(t, i)) /\ Cardinality(UpTo(t, i)) <= Cardinality(DOMAIN t)
      BY <1>0, <2>1, FS_Subset
    <2>3. Cardinality(UpTo(t, i)) \in Nat /\ Cardinality(UpTo(t, i)) # 0
      BY <2>1, <2>2, FS_CardinalityType, FS_EmptySet
    <2> QED  BY <2>1, <2>2, <2>3 DEF Rank
  <1>2. Cardinality(DOMAIN t) \in Nat
    BY <1>0, FS_CardinalityType
  <1>3. ASSUME NEW i \in DOMAIN t, NEW j \in DOMAIN t, Listed(t, i, j)
        PROVE  Rank(t, i) < Rank(t, j)
    <2>1. UpTo(t, i) \in SUBSET (UpTo(t, j) \ {j})
      BY <1>0, <1>3 DEF UpTo, Listed
    <2>2. /\ IsFiniteSet(UpTo(t, j) \ {j})
          /\ Cardinality(UpTo(t, j) \ {j}) = Cardinality(UpTo(t, j)) - 1
      BY <1>1, FS_RemoveElement
    <2>3. Cardinality(UpTo(t, i)) <= Cardinality(UpTo(t, j) \ {j})
      BY <2>1, <2>2, FS_Subset
    <2> QED  BY <1>1, <2>2, <2>3 DEF Rank
  <1> QED  BY <1>1, <1>2, <1>3

(* A select gives every row once, in its place. *)
LEMMA DescFacts ==
  ASSUME NEW t, Table(t)
  PROVE  /\ Desc(t) \in Seq(StoredRow) /\ Len(Desc(t)) = Cardinality(DOMAIN t)
         /\ Cardinality(DOMAIN t) \in Nat
         /\ \A i \in DOMAIN t : /\ Rank(t, i) \in 1..Cardinality(DOMAIN t)
                                /\ Desc(t)[Rank(t, i)] = t[i]
         /\ \A p \in 1..Cardinality(DOMAIN t) :
               \E i \in DOMAIN t : Rank(t, i) = p /\ Desc(t)[p] = t[i]
         /\ \A i, j \in DOMAIN t : Rank(t, i) < Rank(t, j) => Listed(t, i, j)
  <1> DEFINE N == Cardinality(DOMAIN t)
             f == [i \in DOMAIN t |-> Rank(t, i)]
  <1>0. /\ \A i \in DOMAIN t : i \in Nat /\ t[i].ts \in Nat /\ t[i] \in StoredRow
        /\ IsFiniteSet(DOMAIN t)
    BY DEF Table, StoredRow
  <1>1. /\ N \in Nat /\ \A i \in DOMAIN t : Rank(t, i) \in 1..N
        /\ \A i, j \in DOMAIN t : Listed(t, i, j) => Rank(t, i) < Rank(t, j)
    BY RankFacts
  <1>2. \A i, j \in DOMAIN t : i = j \/ Listed(t, i, j) \/ Listed(t, j, i)
    BY <1>0 DEF Listed
  <1>3. \A i, j \in DOMAIN t : Rank(t, i) = Rank(t, j) => i = j
    BY <1>1, <1>2
  <1>4. \A i, j \in DOMAIN t : Rank(t, i) < Rank(t, j) => Listed(t, i, j)
    BY <1>1, <1>2
  <1>5. \A p \in 1..N : \E i \in DOMAIN t : Rank(t, i) = p
    <2>1. f \in Injection(DOMAIN t, 1..N)
      BY <1>1, <1>3 DEF Injection, IsInjective
    <2>2. IsFiniteSet(1..N) /\ Cardinality(1..N) = N
      BY <1>1, FS_Interval
    <2>3. f \in Surjection(DOMAIN t, 1..N)
      BY <2>1, <2>2, FS_Injection
    <2> QED  BY <2>3 DEF Surjection
  <1> DEFINE at(p) == CHOOSE i \in DOMAIN t : Rank(t, i) = p
  <1>6. \A p \in 1..N : at(p) \in DOMAIN t /\ Rank(t, at(p)) = p
    <2> SUFFICES ASSUME NEW p \in 1..N PROVE at(p) \in DOMAIN t /\ Rank(t, at(p)) = p
      OBVIOUS
    <2>1. \E i \in DOMAIN t : Rank(t, i) = p
      BY <1>5
    <2> QED  BY <2>1, Zenon
  <1>7. Desc(t) = [p \in 1..N |-> t[at(p)]]
    BY DEF Desc, Rank
  <1> HIDE DEF N, at
  <1>8. /\ Desc(t) \in [1..N -> StoredRow] /\ DOMAIN Desc(t) = 1..N
        /\ \A p \in 1..N : Desc(t)[p] = t[at(p)]
    BY <1>0, <1>6, <1>7
  <1>9. Desc(t) \in Seq(StoredRow) /\ Len(Desc(t)) = N
    BY <1>1, <1>8
  <1>10. \A i \in DOMAIN t : at(Rank(t, i)) = i
    BY <1>1, <1>3, <1>6
  <1> QED  BY <1>1, <1>4, <1>6, <1>8, <1>9, <1>10 DEF N

(* A part of a select is rows of the table. *)
LEMMA PartFacts ==
  ASSUME NEW t, Table(t), NEW a \in Nat \ {0}, NEW b \in Int, b <= Len(Desc(t))
  PROVE  /\ SubSeq(Desc(t), a, b) \in Seq(StoredRow)
         /\ Len(SubSeq(Desc(t), a, b)) = IF a <= b THEN b - a + 1 ELSE 0
         /\ \A i \in 1..Len(SubSeq(Desc(t), a, b)) :
               /\ SubSeq(Desc(t), a, b)[i] = Desc(t)[a + i - 1]
               /\ a + i - 1 \in 1..Len(Desc(t)) /\ a + i - 1 <= b
  <1>1. Desc(t) \in Seq(StoredRow) /\ Len(Desc(t)) \in Nat
    BY DescFacts
  <1>2. \A i \in a..b : Desc(t)[i] \in StoredRow
    BY <1>1, ElementOfSeq
  <1>3. /\ SubSeq(Desc(t), a, b) \in Seq(StoredRow)
        /\ Len(SubSeq(Desc(t), a, b)) = IF a <= b THEN b - a + 1 ELSE 0
        /\ \A i \in 1..(b - a + 1) : SubSeq(Desc(t), a, b)[i] = Desc(t)[a + i - 1]
    BY <1>2, SubSeqProperties
  <1>4. \A i \in 1..Len(SubSeq(Desc(t), a, b)) :
           i \in 1..(b - a + 1) /\ a + i - 1 \in 1..Len(Desc(t)) /\ a + i - 1 <= b
    BY <1>1, <1>3
  <1> QED  BY <1>3, <1>4

(* The two selects of printLastNData: what is counted, and to where the    *)
(* second one goes.                                                        *)
LEMMA CountFacts ==
  ASSUME NEW s \in Seq(StoredRow), NEW x
  PROVE  RowsAt(s, x) \in Nat
  <1>1. Len(s) \in Nat /\ {i \in 1..Len(s) : s[i].ts = x} \in SUBSET (1..Len(s))
    BY LenProperties
  <1>2. IsFiniteSet(1..Len(s))
    BY <1>1, FS_Interval
  <1>3. IsFiniteSet({i \in 1..Len(s) : s[i].ts = x})
    BY <1>1, <1>2, FS_Subset
  <1> QED  BY <1>3, FS_CardinalityType DEF RowsAt

LEMMA OlderFacts ==
  ASSUME NEW t, Table(t)
  PROVE  /\ DOMAIN Older(t) = {i \in DOMAIN t : t[i].ts <= Oldest(shown)}
         /\ \A i \in DOMAIN Older(t) : Older(t)[i] = t[i]
  BY RestrictFacts DEF Older

LEMMA OlderRow ==
  ASSUME NEW t, Table(t), NEW i
  PROVE  /\ i \in DOMAIN Older(t) <=> i \in DOMAIN t /\ t[i].ts <= Oldest(shown)
         /\ i \in DOMAIN Older(t) => Older(t)[i] = t[i]
  BY OlderFacts

LEMMA OlderTable ==
  ASSUME NEW t, Table(t)
  PROVE  Table(Older(t))
  BY RestrictFacts DEF Older

LEMMA RestFacts ==
  ASSUME TypeOK, NEW t, Table(t)
  PROVE  \E e \in Int :
           /\ e <= Len(Desc(Older(t)))
           /\ \/ e = Len(Desc(Older(t)))
              \/ e = RowsAt(shown, Oldest(shown)) + lastN * (RowsAt(shown, shown[1].ts) - 1)
           /\ Rest(t) = SubSeq(Desc(Older(t)), RowsAt(shown, Oldest(shown)) + 1, e)
           /\ Rest(t) \in Seq(StoredRow)
  <1> DEFINE c == RowsAt(shown, Oldest(shown))
             L == lastN * (RowsAt(shown, shown[1].ts) - 1)
             e == SmallerOf(c + L, Len(Desc(Older(t))))
  <1>1. c \in Nat /\ L \in Int
    <2>1. RowsAt(shown, shown[1].ts) \in Nat /\ lastN \in Nat /\ c \in Nat
      BY CountFacts DEF TypeOK
    <2> QED  BY <2>1
  <1>2. Table(Older(t)) /\ Len(Desc(Older(t))) \in Nat
    BY OlderTable, DescFacts
  <1>3. Rest(t) = SubSeq(Desc(Older(t)), c + 1, e)
    BY DEF Rest
  <1> HIDE DEF c, L
  <1>4. e \in Int /\ e <= Len(Desc(Older(t))) /\ (e = c + L \/ e = Len(Desc(Older(t))))
    BY <1>1, <1>2 DEF SmallerOf
  <1>5. Rest(t) \in Seq(StoredRow)
    <2>1. c + 1 \in Nat \ {0}
      BY <1>1
    <2>2. e \in Int /\ e <= Len(Desc(Older(t)))
      BY <1>4
    <2> HIDE DEF e
    <2>3. SubSeq(Desc(Older(t)), c + 1, e) \in Seq(StoredRow)
      BY <1>2, <2>1, <2>2, PartFacts, Zenon
    <2> QED  BY <1>3, <2>3 DEF e
  <1> QED  BY <1>3, <1>4, <1>5 DEF c, L

(* What dfsrrTool does leaves the output and its tables alone. *)
LEMMA ToolStep ==
  ASSUME LocalInv,
         \/ \E m \in Mod : (\E n \in LastN : ReadStart(m, n)) \/ ReadAgain(m)
         \/ ReadEnd \/ ToolEnds
  PROVE  LocalInv'
  <1>t. /\ TypeOK
        /\ UNCHANGED <<now, taken, offered, dataQueue, alive, od, sent, failed, pc, row>>
        /\ UNCHANGED <<lastTime, rotate, made, tables>>
    BY DEF LocalInv, ReadStart, ReadAgain, ReadEnd, ToolEnds, clockVars, queueVars, sendVars, dbVars
  <1>1. /\ shown' \in Seq(StoredRow) /\ lastN' \in Nat /\ reading' \subseteq Mod
        /\ tpc' \in {"idle", "read", "between", "again", "shown"}
    <2>0. shown \in Seq(StoredRow) /\ lastN \in Nat /\ reading \subseteq Mod
      BY <1>t DEF TypeOK
    <2>1. ASSUME NEW m \in Mod, NEW n \in LastN, ReadStart(m, n)
          PROVE  /\ shown' \in Seq(StoredRow) /\ lastN' \in Nat /\ reading' \subseteq Mod
                 /\ tpc' = "read"
      <3>1. Table(tables[m]) /\ n \in Nat \ {0}
        BY <1>t, LocalAssumption DEF TypeOK
      <3>2. Len(Desc(tables[m])) \in Nat
        BY <3>1, DescFacts
      <3>3. SubSeq(Desc(tables[m]), 1, SmallerOf(n, Len(Desc(tables[m])))) \in Seq(StoredRow)
        BY <3>1, <3>2, PartFacts DEF SmallerOf
      <3> QED  BY <2>1, <3>1, <3>3 DEF ReadStart
    <2>2. ASSUME NEW m \in Mod, ReadAgain(m)
          PROVE  /\ shown' \in Seq(StoredRow) /\ lastN' \in Nat /\ reading' \subseteq Mod
                 /\ tpc' = "again"
      <3>1. Table(tables[m])
        BY <1>t DEF TypeOK
      <3>2. Rest(tables[m]) \in Seq(StoredRow)
        BY <1>t, <3>1, RestFacts
      <3>3. shown \o Rest(tables[m]) \in Seq(StoredRow)
        BY <2>0, <3>2, ConcatProperties
      <3> QED  BY <2>0, <2>2, <3>3 DEF ReadAgain
    <2>3. CASE ReadEnd
      BY <2>0, <2>3 DEF ReadEnd
    <2>4. CASE ToolEnds
      BY <2>0, <2>4 DEF ToolEnds
    <2> QED  BY <2>1, <2>2, <2>3, <2>4
  <1>2. TypeOK'
    BY <1>t, <1>1 DEF TypeOK, Sample, StoredRow, Table
  <1>3. Passes'
    BY <1>t DEF LocalInv, Passes, Due
  <1>4. Ordered' /\ InHand' /\ OneTime' /\ Whole'
    BY <1>t DEF LocalInv, Ordered, InHand, OneTime, Whole, Has
  <1> QED  BY <1>2, <1>3, <1>4 DEF LocalInv

(* Every step keeps the invariant. *)
LEMMA LocalStep == LocalInv /\ [Next]_vars => LocalInv'
  <1> SUFFICES ASSUME LocalInv, [Next]_vars PROVE LocalInv'
    OBVIOUS
  <1>1. CASE UNCHANGED vars
    <2>1. /\ UNCHANGED <<now, taken, offered, dataQueue, alive, od, sent, failed, pc, row>>
          /\ UNCHANGED <<lastTime, rotate, made, tables, reading, tpc, lastN, shown>>
      BY <1>1 DEF vars, clockVars, queueVars, sendVars, dbVars, toolVars
    <2>2. TypeOK'
      BY <2>1 DEF LocalInv, TypeOK, Sample, StoredRow, Table
    <2>3. Passes'
      BY <2>1 DEF LocalInv, Passes, Due
    <2>4. Ordered' /\ InHand' /\ OneTime' /\ Whole'
      BY <2>1 DEF LocalInv, Ordered, InHand, OneTime, Whole, Has
    <2> QED  BY <2>2, <2>3, <2>4 DEF LocalInv
  <1>2. CASE Tick
    BY <1>2, TickStep
  <1>3. CASE \E m \in Mod : Collect(m)
    BY <1>3, CollectStep
  <1>4. CASE Recreate
    BY <1>4, RecreateStep
  <1>5. CASE Pop
    BY <1>5, PopStep
  <1>6. CASE TestPeriod \/ CreateTable
    BY <1>6, TestStep
  <1>7. CASE Purge
    BY <1>7, PurgeStep
  <1>8. CASE Insert
    BY <1>8, InsertStep
  <1>9. CASE SendFails
    BY <1>9, FailStep
  <1>10. CASE \/ \E m \in Mod : (\E n \in LastN : ReadStart(m, n)) \/ ReadAgain(m)
              \/ ReadEnd \/ ToolEnds
    BY <1>10, ToolStep
  <1> QED
    BY <1>1, <1>2, <1>3, <1>4, <1>5, <1>6, <1>7, <1>8, <1>9, <1>10 DEF Next

(* The local output and its tables keep the invariant. *)
THEOREM LocalInvariant == Spec => []LocalInv
  BY LocalInit, LocalStep, PTL DEF Spec

(* The types of the local output, of its tables and of what dfsrrTool      *)
(* shows, for every number of collectors, rows and queue size.             *)
THEOREM LocalTypeOK == Spec => []TypeOK
  <1>1. LocalInv => TypeOK
    BY DEF LocalInv
  <1> QED  BY <1>1, LocalInvariant, PTL

(* No row is stored twice, and only a sample in hand or one whose send     *)
(* failed lacks its last rows (send, createTable, delOldData).             *)
THEOREM LocalWhole == Spec => []Whole
  <1>1. LocalInv => Whole
    BY DEF LocalInv
  <1> QED  BY <1>1, LocalInvariant, PTL

(* A purge costs no row younger than the rotation, unless the difference   *)
(* lastTime_ - rotate_ wraps (delOldData).                                 *)
THEOREM LocalOnlyOldPurged == Spec => OnlyOldPurged
  <1>1. ASSUME LocalInv, [Next]_vars, rotate <= lastTime', NEW m \in Mod,
               NEW r \in Range(tables[m]) \ Range(tables'[m])
        PROVE  now - r.ts > rotate
    <2>t. /\ TypeOK /\ DOMAIN tables = Mod /\ \A k \in Mod : Table(tables[k])
          /\ now \in Nat /\ now < Width /\ rotate \in Nat /\ lastTime \in Nat /\ lastTime <= now
      BY <1>1, LocalConstants DEF LocalInv, TypeOK
    <2>1. Purge
      <3>1. CASE Insert
        <4>1. /\ Insert /\ DOMAIN tables' = Mod
              /\ tables'[od.mod] = Extended(tables[od.mod], ThisRow)
              /\ \A k \in Mod : k # od.mod => tables'[k] = tables[k]
              /\ ThisRow \in StoredRow
          BY <1>1, <3>1, InsertedFacts
        <4>2. Range(tables[m]) \subseteq Range(tables'[m])
          <5>1. CASE m # od.mod
            BY <4>1, <5>1
          <5>2. CASE m = od.mod
            <6>1. Table(tables[m])
              BY <2>t
            <6>2. /\ DOMAIN Extended(tables[m], ThisRow) = DOMAIN tables[m] \cup {NextId(tables[m])}
                  /\ \A i \in DOMAIN tables[m] :
                        Extended(tables[m], ThisRow)[i] = tables[m][i] /\ i < NextId(tables[m])
              <7> DEFINE t == tables[m]
              <7> SUFFICES /\ DOMAIN Extended(t, ThisRow) = DOMAIN t \cup {NextId(t)}
                           /\ \A i \in DOMAIN t : Extended(t, ThisRow)[i] = t[i] /\ i < NextId(t)
                OBVIOUS
              <7>1. Table(t) /\ ThisRow \in StoredRow
                BY <4>1, <6>1
              <7> HIDE DEF t
              <7> QED  BY <7>1, ExtendedFacts, Zenon
            <6> QED  BY <4>1, <5>2, <6>2 DEF Range
          <5> QED  BY <5>1, <5>2
        <4> QED  BY <1>1, <4>2
      <3>2. CASE tables' = tables
        BY <1>1, <3>2
      <3>3. Purge \/ Insert \/ tables' = tables
        BY <1>1 DEF Next, vars, dbVars, Tick, Collect, Recreate, Pop, TestPeriod, CreateTable,
                    SendFails, ReadStart, ReadAgain, ReadEnd, ToolEnds
      <3> QED  BY <3>1, <3>2, <3>3
    <2>2. /\ m = od.mod /\ tables'[m] = Kept(tables[m]) /\ lastTime' = lastTime
      BY <1>1, <2>t, <2>1 DEF Purge
    <2>3. /\ DOMAIN Kept(tables[m]) = {i \in DOMAIN tables[m] : ~(tables[m][i].ts < Cutoff)}
          /\ \A i \in DOMAIN Kept(tables[m]) : Kept(tables[m])[i] = tables[m][i]
      BY <2>t, KeptFacts
    <2>4. PICK i \in DOMAIN tables[m] : r = tables[m][i]
      BY <1>1 DEF Range
    <2>5. r.ts < Cutoff /\ r.ts \in Nat
      <3>1. i \notin DOMAIN Kept(tables[m])
        BY <1>1, <2>2, <2>3, <2>4 DEF Range
      <3> QED  BY <2>t, <2>3, <2>4, <3>1 DEF Table, StoredRow
    <2>6. Cutoff = lastTime - rotate
      <3>0. rotate <= lastTime
        BY <1>1, <2>2
      <3>1. lastTime - rotate \in Nat /\ lastTime - rotate < Width
        BY <2>t, <3>0, LocalConstants
      <3> QED  BY <3>1, LocalConstants DEF Cutoff
    <2> QED  BY <2>t, <2>5, <2>6
  <1>2. LocalInv /\ [Next]_vars
        => [rotate <= lastTime' =>
              \A m \in Mod : \A r \in Range(tables[m]) \ Range(tables'[m]) : now - r.ts > rotate]_vars
    BY <1>1
  <1> QED  BY <1>2, LocalInvariant, PTL DEF Spec, OnlyOldPurged

-----------------------------------------------------------------------------
(* The numbers of a queue of samples. *)
Numbers(q) == [i \in 1..Len(q) |-> q[i].n]

LEMMA NumbersFacts ==
  ASSUME NEW q \in Seq(Sample), offered \in Nat
  PROVE  /\ Numbers(q) \in Seq(1..offered) /\ Len(Numbers(q)) = Len(q)
         /\ \A i \in 1..Len(q) : Numbers(q)[i] = q[i].n
         /\ q = <<>> <=> Numbers(q) = <<>>
  <1>1. Len(q) \in Nat /\ \A i \in 1..Len(q) : q[i] \in Sample
    BY LenProperties, ElementOfSeq
  <1>2. \A i \in 1..Len(q) : q[i].n \in 1..offered
    BY <1>1 DEF Sample
  <1>3. Numbers(q) \in [1..Len(q) -> 1..offered] /\ \A i \in 1..Len(q) : Numbers(q)[i] = q[i].n
    BY <1>2 DEF Numbers
  <1> HIDE DEF Numbers
  <1>4. Numbers(q) \in Seq(1..offered)
    BY <1>1, <1>3, SeqDef
  <1>5. Len(Numbers(q)) = Len(q)
    BY <1>1, <1>3, <1>4, LenProperties
  <1> QED  BY <1>1, <1>3, <1>4, <1>5, EmptySeq

LEMMA NumbersOfTail ==
  ASSUME NEW q \in Seq(Sample), offered \in Nat, q # <<>>
  PROVE  Head(Numbers(q)) = Head(q).n /\ Tail(Numbers(q)) = Numbers(Tail(q))
  <1>1. /\ Len(q) \in Nat \ {0} /\ Head(q) = q[1] /\ Tail(q) \in Seq(Sample)
        /\ Len(Tail(q)) = Len(q) - 1 /\ \A i \in 1..Len(Tail(q)) : Tail(q)[i] = q[i + 1]
    BY HeadTailProperties, EmptySeq, LenProperties
  <1>2. /\ Numbers(q) \in Seq(1..offered) /\ Len(Numbers(q)) = Len(q) /\ Numbers(q) # <<>>
        /\ \A i \in 1..Len(q) : Numbers(q)[i] = q[i].n
        /\ Numbers(Tail(q)) \in Seq(1..offered) /\ Len(Numbers(Tail(q))) = Len(Tail(q))
        /\ \A i \in 1..Len(Tail(q)) : Numbers(Tail(q))[i] = Tail(q)[i].n
    BY <1>1, NumbersFacts
  <1>3. /\ Head(Numbers(q)) = Numbers(q)[1] /\ Tail(Numbers(q)) \in Seq(1..offered)
        /\ Len(Tail(Numbers(q))) = Len(q) - 1
        /\ \A i \in 1..Len(Tail(Numbers(q))) : Tail(Numbers(q))[i] = Numbers(q)[i + 1]
    BY <1>2, HeadTailProperties
  <1>4. \A i \in 1..Len(Tail(q)) : Tail(Numbers(q))[i] = Numbers(Tail(q))[i] /\ i + 1 \in 1..Len(q)
    BY <1>1, <1>2, <1>3
  <1>5. Tail(Numbers(q)) = Numbers(Tail(q))
    BY <1>1, <1>2, <1>3, <1>4, SeqEqual
  <1> QED  BY <1>1, <1>2, <1>3, <1>5

LEMMA NumbersOfAppend ==
  ASSUME NEW q \in Seq(Sample), offered \in Nat, NEW s, s.n = offered + 1
  PROVE  Numbers(Append(q, s)) = Append(Numbers(q), offered + 1)
  <1>1. q \in Seq(Sample \cup {s}) /\ s \in Sample \cup {s}
    BY SeqMonotonic
  <1>2. /\ Len(q) \in Nat /\ Len(Append(q, s)) = Len(q) + 1
        /\ \A i \in 1..Len(q) : Append(q, s)[i] = q[i]
        /\ Append(q, s)[Len(q) + 1] = s
    BY <1>1, AppendProperties, LenProperties
  <1>3. /\ Numbers(q) \in Seq(Nat) /\ Len(Numbers(q)) = Len(q)
        /\ \A i \in 1..Len(q) : Numbers(q)[i] = q[i].n
    <2>1. 1..offered \subseteq Nat
      OBVIOUS
    <2> QED  BY <2>1, NumbersFacts, SeqMonotonic
  <1>4. /\ Append(Numbers(q), offered + 1) \in Seq(Nat)
        /\ Len(Append(Numbers(q), offered + 1)) = Len(q) + 1
        /\ \A i \in 1..Len(q) : Append(Numbers(q), offered + 1)[i] = q[i].n
        /\ Append(Numbers(q), offered + 1)[Len(q) + 1] = offered + 1
    <2> DEFINE nq == Numbers(q)
               x == offered + 1
    <2>1. nq \in Seq(Nat) /\ x \in Nat /\ Len(nq) = Len(q) /\ \A i \in 1..Len(q) : nq[i] = q[i].n
      BY <1>3
    <2> HIDE DEF nq, x
    <2>2. /\ Append(nq, x) \in Seq(Nat) /\ Len(Append(nq, x)) = Len(q) + 1
          /\ \A i \in 1..Len(q) : Append(nq, x)[i] = q[i].n
          /\ Append(nq, x)[Len(q) + 1] = x
      BY <2>1, AppendProperties
    <2> QED  BY <2>2 DEF nq, x
  <1>5. Numbers(Append(q, s)) = [i \in 1..(Len(q) + 1) |-> Append(q, s)[i].n]
    BY <1>2 DEF Numbers
  <1>6. /\ DOMAIN Append(Numbers(q), offered + 1) = 1..(Len(q) + 1)
        /\ Append(Numbers(q), offered + 1)
              = [i \in 1..(Len(q) + 1) |-> Append(Numbers(q), offered + 1)[i]]
    BY <1>2, <1>4
  <1>7. \A i \in 1..(Len(q) + 1) : Append(q, s)[i].n = Append(Numbers(q), offered + 1)[i]
    BY <1>2, <1>4
  <1> HIDE DEF Numbers
  <1> QED  BY <1>5, <1>6, <1>7

(* Every step of the local output is a step of Output or none. *)
LEMMA LocalStepRefines == LocalInv /\ [Next]_vars => [Outp!Next]_(Outp!vars)
  <1> SUFFICES ASSUME LocalInv, [Next]_vars PROVE [Outp!Next]_(Outp!vars)
    OBVIOUS
  <1>t. /\ TypeOK /\ dataQueue \in Seq(Sample) /\ offered \in Nat /\ alive \in BOOLEAN
        /\ od.n \in 0..offered /\ (od.n = 0 <=> pc = "idle")
    BY LocalTypes DEF LocalInv, TypeOK
  <1>0. ASSUME UNCHANGED <<offered, dataQueue, alive, od, sent>>
        PROVE  [Outp!Next]_(Outp!vars)
    BY <1>0 DEF Outp!vars
  <1>1. CASE UNCHANGED vars
    BY <1>0, <1>1 DEF vars, queueVars, sendVars
  <1>2. ASSUME NEW m \in Mod, Collect(m) PROVE [Outp!Next]_(Outp!vars)
    <2>1. /\ offered < Modules * (MaxTime + 1) /\ offered' = offered + 1
          /\ UNCHANGED <<alive, od, sent>>
      BY <1>2, CollectPasses DEF Collect, sendVars
    <2>2. CASE ~alive
      <3>1. dataQueue' = dataQueue
        BY <1>2, <2>2 DEF Collect
      <3>2. Outp!Unrecorded
        BY <2>1, <2>2, <3>1 DEF Outp!Unrecorded
      <3> QED  BY <3>2 DEF Outp!Next
    <2>3. CASE alive
      <3>1. Len(Numbers(dataQueue)) = Len(dataQueue)
        BY <1>t, NumbersFacts
      <3>2. Numbers(dataQueue') = IF Len(dataQueue) > maxSize THEN Numbers(dataQueue)
                                  ELSE Append(Numbers(dataQueue), offered + 1)
        <4>1. CASE Len(dataQueue) > maxSize
          BY <1>2, <2>3, <4>1 DEF Collect
        <4>2. CASE ~(Len(dataQueue) > maxSize)
          <5> DEFINE s == [n |-> offered + 1, mod |-> m, ts |-> now]
          <5>1. dataQueue' = Append(dataQueue, s) /\ s.n = offered + 1
            BY <1>2, <2>3, <4>2 DEF Collect
          <5> HIDE DEF s
          <5> QED  BY <1>t, <4>2, <5>1, NumbersOfAppend
        <4> QED  BY <4>1, <4>2
      <3>3. Outp!AddData
        BY <2>1, <2>3, <3>1, <3>2 DEF Outp!AddData, Numbers
      <3> QED  BY <3>3 DEF Outp!Next
    <2> QED  BY <1>t, <2>2, <2>3
  <1>3. CASE Recreate
    <2>1. Outp!Renew
      BY <1>3 DEF Recreate, sendVars, Outp!Renew
    <2> QED  BY <2>1 DEF Outp!Next
  <1>4. CASE Pop
    <2>1. /\ pc = "idle" /\ alive /\ dataQueue # <<>> /\ od'.n = Head(dataQueue).n
          /\ dataQueue' = Tail(dataQueue) /\ UNCHANGED <<offered, sent, alive>>
      BY <1>4 DEF Pop
    <2>2. /\ Numbers(dataQueue) # <<>> /\ od'.n = Head(Numbers(dataQueue))
          /\ Numbers(dataQueue') = Tail(Numbers(dataQueue))
      BY <1>t, <2>1, NumbersFacts, NumbersOfTail
    <2>3. Outp!Pop
      BY <1>t, <2>1, <2>2 DEF Outp!Pop, Outp!None, Numbers
    <2> QED  BY <2>3 DEF Outp!Next
  <1>5. CASE Insert
    <2>1. /\ UNCHANGED <<offered, dataQueue, alive>> /\ od.n # 0
          /\ UNCHANGED <<od, sent>> \/ (od'.n = 0 /\ sent' = Append(sent, od.n))
      BY <1>5, InsertedFacts, <1>t DEF Insert, queueVars, NoSample
    <2>2. CASE UNCHANGED <<od, sent>>
      BY <1>0, <2>1, <2>2
    <2>3. CASE od'.n = 0 /\ sent' = Append(sent, od.n)
      <3>1. Outp!SendOk
        BY <2>1, <2>3 DEF Outp!SendOk, Outp!None
      <3> QED  BY <3>1 DEF Outp!Next
    <2> QED  BY <2>1, <2>2, <2>3
  <1>6. CASE SendFails
    <2>1. /\ od.n # 0 /\ od'.n = 0 /\ dataQueue' = <<>> /\ alive' = FALSE
          /\ UNCHANGED <<offered, sent>>
      BY <1>6, <1>t DEF SendFails, NoSample
    <2>2. Numbers(dataQueue') = <<>>
      <3>1. <<>> \in Seq(Sample)
        OBVIOUS
      <3>2. Numbers(<<>>) = <<>>
        BY <1>t, <3>1, NumbersFacts
      <3> QED  BY <2>1, <3>2
    <2>3. Outp!SendFail
      BY <2>1, <2>2 DEF Outp!SendFail, Outp!None, Numbers
    <2> QED  BY <2>3 DEF Outp!Next
  <1>7. CASE Tick \/ TestPeriod \/ Purge \/ CreateTable \/ ReadEnd \/ ToolEnds
    BY <1>0, <1>7 DEF Tick, TestPeriod, Purge, CreateTable, ReadEnd, ToolEnds, queueVars, sendVars
  <1>8. CASE \E m \in Mod : (\E n \in LastN : ReadStart(m, n)) \/ ReadAgain(m)
    BY <1>0, <1>8 DEF ReadStart, ReadAgain, queueVars, sendVars
  <1> QED
    BY <1>1, <1>2, <1>3, <1>4, <1>5, <1>6, <1>7, <1>8 DEF Next

(* The local output is an Output: its tables, retries and purges, and a    *)
(* reader that locks a file, are nothing but sends that succeed or fail.   *)
THEOREM LocalImplementsOutput == Spec => ImplementsOutput
  <1>1. Init => Outp!Init
    <2> SUFFICES ASSUME Init PROVE Outp!Init
      OBVIOUS
    <2>1. offered = 0 /\ dataQueue = <<>> /\ od.n = 0 /\ sent = <<>> /\ alive = TRUE
      BY DEF Init, NoSample
    <2>2. Numbers(dataQueue) = <<>>
      <3>1. <<>> \in Seq(Sample) /\ offered \in Nat
        BY <2>1
      <3> QED  BY <2>1, <3>1, NumbersFacts
    <2> QED  BY <2>1, <2>2 DEF Outp!Init, Outp!None, Numbers
  <1> QED
    BY <1>1, LocalStepRefines, LocalInvariant, PTL DEF Spec, ImplementsOutput, Outp!Spec

OutpP == INSTANCE Output_proofs WITH
            MaxOffered <- Modules * (MaxTime + 1),
            dataQueue <- [i \in 1..Len(dataQueue) |-> dataQueue[i].n],
            od <- od.n

(* Hence the samples of the local output are stored in the order in which  *)
(* they were taken, and none again after a later one (OutputLocal::send    *)
(* below Output::sendData).                                                *)
THEOREM LocalInOrder == Spec => []Outp!InOrder
  <1>1. OutpP!OutputAssumption
    BY LocalConstants DEF OutpP!OutputAssumption
  <1>2. OutpP!Spec => []OutpP!InOrder
    BY <1>1, OutpP!OutputInOrder
  <1>3. Outp!Spec => OutpP!Spec
    <2>1. Outp!Init => OutpP!Init
      BY DEF Outp!Init, OutpP!Init, Outp!None, OutpP!None
    <2>2. Outp!vars = OutpP!vars
      BY DEF Outp!vars, OutpP!vars
    <2>3. [Outp!Next]_(Outp!vars) => [OutpP!Next]_(OutpP!vars)
      BY DEF Outp!vars, OutpP!vars, Outp!Next, OutpP!Next, Outp!None, OutpP!None,
         Outp!AddData, OutpP!AddData, Outp!Unrecorded, OutpP!Unrecorded, Outp!Pop, OutpP!Pop,
         Outp!SendOk, OutpP!SendOk, Outp!SendFail, OutpP!SendFail, Outp!Renew, OutpP!Renew,
         Outp!Kill, OutpP!Kill
    <2> QED  BY <2>1, <2>3, PTL DEF Outp!Spec, OutpP!Spec
  <1>4. OutpP!InOrder => Outp!InOrder
    BY DEF OutpP!InOrder, Outp!InOrder, OutpP!Fifo!InOrder, Outp!Fifo!InOrder,
       OutpP!Fifo!Increasing, Outp!Fifo!Increasing, OutpP!Fifo!Before, Outp!Fifo!Before,
       Outp!Held, OutpP!Held, Outp!None, OutpP!None
  <1> QED  BY LocalImplementsOutput, <1>2, <1>3, <1>4, PTL DEF ImplementsOutput

-----------------------------------------------------------------------------
(* The reader: dfsrrTool -w beside the agent.                              *)
(* For collector m row r is past: what its samples still bring comes later. *)
Past(m, r) ==
    /\ r.ts <= taken[m]
    /\ \A i \in 1..Len(dataQueue) : dataQueue[i].mod = m => r.ts < dataQueue[i].ts
    /\ pc # "idle" /\ od.mod = m =>
          \/ r.ts < od.ts
          \/ r.ts = od.ts /\ r.n = od.n /\ r.k < row

(* The samples of a collector are queued and stored in the order of their  *)
(* times.                                                                  *)
QueueInTime ==
    /\ \A i \in 1..Len(dataQueue) : dataQueue[i].ts <= taken[dataQueue[i].mod]
    /\ \A i, j \in 1..Len(dataQueue) :
          i < j /\ dataQueue[i].mod = dataQueue[j].mod => dataQueue[i].ts < dataQueue[j].ts
    /\ pc # "idle" =>
          /\ od.ts <= taken[od.mod]
          /\ \A i \in 1..Len(dataQueue) : dataQueue[i].mod = od.mod => od.ts < dataQueue[i].ts

(* Nothing that is stored or shown can be preceded by what is to come.     *)
InTime ==
    /\ QueueInTime
    /\ \A m \in Mod : \A i \in DOMAIN tables[m] : tables[m][i].mod = m /\ Past(m, tables[m][i])
    /\ \A p \in 1..Len(shown) : Past(shown[p].mod, shown[p])

(* What a step does to the queue, if it does anything. *)
LEMMA Idle ==
  ASSUME LocalInv, [Next]_vars
  PROVE  \/ \E m \in Mod : Collect(m)
         \/ Pop \/ Insert \/ SendFails
         \/ UNCHANGED <<taken, dataQueue, od, row>> /\ (pc' = "idle" <=> pc = "idle")
  <1>0. CASE UNCHANGED vars
    BY <1>0 DEF vars, clockVars, queueVars, sendVars
  <1>1. CASE Tick \/ Recreate \/ TestPeriod \/ Purge \/ CreateTable
    BY <1>1 DEF Tick, Recreate, TestPeriod, Purge, CreateTable, clockVars, queueVars, sendVars
  <1>2. CASE \/ \E m \in Mod : (\E n \in LastN : ReadStart(m, n)) \/ ReadAgain(m)
             \/ ReadEnd \/ ToolEnds
    BY <1>2 DEF ReadStart, ReadAgain, ReadEnd, ToolEnds, clockVars, queueVars, sendVars
  <1> QED  BY <1>0, <1>1, <1>2 DEF Next

(* A new sample is later than all of its collector. *)
LEMMA CollectedFacts ==
  ASSUME LocalInv, NEW m \in Mod, Collect(m)
  PROVE  /\ taken[m] < now /\ taken'[m] = now /\ now \in Nat
         /\ \A k \in Mod : taken[k] <= taken'[k] /\ taken[k] \in Nat /\ taken'[k] \in Nat
         /\ UNCHANGED <<od, pc, row>>
         /\ \/ dataQueue' = dataQueue
            \/ /\ Len(dataQueue') = Len(dataQueue) + 1
               /\ \A i \in 1..Len(dataQueue) : dataQueue'[i] = dataQueue[i]
               /\ dataQueue'[Len(dataQueue) + 1].mod = m
               /\ dataQueue'[Len(dataQueue) + 1].ts = now
  <1>1. /\ taken \in [Mod -> Nat] /\ now \in Nat /\ intv \in Nat /\ intv > 0
        /\ dataQueue \in Seq(Sample) /\ Len(dataQueue) \in Nat
    BY LocalTypes, LocalConstants DEF LocalInv, TypeOK
  <1>2. taken[m] < now
    BY <1>1 DEF Collect, Due
  <1>3. taken' = [taken EXCEPT ![m] = now] /\ UNCHANGED <<od, pc, row>>
    BY DEF Collect, sendVars
  <1>4. \A k \in Mod : taken[k] <= taken'[k] /\ taken[k] \in Nat /\ taken'[k] \in Nat
    BY <1>1, <1>2, <1>3
  <1> DEFINE s == [n |-> offered + 1, mod |-> m, ts |-> now]
  <1>5. dataQueue' = dataQueue \/ dataQueue' = Append(dataQueue, s)
    BY DEF Collect
  <1>6. s.mod = m /\ s.ts = now
    OBVIOUS
  <1>7. dataQueue \in Seq(Sample \cup {s}) /\ s \in Sample \cup {s}
    BY <1>1, SeqMonotonic
  <1> HIDE DEF s
  <1>8. /\ Len(Append(dataQueue, s)) = Len(dataQueue) + 1
        /\ \A i \in 1..Len(dataQueue) : Append(dataQueue, s)[i] = dataQueue[i]
        /\ Append(dataQueue, s)[Len(dataQueue) + 1] = s
    BY <1>1, <1>7, AppendProperties
  <1> QED  BY <1>1, <1>2, <1>3, <1>4, <1>5, <1>6, <1>8

(* What Pop takes and leaves.                                              *)
LEMMA PoppedFacts ==
  ASSUME LocalInv, Pop
  PROVE  /\ Len(dataQueue) \in Nat \ {0} /\ Len(dataQueue') = Len(dataQueue) - 1
         /\ \A i \in 1..Len(dataQueue') : dataQueue'[i] = dataQueue[i + 1] /\ i + 1 \in 1..Len(dataQueue)
         /\ od' = dataQueue[1] /\ row' = 1 /\ pc = "idle" /\ pc' = "test" /\ taken' = taken
  <1>1. dataQueue \in Seq(Sample) /\ dataQueue # <<>>
    BY DEF LocalInv, TypeOK, Pop
  <1>2. /\ Len(dataQueue) \in Nat \ {0} /\ Head(dataQueue) = dataQueue[1]
        /\ Len(Tail(dataQueue)) = Len(dataQueue) - 1
        /\ \A i \in 1..Len(Tail(dataQueue)) : Tail(dataQueue)[i] = dataQueue[i + 1]
    BY <1>1, HeadTailProperties, EmptySeq, LenProperties
  <1>3. \A i \in 1..Len(Tail(dataQueue)) : i + 1 \in 1..Len(dataQueue)
    BY <1>2
  <1> QED  BY <1>2, <1>3 DEF Pop, clockVars

(* Rows that are past stay so. *)
LEMMA PastStep ==
  ASSUME LocalInv, [Next]_vars, NEW m \in Mod, NEW r \in StoredRow, Past(m, r)
  PROVE  Past(m, r)'
  <1>t. /\ r.ts \in Nat /\ r.k \in 1..Rows /\ row \in 1..Rows /\ Rows \in Nat
        /\ Len(dataQueue) \in Nat
    BY LocalTypes, LocalConstants DEF LocalInv, StoredRow, TypeOK
  <1>1. ASSUME NEW c \in Mod, Collect(c) PROVE Past(m, r)'
    <2>1. /\ taken[c] < now /\ taken[m] <= taken'[m] /\ taken[m] \in Nat /\ taken'[m] \in Nat /\ now \in Nat
          /\ UNCHANGED <<od, pc, row>>
          /\ \/ dataQueue' = dataQueue
             \/ /\ Len(dataQueue') = Len(dataQueue) + 1
                /\ \A i \in 1..Len(dataQueue) : dataQueue'[i] = dataQueue[i]
                /\ dataQueue'[Len(dataQueue) + 1].mod = c
                /\ dataQueue'[Len(dataQueue) + 1].ts = now
      BY <1>1, CollectedFacts
    <2>2. r.ts <= taken'[m]
      BY <1>t, <2>1 DEF Past
    <2>3. ASSUME NEW i \in 1..Len(dataQueue'), dataQueue'[i].mod = m PROVE r.ts < dataQueue'[i].ts
      <3>1. CASE i \in 1..Len(dataQueue) /\ dataQueue'[i] = dataQueue[i]
        BY <2>3, <3>1 DEF Past
      <3>2. CASE i = Len(dataQueue) + 1 /\ dataQueue'[i].mod = c /\ dataQueue'[i].ts = now
        BY <1>t, <2>1, <2>3, <3>2 DEF Past
      <3> QED  BY <1>t, <2>1, <2>3, <3>1, <3>2
    <2> QED  BY <2>1, <2>2, <2>3 DEF Past
  <1>2. CASE Pop
    BY <1>2, <1>t, PoppedFacts DEF Past
  <1>3. CASE Insert
    <2>1. \/ row < Rows /\ row' = row + 1 /\ UNCHANGED <<od, pc>>
          \/ pc' = "idle"
      BY <1>3, InsertedFacts
    <2>2. UNCHANGED <<taken, dataQueue>> /\ pc = "exec"
      BY <1>3 DEF Insert, Writable, clockVars, queueVars
    <2> QED  BY <1>t, <2>1, <2>2 DEF Past
  <1>4. CASE SendFails
    <2>1. dataQueue' = <<>> /\ pc' = "idle" /\ taken' = taken
      BY <1>4 DEF SendFails, clockVars
    <2>2. Len(dataQueue') = 0
      BY <2>1, EmptySeq
    <2> QED  BY <2>1, <2>2 DEF Past
  <1>5. CASE UNCHANGED <<taken, dataQueue, od, row>> /\ (pc' = "idle" <=> pc = "idle")
    BY <1>5 DEF Past
  <1> QED  BY <1>1, <1>2, <1>3, <1>4, <1>5, Idle

(* Every step keeps the queue in order.                                    *)
LEMMA QueueStep ==
  ASSUME LocalInv, [Next]_vars, QueueInTime
  PROVE  QueueInTime'
  <1>t. /\ Len(dataQueue) \in Nat
        /\ \A i \in 1..Len(dataQueue) : dataQueue[i].ts \in Nat /\ dataQueue[i].mod \in Mod
        /\ od.ts \in Nat /\ od.mod \in Mod
    BY LocalTypes DEF LocalInv, Sample
  <1>1. ASSUME NEW c \in Mod, Collect(c) PROVE QueueInTime'
    <2>1. /\ taken[c] < now /\ taken'[c] = now /\ now \in Nat
          /\ \A k \in Mod : taken[k] <= taken'[k] /\ taken[k] \in Nat /\ taken'[k] \in Nat
          /\ UNCHANGED <<od, pc, row>>
          /\ \/ dataQueue' = dataQueue
             \/ /\ Len(dataQueue') = Len(dataQueue) + 1
                /\ \A i \in 1..Len(dataQueue) : dataQueue'[i] = dataQueue[i]
                /\ dataQueue'[Len(dataQueue) + 1].mod = c
                /\ dataQueue'[Len(dataQueue) + 1].ts = now
      BY <1>1, CollectedFacts
    <2>2. \A i \in 1..Len(dataQueue) : dataQueue[i].ts <= taken'[dataQueue[i].mod]
      BY <1>t, <2>1 DEF QueueInTime
    <2>3. pc # "idle" => od.ts <= taken'[od.mod]
      BY <1>t, <2>1 DEF QueueInTime
    <2>4. CASE dataQueue' = dataQueue
      BY <2>1, <2>2, <2>3, <2>4 DEF QueueInTime
    <2>5. CASE /\ Len(dataQueue') = Len(dataQueue) + 1
               /\ \A i \in 1..Len(dataQueue) : dataQueue'[i] = dataQueue[i]
               /\ dataQueue'[Len(dataQueue) + 1].mod = c
               /\ dataQueue'[Len(dataQueue) + 1].ts = now
      <3>1. \A i \in 1..Len(dataQueue') :
               \/ i \in 1..Len(dataQueue) /\ dataQueue'[i] = dataQueue[i]
               \/ i = Len(dataQueue) + 1 /\ dataQueue'[i].mod = c /\ dataQueue'[i].ts = now
        BY <1>t, <2>5
      <3>2. \A i \in 1..Len(dataQueue') : dataQueue'[i].ts <= taken'[dataQueue'[i].mod]
        BY <2>1, <2>2, <3>1
      <3>3. \A i \in 1..Len(dataQueue) : dataQueue[i].mod = c => dataQueue[i].ts < now
        BY <1>t, <2>1 DEF QueueInTime
      <3>4. ASSUME NEW i \in 1..Len(dataQueue'), NEW j \in 1..Len(dataQueue'), i < j,
                   dataQueue'[i].mod = dataQueue'[j].mod
            PROVE  dataQueue'[i].ts < dataQueue'[j].ts
        <4>1. i \in 1..Len(dataQueue) /\ dataQueue'[i] = dataQueue[i]
          BY <1>t, <2>5, <3>4
        <4>2. CASE j \in 1..Len(dataQueue) /\ dataQueue'[j] = dataQueue[j]
          BY <3>4, <4>1, <4>2 DEF QueueInTime
        <4>3. CASE j = Len(dataQueue) + 1 /\ dataQueue'[j].mod = c /\ dataQueue'[j].ts = now
          BY <3>3, <3>4, <4>1, <4>3
        <4> QED  BY <3>1, <4>2, <4>3
      <3>5. ASSUME pc # "idle", NEW i \in 1..Len(dataQueue'), dataQueue'[i].mod = od.mod
            PROVE  od.ts < dataQueue'[i].ts
        <4>1. CASE i \in 1..Len(dataQueue) /\ dataQueue'[i] = dataQueue[i]
          BY <3>5, <4>1 DEF QueueInTime
        <4>2. CASE i = Len(dataQueue) + 1 /\ dataQueue'[i].mod = c /\ dataQueue'[i].ts = now
          BY <1>t, <2>1, <3>5, <4>2 DEF QueueInTime
        <4> QED  BY <3>1, <4>1, <4>2
      <3> QED  BY <2>1, <2>3, <3>2, <3>4, <3>5 DEF QueueInTime
    <2> QED  BY <2>1, <2>4, <2>5
  <1>2. CASE Pop
    <2>1. /\ Len(dataQueue) \in Nat \ {0} /\ Len(dataQueue') = Len(dataQueue) - 1
          /\ \A i \in 1..Len(dataQueue') : dataQueue'[i] = dataQueue[i + 1] /\ i + 1 \in 1..Len(dataQueue)
          /\ od' = dataQueue[1] /\ pc' = "test" /\ taken' = taken
      BY <1>2, PoppedFacts
    <2>2. \A i \in 1..Len(dataQueue') : dataQueue'[i].ts <= taken'[dataQueue'[i].mod]
      BY <2>1 DEF QueueInTime
    <2>3. \A i, j \in 1..Len(dataQueue') :
             i < j /\ dataQueue'[i].mod = dataQueue'[j].mod => dataQueue'[i].ts < dataQueue'[j].ts
      <3> SUFFICES ASSUME NEW i \in 1..Len(dataQueue'), NEW j \in 1..Len(dataQueue'), i < j,
                          dataQueue'[i].mod = dataQueue'[j].mod
                   PROVE  dataQueue'[i].ts < dataQueue'[j].ts
        OBVIOUS
      <3>1. i + 1 < j + 1
        BY <2>1
      <3> QED  BY <2>1, <3>1 DEF QueueInTime
    <2>4. od'.ts <= taken'[od'.mod] /\ \A i \in 1..Len(dataQueue') :
             dataQueue'[i].mod = od'.mod => od'.ts < dataQueue'[i].ts
      <3>1. 1 \in 1..Len(dataQueue) /\ \A i \in 1..Len(dataQueue') : 1 < i + 1
        BY <2>1
      <3> QED  BY <2>1, <3>1 DEF QueueInTime
    <2> QED  BY <2>2, <2>3, <2>4 DEF QueueInTime
  <1>3. CASE Insert
    <2>1. UNCHANGED od \/ pc' = "idle"
      BY <1>3, InsertedFacts
    <2>2. UNCHANGED <<taken, dataQueue>> /\ pc = "exec"
      BY <1>3 DEF Insert, Writable, clockVars, queueVars
    <2> QED  BY <2>1, <2>2 DEF QueueInTime
  <1>4. CASE SendFails
    <2>1. dataQueue' = <<>> /\ pc' = "idle"
      BY <1>4 DEF SendFails
    <2>2. Len(dataQueue') = 0
      BY <2>1, EmptySeq
    <2> QED  BY <2>1, <2>2 DEF QueueInTime
  <1>5. CASE UNCHANGED <<taken, dataQueue, od, row>> /\ (pc' = "idle" <=> pc = "idle")
    BY <1>5 DEF QueueInTime
  <1> QED  BY <1>1, <1>2, <1>3, <1>4, <1>5, Idle

(* Where the rows of a table come from. *)
LEMMA RowsFrom ==
  ASSUME LocalInv, [Next]_vars, NEW m \in Mod, NEW i \in DOMAIN tables'[m]
  PROVE  \/ i \in DOMAIN tables[m] /\ tables'[m][i] = tables[m][i]
         \/ Insert /\ m = od.mod /\ tables'[m][i] = ThisRow
  <1>t. Table(tables[m]) /\ DOMAIN tables = Mod
    BY DEF LocalInv, TypeOK
  <1>0. CASE tables' = tables
    BY <1>0
  <1>1. CASE Insert
    <2>1. /\ ThisRow \in StoredRow /\ tables'[od.mod] = Extended(tables[od.mod], ThisRow)
          /\ \A k \in Mod : k # od.mod => tables'[k] = tables[k]
      BY <1>1, InsertedFacts
    <2>2. CASE m = od.mod
      <3> DEFINE t == tables[m]
                 r == ThisRow
      <3>1. Table(t) /\ r \in StoredRow /\ tables'[m] = Extended(t, r)
        BY <1>t, <2>1, <2>2
      <3> HIDE DEF t, r
      <3>2. /\ Table(Extended(t, r))
            /\ DOMAIN Extended(t, r) = DOMAIN t \cup {NextId(t)} /\ NextId(t) \notin DOMAIN t
            /\ \A j \in DOMAIN t : Extended(t, r)[j] = t[j] /\ j < NextId(t)
            /\ Extended(t, r)[NextId(t)] = r
            /\ NextId(t) \in Nat
            /\ \A n, k : Has(Extended(t, r), n, k) <=> Has(t, n, k) \/ (r.n = n /\ r.k = k)
        BY <3>1, ExtendedFacts, Zenon
      <3>3. \/ i \in DOMAIN t /\ tables'[m][i] = t[i]
            \/ tables'[m][i] = r
        BY <3>1, <3>2
      <3> QED  BY <1>1, <2>2, <3>1, <3>3 DEF t, r
    <2> QED  BY <2>1, <2>2
  <1>2. CASE Purge /\ tables' # tables
    <2>1. tables' = [tables EXCEPT ![od.mod] = Kept(tables[od.mod])]
      BY <1>2 DEF Purge
    <2>2. /\ DOMAIN Kept(tables[m]) \subseteq DOMAIN tables[m]
          /\ \A j \in DOMAIN Kept(tables[m]) : Kept(tables[m])[j] = tables[m][j]
      <3>1. /\ DOMAIN Kept(tables[m]) = {j \in DOMAIN tables[m] : ~(tables[m][j].ts < Cutoff)}
            /\ \A j \in DOMAIN Kept(tables[m]) : Kept(tables[m])[j] = tables[m][j]
        BY <1>t, KeptFacts
      <3> QED  BY <3>1
    <2> QED  BY <1>t, <2>1, <2>2
  <1>3. CASE Tick \/ Recreate \/ TestPeriod \/ CreateTable \/ Pop \/ SendFails
             \/ (\E k \in Mod : Collect(k)) \/ UNCHANGED vars
    BY <1>0, <1>3 DEF Tick, Recreate, TestPeriod, CreateTable, Pop, SendFails, Collect, vars, dbVars
  <1>4. CASE \/ \E k \in Mod : (\E n \in LastN : ReadStart(k, n)) \/ ReadAgain(k)
             \/ ReadEnd \/ ToolEnds
    BY <1>0, <1>4 DEF ReadStart, ReadAgain, ReadEnd, ToolEnds, dbVars
  <1> QED  BY <1>0, <1>1, <1>2, <1>3, <1>4 DEF Next

(* The first rows of a select. *)
LEMMA FirstFacts ==
  ASSUME LocalInv, NEW m \in Mod, NEW n \in LastN, ReadStart(m, n)
  PROVE  \E e \in Nat :
           /\ e <= Len(Desc(tables[m])) /\ (e = n \/ e = Len(Desc(tables[m])))
           /\ Len(shown') = e /\ shown' \in Seq(StoredRow)
           /\ \A p \in 1..e : shown'[p] = Desc(tables[m])[p]
  <1> DEFINE t == tables[m]
             e == SmallerOf(n, Len(Desc(t)))
  <1>1. Table(t) /\ n \in Nat \ {0}
    BY LocalAssumption DEF LocalInv, TypeOK
  <1>2. shown' = SubSeq(Desc(t), 1, e)
    BY DEF ReadStart
  <1> HIDE DEF t
  <1>3. Len(Desc(t)) \in Nat
    BY <1>1, DescFacts
  <1>4. e \in Nat /\ e <= Len(Desc(t)) /\ (e = n \/ e = Len(Desc(t)))
    BY <1>1, <1>3 DEF SmallerOf
  <1> HIDE DEF e
  <1>5. /\ SubSeq(Desc(t), 1, e) \in Seq(StoredRow)
        /\ Len(SubSeq(Desc(t), 1, e)) = IF 1 <= e THEN e - 1 + 1 ELSE 0
        /\ \A i \in 1..Len(SubSeq(Desc(t), 1, e)) :
               /\ SubSeq(Desc(t), 1, e)[i] = Desc(t)[1 + i - 1]
               /\ 1 + i - 1 \in 1..Len(Desc(t)) /\ 1 + i - 1 <= e
    <2>1. 1 \in Nat \ {0} /\ e \in Int
      BY <1>4
    <2> QED  BY <1>1, <1>4, <2>1, PartFacts
  <1>6. /\ Len(SubSeq(Desc(t), 1, e)) = e
        /\ \A i \in 1..e : SubSeq(Desc(t), 1, e)[i] = Desc(t)[i]
    BY <1>4, <1>5
  <1> QED  BY <1>2, <1>4, <1>5, <1>6 DEF t

(* The rows of the second select follow the ones counted as shown. *)
LEMMA AgainFacts ==
  ASSUME LocalInv, NEW m \in Mod, ReadAgain(m)
  PROVE  \E e \in Int : LET D == Desc(Older(tables[m]))
                            c == RowsAt(shown, Oldest(shown))
                            s == IF e > c THEN e - c ELSE 0
    IN /\ c \in Nat /\ e <= Len(D)
       /\ e = Len(D) \/ e = c + lastN * (RowsAt(shown, shown[1].ts) - 1)
       /\ Len(shown) \in Nat /\ Len(shown') = Len(shown) + s /\ shown' \in Seq(StoredRow)
       /\ \A p \in 1..Len(shown) : shown'[p] = shown[p]
       /\ \A q \in 1..s : shown'[Len(shown) + q] = D[c + q] /\ c + q \in 1..Len(D)
  <1> DEFINE t == tables[m]
             O == Older(t)
             D == Desc(O)
             c == RowsAt(shown, Oldest(shown))
             z == Rest(t)
  <1>1. Table(t) /\ TypeOK /\ shown \in Seq(StoredRow)
    BY DEF LocalInv, TypeOK
  <1>2. Table(O) /\ c \in Nat
    BY <1>1, OlderTable, CountFacts
  <1>3. PICK e \in Int : /\ e <= Len(D)
                         /\ e = Len(D) \/ e = c + lastN * (RowsAt(shown, shown[1].ts) - 1)
                         /\ z = SubSeq(D, c + 1, e) /\ z \in Seq(StoredRow)
    <2> HIDE DEF t
    <2> QED  BY <1>1, RestFacts
  <1>4. shown' = shown \o z
    BY DEF ReadAgain
  <1> HIDE DEF t, O, c, z
  <1>5. Len(D) \in Nat
    BY <1>2, DescFacts
  <1>6. /\ Len(SubSeq(D, c + 1, e)) = IF c + 1 <= e THEN e - (c + 1) + 1 ELSE 0
        /\ \A i \in 1..Len(SubSeq(D, c + 1, e)) :
               /\ SubSeq(D, c + 1, e)[i] = D[c + 1 + i - 1]
               /\ c + 1 + i - 1 \in 1..Len(D) /\ c + 1 + i - 1 <= e
    <2> DEFINE a == c + 1
    <2>1. a \in Nat \ {0}
      BY <1>2
    <2> HIDE DEF a
    <2>2. /\ Len(SubSeq(D, a, e)) = IF a <= e THEN e - a + 1 ELSE 0
          /\ \A i \in 1..Len(SubSeq(D, a, e)) :
               /\ SubSeq(D, a, e)[i] = D[a + i - 1]
               /\ a + i - 1 \in 1..Len(D) /\ a + i - 1 <= e
      BY <1>2, <1>3, <2>1, PartFacts
    <2> QED  BY <2>2 DEF a
  <1> HIDE DEF D
  <1>7. /\ Len(z) = IF e > c THEN e - c ELSE 0
        /\ \A q \in 1..Len(z) : z[q] = D[c + q] /\ c + q \in 1..Len(D)
    <2>1. \A q \in Int : c + 1 + q - 1 = c + q
      BY <1>2
    <2>2. Len(z) = IF e > c THEN e - c ELSE 0
      BY <1>2, <1>3, <1>6
    <2> QED  BY <1>2, <1>3, <1>6, <2>1, <2>2
  <1>8. /\ shown \o z \in Seq(StoredRow) /\ Len(shown \o z) = Len(shown) + Len(z)
        /\ \A i \in 1..(Len(shown) + Len(z)) :
              (shown \o z)[i] = IF i <= Len(shown) THEN shown[i] ELSE z[i - Len(shown)]
    BY <1>1, <1>3, ConcatProperties
  <1>9. Len(shown) \in Nat /\ Len(z) \in Nat
    BY <1>1, <1>3, LenProperties
  <1>10. /\ \A p \in 1..Len(shown) : shown'[p] = shown[p]
         /\ \A q \in 1..Len(z) : shown'[Len(shown) + q] = z[q]
    BY <1>4, <1>8, <1>9
  <1> QED  BY <1>2, <1>3, <1>4, <1>7, <1>8, <1>9, <1>10 DEF D, O, c, t

(* Where the shown rows come from. *)
LEMMA ShownFrom ==
  ASSUME LocalInv, [Next]_vars, NEW p \in 1..Len(shown')
  PROVE  /\ shown'[p] \in StoredRow
         /\ \/ p \in 1..Len(shown) /\ shown'[p] = shown[p]
            \/ \E m \in Mod : \E i \in DOMAIN tables[m] : shown'[p] = tables[m][i]
  <1>0. CASE shown' = shown
    <2>1. shown \in Seq(StoredRow)
      BY DEF LocalInv, TypeOK
    <2> QED  BY <1>0, <2>1, ElementOfSeq
  <1>1. CASE Tick \/ Recreate \/ TestPeriod \/ Purge \/ CreateTable \/ Pop \/ Insert \/ SendFails
             \/ (\E k \in Mod : Collect(k)) \/ ReadEnd \/ UNCHANGED vars
    BY <1>0, <1>1 DEF Tick, Recreate, TestPeriod, Purge, CreateTable, Pop, Insert, SendFails,
         Collect, ReadEnd, vars, toolVars
  <1>2. CASE ToolEnds
    <2>1. Len(shown') = 0
      BY <1>2, EmptySeq DEF ToolEnds
    <2> QED  BY <2>1
  <1>3. ASSUME NEW m \in Mod, NEW n \in LastN, ReadStart(m, n)
        PROVE  shown'[p] \in StoredRow /\ \E i \in DOMAIN tables[m] : shown'[p] = tables[m][i]
    <2>1. PICK e \in Nat : /\ e <= Len(Desc(tables[m])) /\ Len(shown') = e
                           /\ \A q \in 1..e : shown'[q] = Desc(tables[m])[q]
      BY <1>3, FirstFacts
    <2>2. Table(tables[m])
      BY DEF LocalInv, TypeOK
    <2>3. /\ Len(Desc(tables[m])) = Cardinality(DOMAIN tables[m]) /\ Cardinality(DOMAIN tables[m]) \in Nat
          /\ \A q \in 1..Cardinality(DOMAIN tables[m]) :
               \E i \in DOMAIN tables[m] : Desc(tables[m])[q] = tables[m][i]
      BY <2>2, DescFacts
    <2>4. PICK i \in DOMAIN tables[m] : shown'[p] = tables[m][i]
      BY <2>1, <2>3
    <2> QED  BY <2>2, <2>4 DEF Table
  <1>4. ASSUME NEW m \in Mod, ReadAgain(m)
        PROVE  /\ shown'[p] \in StoredRow
               /\ \/ p \in 1..Len(shown) /\ shown'[p] = shown[p]
                  \/ \E i \in DOMAIN tables[m] : shown'[p] = tables[m][i]
    <2> DEFINE O == Older(tables[m])
               c == RowsAt(shown, Oldest(shown))
    <2>1. PICK e \in Int :
             /\ c \in Nat /\ e <= Len(Desc(O)) /\ Len(shown) \in Nat
             /\ Len(shown') = Len(shown) + IF e > c THEN e - c ELSE 0
             /\ shown' \in Seq(StoredRow)
             /\ \A q \in 1..Len(shown) : shown'[q] = shown[q]
             /\ \A q \in 1..(IF e > c THEN e - c ELSE 0) :
                   shown'[Len(shown) + q] = Desc(O)[c + q] /\ c + q \in 1..Len(Desc(O))
      BY <1>4, AgainFacts
    <2>2. shown'[p] \in StoredRow
      BY <2>1, ElementOfSeq
    <2>3. Table(tables[m])
      BY DEF LocalInv, TypeOK
    <2>4. Table(O) /\ DOMAIN O \subseteq DOMAIN tables[m] /\ \A i \in DOMAIN O : O[i] = tables[m][i]
      <3>0. Table(O)
        BY <2>3, OlderTable
      <3>1. /\ DOMAIN O = {i \in DOMAIN tables[m] : tables[m][i].ts <= Oldest(shown)}
            /\ \A i \in DOMAIN O : O[i] = tables[m][i]
        BY <2>3, OlderFacts
      <3> QED  BY <3>0, <3>1
    <2>5. \A q \in 1..Len(Desc(O)) : \E i \in DOMAIN O : Desc(O)[q] = O[i]
      <3> HIDE DEF O
      <3> QED  BY <2>4, DescFacts
    <2> HIDE DEF O, c
    <2>6. CASE p \notin 1..Len(shown)
      <3> DEFINE q == p - Len(shown)
      <3>1. q \in 1..(IF e > c THEN e - c ELSE 0) /\ p = Len(shown) + q
        BY <2>1, <2>6
      <3>2. shown'[p] = Desc(O)[c + q] /\ c + q \in 1..Len(Desc(O))
        BY <2>1, <3>1
      <3> QED  BY <2>2, <2>4, <2>5, <3>2
    <2> QED  BY <2>1, <2>2, <2>6
  <1> QED  BY <1>0, <1>1, <1>2, <1>3, <1>4 DEF Next

(* Every step keeps the times in order. *)
LEMMA InTimeStep ==
  ASSUME LocalInv, [Next]_vars, InTime
  PROVE  InTime'
  <1>1. QueueInTime'
    BY QueueStep DEF InTime
  <1>2. ASSUME NEW m \in Mod, NEW i \in DOMAIN tables'[m]
        PROVE  tables'[m][i].mod = m /\ \A r : r = tables'[m][i] => Past(m, r)'
    <2>1. CASE i \in DOMAIN tables[m] /\ tables'[m][i] = tables[m][i]
      <3>1. /\ tables[m][i].mod = m /\ tables[m][i] \in StoredRow
            /\ \A r : r = tables[m][i] => Past(m, r)
        BY <2>1 DEF InTime, LocalInv, TypeOK, Table
      <3>2. ASSUME NEW r, r = tables'[m][i] PROVE Past(m, r)'
        <4>1. r \in StoredRow /\ Past(m, r)
          BY <2>1, <3>1, <3>2
        <4> QED  BY <4>1, PastStep
      <3> QED  BY <2>1, <3>1, <3>2
    <2>2. CASE Insert /\ m = od.mod /\ tables'[m][i] = ThisRow
      <3>1. /\ ThisRow.n = od.n /\ ThisRow.k = row /\ ThisRow.ts = od.ts /\ ThisRow.mod = od.mod
            /\ pc = "exec" /\ row \in 1..Rows
            /\ \/ row' = row + 1 /\ UNCHANGED <<od, pc>>
               \/ pc' = "idle"
        BY <2>2, InsertedFacts
      <3>2. UNCHANGED <<taken, dataQueue>>
        BY <2>2 DEF Insert, clockVars, queueVars
      <3>3. /\ od.ts <= taken[od.mod]
            /\ \A j \in 1..Len(dataQueue) : dataQueue[j].mod = od.mod => od.ts < dataQueue[j].ts
        BY <3>1 DEF InTime, QueueInTime
      <3>4. row < row + 1
        BY <3>1
      <3>5. ASSUME NEW r, r = ThisRow PROVE Past(m, r)'
        BY <2>2, <3>1, <3>2, <3>3, <3>4, <3>5 DEF Past
      <3> QED  BY <2>2, <3>1, <3>5
    <2> QED  BY <2>1, <2>2, RowsFrom
  <1>3. ASSUME NEW p \in 1..Len(shown') PROVE \A r : r = shown'[p] => Past(r.mod, r)'
    <2> SUFFICES ASSUME NEW r, r = shown'[p] PROVE Past(r.mod, r)'
      OBVIOUS
    <2>1. /\ r \in StoredRow
          /\ \/ p \in 1..Len(shown) /\ r = shown[p]
             \/ \E m \in Mod : \E i \in DOMAIN tables[m] : r = tables[m][i]
      BY ShownFrom
    <2>2. r.mod \in Mod
      BY <2>1 DEF StoredRow
    <2>3. Past(r.mod, r)
      BY <2>1 DEF InTime
    <2> DEFINE m == r.mod
    <2>4. m \in Mod /\ Past(m, r)
      BY <2>2, <2>3
    <2> HIDE DEF m
    <2>5. Past(m, r)'
      BY <2>1, <2>4, PastStep
    <2> QED  BY <2>5 DEF m
  <1>4. \A m \in Mod : \A i \in DOMAIN tables'[m] :
           tables'[m][i].mod = m /\ Past(m, tables[m][i])'
    BY <1>2 DEF Past
  <1>5. \A p \in 1..Len(shown') : Past(shown[p].mod, shown[p])'
    BY <1>3 DEF Past
  <1> QED  BY <1>1, <1>4, <1>5 DEF InTime

-----------------------------------------------------------------------------
(* The order in which rows are printed, and in which they were stored.     *)
Precedes(r, s) ==
    \/ r.ts > s.ts
    \/ r.ts = s.ts /\ (r.n < s.n \/ (r.n = s.n /\ r.k < s.k))

(* What is shown is in order and of one collector. *)
Listing ==
    /\ tpc = "idle" => shown = <<>>
    /\ tpc \in {"between", "shown"} => shown # <<>>
    /\ \A p, q \in 1..Len(shown) : p < q => Precedes(shown[p], shown[q])
    /\ \A p \in 1..Len(shown) : shown[p].mod = shown[1].mod

(* No row older than the newest one is left out before the end, which is   *)
(* not reached before lastN rows.                                          *)
NoneLeftOut(t) ==
    \A i \in DOMAIN t :
        t[i].ts < shown[1].ts /\ (t[i].ts > Oldest(shown) \/ Len(shown) < lastN)
        => t[i] \in Range(shown)

(* Between the two selects: where the table still has a row it has all     *)
(* that were shown and are not older, and what is new comes behind them.   *)
StillThere(t) ==
    \A i \in DOMAIN t : \A p \in 1..Len(shown) :
        /\ t[i].ts <= shown[p].ts => shown[p] \in Range(t)
        /\ t[i].ts = shown[p].ts /\ t[i] \notin Range(shown) => Precedes(shown[p], t[i])

(* All of that, for as long as something is shown.                         *)
Selected ==
    /\ Listing
    /\ shown # <<>> => /\ NoneLeftOut(tables[shown[1].mod])
                       /\ tpc \in {"read", "between"} => StillThere(tables[shown[1].mod])

(* The agent and its reader.                                               *)
ToolInv == LocalInv /\ InTime /\ Selected

(* What is shown are rows.                                                 *)
LEMMA ShownTypes ==
  ASSUME TypeOK
  PROVE  /\ Len(shown) \in Nat /\ lastN \in Nat
         /\ \A p \in 1..Len(shown) :
               /\ shown[p] \in StoredRow /\ shown[p].ts \in Nat /\ shown[p].n \in Nat
               /\ shown[p].k \in Nat /\ shown[p].mod \in Mod
         /\ shown # <<>> => 1 \in 1..Len(shown) /\ Len(shown) \in 1..Len(shown)
         /\ DOMAIN shown = 1..Len(shown)
  <1>1. shown \in Seq(StoredRow) /\ lastN \in Nat
    BY DEF TypeOK
  <1>2. Len(shown) \in Nat /\ DOMAIN shown = 1..Len(shown) /\ \A p \in 1..Len(shown) : shown[p] \in StoredRow
    BY <1>1, ElementOfSeq, LenProperties
  <1>3. shown # <<>> => Len(shown) # 0
    BY <1>1, EmptySeq
  <1>4. \A p \in 1..Len(shown) : shown[p].ts \in Nat /\ shown[p].n \in Nat
               /\ shown[p].k \in Nat /\ shown[p].mod \in Mod
    BY <1>2 DEF StoredRow, Mod
  <1> QED  BY <1>1, <1>2, <1>3, <1>4

(* Two rows of a table that are equal are one row. *)
LEMMA RowsDiffer ==
  ASSUME LocalInv, NEW m \in Mod
  PROVE  /\ \A i, j \in DOMAIN tables[m] : tables[m][i] = tables[m][j] => i = j
         /\ \A i, j \in DOMAIN tables[m] :
               Listed(tables[m], i, j) => Precedes(tables[m][i], tables[m][j])
         /\ \A i, j \in DOMAIN tables[m] :
               tables[m][i].ts = tables[m][j].ts /\ Precedes(tables[m][i], tables[m][j]) => i < j
  <1> DEFINE t == tables[m]
  <1>1. /\ \A i, j \in DOMAIN t : i < j => t[i].n < t[j].n \/ (t[i].n = t[j].n /\ t[i].k < t[j].k)
        /\ \A i \in DOMAIN t : i \in Nat /\ t[i].n \in Nat /\ t[i].k \in Nat /\ t[i].ts \in Nat
    BY DEF LocalInv, Whole, TypeOK, Table, StoredRow
  <1>2. \A i, j \in DOMAIN t : i < j \/ i = j \/ j < i
    BY <1>1
  <1> HIDE DEF t
  <1>3. \A i, j \in DOMAIN t : t[i] = t[j] => i = j
    BY <1>1, <1>2
  <1>4. \A i, j \in DOMAIN t : Listed(t, i, j) => Precedes(t[i], t[j])
    BY <1>1 DEF Listed, Precedes
  <1>5. \A i, j \in DOMAIN t : t[i].ts = t[j].ts /\ Precedes(t[i], t[j]) => i < j
    BY <1>1, <1>2 DEF Precedes
  <1> QED  BY <1>3, <1>4, <1>5 DEF t

(* Rows that are listed before all others are the first ones. *)
LEMMA FirstRanks ==
  ASSUME NEW t, Table(t), NEW A \in SUBSET DOMAIN t,
         \A i \in A : \A j \in DOMAIN t \ A : Listed(t, i, j)
  PROVE  \A i \in DOMAIN t : i \in A <=> Rank(t, i) <= Cardinality(A)
  <1>0. /\ \A i \in DOMAIN t : i \in Nat /\ t[i].ts \in Nat
        /\ IsFiniteSet(DOMAIN t) /\ IsFiniteSet(A) /\ Cardinality(A) \in Nat
    BY FS_Subset, FS_CardinalityType DEF Table, StoredRow
  <1>1. ASSUME NEW i \in DOMAIN t PROVE IsFiniteSet(UpTo(t, i)) /\ Rank(t, i) \in Nat
    <2>1. UpTo(t, i) \in SUBSET DOMAIN t
      BY DEF UpTo
    <2> QED  BY <1>0, <2>1, FS_Subset, FS_CardinalityType DEF Rank
  <1>2. ASSUME NEW i \in A PROVE Rank(t, i) <= Cardinality(A)
    <2>1. \A j \in DOMAIN t \ A : j \notin UpTo(t, i)
      BY <1>0 DEF UpTo, Listed
    <2>2. UpTo(t, i) \in SUBSET A
      BY <2>1 DEF UpTo
    <2> QED  BY <1>0, <2>2, FS_Subset DEF Rank
  <1>3. ASSUME NEW j \in DOMAIN t \ A PROVE ~(Rank(t, j) <= Cardinality(A))
    <2>1. A \cup {j} \in SUBSET UpTo(t, j)
      <3>1. \A i \in A : Listed(t, i, j) /\ i \in DOMAIN t
        OBVIOUS
      <3> QED  BY <1>0, <3>1 DEF UpTo, Listed
    <2>2. Cardinality(A \cup {j}) = Cardinality(A) + 1
      BY <1>0, FS_AddElement
    <2>3. Cardinality(A \cup {j}) <= Cardinality(UpTo(t, j))
      BY <1>1, <2>1, FS_Subset
    <2>4. Cardinality(UpTo(t, j)) \in Nat
      BY <1>1 DEF Rank
    <2> QED  BY <1>0, <2>2, <2>3, <2>4 DEF Rank
  <1> QED  BY <1>2, <1>3

(* The first select shows the newest rows. *)
LEMMA ReadStartSelects ==
  ASSUME LocalInv, InTime, NEW m \in Mod, NEW n \in LastN, ReadStart(m, n)
  PROVE  Selected'
  <1> DEFINE t == tables[m]
             D == Desc(t)
  <1>1. PICK e \in Nat : /\ e <= Len(D) /\ (e = n \/ e = Len(D))
                         /\ Len(shown') = e /\ shown' \in Seq(StoredRow)
                         /\ \A p \in 1..e : shown'[p] = D[p]
    BY FirstFacts
  <1>2. tables' = tables /\ lastN' = n /\ tpc' = "read"
    BY DEF ReadStart, dbVars
  <1>3. /\ Table(t) /\ \A i \in DOMAIN t : t[i].mod = m /\ t[i].ts \in Nat /\ i \in Nat
    BY DEF LocalInv, TypeOK, InTime, Table, StoredRow
  <1>4. \A i, j \in DOMAIN t : Listed(t, i, j) => Precedes(t[i], t[j])
    BY RowsDiffer
  <1>5. /\ Len(D) = Cardinality(DOMAIN t) /\ Len(D) \in Nat
        /\ \A i \in DOMAIN t : Rank(t, i) \in 1..Len(D) /\ D[Rank(t, i)] = t[i]
        /\ \A p \in 1..Len(D) : \E i \in DOMAIN t : Rank(t, i) = p /\ D[p] = t[i]
        /\ \A i, j \in DOMAIN t : Rank(t, i) < Rank(t, j) => Listed(t, i, j)
    <2> HIDE DEF t
    <2> QED  BY <1>3, DescFacts
  <1> HIDE DEF D, t
  <1>6. \A p \in 1..e : \E i \in DOMAIN t : Rank(t, i) = p /\ shown'[p] = t[i]
    BY <1>1, <1>5
  <1>7. \A p, q \in 1..e : p < q => Precedes(shown'[p], shown'[q])
    BY <1>4, <1>5, <1>6
  <1>8. \A p \in 1..e : shown'[p].mod = m
    BY <1>3, <1>6
  <1>9. Listing'
    <2>1. \A p \in 1..e : 1 \in 1..e
      OBVIOUS
    <2> QED  BY <1>1, <1>2, <1>7, <1>8, <2>1 DEF Listing
  <1>10. ASSUME shown' # <<>>
         PROVE  shown'[1].mod = m /\ NoneLeftOut(t)' /\ StillThere(t)'
    <2>1. e \in 1..e /\ 1 \in 1..e
      BY <1>1, <1>10, EmptySeq
    <2>2. t' = t /\ DOMAIN shown' = 1..e
      BY <1>1, <1>2 DEF t
    <2>3. \A i \in DOMAIN t : Rank(t, i) <= e => t[i] \in Range(shown')
      <3> SUFFICES ASSUME NEW i \in DOMAIN t, Rank(t, i) <= e PROVE t[i] \in Range(shown')
        OBVIOUS
      <3>1. Rank(t, i) \in 1..e /\ shown'[Rank(t, i)] = t[i]
        BY <1>1, <1>5
      <3> QED  BY <2>2, <3>1 DEF Range
    <2>4. ASSUME NEW i \in DOMAIN t, ~(Rank(t, i) <= e), NEW p \in 1..e
          PROVE  \E j \in DOMAIN t : shown'[p] = t[j] /\ Listed(t, j, i)
      <3>1. PICK j \in DOMAIN t : Rank(t, j) = p /\ shown'[p] = t[j]
        BY <1>6
      <3>2. Rank(t, j) < Rank(t, i)
        BY <1>1, <1>5, <2>4, <3>1
      <3> QED  BY <1>5, <3>1, <3>2
    <2>5. ASSUME NEW i \in DOMAIN t, t[i] \notin Range(shown')
          PROVE  ~(t[i].ts > Oldest(shown')) /\ ~(Len(shown') < lastN')
      <3>1. ~(Rank(t, i) <= e)
        BY <2>3, <2>5
      <3>2. PICK j \in DOMAIN t : shown'[e] = t[j] /\ Listed(t, j, i)
        BY <2>1, <2>4, <3>1
      <3>3. ~(t[i].ts > Oldest(shown'))
        BY <1>1, <1>3, <3>2 DEF Listed, Oldest
      <3>4. e # Len(D)
        BY <1>5, <3>1
      <3> QED  BY <1>1, <1>2, <3>3, <3>4
    <2>6. NoneLeftOut(t)'
      BY <2>2, <2>5 DEF NoneLeftOut
    <2>7. \A p \in 1..e : shown'[p] \in Range(t)
      BY <1>6 DEF Range
    <2>8. ASSUME NEW i \in DOMAIN t, NEW p \in 1..e, t[i] \notin Range(shown')
          PROVE  Precedes(shown'[p], t[i])
      <3>1. ~(Rank(t, i) <= e)
        BY <2>3, <2>8
      <3> QED  BY <1>4, <2>4, <3>1
    <2>9. StillThere(t)'
      BY <1>1, <2>2, <2>7, <2>8 DEF StillThere
    <2> QED  BY <1>8, <2>1, <2>6, <2>9
  <1>11. shown' # <<>> => /\ NoneLeftOut(tables[shown[1].mod])'
                          /\ StillThere(tables[shown[1].mod])'
    BY <1>10, <1>2 DEF t
  <1> QED  BY <1>9, <1>11 DEF Selected

(* Of the rows of the oldest time that is shown, those shown come first,   *)
(* and are as many as are counted.                                         *)
LEMMA CountedFacts ==
  ASSUME LocalInv, InTime, Selected, tpc = "between", NEW t, t = tables[shown[1].mod],
         DOMAIN Older(t) # {}
  PROVE  LET O == Older(t)
             c == RowsAt(shown, Oldest(shown))
         IN \A i \in DOMAIN O : O[i] \in Range(shown) <=> Rank(O, i) <= c
  <1> DEFINE o == Oldest(shown)
             O == Older(t)
             A == {i \in DOMAIN O : O[i] \in Range(shown)}
             P == {p \in 1..Len(shown) : shown[p].ts = o}
             last == Len(shown)
  <1>0. shown # <<>> /\ StillThere(t) /\ Listing
    BY DEF Selected, Listing
  <1>s. /\ last \in Nat /\ last \in 1..last /\ 1 \in 1..last /\ DOMAIN shown = 1..last
        /\ \A p \in 1..last : /\ shown[p] \in StoredRow /\ shown[p].ts \in Nat /\ shown[p].n \in Nat
                              /\ shown[p].k \in Nat /\ shown[p].mod \in Mod
    BY <1>0, ShownTypes DEF LocalInv
  <1>m. shown[1].mod \in Mod
    BY <1>s
  <1>t. Table(t) /\ \A i \in DOMAIN t : t[i].ts \in Nat
    BY <1>m, SMTT(20) DEF LocalInv, TypeOK, Table, StoredRow
  <1>O. /\ Table(O)
        /\ \A i : /\ i \in DOMAIN O <=> i \in DOMAIN t /\ t[i].ts <= o
                  /\ i \in DOMAIN O => O[i] = t[i]
    BY <1>t, OlderTable, OlderRow
  <1>d. /\ \A i, j \in DOMAIN t : t[i] = t[j] => i = j
        /\ \A i, j \in DOMAIN t : t[i].ts = t[j].ts /\ Precedes(t[i], t[j]) => i < j
    BY <1>m, RowsDiffer
  <1>o. o \in Nat /\ \A p \in 1..last : o <= shown[p].ts
    <2>1. o = shown[last].ts
      BY DEF Oldest
    <2>2. ASSUME NEW p \in 1..last, p # last PROVE o <= shown[p].ts
      <3>1. Precedes(shown[p], shown[last])
        BY <1>0, <1>s, <2>2 DEF Listing
      <3> QED  BY <1>s, <2>1, <3>1 DEF Precedes
    <2>3. o \in Nat /\ o <= shown[last].ts
      BY <1>s, <2>1
    <2>4. ASSUME NEW p \in 1..last PROVE o <= shown[p].ts
      BY <2>2, <2>3
    <2> QED  BY <2>3, <2>4
  <1>r. \A p \in 1..last : \E i \in DOMAIN t : shown[p] = t[i]
    <2> SUFFICES ASSUME NEW p \in 1..last PROVE shown[p] \in Range(t)
      BY DEF Range
    <2>1. PICK i \in DOMAIN O : TRUE
      OBVIOUS
    <2>2. i \in DOMAIN t /\ t[i].ts <= shown[p].ts
      BY <1>O, <1>o, <1>s, <1>t, <2>1
    <2> QED  BY <1>0, <2>2 DEF StillThere
  <1> HIDE DEF O, o, last
  <1>a. \A i \in A : t[i].ts = o /\ \E p \in 1..last : t[i] = shown[p] /\ p \in P
    <2> SUFFICES ASSUME NEW i \in A PROVE t[i].ts = o /\ \E p \in 1..last : t[i] = shown[p] /\ p \in P
      OBVIOUS
    <2>1. i \in DOMAIN O /\ O[i] = t[i] /\ t[i] \in Range(shown) /\ i \in DOMAIN t /\ t[i].ts <= o
      BY <1>O
    <2>2. PICK p \in 1..last : t[i] = shown[p]
      BY <1>s, <2>1 DEF Range
    <2>3. t[i].ts = o
      BY <1>o, <1>t, <2>1, <2>2
    <2> QED  BY <1>s, <2>2, <2>3 DEF last
  <1>1. \A i \in A : \A j \in DOMAIN O \ A : Listed(O, i, j)
    <2> SUFFICES ASSUME NEW i \in A, NEW j \in DOMAIN O \ A PROVE Listed(O, i, j)
      OBVIOUS
    <2>1. /\ i \in DOMAIN t /\ j \in DOMAIN t /\ O[i] = t[i] /\ O[j] = t[j] /\ t[i].ts = o
          /\ t[j].ts <= o /\ t[j].ts \in Nat /\ t[j] \notin Range(shown)
      BY <1>O, <1>a, <1>t
    <2>2. CASE t[j].ts # o
      BY <1>o, <2>1, <2>2 DEF Listed
    <2>3. CASE t[j].ts = o
      <3>1. PICK p \in 1..last : t[i] = shown[p]
        BY <1>a
      <3>2. Precedes(shown[p], t[j])
        BY <1>0, <2>1, <2>3, <3>1 DEF StillThere, last
      <3>3. i < j
        BY <1>d, <2>1, <2>3, <3>1, <3>2
      <3> QED  BY <2>1, <2>3, <3>3 DEF Listed
    <2> QED  BY <2>2, <2>3
  <1>2. A \in SUBSET DOMAIN O
    OBVIOUS
  <1>3. \A i \in DOMAIN O : i \in A <=> Rank(O, i) <= Cardinality(A)
    <2> HIDE DEF A
    <2> QED  BY <1>O, <1>1, <1>2, FirstRanks
  <1>4. Cardinality(A) = Cardinality(P)
    <2> DEFINE f == [p \in P |-> CHOOSE i \in DOMAIN t : shown[p] = t[i]]
    <2>1. \A p \in P : f[p] \in DOMAIN t /\ shown[p] = t[f[p]]
      <3> SUFFICES ASSUME NEW p \in P PROVE f[p] \in DOMAIN t /\ shown[p] = t[f[p]]
        OBVIOUS
      <3>1. \E i \in DOMAIN t : shown[p] = t[i]
        BY <1>r DEF last
      <3> QED  BY <3>1
    <2>2. f \in [P -> A]
      <3> SUFFICES ASSUME NEW p \in P PROVE f[p] \in A
        OBVIOUS
      <3>1. shown[p] \in Range(shown) /\ shown[p].ts = o
        BY <1>s DEF Range, last
      <3>2. f[p] \in DOMAIN O /\ O[f[p]] = shown[p]
        <4>1. PICK i : i = f[p]
          OBVIOUS
        <4>2. i \in DOMAIN t /\ t[i] = shown[p]
          BY <2>1, <4>1
        <4>o. o <= o
          BY <1>o
        <4>3. i \in DOMAIN O /\ O[i] = shown[p]
          BY <1>O, <3>1, <4>2, <4>o
        <4> QED  BY <4>1, <4>3
      <3> QED  BY <3>1, <3>2
    <2>3. \A p, q \in P : f[p] = f[q] => p = q
      <3> SUFFICES ASSUME NEW p \in P, NEW q \in P, f[p] = f[q], p # q PROVE FALSE
        OBVIOUS
      <3>1. shown[p] = shown[q] /\ p \in 1..last /\ q \in 1..last
        BY <2>1 DEF last
      <3>2. p < q \/ q < p
        BY <1>s, <3>1
      <3>3. Precedes(shown[p], shown[q]) \/ Precedes(shown[q], shown[p])
        BY <1>0, <3>1, <3>2 DEF Listing, last
      <3> QED  BY <1>s, <3>1, <3>3 DEF Precedes
    <2>4. \A i \in A : \E p \in P : f[p] = i
      <3> SUFFICES ASSUME NEW i \in A PROVE \E p \in P : f[p] = i
        OBVIOUS
      <3>1. PICK p \in P : t[i] = shown[p]
        BY <1>a
      <3>2. i \in DOMAIN t
        BY <1>O
      <3> QED  BY <1>d, <2>1, <3>1, <3>2
    <2> HIDE DEF f, A, P
    <2>5. f \in Bijection(P, A)
      BY <2>2, <2>3, <2>4 DEF Bijection, Injection, Surjection, IsInjective
    <2>6. IsFiniteSet(P)
      <3>1. P \in SUBSET (1..last) /\ IsFiniteSet(1..last)
        BY <1>s, FS_Interval DEF P, last
      <3> QED  BY <3>1, FS_Subset
    <2>7. ExistsBijection(P, A)
      BY <2>5 DEF ExistsBijection
    <2> QED  BY <2>6, <2>7, FS_Bijection
  <1>5. Cardinality(P) = RowsAt(shown, Oldest(shown))
    BY DEF RowsAt, o
  <1>6. \A i \in DOMAIN O : O[i] \in Range(shown) <=> i \in A
    OBVIOUS
  <1> QED  BY <1>3, <1>4, <1>5, <1>6 DEF O

(* A positive multiple is at least the number itself.                      *)
LEMMA AtLeastOnce ==
  ASSUME NEW a \in Nat, NEW b \in Int, a * b > 0
  PROVE  a * b >= a
  <1>1. CASE b <= 0
    <2>1. a * b <= 0
      BY <1>1
    <2> QED  BY <2>1
  <1>2. CASE b >= 1
    <2>1. a * b = a + a * (b - 1) /\ a * (b - 1) >= 0
      BY <1>2
    <2> QED  BY <2>1
  <1> QED  BY <1>1, <1>2

(* The second select goes on where the first one ended. *)
LEMMA ReadAgainSelects ==
  ASSUME LocalInv, InTime, Selected, NEW m \in Mod, ReadAgain(m)
  PROVE  Selected'
  <1> DEFINE t == tables[m]
             O == Older(t)
             D == Desc(O)
             o == Oldest(shown)
             c == RowsAt(shown, o)
             L == lastN * (RowsAt(shown, shown[1].ts) - 1)
             last == Len(shown)
  <1>0. /\ tpc = "between" /\ shown[1].mod = m /\ tpc' = "again" /\ tables' = tables /\ lastN' = lastN
        /\ shown # <<>> /\ Listing /\ NoneLeftOut(t) /\ StillThere(t)
    BY DEF ReadAgain, Selected, Listing, dbVars
  <1>s. /\ last \in Nat /\ last \in 1..last /\ 1 \in 1..last /\ DOMAIN shown = 1..last
        /\ \A p \in 1..last : shown[p] \in StoredRow /\ shown[p].ts \in Nat
        /\ lastN \in Nat
    BY <1>0, ShownTypes DEF LocalInv
  <1>t. /\ Table(t) /\ \A i \in DOMAIN t : t[i].ts \in Nat /\ t[i].mod = m
    BY DEF LocalInv, TypeOK, Table, StoredRow, InTime
  <1>O. /\ Table(O) /\ DOMAIN O = {i \in DOMAIN t : t[i].ts <= o}
        /\ \A i \in DOMAIN O : O[i] = t[i]
    <2>1. Table(O)
      BY <1>t, OlderTable
    <2>2. /\ DOMAIN O = {j \in DOMAIN t : t[j].ts <= o}
          /\ \A j \in DOMAIN O : O[j] = t[j]
      BY <1>t, OlderFacts
    <2> QED  BY <2>1, <2>2
  <1>c. PICK e \in Int : LET s == IF e > c THEN e - c ELSE 0 IN
           /\ c \in Nat /\ e <= Len(D) /\ (e = Len(D) \/ e = c + L)
           /\ Len(shown') = last + s /\ shown' \in Seq(StoredRow)
           /\ \A p \in 1..last : shown'[p] = shown[p]
           /\ \A q \in 1..s : shown'[last + q] = D[c + q] /\ c + q \in 1..Len(D)
    BY AgainFacts
  <1>d. /\ Len(D) = Cardinality(DOMAIN O) /\ Len(D) \in Nat
        /\ \A i \in DOMAIN O : Rank(O, i) \in 1..Len(D) /\ D[Rank(O, i)] = O[i]
        /\ \A p \in 1..Len(D) : \E i \in DOMAIN O : Rank(O, i) = p /\ D[p] = O[i]
        /\ \A i, j \in DOMAIN O : Rank(O, i) < Rank(O, j) => Listed(O, i, j)
    <2> HIDE DEF O
    <2> QED  BY <1>O, DescFacts
  <1>r. \A i, j \in DOMAIN t : Listed(t, i, j) => Precedes(t[i], t[j])
    BY RowsDiffer
  <1>o. o \in Nat /\ o = shown[last].ts /\ \A p \in 1..last : o <= shown[p].ts
    <2>1. o = shown[last].ts /\ o \in Nat /\ o <= o
      BY <1>s DEF Oldest
    <2>2. ASSUME NEW p \in 1..last, p # last PROVE o <= shown[p].ts
      <3>0. p < last
        <4>1. last \in Nat
          BY <1>s
        <4> HIDE DEF last
        <4> QED  BY <2>2, <4>1
      <3>1. Precedes(shown[p], shown[last])
        BY <1>0, <1>s, <3>0 DEF Listing
      <3> QED  BY <1>s, <2>1, <3>1 DEF Precedes
    <2>3. ASSUME NEW p \in 1..last PROVE o <= shown[p].ts
      BY <2>1, <2>2
    <2> QED  BY <2>1, <2>3
  <1>1. CASE ~(e > c)
    <2>1. Len(shown') = last
      BY <1>1, <1>c, <1>s
    <2>2. shown \in Seq(StoredRow)
      BY DEF LocalInv, TypeOK
    <2>3. shown' = shown
      <3> HIDE DEF c, L, D, last
      <3> QED  BY <1>c, <2>1, <2>2, SeqEqual DEF last
    <2>4. Listing'
      BY <1>0, <2>3 DEF Listing
    <2>5. NoneLeftOut(t)'
      BY <1>0, <2>3 DEF NoneLeftOut
    <2> QED  BY <1>0, <2>3, <2>4, <2>5 DEF Selected
  <1>2. CASE e > c
    <2>1. /\ Len(shown') = last + (e - c) /\ e - c \in Nat /\ c \in Nat /\ e <= Len(D)
          /\ DOMAIN shown' = 1..(last + (e - c))
          /\ \A q \in 1..(e - c) : shown'[last + q] = D[c + q] /\ c + q \in 1..Len(D)
      <3>1. shown' \in Seq(StoredRow) /\ Len(shown') = last + (e - c) /\ e - c \in Nat
        BY <1>2, <1>c
      <3>2. DOMAIN shown' = 1..(last + (e - c))
        BY <3>1, LenProperties
      <3> QED  BY <1>2, <1>c, <3>1, <3>2
    <2>2. DOMAIN O # {}
      <3>1. e - c \in 1..(e - c)
        BY <1>2, <2>1
      <3> QED  BY <1>d, <2>1, <3>1
    <2>3. \A i \in DOMAIN O : O[i] \in Range(shown) <=> Rank(O, i) <= c
      BY <1>0, <2>2, CountedFacts
    <2> HIDE DEF O, D, c, L, last, o
    <2>4. \A q \in 1..(e - c) : \E j \in DOMAIN O :
             /\ Rank(O, j) = c + q /\ shown'[last + q] = t[j] /\ t[j] \notin Range(shown)
             /\ j \in DOMAIN t /\ t[j].ts <= o
      <3> SUFFICES ASSUME NEW q \in 1..(e - c)
                   PROVE  \E j \in DOMAIN O :
             /\ Rank(O, j) = c + q /\ shown'[last + q] = t[j] /\ t[j] \notin Range(shown)
             /\ j \in DOMAIN t /\ t[j].ts <= o
        OBVIOUS
      <3>1. PICK j \in DOMAIN O : Rank(O, j) = c + q /\ D[c + q] = O[j]
        BY <1>d, <2>1
      <3>2. ~(Rank(O, j) <= c)
        BY <2>1, <3>1
      <3> QED  BY <1>O, <2>1, <2>3, <3>1, <3>2
    <2>5. \A p \in 1..Len(shown') : p \in 1..last \/ \E q \in 1..(e - c) : p = last + q
      <3> SUFFICES ASSUME NEW p \in 1..Len(shown'), p \notin 1..last
                   PROVE  p - last \in 1..(e - c) /\ p = last + (p - last)
        OBVIOUS
      <3> QED  BY <1>s, <2>1
    <2>6. ASSUME NEW p \in 1..last, NEW q \in 1..(e - c)
          PROVE  Precedes(shown'[p], shown'[last + q])
      <3>1. PICK j \in DOMAIN O : /\ shown'[last + q] = t[j] /\ t[j] \notin Range(shown)
                                  /\ j \in DOMAIN t /\ t[j].ts <= o
        BY <2>4
      <3>2. shown'[p] = shown[p] /\ o <= shown[p].ts /\ shown[p].ts \in Nat /\ t[j].ts \in Nat
        BY <1>c, <1>o, <1>s, <1>t, <3>1
      <3>3. CASE t[j].ts = shown[p].ts
        BY <1>0, <3>1, <3>2, <3>3 DEF StillThere, last
      <3>4. CASE t[j].ts # shown[p].ts
        BY <1>o, <3>1, <3>2, <3>4 DEF Precedes
      <3> QED  BY <3>3, <3>4
    <2>7. ASSUME NEW p \in 1..(e - c), NEW q \in 1..(e - c), p < q
          PROVE  Precedes(shown'[last + p], shown'[last + q])
      <3>1. PICK i \in DOMAIN O : Rank(O, i) = c + p /\ shown'[last + p] = t[i] /\ i \in DOMAIN t
        BY <2>4
      <3>2. PICK j \in DOMAIN O : Rank(O, j) = c + q /\ shown'[last + q] = t[j] /\ j \in DOMAIN t
        BY <2>4
      <3>3. Rank(O, i) < Rank(O, j)
        BY <2>1, <2>7, <3>1, <3>2
      <3>4. Listed(t, i, j)
        BY <1>O, <1>d, <3>3 DEF Listed
      <3> QED  BY <1>r, <3>1, <3>2, <3>4
    <2>8. ASSUME NEW p \in 1..Len(shown'), NEW q \in 1..Len(shown'), p < q
          PROVE  Precedes(shown'[p], shown'[q])
      <3>1. CASE p \in 1..last /\ q \in 1..last
        BY <1>0, <1>c, <2>8, <3>1 DEF Listing, last
      <3>2. CASE p \in 1..last /\ q \notin 1..last
        BY <2>5, <2>6, <3>2
      <3>3. CASE p \notin 1..last
        <4>1. PICK a \in 1..(e - c) : p = last + a
          BY <2>5, <3>3
        <4>2. q \notin 1..last
          BY <1>s, <2>8, <4>1
        <4>3. PICK b \in 1..(e - c) : q = last + b
          BY <2>5, <4>2
        <4>4. a < b
          BY <1>s, <2>8, <4>1, <4>3
        <4> QED  BY <2>7, <4>1, <4>3, <4>4
      <3> QED  BY <3>1, <3>2, <3>3
    <2>9. \A p \in 1..Len(shown') : shown'[p].mod = m
      <3> SUFFICES ASSUME NEW p \in 1..Len(shown') PROVE shown'[p].mod = m
        OBVIOUS
      <3>1. CASE p \in 1..last
        BY <1>0, <1>c, <3>1 DEF Listing, last
      <3>2. CASE p \notin 1..last
        BY <1>t, <2>4, <2>5, <3>2
      <3> QED  BY <3>1, <3>2
    <2>10. 1 \in 1..Len(shown') /\ shown'[1] = shown[1]
      BY <1>c, <1>s, <2>1
    <2>11. Listing'
      BY <1>0, <2>8, <2>9, <2>10 DEF Listing
    <2>12. \A r \in Range(shown) : r \in Range(shown')
      <3> SUFFICES ASSUME NEW r \in Range(shown) PROVE r \in Range(shown')
        OBVIOUS
      <3>1. PICK p \in 1..last : r = shown[p]
        BY <1>s DEF Range, last
      <3>2. p \in DOMAIN shown' /\ r = shown'[p]
        BY <1>c, <1>s, <2>1, <3>1
      <3> QED  BY <3>2 DEF Range
    <2>13. ASSUME NEW i \in DOMAIN t, t[i].ts < shown[1].ts, t[i] \notin Range(shown')
           PROVE  ~(t[i].ts > Oldest(shown')) /\ ~(Len(shown') < lastN)
      <3>1. t[i] \notin Range(shown)
        BY <2>12, <2>13
      <3>2. ~(t[i].ts > o)
        BY <1>0, <2>13, <3>1 DEF NoneLeftOut, o
      <3>3. i \in DOMAIN O /\ O[i] = t[i]
        BY <1>O, <1>o, <1>t, <3>2
      <3>4. Rank(O, i) \in 1..Len(D) /\ D[Rank(O, i)] = t[i] /\ ~(Rank(O, i) <= c)
        BY <1>d, <2>3, <3>1, <3>3
      <3>5. ~(Rank(O, i) <= e)
        <4> SUFFICES ASSUME Rank(O, i) <= e PROVE FALSE
          OBVIOUS
        <4> DEFINE q == Rank(O, i) - c
        <4>1. q \in 1..(e - c) /\ c + q = Rank(O, i)
          BY <2>1, <3>4
        <4> HIDE DEF q
        <4>2. shown'[last + q] = t[i] /\ last + q \in 1..(last + (e - c))
          BY <1>s, <2>1, <3>4, <4>1
        <4> QED  BY <2>1, <2>13, <4>2 DEF Range
      <3>6. e = c + L
        BY <1>c, <1>d, <3>4, <3>5
      <3>7. PICK j \in DOMAIN O : Rank(O, j) = c + (e - c) /\ shown'[last + (e - c)] = t[j]
        <4>1. e - c \in 1..(e - c)
          BY <1>2, <2>1
        <4> QED  BY <2>4, <4>1
      <3>8. Rank(O, j) < Rank(O, i)
        BY <2>1, <3>4, <3>5, <3>7
      <3>9. Listed(O, j, i) /\ O[j] = t[j] /\ t[j].ts \in Nat /\ t[i].ts \in Nat
        BY <1>O, <1>d, <1>t, <3>3, <3>8
      <3>10. ~(t[i].ts > Oldest(shown'))
        BY <2>1, <3>3, <3>7, <3>9 DEF Oldest, Listed
      <3>11. L \in Int /\ L >= lastN
        <4> DEFINE b == RowsAt(shown, shown[1].ts) - 1
        <4>1. b \in Int /\ lastN \in Nat
          <5>1. RowsAt(shown, shown[1].ts) \in Nat
            BY CountFacts DEF LocalInv, TypeOK
          <5> QED  BY <1>s, <5>1
        <4> HIDE DEF b
        <4>2. L = lastN * b
          BY DEF L, b
        <4>3. lastN * b \in Int
          BY <4>1
        <4>4. lastN * b > 0
          BY <1>2, <2>1, <3>6, <4>2, <4>3
        <4>5. lastN * b >= lastN
          BY <4>1, <4>4, AtLeastOnce
        <4> QED  BY <4>2, <4>3, <4>5
      <3> QED  BY <1>s, <2>1, <3>6, <3>10, <3>11
    <2>14. t' = t
      BY <1>0 DEF t
    <2>15. NoneLeftOut(t)'
      BY <1>0, <2>10, <2>13, <2>14 DEF NoneLeftOut
    <2>16. NoneLeftOut(tables[shown[1].mod])'
      BY <1>0, <2>10, <2>15 DEF t
    <2> QED  BY <1>0, <2>11, <2>16 DEF Selected
  <1> QED  BY <1>1, <1>2

(* The agent goes on while dfsrrTool is between its selects: it purges     *)
(* rows with all that are older, and stores new ones behind all others.    *)
LEMMA PurgeSelects ==
  ASSUME LocalInv, Selected, NEW m \in Mod, NEW t, t = tables[m], NEW u, u = tables'[m],
         Purge, UNCHANGED <<shown, lastN>>
  PROVE  /\ NoneLeftOut(t) => NoneLeftOut(u)'
         /\ StillThere(t) => StillThere(u)'
  <1>1. Table(t) /\ DOMAIN tables = Mod
    BY DEF LocalInv, TypeOK
  <1>2. u = t \/ u = Kept(t)
    BY <1>1 DEF Purge
  <1>3. CASE u = t
    BY <1>3 DEF NoneLeftOut, StillThere, Oldest
  <1>4. CASE u = Kept(t)
    <2>1. /\ DOMAIN u = {i \in DOMAIN t : ~(t[i].ts < Cutoff)}
          /\ \A i \in DOMAIN u : u[i] = t[i]
      <3>1. Table(t)
        BY <1>1
      <3>2. /\ DOMAIN Kept(t) = {i \in DOMAIN t : ~(t[i].ts < Cutoff)}
            /\ \A i \in DOMAIN Kept(t) : Kept(t)[i] = t[i]
        BY <3>1, KeptFacts
      <3> QED  BY <1>4, <3>2
    <2>2. NoneLeftOut(t) => NoneLeftOut(u)'
      BY <2>1 DEF NoneLeftOut, Oldest
    <2>3. ASSUME StillThere(t), NEW i \in DOMAIN u, NEW p \in 1..Len(shown), u[i].ts <= shown[p].ts
          PROVE  shown[p] \in Range(u)
      <3>1. i \in DOMAIN t /\ u[i] = t[i] /\ ~(t[i].ts < Cutoff) /\ t[i].ts \in Nat
        BY <1>1, <2>1 DEF Table, StoredRow
      <3>2. PICK j \in DOMAIN t : shown[p] = t[j]
        BY <2>3, <3>1 DEF StillThere, Range
      <3>3. Cutoff \in Nat /\ t[j].ts \in Nat
        <4>1. lastTime - rotate \in Int /\ t[j].ts \in Nat
          BY <1>1 DEF LocalInv, TypeOK, Table, StoredRow
        <4> QED  BY <4>1, LocalConstants DEF Cutoff
      <3>4. j \in DOMAIN u
        BY <2>1, <2>3, <3>1, <3>2, <3>3
      <3> QED  BY <2>1, <3>2, <3>4 DEF Range
    <2>4. StillThere(t) => StillThere(u)'
      BY <2>1, <2>3 DEF StillThere
    <2> QED  BY <2>2, <2>4
  <1> QED  BY <1>2, <1>3, <1>4

(* An extended table has its old rows and the new one.                     *)
LEMMA ExtendedRows ==
  ASSUME NEW t, Table(t), NEW r \in StoredRow, NEW u, u = Extended(t, r)
  PROVE  /\ \A i \in DOMAIN u : (i \in DOMAIN t /\ u[i] = t[i]) \/ u[i] = r
         /\ \A i \in DOMAIN t : i \in DOMAIN u /\ u[i] = t[i]
  <1>1. /\ DOMAIN Extended(t, r) = DOMAIN t \cup {NextId(t)}
        /\ \A i \in DOMAIN t : Extended(t, r)[i] = t[i]
        /\ Extended(t, r)[NextId(t)] = r
    BY ExtendedFacts, SMTT(20)
  <1> QED  BY <1>1

(* A new row does not disturb what is shown.                               *)
LEMMA InsertSelects ==
  ASSUME LocalInv, InTime, Selected, shown # <<>>, NEW m \in Mod, m = shown[1].mod,
         NEW t, t = tables[m], NEW u, u = tables'[m], Insert, UNCHANGED <<shown, lastN>>
  PROVE  /\ NoneLeftOut(t) => NoneLeftOut(u)'
         /\ StillThere(t) => StillThere(u)'
  <1> DEFINE r == ThisRow
  <1>s. /\ Len(shown) \in Nat /\ 1 \in 1..Len(shown)
        /\ \A p \in 1..Len(shown) : shown[p] \in StoredRow /\ shown[p].ts \in Nat
    BY ShownTypes DEF LocalInv
  <1>1. Table(t) /\ DOMAIN tables = Mod
    BY DEF LocalInv, TypeOK
  <1>2. /\ r \in StoredRow /\ r.n = od.n /\ r.k = row /\ r.ts = od.ts /\ r.mod = od.mod
        /\ pc = "exec" /\ row \in 1..Rows /\ r.ts \in Nat
        /\ tables'[od.mod] = Extended(tables[od.mod], r)
        /\ \A k \in Mod : k # od.mod => tables'[k] = tables[k]
    BY InsertedFacts DEF StoredRow
  <1>3. CASE m # od.mod
    <2>1. u = t
      BY <1>2, <1>3
    <2> QED  BY <2>1 DEF NoneLeftOut, StillThere, Oldest
  <1>4. CASE m = od.mod
    <2>p. \A p \in 1..Len(shown) :
             \/ shown[p].ts < r.ts
             \/ shown[p].ts = r.ts /\ shown[p].n = r.n /\ shown[p].k < r.k
      <3> SUFFICES ASSUME NEW p \in 1..Len(shown)
                   PROVE  \/ shown[p].ts < r.ts
                          \/ shown[p].ts = r.ts /\ shown[p].n = r.n /\ shown[p].k < r.k
        OBVIOUS
      <3>1. shown[p].mod = od.mod /\ Past(shown[p].mod, shown[p])
        BY <1>4 DEF Selected, Listing, InTime
      <3> QED  BY <1>2, <3>1 DEF Past
    <2>e. u = Extended(t, r)
      BY <1>2, <1>4
    <2>h. \A k \in 1..(row - 1) : Has(t, od.n, k)
      BY <1>4 DEF LocalInv, InHand
    <2>y. Table(t) /\ r \in StoredRow
      BY <1>1, <1>2
    <2> HIDE DEF r
    <2>1. /\ \A i \in DOMAIN u : (i \in DOMAIN t /\ u[i] = t[i]) \/ u[i] = r
          /\ \A i \in DOMAIN t : i \in DOMAIN u /\ u[i] = t[i]
      BY <2>e, <2>y, ExtendedRows
    <2>2. NoneLeftOut(t) => NoneLeftOut(u)'
      <3>1. ~(r.ts < shown[1].ts)
        BY <1>2, <1>s, <2>p
      <3> QED  BY <2>1, <3>1 DEF NoneLeftOut, Oldest
    <2>3. ASSUME NEW p \in 1..Len(shown), r.ts <= shown[p].ts PROVE shown[p] \in Range(t)
      <3>1. shown[p].ts = r.ts /\ shown[p].n = r.n /\ shown[p].k < r.k
        BY <1>2, <1>s, <2>p, <2>3
      <3>2. shown[p].k \in 1..(row - 1)
        BY <1>2, <1>s, <3>1 DEF StoredRow
      <3>3. PICK j \in DOMAIN t : t[j].n = od.n /\ t[j].k = shown[p].k
        BY <2>h, <3>2 DEF Has
      <3>4. t[j].ts = od.ts /\ t[j].mod = m /\ t[j] \in StoredRow
        BY <1>1, <3>3 DEF LocalInv, InHand, InTime, Table
      <3>5. shown[p].mod = m /\ shown[p] \in StoredRow
        BY <1>s DEF Selected, Listing
      <3>6. shown[p] = t[j]
        BY <1>2, <3>1, <3>3, <3>4, <3>5 DEF StoredRow
      <3> QED  BY <3>3, <3>6 DEF Range
    <2>4. \A x : x \in Range(t) => x \in Range(u)
      BY <2>1 DEF Range
    <2>5. ASSUME StillThere(t), NEW i \in DOMAIN u, NEW p \in 1..Len(shown)
          PROVE  /\ u[i].ts <= shown[p].ts => shown[p] \in Range(u)
                 /\ u[i].ts = shown[p].ts /\ u[i] \notin Range(shown) => Precedes(shown[p], u[i])
      <3>1. CASE i \in DOMAIN t /\ u[i] = t[i]
        BY <2>4, <2>5, <3>1 DEF StillThere
      <3>2. CASE u[i] = r
        <4>1. r.ts = shown[p].ts => Precedes(shown[p], r)
          BY <1>2, <1>s, <2>p DEF Precedes
        <4> QED  BY <2>3, <2>4, <3>2, <4>1
      <3> QED  BY <2>1, <3>1, <3>2
    <2>6. StillThere(t) => StillThere(u)'
      BY <2>5 DEF StillThere
    <2> QED  BY <2>2, <2>6
  <1> QED  BY <1>3, <1>4

(* Every step keeps what is shown in place.                                *)
LEMMA SelectedStep ==
  ASSUME LocalInv, InTime, Selected, [Next]_vars
  PROVE  Selected'
  <1>s. shown # <<>> => shown[1].mod \in Mod
    BY ShownTypes DEF LocalInv
  <1>1. CASE UNCHANGED <<tpc, lastN, shown>>
    <2>1. Listing'
      BY <1>1 DEF Selected, Listing
    <2>2. CASE tables' = tables
      BY <1>1, <2>1, <2>2 DEF Selected, NoneLeftOut, StillThere, Oldest
    <2>3. CASE Purge \/ Insert
      <3> SUFFICES ASSUME shown # <<>>
                   PROVE  /\ NoneLeftOut(tables[shown[1].mod])'
                          /\ (tpc \in {"read", "between"} => StillThere(tables[shown[1].mod])')
        BY <1>1, <2>1 DEF Selected
      <3>1. PICK m \in Mod : m = shown[1].mod
        BY <1>s
      <3>2. PICK t : t = tables[m]
        OBVIOUS
      <3>3. PICK u : u = tables'[m]
        OBVIOUS
      <3>4. NoneLeftOut(t) /\ (tpc \in {"read", "between"} => StillThere(t))
        BY <3>1, <3>2 DEF Selected
      <3>5. NoneLeftOut(u)' /\ (StillThere(t) => StillThere(u)')
        BY <1>1, <2>3, <3>1, <3>2, <3>3, <3>4, PurgeSelects, InsertSelects
      <3>6. u = tables'[shown'[1].mod]
        BY <1>1, <3>1, <3>3
      <3> QED  BY <3>4, <3>5, <3>6 DEF NoneLeftOut, StillThere
    <2>4. tables' = tables \/ Purge \/ Insert
      <3>1. CASE Tick \/ Recreate \/ TestPeriod \/ CreateTable \/ Pop \/ SendFails
                 \/ (\E m \in Mod : Collect(m)) \/ UNCHANGED vars
        BY <3>1 DEF Tick, Recreate, TestPeriod, CreateTable, Pop, SendFails, Collect, vars, dbVars
      <3>2. CASE \/ \E m \in Mod : (\E n \in LastN : ReadStart(m, n)) \/ ReadAgain(m)
                 \/ ReadEnd \/ ToolEnds
        BY <3>2 DEF ReadStart, ReadAgain, ReadEnd, ToolEnds, dbVars
      <3> QED  BY <3>1, <3>2 DEF Next
    <2> QED  BY <2>2, <2>3, <2>4
  <1>2. CASE Tick \/ Recreate \/ TestPeriod \/ CreateTable \/ Pop \/ SendFails \/ Purge \/ Insert
             \/ (\E m \in Mod : Collect(m)) \/ UNCHANGED vars
    BY <1>1, <1>2 DEF Tick, Recreate, TestPeriod, CreateTable, Pop, SendFails, Purge, Insert,
         Collect, vars, toolVars
  <1>3. CASE \E m \in Mod : (\E n \in LastN : ReadStart(m, n)) \/ ReadAgain(m)
    BY <1>3, ReadStartSelects, ReadAgainSelects
  <1>4. CASE ReadEnd
    <2>1. /\ tables' = tables /\ lastN' = lastN /\ shown' = shown
          /\ tpc' \in {"between", "shown"} => shown # <<>>
          /\ tpc' = "idle" => shown = <<>>
          /\ tpc' \in {"read", "between"} => tpc = "read"
      BY <1>4 DEF ReadEnd, dbVars
    <2>2. Listing'
      BY <2>1 DEF Selected, Listing
    <2> QED  BY <2>1, <2>2 DEF Selected, NoneLeftOut, StillThere, Oldest
  <1>5. CASE ToolEnds
    <2>1. tpc' = "idle" /\ shown' = <<>>
      BY <1>5 DEF ToolEnds
    <2>2. Len(shown') = 0
      BY <2>1, EmptySeq
    <2> QED  BY <2>1, <2>2 DEF Selected, Listing
  <1> QED  BY <1>2, <1>3, <1>4, <1>5 DEF Next

(* The agent and its reader keep the invariant. *)
THEOREM ToolInvariant == Spec => []ToolInv
  <1>1. Init => ToolInv
    <2> SUFFICES ASSUME Init PROVE ToolInv
      OBVIOUS
    <2>1. Len(dataQueue) = 0 /\ Len(shown) = 0 /\ shown = <<>> /\ pc = "idle" /\ tpc = "idle"
      BY EmptySeq DEF Init
    <2>2. \A m \in Mod : DOMAIN tables[m] = {}
      BY DEF Init
    <2>3. InTime
      BY <2>1, <2>2 DEF InTime, QueueInTime
    <2>4. Selected
      BY <2>1 DEF Selected, Listing
    <2> QED  BY <2>3, <2>4, LocalInit DEF ToolInv
  <1>2. ToolInv /\ [Next]_vars => ToolInv'
    BY LocalStep, InTimeStep, SelectedStep DEF ToolInv
  <1> QED  BY <1>1, <1>2, PTL DEF Spec

(* What dfsrrTool -w prints are the newest rows, none twice and none left  *)
(* out between others, whatever the agent writes, purges or gives up       *)
(* between the two selects (printLastNData).                               *)
THEOREM ToolShownNewest == Spec => []ShownNewest
  <1>1. ToolInv => ShownNewest
    <2> SUFFICES ASSUME ToolInv, tpc = "shown"
                 PROVE  /\ IsInjective(shown)
                        /\ \A r \in Range(tables[shown[1].mod]) :
                              /\ r.ts < shown[1].ts
                              /\ r.ts > Oldest(shown) \/ Len(shown) < lastN
                              => r \in ToSet(shown)
      BY DEF ShownNewest
    <2>1. Listing /\ shown # <<>> /\ NoneLeftOut(tables[shown[1].mod])
      BY DEF ToolInv, Selected, Listing
    <2>2. /\ DOMAIN shown = 1..Len(shown)
          /\ \A p \in 1..Len(shown) : shown[p].ts \in Nat /\ shown[p].n \in Nat /\ shown[p].k \in Nat
      BY ShownTypes DEF ToolInv, LocalInv
    <2>3. \A p, q \in 1..Len(shown) : p < q => shown[p] # shown[q]
      BY <2>1, <2>2 DEF Listing, Precedes
    <2>4. \A p, q \in 1..Len(shown) : p < q \/ p = q \/ q < p
      OBVIOUS
    <2>5. IsInjective(shown)
      BY <2>2, <2>3, <2>4 DEF IsInjective
    <2> QED  BY <2>1, <2>5 DEF NoneLeftOut, Range, ToSet
  <1> QED  BY <1>1, ToolInvariant, PTL
=============================================================================
