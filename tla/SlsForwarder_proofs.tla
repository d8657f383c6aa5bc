------------------------ MODULE SlsForwarder_proofs ------------------------
(***************************************************************************)
(* Theorems about SlsForwarder, for all its constants: a row goes out      *)
(* again only if a cursor was lost, and the cursor leaves no row behind    *)
(* that was not thinned.                                                   *)
(***************************************************************************)
EXTENDS SlsForwarder, WellFoundedInduction, TLAPS

(* A non-empty set of naturals has a smallest member. *)
LEMMA Smallest ==
  ASSUME NEW N \in SUBSET Nat, N # {}
  PROVE  \E m \in N : \A n \in N : m <= n
  <1>1. PICK m \in N : \A n \in N : <<n, m>> \notin OpToRel(<, Nat)
    BY NatLessThanWellFounded, WFMin, Zenon
  <1>2. ASSUME NEW n \in N, ~(m <= n) PROVE FALSE
    <2>1. n < m /\ n \in Nat /\ m \in Nat
      BY <1>2
    <2>2. <<n, m>> \in OpToRel(<, Nat)
      BY <2>1, Zenon DEF OpToRel
    <2> QED  BY <1>1, <2>2
  <1> QED  BY <1>2

(* The rows of a pass have a latest one. *)
LEMMA Latest ==
  ASSUME NEW K \in SUBSET Row, K # {}
  PROVE  \E k \in K : \A q \in K : q.ts <= k.ts
  <1> USE ForwarderAssumption
  <1> DEFINE N == {MaxTime + Skew - k.ts : k \in K}
  <1>1. \A k \in K : k.ts \in 0..(MaxTime + Skew)
    BY DEF Row, Time
  <1>2. N \in SUBSET Nat /\ N # {}
    BY <1>1
  <1> HIDE DEF N
  <1>3. PICK m \in N : \A n \in N : m <= n
    BY <1>2, Smallest
  <1>4. PICK k \in K : m = MaxTime + Skew - k.ts
    BY DEF N
  <1>5. \A q \in K : MaxTime + Skew - k.ts <= MaxTime + Skew - q.ts
    BY <1>3, <1>4 DEF N
  <1> QED  BY <1>1, <1>5

(* The cursor behind a pass is not before any row of it. *)
LEMMA BehindFacts ==
  ASSUME NEW K \in SUBSET Row, NEW t \in Cursors, \A r \in K : r.ts > t
  PROVE  /\ Behind(K, t) \in Cursors /\ Behind(K, t) >= t
         /\ \A r \in K : r.ts <= Behind(K, t)
         /\ K # {} => \E k \in K : Behind(K, t) = k.ts + span /\ \A q \in K : q.ts <= k.ts
  <1> USE ForwarderAssumption
  <1>1. CASE K = {}
    BY <1>1 DEF Behind, Cursors, NoCursor
  <1>2. CASE K # {}
    <2> DEFINE k == CHOOSE k \in K : \A q \in K : q.ts <= k.ts
    <2>1. k \in K /\ \A q \in K : q.ts <= k.ts
      BY <1>2, Latest, Zenon
    <2>2. Behind(K, t) = k.ts + span
      BY <1>2, Zenon DEF Behind
    <2> HIDE DEF k
    <2>3. \A q \in K : q.ts \in 0..(MaxTime + Skew)
      BY DEF Row, Time
    <2>4. t \in Int
      BY DEF Cursors, NoCursor
    <2>5. Behind(K, t) \in 0..(MaxTime + Skew + span)
      BY <2>1, <2>2, <2>3
    <2>6. Behind(K, t) >= t /\ \A r \in K : r.ts <= Behind(K, t)
      BY <2>1, <2>2, <2>3, <2>4
    <2> QED  BY <2>1, <2>2, <2>5, <2>6 DEF Cursors
  <1> QED  BY <1>1, <1>2

-----------------------------------------------------------------------------
(* How often the log service may still get a row: W times in the passes    *)
(* that follow a cursor c without a loss, and once more if it is held.     *)
W(r) == IF r \in early THEN 2 ELSE 1
Left(r, c) == IF c = NoCursor THEN W(r) ELSE IF r.ts > c THEN 1 ELSE 0
HeldOf(r) == IF r \in dataList THEN 1 ELSE 0

Claim(r) ==
    CASE pc \in {"read", "select", "save", "dead"} -> Left(r, file)
      [] pc = "write" -> HeldOf(r) + Left(r, startTime)
      [] pc = "send" -> HeldOf(r) + Left(r, file)

(* What the passes rely on. *)
Passes ==
    /\ pc \in {"select", "save"} => lastTime = file
    /\ pc = "write" => file = NoCursor
    /\ pc \in {"save", "write", "send"} => startTime >= 0 /\ file <= startTime
    /\ pc = "save" => \A r \in dataList :
          r.ts > lastTime /\ (r.ts <= startTime \/ (r \in early /\ lastTime = NoCursor))
    /\ \A r \in table \ early : r.ts <= now
    /\ \A r \in Row \ table : times[r] = 0

Budget == \A r \in table : times[r] + Claim(r) <= (losses + 1) * W(r)

(* Up to c, what has no reason to be left out was thinned. *)
Covered(c) ==
    \A r \in table \ late :
        jump < r.ts /\ r.ts <= c => \E k \in chosen : k.ts <= r.ts /\ r.ts <= k.ts + span

Thinned == Covered(file) /\ (pc \in {"save", "write"} => Covered(startTime))

Bounded == losses <= MaxLosses /\ fails <= MaxFails

ForwarderInv == TypeOK /\ Bounded /\ Passes /\ Budget /\ Thinned

(* Initially the table is empty. *)
LEMMA ForwarderInit == Init => ForwarderInv
  <1> SUFFICES ASSUME Init PROVE ForwarderInv
    OBVIOUS
  <1> USE ForwarderAssumption DEF Init
  <1>1. TypeOK /\ Bounded
    BY DEF TypeOK, Bounded, Cursors, NoCursor, MaxTimes
  <1>2. Passes /\ Budget /\ Thinned
    BY DEF Passes, Budget, Thinned, Covered, NoCursor
  <1> QED  BY <1>1, <1>2 DEF ForwarderInv

-----------------------------------------------------------------------------
(* What a pass fetches: rows behind the cursor, the oldest ones, thinned.  *)
LEMMA FetchFacts ==
  ASSUME TypeOK, FetchOk \/ FetchCut
  PROVE  /\ pc = "select" /\ pc' = "save"
         /\ jump' = IF lastTime = NoCursor THEN now ELSE jump
         /\ UNCHANGED <<tableVars, file, lastTime, times, losses, fails>>
         /\ \E S \in SUBSET table : \E K \in SUBSET S :
              /\ dataList' = K /\ startTime' = Cursor(K) /\ chosen' = chosen \cup K
              /\ \A r \in K : r.ts > lastTime
              /\ \A r \in S : r.ts > lastTime => \E k \in K : k.ts <= r.ts /\ r.ts <= k.ts + span
              /\ \A r \in S, q \in Waiting(lastTime) \ S : r.ts <= q.ts
  <1>1. PICK S \in Oldest(lastTime) : Fetch(S)
    BY Zenon DEF FetchOk, FetchCut
  <1>2. PICK K \in Sparse(S, lastTime) : dataList' = K /\ startTime' = Cursor(K) /\ chosen' = chosen \cup K
    BY <1>1 DEF Fetch
  <1>3. S \in SUBSET table /\ \A r \in S, q \in Waiting(lastTime) \ S : r.ts <= q.ts
    BY DEF Oldest, Waiting
  <1>4. /\ K \in SUBSET S
        /\ \A r \in K : r.ts > lastTime
        /\ \A r \in S : r.ts > lastTime => \E k \in K : k.ts <= r.ts /\ r.ts <= k.ts + span
    BY DEF Sparse
  <1>5. /\ pc = "select" /\ pc' = "save"
        /\ jump' = IF lastTime = NoCursor THEN now ELSE jump
        /\ UNCHANGED <<tableVars, file, lastTime, times, losses, fails>>
    BY <1>1 DEF Fetch
  <1> QED  BY <1>2, <1>3, <1>4, <1>5

(* Where the pass leaves the cursor. *)
LEMMA CursorFacts ==
  ASSUME TypeOK, NEW K \in SUBSET table, \A r \in K : r.ts > lastTime
  PROVE  /\ Cursor(K) \in Cursors /\ Cursor(K) >= lastTime /\ Cursor(K) >= 0
         /\ lastTime = NoCursor => Cursor(K) = now
         /\ lastTime # NoCursor => Cursor(K) = Behind(K, lastTime) /\ \A r \in K : r.ts <= Cursor(K)
  <1> USE ForwarderAssumption
  <1>1. K \in SUBSET Row /\ lastTime \in Cursors /\ now \in 0..MaxTime
    BY DEF TypeOK
  <1>2. CASE lastTime = NoCursor
    BY <1>1, <1>2 DEF Cursor, Cursors, NoCursor
  <1>3. CASE lastTime # NoCursor
    <2>1. Cursor(K) = Behind(K, lastTime)
      BY <1>3 DEF Cursor
    <2>2. lastTime >= 0 /\ lastTime \in Int
      BY <1>1, <1>3 DEF Cursors
    <2>3. Behind(K, lastTime) \in Cursors /\ Behind(K, lastTime) >= lastTime
          /\ \A r \in K : r.ts <= Behind(K, lastTime)
      BY <1>1, BehindFacts
    <2>4. Behind(K, lastTime) >= 0
      BY <2>2, <2>3 DEF Cursors, NoCursor
    <2> QED  BY <1>3, <2>1, <2>3, <2>4
  <1> QED  BY <1>2, <1>3

(* What the log service got is counted. *)
LEMMA GotFacts ==
  ASSUME TypeOK, NEW K \in SUBSET Row
  PROVE  /\ Got(K) \in [Row -> 0..MaxTimes]
         /\ \A r \in Row : Got(K)[r] <= times[r] + (IF r \in K THEN 1 ELSE 0)
         /\ \A r \in Row \ K : Got(K)[r] = times[r]
  <1>1. MaxTimes \in Nat
    BY ForwarderAssumption DEF MaxTimes
  <1>2. ASSUME NEW r \in Row
        PROVE  /\ Got(K)[r] = IF r \in K /\ times[r] < MaxTimes THEN times[r] + 1 ELSE times[r]
               /\ times[r] \in 0..MaxTimes
    BY DEF Got, TypeOK
  <1>3. DOMAIN Got(K) = Row /\ Got(K) = [r \in Row |-> Got(K)[r]]
    BY DEF Got
  <1> QED  BY <1>1, <1>2, <1>3

-----------------------------------------------------------------------------
(* Every action keeps the types and the bounds. *)
LEMMA TypeStep == TypeOK /\ Bounded /\ [Next]_vars => TypeOK' /\ Bounded'
  <1> SUFFICES ASSUME TypeOK, Bounded, [Next]_vars PROVE TypeOK' /\ Bounded'
    OBVIOUS
  <1> USE ForwarderAssumption
  <1>1. CASE Tick
    BY <1>1 DEF Tick, TypeOK, Bounded, passVars, histVars
  <1>2. CASE \E r \in Row : Insert(r)
    <2>1. PICK r \in Row : Insert(r)
      BY <1>2
    <2>2. /\ table' \subseteq Row /\ table \subseteq table'
          /\ early' \subseteq table' /\ late' \subseteq table'
      BY <2>1 DEF Insert, TypeOK
    <2>3. UNCHANGED <<now, file, pc, passVars, histVars>>
      BY <2>1 DEF Insert
    <2> QED  BY <2>2, <2>3 DEF TypeOK, Bounded, passVars, histVars
  <1>3. CASE FetchOk \/ FetchCut
    <2>1. PICK K \in SUBSET table :
            /\ dataList' = K /\ startTime' = Cursor(K) /\ chosen' = chosen \cup K
            /\ \A r \in K : r.ts > lastTime
      BY <1>3, FetchFacts
    <2>2. Cursor(K) \in Cursors
      BY <2>1, CursorFacts
    <2>3. jump' \in Cursors
      BY <1>3, FetchFacts DEF TypeOK, Cursors
    <2> QED  BY <1>3, <2>1, <2>2, <2>3, FetchFacts DEF TypeOK, Bounded, tableVars
  <1>4. CASE SendOk \/ SendFails
    <2>1. Got(dataList) \in [Row -> 0..MaxTimes]
      BY GotFacts DEF TypeOK
    <2> QED  BY <1>4, <2>1 DEF SendOk, SendFails, TypeOK, Bounded, tableVars, passVars
  <1>5. CASE ReadCursor \/ Truncate \/ Write
    BY <1>5 DEF ReadCursor, Truncate, Write, TypeOK, Bounded, Cursors, NoCursor, tableVars, passVars, histVars
  <1>6. CASE SaveFails \/ Crash \/ Start
    BY <1>6 DEF SaveFails, Crash, Start, TypeOK, Bounded, tableVars, passVars, histVars
  <1>7. CASE UNCHANGED vars
    BY <1>7 DEF vars, TypeOK, Bounded, tableVars, passVars, histVars
  <1> QED  BY <1>1, <1>2, <1>3, <1>4, <1>5, <1>6, <1>7 DEF Next

(* Every action keeps what the passes rely on. *)
LEMMA PassesStep == TypeOK /\ Passes /\ [Next]_vars => Passes'
  <1> SUFFICES ASSUME TypeOK, Passes, [Next]_vars PROVE Passes'
    OBVIOUS
  <1> USE ForwarderAssumption
  <1>t. /\ \A r \in Row : r.ts \in Nat
        /\ now \in Nat /\ file \in Int /\ file >= -1
    BY DEF Row, Time, TypeOK, Cursors, NoCursor
  <1>1. CASE Tick
    BY <1>1, <1>t DEF Tick, TypeOK, Passes, passVars, histVars
  <1>2. CASE \E r \in Row : Insert(r)
    <2>1. PICK r \in Row : Insert(r)
      BY <1>2
    <2>2. /\ table' = table \cup {r} /\ early' = IF r.ts > now THEN early \cup {r} ELSE early
          /\ UNCHANGED <<now, file, pc, lastTime, startTime, dataList, times>>
      BY <2>1 DEF Insert, passVars, histVars
    <2>3. \A q \in table' \ early' : q.ts <= now
      BY <1>t, <2>2 DEF Passes, TypeOK
    <2>4. early \subseteq early'
      BY <2>2
    <2> QED  BY <2>2, <2>3, <2>4 DEF Passes
  <1>3. CASE FetchOk \/ FetchCut
    <2>1. PICK K \in SUBSET table :
            /\ dataList' = K /\ startTime' = Cursor(K)
            /\ \A r \in K : r.ts > lastTime
      BY <1>3, FetchFacts
    <2>2. /\ Cursor(K) >= lastTime /\ Cursor(K) >= 0
          /\ lastTime = NoCursor => Cursor(K) = now
          /\ lastTime # NoCursor => \A r \in K : r.ts <= Cursor(K)
      BY <2>1, CursorFacts
    <2>3. /\ pc = "select" /\ pc' = "save"
          /\ UNCHANGED <<now, table, early, file, lastTime, times>>
      BY <1>3, FetchFacts DEF tableVars
    <2>4. lastTime = file
      BY <2>3 DEF Passes
    <2>5. \A r \in K : r.ts > lastTime /\ (r.ts <= Cursor(K) \/ (r \in early /\ lastTime = NoCursor))
      BY <2>1, <2>2 DEF Passes
    <2> QED  BY <2>1, <2>2, <2>3, <2>4, <2>5 DEF Passes
  <1>4. CASE SendOk \/ SendFails
    <2>1. pc' \notin {"select", "save", "write", "send"}
      BY <1>4 DEF SendOk, SendFails
    <2>2. \A r \in Row \ table : times'[r] = 0
      <3>1. \A r \in Row \ table : Got(dataList)[r] = times[r]
        BY GotFacts DEF TypeOK
      <3> QED  BY <1>4, <3>1 DEF SendOk, SendFails, Passes
    <2> QED  BY <1>4, <2>1, <2>2 DEF SendOk, SendFails, Passes, tableVars, passVars
  <1>5. CASE ReadCursor \/ Truncate \/ Write
    BY <1>5, <1>t DEF ReadCursor, Truncate, Write, Passes, TypeOK, Cursors, NoCursor, tableVars, passVars, histVars
  <1>6. CASE SaveFails \/ Crash \/ Start
    BY <1>6 DEF SaveFails, Crash, Start, Passes, tableVars, passVars, histVars
  <1>7. CASE UNCHANGED vars
    BY <1>7 DEF vars, Passes, tableVars, passVars, histVars
  <1> QED  BY <1>1, <1>2, <1>3, <1>4, <1>5, <1>6, <1>7 DEF Next
-----------------------------------------------------------------------------
(* The claims are small numbers, and losing a cursor renews them.          *)
LEMMA ClaimFacts ==
  ASSUME TypeOK, NEW r \in Row
  PROVE  /\ W(r) \in {1, 2} /\ HeldOf(r) \in {0, 1} /\ times[r] \in Nat /\ losses \in Nat
         /\ \A c \in Cursors : Left(r, c) \in {0, 1, 2} /\ Left(r, c) <= W(r)
         /\ Left(r, NoCursor) = W(r)
         /\ (losses + 1) * W(r) = IF W(r) = 2 THEN 2 * losses + 2 ELSE losses + 1
         /\ (losses + 2) * W(r) = (losses + 1) * W(r) + W(r)
         /\ (losses + 1) * W(r) \in Nat
  <1>1. W(r) \in {1, 2} /\ HeldOf(r) \in {0, 1}
    BY DEF W, HeldOf
  <1>2. times[r] \in Nat /\ losses \in Nat
    BY ForwarderAssumption DEF TypeOK, MaxTimes
  <1>3. \A c \in Cursors : Left(r, c) \in {0, 1, 2} /\ Left(r, c) <= W(r)
    BY DEF Left, W
  <1>4. Left(r, NoCursor) = W(r)
    BY DEF Left
  <1>5. /\ (losses + 1) * W(r) = IF W(r) = 2 THEN 2 * losses + 2 ELSE losses + 1
        /\ (losses + 2) * W(r) = (losses + 1) * W(r) + W(r)
        /\ (losses + 1) * W(r) \in Nat
    <2>1. CASE W(r) = 1
      BY <1>2, <2>1
    <2>2. CASE W(r) = 2
      BY <1>2, <2>2
    <2> QED  BY <1>1, <2>1, <2>2
  <1> QED  BY <1>1, <1>2, <1>3, <1>4, <1>5

(* What is claimed in each phase. *)
LEMMA ClaimOf ==
  ASSUME NEW r
  PROVE  /\ pc \in {"read", "select", "save", "dead"} => Claim(r) = Left(r, file)
         /\ pc = "write" => Claim(r) = HeldOf(r) + Left(r, startTime)
         /\ pc = "send" => Claim(r) = HeldOf(r) + Left(r, file)
  BY DEF Claim

(* No action lets the service get a row more often than is claimed.        *)
LEMMA BudgetStep == TypeOK /\ Bounded /\ Passes /\ Budget /\ [Next]_vars => Budget'
  <1> SUFFICES ASSUME TypeOK, Bounded, Passes, Budget, [Next]_vars, NEW r \in table'
               PROVE  times'[r] + Claim(r)' <= (losses' + 1) * W(r)'
    BY DEF Budget
  <1> USE ForwarderAssumption
  <1>t. TypeOK' /\ Passes' /\ Bounded' /\ r \in Row
    BY TypeStep, PassesStep DEF TypeOK
  <1>f. {file, startTime, lastTime} \subseteq Cursors
    BY DEF TypeOK
  <1>c. /\ W(r) \in {1, 2} /\ HeldOf(r) \in {0, 1} /\ times[r] \in Nat /\ losses \in Nat
        /\ \A c \in Cursors : Left(r, c) \in {0, 1, 2} /\ Left(r, c) <= W(r)
        /\ Left(r, NoCursor) = W(r)
        /\ (losses + 1) * W(r) \in Nat /\ (losses + 2) * W(r) = (losses + 1) * W(r) + W(r)
    BY <1>t, ClaimFacts
  <1>o. /\ pc \in {"read", "select", "save", "dead"} => Claim(r) = Left(r, file)
        /\ pc = "write" => Claim(r) = HeldOf(r) + Left(r, startTime)
        /\ pc = "send" => Claim(r) = HeldOf(r) + Left(r, file)
    BY ClaimOf
  <1>1. CASE Tick
    <2>1. Claim(r)' = Claim(r) /\ W(r)' = W(r) /\ UNCHANGED <<table, times, losses>>
      BY <1>1 DEF Tick, Claim, Left, W, HeldOf, passVars, histVars
    <2> QED  BY <2>1 DEF Budget
  <1>2. CASE \E q \in Row : Insert(q)
    <2>1. PICK q \in Row : Insert(q)
      BY <1>2
    <2>2. /\ table' = table \cup {q} /\ q \notin table
          /\ early' = IF q.ts > now THEN early \cup {q} ELSE early
          /\ UNCHANGED <<file, pc, startTime, dataList, times, losses>>
      BY <2>1 DEF Insert, passVars, histVars
    <2>3. CASE r = q
      <3>1. times'[r] = 0
        BY <2>2, <2>3 DEF Passes
      <3>2. HeldOf(r)' = 0
        BY <2>2, <2>3 DEF HeldOf, TypeOK
      <3>3. W(r)' \in {1, 2} /\ \A c \in Cursors : Left(r, c)' <= W(r)' /\ Left(r, c)' \in {0, 1, 2}
        BY DEF Left, W
      <3>4. Claim(r)' <= W(r)' /\ Claim(r)' \in Nat
        BY <1>f, <2>2, <3>2, <3>3 DEF Claim, TypeOK
      <3>5. (losses' + 1) * W(r)' >= W(r)'
        <4>1. CASE W(r)' = 1
          BY <1>c, <2>2, <4>1
        <4>2. CASE W(r)' = 2
          BY <1>c, <2>2, <4>2
        <4> QED  BY <3>3, <4>1, <4>2
      <3>6. (losses' + 1) * W(r)' \in Nat
        BY <1>c, <2>2, <3>3
      <3> QED  BY <3>1, <3>3, <3>4, <3>5, <3>6
    <2>4. CASE r # q
      <3>1. r \in table /\ (r \in early' <=> r \in early)
        BY <2>2, <2>4
      <3>2. Claim(r)' = Claim(r) /\ W(r)' = W(r)
        BY <2>2, <3>1 DEF Claim, Left, W, HeldOf
      <3> QED  BY <2>2, <3>1, <3>2 DEF Budget
    <2> QED  BY <2>3, <2>4
  <1>3. CASE ReadCursor \/ Start
    <2>1. Claim(r)' = Left(r, file) /\ W(r)' = W(r) /\ Claim(r) = Left(r, file)
          /\ UNCHANGED <<table, times, losses>>
      BY <1>3 DEF ReadCursor, Start, Claim, Left, W, tableVars, histVars, passVars
    <2> QED  BY <2>1 DEF Budget
  <1>4. CASE FetchOk \/ FetchCut
    <2>1. Claim(r)' = Left(r, file) /\ W(r)' = W(r) /\ Claim(r) = Left(r, file)
          /\ UNCHANGED <<table, times, losses>>
      BY <1>4, FetchFacts DEF Claim, Left, W, tableVars
    <2> QED  BY <2>1 DEF Budget
  <1>5. CASE Truncate
    <2>1. /\ pc = "save" /\ pc' = "write"
          /\ UNCHANGED <<table, early, startTime, dataList, times, losses>>
      BY <1>5 DEF Truncate, tableVars, passVars, histVars
    <2>2. W(r)' = W(r) /\ Claim(r)' = HeldOf(r) + Left(r, startTime) /\ Claim(r) = Left(r, file)
      BY <2>1 DEF Claim, Left, W, HeldOf
    <2>3. /\ lastTime = file /\ startTime >= 0 /\ lastTime <= startTime
          /\ startTime \in Int /\ lastTime \in Int
          /\ r \in dataList => r.ts > lastTime /\ (r.ts <= startTime \/ (r \in early /\ lastTime = NoCursor))
      BY <1>f, <2>1 DEF Passes, Cursors, NoCursor
    <2>4. r.ts \in Nat
      BY <1>t DEF Row, Time
    <2>5. HeldOf(r) + Left(r, startTime) <= Left(r, lastTime)
      BY <2>3, <2>4 DEF HeldOf, Left, W, NoCursor
    <2> QED  BY <1>c, <1>f, <2>1, <2>2, <2>3, <2>5 DEF Budget
  <1>6. CASE Write
    <2>1. /\ pc = "write" /\ file' = startTime /\ UNCHANGED <<table, early, dataList, times, losses>>
          /\ pc' = IF dataList = {} THEN "read" ELSE "send"
      BY <1>6 DEF Write, tableVars, passVars, histVars
    <2>2. W(r)' = W(r) /\ Claim(r)' = HeldOf(r) + Left(r, startTime)
      <3>1. CASE dataList = {}
        <4>1. HeldOf(r) = 0 /\ Claim(r)' = Left(r, startTime)
          BY <2>1, <3>1 DEF HeldOf, Claim, Left, W
        <4> QED  BY <1>c, <1>f, <2>1, <4>1 DEF W
      <3>2. CASE dataList # {}
        BY <2>1, <3>2 DEF HeldOf, Claim, Left, W
      <3> QED  BY <3>1, <3>2
    <2> QED  BY <1>o, <2>1, <2>2 DEF Budget
  <1>7. CASE SaveFails
    <2>1. /\ pc \in {"save", "write"} /\ losses' = losses + 1
          /\ UNCHANGED <<table, early, file, dataList, times>>
          /\ pc' = IF dataList = {} THEN "read" ELSE "send"
      BY <1>7 DEF SaveFails, tableVars, passVars
    <2>2. W(r)' = W(r) /\ Claim(r)' = HeldOf(r) + Left(r, file)
      <3>1. CASE dataList = {}
        <4>1. HeldOf(r) = 0 /\ Claim(r)' = Left(r, file)
          BY <2>1, <3>1 DEF HeldOf, Claim, Left, W
        <4> QED  BY <1>c, <1>f, <2>1, <4>1 DEF W
      <3>2. CASE dataList # {}
        BY <2>1, <3>2 DEF HeldOf, Claim, Left, W
      <3> QED  BY <3>1, <3>2
    <2>3. HeldOf(r) + Left(r, file) <= Claim(r) + W(r) /\ Claim(r) \in Nat
      <3>1. CASE pc = "save"
        BY <1>c, <1>f, <1>o, <3>1
      <3>2. CASE pc = "write"
        <4>1. Left(r, file) = W(r)
          BY <1>c, <3>2 DEF Passes
        <4> QED  BY <1>c, <1>f, <1>o, <3>2, <4>1
      <3> QED  BY <2>1, <3>1, <3>2
    <2>4. times[r] + Claim(r) <= (losses + 1) * W(r) /\ (losses' + 1) * W(r)' = (losses + 2) * W(r)
      <3>1. losses' + 1 = losses + 2
        BY <1>c, <2>1
      <3> QED  BY <2>1, <2>2, <3>1 DEF Budget
    <2>5. HeldOf(r) + Left(r, file) \in Nat
      BY <1>c, <1>f
    <2> QED  BY <1>c, <2>1, <2>2, <2>3, <2>4, <2>5
  <1>8. CASE SendOk \/ SendFails
    <2>1. /\ pc = "send" /\ pc' \in {"read", "dead"} /\ times' \in {times, Got(dataList)}
          /\ UNCHANGED <<table, early, file, losses>>
      BY <1>8 DEF SendOk, SendFails, tableVars, passVars
    <2>2. W(r)' = W(r) /\ Claim(r)' = Left(r, file) /\ Claim(r) = HeldOf(r) + Left(r, file)
      BY <2>1 DEF Claim, HeldOf, Left, W
    <2>3. times'[r] <= times[r] + HeldOf(r) /\ times'[r] \in Int
      <3>1. Got(dataList)[r] <= times[r] + HeldOf(r) /\ Got(dataList)[r] \in Int
        BY <1>t, GotFacts DEF TypeOK, HeldOf, MaxTimes
      <3> QED  BY <1>c, <2>1, <3>1
    <2> QED  BY <1>c, <1>f, <2>1, <2>2, <2>3 DEF Budget
  <1>9. CASE Crash
    <2>1. /\ pc' = "dead" /\ losses' = IF pc = "write" THEN losses + 1 ELSE losses
          /\ UNCHANGED <<table, early, file, times>>
      BY <1>9 DEF Crash, tableVars, passVars
    <2>2. W(r)' = W(r) /\ Claim(r)' = Left(r, file)
      BY <2>1 DEF Claim, Left, W
    <2>3. CASE pc = "write"
      <3>1. Left(r, file) = W(r) /\ losses' + 1 = losses + 2
        BY <1>c, <2>1, <2>3 DEF Passes
      <3>2. times[r] + Claim(r) <= (losses + 1) * W(r) /\ Claim(r) \in Nat
        BY <1>c, <1>f, <1>o, <2>1, <2>3 DEF Budget
      <3> QED  BY <1>c, <2>1, <2>2, <3>1, <3>2
    <2>4. CASE pc # "write"
      <3>1. Left(r, file) <= Claim(r) /\ Claim(r) \in Nat /\ Left(r, file) \in Nat
        BY <1>c, <1>f, <1>o, <2>4 DEF TypeOK
      <3> QED  BY <1>c, <2>1, <2>2, <2>4, <3>1 DEF Budget
    <2> QED  BY <2>3, <2>4
  <1>10. CASE UNCHANGED vars
    <2>1. Claim(r)' = Claim(r) /\ W(r)' = W(r) /\ UNCHANGED <<table, times, losses>>
      BY <1>10 DEF vars, Claim, Left, W, HeldOf, tableVars, passVars, histVars
    <2> QED  BY <2>1 DEF Budget
  <1> QED  BY <1>1, <1>2, <1>3, <1>4, <1>5, <1>6, <1>7, <1>8, <1>9, <1>10 DEF Next
-----------------------------------------------------------------------------
(* A pass covers everything up to where it leaves the cursor. *)
LEMMA FetchCovers ==
  ASSUME TypeOK, Passes, Thinned, FetchOk \/ FetchCut
  PROVE  Covered(file)' /\ Covered(startTime)'
  <1> USE ForwarderAssumption
  <1>1. PICK S \in SUBSET table : \E K \in SUBSET S :
          /\ dataList' = K /\ startTime' = Cursor(K) /\ chosen' = chosen \cup K
          /\ \A r \in K : r.ts > lastTime
          /\ \A r \in S : r.ts > lastTime => \E k \in K : k.ts <= r.ts /\ r.ts <= k.ts + span
          /\ \A r \in S, q \in Waiting(lastTime) \ S : r.ts <= q.ts
    BY FetchFacts
  <1>2. PICK K \in SUBSET S :
          /\ startTime' = Cursor(K) /\ chosen' = chosen \cup K
          /\ \A r \in K : r.ts > lastTime
          /\ \A r \in S : r.ts > lastTime => \E k \in K : k.ts <= r.ts /\ r.ts <= k.ts + span
          /\ \A r \in S, q \in Waiting(lastTime) \ S : r.ts <= q.ts
    BY <1>1
  <1>3. /\ jump' = IF lastTime = NoCursor THEN now ELSE jump
        /\ UNCHANGED <<table, late, file>> /\ lastTime = file
    BY FetchFacts DEF tableVars, Passes
  <1>t. /\ \A r \in table : r.ts \in Nat
        /\ now \in Nat /\ file \in Int /\ lastTime \in Cursors /\ K \in SUBSET table
    BY DEF Row, Time, TypeOK, Cursors, NoCursor
  <1>4. CASE lastTime = NoCursor
    <2>1. startTime' = now /\ jump' = now /\ file' = -1
      BY <1>2, <1>3, <1>t, <1>4, CursorFacts DEF NoCursor
    <2> QED  BY <1>3, <1>t, <2>1 DEF Covered
  <1>5. CASE lastTime # NoCursor
    <2>1. startTime' = Behind(K, lastTime) /\ jump' = jump /\ file' = lastTime
      BY <1>2, <1>3, <1>t, <1>5, CursorFacts
    <2>2. /\ Behind(K, lastTime) \in Cursors
          /\ K # {} => \E k \in K : Behind(K, lastTime) = k.ts + span /\ \A q \in K : q.ts <= k.ts
      BY <1>2, <1>t, BehindFacts DEF TypeOK
    <2>3. Covered(file)'
      BY <1>2, <1>3, <2>1 DEF Covered, Thinned
    <2>4. ASSUME NEW r \in table \ late, jump < r.ts, r.ts <= Behind(K, lastTime)
          PROVE  \E k \in chosen' : k.ts <= r.ts /\ r.ts <= k.ts + span
      <3>1. CASE r.ts <= lastTime
        BY <1>2, <1>3, <2>4, <3>1 DEF Covered, Thinned
      <3>2. CASE ~(r.ts <= lastTime) /\ r \in S
        <4>1. r.ts > lastTime
          BY <1>t, <1>3, <3>2
        <4> QED  BY <1>2, <3>2, <4>1
      <3>3. CASE ~(r.ts <= lastTime) /\ r \notin S
        <4>1. r.ts > lastTime /\ r \in Waiting(lastTime) \ S
          BY <1>t, <1>3, <3>3 DEF Waiting
        <4>2. K # {}
          <5>1. K = {} => Behind(K, lastTime) = lastTime
            BY DEF Behind
          <5> QED  BY <2>4, <3>3, <5>1
        <4>3. PICK k \in K : Behind(K, lastTime) = k.ts + span
          BY <2>2, <4>2
        <4>4. k.ts <= r.ts /\ r.ts <= k.ts + span
          BY <1>2, <2>4, <4>1, <4>3
        <4> QED  BY <1>2, <4>4
      <3> QED  BY <3>1, <3>2, <3>3
    <2>5. Covered(startTime)'
      BY <1>3, <2>1, <2>4 DEF Covered
    <2> QED  BY <2>3, <2>5
  <1> QED  BY <1>4, <1>5

(* No action moves the cursor over a row without a reason. *)
LEMMA ThinnedStep == TypeOK /\ Passes /\ Thinned /\ [Next]_vars => Thinned'
  <1> SUFFICES ASSUME TypeOK, Passes, Thinned, [Next]_vars PROVE Thinned'
    OBVIOUS
  <1> USE ForwarderAssumption
  <1>1. CASE \E r \in Row : Insert(r)
    <2>1. PICK r \in Row : Insert(r)
      BY <1>1
    <2>2. /\ table' = table \cup {r} /\ r \notin table
          /\ late' = IF r.ts <= Passed THEN late \cup {r} ELSE late
          /\ UNCHANGED <<file, pc, startTime, chosen, jump>>
      BY <2>1 DEF Insert, passVars, histVars
    <2>3. r.ts \in Nat /\ file \in Int /\ startTime \in Int
      BY DEF Row, Time, TypeOK, Cursors, NoCursor
    <2>4. Covered(file)'
      <3>1. r.ts <= file => r.ts <= Passed
        BY <2>3 DEF Passed, Passes
      <3> QED  BY <2>2, <3>1 DEF Covered, Thinned
    <2>5. pc \in {"save", "write"} => Covered(startTime)'
      <3>1. pc \in {"save", "write"} => Passed = startTime
        BY DEF Passed
      <3> QED  BY <2>2, <3>1 DEF Covered, Thinned
    <2> QED  BY <2>2, <2>4, <2>5 DEF Thinned
  <1>2. CASE FetchOk \/ FetchCut
    BY <1>2, FetchCovers DEF Thinned
  <1>3. CASE Truncate
    <2>1. UNCHANGED <<table, late, startTime, chosen, jump>> /\ file' = NoCursor /\ pc = "save"
      BY <1>3 DEF Truncate, tableVars, passVars, histVars
    <2>2. \A r \in table : r.ts \in Nat
      BY DEF Row, Time, TypeOK
    <2>3. Covered(file)'
      BY <2>1, <2>2 DEF Covered, NoCursor
    <2> QED  BY <2>1, <2>3 DEF Covered, Thinned
  <1>4. CASE Write
    BY <1>4 DEF Write, Covered, Thinned, tableVars, passVars, histVars
  <1>5. CASE Tick \/ ReadCursor \/ SaveFails \/ SendOk \/ SendFails \/ Crash \/ Start
    <2>1. UNCHANGED <<table, late, file, startTime, chosen, jump>> /\ (pc' \in {"save", "write"} => pc' = pc)
      BY <1>5 DEF Tick, ReadCursor, SaveFails, SendOk, SendFails, Crash, Start, tableVars, passVars, histVars
    <2> QED  BY <2>1 DEF Covered, Thinned
  <1>6. CASE UNCHANGED vars
    BY <1>6 DEF vars, Covered, Thinned, tableVars, passVars, histVars
  <1> QED  BY <1>1, <1>2, <1>3, <1>4, <1>5, <1>6 DEF Next

-----------------------------------------------------------------------------
(* Budget, phases and thinning hold in every reachable state. *)
THEOREM ForwarderInvariant == Spec => []ForwarderInv
  <1>1. ForwarderInv /\ [Next]_vars => ForwarderInv'
    BY TypeStep, PassesStep, BudgetStep, ThinnedStep DEF ForwarderInv
  <1> QED  BY ForwarderInit, <1>1, PTL DEF Spec

(* sparse leaves a cursor that the file can hold, and only rows that are   *)
(* in the table are sent.                                                  *)
THEOREM ForwarderTypeOK == Spec => []TypeOK
  <1>1. ForwarderInv => TypeOK
    BY DEF ForwarderInv
  <1> QED  BY <1>1, ForwarderInvariant, PTL

(* Moving the cursor before the send keeps a row from going out twice but  *)
(* for lost cursors and clocks that are ahead, however many rows, passes,  *)
(* crashes and failures there are.                                         *)
THEOREM ForwarderAtMostOnce == Spec => []AtMostOnce
  <1>1. ForwarderInv => AtMostOnce
    <2> SUFFICES ASSUME ForwarderInv, NEW r \in table
                 PROVE  times[r] <= (losses + 1) * (IF r \in early THEN 2 ELSE 1)
      BY DEF AtMostOnce
    <2>1. TypeOK /\ r \in Row
      BY DEF ForwarderInv, TypeOK
    <2>2. {file, startTime} \subseteq Cursors /\ pc \in {"read", "select", "save", "write", "send", "dead"}
      BY <2>1 DEF TypeOK
    <2>3. Claim(r) \in Nat /\ times[r] \in Nat /\ (losses + 1) * W(r) \in Nat
      BY <2>1, <2>2, ClaimFacts, ClaimOf
    <2>4. times[r] + Claim(r) <= (losses + 1) * W(r)
      BY DEF ForwarderInv, Budget
    <2>5. times[r] <= (losses + 1) * W(r)
      BY <2>3, <2>4
    <2> QED  BY <2>5 DEF W
  <1> QED  BY <1>1, ForwarderInvariant, PTL

(* What the cursor passes was thinned by sparse, for every span, limit of  *)
(* the select and delay of the rows: a connection that is cut while rows   *)
(* are fetched loses none.                                                 *)
THEOREM ForwarderPassedOver == Spec => []PassedOver
  <1>1. ForwarderInv => PassedOver
    BY DEF ForwarderInv, Thinned, Covered, PassedOver
  <1> QED  BY <1>1, ForwarderInvariant, PTL
=============================================================================
