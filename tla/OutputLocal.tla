---------------------------- MODULE OutputLocal ----------------------------
(***************************************************************************)
(* The local output (src/src/dfsrr/outputLocal.cpp, common/database.cpp):  *)
(* one sqlite file with one table per collector, made when a row first     *)
(* needs it; every row of a sample is a statement, committed by itself;    *)
(* when Period has passed the table of the sample in hand loses its old    *)
(* rows.  dfsrrTool -w may read a file at the same time, in two selects:   *)
(* its shared lock makes a write to that file fail at once.                *)
(*                                                                         *)
(* Queue and life of the output are those of Output, which this module     *)
(* implements.  Collectors are numbered in the order of moduleVec_.        *)
(***************************************************************************)
EXTENDS Integers, Sequences, SequencesExt, FiniteSets, FiniteSetsExt, Functions

CONSTANTS
    Modules,    \* collectors 1..Modules, all with the interval intv
    Rows,       \* rows of a sample
    intv,       \* mod.intv
    Period,     \* 3600 * 6 in the code
    maxSize,    \* maxSize_ of the queue
    Width,      \* 2^64: rotate_ is a UINT64
    Rotations,  \* what rotateTime is configured to, in the clock's unit
    Start,      \* the clock when the agent starts
    MaxTime,    \* bound: the clock
    Lag,        \* how long a sample waits for the send thread at most
    LastN,      \* what -w may ask dfsrrTool for
    MaxFails    \* bound: failed sends

ASSUME LocalAssumption ==
    /\ Modules \in Nat \ {0} /\ Rows \in Nat \ {0} /\ intv \in Nat \ {0}
    /\ Period \in Nat /\ maxSize \in Nat /\ Width \in Nat \ {0}
    /\ Rotations \subseteq 0..(Width - 1)
    /\ Start \in Nat /\ MaxTime \in Nat /\ Start <= MaxTime /\ MaxTime < Width
    /\ Lag \in Nat /\ MaxFails \in Nat /\ LastN \subseteq Nat \ {0}

Mod == 1..Modules
SmallerOf(a, b) == IF a < b THEN a ELSE b
NoSample == [n |-> 0, mod |-> 1, ts |-> 0]

VARIABLES
    now,        \* time(nullptr)
    taken,      \* mod.lastTime of every collector
    offered,    \* samples produced so far
    dataQueue,  \* dataQueue_ of the output
    od,         \* the sample the send thread holds
    sent,       \* history: samples send reported as written
    failed,     \* history: samples send reported as not written
    alive,      \* the output is in outputVec_
    lastTime,   \* lastTime_
    rotate,     \* rotate_
    made,       \* collectors whose table is there
    tables,     \* the rows of every table by sqlite's rowid
    pc,         \* "idle", "test", "purge", "exec": the send thread
    row,        \* the statement of od that is next
    reading,    \* collectors whose file dfsrrTool has locked
    tpc,        \* dfsrrTool: "idle", "read", "between", "again", "shown"
    lastN,      \* lastN of dfsrrTool
    shown       \* modData of dfsrrTool

clockVars == <<now, taken>>
queueVars == <<offered, dataQueue, alive>>
sendVars == <<od, sent, failed, pc, row>>
dbVars == <<lastTime, rotate, made, tables>>
toolVars == <<reading, tpc, lastN, shown>>
vars == <<clockVars, queueVars, sendVars, dbVars, toolVars>>

Init ==
    /\ now = Start
    /\ taken = [m \in Mod |-> 0]
    /\ offered = 0 /\ dataQueue = <<>> /\ alive = TRUE
    /\ od = NoSample /\ sent = <<>> /\ failed = {} /\ pc = "idle" /\ row = 1
    /\ lastTime = Start /\ rotate \in Rotations
    /\ made = {} /\ tables = [m \in Mod |-> <<>>]
    /\ reading = {} /\ tpc = "idle" /\ lastN = 1 /\ shown = <<>>

(* The test of Dfsrr::run. *)
Due(m) == now % intv = 0 /\ now - taken[m] >= intv

Pending == ToSet(dataQueue) \cup (IF pc = "idle" THEN {} ELSE {od})

(* Collectors need less than a second, the send thread takes an item every *)
(* 30 ms.                                                                  *)
Tick ==
    /\ now < MaxTime
    /\ \A m \in Mod : ~Due(m)
    /\ \A s \in Pending : now - s.ts < Lag
    /\ now' = now + 1
    /\ UNCHANGED <<taken, queueVars, sendVars, dbVars, toolVars>>

(* run: collect, and addData if there is an output. *)
Collect(m) ==
    /\ Due(m) /\ \A k \in 1..(m - 1) : ~Due(k)
    /\ taken' = [taken EXCEPT ![m] = now]
    /\ offered' = offered + 1
    /\ dataQueue' = IF ~alive \/ Len(dataQueue) > maxSize
                    THEN dataQueue
                    ELSE Append(dataQueue, [n |-> offered + 1, mod |-> m, ts |-> now])
    /\ UNCHANGED <<now, alive, sendVars, dbVars, toolVars>>

(* checkOutput makes a new output, whose constructor sets lastTime_.       *)
Recreate ==
    /\ ~alive
    /\ alive' = TRUE
    /\ lastTime' = now
    /\ UNCHANGED <<clockVars, offered, dataQueue, sendVars, rotate, made, tables, toolVars>>

Pop ==
    /\ pc = "idle" /\ alive /\ dataQueue # <<>>
    /\ od' = Head(dataQueue)
    /\ dataQueue' = Tail(dataQueue)
    /\ pc' = "test" /\ row' = 1
    /\ UNCHANGED <<clockVars, offered, alive, sent, failed, dbVars, toolVars>>

(* send: is it time to delete? *)
TestPeriod ==
    /\ pc = "test"
    /\ IF now - lastTime > Period
       THEN lastTime' = now /\ pc' = "purge"
       ELSE lastTime' = lastTime /\ pc' = "exec"
    /\ UNCHANGED <<clockVars, queueVars, od, sent, failed, row, rotate, made, tables, toolVars>>

(* lastTime_ - rotate_ is computed in 64 bits without sign. *)
Cutoff == (lastTime - rotate) % Width

(* Mutant of Kept: keeps the old rows. *)
KeptOld(t) == Restrict(t, {i \in DOMAIN t : t[i].ts < Cutoff})

Kept(t) == Restrict(t, {i \in DOMAIN t : ~(t[i].ts < Cutoff)})

(* delOldData: failures, a locked file among them, are only logged. *)
Purge ==
    /\ pc = "purge"
    /\ pc' = "exec"
    /\ tables' = IF od.mod \in made \ reading
                 THEN [tables EXCEPT ![od.mod] = Kept(@)]
                 ELSE tables
    /\ UNCHANGED <<clockVars, queueVars, od, sent, failed, row, lastTime, rotate, made, toolVars>>

(* createTable *)
CreateTable ==
    /\ pc = "exec" /\ od.mod \notin made
    /\ made' = made \cup {od.mod}
    /\ UNCHANGED <<clockVars, queueVars, sendVars, lastTime, rotate, tables, toolVars>>

Writable == pc = "exec" /\ od.mod \in made \ reading
ThisRow == [n |-> od.n, mod |-> od.mod, k |-> row, ts |-> od.ts]

(* A table has no key of its own: a row gets one more than the largest     *)
(* rowid there is.                                                         *)
NextId(t) == IF DOMAIN t = {} THEN 1 ELSE Max(DOMAIN t) + 1
Extended(t, r) == [i \in DOMAIN t \cup {NextId(t)} |-> IF i \in DOMAIN t THEN t[i] ELSE r]

(* Mutant of Insert: one statement more than the sample has. *)
InsertOver ==
    /\ Writable
    /\ tables' = [tables EXCEPT ![od.mod] = Extended(@, ThisRow)]
    /\ IF row <= Rows
       THEN row' = row + 1 /\ UNCHANGED <<od, sent, pc>>
       ELSE row' = 1 /\ od' = NoSample /\ sent' = Append(sent, od.n) /\ pc' = "idle"
    /\ UNCHANGED <<clockVars, queueVars, failed, lastTime, rotate, made, toolVars>>

(* One statement of the sample; with the last one send returns 0. *)
Insert ==
    /\ Writable
    /\ tables' = [tables EXCEPT ![od.mod] = Extended(@, ThisRow)]
    /\ IF row < Rows
       THEN row' = row + 1 /\ UNCHANGED <<od, sent, pc>>
       ELSE row' = 1 /\ od' = NoSample /\ sent' = Append(sent, od.n) /\ pc' = "idle"
    /\ UNCHANGED <<clockVars, queueVars, failed, lastTime, rotate, made, toolVars>>

(* Mutants of SendFails: the statements are tried again from the first, or *)
(* for ever while the file is locked; the output keeps its queue.          *)
SendFailsRetry ==
    /\ pc = "exec"
    /\ od.mod \in reading
    /\ row' = 1
    /\ UNCHANGED <<clockVars, queueVars, od, sent, failed, pc, dbVars, toolVars>>

SendFailsKeep ==
    /\ pc = "exec"
    /\ od.mod \in reading
    /\ failed' = failed \cup {od.n}
    /\ od' = NoSample /\ pc' = "idle" /\ row' = 1
    /\ alive' = FALSE
    /\ UNCHANGED <<clockVars, offered, dataQueue, sent, dbVars, toolVars>>

(* The file cannot be opened, the table not made, a statement not done, or *)
(* the file is locked: send returns -1, and the output is erased.          *)
SendFails ==
    /\ pc = "exec"
    /\ od.mod \in reading \/ Cardinality(failed) < MaxFails
    /\ failed' = failed \cup {od.n}
    /\ od' = NoSample /\ pc' = "idle" /\ row' = 1
    /\ dataQueue' = <<>> /\ alive' = FALSE
    /\ UNCHANGED <<clockVars, offered, sent, dbVars, toolVars>>

-----------------------------------------------------------------------------
(* dfsrrTool -w, RunMode::printLastNData.                                  *)

(* order by timestamp desc, rows of one time by rowid: the rows up to i,   *)
(* and all of them.                                                        *)
UpTo(t, i) == {j \in DOMAIN t : t[j].ts > t[i].ts \/ (t[j].ts = t[i].ts /\ j <= i)}
Desc(t) ==
    [p \in 1..Cardinality(DOMAIN t) |->
        t[CHOOSE i \in DOMAIN t : Cardinality(UpTo(t, i)) = p]]

Oldest(t) == t[Len(t)].ts
RowsAt(t, x) == Cardinality({i \in 1..Len(t) : t[i].ts = x})

(* The first select locks the file while it steps through the rows. *)
ReadStart(m, n) ==
    /\ tpc = "idle" /\ m \in made
    /\ tpc' = "read" /\ reading' = {m} /\ lastN' = n
    /\ shown' = SubSeq(Desc(tables[m]), 1, SmallerOf(n, Len(Desc(tables[m]))))
    /\ UNCHANGED <<clockVars, queueVars, sendVars, dbVars>>

(* where timestamp <= it->first, the oldest one that was shown. *)
Older(t) == Restrict(t, {i \in DOMAIN t : t[i].ts <= Oldest(shown)})

(* Mutant of Rest: the offset is left out. *)
RestAll(t) ==
    LET older == Desc(Older(t))
    IN SubSeq(older, 1, SmallerOf(lastN * (RowsAt(shown, shown[1].ts) - 1), Len(older)))

(* limit itSize, lastN * (ritSize - 1), of the rows up to the oldest one.  *)
Rest(t) ==
    LET older == Desc(Older(t))
        from  == RowsAt(shown, Oldest(shown))
    IN SubSeq(older, from + 1,
              SmallerOf(from + lastN * (RowsAt(shown, shown[1].ts) - 1), Len(older)))

(* A second select follows if the oldest sample has fewer or more rows     *)
(* than the newest.  The begin of an empty map is read for an empty table, *)
(* and ends the tool.                                                      *)
ReadEnd ==
    /\ tpc \in {"read", "again"}
    /\ reading' = {}
    /\ tpc' = IF shown = <<>> THEN "idle"
              ELSE IF tpc = "read" /\ RowsAt(shown, Oldest(shown)) # RowsAt(shown, shown[1].ts)
              THEN "between" ELSE "shown"
    /\ UNCHANGED <<clockVars, queueVars, sendVars, dbVars, lastN, shown>>

ReadAgain(m) ==
    /\ tpc = "between" /\ shown[1].mod = m
    /\ tpc' = "again" /\ reading' = {m}
    /\ shown' = shown \o Rest(tables[m])
    /\ UNCHANGED <<clockVars, queueVars, sendVars, dbVars, lastN>>

(* The rows are printed; or the second select fails. *)
ToolEnds ==
    /\ tpc \in {"between", "shown"}
    /\ tpc' = "idle" /\ shown' = <<>> /\ lastN' = 1
    /\ UNCHANGED <<clockVars, queueVars, sendVars, dbVars, reading>>

Next ==
    \/ Tick \/ (\E m \in Mod : Collect(m)) \/ Recreate
    \/ Pop \/ TestPeriod \/ Purge \/ CreateTable \/ Insert \/ SendFails
    \/ (\E m \in Mod : (\E n \in LastN : ReadStart(m, n)) \/ ReadAgain(m))
    \/ ReadEnd \/ ToolEnds

Spec == Init /\ [][Next]_vars

-----------------------------------------------------------------------------
Sample == [n : 1..offered, mod : Mod, ts : Nat]
StoredRow == [n : 1..offered, mod : Mod, k : 1..Rows, ts : Nat]

Table(t) ==
    /\ t = [i \in DOMAIN t |-> t[i]] /\ IsFiniteSet(DOMAIN t)
    /\ \A i \in DOMAIN t : i \in Nat \ {0} /\ t[i] \in StoredRow

TypeOK ==
    /\ now \in Start..MaxTime /\ taken \in [Mod -> Nat] /\ offered \in Nat
    /\ dataQueue \in Seq(Sample) /\ Len(dataQueue) <= maxSize + 1
    /\ alive \in BOOLEAN
    /\ pc \in {"idle", "test", "purge", "exec"}
    /\ od \in IF pc = "idle" THEN {NoSample} ELSE Sample
    /\ sent \in Seq(1..offered) /\ failed \subseteq 1..offered
    /\ lastTime \in Nat /\ lastTime <= now /\ rotate \in Nat
    /\ made \subseteq Mod /\ DOMAIN tables = Mod
    /\ \A m \in Mod : Table(tables[m]) /\ (DOMAIN tables[m] # {} => m \in made)
    /\ row \in 1..Rows /\ reading \subseteq Mod
    /\ tpc \in {"idle", "read", "between", "again", "shown"}
    /\ lastN \in Nat /\ shown \in Seq(StoredRow)

(* send tries again when a table is missing, and a failure in the middle   *)
(* of a sample leaves what is already committed: no row is ever stored     *)
(* twice, the rows of a sample are there from the first on without a gap,  *)
(* and only a sample in hand or one whose send failed lacks its last ones. *)
Has(t, n, k) == \E i \in DOMAIN t : t[i].n = n /\ t[i].k = k
Whole ==
    \A m \in Mod : LET t == tables[m] IN
        /\ \A i, j \in DOMAIN t : i < j => t[i].n < t[j].n \/ (t[i].n = t[j].n /\ t[i].k < t[j].k)
        /\ \A i \in DOMAIN t : \A k \in 1..(t[i].k - 1) : Has(t, t[i].n, k)
        /\ \A i \in DOMAIN t : Has(t, t[i].n, Rows) \/ t[i].n = od.n \/ t[i].n \in failed

(* delOldData costs no row that is younger than the configured rotation,   *)
(* whatever table, time and failures, unless lastTime_ - rotate_ wraps.    *)
OnlyOldPurged ==
    [][rotate <= lastTime' =>
        \A m \in Mod : \A r \in Range(tables[m]) \ Range(tables'[m]) : now - r.ts > rotate]_vars

(* The local output is the output of the module Output: what its send does *)
(* with tables and retries is a success or a failure there.                *)
Outp == INSTANCE Output WITH
            MaxOffered <- Modules * (MaxTime + 1),
            dataQueue <- [i \in 1..Len(dataQueue) |-> dataQueue[i].n],
            od <- od.n
ImplementsOutput == Outp!Spec

(* What dfsrrTool -w prints are the newest rows: none is printed twice or  *)
(* left out between others, and at least as many as were asked for are     *)
(* printed if there are, whatever the agent writes, purges or gives up     *)
(* between the two selects.                                                *)
ShownNewest ==
    tpc = "shown" =>
        /\ IsInjective(shown)
        /\ \A r \in Range(tables[shown[1].mod]) :
              /\ r.ts < shown[1].ts
              /\ r.ts > Oldest(shown) \/ Len(shown) < lastN
              => r \in ToSet(shown)
=============================================================================
