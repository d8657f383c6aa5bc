---------------------------- MODULE SlsForwarder ----------------------------
(***************************************************************************)
(* The forwarder to the log service (src/slslog/src/sls).  A pass over one *)
(* table reads the cursor file, selects the rows behind the cursor, thins  *)
(* them to one row per `span` seconds, moves the cursor and only then      *)
(* sends the rows.  Saving truncates the file before it writes it.  The    *)
(* passes over the three tables share nothing but the database connection, *)
(* so one table is modelled.                                               *)
(*                                                                         *)
(* A row is its timestamp and the agent it is from.                        *)
(***************************************************************************)
EXTENDS Integers, FiniteSets

CONSTANTS
    Agent,      \* agents that report into the table
    span,       \* 300 in the code
    Limit,      \* rows one select returns, 10000 in the code
    Skew,       \* how far an agent's clock may be ahead of the forwarder's
    Delay,      \* how late a row may reach the table
    MaxTime,    \* bound: the clock
    MaxRows,    \* bound: rows in the table
    MaxLosses,  \* bound: cursors that did not reach the disk
    MaxFails    \* bound: sends that fail and crashes

ASSUME ForwarderAssumption ==
    /\ span \in Nat /\ Limit \in Nat \ {0} /\ Skew \in Nat /\ Delay \in Nat
    /\ MaxTime \in Nat /\ MaxRows \in Nat /\ MaxLosses \in Nat /\ MaxFails \in Nat

NoCursor == -1  \* the file is missing or empty; "-1" in the code
Time == 0..(MaxTime + Skew)
Row == [ts : Time, ip : Agent]
Cursors == {NoCursor} \cup 0..(MaxTime + Skew + span)

VARIABLES
    now,        \* time(nullptr)
    table,      \* the rows in the database
    file,       \* the cursor file
    pc,         \* "read", "select", "save", "write" (truncated), "send", "dead"
    lastTime,   \* what getLastTime read
    startTime,  \* the cursor sparse leaves
    dataList,   \* the rows sparse leaves
    times,      \* history: how often the log service got each row
    losses,     \* history: passes whose cursor did not reach the disk
    fails,      \* history: failed sends and crashes
    early,      \* history: rows that were ahead of the forwarder's clock
    late,       \* history: rows that came when the cursor was past them
    chosen,     \* history: rows some pass chose to send
    jump        \* history: where the last pass without a cursor put it

tableVars == <<now, table, early, late>>
passVars == <<lastTime, startTime, dataList>>
histVars == <<times, losses, fails, chosen, jump>>
vars == <<tableVars, file, pc, passVars, histVars>>

Init ==
    /\ now = 0 /\ table = {} /\ early = {} /\ late = {}
    /\ file = NoCursor /\ pc = "read"
    /\ lastTime = NoCursor /\ startTime = NoCursor /\ dataList = {}
    /\ times = [r \in Row |-> 0] /\ losses = 0 /\ fails = 0
    /\ chosen = {} /\ jump = NoCursor

Tick ==
    /\ now < MaxTime
    /\ now' = now + 1
    /\ UNCHANGED <<table, early, late, file, pc, passVars, histVars>>

(* Where the cursor is or, once the select is done, will be. *)
Passed == IF pc \in {"save", "write", "send"} THEN startTime ELSE file

(* An agent's row reaches the table. *)
Insert(r) ==
    /\ r \notin table
    /\ Cardinality(table) < MaxRows
    /\ r.ts >= now - Delay /\ r.ts <= now + Skew
    /\ table' = table \cup {r}
    /\ early' = IF r.ts > now THEN early \cup {r} ELSE early
    /\ late' = IF r.ts <= Passed THEN late \cup {r} ELSE late
    /\ UNCHANGED <<now, file, pc, passVars, histVars>>

(* getLastTime *)
ReadCursor ==
    /\ pc = "read"
    /\ lastTime' = file
    /\ pc' = "select"
    /\ UNCHANGED <<tableVars, file, startTime, dataList, histVars>>

(* The rows behind the cursor, and what of them selectData may return:     *)
(* the oldest ones.                                                        *)
Waiting(t) == {r \in table : r.ts > t}
Oldest(t) ==
    {S \in SUBSET Waiting(t) :
        /\ Cardinality(S) <= Limit
        /\ \A r \in S, q \in Waiting(t) \ S : r.ts <= q.ts}

(* sparse: in the order of timestamps a row is kept if it is behind the    *)
(* last one kept by more than span; of equal rows any one is the first.    *)
Sparse(S, t) ==
    {K \in SUBSET S :
       /\ \A r \in K : r.ts > t
       /\ \A r, q \in K : r = q \/ r.ts > q.ts + span \/ q.ts > r.ts + span
       /\ \A r \in S : r.ts > t => \E k \in K : k.ts <= r.ts /\ r.ts <= k.ts + span}

(* Mutant of Behind: the cursor stays where it was. *)
BehindStay(K, t) == t

(* Where sparse leaves startTime. *)
Behind(K, t) ==
    IF K = {} THEN t
    ELSE (CHOOSE k \in K : \A q \in K : q.ts <= k.ts).ts + span

(* Mutant of Cursor: every pass moves it to the present. *)
CursorNow(K) == now

(* A pass that found no cursor moves it to the present, whatever it sends. *)
Cursor(K) == IF lastTime = NoCursor THEN now ELSE Behind(K, lastTime)

(* getDfsrrData, sparse *)
Fetch(S) ==
    /\ pc = "select"
    /\ \E K \in Sparse(S, lastTime) :
         /\ dataList' = K
         /\ startTime' = Cursor(K)
         /\ chosen' = chosen \cup K
    /\ jump' = IF lastTime = NoCursor THEN now ELSE jump
    /\ pc' = "save"
    /\ UNCHANGED <<tableVars, file, lastTime, times, losses, fails>>

FetchOk ==
    \E S \in Oldest(lastTime) :
        (S = Waiting(lastTime) \/ Cardinality(S) = Limit) /\ Fetch(S)

(* The query fails; or the connection ends while execSql fetches the rows, *)
(* which it takes for the end of the result.                               *)
FetchCut == \E S \in Oldest(lastTime) : Fetch(S)

Truncate ==
    /\ pc = "save"
    /\ file' = NoCursor
    /\ pc' = "write"
    /\ UNCHANGED <<tableVars, passVars, histVars>>

(* Mutant of Write: the time that was read is saved. *)
WriteLast ==
    /\ pc = "write"
    /\ file' = lastTime
    /\ pc' = IF dataList = {} THEN "read" ELSE "send"
    /\ UNCHANGED <<tableVars, passVars, histVars>>

(* fwrite and fclose *)
Write ==
    /\ pc = "write"
    /\ file' = startTime
    /\ pc' = IF dataList = {} THEN "read" ELSE "send"
    /\ UNCHANGED <<tableVars, passVars, histVars>>

(* fopen or fwrite fails, which setLastTime at most logs; the rows are     *)
(* sent all the same.                                                      *)
SaveFails ==
    /\ pc \in {"save", "write"}
    /\ losses < MaxLosses
    /\ losses' = losses + 1
    /\ pc' = IF dataList = {} THEN "read" ELSE "send"
    /\ UNCHANGED <<tableVars, file, passVars, times, fails, chosen, jump>>

(* The count stops behind the highest that AtMostOnce allows. *)
MaxTimes == 2 * (MaxLosses + 1) + 1
Got(K) == [r \in Row |-> IF r \in K /\ times[r] < MaxTimes THEN times[r] + 1 ELSE times[r]]

SendOk ==
    /\ pc = "send"
    /\ times' = Got(dataList)
    /\ pc' = "read"
    /\ UNCHANGED <<tableVars, file, passVars, losses, fails, chosen, jump>>

(* An error, after which the service has the rows or not.  send reads the  *)
(* message of the result it destroyed: that ends the process or does not.  *)
SendFails ==
    /\ pc = "send"
    /\ fails < MaxFails
    /\ fails' = fails + 1
    /\ times' \in {times, Got(dataList)}
    /\ pc' \in {"read", "dead"}
    /\ UNCHANGED <<tableVars, file, passVars, losses, chosen, jump>>

(* The process is killed, dies of an exception or of a null connection.    *)
Crash ==
    /\ pc # "dead"
    /\ fails < MaxFails
    /\ fails' = fails + 1
    /\ losses' = IF pc = "write" THEN losses + 1 ELSE losses
    /\ losses' <= MaxLosses
    /\ pc' = "dead"
    /\ UNCHANGED <<tableVars, file, passVars, times, chosen, jump>>

Start ==
    /\ pc = "dead"
    /\ pc' = "read"
    /\ UNCHANGED <<tableVars, file, passVars, histVars>>

Next ==
    \/ Tick \/ (\E r \in Row : Insert(r))
    \/ ReadCursor \/ FetchOk \/ FetchCut \/ Truncate \/ Write \/ SaveFails
    \/ SendOk \/ SendFails \/ Crash \/ Start

Spec == Init /\ [][Next]_vars

(* The forwarder loops for ever and is started again when it died; the     *)
(* database answers again and again.                                       *)
FairSpec ==
    /\ Spec
    /\ WF_vars(ReadCursor) /\ WF_vars(Truncate) /\ WF_vars(Start)
    /\ SF_vars(FetchOk) /\ SF_vars(Write) /\ WF_vars(SendOk \/ SendFails)

-----------------------------------------------------------------------------
TypeOK ==
    /\ now \in 0..MaxTime
    /\ table \subseteq Row /\ early \subseteq table /\ late \subseteq table
    /\ {file, lastTime, startTime, jump} \subseteq Cursors
    /\ pc \in {"read", "select", "save", "write", "send", "dead"}
    /\ dataList \subseteq table
    /\ chosen \subseteq table
    /\ times \in [Row -> 0..MaxTimes] /\ losses \in Nat /\ fails \in Nat

(* main.cpp moves the cursor before it sends, so that a row is forwarded   *)
(* once at most: through failed sends, crashes and restarts a row goes out *)
(* twice only if a cursor did not reach the disk in between, or if it was  *)
(* ahead of the forwarder's clock when a pass without a cursor sent it.    *)
AtMostOnce ==
    \A r \in table :
        times[r] <= (losses + 1) * (IF r \in early THEN 2 ELSE 1)

(* What the cursor leaves behind for ever is thinned, not lost: a row it   *)
(* passed came late, is older than a pass that started without a cursor,   *)
(* or has a row within span before it that a pass chose to send.           *)
PassedOver ==
    \A r \in table \ late :
        jump < r.ts /\ r.ts <= file =>
            \E k \in chosen : k.ts <= r.ts /\ r.ts <= k.ts + span

(* Every row is passed in the end: whatever fails, the forwarder does not  *)
(* get stuck at a row.                                                     *)
CatchesUp == \A t \in Time : (\E r \in table : r.ts = t) ~> file >= t
=============================================================================
