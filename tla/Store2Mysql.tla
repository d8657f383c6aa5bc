----------------------------- MODULE Store2Mysql -----------------------------
(***************************************************************************)
(* The server's way into the database: Store2Mysql                         *)
(* (src/src/dfsrrServer/store2Mysql.cpp) on top of MysqlDB                 *)
(* (src/src/common/mysqldb.cpp).  The event-loop thread queues statements  *)
(* with addData; the store thread pops one, and executes it outside the    *)
(* lock.  MysqlDB reconnects when a query finds that the server has gone   *)
(* away, but does not repeat the query, and a reconnection that fails      *)
(* leaves conn_ null, which the next query dereferences.                   *)
(*                                                                         *)
(* Statements are numbered in the order they are offered.                  *)
(***************************************************************************)
EXTENDS Naturals, Sequences

CONSTANTS
    maxSize,    \* maxSize_, 1024 in the code
    MaxOffered, \* bound: statements offered
    MaxBreaks   \* bound: connections the database ends

ASSUME StoreAssumption ==
    maxSize \in Nat /\ MaxOffered \in Nat /\ MaxBreaks \in Nat

None == 0       \* the store thread holds no statement

VARIABLES
    offered,    \* statements offered so far
    dataQueue,  \* dataQueue_
    sd,         \* the statement storeData holds between pop and execSql, or None
    stored,     \* statements the database executed
    conn,       \* conn_: "up", "broken" (the server ended it, the client does
                \* not know), "closed" (the client saw it end) or "null"
    dbUp,       \* the database server runs
    alive,      \* the process runs
    breaks,     \* history: connections that ended
    lost,       \* history: statements lost to a connection that ended
    buried,     \* history: statements lost with the process
    refused     \* history: statements discarded or rejected by the database

queueVars == <<offered, dataQueue, sd, stored>>
dbVars == <<conn, dbUp>>
histVars == <<breaks, lost, buried, refused>>
vars == <<queueVars, dbVars, alive, histVars>>

Held == IF sd = None THEN <<>> ELSE <<sd>>

(* The constructor connects, or the server does not come up. *)
Init ==
    /\ offered = 0 /\ dataQueue = <<>> /\ sd = None /\ stored = <<>>
    /\ conn = "up" /\ dbUp = TRUE
    /\ alive = TRUE
    /\ breaks = 0 /\ lost = 0 /\ buried = 0 /\ refused = 0

(* addData: the test is size() > maxSize_, so maxSize_ + 1 statements fit. *)
AddData ==
    /\ alive
    /\ offered < MaxOffered
    /\ offered' = offered + 1
    /\ IF Len(dataQueue) > maxSize
       THEN /\ refused' = refused + 1
            /\ UNCHANGED dataQueue
       ELSE /\ dataQueue' = Append(dataQueue, offered + 1)
            /\ UNCHANGED refused
    /\ UNCHANGED <<sd, stored, dbVars, alive, breaks, lost, buried>>

(* Mutants of Pop: waits for a second statement; drops the one it holds.   *)
PopLate ==
    /\ alive /\ sd = None
    /\ Len(dataQueue) > 1
    /\ sd' = Head(dataQueue)
    /\ dataQueue' = Tail(dataQueue)
    /\ UNCHANGED <<offered, stored, dbVars, alive, histVars>>

PopOver ==
    /\ alive
    /\ dataQueue # <<>>
    /\ sd' = Head(dataQueue)
    /\ dataQueue' = Tail(dataQueue)
    /\ UNCHANGED <<offered, stored, dbVars, alive, histVars>>

(* storeData, under the lock *)
Pop ==
    /\ alive
    /\ sd = None
    /\ dataQueue # <<>>
    /\ sd' = Head(dataQueue)
    /\ dataQueue' = Tail(dataQueue)
    /\ UNCHANGED <<offered, stored, dbVars, alive, histVars>>

(* execSql on a good connection: the database executes the statement ...   *)
ExecOk ==
    /\ alive /\ sd # None
    /\ conn = "up"
    /\ stored' = Append(stored, sd)
    /\ sd' = None
    /\ UNCHANGED <<offered, dataQueue, dbVars, alive, histVars>>

(* ... or rejects it: storeData logs that and goes on.                     *)
ExecRejected ==
    /\ alive /\ sd # None
    /\ conn = "up"
    /\ sd' = None
    /\ refused' = refused + 1
    /\ UNCHANGED <<offered, dataQueue, stored, dbVars, alive, breaks, lost, buried>>

(* The connection ends during the query ("Lost connection to MySQL server  *)
(* during query"): the statement may have been executed, execSql returns   *)
(* false and does not reconnect.                                           *)
LostDuringQuery ==
    /\ alive /\ sd # None
    /\ conn = "broken"
    /\ conn' = "closed"
    /\ sd' = None
    /\ \/ stored' = Append(stored, sd) /\ UNCHANGED lost
       \/ lost' = lost + 1 /\ UNCHANGED stored
    /\ UNCHANGED <<offered, dataQueue, dbUp, alive, breaks, buried, refused>>

(* Mutants of GoneAway: the statement is queued again; reconnect is        *)
(* forgotten.                                                              *)
GoneAwayRequeue ==
    /\ alive /\ sd # None
    /\ conn \in {"broken", "closed"}
    /\ conn' = IF dbUp THEN "up" ELSE "null"
    /\ sd' = None
    /\ dataQueue' = Append(dataQueue, sd)
    /\ UNCHANGED <<offered, stored, dbUp, alive, histVars>>

GoneAwayStay ==
    /\ alive /\ sd # None
    /\ conn \in {"broken", "closed"}
    /\ sd' = None
    /\ lost' = lost + 1
    /\ UNCHANGED <<offered, dataQueue, stored, dbVars, alive, breaks, buried, refused>>

(* "MySQL server has gone away": reconnect closes, connects, and execSql   *)
(* returns false whether that worked or not.                               *)
GoneAway ==
    /\ alive /\ sd # None
    /\ conn \in {"broken", "closed"}
    /\ conn' = IF dbUp THEN "up" ELSE "null"
    /\ sd' = None
    /\ lost' = lost + 1
    /\ UNCHANGED <<offered, dataQueue, stored, dbUp, alive, breaks, buried, refused>>

(* Mutant of ExecOnNull: the queue outlives the process. *)
ExecOnNullKeep ==
    /\ alive /\ sd # None
    /\ conn = "null"
    /\ alive' = FALSE
    /\ sd' = None
    /\ buried' = buried + 1
    /\ UNCHANGED <<offered, dataQueue, stored, dbVars, breaks, lost, refused>>

(* mysql_real_query(nullptr): the process ends, with everything queued. *)
ExecOnNull ==
    /\ alive /\ sd # None
    /\ conn = "null"
    /\ alive' = FALSE
    /\ dataQueue' = <<>>
    /\ sd' = None
    /\ buried' = buried + Len(dataQueue) + 1
    /\ UNCHANGED <<offered, stored, dbVars, breaks, lost, refused>>

(* Somebody starts the server again, the database being there. *)
Restart ==
    /\ ~alive
    /\ dbUp
    /\ alive' = TRUE
    /\ conn' = "up"
    /\ UNCHANGED <<queueVars, dbUp, histVars>>

(* The database ends the connection: it stops, or just closes it. *)
Break ==
    /\ conn = "up"
    /\ breaks < MaxBreaks
    /\ breaks' = breaks + 1
    /\ conn' = "broken"
    /\ dbUp' \in BOOLEAN
    /\ UNCHANGED <<queueVars, alive, lost, buried, refused>>

(* It may also stop while the server has no connection to it. *)
DbStop ==
    /\ conn # "up"
    /\ dbUp
    /\ dbUp' = FALSE
    /\ UNCHANGED <<queueVars, conn, alive, histVars>>

DbStart ==
    /\ ~dbUp
    /\ dbUp' = TRUE
    /\ UNCHANGED <<queueVars, conn, alive, histVars>>

Exec == ExecOk \/ ExecRejected \/ LostDuringQuery \/ GoneAway \/ ExecOnNull

Next ==
    \/ AddData \/ Pop \/ Exec
    \/ Restart \/ Break \/ DbStop \/ DbStart

Spec == Init /\ [][Next]_vars

(* The store thread looks every 10 ms, and queries return. *)
FairSpec == Spec /\ WF_vars(Pop) /\ WF_vars(Exec)

-----------------------------------------------------------------------------
(* Types of the variables, for every action. *)
TypeOK ==
    /\ offered \in Nat
    /\ dataQueue \in Seq(1..offered)
    /\ sd \in 0..offered
    /\ stored \in Seq(1..offered)
    /\ conn \in {"up", "broken", "closed", "null"}
    /\ dbUp \in BOOLEAN /\ alive \in BOOLEAN
    /\ breaks \in Nat /\ lost \in Nat /\ buried \in Nat /\ refused \in Nat

(* addData, storeData and execSql together are a bounded lossy queue.      *)
Fifo == INSTANCE LossyFifo WITH
            Cap <- maxSize + 2,
            backlog <- Held \o dataQueue,
            delivered <- stored,
            open <- alive

ImplementsFifo == Fifo!Spec

(* The rows in the database are in the order the agents' messages arrived, *)
(* none twice: no failure makes storeData repeat a statement.              *)
InOrder == Fifo!InOrder

(* Every statement is accounted for: stored, waiting, turned away, lost to *)
(* a connection that ended, or lost with the process.                      *)
Accounted ==
    LET held == IF sd = None THEN 0 ELSE 1
    IN  offered = Len(stored) + held + Len(dataQueue) + refused + lost + buried

(* A connection that ends costs at most two statements: the one whose      *)
(* reply is lost and the one that finds the server gone.                   *)
LossPerBreak == lost <= 2 * breaks

(* What was queued is popped or dies with the process. *)
Drains ==
    \A n \in 1..MaxOffered :
        (\E i \in 1..Len(dataQueue) : dataQueue[i] = n)
            ~> (\A i \in 1..Len(dataQueue) : dataQueue[i] # n)
=============================================================================
