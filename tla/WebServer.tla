----------------------------- MODULE WebServer -----------------------------
(***************************************************************************)
(* The queries of the web server (src/src/dfsrrWebServer/dfsrr.cpp,        *)
(* dfsrrExporter.cpp).  One thread runs the handlers one after the other.  *)
(* /dfsrr keeps the parameters of a request in members of one object that  *)
(* serves all requests; /metrics asks the database for every collector in  *)
(* turn.  Each has a MySQL connection of its own, with the execSql that    *)
(* the store uses, too (see Store2Mysql).                                  *)
(***************************************************************************)
EXTENDS Naturals, FiniteSets

CONSTANTS
    Module,     \* moduleSet_ and mods_
    Value,      \* values of a metric, startTime, endTime or ip parameter
    Asked,      \* the requests clients send to /dfsrr
    MaxBreaks   \* bound: connections that end

None == "none"  \* a parameter that is not given, an empty member
Bad == "bad"    \* a value the handler refuses
NotNumber == 0  \* a watch parameter stoi refuses; watch_ at first

(* What a client may ask for with GET, the only method that gets a reply;  *)
(* watch is 10 if it is not given.                                         *)
Select == [to : {"select"}, module : Module \cup {Bad}, watch : {NotNumber, 10, 60},
           metric : Value \cup {None, Bad},
           start : Value \cup {None}, end : Value \cup {None}, ip : Value \cup {None}]
Scrape == [to : {"metrics"}]

ASSUME WebAssumption == Asked \subseteq Select /\ MaxBreaks \in Nat

NoRequest == [to |-> None]
Handlers == {"select", "metrics"}

VARIABLES
    req,        \* the request whose handler runs
    members,    \* mod_, watch_, metric_, startTime_, endTime_, ip_
    todo,       \* collectors the exporter has still to ask for
    data,       \* collectors whose rows it has
    reply,      \* the last reply
    conn,       \* of each handler: "up", "broken", "closed", "null"
    dbUp,       \* the database runs
    alive,      \* the process runs
    breaks,     \* history: connections that ended
    failing     \* history: a query of this request failed or was cut

dbVars == <<conn, dbUp, breaks>>
vars == <<req, members, todo, data, reply, dbVars, alive, failing>>

NoReply == [to |-> NoRequest]
Fields == {"mod", "watch", "metric", "start", "end", "ip"}

Init ==
    /\ req = NoRequest /\ reply = NoReply
    /\ members = [[f \in Fields |-> None] EXCEPT !["watch"] = NotNumber]
    /\ todo = {} /\ data = {}
    /\ conn = [h \in Handlers |-> "up"] /\ dbUp = TRUE /\ breaks = 0
    /\ alive = TRUE /\ failing = FALSE

(* A request is read. *)
Request(r) ==
    /\ alive /\ req = NoRequest
    /\ req' = r
    /\ todo' = IF r.to = "metrics" THEN Module ELSE {}
    /\ data' = {} /\ reply' = NoReply /\ failing' = FALSE
    /\ UNCHANGED <<members, dbVars, alive>>

Reply(code, sel, d) ==
    /\ reply' = [to |-> req, code |-> code, mod |-> members'["mod"], sel |-> sel, data |-> d]
    /\ req' = NoRequest

(* doRun: an unknown module; the reply names the module of before. *)
UnknownModule ==
    /\ alive /\ req.to = "select" /\ todo = {}
    /\ req.module \notin Module
    /\ members' = members
    /\ Reply("param", None, {})
    /\ UNCHANGED <<todo, data, dbVars, alive, failing>>

(* Mutant of Watch: the number of rows is not capped. *)
WatchOver(r) == r.watch

(* At most 50 rows are asked for. *)
Watch(r) == IF r.watch > 50 THEN 50 ELSE r.watch

(* parseCommonParam returns early: the members behind stay as they are.    *)
ParamError ==
    /\ alive /\ req.to = "select" /\ todo = {}
    /\ req.module \in Module /\ (req.watch = NotNumber \/ req.metric = Bad)
    /\ members' = [members EXCEPT
                     !["mod"] = req.module,
                     !["watch"] = IF req.watch = NotNumber THEN 10 ELSE Watch(req),
                     !["metric"] = IF req.watch = NotNumber THEN @ ELSE req.metric]
    /\ Reply("param", None, {})
    /\ UNCHANGED <<todo, data, dbVars, alive, failing>>

(* Mutant of Parsed: startTime_ is not cleared. *)
ParsedKept(r, e) ==
    [mod |-> r.module, watch |-> Watch(r), metric |-> r.metric,
     start |-> IF r.start = None THEN members["start"] ELSE r.start,
     end |-> e, ip |-> r.ip]

(* The members after parseCommonParam; e is what endTime_ becomes. *)
Parsed(r, e) ==
    [mod |-> r.module, watch |-> Watch(r), metric |-> r.metric,
     start |-> r.start, end |-> e, ip |-> r.ip]

(* endTime_ = startIt->second: what endTime was is not looked at, and      *)
(* without startTime it reads behind the map, which may be anything.       *)
Parse ==
    /\ alive /\ req.to = "select" /\ todo = {}
    /\ req.module \in Module /\ req.watch # NotNumber /\ req.metric # Bad
    /\ IF req.end # None /\ req.start = None
       THEN /\ alive' \in BOOLEAN
            /\ \E e \in Value \cup {None} : members' = Parsed(req, e)
       ELSE /\ members' = Parsed(req, IF req.end = None THEN None ELSE req.start)
            /\ UNCHANGED alive
    /\ todo' = {req.module}
    /\ UNCHANGED <<req, data, reply, dbVars, failing>>

-----------------------------------------------------------------------------
(* execSql on the connection of handler h, with the rows or without.       *)
ExecRows(h) == conn[h] = "up" /\ UNCHANGED <<dbVars, alive>>

(* The database ends the connection of h, which becomes c, or stops.      *)
Ends(h, c) ==
    /\ breaks < MaxBreaks /\ breaks' = breaks + 1
    /\ dbUp' \in {FALSE, dbUp}
    /\ conn' = [k \in DOMAIN conn |->
                  IF k = h THEN c ELSE IF conn[k] = "up" /\ ~dbUp' THEN "broken" ELSE conn[k]]

(* The connection ends while rows are fetched: that looks like their end.  *)
ExecCut(h) == conn[h] = "up" /\ Ends(h, "closed") /\ UNCHANGED alive

(* Mutant of ExecFalse: any error drops the connection. *)
ExecFalseDrops(h) ==
    /\ conn[h] # "null" /\ conn' = [conn EXCEPT ![h] = "null"]
    /\ UNCHANGED <<dbUp, breaks, alive>>

(* An error; only "gone away" makes execSql connect again. *)
ExecFalse(h) ==
    /\ \/ conn[h] = "up" /\ conn' = conn
       \/ conn[h] = "broken" /\ conn' = [conn EXCEPT ![h] = "closed"]
       \/ /\ conn[h] \in {"broken", "closed"}
          /\ conn' = [conn EXCEPT ![h] = IF dbUp THEN "up" ELSE "null"]
    /\ UNCHANGED <<dbUp, breaks, alive>>

(* A query without a connection ends the process. *)
ExecOnNull(h) ==
    /\ alive /\ todo # {} /\ req.to = h
    /\ conn[h] = "null"
    /\ alive' = FALSE
    /\ UNCHANGED <<req, members, todo, data, reply, dbVars, failing>>

(* selectData and the reply to /dfsrr *)
SelectOk ==
    /\ alive /\ req.to = "select" /\ todo # {}
    /\ ExecRows("select") \/ ExecCut("select")
    /\ todo' = {} /\ members' = members
    /\ Reply("success", members, {})
    /\ UNCHANGED <<data, failing>>

(* Mutant of SelectFails: the request starts anew. *)
SelectFailsRetry ==
    /\ alive /\ req.to = "select" /\ todo # {}
    /\ ExecFalse("select")
    /\ todo' = {}
    /\ UNCHANGED <<req, members, data, reply, failing>>

SelectFails ==
    /\ alive /\ req.to = "select" /\ todo # {}
    /\ ExecFalse("select")
    /\ todo' = {} /\ members' = members
    /\ Reply("server", None, {})
    /\ UNCHANGED <<data, failing>>

(* getMetgrics: the next collector; the order tells nothing here. *)
MetricRows(m) ==
    /\ alive /\ req.to = "metrics" /\ m \in todo
    /\ ExecRows("metrics")
    /\ data' = data \cup {m} /\ todo' = todo \ {m}
    /\ UNCHANGED <<req, members, reply, failing>>

(* Mutant of MetricSkipped: nothing is asked. *)
MetricSkippedAny(m) ==
    /\ alive /\ req.to = "metrics" /\ m \in todo
    /\ todo' = todo \ {m}
    /\ UNCHANGED <<req, members, data, reply, dbVars, alive, failing>>

(* A failed query is skipped, one that was cut gives no row. *)
MetricSkipped(m) ==
    /\ alive /\ req.to = "metrics" /\ m \in todo
    /\ ExecFalse("metrics") \/ ExecCut("metrics")
    /\ todo' = todo \ {m} /\ failing' = TRUE
    /\ UNCHANGED <<req, members, data, reply>>

(* The reply to /metrics is a success in any case. *)
MetricsDone ==
    /\ alive /\ req.to = "metrics" /\ todo = {}
    /\ members' = members
    /\ Reply("success", None, data)
    /\ UNCHANGED <<todo, data, dbVars, alive, failing>>

-----------------------------------------------------------------------------
(* A connection ends that was idle for long, or the database stops. *)
Break(h) ==
    /\ conn[h] = "up" /\ Ends(h, "broken")
    /\ UNCHANGED <<req, members, todo, data, reply, alive, failing>>

DbStart ==
    /\ ~dbUp
    /\ dbUp' = TRUE
    /\ UNCHANGED <<req, members, todo, data, reply, conn, breaks, alive, failing>>

Handler ==
    \/ UnknownModule \/ ParamError \/ Parse \/ SelectOk \/ SelectFails
    \/ (\E m \in Module : MetricRows(m) \/ MetricSkipped(m)) \/ MetricsDone
    \/ (\E h \in Handlers : ExecOnNull(h))

Next ==
    \/ \E r \in Asked \cup Scrape : Request(r)
    \/ Handler
    \/ \E h \in Handlers : Break(h)
    \/ DbStart

Spec == Init /\ [][Next]_vars

(* The event loop runs the handler to its end; mysql_real_query returns.   *)
FairSpec == Spec /\ WF_vars(Handler)
-----------------------------------------------------------------------------
TypeOK ==
    /\ req \in Asked \cup Scrape \cup {NoRequest}
    /\ DOMAIN members = Fields
    /\ members["mod"] \in Module \cup {None} /\ members["watch"] \in {NotNumber, 10, 50}
    /\ \A f \in {"start", "end", "ip"} : members[f] \in Value \cup {None}
    /\ todo \subseteq Module /\ data \subseteq Module
    /\ conn \in [Handlers -> {"up", "broken", "closed", "null"}]
    /\ \A h \in Handlers : conn[h] = "up" => dbUp
    /\ breaks \in 0..MaxBreaks
    /\ dbUp \in BOOLEAN /\ alive \in BOOLEAN /\ failing \in BOOLEAN

(* The members outlive the request, early returns leave some of them as    *)
(* they were; a successful reply to /dfsrr has all the same the rows this  *)
(* request asked for: no module, metric, number, window or address of an   *)
(* earlier one.  (What endTime asks for is not what it does, see Parse.)   *)
ReplyFits ==
    reply.to # NoRequest /\ reply.to.to = "select" /\ reply.code = "success" =>
        LET r == reply.to IN
        /\ reply.mod = r.module /\ reply.sel["mod"] = r.module
        /\ reply.sel["watch"] = Watch(r) /\ reply.sel["metric"] = r.metric
        /\ reply.sel["start"] = r.start /\ reply.sel["ip"] = r.ip
        /\ r.end = None => reply.sel["end"] = None

(* /metrics always reports success; it lacks a collector only if a query   *)
(* of this very request failed or was cut.                                 *)
MetricsWhole ==
    reply.to = [to |-> "metrics"] => reply.data = Module \/ failing

(* What ends the web server: endTime without startTime, or a query after a *)
(* connection ended and could not be made anew.                            *)
EndNeedsCause ==
    ~alive =>
        \/ req.to = "select" /\ req.end # None /\ req.start = None
        \/ req.to \in Handlers /\ conn[req.to] = "null" /\ breaks > 0

(* Every GET gets its reply, failed queries or not, or the process ends.   *)
Answered == req # NoRequest ~> req = NoRequest \/ ~alive
=============================================================================
