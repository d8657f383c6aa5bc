----------------------------- MODULE Web_proofs -----------------------------
(***************************************************************************)
(* Theorems about the web server, for any modules, values and requests,    *)
(* any number of clients and descriptors.                                  *)
(*                                                                         *)
(* WebServer: a successful reply has the rows that were asked for, the     *)
(* exporter's reply is whole unless a query of it failed, and the process  *)
(* ends only for a cause.  HttpFiles: every descriptor in use is accounted *)
(* for, and a socket is lost only when a number was given out too early.   *)
(***************************************************************************)
EXTENDS WebServer, HttpFiles, FiniteSetTheorems, WellFoundedInduction, TLAPS

(***************************************************************************)
(* WebServer                                                               *)
(***************************************************************************)
(* The members are those the request asked for. *)
Fits(m, r) ==
    /\ m["mod"] = r.module /\ m["watch"] = Watch(r) /\ m["metric"] = r.metric
    /\ m["start"] = r.start /\ m["ip"] = r.ip
    /\ r.end = None => m["end"] = None

(* Nothing ends a connection but the database. *)
BreaksCounted ==
    breaks = 0 => dbUp /\ \A h \in Handlers : conn[h] = "up"

(* A query is only made once the members fit the request; the exporter has *)
(* the rows of every collector it has done with.                           *)
WebInv ==
    /\ TypeOK /\ members = [f \in Fields |-> members[f]]
    /\ BreaksCounted
    /\ req.to = "select" /\ todo # {} => Fits(members, req)
    /\ req.to = "metrics" => todo \cup data = Module \/ failing
    /\ ReplyFits /\ MetricsWhole /\ EndNeedsCause

(* What a request may be. *)
LEMMA RequestFacts ==
  ASSUME NEW r \in Asked \cup Scrape \cup {NoRequest}
  PROVE  /\ r.to \in {"select", "metrics", None}
         /\ r.to = "select" =>
               /\ r.module \in Module \cup {Bad} /\ r.watch \in {NotNumber, 10, 60}
               /\ r.start \in Value \cup {None} /\ r.end \in Value \cup {None}
               /\ r.ip \in Value \cup {None}
         /\ r.to = "metrics" <=> r = [to |-> "metrics"]
  BY WebAssumption DEF Select, Scrape, NoRequest, None

(* The invariant holds initially. *)
LEMMA WebInit == Init => WebInv
  <1> SUFFICES ASSUME Init PROVE WebInv
    OBVIOUS
  <1>1. /\ DOMAIN members = Fields /\ members = [f \in Fields |-> members[f]]
        /\ members["watch"] = NotNumber /\ members["mod"] = None
        /\ members["start"] = None /\ members["end"] = None /\ members["ip"] = None
    BY DEF Init, Fields
  <1>2. req \in Asked \cup Scrape \cup {NoRequest} /\ breaks \in 0..MaxBreaks
    BY WebAssumption DEF Init
  <1>5. dbUp \in BOOLEAN /\ alive \in BOOLEAN /\ failing \in BOOLEAN
    BY DEF Init
  <1>3. /\ conn \in [Handlers -> {"up", "broken", "closed", "null"}]
        /\ \A h \in Handlers : conn[h] = "up" => dbUp
    BY DEF Init
  <1>4. TypeOK
    BY <1>1, <1>2, <1>3, <1>5 DEF Init, TypeOK, NotNumber
  <1> QED
    BY <1>1, <1>4 DEF Init, WebInv, BreaksCounted, ReplyFits, MetricsWhole, EndNeedsCause,
                      NoReply, NoRequest, None, Handlers

(* What the connections and the database are. *)
DbOK ==
    /\ conn \in [Handlers -> {"up", "broken", "closed", "null"}]
    /\ \A h \in Handlers : conn[h] = "up" => dbUp
    /\ breaks \in 0..MaxBreaks /\ dbUp \in BOOLEAN
    /\ BreaksCounted

(* Whatever a query or the database does to the connections, they are what *)
(* they may be, a connection that is null stays so until the process ends  *)
(* and nothing that broke is forgotten.                                    *)
LEMMA DbStep ==
  ASSUME DbOK, NEW h \in Handlers,
         ExecRows(h) \/ ExecCut(h) \/ ExecFalse(h) \/ (Break(h) \/ DbStart) \/ UNCHANGED dbVars
  PROVE  /\ DbOK'
         /\ breaks' >= breaks
  <1>m. MaxBreaks \in Nat
    BY WebAssumption
  <1>1. CASE ExecRows(h) \/ UNCHANGED dbVars
    BY <1>1 DEF ExecRows, dbVars, DbOK, BreaksCounted
  <1>2. ASSUME NEW c \in {"closed", "broken"}, Ends(h, c)
        PROVE  DbOK' /\ breaks' >= breaks
    <2>1. breaks' \in 0..MaxBreaks /\ breaks' > 0 /\ breaks' >= breaks
      BY <1>2, <1>m DEF Ends, DbOK
    <2>2. dbUp' \in BOOLEAN /\ (dbUp' => dbUp)
      <3>1. dbUp' = FALSE \/ dbUp' = dbUp
        BY <1>2, Zenon DEF Ends
      <3>2. dbUp \in BOOLEAN
        BY DEF DbOK
      <3>3. dbUp' \in BOOLEAN
        BY <3>1, <3>2
      <3>4. dbUp' => dbUp
        BY <3>1
      <3> QED  BY <3>3, <3>4
    <2>3. conn' \in [Handlers -> {"up", "broken", "closed", "null"}]
      BY <1>2 DEF Ends, DbOK
    <2>4. ASSUME NEW k \in Handlers, conn'[k] = "up" PROVE dbUp'
      BY <1>2, <2>2, <2>4 DEF Ends, DbOK
    <2> QED  BY <2>1, <2>2, <2>3, <2>4 DEF DbOK, BreaksCounted
  <1>3. CASE ExecCut(h) \/ Break(h)
    BY <1>2, <1>3 DEF ExecCut, Break
  <1>4. CASE ExecFalse(h)
    <2>1. dbUp' = dbUp /\ breaks' = breaks
      BY <1>4 DEF ExecFalse
    <2>2. conn' \in [Handlers -> {"up", "broken", "closed", "null"}]
      BY <1>4 DEF ExecFalse, DbOK
    <2>3. ASSUME NEW k \in Handlers, conn'[k] = "up" PROVE dbUp
      BY <1>4, <2>3 DEF ExecFalse, DbOK
    <2>4. breaks = 0 => conn' = conn
      BY <1>4 DEF ExecFalse, DbOK, BreaksCounted
    <2> QED  BY <2>1, <2>2, <2>3, <2>4 DEF DbOK, BreaksCounted
  <1>5. CASE DbStart
    BY <1>5 DEF DbStart, DbOK, BreaksCounted
  <1> QED  BY <1>1, <1>3, <1>4, <1>5

(* What the members are. *)
MembersOK ==
    /\ DOMAIN members = Fields /\ members = [f \in Fields |-> members[f]]
    /\ members["mod"] \in Module \cup {None} /\ members["watch"] \in {NotNumber, 10, 50}
    /\ \A f \in {"start", "end", "ip"} : members[f] \in Value \cup {None}

(* What the requests and the exporter's work are. *)
WorkOK ==
    /\ req \in Asked \cup Scrape \cup {NoRequest}
    /\ todo \subseteq Module /\ data \subseteq Module
    /\ alive \in BOOLEAN /\ failing \in BOOLEAN

(* The parts of the invariant that relate a request to what is done for it.*)
Served ==
    /\ req.to = "select" /\ todo # {} => Fits(members, req)
    /\ req.to = "metrics" => todo \cup data = Module \/ failing

(* The invariant in these parts. *)
LEMMA WebParts ==
  WebInv <=> /\ DbOK /\ MembersOK /\ WorkOK /\ Served
             /\ ReplyFits /\ MetricsWhole /\ EndNeedsCause
  BY DEF WebInv, TypeOK, DbOK, MembersOK, WorkOK, Served

LEMMA WebTogether ==
  ASSUME DbOK', MembersOK', WorkOK', Served', ReplyFits', MetricsWhole', EndNeedsCause'
  PROVE  WebInv'
  BY DEF WebInv, TypeOK, DbOK, MembersOK, WorkOK, Served

(* A request that is read asks for nothing yet, or for everything. *)
LEMMA RequestStep ==
  ASSUME WebInv, NEW r \in Asked \cup Scrape, Request(r)
  PROVE  WebInv'
  <1>1. DbOK' /\ MembersOK'
    BY WebParts DEF Request, DbOK, dbVars, BreaksCounted, MembersOK
  <1>2. WorkOK'
    BY WebParts DEF Request, WorkOK
  <1>3. Served'
    BY RequestFacts DEF Request, Served
  <1>4. ReplyFits' /\ MetricsWhole' /\ EndNeedsCause'
    BY DEF Request, ReplyFits, MetricsWhole, EndNeedsCause, NoReply, NoRequest, None
  <1> QED  BY <1>1, <1>2, <1>3, <1>4, WebTogether

(* A query for parameters that are refused leaves members of the request   *)
(* before; the reply is no success.                                        *)
LEMMA RefusedStep ==
  ASSUME WebInv, UnknownModule \/ ParamError
  PROVE  WebInv'
  <1>r. /\ req.to = "select" /\ req \in Asked \cup Scrape \cup {NoRequest}
        /\ req.watch \in {NotNumber, 10, 60}
    BY WebParts, RequestFacts DEF UnknownModule, ParamError, WorkOK
  <1>1. DbOK'
    BY WebParts DEF UnknownModule, ParamError, DbOK, dbVars, BreaksCounted
  <1>2. WorkOK' /\ Served'
    BY WebParts DEF UnknownModule, ParamError, Reply, WorkOK, Served, NoRequest, None
  <1>3. MembersOK'
    <2>1. CASE UnknownModule
      BY <2>1, WebParts DEF UnknownModule, MembersOK
    <2>2. CASE ParamError
      <3>1. Watch(req) \in {NotNumber, 10, 50}
        BY <1>r DEF Watch, NotNumber
      <3>2. DOMAIN members' = Fields /\ members' = [f \in Fields |-> members'[f]]
        BY <2>2, WebParts DEF ParamError, MembersOK
      <3>3. /\ members'["mod"] = req.module /\ req.module \in Module
            /\ members'["watch"] \in {10, Watch(req)}
            /\ \A f \in {"start", "end", "ip"} : members'[f] = members[f]
        BY <2>2, WebParts DEF ParamError, MembersOK, Fields
      <3> QED  BY <3>1, <3>2, <3>3, WebParts DEF MembersOK
    <2> QED  BY <2>1, <2>2
  <1>4. ReplyFits' /\ MetricsWhole' /\ EndNeedsCause'
    <2>1. reply'.code = "param" /\ reply'.to = req /\ alive'
      BY DEF UnknownModule, ParamError, Reply
    <2> QED  BY <1>r, <2>1 DEF ReplyFits, MetricsWhole, EndNeedsCause
  <1> QED  BY <1>1, <1>2, <1>3, <1>4, WebTogether

(* Parameters that are taken over fit the request. *)
LEMMA ParseStep ==
  ASSUME WebInv, Parse
  PROVE  WebInv'
  <1>r. /\ req.to = "select" /\ req \in Asked \cup Scrape \cup {NoRequest}
        /\ req.watch \in {NotNumber, 10, 60}
        /\ req.start \in Value \cup {None} /\ req.ip \in Value \cup {None}
    BY WebParts, RequestFacts DEF Parse, WorkOK
  <1>1. DbOK'
    BY WebParts DEF Parse, DbOK, dbVars, BreaksCounted
  <1>2. PICK e \in Value \cup {None} :
           /\ members' = Parsed(req, e)
           /\ req.end = None => e = None
    BY <1>r DEF Parse
  <1>3. MembersOK'
    <2>1. Watch(req) \in {NotNumber, 10, 50}
      BY <1>r DEF Watch, NotNumber
    <2> QED  BY <1>r, <1>2, <2>1 DEF Parse, Parsed, MembersOK, Fields
  <1>4. WorkOK'
    <2>1. alive' \in BOOLEAN
      BY WebParts DEF Parse, WorkOK
    <2> QED  BY <2>1, WebParts DEF Parse, WorkOK
  <1>5. Served'
    <2>1. Fits(members', req)
      BY <1>2 DEF Fits, Parsed
    <2> QED  BY <1>r, <2>1 DEF Served, Parse
  <1>6. ReplyFits' /\ MetricsWhole' /\ EndNeedsCause'
    <2>1. ReplyFits' /\ MetricsWhole'
      BY WebParts DEF Parse, ReplyFits, MetricsWhole
    <2>2. EndNeedsCause'
      BY <1>r DEF Parse, EndNeedsCause
    <2> QED  BY <2>1, <2>2
  <1> QED  BY <1>1, <1>3, <1>4, <1>5, <1>6, WebTogether

(* The reply to a query has the rows of the members, if it has any. *)
LEMMA SelectStep ==
  ASSUME WebInv, SelectOk \/ SelectFails
  PROVE  WebInv'
  <1>r. req.to = "select" /\ todo # {} /\ members' = members /\ Fits(members, req)
    BY WebParts DEF SelectOk, SelectFails, Served
  <1>1. DbOK' /\ alive' = alive
    <2>1. ExecRows("select") \/ ExecCut("select") \/ ExecFalse("select")
      BY DEF SelectOk, SelectFails
    <2>2. "select" \in Handlers
      BY DEF Handlers
    <2> QED  BY <2>1, <2>2, DbStep, WebParts DEF ExecRows, ExecCut, ExecFalse
  <1>2. WorkOK' /\ Served'
    BY <1>1, WebParts DEF SelectOk, SelectFails, Reply, WorkOK, Served, NoRequest, None
  <1>3. MembersOK'
    BY <1>r, WebParts DEF MembersOK
  <1>4. MetricsWhole' /\ EndNeedsCause'
    <2>1. reply'.to = req /\ alive'
      BY <1>1 DEF SelectOk, SelectFails, Reply
    <2> QED  BY <1>r, <2>1 DEF MetricsWhole, EndNeedsCause
  <1>5. ReplyFits'
    <2>1. CASE SelectOk
      <3>1. /\ reply'.to = req /\ reply'.mod = members["mod"] /\ reply'.sel = members
        BY <1>r, <2>1 DEF SelectOk, Reply
      <3> QED  BY <1>r, <3>1 DEF ReplyFits, Fits
    <2>2. CASE SelectFails
      BY <2>2 DEF SelectFails, Reply, ReplyFits
    <2> QED  BY <2>1, <2>2
  <1> QED  BY <1>1, <1>2, <1>3, <1>4, <1>5, WebTogether

(* A collector is done with when its rows are there or its query failed.   *)
LEMMA MetricStep ==
  ASSUME WebInv, NEW m \in Module, MetricRows(m) \/ MetricSkipped(m)
  PROVE  WebInv'
  <1>r. req.to = "metrics" /\ UNCHANGED <<req, members, reply>>
    BY DEF MetricRows, MetricSkipped
  <1>1. DbOK' /\ alive' = alive /\ alive
    <2>1. ExecRows("metrics") \/ ExecCut("metrics") \/ ExecFalse("metrics")
      BY DEF MetricRows, MetricSkipped
    <2>2. "metrics" \in Handlers /\ alive
      BY DEF Handlers, MetricRows, MetricSkipped
    <2> QED  BY <2>1, <2>2, DbStep, WebParts DEF ExecRows, ExecCut, ExecFalse
  <1>2. WorkOK'
    BY <1>1, <1>r, WebParts DEF MetricRows, MetricSkipped, WorkOK
  <1>3. Served'
    <2>1. CASE MetricRows(m)
      BY <1>r, <2>1, WebParts DEF MetricRows, Served, WorkOK
    <2>2. CASE MetricSkipped(m)
      BY <1>r, <2>2 DEF MetricSkipped, Served
    <2> QED  BY <2>1, <2>2
  <1>4. MembersOK' /\ ReplyFits'
    BY <1>r, WebParts DEF MembersOK, ReplyFits
  <1>5. MetricsWhole'
    <2>1. failing => failing'
      BY DEF MetricRows, MetricSkipped
    <2> QED  BY <1>r, <2>1, WebParts DEF MetricsWhole
  <1>6. EndNeedsCause'
    BY <1>1 DEF EndNeedsCause
  <1> QED  BY <1>1, <1>2, <1>3, <1>4, <1>5, <1>6, WebTogether

(* When every collector is done with, the reply has all that did not fail. *)
LEMMA MetricsDoneStep ==
  ASSUME WebInv, MetricsDone
  PROVE  WebInv'
  <1>r. /\ req.to = "metrics" /\ todo = {} /\ (data = Module \/ failing)
        /\ req' = NoRequest /\ reply'.to = req /\ reply'.data = data
        /\ UNCHANGED <<todo, data, dbVars, alive, failing>> /\ members' = members /\ alive
    BY WebParts DEF MetricsDone, Reply, Served
  <1>1. DbOK' /\ MembersOK'
    BY <1>r, WebParts DEF DbOK, dbVars, BreaksCounted, MembersOK
  <1>2. WorkOK' /\ Served'
    BY <1>r, WebParts DEF WorkOK, Served, NoRequest, None
  <1>3. ReplyFits' /\ MetricsWhole' /\ EndNeedsCause'
    BY <1>r DEF ReplyFits, MetricsWhole, EndNeedsCause
  <1> QED  BY <1>1, <1>2, <1>3, WebTogether

(* A query on a null connection: it was made null after a break. *)
LEMMA NullStep ==
  ASSUME WebInv, NEW h \in Handlers, ExecOnNull(h)
  PROVE  WebInv'
  <1>r. UNCHANGED <<req, members, todo, data, reply, dbVars, failing>> /\ ~alive'
    BY DEF ExecOnNull
  <1>1. DbOK' /\ MembersOK' /\ Served' /\ ReplyFits' /\ MetricsWhole'
    BY <1>r, WebParts DEF DbOK, dbVars, BreaksCounted, MembersOK, Served, ReplyFits, MetricsWhole
  <1>2. WorkOK'
    BY <1>r, WebParts DEF WorkOK, ExecOnNull
  <1>3. EndNeedsCause'
    <2>1. req.to = h /\ conn[h] = "null"
      BY DEF ExecOnNull
    <2>2. breaks \in Nat /\ breaks # 0
      BY <2>1, WebParts, WebAssumption DEF DbOK, BreaksCounted
    <2> QED  BY <1>r, <2>1, <2>2 DEF EndNeedsCause, dbVars
  <1> QED  BY <1>1, <1>2, <1>3, WebTogether

(* What the database does, or nothing. *)
LEMMA DatabaseStep ==
  ASSUME WebInv, NEW h \in Handlers, (Break(h) \/ DbStart) \/ UNCHANGED vars
  PROVE  WebInv'
  <1>r. UNCHANGED <<req, members, todo, data, reply, alive, failing>>
    BY DEF Break, DbStart, vars
  <1>1. DbOK' /\ breaks' >= breaks
    BY DbStep, WebParts DEF vars
  <1>2. MembersOK' /\ WorkOK' /\ Served' /\ ReplyFits' /\ MetricsWhole'
    BY <1>r, WebParts DEF MembersOK, WorkOK, Served, ReplyFits, MetricsWhole
  <1>3. EndNeedsCause'
    <2>1. \A k \in Handlers : conn[k] = "null" => conn'[k] = "null"
      BY WebParts DEF Break, Ends, DbStart, vars, dbVars, DbOK
    <2>2. breaks > 0 => breaks' > 0
      BY <1>1, WebParts, WebAssumption DEF DbOK
    <2> QED  BY <1>r, <2>1, <2>2, WebParts DEF EndNeedsCause
  <1> QED  BY <1>1, <1>2, <1>3, WebTogether

(* Every step keeps the invariant. *)
LEMMA WebStep == WebInv /\ [Next]_vars => WebInv'
  <1> SUFFICES ASSUME WebInv, [Next]_vars
               PROVE  WebInv'
    OBVIOUS
  <1>0. PICK h \in Handlers : TRUE
    BY DEF Handlers
  <1>1. CASE UNCHANGED vars \/ DbStart
    BY <1>1, <1>0, DatabaseStep
  <1>2. ASSUME NEW r \in Asked \cup Scrape, Request(r) PROVE WebInv'
    BY <1>2, RequestStep
  <1>3. CASE UnknownModule \/ ParamError
    BY <1>3, RefusedStep
  <1>4. CASE Parse
    BY <1>4, ParseStep
  <1>5. CASE SelectOk \/ SelectFails
    BY <1>5, SelectStep
  <1>6. ASSUME NEW m \in Module, MetricRows(m) \/ MetricSkipped(m) PROVE WebInv'
    BY <1>6, MetricStep
  <1>7. CASE MetricsDone
    BY <1>7, MetricsDoneStep
  <1>8. ASSUME NEW k \in Handlers, ExecOnNull(k) PROVE WebInv'
    BY <1>8, NullStep
  <1>9. ASSUME NEW k \in Handlers, Break(k) PROVE WebInv'
    BY <1>9, DatabaseStep
  <1> QED  BY <1>1, <1>2, <1>3, <1>4, <1>5, <1>6, <1>7, <1>8, <1>9 DEF Next, Handler

(* The invariant of the queries. *)
THEOREM WebInvariant == Spec => []WebInv
  BY WebInit, WebStep, PTL DEF Spec

(* The members, the connections and the exporter's sets have their types. *)
THEOREM WebTypeOK == Spec => []TypeOK
  <1>1. WebInv => TypeOK
    BY DEF WebInv
  <1> QED  BY <1>1, WebInvariant, PTL

(* doRun: a successful reply has the rows this request asked for, whatever *)
(* requests the object served before and wherever those stopped.           *)
THEOREM WebReplyFits == Spec => []ReplyFits
  <1>1. WebInv => ReplyFits
    BY DEF WebInv
  <1> QED  BY <1>1, WebInvariant, PTL

(* getMetgrics: a reply that lacks a collector had a query that failed.    *)
THEOREM WebMetricsWhole == Spec => []MetricsWhole
  <1>1. WebInv => MetricsWhole
    BY DEF WebInv
  <1> QED  BY <1>1, WebInvariant, PTL

(* The process ends only of endTime without startTime or of a connection   *)
(* that was lost and could not be made anew.                               *)
THEOREM WebEndNeedsCause == Spec => []EndNeedsCause
  <1>1. WebInv => EndNeedsCause
    BY DEF WebInv
  <1> QED  BY <1>1, WebInvariant, PTL

(***************************************************************************)
(* HttpFiles                                                               *)
(***************************************************************************)
(* A non-empty set of descriptors has a lowest. *)
LEMMA LowestFree ==
  ASSUME NEW N \in SUBSET Fd, N # {}
  PROVE  Min(N) \in N
  <1>0. N \subseteq Nat
    BY FilesAssumption DEF Fd
  <1>1. PICK m \in N : \A n \in N : <<n, m>> \notin OpToRel(<, Nat)
    BY <1>0, NatLessThanWellFounded, WFMin, Zenon
  <1>2. ASSUME NEW n \in N, ~(m <= n) PROVE FALSE
    <2>1. n < m /\ n \in Nat /\ m \in Nat
      BY <1>0, <1>2
    <2>2. <<n, m>> \in OpToRel(<, Nat)
      BY <2>1, Zenon DEF OpToRel
    <2> QED  BY <1>1, <2>2
  <1>3. \A n \in N : m <= n
    BY <1>2
  <1> QED  BY <1>3, Zenon DEF Min

(* What a number may stand for. *)
Uses ==
    {Free, Leaked} \cup {Socket(c) : c \in Client} \cup {FileOf(c) : c \in Client}

(* The uses of a number are told apart. *)
LEMMA UsesDiffer ==
  /\ Free # Leaked
  /\ \A c \in Client : /\ Socket(c) # Free /\ Socket(c) # Leaked
                       /\ FileOf(c) # Free /\ FileOf(c) # Leaked
  /\ \A c, d \in Client : /\ Socket(c) # FileOf(d)
                          /\ Socket(c) = Socket(d) => c = d
                          /\ FileOf(c) = FileOf(d) => c = d
  BY DEF Free, Leaked, Socket, FileOf

(* A reply that waits is the only one to have a number to close, and as    *)
(* long as no number was given out too early, it is the number of its own  *)
(* file or of nothing.                                                     *)
FilesInv ==
    /\ FilesTypeOK /\ Accounted
    /\ \A c \in Client : state[c] # "reply" => file[c] = NoFd
    /\ ~overlap =>
          \A c \in Client :
             /\ state[c] # "away" => use[sock[c]] = Socket(c)
             /\ file[c] # NoFd => use[file[c]] \in {FileOf(c), Free}

(* The invariant holds initially. *)
LEMMA FilesInvInit == FilesInit => FilesInv
  <1> SUFFICES ASSUME FilesInit PROVE FilesInv
    OBVIOUS
  <1>1. FilesTypeOK
    BY DEF FilesInit, FilesTypeOK, NoFd
  <1>2. Accounted
    <2>1. {f \in Fd : use[f] = Leaked} = {}
      BY UsesDiffer DEF FilesInit
    <2> QED  BY <2>1, UsesDiffer, FS_EmptySet DEF FilesInit, Accounted
  <1> QED  BY <1>1, <1>2 DEF FilesInit, FilesInv

(* The descriptors are finitely many. *)
LEMMA FdsFinite == IsFiniteSet(Fd)
  BY FilesAssumption, FS_Interval DEF Fd

(* open and accept get a number that is free. *)
LEMMA GivenOut ==
  ASSUME FreeFds # {}
  PROVE  Min(FreeFds) \in Fd /\ use[Min(FreeFds)] = Free /\ Min(FreeFds) # NoFd
  <1>1. FreeFds \in SUBSET Fd
    BY DEF FreeFds
  <1>2. Min(FreeFds) \in FreeFds
    BY <1>1, LowestFree
  <1> QED  BY <1>2, FilesAssumption DEF FreeFds, Fd, NoFd

(* What is known of the numbers in use. *)
LEMMA InUse ==
  ASSUME FilesInv
  PROVE  /\ FilesTypeOK
         /\ \A f \in Fd : f # NoFd
         /\ \A f \in Fd, c \in Client : use[f] = Socket(c) => sock[c] = f
         /\ \A f \in Fd, c \in Client : use[f] = FileOf(c) => file[c] = f
         /\ \A c \in Client : state[c] # "reply" => file[c] = NoFd
  BY FilesAssumption DEF FilesInv, Accounted, Fd, NoFd

(* A step that leaves no descriptor open keeps the account of them.        *)
LEMMA LeakedKept ==
  ASSUME FilesInv, failures' = failures,
         \A f \in Fd : use'[f] = Leaked => use[f] = Leaked
  PROVE  Cardinality({f \in Fd : use'[f] = Leaked}) <= failures'
  <1> DEFINE L == {f \in Fd : use[f] = Leaked}
             M == {f \in Fd : use'[f] = Leaked}
  <1>1. M \subseteq L /\ L \subseteq Fd
    OBVIOUS
  <1>2. IsFiniteSet(L)
    BY <1>1, FdsFinite, FS_Subset
  <1>3. Cardinality(L) <= failures /\ failures \in Nat
    BY DEF FilesInv, FilesTypeOK, Accounted
  <1> HIDE DEF L, M
  <1>4. /\ Cardinality(M) <= Cardinality(L) /\ IsFiniteSet(M)
        /\ Cardinality(M) \in Nat /\ Cardinality(L) \in Nat
    BY <1>1, <1>2, FS_Subset, FS_CardinalityType
  <1>5. Cardinality(M) <= failures'
    BY <1>3, <1>4
  <1> QED  BY <1>5 DEF M

(* A client is accepted: what is given out too early is noted.             *)
LEMMA AcceptStep ==
  ASSUME FilesInv, NEW c \in Client, Accept(c)
  PROVE  FilesInv'
  <1> DEFINE m == Min(FreeFds)
  <1>m. m \in Fd /\ use[m] = Free /\ m # NoFd
    BY GivenOut DEF Accept
  <1> HIDE DEF m
  <1>a. /\ use' = [use EXCEPT ![m] = Socket(c)] /\ sock' = [sock EXCEPT ![c] = m]
        /\ state[c] = "away" /\ state' = [state EXCEPT ![c] = "open"]
        /\ overlap' = (overlap \/ Dangling) /\ file' = file /\ failures' = failures
    BY DEF Accept, m
  <1>t. FilesTypeOK /\ sock[c] = NoFd /\ file[c] = NoFd
    BY <1>a, InUse DEF FilesTypeOK
  <1>1. FilesTypeOK'
    BY <1>m, <1>a, <1>t DEF FilesTypeOK
  <1>u. /\ \A f \in Fd : use'[f] = IF f = m THEN Socket(c) ELSE use[f]
        /\ \A d \in Client : sock'[d] = IF d = c THEN m ELSE sock[d]
    BY <1>a, <1>t DEF FilesTypeOK
  <1>2. Accounted'
    <2>1. ASSUME NEW f \in Fd, NEW d \in Client, use'[f] = Socket(d) PROVE sock'[d] = f
      BY <1>t, <1>u, <2>1, UsesDiffer, InUse
    <2>2. ASSUME NEW f \in Fd, NEW d \in Client, use'[f] = FileOf(d) PROVE file'[d] = f
      BY <1>a, <1>u, <2>2, UsesDiffer, InUse
    <2>3. \A f \in Fd : use'[f] = Leaked => use[f] = Leaked
      BY <1>u, UsesDiffer
    <2> QED  BY <1>a, <2>1, <2>2, <2>3, LeakedKept DEF Accounted
  <1>3. ASSUME ~overlap', NEW d \in Client
        PROVE  /\ state'[d] # "away" => use'[sock'[d]] = Socket(d)
               /\ file'[d] # NoFd => use'[file'[d]] \in {FileOf(d), Free}
    <2>1. ~overlap /\ ~Dangling
      BY <1>a, <1>3
    <2>2. file[d] # NoFd => use[file[d]] = FileOf(d)
      BY <2>1 DEF Dangling
    <2> QED  BY <1>m, <1>a, <1>t, <2>1, <2>2, UsesDiffer DEF FilesInv, FilesTypeOK
  <1>4. \A d \in Client : state'[d] # "reply" => file'[d] = NoFd
    BY <1>a, <1>t, InUse DEF FilesTypeOK
  <1> QED  BY <1>1, <1>2, <1>3, <1>4 DEF FilesInv

(* document: the number is free again when the handler returns, so that    *)
(* only the reply knows it.                                                *)
LEMMA DocumentStep ==
  ASSUME FilesInv, NEW c \in Client, Document(c)
  PROVE  FilesInv'
  <1> DEFINE m == Min(FreeFds)
  <1>m. m \in Fd /\ use[m] = Free /\ m # NoFd
    BY GivenOut DEF Document
  <1> HIDE DEF m
  <1>a. /\ file' = [file EXCEPT ![c] = m] /\ state' = [state EXCEPT ![c] = "reply"]
        /\ state[c] = "open" /\ use' = use /\ sock' = sock /\ failures' = failures
    BY DEF Document, Readable, m
  <1>o. overlap' = (overlap \/ Dangling)
    BY DEF Document
  <1>t. FilesTypeOK /\ file[c] = NoFd
    BY <1>a, InUse
  <1>1. FilesTypeOK'
    BY <1>m, <1>a, <1>o, <1>t DEF FilesTypeOK
  <1>u. \A d \in Client : /\ file'[d] = IF d = c THEN m ELSE file[d]
                          /\ state'[d] = IF d = c THEN "reply" ELSE state[d]
    BY <1>a, <1>t DEF FilesTypeOK
  <1>2. Accounted'
    <2>1. \A f \in Fd, d \in Client : use'[f] = Socket(d) => sock'[d] = f
      BY <1>a, InUse
    <2>2. \A f \in Fd, d \in Client : use'[f] = FileOf(d) => file'[d] = f
      BY <1>a, <1>t, <1>u, InUse
    <2> QED  BY <1>a, <2>1, <2>2, LeakedKept DEF Accounted
  <1>3. ASSUME ~overlap', NEW d \in Client
        PROVE  /\ state'[d] # "away" => use'[sock'[d]] = Socket(d)
               /\ file'[d] # NoFd => use'[file'[d]] \in {FileOf(d), Free}
    BY <1>m, <1>a, <1>o, <1>u, <1>3 DEF FilesInv
  <1>4. \A d \in Client : state'[d] # "reply" => file'[d] = NoFd
    BY <1>u, InUse
  <1> QED  BY <1>1, <1>2, <1>3, <1>4 DEF FilesInv

(* favicon: the number is the file's until the reply is written. *)
LEMMA FaviconStep ==
  ASSUME FilesInv, NEW c \in Client, Favicon(c)
  PROVE  FilesInv'
  <1> DEFINE m == Min(FreeFds)
  <1>m. m \in Fd /\ use[m] = Free /\ m # NoFd
    BY GivenOut DEF Favicon
  <1> HIDE DEF m
  <1>a. /\ file' = [file EXCEPT ![c] = m] /\ state' = [state EXCEPT ![c] = "reply"]
        /\ state[c] = "open" /\ use' = [use EXCEPT ![m] = FileOf(c)]
        /\ sock' = sock /\ failures' = failures
    BY DEF Favicon, Readable, m
  <1>o. overlap' = (overlap \/ Dangling)
    BY DEF Favicon
  <1>t. FilesTypeOK /\ file[c] = NoFd
    BY <1>a, InUse
  <1>1. FilesTypeOK'
    BY <1>m, <1>a, <1>o, <1>t DEF FilesTypeOK
  <1>u. /\ \A d \in Client : /\ file'[d] = IF d = c THEN m ELSE file[d]
                             /\ state'[d] = IF d = c THEN "reply" ELSE state[d]
        /\ \A f \in Fd : use'[f] = IF f = m THEN FileOf(c) ELSE use[f]
    BY <1>a, <1>t DEF FilesTypeOK
  <1>2. Accounted'
    <2>1. \A f \in Fd, d \in Client : use'[f] = Socket(d) => sock'[d] = f
      BY <1>a, <1>u, UsesDiffer, InUse
    <2>2. \A f \in Fd, d \in Client : use'[f] = FileOf(d) => file'[d] = f
      BY <1>t, <1>u, UsesDiffer, InUse
    <2>3. \A f \in Fd : use'[f] = Leaked => use[f] = Leaked
      BY <1>u, UsesDiffer
    <2> QED  BY <1>a, <2>1, <2>2, <2>3, LeakedKept DEF Accounted
  <1>3. ASSUME ~overlap', NEW d \in Client
        PROVE  /\ state'[d] # "away" => use'[sock'[d]] = Socket(d)
               /\ file'[d] # NoFd => use'[file'[d]] \in {FileOf(d), Free}
    <2>1. ~overlap /\ ~Dangling
      BY <1>o, <1>3
    <2>2. file[d] # NoFd => file[d] \in Fd /\ use[file[d]] = FileOf(d)
      BY <1>t, <2>1 DEF Dangling, FilesTypeOK
    <2>3. state[d] # "away" => sock[d] \in Fd /\ use[sock[d]] = Socket(d)
      BY <1>t, <2>1 DEF FilesInv, FilesTypeOK
    <2> QED  BY <1>m, <1>a, <1>u, <2>2, <2>3, UsesDiffer
  <1>4. \A d \in Client : state'[d] # "reply" => file'[d] = NoFd
    BY <1>u, InUse
  <1> QED  BY <1>1, <1>2, <1>3, <1>4 DEF FilesInv

(* favicon after a failed fstat: one number more is left open, and counted.*)
LEMMA FaviconFailsStep ==
  ASSUME FilesInv, NEW c \in Client, FaviconFails(c)
  PROVE  FilesInv'
  <1> DEFINE m == Min(FreeFds)
  <1>m. m \in Fd /\ use[m] = Free /\ m # NoFd
    BY GivenOut DEF FaviconFails
  <1> HIDE DEF m
  <1>a. /\ use' = [use EXCEPT ![m] = Leaked] /\ failures' = failures + 1
        /\ sock' = sock /\ file' = file /\ state' = state
    BY DEF FaviconFails, m
  <1>o. overlap' = (overlap \/ Dangling)
    BY DEF FaviconFails
  <1>t. FilesTypeOK
    BY InUse
  <1>1. FilesTypeOK'
    BY <1>m, <1>a, <1>o, <1>t DEF FilesTypeOK
  <1>u. \A f \in Fd : use'[f] = IF f = m THEN Leaked ELSE use[f]
    BY <1>a, <1>t DEF FilesTypeOK
  <1>2. Accounted'
    <2>1. /\ \A f \in Fd, d \in Client : use'[f] = Socket(d) => sock'[d] = f
          /\ \A f \in Fd, d \in Client : use'[f] = FileOf(d) => file'[d] = f
      BY <1>a, <1>u, UsesDiffer, InUse
    <2> DEFINE L == {f \in Fd : use[f] = Leaked}
               M == {f \in Fd : use'[f] = Leaked}
    <2>2. M = L \cup {m} /\ L \subseteq Fd
      BY <1>m, <1>u
    <2>3. Cardinality(L) <= failures /\ failures \in Nat
      BY DEF FilesInv, FilesTypeOK, Accounted
    <2> HIDE DEF L, M
    <2>4. IsFiniteSet(L) /\ Cardinality(L) \in Nat
      BY <2>2, FdsFinite, FS_Subset, FS_CardinalityType
    <2>5. Cardinality(M) <= failures'
      BY <1>a, <2>2, <2>3, <2>4, FS_AddElement
    <2> QED  BY <2>1, <2>5 DEF Accounted, M
  <1>3. ASSUME ~overlap', NEW d \in Client
        PROVE  /\ state'[d] # "away" => use'[sock'[d]] = Socket(d)
               /\ file'[d] # NoFd => use'[file'[d]] \in {FileOf(d), Free}
    <2>1. ~overlap /\ ~Dangling
      BY <1>o, <1>3
    <2>2. file[d] # NoFd => file[d] \in Fd /\ use[file[d]] = FileOf(d)
      BY <1>t, <2>1 DEF Dangling, FilesTypeOK
    <2>3. state[d] # "away" => sock[d] \in Fd /\ use[sock[d]] = Socket(d)
      BY <1>t, <2>1 DEF FilesInv, FilesTypeOK
    <2> QED  BY <1>m, <1>a, <1>u, <2>2, <2>3, UsesDiffer
  <1>4. \A d \in Client : state'[d] # "reply" => file'[d] = NoFd
    BY <1>a, InUse
  <1> QED  BY <1>1, <1>2, <1>3, <1>4 DEF FilesInv

(* Closing the number a reply has frees that number and no other. *)
LEMMA Closed ==
  ASSUME FilesInv, NEW c \in Client
  PROVE  /\ CloseFile(c, use) \in [Fd -> Uses]
         /\ \A f \in Fd : CloseFile(c, use)[f] = IF f = file[c] THEN Free ELSE use[f]
  <1>1. /\ use \in [Fd -> Uses] /\ file[c] \in Fd \cup {NoFd} /\ Free \in Uses
        /\ \A f \in Fd : f # NoFd
    BY InUse DEF FilesTypeOK, Uses
  <1> QED  BY <1>1 DEF CloseFile

(* A reply is written: while no number was given out too early, what it    *)
(* closes is its own file or nothing.                                      *)
LEMMA WrittenStep ==
  ASSUME FilesInv, NEW c \in Client, Written(c)
  PROVE  FilesInv'
  <1>a. /\ file' = [file EXCEPT ![c] = NoFd] /\ state' = [state EXCEPT ![c] = "open"]
        /\ state[c] = "reply" /\ use' = CloseFile(c, use)
        /\ sock' = sock /\ failures' = failures
    BY DEF Written
  <1>o. overlap' = overlap
    BY DEF Written
  <1>t. FilesTypeOK /\ \A f \in Fd : f # NoFd
    BY InUse
  <1>1. FilesTypeOK'
    BY <1>a, <1>o, <1>t, Closed DEF FilesTypeOK, Uses
  <1>u. /\ \A d \in Client : /\ file'[d] = IF d = c THEN NoFd ELSE file[d]
                             /\ state'[d] = IF d = c THEN "open" ELSE state[d]
        /\ \A f \in Fd : use'[f] = IF f = file[c] THEN Free ELSE use[f]
    BY <1>a, <1>t, Closed DEF FilesTypeOK
  <1>2. Accounted'
    <2>1. \A f \in Fd, d \in Client : use'[f] = Socket(d) => sock'[d] = f
      BY <1>a, <1>u, UsesDiffer, InUse
    <2>2. \A f \in Fd, d \in Client : use'[f] = FileOf(d) => file'[d] = f
      BY <1>u, UsesDiffer, InUse
    <2>3. \A f \in Fd : use'[f] = Leaked => use[f] = Leaked
      BY <1>u, UsesDiffer
    <2> QED  BY <1>a, <2>1, <2>2, <2>3, LeakedKept DEF Accounted
  <1>3. ASSUME ~overlap', NEW d \in Client
        PROVE  /\ state'[d] # "away" => use'[sock'[d]] = Socket(d)
               /\ file'[d] # NoFd => use'[file'[d]] \in {FileOf(d), Free}
    <2>1. ~overlap
      BY <1>o, <1>3
    <2>2. \A e \in Client : file[e] # NoFd => file[e] \in Fd /\ use[file[e]] \in {FileOf(e), Free}
      BY <1>t, <2>1 DEF FilesInv, FilesTypeOK
    <2>3. \A e \in Client : state[e] # "away" => sock[e] \in Fd /\ use[sock[e]] = Socket(e)
      BY <1>t, <2>1 DEF FilesInv, FilesTypeOK
    <2> QED  BY <1>a, <1>t, <1>u, <2>2, <2>3, UsesDiffer
  <1>4. \A d \in Client : state'[d] # "reply" => file'[d] = NoFd
    BY <1>u, InUse
  <1> QED  BY <1>1, <1>2, <1>3, <1>4 DEF FilesInv

(* A client goes: its socket and the number of its reply are closed. *)
LEMMA GoneStep ==
  ASSUME FilesInv, NEW c \in Client, Gone(c)
  PROVE  FilesInv'
  <1>a. /\ file' = [file EXCEPT ![c] = NoFd] /\ state' = [state EXCEPT ![c] = "away"]
        /\ sock' = [sock EXCEPT ![c] = NoFd]
        /\ state[c] # "away" /\ use' = [CloseFile(c, use) EXCEPT ![sock[c]] = Free]
        /\ failures' = failures
    BY DEF Gone
  <1>o. overlap' = overlap
    BY DEF Gone
  <1>t. FilesTypeOK /\ (\A f \in Fd : f # NoFd) /\ sock[c] \in Fd
    BY <1>a, InUse DEF FilesTypeOK
  <1>1. FilesTypeOK'
    <2>1. use' \in [Fd -> Uses]
      BY <1>a, <1>t, Closed DEF Uses
    <2> QED  BY <1>a, <1>o, <1>t, <2>1 DEF FilesTypeOK, Uses
  <1>u. /\ \A d \in Client : /\ file'[d] = IF d = c THEN NoFd ELSE file[d]
                             /\ sock'[d] = IF d = c THEN NoFd ELSE sock[d]
                             /\ state'[d] = IF d = c THEN "away" ELSE state[d]
        /\ \A f \in Fd : use'[f] = IF f = file[c] \/ f = sock[c] THEN Free ELSE use[f]
    BY <1>a, <1>t, Closed DEF FilesTypeOK
  <1>2. Accounted'
    <2>1. \A f \in Fd, d \in Client : use'[f] = Socket(d) => sock'[d] = f
      BY <1>u, UsesDiffer, InUse
    <2>2. \A f \in Fd, d \in Client : use'[f] = FileOf(d) => file'[d] = f
      BY <1>u, UsesDiffer, InUse
    <2>3. \A f \in Fd : use'[f] = Leaked => use[f] = Leaked
      BY <1>u, UsesDiffer
    <2> QED  BY <1>a, <2>1, <2>2, <2>3, LeakedKept DEF Accounted
  <1>3. ASSUME ~overlap', NEW d \in Client
        PROVE  /\ state'[d] # "away" => use'[sock'[d]] = Socket(d)
               /\ file'[d] # NoFd => use'[file'[d]] \in {FileOf(d), Free}
    <2>1. ~overlap
      BY <1>o, <1>3
    <2>2. \A e \in Client : file[e] # NoFd => file[e] \in Fd /\ use[file[e]] \in {FileOf(e), Free}
      BY <1>t, <2>1 DEF FilesInv, FilesTypeOK
    <2>3. \A e \in Client : state[e] # "away" => sock[e] \in Fd /\ use[sock[e]] = Socket(e)
      BY <1>t, <2>1 DEF FilesInv, FilesTypeOK
    <2> QED  BY <1>a, <1>t, <1>u, <2>2, <2>3, UsesDiffer
  <1>4. \A d \in Client : state'[d] # "reply" => file'[d] = NoFd
    BY <1>u, InUse
  <1> QED  BY <1>1, <1>2, <1>3, <1>4 DEF FilesInv

(* Every step keeps the invariant. *)
LEMMA FilesInvStep == FilesInv /\ [FilesNext]_filesVars => FilesInv'
  <1> SUFFICES ASSUME FilesInv, [FilesNext]_filesVars
               PROVE  FilesInv'
    OBVIOUS
  <1>1. CASE UNCHANGED filesVars
    BY <1>1 DEF filesVars, FilesInv, FilesTypeOK, Accounted
  <1>2. ASSUME NEW c \in Client,
               Accept(c) \/ Document(c) \/ Favicon(c) \/ FaviconFails(c) \/ Written(c) \/ Gone(c)
        PROVE  FilesInv'
    BY <1>2, AcceptStep, DocumentStep, FaviconStep, FaviconFailsStep, WrittenStep, GoneStep
  <1> QED  BY <1>1, <1>2 DEF FilesNext

(* The invariant of the descriptors. *)
THEOREM FilesInvariant == FilesSpec => []FilesInv
  BY FilesInvInit, FilesInvStep, PTL DEF FilesSpec

(* The table of descriptors and what the server knows of it have their     *)
(* types.                                                                  *)
THEOREM FilesTypesOK == FilesSpec => []FilesTypeOK
  <1>1. FilesInv => FilesTypeOK
    BY DEF FilesInv
  <1> QED  BY <1>1, FilesInvariant, PTL

(* document, favicon: however replies, clients and numbers cross, only     *)
(* fstat calls that fail cost the process a descriptor.                    *)
THEOREM FilesAccounted == FilesSpec => []Accounted
  <1>1. FilesInv => Accounted
    BY DEF FilesInv
  <1> QED  BY <1>1, FilesInvariant, PTL

(* The close at the end of document, which the reply repeats, takes a      *)
(* client's socket only if a number was given out in between.              *)
THEOREM FilesLossNeedsOverlap == FilesSpec => []LossNeedsOverlap
  <1>1. FilesInv => LossNeedsOverlap
    BY DEF FilesInv, LossNeedsOverlap
  <1> QED  BY <1>1, FilesInvariant, PTL
=============================================================================
