-------------------------------- MODULE Agent --------------------------------
(***************************************************************************)
(* The agent's outputVec_ (src/src/dfsrr/dfsrr.cpp) and the two threads    *)
(* that use it without a lock:                                             *)
(*                                                                         *)
(*  - the collector (Dfsrr::run) walks the vector for every sample, turns  *)
(*    the sample into the output's own form and queues it, and every       *)
(*    checkOutputIntv_ seconds looks which kind of output is missing and   *)
(*    pushes a new one (checkOutput);                                      *)
(*  - the sender (Dfsrr::sendData) walks the vector, sends one item of     *)
(*    every output, and erases an output whose send failed.                *)
(*                                                                         *)
(* The vector is modelled as std::vector works: slots of a buffer, an end  *)
(* index and a capacity.  erase moves the later elements down (a moved-    *)
(* from shared_ptr is null), then lowers the end and destroys the element  *)
(* there, whose bits stay (a dangling pointer); push_back writes the slot  *)
(* and then raises the end, or moves everything into a new buffer.  Every  *)
(* access of a slot or of the end is a step.  Dereferencing a null pointer *)
(* kills the process, and so does an iterator into a buffer that was given *)
(* back: it never equals end(), and walks on until it leaves the heap.     *)
(* Using an object that was destroyed kills it or has no effect.           *)
(*                                                                         *)
(* An item is represented by its form: the kind of output that converted   *)
(* it.  What the items of one output go through is module Output.          *)
(***************************************************************************)
EXTENDS Naturals, Sequences, FiniteSets

CONSTANTS
    Configured,     \* the output kinds in the configuration file
    Object,         \* names for the heap blocks outputs live in
    MaxSlot,        \* bound: slots in the largest buffer
    maxSize,        \* maxSize_ of an Output, 2048 in the code
    checkOutputIntv \* config_.checkOutputIntv_, 180 s in the code

Kind == {"local", "tcp"}
Null == "null"      \* an empty shared_ptr
Free == "free"      \* the kind of an object that was destroyed

ASSUME AgentAssumption ==
    /\ Configured \subseteq Kind
    /\ MaxSlot \in Nat /\ MaxSlot > Cardinality(Configured)
    /\ maxSize \in Nat /\ checkOutputIntv \in Nat
    /\ Null \notin Object

VARIABLES
    slot, fin, cap,             \* outputVec_: slots, end, capacity
    kind, queue, linked,        \* the outputs: kind, dataQueue_ and, for tcp,
                                \* whether bevSet_ still holds the connection
    cpc, ci, cend, form, seen,  \* the collector
    spc, si, item, stale,       \* the sender; stale: its iterator points into
                                \* a buffer that push_back has given back
    elapsed,                    \* nowTime - lastCheckTime_, up to checkOutputIntv
    raced                       \* history: the threads met inside the vector, or
                                \* the buffer was replaced under the sender

vecVars == <<slot, fin, cap>>
objVars == <<kind, queue, linked>>
colVars == <<cpc, ci, cend, form, seen>>
sndVars == <<spc, si, item, stale>>
vars == <<vecVars, objVars, colVars, sndVars, elapsed, raced>>

Slots == 1..MaxSlot
Live(p) == p # Null /\ kind[p] # Free
Dangling(p) == p # Null /\ kind[p] = Free

-----------------------------------------------------------------------------
(* parseConfig: one output per configured kind, in the order of the file.  *)
(* The constructor of OutputTcp may throw; the kind stays configured.      *)
Init ==
    /\ \E n \in 0..Cardinality(Configured) :
       \E v \in [1..n -> Configured], name \in [1..n -> Object] :
          /\ \A i, j \in 1..n : i # j => v[i] # v[j] /\ name[i] # name[j]
          /\ Configured \ {"tcp"} \subseteq {v[i] : i \in 1..n}
          /\ slot = [i \in Slots |-> IF i <= n THEN name[i] ELSE Null]
          /\ fin = n
          /\ cap = n
          /\ kind = [o \in Object |->
                        IF \E i \in 1..n : name[i] = o
                        THEN v[CHOOSE i \in 1..n : name[i] = o] ELSE Free]
    /\ queue = [o \in Object |-> <<>>]
    /\ linked = [o \in Object |-> kind[o] = "tcp"]
    /\ cpc = "idle" /\ ci = 1 /\ cend = 0 /\ form = Null /\ seen = {}
    /\ spc = "sleep" /\ si = 1 /\ item = Null /\ stale = FALSE
    /\ elapsed = checkOutputIntv
    /\ raced = FALSE

(* The process ends: neither thread has a next step. *)
Crash ==
    /\ cpc' = "dead"
    /\ spc' = "dead"
    /\ UNCHANGED <<vecVars, objVars, ci, cend, form, seen, si, item, stale, elapsed, raced>>

Alive == cpc # "dead"

(* The threads meet inside the vector: the collector is between the first  *)
(* and the last access of a loop or of push_back while the sender erases.  *)
Meet(c, s) == c \notin {"idle", "check"} /\ s \in {"erase", "destroy"}

-----------------------------------------------------------------------------
(* The collector.                                                          *)

(* The loop over the vector (its end is read once) goes on, or leaves for  *)
(* the step named by done.                                                 *)
NextSlot(again, done) ==
    IF ci = cend THEN cpc' = done /\ UNCHANGED ci
                 ELSE cpc' = again /\ ci' = ci + 1

(* A module was due and its sample is not empty. *)
Collect ==
    /\ cpc = "idle"
    /\ ci' = 1
    /\ cend' = fin
    /\ cpc' = IF fin = 0 THEN "check" ELSE "convert"
    /\ raced' = (raced \/ Meet(cpc', spc))
    /\ UNCHANGED <<vecVars, objVars, form, seen, sndVars, elapsed>>

(* Mutant of Convert: every sample in the form of OutputLocal. *)
ConvertLocal ==
    /\ cpc = "convert"
    /\ Live(slot[ci])
    /\ form' = "local"
    /\ cpc' = "add"
    /\ UNCHANGED <<vecVars, objVars, ci, cend, seen, sndVars, elapsed, raced>>

(* output->convert *)
Convert ==
    /\ cpc = "convert"
    /\ Live(slot[ci])
    /\ form' = kind[slot[ci]]
    /\ cpc' = "add"
    /\ UNCHANGED <<vecVars, objVars, ci, cend, seen, sndVars, elapsed, raced>>

(* output->addData, which reads the slot again *)
AddData ==
    /\ cpc = "add"
    /\ Live(slot[ci])
    /\ queue' = [queue EXCEPT ![slot[ci]] =
                    IF Len(@) > maxSize THEN @ ELSE Append(@, form)]
    /\ NextSlot("convert", "check")
    /\ UNCHANGED <<vecVars, kind, linked, cend, form, seen, sndVars, elapsed, raced>>

(* checkOutput returns early. *)
CheckLater ==
    /\ cpc = "check"
    /\ elapsed < checkOutputIntv
    /\ cpc' = "idle"
    /\ UNCHANGED <<vecVars, objVars, ci, cend, form, seen, sndVars, elapsed, raced>>

CheckNow ==
    /\ cpc = "check"
    /\ elapsed = checkOutputIntv
    /\ elapsed' = 0
    /\ seen' = {}
    /\ ci' = 1
    /\ cend' = fin
    /\ cpc' = IF fin = 0 THEN "make" ELSE "scan"
    /\ raced' = (raced \/ Meet(cpc', spc))
    /\ UNCHANGED <<vecVars, objVars, form, sndVars>>

(* Mutant of Scan: what is found is not remembered. *)
ScanBlind ==
    /\ cpc = "scan"
    /\ ~Dangling(slot[ci])
    /\ seen' = seen
    /\ NextSlot("scan", "make")
    /\ UNCHANGED <<vecVars, objVars, cend, form, sndVars, elapsed, raced>>

(* dynamic_cast of a null pointer is null: the slot counts as no output. *)
Scan ==
    /\ cpc = "scan"
    /\ ~Dangling(slot[ci])
    /\ seen' = IF Live(slot[ci]) THEN seen \cup {kind[slot[ci]]} ELSE seen
    /\ NextSlot("scan", "make")
    /\ UNCHANGED <<vecVars, objVars, cend, form, sndVars, elapsed, raced>>

(* The first missing kind: local is looked at before tcp. *)
Missing(k) ==
    /\ k \in Configured \ seen
    /\ k = "tcp" => "local" \notin Configured \ seen

(* make_shared, and push_back as far as one access of the vector goes. *)
PushBack(k, o) ==
    /\ kind' = [kind EXCEPT ![o] = k]
    /\ queue' = [queue EXCEPT ![o] = <<>>]
    /\ linked' = [linked EXCEPT ![o] = (k = "tcp")]
    /\ IF fin = cap
       THEN /\ cap' = IF cap = 0 THEN 1 ELSE 2 * cap
            /\ slot' = [i \in Slots |-> IF i <= fin THEN slot[i]
                                        ELSE IF i = fin + 1 THEN o ELSE Null]
            /\ fin' = fin + 1
            /\ stale' = (spc # "sleep")
            /\ raced' = (raced \/ stale')
            /\ UNCHANGED cpc
       ELSE /\ slot' = [slot EXCEPT ![fin + 1] = o]
            /\ cpc' = "grow"
            /\ UNCHANGED <<fin, cap, stale, raced>>

Recreate(k) ==
    /\ cpc = "make"
    /\ fin < MaxSlot
    /\ Missing(k)
    /\ \E o \in Object : kind[o] = Free /\ PushBack(k, o)
    /\ seen' = seen \cup {k}
    /\ UNCHANGED <<ci, cend, form, spc, si, item, elapsed>>

(* The rest of push_back: the end moves up. *)
Grow ==
    /\ cpc = "grow"
    /\ fin' = fin + 1
    /\ cpc' = "make"
    /\ UNCHANGED <<slot, cap, objVars, ci, cend, form, seen, sndVars, elapsed, raced>>

(* Mutant of ConnectFails: the exception is not caught. *)
ConnectFailsUncaught ==
    /\ cpc = "make"
    /\ Missing("tcp")
    /\ Crash

(* The constructor of OutputTcp throws and checkOutput swallows it. *)
ConnectFails ==
    /\ cpc = "make"
    /\ Missing("tcp")
    /\ seen' = seen \cup {"tcp"}
    /\ UNCHANGED <<vecVars, objVars, cpc, ci, cend, form, sndVars, elapsed, raced>>

CheckDone ==
    /\ cpc = "make"
    /\ Configured \subseteq seen
    /\ cpc' = "idle"
    /\ UNCHANGED <<vecVars, objVars, ci, cend, form, seen, sndVars, elapsed, raced>>

(* The collector uses an output that was destroyed, and survives it. *)
CollectorUsesFreed ==
    /\ cpc \in {"convert", "add", "scan"}
    /\ Dangling(slot[ci])
    /\ IF cpc = "scan" THEN NextSlot("scan", "make") ELSE NextSlot("convert", "check")
    /\ UNCHANGED <<vecVars, objVars, cend, form, seen, sndVars, elapsed, raced>>

CollectorCrashes ==
    /\ \/ cpc \in {"convert", "add"} /\ ~Live(slot[ci])
       \/ cpc = "scan" /\ Dangling(slot[ci])
    /\ Crash

Collector ==
    \/ Collect \/ Convert \/ AddData
    \/ CheckLater \/ CheckNow \/ Scan
    \/ (\E k \in Kind : Recreate(k)) \/ Grow \/ ConnectFails \/ CheckDone
    \/ CollectorUsesFreed \/ CollectorCrashes

-----------------------------------------------------------------------------
(* The sender.                                                             *)

(* it = outputVec_.begin() *)
Wake ==
    /\ spc = "sleep"
    /\ si' = 1
    /\ stale' = FALSE
    /\ spc' = "test"
    /\ UNCHANGED <<vecVars, objVars, colVars, item, elapsed, raced>>

(* it != outputVec_.end(): an iterator into another buffer never is. *)
Test ==
    /\ spc = "test"
    /\ spc' = IF si = fin + 1 /\ ~stale THEN "sleep" ELSE "pop"
    /\ UNCHANGED <<vecVars, objVars, colVars, si, item, stale, elapsed, raced>>

(* The first half of sendData on the element; nothing queued counts as sent. *)
Pop ==
    /\ spc = "pop" /\ ~stale
    /\ Live(slot[si])
    /\ LET o == slot[si] IN
       IF queue[o] = <<>>
       THEN /\ spc' = "test"
            /\ si' = si + 1
            /\ UNCHANGED <<queue, item>>
       ELSE /\ item' = Head(queue[o])
            /\ queue' = [queue EXCEPT ![o] = Tail(@)]
            /\ spc' = "send"
            /\ UNCHANGED si
    /\ UNCHANGED <<vecVars, kind, linked, colVars, stale, elapsed, raced>>

(* The sender's output: only the sender destroys outputs it can reach. *)
Sending == slot[si]

(* send returns 0: an insert that succeeded, or a write into the buffer of *)
(* a connection that is still in bevSet_.                                  *)
SendOk ==
    /\ spc = "send"
    /\ kind[Sending] = item
    /\ item = "tcp" => linked[Sending]
    /\ spc' = "test"
    /\ si' = si + 1
    /\ item' = Null
    /\ UNCHANGED <<vecVars, objVars, colVars, stale, elapsed, raced>>

(* send returns -1: sqlite refuses the text or fails, or bevSet_ is empty. *)
SendFail ==
    /\ spc = "send"
    /\ kind[Sending] = "tcp" => item = "tcp" /\ ~linked[Sending]
    /\ spc' = "erase"
    /\ raced' = (raced \/ Meet(cpc, spc'))
    /\ item' = Null
    /\ UNCHANGED <<vecVars, objVars, colVars, si, stale, elapsed>>

(* outputVec_.erase(it), first part: the later elements move down; the     *)
(* output that is overwritten is destroyed.                                *)
Erase ==
    /\ spc = "erase" /\ ~stale
    /\ slot' = [i \in Slots |-> IF i \in si..(fin - 1) THEN slot[i + 1]
                                ELSE IF i = fin /\ si < fin THEN Null ELSE slot[i]]
    /\ LET gone == {o \in Object : si < fin /\ slot[si] = o} IN
       /\ kind' = [o \in Object |-> IF o \in gone THEN Free ELSE kind[o]]
       /\ queue' = [o \in Object |-> IF o \in gone THEN <<>> ELSE queue[o]]
    /\ spc' = "destroy"
    /\ UNCHANGED <<fin, cap, linked, colVars, si, item, stale, elapsed, raced>>

(* Mutant of Destroy: the loop goes on behind the erased element's place,  *)
(* as with ++it after erase.                                               *)
DestroySkip ==
    /\ spc = "destroy"
    /\ fin' = fin - 1
    /\ LET gone == {o \in Object : slot[fin] = o} IN
       /\ kind' = [o \in Object |-> IF o \in gone THEN Free ELSE kind[o]]
       /\ queue' = [o \in Object |-> IF o \in gone THEN <<>> ELSE queue[o]]
    /\ spc' = "test"
    /\ si' = si + 1
    /\ UNCHANGED <<slot, cap, linked, colVars, item, stale, elapsed, raced>>

(* Second part: the end moves down and the element there is destroyed. *)
Destroy ==
    /\ spc = "destroy"
    /\ fin' = fin - 1
    /\ LET gone == {o \in Object : slot[fin] = o} IN
       /\ kind' = [o \in Object |-> IF o \in gone THEN Free ELSE kind[o]]
       /\ queue' = [o \in Object |-> IF o \in gone THEN <<>> ELSE queue[o]]
    /\ spc' = "test"
    /\ UNCHANGED <<slot, cap, linked, colVars, si, item, stale, elapsed, raced>>

(* The sender uses an output that was destroyed, and survives it. *)
SenderUsesFreed ==
    /\ spc = "pop" /\ ~stale
    /\ Dangling(slot[si])
    /\ spc' = "test"
    /\ si' = si + 1
    /\ UNCHANGED <<vecVars, objVars, colVars, item, stale, elapsed, raced>>

(* A null or stale iterator, a destroyed output, or the uncaught exception *)
(* of json::parse for an item that OutputLocal::convert made.              *)
SenderCrashes ==
    /\ \/ spc \in {"pop", "erase"} /\ stale
       \/ spc = "pop" /\ ~Live(slot[si])
       \/ spc = "send" /\ kind[Sending] = "tcp" /\ item # "tcp"
    /\ Crash

Sender ==
    \/ Wake \/ Test \/ Pop \/ SendOk \/ SendFail \/ Erase \/ Destroy
    \/ SenderUsesFreed \/ SenderCrashes

-----------------------------------------------------------------------------
(* The environment: seconds pass, and connections end (Network::eventCB    *)
(* empties bevSet_ for good: nothing reconnects).                          *)
Tick ==
    /\ Alive
    /\ elapsed < checkOutputIntv
    /\ elapsed' = elapsed + 1
    /\ UNCHANGED <<vecVars, objVars, colVars, sndVars, raced>>

Disconnect ==
    /\ Alive
    /\ \E o \in Object :
          /\ kind[o] = "tcp" /\ linked[o]
          /\ linked' = [linked EXCEPT ![o] = FALSE]
    /\ UNCHANGED <<vecVars, kind, queue, colVars, sndVars, elapsed, raced>>

Next == Collector \/ Sender \/ Tick \/ Disconnect

Spec == Init /\ [][Next]_vars

(* Both threads loop until the process ends, time passes, and the server   *)
(* can be reached infinitely often.                                        *)
FairSpec ==
    /\ Spec
    /\ WF_vars(Collector)
    /\ WF_vars(Sender)
    /\ WF_vars(Tick)
    /\ \A k \in Kind : SF_vars(Recreate(k))

-----------------------------------------------------------------------------
(* Types of the variables, for every step of the agent. *)
TypeOK ==
    /\ slot \in [Slots -> Object \cup {Null}]
    /\ fin \in 0..MaxSlot /\ cap \in Nat
    /\ kind \in [Object -> Kind \cup {Free}]
    /\ queue \in [Object -> Seq(Kind)]
    /\ \A o \in Object : Len(queue[o]) <= maxSize + 1
    /\ linked \in [Object -> BOOLEAN]
    /\ cpc \in {"idle", "convert", "add", "check", "scan", "make", "grow", "dead"}
    /\ ci \in Slots /\ cend \in 0..MaxSlot
    /\ form \in Kind \cup {Null} /\ seen \subseteq Kind
    /\ spc \in {"sleep", "test", "pop", "send", "erase", "destroy", "dead"}
    /\ si \in 1..(MaxSlot + 1) /\ item \in Kind \cup {Null} /\ stale \in BOOLEAN
    /\ elapsed \in 0..checkOutputIntv
    /\ raced \in BOOLEAN

InVector(k) == \E i \in 1..fin : Live(slot[i]) /\ kind[slot[i]] = k

(* The only way the agent dies is that its two threads met inside the      *)
(* vector: as long as every erase and every reallocation happens while the *)
(* other thread is elsewhere, failed sends, lost connections, constructors *)
(* that throw and outputs made anew never lead to a bad access.            *)
CrashNeedsRace == ~Alive => raced

(* checkOutput never adds a second output of a kind that is there, so a    *)
(* sample is recorded once per kind.                                       *)
OneOutputPerKind ==
    ~raced => \A i, j \in 1..fin :
                 i # j /\ Live(slot[i]) /\ Live(slot[j])
                     => kind[slot[i]] # kind[slot[j]]

(* What an output gets to send was converted by an output of its kind: the *)
(* reference the collector holds still names the same output after convert.*)
OwnForm ==
    ~raced => \A o \in Object : \A i \in 1..Len(queue[o]) : queue[o][i] = kind[o]

(* The agent goes on running whatever happens to its connection to the     *)
(* server or to its database.                                              *)
Survives == Alive

(* A configured output that was erased, or could not be made, is made anew *)
(* while the threads do not meet inside the vector.                        *)
Restored ==
    \A k \in Configured : ~InVector(k) ~> (InVector(k) \/ raced)
=============================================================================
