------------------------------ MODULE Sampling ------------------------------
(***************************************************************************)
(* When samples are taken (Dfsrr::run, src/src/dfsrr/dfsrr.cpp), and what  *)
(* the traffic collector makes of two readings of the kernel's counters    *)
(* (src/module/traffic.cpp).                                               *)
(*                                                                         *)
(* The loop looks at the clock anew for every collector; collectors take   *)
(* their time, so that looks at one of them may lie any time apart.  The   *)
(* traffic collector stamps every device's line with a look of its own.    *)
(* Time is in seconds: what happens within one is left open.  One counter  *)
(* per device stands for eight.  Other collectors only take time.          *)
(***************************************************************************)
EXTENDS Integers, FiniteSets

CONSTANTS
    Modules,    \* collectors 1..Modules, in the order of moduleVec_
    Net,        \* the traffic collector among them
    intv,       \* mod.intv, the same for all
    Dev,        \* network devices that checkNetDev accepts
    Before,     \* what their counters may have reached before the agent
    Start,      \* the clock when the agent starts
    MaxTime,    \* bound: the clock
    MaxBack,    \* bound: by how much the clock is set back
    MaxSets,    \* bound: how often
    MaxMoved,   \* bound: packets of a device
    MaxDowns    \* bound: how often a device vanishes

ASSUME SamplingAssumption ==
    /\ Modules \in Nat \ {0} /\ Net \in 1..Modules /\ intv \in Nat \ {0}
    /\ IsFiniteSet(Dev) /\ Before \subseteq Nat
    /\ Start \in Nat /\ Start >= intv /\ MaxTime \in Nat
    /\ MaxBack \in Nat /\ MaxSets \in Nat /\ MaxMoved \in Nat /\ MaxDowns \in Nat

Mod == 1..Modules
Nothing == <<>>

VARIABLES
    now,        \* time(nullptr)
    sets,       \* history: how often the clock was set back
    pos,        \* the collector the loop of run is at
    pc,         \* "look", "other", "open", "stamp"
    lastTime,   \* mod.lastTime
    looked,     \* history: the time of the last look at a collector
    skipped,    \* history: looks since its last sample were over 1 s apart
    slow,       \* history: a reading was not finished within the interval
    up,         \* devices that are there
    kern,       \* their counters
    moved,      \* history: packets of a device since the agent started
    downs,      \* history: how often a device vanished
    snap,       \* /proc/net/dev as it was when read
    todo,       \* its lines that are still to be parsed
    curr,       \* currTrafficMap_
    last,       \* lastTrafficMap_
    first,      \* history: the first reading of a device
    credited,   \* history: packets that went into a device's rates
    lost        \* history: packets that did not, for the rate's span was 0

loopVars == <<pos, pc, lastTime, looked, skipped>>
kernelVars == <<up, kern, moved, downs>>
readVars == <<snap, todo, curr, slow>>
sumVars == <<last, first, credited, lost>>
samplingVars == <<now, sets, loopVars, kernelVars, readVars, sumVars>>

SamplingInit ==
    /\ now = Start /\ sets = 0
    /\ pos = 1 /\ pc = "look"
    /\ lastTime = [m \in Mod |-> 0] /\ looked = [m \in Mod |-> Start]
    /\ skipped = [m \in Mod |-> FALSE] /\ slow = FALSE
    /\ up = Dev /\ kern \in [Dev -> Before]
    /\ moved = [d \in Dev |-> 0] /\ downs = [d \in Dev |-> 0]
    /\ snap = Nothing /\ todo = {} /\ curr = Nothing
    /\ last = Nothing /\ first = Nothing
    /\ credited = [d \in Dev |-> 0] /\ lost = [d \in Dev |-> 0]

-----------------------------------------------------------------------------
(* The clock and the kernel.                                               *)

ClockTick ==
    /\ now < MaxTime
    /\ now' = now + 1
    /\ UNCHANGED <<sets, loopVars, kernelVars, readVars, sumVars>>

SetBack(k) ==
    /\ sets < MaxSets /\ now - k >= intv
    /\ now' = now - k /\ sets' = sets + 1
    /\ UNCHANGED <<loopVars, kernelVars, readVars, sumVars>>

Move(d) ==
    /\ d \in up /\ moved[d] < MaxMoved
    /\ kern' = [kern EXCEPT ![d] = @ + 1]
    /\ moved' = [moved EXCEPT ![d] = @ + 1]
    /\ UNCHANGED <<now, sets, loopVars, up, downs, readVars, sumVars>>

Down(d) ==
    /\ d \in up /\ downs[d] < MaxDowns
    /\ up' = up \ {d}
    /\ downs' = [downs EXCEPT ![d] = @ + 1]
    /\ UNCHANGED <<now, sets, loopVars, kern, moved, readVars, sumVars>>

(* A device that comes back counts from 0. *)
Up(d) ==
    /\ d \in Dev \ up
    /\ up' = up \cup {d}
    /\ kern' = [kern EXCEPT ![d] = 0]
    /\ UNCHANGED <<now, sets, loopVars, moved, downs, readVars, sumVars>>

-----------------------------------------------------------------------------
(* Dfsrr::run                                                              *)

(* Mutants of Due: an interval is counted from the second after the last   *)
(* sample; the last sample is left out of account.                         *)
DueLate(m) == now % intv = 0 /\ now - lastTime[m] > intv
DueAgain(m) == now % intv = 0

Due(m) == now % intv = 0 /\ now - lastTime[m] >= intv

(* The loop goes on with the next collector, after usleep with the first.  *)
Onward == pc' = "look" /\ pos' = IF pos < Modules THEN pos + 1 ELSE 1

Looked(m) ==
    /\ looked' = [looked EXCEPT ![m] = now]
    /\ skipped' = [skipped EXCEPT ![m] =
          (looked[m] # lastTime[m] /\ @) \/ now > looked[m] + 1]

Pass ==
    /\ pc = "look" /\ ~Due(pos)
    /\ Looked(pos) /\ Onward
    /\ UNCHANGED <<now, sets, lastTime, kernelVars, readVars, sumVars>>

TakeSample ==
    /\ pc = "look" /\ Due(pos)
    /\ Looked(pos)
    /\ lastTime' = [lastTime EXCEPT ![pos] = now]
    /\ pc' = IF pos = Net THEN "open" ELSE "other"
    /\ UNCHANGED <<now, sets, pos, kernelVars, readVars, sumVars>>

OtherDone ==
    /\ pc = "other" /\ Onward
    /\ UNCHANGED <<now, sets, lastTime, looked, skipped, kernelVars, readVars, sumVars>>

-----------------------------------------------------------------------------
(* Traffic::collect                                                        *)

ReadNetDev ==
    /\ pc = "open" /\ pc' = "stamp"
    /\ snap' = [d \in up |-> kern[d]] /\ todo' = up
    /\ UNCHANGED <<now, sets, pos, lastTime, looked, skipped, kernelVars, curr, slow, sumVars>>

(* The file cannot be opened: there is no sample. *)
ReadFails ==
    /\ pc = "open" /\ Onward
    /\ UNCHANGED <<now, sets, lastTime, looked, skipped, kernelVars, readVars, sumVars>>

(* Mutant of Counts: a device without a packet is recorded, too. *)
CountsAll(d) == TRUE

(* pktin > 0 *)
Counts(d) == snap[d] > 0

(* The map f, with what g has of the devices that f has not. *)
Joined(f, g) ==
    [d \in DOMAIN f \cup DOMAIN g |-> IF d \in DOMAIN f THEN f[d] ELSE g[d]]

(* A line of the file; the map never forgets a device. *)
Stamp(d) ==
    /\ pc = "stamp" /\ d \in todo
    /\ todo' = todo \ {d}
    /\ curr' = IF Counts(d)
               THEN Joined([e \in {d} |-> [count |-> snap[d], ts |-> now]], curr)
               ELSE curr
    /\ slow' = (slow \/ now >= lastTime[Net] + intv)
    /\ UNCHANGED <<now, sets, loopVars, kernelVars, snap, sumVars>>

(* Mutant of Delta: the difference, whichever is greater. *)
DeltaAbs(t1, t2) == IF t1 > t2 THEN t1 - t2 ELSE t2 - t1

Delta(t1, t2) == IF t1 > t2 THEN t1 - t2 ELSE 0

(* The devices that both maps have are rated; Ratio gives 0 for no time.   *)
Packets(d) == IF d \in DOMAIN curr \cap DOMAIN last
              THEN Delta(curr[d].count, last[d].count) ELSE 0
Rated(d) == d \in DOMAIN curr \cap DOMAIN last /\ Delta(curr[d].ts, last[d].ts) > 0

Sum ==
    /\ credited' = [d \in Dev |-> credited[d] + IF Rated(d) THEN Packets(d) ELSE 0]
    /\ lost' = [d \in Dev |-> lost[d] + IF Rated(d) THEN 0 ELSE Packets(d)]
    /\ first' = Joined(first, curr)
    /\ snap' = Nothing

(* Mutant of Calculate: readings are compared with a device's first. *)
CalculateFirst ==
    /\ pc = "stamp" /\ todo = {}
    /\ Sum /\ last' = Joined(last, curr)
    /\ Onward
    /\ UNCHANGED <<now, sets, lastTime, looked, skipped, kernelVars, todo, curr, slow>>

(* calculate, and lastTrafficMap_ = currTrafficMap_ *)
Calculate ==
    /\ pc = "stamp" /\ todo = {}
    /\ Sum /\ last' = curr
    /\ Onward
    /\ UNCHANGED <<now, sets, lastTime, looked, skipped, kernelVars, todo, curr, slow>>

SamplingNext ==
    \/ ClockTick \/ (\E k \in 1..MaxBack : SetBack(k))
    \/ (\E d \in Dev : Move(d) \/ Down(d) \/ Up(d))
    \/ Pass \/ TakeSample \/ OtherDone
    \/ ReadNetDev \/ ReadFails \/ (\E d \in Dev : Stamp(d)) \/ Calculate

SamplingSpec == SamplingInit /\ [][SamplingNext]_samplingVars

-----------------------------------------------------------------------------
IsReading(f) ==
    DOMAIN f \subseteq Dev /\ \A d \in DOMAIN f : f[d].count \in Nat \ {0} /\ f[d].ts \in Nat

(* The types of the loop and of the readings, which hold no device without *)
(* a packet; every reading that is compared has one that followed it.      *)
SamplingTypeOK ==
    /\ now \in Nat /\ pos \in Mod /\ pc \in {"look", "other", "open", "stamp"}
    /\ lastTime \in [Mod -> Nat] /\ looked \in [Mod -> Nat] /\ skipped \in [Mod -> BOOLEAN]
    /\ pc \in {"open", "stamp"} => pos = Net
    /\ up \subseteq Dev /\ kern \in [Dev -> Nat] /\ moved \in [Dev -> Nat]
    /\ todo \subseteq DOMAIN snap /\ (pc # "stamp" => todo = {} /\ snap = Nothing)
    /\ IsReading(curr) /\ IsReading(last) /\ DOMAIN last \subseteq DOMAIN curr
    /\ credited \in [Dev -> Nat] /\ lost \in [Dev -> Nat]

(* The samples of a collector lie one interval apart, none is taken twice  *)
(* and none is left out, however long the other collectors take and        *)
(* however the clock is set back, but when two looks at it since the last  *)
(* one were more than a second apart (nowTime % mod.intv).                 *)
GridKept ==
    [][\A m \in Mod :
        lastTime[m] # 0 /\ lastTime'[m] # lastTime[m]
        => lastTime'[m] = lastTime[m] + intv \/ skipped'[m]]_samplingVars

(* The rates of a device never account for more packets than there were,   *)
(* though it vanish, come back with a counter that fell and grew again, or *)
(* not be read for a while (Delta, and the maps that never forget).        *)
NeverMore == \A d \in Dev : credited[d] + lost[d] <= moved[d]

(* For a device that never vanished nothing is counted twice or left out:  *)
(* the samples add up to what its counter grew by.                         *)
AddsUp ==
    \A d \in DOMAIN last :
        downs[d] = 0 => credited[d] + lost[d] = last[d].count - first[d].count

(* A device that moved packets between two readings has a rate: the second *)
(* reading is stamped later than the first (Ratio gives 0 otherwise), or   *)
(* the clock was set back, or a reading took the whole interval.           *)
RateNeedsTime == \A d \in Dev : lost[d] > 0 => sets > 0 \/ slow
=============================================================================
