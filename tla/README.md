# dfsrr in TLA+

This directory specifies dfsrr, a recorder of system statistics, in TLA+: an
agent samples a host and keeps the samples in sqlite files and/or sends them to
a server; the server stores them in MySQL; a web server, a command line tool
and a forwarder read them again.  TLC checks the specifications on small
instances, TLAPS checks theorems about them for every value of the constants.

Paths are those of the repository; source files of the programs are below
`src/src/`, the collectors below `src/module/`, the forwarder below
`src/slslog/`.

## 1. Inventory

### Agent (`src/src/dfsrr`)

| part | state | operations | who runs it |
|---|---|---|---|
| `Dfsrr` | `moduleVec_` with `lastTime`, `outputVec_`, `lastCheckTime_` | `run`, `checkOutput` | main thread ("collector") |
| | `outputVec_` | `sendData` | send thread ("sender") |
| `Output` | `dataQueue_` under `mutex_` | `addData` / `sendData` | collector / sender |
| `OutputTcp` | `netPtr_`, host name, addresses | constructor (may throw), `convert`, `send` | both |
| `OutputLocal` | `lastTime_`, one sqlite file per module | `convert`, `send`, `createTable`, `delOldData` | both |
| `Network` | `bevSet_`, `base_`, `loopPtr_` | `connect`, `send`, `eventCB` | sender, its own loop thread |

The collector and the sender share `outputVec_` *without* a lock and the queues
of the outputs *with* one.  Hard here: an erase or a reallocation of the vector
under the other thread's loop, an output that fails while it is being filled,
outputs erased and made anew, items lost by a failed send, `kill -9`.

Correct means: samples go out in order and not twice; queues are bounded; a
missing output comes back; there is one output per kind; an output sends only
what was converted for it; nothing an output meets ends the agent.

### Server (`src/src/dfsrrServer`, `src/src/common`)

| part | state | operations | who runs it |
|---|---|---|---|
| `DfsrrServer` | `cliInfoMap_` (per connection: header, `currLen`, message, `timeoutCount`), `s2mPtr_` | `recvData`, `timeout` | loop thread |
| `Network` | `bevSet_`, listener | `listenerCB`, `recvCB`, `eventCB` | loop thread |
| `Store2Mysql` | `dataQueue_` under `mutex_` | `convert`, `addData` / `storeData` | loop thread / store thread |
| `MysqlDB` | `conn_` | `connect`, `reconnect`, `execSql` | store thread |

Hard here: TCP hands over bytes cut anywhere; the state of a connection is found
by the address of an object that may have been freed and made again; the loop
thread starts before the store exists; the database goes away and comes back;
nothing catches what `convert` throws.

Correct means: a message is the body of one packet, whatever the chunks; the
parser terminates; only named causes end the server; every statement is
accounted for; a lost connection has a bounded cost; rows are stored in order
and once.

### Readers and the rest

| part | state | operations | who runs it |
|---|---|---|---|
| collectors (`src/module`) | readings of kernel counters (`currTrafficMap_`, `lastTrafficMap_`, ...) | `collect`, `calculate` | the agent's main thread |
| tool (`src/src/dfsrrTool`) | rows of one or two selects | `printLastNData` and other modes | a process of its own beside the agent |
| forwarder (`src/slslog/src/sls`) | a cursor file per table | read cursor, select, `sparse`, save cursor, send | a process of its own, one loop |
| web server: queries | members of `DfsrrDataSelect`, two `MysqlDB` | `/dfsrr`, `/metrics` | one evhttp thread |
| web server: files | descriptors | `document`, `favicon` | the same thread |

Hard here: looks at a clock that may be set back, collectors that take long,
devices that vanish and come back; a file read in two selects while another
process writes, purges and retries; a cursor file that is truncated before it is
written and written before the rows are sent, any of which may be the last thing
the process does; parameters of a request that live in members of an object that
serves all requests; a connection whose reconnect fails in the middle of a
request; a descriptor closed twice.

Correct means: samples lie on the grid of their interval; rates account for
every packet once; what is shown are the newest rows; a row is forwarded once
unless a cursor was lost, and what the cursor passed was not forgotten; a reply
has the rows its own request asked for; every request gets a reply; no
descriptor is lost.

`stringUtil.h` and `common.h` (splitting, stripping, host name, addresses), the
entry points, the scripts and the vendored libraries are the rest.

## 2. Modules

| module | models | theorems in |
|---|---|---|
| `LossyFifo` | what a queue between two threads of dfsrr promises (abstract) | `LossyFifo_proofs` |
| `Output` | `output.cpp` and what happens to one output kind over its life | `Output_proofs` |
| `Agent` | `Dfsrr::run`, `checkOutput`, `sendData` over the unlocked vector | `Agent_proofs` |
| `Network` | the agent's side of `network.cpp` under its two threads | `Network_proofs` |
| `OutputLocal` | `outputLocal.cpp` on sqlite, and `dfsrrTool -w` beside it | `OutputLocal_proofs` |
| `Sampling` | when samples are taken, and the traffic collector's two readings | `Agent_proofs` |
| `RecvData` | `DfsrrServer::recvData`, `timeout`, and the callbacks that call them | `Server_proofs` |
| `Store2Mysql` | `store2Mysql.cpp` on `mysqldb.cpp` and the database | `Server_proofs` |
| `SlsForwarder` | the forwarder's pass over a table, with its cursor file | `SlsForwarder_proofs` |
| `HttpFiles` | the file handlers of the web server and its descriptors | `Web_proofs` |
| `WebServer` | the queries of the web server and its two connections | `Web_proofs` |
| `MC...` | instances for TLC | - |

`Agent_proofs`, `Server_proofs` and `Web_proofs` hold the theorems on both
programs' parts that live in one process; so `Sampling`, `RecvData` and
`HttpFiles` name their formulas apart (`SamplingSpec`, `ParserSpec`,
`FilesSpec`, ...).  The lemmas on sequences that the refinement proofs share are
in `LossyFifo_proofs`.

`Output` and `Store2Mysql` each contain `Fifo == INSTANCE LossyFifo WITH ...`:
the abstract backlog is the item the consumer holds followed by the queue, and
`ImplementsFifo == Fifo!Spec` is checked by TLC and proved.  `OutputLocal`
contains `Outp == INSTANCE Output WITH ...` and `ImplementsOutput == Outp!Spec`:
a sample is reduced to its number, and what `send` does with tables, retries and
purges is one `SendOk` or one `SendFail`; so the local output is a lossy queue,
too.  How the others fit together: `Agent`'s `linked` stands for what `Network`
has inside, `Network` hands over whole messages where `RecvData` cuts the stream
into chunks, `RecvData`'s `Complete` calls the `addData` that `Store2Mysql`
begins with, and `WebServer` and `SlsForwarder` read what that wrote.

Definitions named as the mutant of another (`PopLate`, `ScanBlind`, ...) are not
part of any specification: each is a wrong version of the definition that
follows it, and TLC finds a property violated when it takes its place.

### 2.1 LossyFifo

Items are numbered as they are offered.  `Accept`, `Refuse` (only when the
backlog is full but for the item in the consumer's hands, or nobody holds a
queue), `Deliver`, `LoseHead`, `Replace` (the queue is destroyed, or another one
takes its place).

### 2.2 Output

`AddData` is `Output::addData`: the test is `size() > maxSize_`, so
`maxSize_ + 1` items fit.  `Pop` is the part of `sendData` under the lock;
between it and `SendOk`/`SendFail` the item is only in `od`.  `SendFail` includes
the `erase` of `Dfsrr::sendData`, which destroys the queue.  `Unrecorded` is a
sample for which the vector holds no output of the kind.  `Renew` is
`checkOutput`; `Kill` is `dfsrrctl.sh stop` and a new start.

### 2.3 Agent

The vector is modelled at the grain of memory accesses: slots, an end index and
a capacity; `erase` is two steps (`Erase` moves elements and nulls the moved-from
slot, `Destroy` lowers the end), `push_back` is two (`PushBack` writes the slot,
`Grow` raises the end) or a reallocation.  The collector is `Collect`, `Convert`,
`AddData` per output, then `CheckLater` or `CheckNow`, `Scan` per output,
`Recreate`/`ConnectFails` per missing kind, `CheckDone`.  The sender is `Wake`,
`Test` (`it != end()`), `Pop`, `SendOk`/`SendFail`, `Erase`, `Destroy`.  Undefined
behaviour is a choice: use of a destroyed object has no effect or ends the
process; a null pointer, or an iterator into a freed buffer, ends it.
`raced` remembers that the threads met inside the vector, so that what holds
without such a meeting can be said.  Items are reduced to the kind of output
that converted them; `linked` says whether `bevSet_` still has the connection.

### 2.4 RecvData

A connection is an endless row of packets (`body` is the size of the current
one, `off` the position in it).  `Receive` takes a chunk of any length up to
`MaxRead`; `CutHead`, `FullHead`, `Body`, `Complete` and `DivideByZero` are the
do-while loop.  `genuine` counts the bytes of a cut header that are really the
sender's; the bytes `append` takes beyond the chunk are the terminating NUL of
the `std::string` and then anything, which is why a header cut one byte before
its end is still read right (sizes below 2^24) and every other cut header is
not.  Counters are UINT32, `Width` stands for 2^32.  `Accept` may find the entry
of an earlier connection.  `whole` compares each message with the body that was
sent; `spoiled` remembers a badly cut header or an inherited entry.

### 2.5 Store2Mysql

`AddData`, `Pop` as above; `execSql` is `ExecOk`, `ExecRejected`,
`LostDuringQuery` (the statement may have been executed, no reconnect),
`GoneAway` (reconnect once, statement not repeated) and `ExecOnNull` (`conn_` is
null after a failed reconnect, the process ends).  `Break`, `DbStop`, `DbStart`
are the database; `Restart` is a new process.  `breaks`, `lost`, `buried`,
`refused` are history.

### 2.6 Network

One connection of the agent, from its `connect` to `~Network`.  The send thread:
`SendTest` (`bevSet_.size()` first), `Begin`, `WriteEnter`/`WriteLeave` for
`bufferevent_write`, `SendReturns`; after a failure `Destroy` (loopbreak),
`FreeBase` and `Join`.  The loop thread: `Drain`/`Drained` for libevent writing
the output buffer, `Notice`, `Free`, `Erase` for `eventCB` and `eraseBev`,
`Finalize` and `LoopReturns` for what libevent does behind it.  The peer and the
wire are `Connected`, `PeerReads`, `Break`.  `met` remembers that the threads
were among `bevSet_`, the bufferevent or the base together; the use of a freed
object ends the process or goes unnoticed, and a write that meets the loop
thread may not reach the buffer.

### 2.7 OutputLocal

`Pop`, then `TestPeriod` and perhaps `Purge` (`delOldData`), then one `Insert`
per row, `CreateTable` where the table is missing, `SendFails` for every way in
which `send` returns -1.  `now` and `rotate` give the cut-off modulo `Width`.
`dfsrrTool -w` is `ReadStart`/`ReadEnd` for the first select, `ReadAgain` for the
second (whose limit and offset come from the first) and `ToolEnds`.  While it
steps through the rows of a file, writes to that file fail at once, as sqlite
has no busy timeout here.  A table is a function from sqlite's rowids, of which
a new row gets the largest plus one; `Desc` is `ORDER BY timestamp DESC`, said
by the rank of a row (how many come before it) and not by a way to sort, with
rows of one time in the order of their rowids.

### 2.8 Sampling

`Pass` and `TakeSample` are a look of `Dfsrr::run` at one collector; `OtherDone`
is the end of any but traffic, which may have taken any time; `ReadNetDev` or
`ReadFails`, `Stamp` per line and `Calculate` are `Traffic::collect`.
`ClockTick` and `SetBack` are the clock, `Move`, `Down` and `Up` the kernel.  One
counter stands for the eight of a device, which are read and subtracted
together.  `skipped`, `slow`, `credited` and `lost` are
history.

### 2.9 SlsForwarder

A pass is `ReadCursor`, `FetchOk` or `FetchCut` (the query fails, or the
connection ends while rows are fetched), `Truncate`, `Write` or `SaveFails`,
`SendOk` or `SendFails`; `Crash` and `Start` may come between any two of them.
The operator `Sparse` says what `sparse` keeps by its result.  `times` counts
how often the service got a row, `losses` the cursors that did not reach the
disk.  The three tables are passed over one after the other and share only the
database connection, so one is modelled.

### 2.10 HttpFiles

A descriptor's number stands for a socket, a file or nothing; the lowest free
one is given out.  `Document` has its file closed when it returns and again when
the reply is `Written` or the client `Gone`; `Favicon` leaves the closing to the
reply; `FaviconFails` is the early return after `fstat`.

### 2.11 WebServer

`Request` is a GET; `UnknownModule`, `ParamError` and `Parse` are
`parseCommonParam` with its early returns, over the members that outlive the
request; `SelectOk`/`SelectFails` the answer to `/dfsrr`;
`MetricRows`/`MetricSkipped`/`MetricsDone` the loop of `/metrics`.  `ExecRows`,
`ExecCut`, `ExecFalse` and `ExecOnNull` are the outcomes of `MysqlDB::execSql` on
the handler's own connection.

## 3. What TLC checks

| run | instance | shows |
|---|---|---|
| `output` | `maxSize` 1, 6 samples | the queue fills, drops, drains, dies and is renewed several times: `ImplementsFifo`, `Drains` |
| `agent` | both kinds, 2 heap blocks, 4 slots, `maxSize` 0 | `CrashNeedsRace`, `OneOutputPerKind`, `OwnForm` over all interleavings, `Restored` |
| `agent_survives` | as `agent`, 3 heap blocks | **violated**: see below |
| `network` | 4 messages | `CrashNeedsRace`, `NoGap`, `DeadNoticed`, `DestroyEnds` |
| `output_local` | 2 collectors with 2 rows, purge every second, rotation 1 or 9, clock 3 to 5, `-w` 1 or 3, 1 failure | `Whole`, `OnlyOldPurged`, `ShownNewest`, `ImplementsOutput` |
| `sampling` | 2 collectors, interval 2, 1 device, clock 4 to 8, set back once by at most 2 | `GridKept`, `NeverMore`, `AddsUp`, `RateNeedsTime` |
| `recv_data` | header 8, bodies 1 and 3, chunks up to 13, `Width` 64 | `Framed`, `CrashNeedsCause`, `HandlerEnds`, `EntriesStay` |
| `recv_data_intact` | as `recv_data` | **violated**: see below |
| `store2mysql` | `maxSize` 1, 6 statements, 2 breaks | `ImplementsFifo`, `InOrder`, `Accounted`, `LossPerBreak`, `Drains` |
| `sls_forwarder` | 2 agents, 2 rows, `span` 1, page of 1, 1 lost cursor, 1 failure | `AtMostOnce`, `PassedOver`, `CatchesUp` |
| `http_files` | 3 clients, 5 descriptors, 1 failed `fstat` | `Accounted`, `LossNeedsOverlap` |
| `web_server` | 2 modules, 1 value, 1 break | `ReplyFits`, `MetricsWhole`, `EndNeedsCause`, `Answered` |

`OutputLocal`, `Sampling`, `HttpFiles` and `WebServer` are also checked for their
type invariants (`TypeOK`, `SamplingTypeOK`, `FilesTypeOK`).  Those of all modules
are proved for every value of the constants (section 4); the properties of
`LossyFifo` reach the runs through `ImplementsFifo`.

### Bounds

* `output`, `store2mysql`: six items fill a queue of two, drop, drain and fill it
  again after it was replaced.  Two breaks let a second connection end after a
  reconnect.
* `agent`: two heap blocks are two live outputs, which take the place of one
  another when they are made anew; with three a destroyed one may also stay
  destroyed while somebody points at it; four slots allow one reallocation and a
  vector that holds a duplicate.  Larger heaps and vectors are left to the proofs.
* `network`: four messages are one on the wire, one buffered, one being written
  and one that finds the connection gone.
* `output_local`: two tables, because `lastTime_` is shared by them; two rows,
  because a sample may be cut between them; rotation 9 is more than the clock
  shows and wraps, rotation 1 purges what is still read; `-w` 3 with two rows per
  sample makes a second select with an offset.  `Lag` 1: the send thread takes an
  item every 30 ms and is at most a second behind.
* `sampling`: an interval of two with a clock that moves four seconds on and may
  be set back has samples that are due, early, skipped and taken after the clock
  was set back; one device suffices, as devices share only the delay between
  the reading of the file and their stamp, which is arbitrary here; two packets
  and one disappearance let a counter fall and grow past its old value (`Before`).
* `recv_data`: chunks of 13 bytes end anywhere in a packet and can hold the end
  of one packet, a whole one and the start of the next; the garbage sizes are 0,
  sizes of bodies, sizes of no body, and 56, for which `size + PkgLen` wraps to
  0.  A garbage size whose sum wraps to another small number makes a message
  that grows for ever and is left out.  One address suffices: entries of
  different addresses share nothing.
* `sls_forwarder`: two rows may be equal in time, within `span` or apart; a page
  of one row makes every second row wait for the next pass; `Skew` and `Delay` 1
  allow rows that are early and rows that are late.
* `http_files`: three clients and five descriptors: two replies that wait, one
  client that comes in between, and no number left.  Clients are interchangeable,
  so the run uses symmetry.
* `web_server`: requests with every combination of given, missing and refused
  parameters that gives at most two besides the module (`FewParams`), one after
  the other without end: two that the previous request gave and this one does not
  are enough to see a member that was kept; one break costs one of two connections, or both if the
  database stops.

Deadlock checking is off where the process may end (`agent`, `agent_survives`,
`recv_data`, `recv_data_intact`, `network`, `web_server`) or where the bounds may
be used up (`store2mysql`, `output_local`, `sls_forwarder`).

### Fairness

* `Output`, `Store2Mysql`: the consumer thread looks again every 30 ms or 10 ms
  and its `send`/`execSql` returns - weak fairness of the pop and of the outcome.
  Nothing is assumed of which outcome it is.
* `Agent`: both threads loop for ever and time passes - weak fairness of each
  thread and of `Tick`.  `Restored` also needs that the constructor succeeds if
  it is tried infinitely often - strong fairness of `Recreate`, the statement
  that the server can be reached again and again.
* `Network`: both threads run and samples keep coming - weak fairness of
  each thread.  A peer that vanished is found dead only by a write that stays
  unacknowledged; `DeadNoticed` leaves out the runs in which samples end or the
  threads met.
* `RecvData`: the event loop runs its callback to the end - weak fairness of the
  loop's iterations.
* `SlsForwarder`: the loop goes on and a process that died is started again -
  weak fairness of `ReadCursor`, `Truncate`, `Start` and of the send's outcome;
  the database and the disk work again and again - strong fairness of `FetchOk`
  and `Write`.
* `WebServer`: a handler runs to its end and `mysql_real_query` returns - weak
  fairness of `Handler`.

### Where the code does not do what it says

* `agent_survives`: `README.md:64` offers recording locally and by tcp.  With
  both configured a failed tcp send erases an element of `outputVec_` while the
  collector may be iterating over it, and `checkOutput` may reallocate the
  vector under the sender (`dfsrr.cpp:177`, `dfsrr.cpp:218`, `dfsrr.cpp:229`):
  the agent ends, and with it the recording of the output that worked.
* `recv_data_intact`: `dfsrrServer.cpp:161` appends `PkgLen - currLen` bytes to
  the header before it looks whether the chunk has them (the branch below logs
  "not found head" and means to continue with the next chunk).  `recvCB` reads
  2048 bytes at a time, so a busy connection is cut at places that have nothing
  to do with packets.

Seen while modelling, without a run of their own, since nothing in the
repository states the opposite plainly enough:

* `outputLocal.cpp:67`: `lastTime_` is one for all tables.  Once in six hours the
  table of the sample in hand is purged, always that of the first collector
  whose sample comes then; the others grow for ever (`conf/dfsrr.json:15`
  configures the rotation for all).
* `outputLocal.cpp:152`: a rotation beyond the clock wraps and purges everything
  (the exception in `OnlyOldPurged`).  A purge that fails is not repeated before
  the next period.
* `dfsrrServer.cpp:219`: the idle count is reset each time, no client is ever
  given up (`EntriesStay`).  `mysqldb.cpp:101`: a lost connection costs two
  statements (`LossPerBreak`), and a reconnect that fails is not tried again
  before the null connection ends the process (`ExecOnNull`).
* `runModule.cpp:133`: with k rows per sample `-w N` shows rows of fewer than N
  samples unless the second select follows; for an empty table
  (`runModule.cpp:141`) the begin of an empty map is read.
* `route.cpp:360`: the second close of a descriptor can take the socket of a
  client that came in between (`LossNeedsOverlap`); `route.cpp:260`: favicon
  leaves a descriptor open when `fstat` fails.
* `dfsrrWebServer/dfsrr.cpp:271`: `endTime_` takes the value of `startTime`, and
  without one the end of the map is read; a request that is no GET gets no reply
  (`dfsrr.cpp:153`).
* `traffic.cpp:117`: the total uses the span of the device that is last in name
  order, so that it is 0 after that device vanished; one sum adds `pktdrpout`
  twice and leaves out `pktdrpin`.
* `partition.cpp:82`: an integer remainder by a number that may be 0; a failed
  `statfs` leaves `ps` uninitialised.

## 4. What is proved

Every safety invariant, every action property and every refinement that a
passing run checks is a theorem, for every value of the constants, under the named
assumptions of the modules: queue sizes, limits and bounds are natural numbers,
intervals, rows per sample and the numbers of collectors are not 0; a header has
at least two bytes; bodies are not empty and body plus header fit the counter;
the clock of `OutputLocal` does not pass `Width` (time(NULL) fits in 64 bits) and
starts at a time it may show; the clock of `Sampling` starts behind the first
interval (seconds since 1970), and there are finitely many devices.  The
theorems on `LossyFifo` name what they need of its constant (`CapAssumption`) as
a premise, so that the two modules that instantiate it discharge it from theirs.

* `FifoInvariant`: `FifoInv` = types, bound and order.  `InOrder` is inductive
  together with the types because everything that waits is younger than
  everything delivered (`Before`) and not younger than `offered`.
* `OutputInvariant`, `StoreInvariant`: types, `QueueBounded` (`maxSize + 1`, from
  the test in `addData`) and that an erased output, or a dead process, holds
  nothing.  The bound is needed for `Accept`, the emptiness for the steps that
  open the queue again.
* `OutputImplementsFifo`, `StoreImplementsFifo`: initial states map to initial
  states and every step to a step or a stutter (`StepRefines`, one case per
  action).  `Pop` stutters: the item moves from the queue to the hand.
* `OutputInOrder`, `StoreInOrder`: through the refinement, from `FifoInvariant`.
* `StoreAccounted`: inductive with the types.  `StoreLossPerBreak`: not inductive
  as it stands; `LossInv` adds what the connection that just ended may still
  cost (`Owed`: 2 while broken, 1 once closed).
* `ParseInvariant`: every connection that is not spoiled is `Aligned`: between
  two packets, or one byte before the end of a header, or in a body of known
  size of which the message has all that was received; the position equals
  `currLen`; and `timeoutCount` is 0.  `RecvFramed`, `RecvCrashNeedsCause` and
  `RecvEntriesStay` follow.  The arithmetic modulo `Width` is in
  `AlignedAdvance`.
* `AgentInvariant`: `AgentInv` = types and bounds of every index, which hold in
  any state, and what holds until the threads met (`raced`): both run, the
  sender's iterator is good and it changes the vector only while the collector is
  not in it (`Apart`), every slot holds a live output and no two of one kind
  (`Filled`), what is queued or in somebody's hands has the form of its output
  (`Fitting`), and `checkOutput` has seen the kinds of the slots it passed
  (`Checked`).  `AgentCrashNeedsRace`, `AgentOneOutputPerKind` and
  `AgentOwnForm` follow: the last two need `Filled`, or an output could be
  taken for one that is gone.
* `NetworkInvariant`: `NetworkInv` = types, where the two threads can be while
  they have not met (`Phases`, `Apart`) and `Stream`: what the peer got, what is on its way, what
  is buffered and what is being written are, in this order, consecutive messages.  `NetworkCrashNeedsRace` and `NetworkNoGap` follow.
* `ForwarderInvariant`: where the cursor is at each step of a pass (`Passes`), how
  often each row may still go out on top of how often it went (`Budget`, with the
  `Claim` of the step the pass is at), and that the rows behind the cursor were
  thinned (`Thinned`).  `ForwarderAtMostOnce` and `ForwarderPassedOver`
  follow; neither is inductive by itself, since both say nothing of a cursor
  that is computed but not yet written.
* `SamplingInvariant`: `SamplingInv` says what the two readings of the traffic
  collector have to do with each other and with the kernel: what is credited so
  far plus what the counter may still bring, from the last reading to the
  snapshot and from there to now, is at most what moved (`Budget`, over
  differences that are 0 when a counter fell); while a device never vanished
  the sum is exact (`Growing`); the readings before and in this pass lie on both
  sides of the `lastTime` of the pass, unless the clock was set back or the pass
  was too slow (`Stamps`); and a collector was not due at the last look (`Grid`).
  `SamplingNeverMore`, `SamplingAddsUp` and `SamplingRateNeedsTime` are the first
  three in states without a pass, `SamplingGridKept` is a property of steps that
  follows from `Grid`.
* `LocalInvariant`: `LocalInv` = types; the collectors up to some number gave the
  sample of this second and the others are alike (`Passes`, which bounds
  `offered` and so the numbers of samples); samples are stored in the order of
  their numbers (`Ordered`); of the sample in hand exactly the rows before the
  next one are stored (`InHand`); rows of one sample have one time, so that a
  purge takes all or none (`OneTime`); and `Whole` itself, which needs all of them: an
  insert puts its row behind all others and finds the rows before it, a purge
  leaves no sample in part, and a send that fails leaves in part only the sample
  that was in hand.  `LocalWhole` and `LocalOnlyOldPurged` follow.
* `LocalImplementsOutput`: the queue of samples is mapped to the row of their
  numbers, so the lemmas say what `Numbers` does to `Append` and `Tail`; then one
  case per action (`LocalStepRefines`), where the steps within a sample and all
  of the reader's steps stutter.  `LocalInOrder` follows through it from
  `OutputInOrder`.
* `ToolInvariant`: the agent and `dfsrrTool -w` together.  `InTime`: for its
  collector every stored or shown row is past, that is, what is queued or in
  hand comes with a later time, or with the same one and a later row.
  `Selected`: what is shown is listed newest first, one collector's only
  (`Listing`); no row between the newest and the oldest shown is missing, and
  none at all unless `lastN` are shown (`NoneLeftOut`); and until the second
  select is made, a table that still has a row has all shown rows that are not
  older, with what came since behind them (`StillThere`), since inserts are past
  the end and a purge takes rows with all that are older.  The rank lemmas
  (`DescFacts`, `FirstFacts`, `AgainFacts`, `CountedFacts`) carry this from one
  select to the other: the rows of the oldest time that were counted are the
  first ones of that time, so limit and offset of the second select go on exactly
  there.  `ToolShownNewest` follows.
* `WebInvariant`: the members fit the request as long as it has queries to make
  (`Fits`, from `members` being overwritten or cleared by every `Parse`); the
  exporter has, or failed to get, what is no longer to be asked; a connection ends
  only with a break.  `WebReplyFits`, `WebMetricsWhole`, `WebEndNeedsCause`.
* `FilesInvariant`: every number is accounted for, and until a descriptor is
  given out between the two closes (`overlap`), a client's socket is its own and
  the number a reply will close is its file or free.  `FilesAccounted`,
  `FilesLossNeedsOverlap`.
* The `...TypeOK` and `...TypesOK` theorems are the type parts of these invariants.

Only model-checked: liveness (`Drains`, `Restored`, `DeadNoticed`, `DestroyEnds`,
`HandlerEnds`, `CatchesUp`, `Answered`), which is out of the prover's reach.

## 5. Not modelled

* The text of messages, SQL and replies, logging, configuration files, option
  parsing.
* `split` and `strip` of `stringUtil.h`: functions without state; no property of
  the modelled parts depends on what they do with malformed lines.
* `Dfsrr::stop`, `DfsrrServer::stop` and `Store2Mysql::stop` are never called
  while the programs do anything; the programs end by signals.
* Entry points (reading the configuration, becoming a daemon).
* The collectors beside traffic: tcp, udp and cpu subtract one reading from
  another as traffic does, without devices; memory, partition and load keep
  nothing from one sample to the next.
* The tool's modes beside `-w`: one select that is printed, or a loop of them.
* Vendored code: the headers and sources of libevent, sqlite, the MySQL client,
  nlohmann json, fmt and spdlog below `depend` make up about four fifths of the
  lines in the repository.  They are used through the behaviour the modelled
  code relies on.  The share of the repository that the modules stand for is
  small for that reason; of the programs' own state-changing code little is left.

What could follow: an end-to-end composition of `Output`, `Network`, `RecvData`
and `Store2Mysql` with the promise that a row in the database is a sample that
was taken, in order per agent; the tool's time windows as functions against a
reference definition.
