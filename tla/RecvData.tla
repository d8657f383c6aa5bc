------------------------------ MODULE RecvData ------------------------------
(***************************************************************************)
(* How the server puts messages together again from what the sockets give  *)
(* it (src/src/dfsrrServer/dfsrrServer.cpp, recvData and timeout, called   *)
(* by recvCB and eventCB of src/src/common/network.cpp on the one thread   *)
(* of the event loop).                                                     *)
(*                                                                         *)
(* A connection carries packets: PkgLen bytes of header (type and size)    *)
(* and a body.  recvCB hands over the bytes in chunks cut anywhere.        *)
(* recvData keeps a ClientInfo_T per key, the address of the bufferevent,  *)
(* in cliInfoMap_; eventCB frees the bufferevent of a connection that      *)
(* ended but leaves the entry, and a later connection may get the same     *)
(* address.                                                                *)
(*                                                                         *)
(* Bytes are positions: off and body say where in the packets that were    *)
(* really sent the parser has arrived, and whole says that so far every    *)
(* message it made was exactly the body of one packet.  The do-while loop  *)
(* of recvData is the actions CutHead, FullHead and Body; nothing else     *)
(* runs on the thread while it loops.                                      *)
(***************************************************************************)
EXTENDS Naturals

CONSTANTS
    Key,        \* addresses of bufferevents
    PkgLen,     \* bytes of a header, 8 in the code
    BodySize,   \* sizes of the bodies the agents send
    Garbage,    \* what a size field of bytes that are no header may say
    MaxRead,    \* the most recvCB reads at once, 2048 in the code
    Width       \* UINT32 counts modulo Width, 2^32 in the code

ASSUME RecvAssumption ==
    /\ PkgLen \in Nat /\ PkgLen > 1
    /\ Width \in Nat
    /\ BodySize \subseteq {b \in Nat : b > 0 /\ b + PkgLen < Width}
    /\ BodySize # {}
    /\ Garbage \subseteq {g \in Nat : g < Width}
    /\ MaxRead \in Nat \ {0}

VARIABLES
    open,           \* open[k]: a connection has its bufferevent at address k
    known,          \* the keys of cliInfoMap_
    currLen,        \* ci.currLen: bytes of the current packet taken
    genuine,        \* bytes of the sender among the first PkgLen of ci.head,
                    \* or Empty
    size,           \* ci.tcpPkg.size
    msgLen,         \* ci.tcpPkg.msg.size()
    timeoutCount,   \* ci.timeoutCount
    pc, key, rem,   \* recvData: where it is, its key and currRemainder
    store,          \* s2mPtr_ is set
    readable,       \* readable[k]: convert understands the agent's messages
    off, body,      \* the packet being received: bytes taken, size of its body
    whole,          \* history: every message was the body of one packet
    spoiled         \* history: a header was cut short of PkgLen - 1 bytes, or
                    \* the entry was left by another connection mid-packet

ciVars == <<known, currLen, genuine, size, msgLen, timeoutCount>>
truthVars == <<off, body, whole>>
parserVars == <<open, ciVars, pc, key, rem, store, readable, truthVars, spoiled>>

Empty == PkgLen     \* ci.head is empty: the next header is read at once

-----------------------------------------------------------------------------
ParserInit ==
    /\ open = [k \in Key |-> FALSE]
    /\ known = {}
    /\ currLen = [k \in Key |-> 0]
    /\ genuine = [k \in Key |-> Empty]
    /\ size = [k \in Key |-> 0]
    /\ msgLen = [k \in Key |-> 0]
    /\ timeoutCount = [k \in Key |-> 0]
    /\ pc = "idle" /\ key \in Key /\ rem = 0
    /\ store = FALSE
    /\ readable = [k \in Key |-> TRUE]
    /\ off = [k \in Key |-> 0]
    /\ body \in [Key -> BodySize]
    /\ whole = [k \in Key |-> TRUE]
    /\ spoiled = [k \in Key |-> FALSE]

(* The constructor makes the store after the event loop was started. *)
StartStore ==
    /\ ~store
    /\ pc # "dead"
    /\ store' = TRUE
    /\ UNCHANGED <<open, ciVars, pc, key, rem, readable, truthVars, spoiled>>

(* An entry is clean between two packets. *)
Clean(k) == currLen[k] = 0 /\ genuine[k] = Empty /\ msgLen[k] = 0

(* listenerCB.  convert throws for the messages of an agent that found no  *)
(* address of its host.                                                    *)
Accept(k) ==
    /\ pc = "idle"
    /\ ~open[k]
    /\ open' = [open EXCEPT ![k] = TRUE]
    /\ \E r \in BOOLEAN : readable' = [readable EXCEPT ![k] = r]
    /\ \E b \in BodySize : body' = [body EXCEPT ![k] = b]
    /\ off' = [off EXCEPT ![k] = 0]
    /\ whole' = [whole EXCEPT ![k] = TRUE]
    /\ spoiled' = [spoiled EXCEPT ![k] = ~Clean(k)]
    /\ UNCHANGED <<ciVars, pc, key, rem, store>>

(* eventCB for EOF or an error: cliInfoMap_ keeps the entry. *)
Close(k) ==
    /\ pc = "idle"
    /\ open[k]
    /\ open' = [open EXCEPT ![k] = FALSE]
    /\ UNCHANGED <<ciVars, pc, key, rem, store, readable, truthVars, spoiled>>

(* Mutant of Timeout: the count is not reset. *)
TimeoutCounts(k) ==
    /\ pc = "idle"
    /\ open[k]
    /\ LET evict == k \in known /\ timeoutCount[k] >= 2 IN
       /\ known' = IF evict THEN known \ {k} ELSE known
       /\ timeoutCount' = [timeoutCount EXCEPT ![k] = IF evict THEN 0 ELSE @ + 1]
       /\ open' = [open EXCEPT ![k] = k \in known /\ ~evict]
       /\ currLen' = [currLen EXCEPT ![k] = IF evict THEN 0 ELSE @]
       /\ genuine' = [genuine EXCEPT ![k] = IF evict THEN Empty ELSE @]
       /\ size' = [size EXCEPT ![k] = IF evict THEN 0 ELSE @]
       /\ msgLen' = [msgLen EXCEPT ![k] = IF evict THEN 0 ELSE @]
    /\ UNCHANGED <<pc, key, rem, store, readable, truthVars, spoiled>>

(* eventCB for a read timeout, and timeout().  The count is reset to 0     *)
(* whenever it did not exceed the limit.                                   *)
Timeout(k) ==
    /\ pc = "idle"
    /\ open[k]
    /\ LET evict == k \in known /\ timeoutCount[k] >= 2 IN
       /\ known' = IF evict THEN known \ {k} ELSE known
       /\ timeoutCount' = [timeoutCount EXCEPT ![k] = 0]
       /\ open' = [open EXCEPT ![k] = k \in known /\ ~evict]
       /\ currLen' = [currLen EXCEPT ![k] = IF evict THEN 0 ELSE @]
       /\ genuine' = [genuine EXCEPT ![k] = IF evict THEN Empty ELSE @]
       /\ size' = [size EXCEPT ![k] = IF evict THEN 0 ELSE @]
       /\ msgLen' = [msgLen EXCEPT ![k] = IF evict THEN 0 ELSE @]
    /\ UNCHANGED <<pc, key, rem, store, readable, truthVars, spoiled>>

(* recvCB reads n bytes; recvData finds or makes the entry. *)
Receive(k) ==
    /\ pc = "idle"
    /\ open[k]
    /\ \E n \in 1..MaxRead : rem' = n
    /\ key' = k
    /\ known' = known \cup {k}
    /\ pc' = "head"
    /\ UNCHANGED <<open, currLen, genuine, size, msgLen, timeoutCount, store,
                   readable, truthVars, spoiled>>

-----------------------------------------------------------------------------
(* The parser takes n bytes of connection k, inside the current packet if  *)
(* it is right about where it is.                                          *)
Take(k, n) ==
    /\ whole' = [whole EXCEPT ![k] = @ /\ off[k] + n < PkgLen + body[k]]
    /\ off' = [off EXCEPT ![k] = IF whole'[k] THEN @ + n ELSE 0]
    /\ UNCHANGED body

(* The parser takes n bytes and makes a message of length m of them.       *)
Finish(k, n, m) ==
    /\ whole' = [whole EXCEPT ![k] =
                    @ /\ off[k] + n = PkgLen + body[k] /\ m = body[k]]
    /\ off' = [off EXCEPT ![k] = 0]
    /\ \E b \in BodySize : body' = [body EXCEPT ![k] = b]

(* The chunk ends inside a header.  append copies PkgLen - currLen bytes   *)
(* all the same: behind the genuine ones come the terminating NUL of the   *)
(* string and whatever follows it, and later bytes are put behind those.   *)
CutHead(k) ==
    /\ pc = "head" /\ key = k
    /\ currLen[k] < PkgLen
    /\ rem + currLen[k] < PkgLen
    /\ genuine' = [genuine EXCEPT ![k] = IF @ = Empty THEN rem ELSE @]
    /\ spoiled' = [spoiled EXCEPT ![k] = @ \/ genuine'[k] # PkgLen - 1]
    /\ currLen' = [currLen EXCEPT ![k] = @ + rem]
    /\ Take(k, rem)
    /\ rem' = 0
    /\ pc' = "idle"
    /\ UNCHANGED <<open, known, size, msgLen, timeoutCount, key, store, readable>>

(* What ci.head says the size is.  PkgLen - 1 genuine bytes are enough:    *)
(* the NUL stands for the top byte of a size below 2^24.                   *)
SizeRead(k) ==
    IF /\ whole[k]
       /\ \/ genuine[k] = Empty /\ off[k] = 0 /\ currLen[k] = 0
          \/ genuine[k] = PkgLen - 1 /\ off[k] = PkgLen - 1
    THEN {body[k]}
    ELSE Garbage

FullHead(k) ==
    /\ pc = "head" /\ key = k
    /\ currLen[k] < PkgLen
    /\ rem + currLen[k] >= PkgLen
    /\ \E s \in SizeRead(k) : size' = [size EXCEPT ![k] = s]
    /\ Take(k, PkgLen - currLen[k])
    /\ rem' = rem - (PkgLen - currLen[k])
    /\ currLen' = [currLen EXCEPT ![k] = PkgLen]
    /\ genuine' = [genuine EXCEPT ![k] = Empty]
    /\ pc' = "body"
    /\ UNCHANGED <<open, known, msgLen, timeoutCount, key, store, readable, spoiled>>

(* The rest of an iteration, a header being there.                         *)
InBody(k) ==
    /\ key = k
    /\ \/ pc = "body"
       \/ pc = "head" /\ currLen[k] >= PkgLen

Modulus(k) == (size[k] + PkgLen) % Width

(* Mutant of Available: takes the whole chunk. *)
AvailableAll(k) == rem

(* availableLen, of UINT32 arithmetic *)
Available(k) ==
    LET length == (size[k] + PkgLen + (Width - currLen[k])) % Width
    IN  IF rem >= length THEN length ELSE rem

Advance(k) ==
    /\ currLen' = [currLen EXCEPT ![k] = ((@ + Available(k)) % Width) % Modulus(k)]
    /\ rem' = rem - Available(k)

(* Mutant of Body: goes on when the chunk is used up. *)
BodyForever(k) ==
    /\ InBody(k)
    /\ Modulus(k) # 0
    /\ msgLen[k] + Available(k) # size[k]
    /\ Advance(k)
    /\ msgLen' = [msgLen EXCEPT ![k] = @ + Available(k)]
    /\ Take(k, Available(k))
    /\ pc' = "head"
    /\ UNCHANGED <<open, known, genuine, size, timeoutCount, key, store, readable, spoiled>>

(* The message is not complete yet. *)
Body(k) ==
    /\ InBody(k)
    /\ Modulus(k) # 0
    /\ msgLen[k] + Available(k) # size[k]
    /\ Advance(k)
    /\ msgLen' = [msgLen EXCEPT ![k] = @ + Available(k)]
    /\ Take(k, Available(k))
    /\ pc' = IF rem' > 0 THEN "head" ELSE "idle"
    /\ UNCHANGED <<open, known, genuine, size, timeoutCount, key, store, readable, spoiled>>

(* Mutant of Complete: the message is not cleared. *)
CompleteUncleared(k) ==
    /\ InBody(k)
    /\ Modulus(k) # 0
    /\ msgLen[k] + Available(k) = size[k]
    /\ Advance(k)
    /\ Finish(k, Available(k), size[k])
    /\ msgLen' = [msgLen EXCEPT ![k] = @ + Available(k)]
    /\ size' = [size EXCEPT ![k] = 0]
    /\ pc' = IF store /\ ~(whole'[k] /\ readable[k]) THEN "dead"
             ELSE IF rem' > 0 THEN "head" ELSE "idle"
    /\ UNCHANGED <<open, known, genuine, timeoutCount, key, store, readable, spoiled>>

(* The message is complete: it goes to the store, if there is one yet;     *)
(* convert throws when it is not the body of a packet, or of an agent it   *)
(* does not understand, and nothing catches that.                          *)
Complete(k) ==
    /\ InBody(k)
    /\ Modulus(k) # 0
    /\ msgLen[k] + Available(k) = size[k]
    /\ Advance(k)
    /\ Finish(k, Available(k), size[k])
    /\ msgLen' = [msgLen EXCEPT ![k] = 0]
    /\ size' = [size EXCEPT ![k] = 0]
    /\ pc' = IF store /\ ~(whole'[k] /\ readable[k]) THEN "dead"
             ELSE IF rem' > 0 THEN "head" ELSE "idle"
    /\ UNCHANGED <<open, known, genuine, timeoutCount, key, store, readable, spoiled>>

(* size + PkgLen wraps to 0: the remainder is a division by zero. *)
DivideByZero(k) ==
    /\ InBody(k)
    /\ Modulus(k) = 0
    /\ pc' = "dead"
    /\ UNCHANGED <<open, ciVars, key, rem, store, readable, truthVars, spoiled>>

Loop(k) == CutHead(k) \/ FullHead(k) \/ Body(k) \/ Complete(k) \/ DivideByZero(k)

ParserNext ==
    \/ StartStore
    \/ \E k \in Key :
          Accept(k) \/ Close(k) \/ Timeout(k) \/ Receive(k) \/ Loop(k)

ParserSpec == ParserInit /\ [][ParserNext]_parserVars

(* The event loop runs its callback to the end. *)
ParserFairSpec == ParserSpec /\ WF_parserVars(\E k \in Key : Loop(k))

-----------------------------------------------------------------------------
(* Types of the variables, for every action. *)
ParserTypeOK ==
    /\ open \in [Key -> BOOLEAN]
    /\ known \subseteq Key
    /\ currLen \in [Key -> 0..(Width - 1)]
    /\ genuine \in [Key -> 0..PkgLen]
    /\ size \in [Key -> 0..(Width - 1)]
    /\ msgLen \in [Key -> Nat]
    /\ timeoutCount \in [Key -> Nat]
    /\ pc \in {"idle", "head", "body", "dead"}
    /\ key \in Key /\ rem \in Nat
    /\ store \in BOOLEAN
    /\ readable \in [Key -> BOOLEAN]
    /\ off \in [Key -> Nat]
    /\ body \in [Key -> BodySize]
    /\ whole \in [Key -> BOOLEAN]
    /\ spoiled \in [Key -> BOOLEAN]

(* Whatever the chunks are, every message recvData makes of a connection   *)
(* is the body of one packet, each in its turn, unless a chunk ended       *)
(* inside a header before its last byte or the connection found the entry  *)
(* of an earlier one that ended mid-packet.                                *)
Framed == \A k \in Key : ~spoiled[k] => whole[k]

(* The server dies of a message only if a header was cut, an entry was     *)
(* inherited mid-packet, or an agent has no address.                       *)
CrashNeedsCause == pc = "dead" => \E k \in Key : spoiled[k] \/ ~readable[k]

(* Whatever the chunks are, what recvData hands to the store is what the   *)
(* agents sent: the claim Framed makes without its exceptions.             *)
Intact == \A k \in Key : whole[k]

(* recvData returns: every iteration takes bytes from the chunk.           *)
HandlerEnds == (pc \in {"head", "body"}) ~> (pc \in {"idle", "dead"})

(* timeout() never gives up on a client it knows: the count never reaches  *)
(* the limit, so cliInfoMap_ only grows, and with it what a later          *)
(* connection at the same address inherits.                                *)
EntriesStay == [][known \subseteq known']_parserVars
=============================================================================
