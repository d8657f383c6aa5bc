------------------------------ MODULE Network ------------------------------
(***************************************************************************)
(* The client side of src/src/common/network.cpp, as the agent's tcp       *)
(* output uses it, over the life of one connection.  The agent's send      *)
(* thread calls Network::send and, when that has failed, destroys the      *)
(* Network; the loop thread is inside libevent's dispatch and calls        *)
(* eventCB.  bevSet_, the bufferevent (made without BEV_OPT_THREADSAFE)    *)
(* and the event base are used by both, without a lock.                    *)
(*                                                                         *)
(* Messages are numbered in the order send is called with them.  How the   *)
(* stream is cut into chunks is the matter of RecvData.                    *)
(***************************************************************************)
EXTENDS Naturals, Sequences, SequencesExt

CONSTANT MaxMsgs    \* bound: messages

ASSUME NetworkAssumption == MaxMsgs \in Nat

VARIABLES
    spc,        \* the send thread: "idle", "begin", "write", "writing", "next",
                \* "failed", "free", "join", "gone"
    lpc,        \* the loop thread: "wait", "drain", "event", "freed", "erased",
                \* "empty", "ended"
    called,     \* messages send was called with
    inSet,      \* the connection is in bevSet_
    bev,        \* the bufferevent: "live", "closing", "freed"
    base,       \* base_: "live", "freed"
    output,     \* the bufferevent's output buffer
    conn,       \* "connecting", "up", "closed", "cut" (nobody says so)
    unacked,    \* the kernel holds data the peer has not acknowledged
    wire,       \* what is on its way to the peer
    peer,       \* what the peer got
    crashed,    \* the process is gone
    met         \* history: the threads were among the shared objects together

sendVars == <<spc, called>>
bevVars == <<inSet, bev, base>>
connVars == <<conn, unacked, wire, peer>>
vars == <<sendVars, lpc, bevVars, output, connVars, crashed, met>>

Init ==
    /\ spc = "idle" /\ lpc = "wait" /\ called = 0
    /\ inSet = TRUE /\ bev = "live" /\ base = "live" /\ output = <<>>
    /\ conn = "connecting" /\ unacked = FALSE /\ wire = <<>> /\ peer = <<>>
    /\ crashed = FALSE /\ met = FALSE

(* The send thread is in send or in the destructor, the loop thread in a   *)
(* callback or, behind the last one, on its way out.                       *)
Together ==
    /\ spc \in {"begin", "write", "writing", "next", "free", "join"}
    /\ lpc \in {"drain", "event", "freed", "erased", "empty"}

Step == ~crashed /\ met' = (met \/ Together')

(* The use of a freed object ends the process, or goes unnoticed.          *)
Use(valid) == crashed' \in (IF valid THEN {FALSE} ELSE BOOLEAN)

-----------------------------------------------------------------------------
(* Network::send: the size is tested first. *)
SendTest ==
    /\ spc = "idle" /\ called < MaxMsgs
    /\ called' = called + 1
    /\ spc' = IF inSet THEN "begin" ELSE "failed"
    /\ UNCHANGED <<lpc, bevVars, output, connVars, crashed>>
    /\ Step

(* The loop over bevSet_ begins; if the set became empty, send returns 0. *)
Begin ==
    /\ spc = "begin"
    /\ spc' = IF inSet THEN "write" ELSE "idle"
    /\ UNCHANGED <<called, lpc, bevVars, output, connVars, crashed>>
    /\ Step

(* bufferevent_write, which takes its time. *)
WriteEnter ==
    /\ spc = "write"
    /\ spc' = "writing"
    /\ Use(bev # "freed" /\ lpc # "drain")
    /\ UNCHANGED <<called, lpc, bevVars, output, connVars>>
    /\ Step

(* If the threads met, what is written is lost or not. *)
WriteLeave ==
    /\ spc = "writing"
    /\ spc' = "next"
    /\ Use(bev # "freed" /\ lpc # "drain")
    /\ \/ bev = "live" /\ output' = Append(output, called)
       \/ (met \/ bev # "live") /\ output' = output
    /\ UNCHANGED <<called, lpc, bevVars, connVars>>
    /\ Step

(* ++ on the iterator; the node may have been erased under it. *)
SendReturns ==
    /\ spc = "next"
    /\ spc' = "idle"
    /\ Use(inSet)
    /\ UNCHANGED <<called, lpc, bevVars, output, connVars>>
    /\ Step

(* send returned -1, the output is erased: ~Network calls loopbreak, *)
Destroy ==
    /\ spc = "failed"
    /\ spc' = "free"
    /\ UNCHANGED <<called, lpc, bevVars, output, connVars, crashed>>
    /\ Step

(* frees the base, which takes no lock, *)
FreeBase ==
    /\ spc = "free"
    /\ base' = "freed"
    /\ spc' = "join"
    /\ Use(lpc = "ended")
    /\ UNCHANGED <<called, lpc, inSet, bev, output, connVars>>
    /\ Step

(* and waits for the loop thread. *)
Join ==
    /\ spc = "join" /\ lpc = "ended"
    /\ spc' = "gone"
    /\ UNCHANGED <<called, lpc, bevVars, output, connVars, crashed>>
    /\ Step

-----------------------------------------------------------------------------
(* libevent's write callback begins to write the output buffer. *)
Drain ==
    /\ lpc = "wait" /\ conn \in {"up", "cut"} /\ output # <<>>
    /\ lpc' = "drain"
    /\ Use(spc # "writing")
    /\ UNCHANGED <<sendVars, bevVars, output, connVars>>
    /\ Step

(* Mutant of Drained: what was written stays in the buffer. *)
DrainedKept ==
    /\ lpc = "drain"
    /\ lpc' = "wait"
    /\ wire' = IF conn = "up" THEN wire \o output ELSE wire
    /\ unacked' = TRUE
    /\ UNCHANGED <<sendVars, bevVars, output, conn, peer, crashed>>
    /\ Step

(* The socket took what it had room for. *)
Drained ==
    /\ lpc = "drain"
    /\ lpc' = "wait"
    /\ \E k \in 1..Len(output) :
          /\ output' = SubSeq(output, k + 1, Len(output))
          /\ wire' = IF conn = "up" THEN wire \o SubSeq(output, 1, k) ELSE wire
    /\ unacked' = TRUE
    /\ UNCHANGED <<sendVars, bevVars, conn, peer, crashed>>
    /\ Step

(* Mutant of Notice: only the end of the stream is taken for the end. *)
NoticeEof ==
    /\ lpc = "wait"
    /\ conn = "closed"
    /\ lpc' = "event"
    /\ UNCHANGED <<sendVars, bevVars, output, connVars, crashed>>
    /\ Step

(* eventCB with EOF or ERROR.  A connection that is cut is found dead only *)
(* when the kernel gives up sending what was written to it.                *)
Notice ==
    /\ lpc = "wait"
    /\ conn = "closed" \/ (conn = "cut" /\ unacked)
    /\ lpc' = "event"
    /\ UNCHANGED <<sendVars, bevVars, output, connVars, crashed>>
    /\ Step

(* bufferevent_free: the memory lives until the callback has returned. *)
Free ==
    /\ lpc = "event"
    /\ bev' = "closing"
    /\ lpc' = "freed"
    /\ UNCHANGED <<sendVars, inSet, base, output, connVars, crashed>>
    /\ Step

(* Mutant of Erase: the pointer stays in the set. *)
EraseNot ==
    /\ lpc = "freed"
    /\ lpc' = "erased"
    /\ UNCHANGED <<sendVars, bevVars, output, connVars, crashed>>
    /\ Step

(* eraseBev *)
Erase ==
    /\ lpc = "freed"
    /\ inSet' = FALSE
    /\ lpc' = "erased"
    /\ UNCHANGED <<sendVars, bev, base, output, connVars, crashed>>
    /\ Step

(* libevent's finalizer frees the memory. *)
Finalize ==
    /\ lpc = "erased"
    /\ bev' = "freed"
    /\ output' = <<>>
    /\ lpc' = "empty"
    /\ Use(spc # "writing" /\ base = "live")
    /\ UNCHANGED <<sendVars, inSet, base, connVars>>
    /\ Step

(* Mutant of LoopReturns: EVLOOP_NO_EXIT_ON_EMPTY, as in the comment there. *)
LoopReturnsBroken ==
    /\ lpc = "empty" /\ spc = "free"
    /\ lpc' = "ended"
    /\ UNCHANGED <<sendVars, bevVars, output, connVars, crashed>>
    /\ Step

(* Without an event in it event_base_dispatch returns. *)
LoopReturns ==
    /\ lpc = "empty"
    /\ lpc' = "ended"
    /\ Use(base = "live")
    /\ UNCHANGED <<sendVars, bevVars, output, connVars>>
    /\ Step

-----------------------------------------------------------------------------
Connected ==
    /\ conn = "connecting" /\ conn' = "up"
    /\ UNCHANGED <<sendVars, lpc, bevVars, output, unacked, wire, peer, crashed>>
    /\ Step

(* The connection is refused or ends; some of what was on the way is lost. *)
Break ==
    /\ \/ conn = "connecting" /\ conn' = "closed"
       \/ conn = "up" /\ conn' \in {"closed", "cut"}
    /\ \E k \in 0..Len(wire) :
          /\ wire' = SubSeq(wire, 1, k)
          /\ unacked' = (conn' = "cut" /\ k < Len(wire))
    /\ UNCHANGED <<sendVars, lpc, bevVars, output, peer, crashed>>
    /\ Step

PeerReads ==
    /\ wire # <<>>
    /\ peer' = Append(peer, Head(wire))
    /\ wire' = Tail(wire)
    /\ UNCHANGED <<sendVars, lpc, bevVars, output, conn, unacked, crashed>>
    /\ Step

Sender == SendTest \/ Begin \/ WriteEnter \/ WriteLeave \/ SendReturns \/ Destroy \/ FreeBase \/ Join
Loop == Drain \/ Drained \/ Notice \/ Free \/ Erase \/ Finalize \/ LoopReturns
Next == Sender \/ Loop \/ Connected \/ Break \/ PeerReads

Spec == Init /\ [][Next]_vars

(* Both threads run and samples keep coming.                               *)
FairSpec == Spec /\ WF_vars(Sender) /\ WF_vars(Loop)

-----------------------------------------------------------------------------
TypeOK ==
    /\ spc \in {"idle", "begin", "write", "writing", "next", "failed", "free", "join", "gone"}
    /\ lpc \in {"wait", "drain", "event", "freed", "erased", "empty", "ended"}
    /\ called \in 0..MaxMsgs
    /\ inSet \in BOOLEAN /\ bev \in {"live", "closing", "freed"} /\ base \in {"live", "freed"}
    /\ {output, wire, peer} \subseteq Seq(1..called)
    /\ conn \in {"connecting", "up", "closed", "cut"} /\ unacked \in BOOLEAN
    /\ crashed \in BOOLEAN /\ met \in BOOLEAN

(* As long as send and ~Network do not meet a callback of the loop thread  *)
(* among bevSet_, the bufferevent and the base, none of them is used after *)
(* it was freed: bufferevent_free before eraseBev, the base freed before   *)
(* the thread is joined are harmless by themselves.                        *)
CrashNeedsRace == crashed => met

(* Without such a meeting the server gets what was sent without a gap up   *)
(* to where the connection ended: no message is lost, doubled or out of    *)
(* turn before one that arrives.                                           *)
NoGap == ~met => \A i \in 1..Len(peer) : peer[i] = i

(* A connection that ended is dropped, so that the output can be replaced; *)
(* one that was cut is found dead as long as samples keep coming and are   *)
(* not lost between the threads.                                           *)
DeadNoticed ==
    /\ conn = "closed" ~> ~inSet \/ crashed
    /\ conn = "cut" /\ called < MaxMsgs ~> ~inSet \/ crashed \/ met

(* The destructor's join comes to an end: the loop thread leaves dispatch. *)
DestroyEnds == spc = "free" ~> spc = "gone" \/ crashed
=============================================================================
