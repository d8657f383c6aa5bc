----------------------------- MODULE HttpFiles -----------------------------
(***************************************************************************)
(* The file handlers of the web server (Route::document, Route::favicon in *)
(* src/src/dfsrrWebServer/route.cpp) and the process's descriptors.  One   *)
(* thread serves all connections; a handler runs to its end, the reply is  *)
(* written later, when the client's socket takes it.  The kernel gives out *)
(* the lowest free number.                                                 *)
(*                                                                         *)
(* evbuffer_add_file takes over the descriptor and closes it when the      *)
(* reply has been written; document closes it when it returns, too.        *)
(***************************************************************************)
EXTENDS Naturals, FiniteSetsExt

CONSTANTS
    Client,     \* clients of the web server
    MaxFd,      \* limit of open descriptors
    MaxFailures \* bound: fstat calls that fail

ASSUME FilesAssumption == MaxFd \in Nat /\ MaxFailures \in Nat

Fd == 1..MaxFd
NoFd == 0
Free == [kind |-> "free"]
Leaked == [kind |-> "leaked"]
Socket(c) == [kind |-> "socket", of |-> c]
FileOf(c) == [kind |-> "file", of |-> c]

VARIABLES
    use,        \* what a descriptor's number stands for
    sock,       \* the number the server knows a client's socket by
    file,       \* the number the client's reply will close
    state,      \* of a client: "away", "open", "reply"
    failures,   \* history: fstat calls that failed in favicon
    overlap     \* history: a number was given out while a reply that a
                \* document handler filled was not yet written

filesVars == <<use, sock, file, state, failures, overlap>>

FilesInit ==
    /\ use = [f \in Fd |-> Free]
    /\ sock = [c \in Client |-> NoFd] /\ file = [c \in Client |-> NoFd]
    /\ state = [c \in Client |-> "away"]
    /\ failures = 0 /\ overlap = FALSE

FreeFds == {f \in Fd : use[f] = Free}

(* A reply will close a number that is not its file's any more. *)
Dangling == \E d \in Client : file[d] # NoFd /\ use[file[d]] # FileOf(d)

Accept(c) ==
    /\ state[c] = "away" /\ FreeFds # {}
    /\ sock' = [sock EXCEPT ![c] = Min(FreeFds)]
    /\ use' = [use EXCEPT ![Min(FreeFds)] = Socket(c)]
    /\ state' = [state EXCEPT ![c] = "open"]
    /\ overlap' = (overlap \/ Dangling)
    /\ UNCHANGED <<file, failures>>

(* The server reads a request only from a socket that is there. *)
Readable(c) == state[c] = "open" /\ use[sock[c]] = Socket(c)

(* document: open, evbuffer_add_file, evhttp_send_reply, close.  Where it  *)
(* sends an error (no file, no descriptor, fstat) nothing stays open.      *)
Document(c) ==
    /\ Readable(c) /\ FreeFds # {}
    /\ file' = [file EXCEPT ![c] = Min(FreeFds)]
    /\ state' = [state EXCEPT ![c] = "reply"]
    /\ overlap' = (overlap \/ Dangling)
    /\ UNCHANGED <<use, sock, failures>>

(* favicon leaves the closing to the reply. *)
Favicon(c) ==
    /\ Readable(c) /\ FreeFds # {}
    /\ file' = [file EXCEPT ![c] = Min(FreeFds)]
    /\ use' = [use EXCEPT ![Min(FreeFds)] = FileOf(c)]
    /\ state' = [state EXCEPT ![c] = "reply"]
    /\ overlap' = (overlap \/ Dangling)
    /\ UNCHANGED <<sock, failures>>

(* favicon: fstat fails, the descriptor stays open; 404. *)
FaviconFails(c) ==
    /\ Readable(c) /\ FreeFds # {} /\ failures < MaxFailures
    /\ use' = [use EXCEPT ![Min(FreeFds)] = Leaked]
    /\ failures' = failures + 1
    /\ overlap' = (overlap \/ Dangling)
    /\ UNCHANGED <<sock, file, state>>

(* Mutant of CloseFile: the client's socket is closed. *)
CloseSocket(c, u) == IF file[c] = NoFd THEN u ELSE [u EXCEPT ![sock[c]] = Free]

(* close(file[c]), whatever the number stands for by now. *)
CloseFile(c, u) == IF file[c] = NoFd THEN u ELSE [u EXCEPT ![file[c]] = Free]

(* The reply has been written to the socket that has the number now.      *)
Written(c) ==
    /\ state[c] = "reply" /\ use[sock[c]].kind = "socket"
    /\ use' = CloseFile(c, use)
    /\ file' = [file EXCEPT ![c] = NoFd]
    /\ state' = [state EXCEPT ![c] = "open"]
    /\ UNCHANGED <<sock, failures, overlap>>

(* Mutants of Gone: the number of the socket is kept; the file of a reply  *)
(* that was not written stays open.                                        *)
GoneSocket(c) ==
    /\ state[c] # "away"
    /\ use' = [CloseFile(c, use) EXCEPT ![sock[c]] = Free]
    /\ file' = [file EXCEPT ![c] = NoFd]
    /\ state' = [state EXCEPT ![c] = "away"]
    /\ UNCHANGED <<sock, failures, overlap>>

GoneKeep(c) ==
    /\ state[c] # "away"
    /\ use' = [use EXCEPT ![sock[c]] = Free]
    /\ file' = [file EXCEPT ![c] = NoFd] /\ sock' = [sock EXCEPT ![c] = NoFd]
    /\ state' = [state EXCEPT ![c] = "away"]
    /\ UNCHANGED <<failures, overlap>>

(* The client is gone: its buffers are freed, its socket is closed. *)
Gone(c) ==
    /\ state[c] # "away"
    /\ use' = [CloseFile(c, use) EXCEPT ![sock[c]] = Free]
    /\ file' = [file EXCEPT ![c] = NoFd] /\ sock' = [sock EXCEPT ![c] = NoFd]
    /\ state' = [state EXCEPT ![c] = "away"]
    /\ UNCHANGED <<failures, overlap>>

FilesNext ==
    \E c \in Client :
        \/ Accept(c) \/ Document(c) \/ Favicon(c) \/ FaviconFails(c)
        \/ Written(c) \/ Gone(c)

FilesSpec == FilesInit /\ [][FilesNext]_filesVars

-----------------------------------------------------------------------------
FilesTypeOK ==
    /\ use \in [Fd -> {Free, Leaked} \cup {Socket(c) : c \in Client} \cup {FileOf(c) : c \in Client}]
    /\ sock \in [Client -> Fd \cup {NoFd}] /\ file \in [Client -> Fd \cup {NoFd}]
    /\ state \in [Client -> {"away", "open", "reply"}]
    /\ \A c \in Client : (sock[c] = NoFd) = (state[c] = "away")
    /\ failures \in Nat /\ overlap \in BOOLEAN

(* No reply costs the process a descriptor: whatever clients do, what is   *)
(* not free is the socket of a client, the file of a reply that is waiting *)
(* or was left open by favicon when fstat failed.                          *)
Accounted ==
    /\ \A f \in Fd, c \in Client : use[f] = Socket(c) => sock[c] = f
    /\ \A f \in Fd, c \in Client : use[f] = FileOf(c) => file[c] = f
    /\ Cardinality({f \in Fd : use[f] = Leaked}) <= failures

(* The second close of document is harmless unless a number was given out  *)
(* between the return of a handler and the end of its reply: until then    *)
(* every connected client has the socket it was accepted with.             *)
LossNeedsOverlap ==
    (\E c \in Client : state[c] # "away" /\ use[sock[c]] # Socket(c)) => overlap
=============================================================================
