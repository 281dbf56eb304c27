------------------------------- MODULE Acceptor -------------------------------
(***************************************************************************)
(* fishnet/net/acceptor.{h,cc} at the limit of file descriptors: the spare    *)
(* descriptor idle_fd_ and the four calls that drop a connection with it.     *)
(* Other code of the process opens and closes descriptors: between two        *)
(* handlers, or, when it runs in other threads, between any two calls.        *)
(***************************************************************************)
EXTENDS Integers

CONSTANTS
  MaxFds,        \* RLIMIT_NOFILE, for what this model opens
  MaxBacklog,    \* bound on waiting connections
  OtherThreads   \* other threads open descriptors

ASSUME AcceptorConstants ==
  MaxFds \in Nat \ {0} /\ MaxBacklog \in Nat /\ OtherThreads \in BOOLEAN

VARIABLES
  idle_fd_,     \* "null" (on /dev/null), "conn" (an accepted connection), "closed" or "none" (-1)
  accepted,     \* descriptors of connections
  others,       \* descriptors of other code
  backlog,      \* completed connections not yet accepted
  listening_,
  pc            \* "poll", or the next call of the EMFILE branch

acceptor == <<idle_fd_, accepted, others, backlog, listening_, pc>>

InUse == accepted + others + (IF idle_fd_ \in {"null", "conn"} THEN 1 ELSE 0)
Full  == InUse >= MaxFds

(* The constructor: it asserts that /dev/null could be opened. *)
AcceptorInit ==
  /\ idle_fd_ = "null" /\ accepted = 0 /\ others = 0
  /\ backlog = 0 /\ listening_ = FALSE /\ pc = "poll"

Listen ==
  /\ listening_' = TRUE
  /\ UNCHANGED <<idle_fd_, accepted, others, backlog, pc>>

(* handleRead(), accept() succeeds: new_connection_callback_ gets the descriptor. *)
Accept ==
  /\ pc = "poll" /\ listening_ /\ backlog > 0 /\ ~Full
  /\ accepted' = accepted + 1 /\ backlog' = backlog - 1
  /\ UNCHANGED <<idle_fd_, others, listening_, pc>>

(* handleRead(), accept() fails with EMFILE: close(idle_fd_). *)
CloseIdle ==
  /\ pc = "poll" /\ listening_ /\ backlog > 0 /\ Full
  /\ idle_fd_' = "closed"
  /\ pc' = "accept"
  /\ UNCHANGED <<accepted, others, backlog, listening_>>

(* idle_fd_ = accept(): -1 if the descriptor or the connection is gone. *)
AcceptIdle ==
  /\ pc = "accept"
  /\ IF Full \/ backlog = 0
     THEN idle_fd_' = "none" /\ UNCHANGED backlog
     ELSE idle_fd_' = "conn" /\ backlog' = backlog - 1
  /\ pc' = "close"
  /\ UNCHANGED <<accepted, others, listening_>>

(* close(idle_fd_): the connection is dropped. *)
CloseAccepted ==
  /\ pc = "close"
  /\ idle_fd_' = "closed"
  /\ pc' = "open"
  /\ UNCHANGED <<accepted, others, backlog, listening_>>

Reopen_Not ==
  /\ pc = "open"
  /\ pc' = "poll"
  /\ UNCHANGED <<idle_fd_, accepted, others, backlog, listening_>>

(* idle_fd_ = open("/dev/null") *)
Reopen ==
  /\ pc = "open"
  /\ idle_fd_' = IF Full THEN "none" ELSE "null"
  /\ pc' = "poll"
  /\ UNCHANGED <<accepted, others, backlog, listening_>>

HandleReadFull == CloseIdle \/ AcceptIdle \/ CloseAccepted \/ Reopen

(* ~Acceptor(): the channel goes, and with the socket whoever waits on it. *)
CloseAcceptor ==
  /\ listening_' = FALSE /\ idle_fd_' = "closed" /\ backlog' = 0
  /\ UNCHANGED <<accepted, others, pc>>

(* Other code of the process *)
OtherOpens ==
  /\ pc = "poll" \/ OtherThreads
  /\ ~Full
  /\ others' = others + 1
  /\ UNCHANGED <<idle_fd_, accepted, backlog, listening_, pc>>

OtherCloses ==
  /\ pc = "poll" \/ OtherThreads
  /\ others > 0
  /\ others' = others - 1
  /\ UNCHANGED <<idle_fd_, accepted, backlog, listening_, pc>>

(* Clients *)
Connects ==
  /\ listening_ /\ backlog < MaxBacklog
  /\ backlog' = backlog + 1
  /\ UNCHANGED <<idle_fd_, accepted, others, listening_, pc>>

GivesUp ==
  /\ backlog > 0
  /\ backlog' = backlog - 1
  /\ UNCHANGED <<idle_fd_, accepted, others, listening_, pc>>

Clients == Connects \/ GivesUp
OtherCode == OtherOpens \/ OtherCloses

AcceptorTypeOK ==
  /\ idle_fd_ \in {"null", "conn", "closed", "none"}
  /\ accepted \in Nat /\ others \in Nat /\ InUse <= MaxFds /\ backlog \in 0..MaxBacklog
  /\ listening_ \in BOOLEAN /\ pc \in {"poll", "accept", "close", "open"}
=============================================================================
