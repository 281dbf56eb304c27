-------------------------------- MODULE Poller --------------------------------
(***************************************************************************)
(* What fishnet/net/poller.h promises of a Poller, whatever system call it   *)
(* uses: it knows the registered channels and their masks, and poll() tells *)
(* of events that happened on registered channels, of those asked for, and   *)
(* of hang-ups and errors.                                                   *)
(***************************************************************************)
EXTENDS Channel

CONSTANTS
  Fds,           \* file descriptors; a channel is named by its own
  ReadySets      \* what may have happened to one of them

VARIABLES
  channels_,     \* registered channels
  events_,       \* mask of each channel
  watched,       \* channels the kernel is looking at
  ready,         \* what poll() found to have happened, right after a poll()
  active         \* what it reported

vars == <<channels_, events_, watched, ready, active>>

Nothing == [c \in Fds |-> {}]
NoPoll  == ready' = Nothing /\ active' = Nothing

Init ==
  /\ channels_ = {} /\ watched = {}
  /\ events_ = [c \in Fds |-> kNoneEvent]
  /\ ready = Nothing /\ active = Nothing

(* A channel whose mask is empty may be watched (for hang-ups) or not. *)
UpdateChannel(c) ==
  /\ channels_' = channels_ \cup {c}
  /\ events_' \in {[events_ EXCEPT ![c] = e] : e \in Events}
  /\ watched' \in {watched \cup {c}, watched \ {c}}
  /\ events_'[c] # kNoneEvent => c \in watched'
  /\ NoPoll

RemoveChannel(c) ==
  /\ c \in channels_ /\ events_[c] = kNoneEvent
  /\ channels_' = channels_ \ {c}
  /\ watched' = watched \ {c}
  /\ NoPoll
  /\ UNCHANGED events_

(* The kernel reports what was asked for, and hang-ups and errors always. *)
Happened(c) == ready'[c] \cap (events_[c] \cup {"hup", "err"})

Poll ==
  /\ ready' \in [Fds -> ReadySets]
  /\ \A c \in Fds : active'[c] \in {{}, IF c \in watched THEN Happened(c) ELSE {}}
  /\ (\E c \in watched : Happened(c) # {}) => \E c \in Fds : active'[c] # {}
  /\ UNCHANGED <<channels_, events_, watched>>

Next == Poll \/ \E c \in Fds : UpdateChannel(c) \/ RemoveChannel(c)

Spec == Init /\ [][Next]_vars
=============================================================================
