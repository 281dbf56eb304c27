------------------------------ MODULE PollPoller ------------------------------
(***************************************************************************)
(* fishnet/net/poller/poll_poller.cc: the array pollfds_ handed to poll(2)   *)
(* and the index each channel keeps into it.  An entry whose channel wants   *)
(* nothing holds -fd-1, which poll(2) skips; removal swaps the entry with    *)
(* the last one.                                                             *)
(***************************************************************************)
EXTENDS Channel, Integers, FiniteSets

CONSTANTS Fds, ReadySets

VARIABLES
  live,        \* channels constructed and not yet removed
  events_,     \* per channel: events_
  index_,      \* per channel: index_, counted from 0 as in the code
  pollfds_,    \* sequence of [fd, events]
  channels_,   \* keys of the map
  ready,       \* right after a poll(): what had happened
  active       \* and what it reported

Nothing == [c \in Fds |-> {}]
NoPoll  == ready' = Nothing /\ active' = Nothing

Init ==
  /\ live = {}
  /\ events_ = [c \in Fds |-> kNoneEvent]
  /\ index_ = [c \in Fds |-> -1]
  /\ pollfds_ = <<>>
  /\ channels_ = {}
  /\ ready = Nothing /\ active = Nothing

(* Channel::Channel() for a descriptor number that is free again. *)
NewChannel(c) ==
  /\ c \notin live
  /\ live' = live \cup {c}
  /\ index_' = [index_ EXCEPT ![c] = -1]
  /\ events_' = [events_ EXCEPT ![c] = kNoneEvent]
  /\ NoPoll
  /\ UNCHANGED <<pollfds_, channels_>>

Ignored(fd) == -fd - 1

Entry(c, e) == [fd |-> IF e = kNoneEvent THEN Ignored(c) ELSE c, events |-> e]

(* The else branch of updateChannel(). *)
UpdateEntry(c, e) ==
  /\ pollfds_' = [pollfds_ EXCEPT ![index_[c] + 1] = Entry(c, e)]
  /\ UNCHANGED <<index_, channels_>>

(* The new one: its entry is active even if it asks for nothing. *)
AddEntry(c, e) ==
  /\ pollfds_' = Append(pollfds_, [fd |-> c, events |-> e])
  /\ index_' = [index_ EXCEPT ![c] = Len(pollfds_)]
  /\ channels_' = channels_ \cup {c}

UpdateChannel(c) ==
  /\ c \in live
  /\ \E e \in Changes(events_[c]) :
       /\ events_' = [events_ EXCEPT ![c] = e]
       /\ IF index_[c] < 0 THEN AddEntry(c, e) ELSE UpdateEntry(c, e)
  /\ NoPoll
  /\ UNCHANGED live

ChannelAtEnd_NotDecoded(fd) == fd

ChannelAtEnd(fd) == IF fd < 0 THEN -fd - 1 ELSE fd

(* The channel whose entry moves into the hole learns its new place. *)
Reindexed(moved, idx) == [index_ EXCEPT ![moved] = idx]

RemoveChannel(c) ==
  /\ c \in channels_ /\ events_[c] = kNoneEvent
  /\ LET idx  == index_[c]
         size == Len(pollfds_)
         last == pollfds_[size]
     IN \/ /\ idx = size - 1
           /\ pollfds_' = SubSeq(pollfds_, 1, size - 1)
           /\ UNCHANGED index_
        \/ /\ idx # size - 1
           /\ pollfds_' = SubSeq([pollfds_ EXCEPT ![idx + 1] = last], 1, size - 1)
           /\ index_' = Reindexed(ChannelAtEnd(last.fd), idx)
  /\ channels_' = channels_ \ {c}
  /\ live' = live \ {c}
  /\ NoPoll
  /\ UNCHANGED events_

(* poll(2) on one entry. *)
Reported(entry, happened) ==
  IF entry.fd < 0 THEN {} ELSE happened[entry.fd] \cap (entry.events \cup {"hup", "err"})

(* poll() and fillActiveChannels(). *)
Poll ==
  /\ ready' \in [Fds -> ReadySets]
  /\ active' = [c \in Fds |->
                  UNION {Reported(pollfds_[i], ready') : i \in {j \in 1..Len(pollfds_) : pollfds_[j].fd = c}}]
  /\ UNCHANGED <<live, events_, index_, pollfds_, channels_>>

Next == Poll \/ \E c \in Fds : NewChannel(c) \/ UpdateChannel(c) \/ RemoveChannel(c)

-----------------------------------------------------------------------------
TypeOK ==
  /\ live \in SUBSET Fds
  /\ events_ \in [Fds -> Events]
  /\ index_ \in [Fds -> -1..(Cardinality(Fds) - 1)]
  /\ pollfds_ \in Seq([fd : Fds \cup {Ignored(c) : c \in Fds}, events : Events])
  /\ channels_ \in SUBSET live
  /\ ready \in [Fds -> ReadySets]
  /\ active \in [Fds -> SUBSET Revents]

(* The array and the channels point at each other after any sequence of
   updates and swap removals (the asserts of updateChannel() and
   removeChannel()): every registered channel's index is that of the entry with
   its descriptor and mask, and there is no other entry. *)
IndexConsistent ==
  /\ Len(pollfds_) = Cardinality(channels_)
  /\ \A c \in channels_ : /\ index_[c] + 1 \in 1..Len(pollfds_)
                          /\ pollfds_[index_[c] + 1].fd \in {c, -c - 1}
                          /\ pollfds_[index_[c] + 1].events = events_[c]

(* The descriptors poll(2) looks at. *)
Watched == {c \in channels_ : \E i \in 1..Len(pollfds_) : pollfds_[i].fd = c}
=============================================================================
