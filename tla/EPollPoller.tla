------------------------------ MODULE EPollPoller ------------------------------
(***************************************************************************)
(* fishnet/net/poller/epoll_poller.cc: the interest list the kernel keeps for *)
(* epollfd_, the index by which each channel remembers whether it is on it,   *)
(* and the array events_ that bounds how much one epoll_wait() reports.       *)
(***************************************************************************)
EXTENDS Channel, FiniteSets, Functions

CONSTANTS
  Fds,
  ReadySets,           \* what may have happened to a descriptor
  kInitEventListSize

kNew     == "new"
kAdded   == "added"
kDeleted == "deleted"

VARIABLES
  live,        \* channels constructed and not yet removed
  mask,        \* per channel: its events_
  index_,
  interest,    \* the kernel's list: descriptor -> mask
  channels_,   \* keys of the map
  listSize,    \* events_.size()
  ctlFailed,   \* history: an epoll_ctl() failed
  ready,       \* right after a poll(): what had happened
  active       \* and what it reported

Nothing == [c \in Fds |-> {}]
NoPoll  == ready' = Nothing /\ active' = Nothing

Init ==
  /\ live = {}
  /\ mask = [c \in Fds |-> kNoneEvent]
  /\ index_ = [c \in Fds |-> kNew]
  /\ interest = <<>>
  /\ channels_ = {}
  /\ listSize = kInitEventListSize
  /\ ctlFailed = FALSE
  /\ ready = Nothing /\ active = Nothing

(* Channel::Channel() for a descriptor number that is free again. *)
NewChannel(c) ==
  /\ c \notin live
  /\ live' = live \cup {c}
  /\ mask' = [mask EXCEPT ![c] = kNoneEvent]
  /\ index_' = [index_ EXCEPT ![c] = kNew]
  /\ NoPoll
  /\ UNCHANGED <<interest, channels_, listSize, ctlFailed>>

(* epoll_ctl(2): ADD fails on a listed descriptor, MOD and DEL on any other. *)
EpollCtl(op, c, e) ==
  /\ ctlFailed' = (ctlFailed \/ (op = "ADD" <=> c \in DOMAIN interest))
  /\ interest' = CASE op = "ADD" /\ c \notin DOMAIN interest -> [d \in DOMAIN interest \cup {c} |->
                                                                  IF d = c THEN e ELSE interest[d]]
                   [] op = "MOD" /\ c \in DOMAIN interest -> [interest EXCEPT ![c] = e]
                   [] op = "DEL" /\ c \in DOMAIN interest -> Restrict(interest, DOMAIN interest \ {c})
                   [] OTHER -> interest

(* The last branch of updateChannel(): a channel on the list. *)
UpdateExisting(c, e) ==
  /\ EpollCtl(IF e = kNoneEvent THEN "DEL" ELSE "MOD", c, e)
  /\ index_' = IF e = kNoneEvent THEN [index_ EXCEPT ![c] = kDeleted] ELSE index_

UpdateChannel(c) ==
  /\ c \in live
  /\ \E e \in Changes(mask[c]) :
       /\ mask' = [mask EXCEPT ![c] = e]
       /\ \/ /\ index_[c] \in {kNew, kDeleted}
             /\ channels_' = channels_ \cup {c}
             /\ index_' = [index_ EXCEPT ![c] = kAdded]
             /\ EpollCtl("ADD", c, e)
          \/ /\ index_[c] = kAdded
             /\ UpdateExisting(c, e)
             /\ UNCHANGED channels_
  /\ NoPoll
  /\ UNCHANGED <<live, listSize>>

RemoveChannel_NoDel(c) ==
  /\ c \in channels_ /\ mask[c] = kNoneEvent
  /\ channels_' = channels_ \ {c}
  /\ live' = live \ {c}
  /\ index_' = [index_ EXCEPT ![c] = kNew]
  /\ NoPoll
  /\ UNCHANGED <<interest, ctlFailed, mask, listSize>>

RemoveChannel(c) ==
  /\ c \in channels_ /\ mask[c] = kNoneEvent
  /\ channels_' = channels_ \ {c}
  /\ live' = live \ {c}
  /\ IF index_[c] = kAdded THEN EpollCtl("DEL", c, kNoneEvent) ELSE UNCHANGED <<interest, ctlFailed>>
  /\ index_' = [index_ EXCEPT ![c] = kNew]
  /\ NoPoll
  /\ UNCHANGED <<mask, listSize>>

(* epoll_wait(2) on one descriptor. *)
Happened(c) ==
  IF c \in DOMAIN interest THEN ready'[c] \cap (interest[c] \cup {"hup", "err"}) ELSE {}

Resized_Never(numEvents) == listSize

Resized(numEvents) == IF numEvents = listSize THEN 2 * listSize ELSE listSize

(* poll() and fillActiveChannels(): at most listSize descriptors, any of them. *)
Poll ==
  /\ ready' \in [Fds -> ReadySets]
  /\ LET happened == {c \in Fds : Happened(c) # {}}
         numEvents == IF Cardinality(happened) < listSize THEN Cardinality(happened) ELSE listSize
     IN /\ \E reported \in {R \in SUBSET happened : Cardinality(R) = numEvents} :
             active' = [c \in Fds |-> IF c \in reported THEN Happened(c) ELSE {}]
        /\ listSize' = Resized(numEvents)
  /\ UNCHANGED <<live, mask, index_, interest, channels_, ctlFailed>>

Next == Poll \/ \E c \in Fds : NewChannel(c) \/ UpdateChannel(c) \/ RemoveChannel(c)

-----------------------------------------------------------------------------
TypeOK ==
  /\ live \in SUBSET Fds
  /\ mask \in [Fds -> Events]
  /\ index_ \in [Fds -> {kNew, kAdded, kDeleted}]
  /\ DOMAIN interest \subseteq Fds /\ \A c \in DOMAIN interest : interest[c] \in Events
  /\ channels_ \in SUBSET live
  /\ listSize \in kInitEventListSize..(2 * Cardinality(Fds) + kInitEventListSize)
  /\ ctlFailed \in BOOLEAN
  /\ ready \in [Fds -> ReadySets]
  /\ active \in [Fds -> SUBSET Revents]

(* The kernel's list and index_ never drift apart, so no epoll_ctl() fails
   (update() aborts the program when ADD or MOD does): exactly the registered
   channels marked kAdded are listed, with the mask they have. *)
KernelAgrees ==
  /\ ~ctlFailed
  /\ DOMAIN interest = {c \in channels_ : index_[c] = kAdded}
  /\ \A c \in DOMAIN interest : interest[c] = mask[c]
  /\ \A c \in channels_ : index_[c] # kNew
  /\ \A c \in Fds \ channels_ : index_[c] = kNew

(* A channel left out of a report because events_ was full is not left out
   for good: the array is larger at the next epoll_wait(). *)
FullArrayGrows ==
  (\E c \in Fds : Happened(c) # {} /\ active'[c] = {}) => listSize' > listSize
=============================================================================
