----------------------------- MODULE DefaultPoller -----------------------------
(***************************************************************************)
(* fishnet/net/poller/default_poller.cc: newDefaultPoller() makes a          *)
(* PollPoller if FISHNET_USE_POLL is set and an EPollPoller otherwise.        *)
(* Either keeps what poller.h promises of a Poller.                          *)
(***************************************************************************)
EXTENDS Channel, Naturals, Sequences, FiniteSets

CONSTANTS
  Fds,                  \* file descriptors; a channel is named by its own
  ReadySets,            \* what may have happened to one of them
  kInitEventListSize

ASSUME PollerConstants ==
  /\ Fds \subseteq Nat /\ IsFiniteSet(Fds)
  /\ ReadySets \subseteq SUBSET Revents /\ {} \in ReadySets
  /\ kInitEventListSize \in Nat \ {0}

VARIABLES
  usePoll,                                            \* getenv("FISHNET_USE_POLL")
  live, events_, index_, channels_, ready, active,    \* of either poller
  pollfds_,                                           \* of a PollPoller
  interest, listSize, ctlFailed                       \* of an EPollPoller

common == <<live, events_, index_, channels_, ready, active>>
epoll  == <<interest, listSize, ctlFailed>>
vars   == <<usePoll, common, pollfds_, epoll>>

Polling  == INSTANCE PollPoller
Epolling == INSTANCE EPollPoller WITH mask <- events_

(* newDefaultPoller(); the fields of the other poller do not exist. *)
Init ==
  \/ /\ usePoll = TRUE /\ Polling!Init
     /\ interest = <<>> /\ listSize = 0 /\ ctlFailed = FALSE
  \/ /\ usePoll = FALSE /\ Epolling!Init
     /\ pollfds_ = <<>>

Next ==
  \/ usePoll /\ Polling!Next /\ UNCHANGED <<usePoll, epoll>>
  \/ ~usePoll /\ Epolling!Next /\ UNCHANGED <<usePoll, pollfds_>>

Spec == Init /\ [][Next]_vars

-----------------------------------------------------------------------------
(* index_ caches where a channel is.  In a PollPoller it is that of the channel's own
   entry in pollfds_, after any sequence of updates and swap removals; in an
   EPollPoller it says whether the kernel has the descriptor on its list, so that no
   epoll_ctl() of update() fails. *)
IndicesAgree ==
  IF usePoll THEN Polling!TypeOK /\ Polling!IndexConsistent ELSE Epolling!TypeOK /\ Epolling!KernelAgrees

(* A ready channel that epoll_wait() could not report for want of room in events_
   makes poll() enlarge the array. *)
FullListGrows == [][~usePoll => Epolling!FullArrayGrows]_vars

(* Either poller is a Poller: it keeps the registered channels and reports of
   those watched by poll(2) or epoll_wait(2) what they asked for. *)
P == INSTANCE Poller WITH watched <- IF usePoll THEN Polling!Watched ELSE DOMAIN interest
ImplementsPoller == P!Spec
=============================================================================
