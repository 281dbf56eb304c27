-------------------------- MODULE DefaultPollerProofs -------------------------
(***************************************************************************)
(* TLAPS proofs about both pollers, for any finite set of descriptors: the    *)
(* indices agree with the array of poll(2) and with the kernel's interest     *)
(* list, the array of epoll_wait() grows when it is full, and either poller   *)
(* implements Poller.tla.                                                     *)
(***************************************************************************)
EXTENDS DefaultPoller, Integers, TLAPS

-----------------------------------------------------------------------------
(* PollPoller *)

pollVars == <<live, events_, index_, pollfds_, channels_, ready, active>>

Entries == [fd : Int, events : Polling!Events]

(* The channel an entry is for, ignored or not. *)
Owner(i) == Polling!ChannelAtEnd(pollfds_[i].fd)

PollTypes ==
  /\ live \in SUBSET Fds /\ channels_ \in SUBSET live
  /\ events_ \in [Fds -> Polling!Events] /\ index_ \in [Fds -> Int]
  /\ pollfds_ \in Seq(Entries)

(* A channel that is alive and not registered has no index, so that its next
   update adds an entry and does not overwrite another channel's. *)
NewHaveNoIndex == \A c \in live \ channels_ : index_[c] = -1

(* From channel to entry. *)
Forth ==
  \A c \in channels_ : /\ index_[c] + 1 \in 1..Len(pollfds_)
                       /\ pollfds_[index_[c] + 1].fd \in {c, -c - 1}
                       /\ pollfds_[index_[c] + 1].events = events_[c]

(* From entry to channel: what tells removeChannel() whose index to change. *)
Back ==
  \A i \in 1..Len(pollfds_) : Owner(i) \in channels_ /\ index_[Owner(i)] = i - 1

PollInv == PollTypes /\ NewHaveNoIndex /\ Forth /\ Back

(* A sequence is a function on 1..n ... *)
LEMMA Elements ==
  ASSUME NEW S, NEW s \in Seq(S)
  PROVE  Len(s) \in Nat /\ DOMAIN s = 1..Len(s) /\ s \in [1..Len(s) -> S] /\ \A i \in 1..Len(s) : s[i] \in S
OBVIOUS

(* ... and every such function a sequence ... *)
LEMMA IsSeq ==
  ASSUME NEW S, NEW n \in Nat, NEW f \in [1..n -> S]
  PROVE  f \in Seq(S) /\ Len(f) = n
OBVIOUS

(* ... of which one element can be replaced. *)
LEMMA Replaced ==
  ASSUME NEW S, NEW s \in Seq(S), NEW i \in 1..Len(s), NEW e \in S
  PROVE  /\ [s EXCEPT ![i] = e] \in Seq(S) /\ Len([s EXCEPT ![i] = e]) = Len(s)
         /\ \A j \in 1..Len(s) : [s EXCEPT ![i] = e][j] = IF j = i THEN e ELSE s[j]
<1>1. Len(s) \in Nat /\ [s EXCEPT ![i] = e] \in [1..Len(s) -> S]
  OBVIOUS
<1> QED BY <1>1, IsSeq

(* Append() puts an element after the others. *)
LEMMA Appended ==
  ASSUME NEW S, NEW s \in Seq(S), NEW e \in S
  PROVE  /\ Append(s, e) \in Seq(S) /\ Len(Append(s, e)) = Len(s) + 1
         /\ \A i \in 1..Len(s) : Append(s, e)[i] = s[i]
         /\ Append(s, e)[Len(s) + 1] = e
OBVIOUS

(* One call on a channel leads from masks to masks. *)
LEMMA MasksToMasks == \A e \in Polling!Events : Polling!Changes(e) \subseteq Polling!Events
BY DEF Polling!Events, Polling!Changes, Polling!enableReading, Polling!disableReading, Polling!enableWriting,
       Polling!disableWriting, Polling!disableAll, Polling!kReadEvent, Polling!kWriteEvent, Polling!kNoneEvent

(* -fd-1 is undone by -fd-1, and no descriptor is taken for an ignored one. *)
LEMMA Decoding ==
  ASSUME NEW c \in Nat, NEW fd \in Int, fd \in {c, -c - 1}
  PROVE  Polling!ChannelAtEnd(fd) = c
BY DEF Polling!ChannelAtEnd

(* No two registered channels have the same index. *)
LEMMA OwnIndices ==
  ASSUME Fds \subseteq Nat, PollTypes, Forth, NEW c \in channels_, NEW d \in channels_, d # c
  PROVE  index_[d] # index_[c]
<1>1. c \in Nat /\ d \in Nat
  BY DEF PollTypes
<1>2. \A fd : fd \in {c, -c - 1} => fd \notin {d, -d - 1}
  BY <1>1
<1>3. /\ pollfds_[index_[c] + 1].fd \in {c, -c - 1}
      /\ pollfds_[index_[d] + 1].fd \in {d, -d - 1}
  BY DEF Forth
<1> QED BY <1>2, <1>3

(* The constructor of the poller establishes the invariant. *)
LEMMA PollInit == Polling!Init => PollInv
<1> SUFFICES ASSUME Polling!Init PROVE PollInv
  OBVIOUS
<1>1. pollfds_ \in Seq(Entries) /\ Len(pollfds_) = 0
  BY DEF Polling!Init
<1>2. PollTypes
  BY <1>1 DEF Polling!Init, PollTypes, Polling!Events, Polling!kNoneEvent
<1> QED BY <1>1, <1>2 DEF Polling!Init, PollInv, NewHaveNoIndex, Forth, Back

(* A new channel has no entry. *)
LEMMA NewChannelInv ==
  ASSUME Fds \subseteq Nat, PollInv, NEW c \in Fds, Polling!NewChannel(c)
  PROVE  PollInv'
<1> USE DEF PollInv, PollTypes, Polling!NewChannel
<1>1. c \notin channels_ /\ {} \in Polling!Events
  BY DEF Polling!Events
<1>2. PollTypes'
  BY <1>1 DEF Polling!kNoneEvent
<1>3. NewHaveNoIndex'
  BY DEF NewHaveNoIndex
<1>4. Forth'
  BY <1>1 DEF Forth
<1>5. Back'
  BY <1>1 DEF Back, Owner
<1> QED BY <1>2, <1>3, <1>4, <1>5

(* A registered channel's update changes its own entry only. *)
LEMMA UpdateEntryInv ==
  ASSUME Fds \subseteq Nat, PollInv, NEW c \in channels_, NEW e \in Polling!Events, Polling!UpdateEntry(c, e),
         events_' = [events_ EXCEPT ![c] = e], live' = live
  PROVE  /\ PollInv' /\ Len(pollfds_') = Len(pollfds_)
         /\ Polling!Watched' = IF e = {} THEN Polling!Watched \ {c} ELSE Polling!Watched \cup {c}
<1> DEFINE k == index_[c] + 1
<1>1. c \in Nat /\ c \in Fds /\ k \in 1..Len(pollfds_) /\ Polling!Entry(c, e) \in Entries
  <2>1. c \in Nat /\ c \in Fds
    BY DEF PollInv, PollTypes
  <2>2. k \in 1..Len(pollfds_)
    BY DEF PollInv, Forth
  <2>3. (IF e = Polling!kNoneEvent THEN Polling!Ignored(c) ELSE c) \in Int
    BY <2>1 DEF Polling!Ignored
  <2>4. Polling!Entry(c, e) \in Entries
    BY <2>3 DEF Polling!Entry, Entries
  <2> QED BY <2>1, <2>2, <2>4
<1>2. /\ pollfds_' \in Seq(Entries) /\ Len(pollfds_') = Len(pollfds_)
      /\ \A j \in 1..Len(pollfds_) : pollfds_'[j] = IF j = k THEN Polling!Entry(c, e) ELSE pollfds_[j]
  BY <1>1, Replaced DEF Polling!UpdateEntry, PollInv, PollTypes
<1>3. index_' = index_ /\ channels_' = channels_
  BY DEF Polling!UpdateEntry
<1>4. Polling!Entry(c, e).fd \in {c, -c - 1} /\ Polling!Entry(c, e).events = e
  BY DEF Polling!Entry, Polling!Ignored
<1>5. Polling!ChannelAtEnd(Polling!Entry(c, e).fd) = c
  BY <1>1, <1>4, Decoding DEF Entries
<1>6. \A d \in channels_ : d # c => index_[d] # index_[c]
  BY OwnIndices DEF PollInv
<1> HIDE DEF k
<1>7. PollTypes'
  BY <1>1, <1>2, <1>3 DEF PollInv, PollTypes
<1>8. NewHaveNoIndex'
  BY <1>3 DEF PollInv, NewHaveNoIndex
<1>9. Forth'
  <2> SUFFICES ASSUME NEW d \in channels_
               PROVE  /\ index_[d] + 1 \in 1..Len(pollfds_)
                      /\ pollfds_'[index_[d] + 1].fd \in {d, -d - 1}
                      /\ pollfds_'[index_[d] + 1].events = events_'[d]
    BY <1>2, <1>3 DEF Forth
  <2>1. CASE d = c
    BY <2>1, <1>1, <1>2, <1>4 DEF k, PollInv, PollTypes
  <2>2. CASE d # c
    <3>1. index_[d] + 1 \in 1..Len(pollfds_) /\ index_[d] \in Int /\ index_[c] \in Int
      BY <1>1, Zenon DEF PollInv, PollTypes, Forth
    <3>2. index_[d] + 1 # k
      BY <3>1, <2>2, <1>6 DEF k
    <3> QED BY <3>1, <3>2, <2>2, <1>2 DEF PollInv, PollTypes, Forth
  <2> QED BY <2>1, <2>2
<1>10. Back'
  <2> SUFFICES ASSUME NEW i \in 1..Len(pollfds_)
               PROVE  Polling!ChannelAtEnd(pollfds_'[i].fd) \in channels_ /\ index_[Polling!ChannelAtEnd(pollfds_'[i].fd)] = i - 1
    BY <1>2, <1>3 DEF Back, Owner, Polling!ChannelAtEnd
  <2>1. CASE i = k
    BY <2>1, <1>1, <1>2, <1>5 DEF k, PollInv, PollTypes
  <2>2. CASE i # k
    BY <2>2, <1>2 DEF PollInv, Back, Owner
  <2> QED BY <2>1, <2>2
<1>11. ASSUME NEW d \in channels_, NEW i \in 1..Len(pollfds_), d # c
       PROVE  pollfds_'[i].fd = d <=> pollfds_[i].fd = d
  <2>1. d \in Nat /\ pollfds_[k].fd \in {c, -c - 1} /\ k \in 1..Len(pollfds_)
    BY <1>1 DEF k, PollInv, PollTypes, Forth
  <2>2. CASE i = k
    <3>1. pollfds_'[k].fd \in {c, -c - 1}
      BY <2>1, <1>2, <1>4
    <3> QED BY <3>1, <2>1, <2>2, <1>1, <1>11
  <2>3. CASE i # k
    BY <2>3, <1>2
  <2> QED BY <2>2, <2>3
<1>12. e # {} => pollfds_'[k].fd = c
  BY <1>1, <1>2 DEF Polling!Entry, Polling!kNoneEvent
<1>13. ASSUME e = {}, NEW i \in 1..Len(pollfds_) PROVE pollfds_'[i].fd # c
  <2>1. CASE i = k
    <3>1. pollfds_'[k].fd = -c - 1
      BY <1>1, <1>2, <1>13 DEF Polling!Entry, Polling!kNoneEvent, Polling!Ignored
    <3> QED BY <3>1, <2>1, <1>1
  <2>2. CASE i # k
    <3>1. pollfds_'[i] = pollfds_[i] /\ index_[Owner(i)] = i - 1
      BY <2>2, <1>2 DEF PollInv, Back
    <3>2. index_[c] # i - 1
      BY <2>2, <1>1 DEF k, PollInv, PollTypes
    <3>3. Owner(i) # c
      BY <3>1, <3>2
    <3> QED BY <3>1, <3>3, <1>1 DEF Owner, Polling!ChannelAtEnd
  <2> QED BY <2>1, <2>2
<1>14. Polling!Watched' = IF e = {} THEN Polling!Watched \ {c} ELSE Polling!Watched \cup {c}
  <2>1. \A d \in channels_ : d # c => (d \in Polling!Watched' <=> d \in Polling!Watched)
    BY <1>2, <1>3, <1>11 DEF Polling!Watched
  <2>2. c \in Polling!Watched' <=> e # {}
    BY <1>1, <1>2, <1>3, <1>12, <1>13 DEF Polling!Watched
  <2>3. Polling!Watched \subseteq channels_ /\ Polling!Watched' \subseteq channels_
    BY <1>3 DEF Polling!Watched
  <2> QED BY <2>1, <2>2, <2>3
<1> QED BY <1>2, <1>7, <1>8, <1>9, <1>10, <1>14 DEF PollInv

(* A new channel's entry goes to the end. *)
LEMMA AddEntryInv ==
  ASSUME Fds \subseteq Nat, PollInv, NEW c \in live \ channels_, NEW e \in Polling!Events, Polling!AddEntry(c, e),
         events_' = [events_ EXCEPT ![c] = e], live' = live
  PROVE  PollInv' /\ Polling!Watched' = Polling!Watched \cup {c} /\ Len(pollfds_') = Len(pollfds_) + 1
<1> DEFINE n == Len(pollfds_)
           entry == [fd |-> c, events |-> e]
<1>1. c \in Nat /\ c \in Fds /\ n \in Nat /\ entry \in Entries
  BY Elements DEF PollInv, PollTypes, Entries
<1>2. /\ pollfds_' \in Seq(Entries) /\ Len(pollfds_') = n + 1
      /\ \A i \in 1..n : pollfds_'[i] = pollfds_[i]
      /\ pollfds_'[n + 1] = entry
  BY <1>1, Appended DEF Polling!AddEntry, PollInv, PollTypes
<1>3. index_' = [index_ EXCEPT ![c] = n] /\ channels_' = channels_ \cup {c}
  BY DEF Polling!AddEntry
<1>4. Polling!ChannelAtEnd(c) = c
  BY <1>1, Decoding
<1>5. PollTypes'
  <2>1. events_' \in [Fds -> Polling!Events] /\ index_' \in [Fds -> Int]
    BY <1>1, <1>3 DEF PollInv, PollTypes
  <2> QED BY <1>2, <1>3, <2>1, Zenon DEF PollInv, PollTypes
<1>6. NewHaveNoIndex'
  BY <1>3 DEF PollInv, PollTypes, NewHaveNoIndex
<1>8. Forth'
  BY <1>1, <1>2, <1>3 DEF PollInv, PollTypes, Forth
<1>9. Back'
  <2> SUFFICES ASSUME NEW i \in 1..n + 1
               PROVE  /\ Polling!ChannelAtEnd(pollfds_'[i].fd) \in channels_ \cup {c}
                      /\ index_'[Polling!ChannelAtEnd(pollfds_'[i].fd)] = i - 1
    BY <1>2, <1>3 DEF Back, Owner, Polling!ChannelAtEnd
  <2>1. CASE i = n + 1
    BY <2>1, <1>1, <1>2, <1>3, <1>4 DEF PollInv, PollTypes
  <2>2. CASE i # n + 1
    <3>1. i \in 1..n /\ pollfds_'[i] = pollfds_[i]
      BY <2>2, <1>1, <1>2
    <3>2. Owner(i) \in channels_ /\ index_[Owner(i)] = i - 1
      BY <3>1 DEF PollInv, Back
    <3> QED BY <3>1, <3>2, <1>3 DEF Owner, PollInv, PollTypes
  <2> QED BY <2>1, <2>2
<1>10. Polling!Watched' = Polling!Watched \cup {c}
  <2>1. \A d \in channels_ : (\E i \in 1..n + 1 : pollfds_'[i].fd = d) <=> \E i \in 1..n : pollfds_[i].fd = d
    <3> SUFFICES ASSUME NEW d \in channels_
                 PROVE  (\E i \in 1..n + 1 : pollfds_'[i].fd = d) <=> \E i \in 1..n : pollfds_[i].fd = d
      OBVIOUS
    <3>1. d # c /\ pollfds_'[n + 1].fd = c
      BY <1>2
    <3>2. \A i \in 1..n + 1 : i # n + 1 => i \in 1..n
      BY <1>1
    <3>3. \A i \in 1..n : i \in 1..n + 1
      BY <1>1
    <3> QED BY <3>1, <3>2, <3>3, <1>2
  <2>2. n + 1 \in 1..n + 1 /\ pollfds_'[n + 1].fd = c
    BY <1>1, <1>2
  <2> QED BY <1>2, <1>3, <2>1, <2>2 DEF Polling!Watched
<1> QED BY <1>2, <1>5, <1>6, <1>8, <1>9, <1>10 DEF PollInv

(* Removing the last entry keeps the others. *)
LEMMA DropLast ==
  ASSUME NEW s \in Seq(Entries), NEW n \in Nat, n = Len(s), n >= 1
  PROVE  /\ SubSeq(s, 1, n - 1) \in Seq(Entries) /\ Len(SubSeq(s, 1, n - 1)) = n - 1
         /\ \A i \in 1..n - 1 : SubSeq(s, 1, n - 1)[i] = s[i]
OBVIOUS

(* A place that is not the last is one of the places that stay. *)
LEMMA NotLast ==
  ASSUME NEW a \in Int, NEW n \in Nat, a + 1 \in 1..n, a # n - 1
  PROVE  a + 1 \in 1..n - 1
OBVIOUS

(* The removed entry was the last: the others stay where they are. *)
LEMMA RemoveLastInv ==
  ASSUME Fds \subseteq Nat, PollInv, NEW c \in channels_, index_[c] = Len(pollfds_) - 1,
         pollfds_' = SubSeq(pollfds_, 1, Len(pollfds_) - 1), index_' = index_,
         channels_' = channels_ \ {c}, live' = live \ {c}, events_' = events_
  PROVE  PollInv' /\ Polling!Watched' = Polling!Watched \ {c} /\ Len(pollfds_') = Len(pollfds_) - 1
<1> DEFINE n == Len(pollfds_)
<1>1. c \in Fds /\ n \in Nat /\ n >= 1 /\ \A i \in 1..n : pollfds_[i] \in Entries
  BY Elements DEF PollInv, PollTypes, Forth
<1>2. /\ pollfds_' \in Seq(Entries) /\ Len(pollfds_') = n - 1
      /\ \A i \in 1..n - 1 : pollfds_'[i] = pollfds_[i]
  BY <1>1, DropLast, Zenon DEF PollInv, PollTypes
<1>3. \A d \in channels_' : index_[d] + 1 \in 1..n - 1
  <2> SUFFICES ASSUME NEW d \in channels_, d # c PROVE index_[d] + 1 \in 1..n - 1
    OBVIOUS
  <2>1. index_[d] # index_[c]
    BY OwnIndices DEF PollInv
  <2>2. index_[d] \in Int /\ index_[d] + 1 \in 1..n
    BY DEF PollInv, PollTypes, Forth
  <2> QED BY <2>1, <2>2, <1>1, NotLast, Zenon
<1>4. PollTypes'
  BY <1>2 DEF PollInv, PollTypes
<1>5. NewHaveNoIndex'
  BY DEF PollInv, NewHaveNoIndex
<1>7. Forth'
  BY <1>2, <1>3 DEF PollInv, Forth
<1>8. Back'
  <2> SUFFICES ASSUME NEW i \in 1..n - 1
               PROVE  Owner(i)' \in channels_ \ {c} /\ index_[Owner(i)'] = i - 1
    BY <1>2 DEF Back, Owner, Polling!ChannelAtEnd
  <2>1. Owner(i)' = Owner(i)
    BY <1>2 DEF Owner, Polling!ChannelAtEnd
  <2>2. i \in 1..n /\ i # n
    BY <1>1
  <2>3. Owner(i) \in channels_ /\ index_[Owner(i)] = i - 1
    BY <2>2 DEF PollInv, Back
  <2> QED BY <2>1, <2>2, <2>3, <1>1
<1>9. Polling!Watched' = Polling!Watched \ {c}
  <2>1. pollfds_[n].fd \in {c, -c - 1} /\ c \in Nat
    <3>1. index_[c] + 1 = n
      BY <1>1
    <3> QED BY <3>1, <1>1 DEF PollInv, Forth
  <2>2. \A d \in channels_ : d # c => pollfds_[n].fd # d
    BY <2>1 DEF PollInv, PollTypes
  <2>3. \A i \in 1..n : i # n => i \in 1..n - 1
    BY <1>1
  <2>4. \A i \in 1..n - 1 : i \in 1..n
    BY <1>1
  <2> QED BY <1>2, <2>2, <2>3, <2>4 DEF Polling!Watched
<1> QED BY <1>2, <1>4, <1>5, <1>7, <1>8, <1>9 DEF PollInv

(* It was not: the last entry takes its place, and its channel learns where it is. *)
LEMMA RemoveSwapInv ==
  ASSUME Fds \subseteq Nat, PollInv, NEW c \in channels_, index_[c] # Len(pollfds_) - 1,
         pollfds_' = SubSeq([pollfds_ EXCEPT ![index_[c] + 1] = pollfds_[Len(pollfds_)]],
                            1, Len(pollfds_) - 1),
         index_' = [index_ EXCEPT ![Owner(Len(pollfds_))] = index_[c]],
         channels_' = channels_ \ {c}, live' = live \ {c}, events_' = events_
  PROVE  PollInv' /\ Polling!Watched' = Polling!Watched \ {c} /\ Len(pollfds_') = Len(pollfds_) - 1
<1> DEFINE n == Len(pollfds_)
           k == index_[c] + 1
           swapped == [pollfds_ EXCEPT ![k] = pollfds_[n]]
           moved == Owner(n)
<1>1. n \in Nat /\ index_[c] \in Int /\ k \in 1..n - 1 /\ n \in 1..n /\ k \in 1..n
  <2>1. n \in Nat /\ index_[c] \in Int /\ k \in 1..n
    BY Elements DEF PollInv, PollTypes, Forth
  <2> QED BY <2>1
<1>2. \A i \in 1..n : pollfds_[i] \in Entries
  BY Elements DEF PollInv, PollTypes
<1>3. /\ swapped \in Seq(Entries) /\ Len(swapped) = n
      /\ \A j \in 1..n : swapped[j] = IF j = k THEN pollfds_[n] ELSE pollfds_[j]
  BY <1>1, <1>2, Replaced DEF PollInv, PollTypes
<1>4. pollfds_' = SubSeq(swapped, 1, n - 1) /\ index_' = [index_ EXCEPT ![moved] = k - 1]
  <2>1. k - 1 = index_[c]
    BY <1>1
  <2> QED BY <2>1, Zenon
<1> HIDE DEF swapped
<1>5. \A i \in 1..n - 1 : i \in 1..n /\ swapped[i] \in Entries
  BY <1>1, <1>2, <1>3
<1>6. /\ pollfds_' \in Seq(Entries) /\ Len(pollfds_') = n - 1
      /\ \A i \in 1..n - 1 : pollfds_'[i] = swapped[i]
  <2>1. n >= 1
    BY <1>1
  <2>2. swapped \in Seq(Entries) /\ n = Len(swapped) /\ n \in Nat
    BY <1>1, <1>3
  <2> HIDE DEF n
  <2>3. /\ SubSeq(swapped, 1, n - 1) \in Seq(Entries) /\ Len(SubSeq(swapped, 1, n - 1)) = n - 1
        /\ \A i \in 1..n - 1 : SubSeq(swapped, 1, n - 1)[i] = swapped[i]
    BY <2>1, <2>2, DropLast
  <2> QED BY <2>3, <1>4, Zenon
<1>7. \A i \in 1..n - 1 : pollfds_'[i] = IF i = k THEN pollfds_[n] ELSE pollfds_[i]
  BY <1>3, <1>5, <1>6
<1>8. moved \in channels_ /\ index_[moved] = n - 1 /\ moved # c /\ moved \in Fds
  BY <1>1, Zenon DEF PollInv, PollTypes, Back
<1>9. index_'[moved] = k - 1 /\ \A d \in Fds : d # moved => index_'[d] = index_[d]
  BY <1>4, <1>8 DEF PollInv, PollTypes
<1> HIDE DEF k, moved
<1>10. PollTypes'
  BY <1>1, <1>4, <1>6, Zenon DEF PollInv, PollTypes, k
<1>11. NewHaveNoIndex'
  BY <1>8, <1>9 DEF PollInv, PollTypes, NewHaveNoIndex
<1>13. Forth'
  <2> SUFFICES ASSUME NEW d \in channels_, d # c
               PROVE  /\ index_'[d] + 1 \in 1..n - 1
                      /\ pollfds_'[index_'[d] + 1].fd \in {d, -d - 1}
                      /\ pollfds_'[index_'[d] + 1].events = events_[d]
    BY <1>6 DEF Forth
  <2>1. /\ index_[d] \in Int /\ d \in Fds /\ index_[d] + 1 \in 1..n
        /\ pollfds_[index_[d] + 1].fd \in {d, -d - 1}
        /\ pollfds_[index_[d] + 1].events = events_[d]
    BY DEF PollInv, PollTypes, Forth
  <2>2. CASE d = moved
    <3>1. index_'[d] + 1 = k /\ index_[d] + 1 = n
      BY <2>2, <1>1, <1>8, <1>9 DEF k
    <3> QED BY <3>1, <2>1, <1>1, <1>7
  <2>3. CASE d # moved
    <3>1. index_[d] # index_[c] /\ index_[d] # index_[moved]
      BY <2>3, <1>8, OwnIndices DEF PollInv
    <3>2. index_[d] + 1 # k /\ index_[d] + 1 \in 1..n - 1
      <4>1. index_[d] + 1 # k
        BY <3>1, <2>1, <1>1 DEF k
      <4>2. index_[d] # n - 1
        BY <3>1, <1>8
      <4> QED BY <4>1, <4>2, <2>1, <1>1, NotLast
    <3> QED BY <3>2, <2>1, <2>3, <1>7, <1>9
  <2> QED BY <2>2, <2>3
<1>14. Back'
  <2> SUFFICES ASSUME NEW i \in 1..n - 1
               PROVE  Owner(i)' \in channels_ \ {c} /\ index_'[Owner(i)'] = i - 1
    BY <1>6 DEF Back, Owner, Polling!ChannelAtEnd
  <2>1. CASE i = k
    <3>1. Owner(i)' = moved
      BY <2>1, <1>1, <1>7 DEF Owner, Polling!ChannelAtEnd, moved
    <3> QED BY <3>1, <2>1, <1>8, <1>9
  <2>2. CASE i # k
    <3>1. Owner(i)' = Owner(i)
      BY <2>2, <1>7 DEF Owner, Polling!ChannelAtEnd
    <3>2. Owner(i) \in channels_ /\ index_[Owner(i)] = i - 1 /\ Owner(i) \in Fds
      BY <1>5, Zenon DEF PollInv, PollTypes, Back
    <3>3. Owner(i) # c
      BY <3>2, <2>2, <1>1 DEF k
    <3>4. Owner(i) # moved
      BY <3>2, <1>1, <1>8
    <3> QED BY <3>1, <3>2, <3>3, <3>4, <1>9
  <2> QED BY <2>1, <2>2
<1>15. Polling!Watched' = Polling!Watched \ {c}
  <2>1. pollfds_[k].fd \in {c, -c - 1} /\ c \in Nat
    BY DEF k, PollInv, PollTypes, Forth
  <2>2. \A d \in channels_ : d # c => pollfds_[k].fd # d
    BY <2>1 DEF PollInv, PollTypes
  <2>3. \A i \in 1..n : i # n => i \in 1..n - 1
    BY <1>1
  <2>4. \A d \in channels_ \ {c} :
          (\E i \in 1..n - 1 : pollfds_'[i].fd = d) <=> \E i \in 1..n : pollfds_[i].fd = d
    BY <1>1, <1>5, <1>7, <2>2, <2>3, Zenon
  <2>5. Len(pollfds_') = n - 1 /\ Len(pollfds_) = n /\ channels_' = channels_ \ {c}
    BY <1>6
  <2>6. Polling!Watched' = {d \in channels_ \ {c} : \E i \in 1..n - 1 : pollfds_'[i].fd = d}
    BY <2>5, Zenon DEF Polling!Watched
  <2>7. Polling!Watched = {d \in channels_ : \E i \in 1..n : pollfds_[i].fd = d}
    BY <2>5, Zenon DEF Polling!Watched
  <2> HIDE DEF n
  <2>8. \A d : d \in Polling!Watched' <=> d \in Polling!Watched \ {c}
    BY <2>4, <2>6, <2>7, Zenon
  <2> QED BY <2>8, Zenon
<1> QED BY <1>6, <1>10, <1>11, <1>13, <1>14, <1>15 DEF PollInv

(* removeChannel() removes the channel's entry and no other. *)
LEMMA RemovedOne ==
  ASSUME Fds \subseteq Nat, PollInv, NEW c \in Fds, Polling!RemoveChannel(c)
  PROVE  /\ PollInv' /\ Len(pollfds_') = Len(pollfds_) - 1
         /\ channels_' = channels_ \ {c} /\ Polling!Watched' = Polling!Watched \ {c}
<1>1. c \in channels_ /\ channels_' = channels_ \ {c} /\ live' = live \ {c} /\ events_' = events_
  BY DEF Polling!RemoveChannel
<1>2. CASE index_[c] = Len(pollfds_) - 1
  <2>1. pollfds_' = SubSeq(pollfds_, 1, Len(pollfds_) - 1) /\ index_' = index_
    BY <1>2 DEF Polling!RemoveChannel
  <2> QED BY <1>1, <1>2, <2>1, RemoveLastInv
<1>3. CASE index_[c] # Len(pollfds_) - 1
  <2>1. /\ pollfds_' = SubSeq([pollfds_ EXCEPT ![index_[c] + 1] = pollfds_[Len(pollfds_)]],
                              1, Len(pollfds_) - 1)
        /\ index_' = [index_ EXCEPT ![Owner(Len(pollfds_))] = index_[c]]
    BY <1>3 DEF Polling!RemoveChannel, Polling!Reindexed, Owner
  <2> QED BY <1>1, <1>3, <2>1, RemoveSwapInv, Zenon
<1> QED BY <1>2, <1>3

(* Every operation keeps the invariant. *)
LEMMA PollStep ==
  ASSUME Fds \subseteq Nat, PollInv, [Polling!Next]_pollVars
  PROVE  PollInv'
<1>1. CASE Polling!Poll \/ UNCHANGED pollVars
  BY <1>1, Zenon DEF Polling!Poll, pollVars, PollInv, PollTypes, NewHaveNoIndex, Forth, Back, Owner, Polling!ChannelAtEnd
<1>2. ASSUME NEW c \in Fds, Polling!NewChannel(c) PROVE PollInv'
  BY <1>2, NewChannelInv
<1>3. ASSUME NEW c \in Fds, Polling!UpdateChannel(c) PROVE PollInv'
  <2>1. PICK e \in Polling!Changes(events_[c]) :
          /\ events_' = [events_ EXCEPT ![c] = e]
          /\ IF index_[c] < 0 THEN Polling!AddEntry(c, e) ELSE Polling!UpdateEntry(c, e)
    BY <1>3, Zenon DEF Polling!UpdateChannel
  <2>2. e \in Polling!Events /\ c \in live /\ live' = live
    BY <1>3, MasksToMasks DEF Polling!UpdateChannel, PollInv, PollTypes
  <2>3. CASE c \in channels_
    <3>1. ~(index_[c] < 0)
      BY <2>3 DEF PollInv, PollTypes, Forth
    <3> QED BY <3>1, <2>1, <2>2, <2>3, UpdateEntryInv, Zenon
  <2>4. CASE c \notin channels_
    <3>1. index_[c] < 0
      BY <2>2, <2>4 DEF PollInv, NewHaveNoIndex
    <3> QED BY <3>1, <2>1, <2>2, <2>4, AddEntryInv, Zenon
  <2> QED BY <2>3, <2>4
<1>4. ASSUME NEW c \in Fds, Polling!RemoveChannel(c) PROVE PollInv'
  BY <1>4, RemovedOne
<1> QED BY <1>1, <1>2, <1>3, <1>4 DEF Polling!Next

-----------------------------------------------------------------------------
(* EPollPoller *)

epollVars == <<live, events_, index_, interest, channels_, listSize, ctlFailed, ready, active>>

(* The types KernelAgrees needs to be inductive; registered channels are alive. *)
EpollTypes ==
  /\ live \in SUBSET Fds /\ channels_ \in SUBSET live
  /\ events_ \in [Fds -> Epolling!Events] /\ index_ \in [Fds -> {Epolling!kNew, Epolling!kAdded, Epolling!kDeleted}]
  /\ interest \in [DOMAIN interest -> Epolling!Events]

EpollInv == EpollTypes /\ Epolling!KernelAgrees

(* One call on a channel leads from masks to masks. *)
LEMMA EpollMasksToMasks == \A e \in Epolling!Events : Epolling!Changes(e) \subseteq Epolling!Events
BY DEF Epolling!Events, Epolling!Changes, Epolling!enableReading, Epolling!disableReading, Epolling!enableWriting,
       Epolling!disableWriting, Epolling!disableAll, Epolling!kReadEvent, Epolling!kWriteEvent, Epolling!kNoneEvent

(* epoll_ctl() called as index_ says does not fail, and does what it is asked. *)
LEMMA CtlAdd ==
  ASSUME NEW c \in Fds, NEW e \in Epolling!Events, EpollInv, c \notin DOMAIN interest, Epolling!EpollCtl("ADD", c, e)
  PROVE  /\ ctlFailed' = FALSE /\ DOMAIN interest' = DOMAIN interest \cup {c}
         /\ interest' = [d \in DOMAIN interest \cup {c} |-> IF d = c THEN e ELSE interest[d]]
BY Zenon DEF Epolling!EpollCtl, EpollInv, Epolling!KernelAgrees

(* So for a descriptor whose mask changes. *)
LEMMA CtlMod ==
  ASSUME NEW c \in Fds, NEW e \in Epolling!Events, EpollInv, c \in DOMAIN interest, Epolling!EpollCtl("MOD", c, e)
  PROVE  /\ ctlFailed' = FALSE /\ DOMAIN interest' = DOMAIN interest
         /\ interest' = [interest EXCEPT ![c] = e]
BY Zenon DEF Epolling!EpollCtl, EpollInv, Epolling!KernelAgrees

(* And for one that is taken off the list. *)
LEMMA CtlDel ==
  ASSUME NEW c \in Fds, NEW e \in Epolling!Events, EpollInv, c \in DOMAIN interest, Epolling!EpollCtl("DEL", c, e)
  PROVE  /\ ctlFailed' = FALSE /\ DOMAIN interest' = DOMAIN interest \ {c}
         /\ interest' = [d \in DOMAIN interest \ {c} |-> interest[d]]
BY Zenon DEF Epolling!EpollCtl, EpollInv, Epolling!KernelAgrees, Epolling!Restrict

(* The constructor of the poller establishes the invariant. *)
LEMMA EpollInit == Epolling!Init => EpollInv
BY DEF Epolling!Init, EpollInv, EpollTypes, Epolling!KernelAgrees, Epolling!kNoneEvent, Epolling!Events, Epolling!kNew, Epolling!kAdded, Epolling!kDeleted

(* Every operation keeps it. *)
LEMMA EpollStep == EpollInv /\ [Epolling!Next]_epollVars => EpollInv'
<1> SUFFICES ASSUME EpollInv, [Epolling!Next]_epollVars PROVE EpollInv'
  OBVIOUS
<1> USE DEF EpollInv, EpollTypes, Epolling!KernelAgrees, Epolling!kNew, Epolling!kAdded, Epolling!kDeleted
<1>1. CASE Epolling!Poll BY <1>1 DEF Epolling!Poll
<1>2. ASSUME NEW c \in Fds, Epolling!NewChannel(c) PROVE EpollInv'
  <2>1. c \notin channels_ /\ index_[c] = Epolling!kNew
    BY <1>2 DEF Epolling!NewChannel
  <2>2. index_' = index_ /\ events_' = [events_ EXCEPT ![c] = {}] /\ {} \in Epolling!Events
    BY <1>2, <2>1 DEF Epolling!NewChannel, Epolling!Events, Epolling!kNoneEvent
  <2> QED BY <1>2, <2>1, <2>2, SMTT(40) DEF Epolling!NewChannel
<1>3. ASSUME NEW c \in Fds, Epolling!UpdateChannel(c) PROVE EpollInv'
  <2>1. PICK e \in Epolling!Changes(events_[c]) :
          /\ events_' = [events_ EXCEPT ![c] = e]
          /\ \/ /\ index_[c] \in {Epolling!kNew, Epolling!kDeleted}
                /\ channels_' = channels_ \cup {c}
                /\ index_' = [index_ EXCEPT ![c] = Epolling!kAdded]
                /\ Epolling!EpollCtl("ADD", c, e)
             \/ /\ index_[c] = Epolling!kAdded
                /\ Epolling!UpdateExisting(c, e)
                /\ UNCHANGED channels_
    BY <1>3, Zenon DEF Epolling!UpdateChannel
  <2>2. e \in Epolling!Events /\ c \in live /\ live' = live
    BY <1>3, <2>1, EpollMasksToMasks DEF Epolling!UpdateChannel
  <2>3. CASE index_[c] \in {Epolling!kNew, Epolling!kDeleted}
    <3>1. c \notin DOMAIN interest
      BY <2>3
    <3>2. Epolling!EpollCtl("ADD", c, e) /\ channels_' = channels_ \cup {c} /\ index_' = [index_ EXCEPT ![c] = Epolling!kAdded]
      BY <2>1, <2>3
    <3>3. /\ ctlFailed' = FALSE /\ DOMAIN interest' = DOMAIN interest \cup {c}
          /\ interest' = [d \in DOMAIN interest \cup {c} |-> IF d = c THEN e ELSE interest[d]]
      BY <3>1, <3>2, <2>2, CtlAdd, Zenon
    <3> QED BY <2>1, <2>2, <3>2, <3>3
  <2>4. CASE index_[c] = Epolling!kAdded
    <3>1. c \in channels_ /\ c \in DOMAIN interest /\ channels_' = channels_
      BY <2>1, <2>4
    <3>2. CASE e = Epolling!kNoneEvent
      <4>1. Epolling!EpollCtl("DEL", c, e) /\ index_' = [index_ EXCEPT ![c] = Epolling!kDeleted]
        BY <2>1, <2>4, <3>2 DEF Epolling!UpdateExisting
      <4>2. /\ ctlFailed' = FALSE /\ DOMAIN interest' = DOMAIN interest \ {c}
            /\ interest' = [d \in DOMAIN interest \ {c} |-> interest[d]]
        BY <4>1, <3>1, <2>2, CtlDel, Zenon
      <4> QED BY <2>1, <2>2, <3>1, <4>1, <4>2
    <3>3. CASE e # Epolling!kNoneEvent
      <4>1. Epolling!EpollCtl("MOD", c, e) /\ index_' = index_
        BY <2>1, <2>4, <3>3 DEF Epolling!UpdateExisting
      <4>2. /\ ctlFailed' = FALSE /\ DOMAIN interest' = DOMAIN interest
            /\ interest' = [interest EXCEPT ![c] = e]
        BY <4>1, <3>1, <2>2, CtlMod, Zenon
      <4> QED BY <2>1, <2>2, <3>1, <4>1, <4>2
    <3> QED BY <3>2, <3>3
  <2> QED BY <2>1, <2>3, <2>4
<1>4. ASSUME NEW c \in Fds, Epolling!RemoveChannel(c) PROVE EpollInv'
  <2>1. /\ c \in channels_ /\ channels_' = channels_ \ {c} /\ live' = live \ {c}
        /\ index_' = [index_ EXCEPT ![c] = Epolling!kNew] /\ events_' = events_
    BY <1>4 DEF Epolling!RemoveChannel
  <2>2. CASE index_[c] = Epolling!kAdded
    <3>1. c \in DOMAIN interest /\ Epolling!EpollCtl("DEL", c, Epolling!kNoneEvent) /\ Epolling!kNoneEvent \in Epolling!Events
      BY <1>4, <2>1, <2>2 DEF Epolling!RemoveChannel, Epolling!Events, Epolling!kNoneEvent
    <3>2. /\ ctlFailed' = FALSE /\ DOMAIN interest' = DOMAIN interest \ {c}
          /\ interest' = [d \in DOMAIN interest \ {c} |-> interest[d]]
      BY <3>1, CtlDel, Zenon
    <3> QED BY <2>1, <2>2, <3>2
  <2>3. CASE index_[c] # Epolling!kAdded
    BY <1>4, <2>1, <2>3 DEF Epolling!RemoveChannel
  <2> QED BY <2>2, <2>3
<1>5. CASE UNCHANGED epollVars BY <1>5 DEF epollVars
<1> QED BY <1>1, <1>2, <1>3, <1>4, <1>5 DEF Epolling!Next

-----------------------------------------------------------------------------
(* What else is invariant *)

(* The masks of Channel.tla are those of the three modules that use it. *)
LEMMA Masks ==
  /\ Polling!Events = Events /\ Epolling!Events = Events /\ P!Events = Events
  /\ Polling!kNoneEvent = {} /\ Epolling!kNoneEvent = {} /\ P!kNoneEvent = {} /\ {} \in Events
  /\ Polling!Revents = Revents /\ Epolling!Revents = Revents
BY DEF Polling!Events, Epolling!Events, P!Events, Events, Polling!kNoneEvent, Epolling!kNoneEvent, P!kNoneEvent,
       kNoneEvent, Polling!kReadEvent, Epolling!kReadEvent, P!kReadEvent, kReadEvent, Polling!kWriteEvent,
       Epolling!kWriteEvent, P!kWriteEvent, kWriteEvent, Polling!Revents, Epolling!Revents, Revents

(* A descriptor without a channel has no mask, so that a new channel changes none. *)
DeadAskNothing == \A c \in Fds \ live : events_[c] = {}

Outcome == ready \in [Fds -> ReadySets] /\ active \in [Fds -> SUBSET Revents]

(* No index exceeds the number of descriptors, not even the stale one of a removed channel. *)
IndexRange == \A c \in Fds : index_[c] >= -1 /\ index_[c] < Cardinality(Fds)

(* events_ of an EPollPoller doubles only when that many descriptors were ready. *)
ListRange == listSize \in Nat /\ listSize >= kInitEventListSize /\ listSize <= 2 * Cardinality(Fds) + kInitEventListSize

(* There are as many entries as registered channels. *)
Counted == Cardinality(channels_) = Len(pollfds_)

PollMore  == DeadAskNothing /\ Outcome /\ IndexRange /\ Counted
EpollMore == DeadAskNothing /\ Outcome /\ ListRange

(* Both pollers start with no channel and no report. *)
LEMMA NothingOutcome ==
  ASSUME NEW r, NEW a, r = [c \in Fds |-> {}], a = [c \in Fds |-> {}]
  PROVE  r \in [Fds -> ReadySets] /\ a \in [Fds -> SUBSET Revents]
BY PollerConstants

(* A report has only what happened. *)
LEMMA ReportedHappened ==
  ASSUME NEW happened \in [Fds -> ReadySets], NEW c \in Fds, NEW e
  PROVE  happened[c] \cap e \in SUBSET Revents
<1>1. happened[c] \in SUBSET Revents
  BY PollerConstants
<1> QED BY <1>1

(* What poll(2) reports of a channel: what happened of what it asked for, if its
   entry is not ignored. *)
LEMMA PollReports ==
  ASSUME PollInv, Polling!Poll, NEW c \in Fds
  PROVE  active'[c] = IF c \in Polling!Watched THEN ready'[c] \cap (events_[c] \cup {"hup", "err"}) ELSE {}
<1>0. c \in Nat /\ pollfds_ \in Seq(Entries) /\ Fds \subseteq Nat
  BY PollerConstants DEF PollInv, PollTypes
<1>1. active'[c] = UNION {Polling!Reported(pollfds_[i], ready') : i \in {j \in 1..Len(pollfds_) : pollfds_[j].fd = c}}
  BY DEF Polling!Poll
<1>2. ASSUME NEW i \in 1..Len(pollfds_), pollfds_[i].fd = c
      PROVE  c \in Polling!Watched /\ Polling!Reported(pollfds_[i], ready') = ready'[c] \cap (events_[c] \cup {"hup", "err"})
  <2>1. Owner(i) = c
    BY <1>0, <1>2, Decoding DEF Owner
  <2>2. c \in channels_ /\ index_[c] = i - 1
    BY <2>1 DEF PollInv, Back
  <2>3. index_[c] + 1 = i
    BY <2>2
  <2>4. pollfds_[i].events = events_[c]
    BY <2>2, <2>3 DEF PollInv, Forth
  <2> QED BY <1>0, <1>2, <2>2, <2>4 DEF Polling!Watched, Polling!Reported
<1>3. CASE c \in Polling!Watched
  <2>1. PICK i \in 1..Len(pollfds_) : pollfds_[i].fd = c
    BY <1>3 DEF Polling!Watched
  <2> QED BY <1>1, <1>2, <1>3, <2>1
<1>4. CASE c \notin Polling!Watched
  BY <1>1, <1>2, <1>4
<1> QED BY <1>3, <1>4

(* The descriptors the kernel looks at. *)
Looked == IF usePoll THEN Polling!Watched ELSE DOMAIN interest

(* One call on a channel is an update of Poller.tla ... *)
LEMMA UpdateRefines ==
  ASSUME NEW c \in Fds, NEW e \in Events, channels_' = channels_ \cup {c}, events_ \in [Fds -> Events],
         events_' = [events_ EXCEPT ![c] = e], Looked' = Looked \cup {c} \/ (e = {} /\ Looked' = Looked \ {c}),
         ready' = [d \in Fds |-> {}], active' = [d \in Fds |-> {}]
  PROVE  P!UpdateChannel(c)
<1>1. events_' \in {[events_ EXCEPT ![c] = m] : m \in P!Events} /\ events_'[c] = e
  BY Masks, Zenon
<1>2. Looked' \in {Looked \cup {c}, Looked \ {c}} /\ (e # P!kNoneEvent => c \in Looked')
  BY Masks
<1> QED BY <1>1, <1>2, Zenon DEF P!UpdateChannel, P!NoPoll, P!Nothing, Looked

(* ... its removal one of Poller.tla ... *)
LEMMA RemoveRefines ==
  ASSUME NEW c \in channels_, events_[c] = {}, channels_' = channels_ \ {c}, events_' = events_,
         Looked' = Looked \ {c}, ready' = [d \in Fds |-> {}], active' = [d \in Fds |-> {}]
  PROVE  P!RemoveChannel(c)
BY Masks DEF P!RemoveChannel, P!NoPoll, P!Nothing, Looked

(* ... and its construction, which tells the poller nothing, a poll that finds nothing. *)
LEMMA NewRefines ==
  ASSUME channels_' = channels_, events_' = events_, Looked' = Looked, Looked \subseteq Fds,
         ready' = [d \in Fds |-> {}], active' = [d \in Fds |-> {}]
  PROVE  P!Poll
<1>1. ready' \in [Fds -> ReadySets]
  BY PollerConstants
<1>2. \A c \in Fds : active'[c] = {}
  OBVIOUS
<1>3. ~ \E c \in Looked : P!Happened(c) # {}
  BY DEF P!Happened
<1>4. ~ \E c \in (IF usePoll THEN Polling!Watched ELSE DOMAIN interest) : P!Happened(c) # {}
  BY <1>3 DEF Looked
<1> QED BY <1>1, <1>2, <1>4 DEF P!Poll, Looked

(* A PollPoller does what Poller.tla says. *)
LEMMA PollRefines ==
  ASSUME usePoll, usePoll' = usePoll, PollInv, PollMore, Polling!Next
  PROVE  P!Next
<1>0. /\ Looked = Polling!Watched /\ Looked' = Polling!Watched' /\ Looked \subseteq Fds
      /\ Fds \subseteq Nat /\ events_ \in [Fds -> Events]
  BY PollerConstants, Masks, Zenon DEF Looked, Polling!Watched, PollInv, PollTypes
<1>1. CASE Polling!Poll
  <2>1. ready' \in [Fds -> ReadySets] /\ UNCHANGED <<channels_, events_, Looked>>
    BY <1>0, <1>1 DEF Polling!Poll, Polling!Watched
  <2>2. \A c \in Fds : active'[c] = IF c \in Looked THEN P!Happened(c) ELSE {}
    BY <1>0, <1>1, PollReports, Zenon DEF P!Happened
  <2>3. P!Poll
    BY <1>0, <2>1, <2>2, Zenon DEF P!Poll, Looked
  <2> QED BY <2>3 DEF P!Next
<1>2. ASSUME NEW c \in Fds, Polling!NewChannel(c) PROVE P!Next
  <2>1. /\ c \notin live /\ events_' = [events_ EXCEPT ![c] = {}] /\ channels_' = channels_ /\ pollfds_' = pollfds_
        /\ ready' = [d \in Fds |-> {}] /\ active' = [d \in Fds |-> {}]
    BY <1>2, Masks DEF Polling!NewChannel, Polling!NoPoll, Polling!Nothing
  <2>2. events_' = events_
    BY <1>0, <2>1 DEF PollMore, DeadAskNothing
  <2>3. Looked' = Looked
    BY <1>0, <2>1 DEF Polling!Watched
  <2>4. P!Poll
    BY <1>0, <2>1, <2>2, <2>3, NewRefines
  <2> QED BY <2>4 DEF P!Next
<1>3. ASSUME NEW c \in Fds, Polling!UpdateChannel(c) PROVE P!Next
  <2>1. PICK e \in Polling!Changes(events_[c]) :
          /\ events_' = [events_ EXCEPT ![c] = e]
          /\ IF index_[c] < 0 THEN Polling!AddEntry(c, e) ELSE Polling!UpdateEntry(c, e)
    BY <1>3, Zenon DEF Polling!UpdateChannel
  <2>2. /\ e \in Polling!Events /\ e \in Events /\ c \in live /\ live' = live
        /\ ready' = [d \in Fds |-> {}] /\ active' = [d \in Fds |-> {}]
    BY <1>3, MasksToMasks, Masks DEF Polling!UpdateChannel, PollInv, PollTypes, Polling!NoPoll, Polling!Nothing
  <2>3. CASE c \in channels_
    <3>1. ~(index_[c] < 0)
      BY <2>3 DEF PollInv, PollTypes, Forth
    <3>2. Looked' = IF e = {} THEN Looked \ {c} ELSE Looked \cup {c}
      BY <1>0, <3>1, <2>1, <2>2, <2>3, UpdateEntryInv, Zenon
    <3>3. channels_' = channels_ \cup {c}
      BY <3>1, <2>1, <2>3 DEF Polling!UpdateEntry
    <3>4. P!UpdateChannel(c)
      <4>1. events_ \in [Fds -> Events] /\ events_' = [events_ EXCEPT ![c] = e]
        BY <1>0, <2>1
      <4>2. channels_' = channels_ \cup {c} /\ (Looked' = Looked \cup {c} \/ (e = {} /\ Looked' = Looked \ {c}))
        BY <3>2, <3>3
      <4> QED BY <4>1, <4>2, <2>2, UpdateRefines, Zenon
    <3> QED BY <3>4 DEF P!Next
  <2>4. CASE c \notin channels_
    <3>1. index_[c] < 0
      BY <2>2, <2>4 DEF PollInv, NewHaveNoIndex
    <3>2. Looked' = Looked \cup {c}
      BY <1>0, <3>1, <2>1, <2>2, <2>4, AddEntryInv, Zenon
    <3>3. channels_' = channels_ \cup {c}
      BY <3>1, <2>1 DEF Polling!AddEntry
    <3>4. P!UpdateChannel(c)
      <4>1. events_ \in [Fds -> Events] /\ events_' = [events_ EXCEPT ![c] = e]
        BY <1>0, <2>1
      <4>2. channels_' = channels_ \cup {c} /\ (Looked' = Looked \cup {c} \/ (e = {} /\ Looked' = Looked \ {c}))
        BY <3>2, <3>3
      <4> QED BY <4>1, <4>2, <2>2, UpdateRefines, Zenon
    <3> QED BY <3>4 DEF P!Next
  <2> QED BY <2>3, <2>4
<1>4. ASSUME NEW c \in Fds, Polling!RemoveChannel(c) PROVE P!Next
  <2>1. /\ c \in channels_ /\ events_' = events_
        /\ events_[c] = {} /\ ready' = [d \in Fds |-> {}] /\ active' = [d \in Fds |-> {}]
    BY <1>4, Masks DEF Polling!RemoveChannel, Polling!NoPoll, Polling!Nothing
  <2>2. channels_' = channels_ \ {c} /\ Looked' = Looked \ {c}
    BY <1>0, <1>4, RemovedOne
  <2> QED BY <2>1, <2>2, RemoveRefines DEF P!Next
<1> QED BY <1>1, <1>2, <1>3, <1>4 DEF Polling!Next

(* What one epoll_wait() can report: all that happened, or as much as events_ holds,
   and then events_ is doubled. *)
Waited ==
  \E R \in SUBSET {c \in Fds : Epolling!Happened(c) # {}} :
      /\ active' = [c \in Fds |-> IF c \in R THEN Epolling!Happened(c) ELSE {}]
      /\ \/ R = {c \in Fds : Epolling!Happened(c) # {}} /\ listSize' \in {listSize, 2 * listSize}
         \/ listSize' = 2 * listSize
      /\ listSize' # listSize => listSize <= Cardinality(Fds)
      /\ R = {} => \A c \in Fds : Epolling!Happened(c) = {}

(* Every operation of an EPollPoller keeps its further invariants. *)
LEMMA EpollMoreStep ==
  ASSUME EpollInv, EpollMore, [Epolling!Next]_epollVars, Epolling!Poll => Waited, Cardinality(Fds) \in Nat
  PROVE  EpollMore'
<1>0. live \subseteq Fds /\ events_ \in [Fds -> Epolling!Events]
  BY DEF EpollInv, EpollTypes
<1>1. CASE Epolling!Poll
  <2>1. ready' \in [Fds -> ReadySets] /\ UNCHANGED <<live, events_>>
    BY <1>1 DEF Epolling!Poll
  <2>2. PICK R : /\ active' = [c \in Fds |-> IF c \in R THEN Epolling!Happened(c) ELSE {}]
                 /\ listSize' \in {listSize, 2 * listSize}
                 /\ listSize' # listSize => listSize <= Cardinality(Fds)
    BY <1>1 DEF Waited
  <2>3. active' \in [Fds -> SUBSET Revents]
    <3>1. \A c \in Fds : Epolling!Happened(c) \in SUBSET Revents
      BY <2>1, ReportedHappened DEF Epolling!Happened
    <3> QED BY <2>2, <3>1
  <2>4. ListRange'
    <3>1. Cardinality(Fds) \in Nat /\ kInitEventListSize \in Nat
      BY PollerConstants
    <3> QED BY <2>2, <3>1 DEF EpollMore, ListRange
  <2> QED BY <2>1, <2>3, <2>4 DEF EpollMore, Outcome, DeadAskNothing
<1>2. ASSUME Epolling!NoPoll, listSize' = listSize PROVE Outcome' /\ ListRange'
  BY <1>2, NothingOutcome, Zenon DEF Epolling!NoPoll, Epolling!Nothing, Outcome, EpollMore, ListRange
<1>3. ASSUME NEW c \in Fds, Epolling!NewChannel(c) PROVE EpollMore'
  <2>1. Outcome' /\ ListRange'
    BY <1>2, <1>3 DEF Epolling!NewChannel
  <2>2. DeadAskNothing'
    BY <1>0, <1>3 DEF Epolling!NewChannel, EpollMore, DeadAskNothing
  <2> QED BY <2>1, <2>2 DEF EpollMore
<1>4. ASSUME NEW c \in Fds, Epolling!UpdateChannel(c) PROVE EpollMore'
  <2>1. c \in live /\ live' = live /\ \E e : events_' = [events_ EXCEPT ![c] = e]
    BY <1>4, Zenon DEF Epolling!UpdateChannel
  <2>2. Outcome' /\ ListRange'
    BY <1>2, <1>4 DEF Epolling!UpdateChannel
  <2>3. DeadAskNothing'
    BY <1>0, <2>1 DEF EpollMore, DeadAskNothing
  <2> QED BY <2>2, <2>3 DEF EpollMore
<1>5. ASSUME NEW c \in Fds, Epolling!RemoveChannel(c) PROVE EpollMore'
  <2>1. live' = live \ {c} /\ events_' = events_ /\ events_[c] = {} /\ Outcome' /\ ListRange'
    BY <1>2, <1>5, Masks DEF Epolling!RemoveChannel
  <2> QED BY <2>1 DEF EpollMore, DeadAskNothing
<1>6. CASE UNCHANGED epollVars
  BY <1>6 DEF epollVars, EpollMore, Outcome, DeadAskNothing, ListRange
<1> QED BY <1>1, <1>3, <1>4, <1>5, <1>6 DEF Epolling!Next

(* Outside poll() nothing is found to have happened; in it, what is left out of the
   report was left out because events_ was full. *)
LEMMA ListGrows ==
  ASSUME EpollInv, EpollMore, Epolling!Next, Epolling!Poll => Waited
  PROVE  Epolling!FullArrayGrows
<1> SUFFICES ASSUME NEW c \in Fds, Epolling!Happened(c) # {}, active'[c] = {}
             PROVE  listSize' > listSize
  BY DEF Epolling!FullArrayGrows
<1>1. CASE Epolling!NoPoll
  BY <1>1 DEF Epolling!NoPoll, Epolling!Nothing, Epolling!Happened
<1>2. CASE Epolling!Poll
  <2>1. PICK R : /\ active' = [d \in Fds |-> IF d \in R THEN Epolling!Happened(d) ELSE {}]
                 /\ R = {d \in Fds : Epolling!Happened(d) # {}} \/ listSize' = 2 * listSize
    BY <1>2 DEF Waited
  <2>2. c \notin R
    BY <2>1
  <2>3. listSize' = 2 * listSize
    BY <2>1, <2>2
  <2>4. listSize \in Nat /\ listSize > 0
    BY PollerConstants DEF EpollMore, ListRange
  <2> QED BY <2>3, <2>4
<1>3. Epolling!Poll \/ Epolling!NoPoll
  BY DEF Epolling!Next, Epolling!NewChannel, Epolling!UpdateChannel, Epolling!RemoveChannel
<1> QED BY <1>1, <1>2, <1>3

(* So does an EPollPoller. *)
LEMMA EpollRefines ==
  ASSUME ~usePoll, usePoll' = usePoll, EpollInv, EpollMore, EpollInv', Epolling!Next, Epolling!Poll => Waited
  PROVE  P!Next
<1>0. /\ Looked = DOMAIN interest /\ Looked' = DOMAIN interest' /\ Looked \subseteq Fds
      /\ events_ \in [Fds -> Events] /\ index_ \in [Fds -> {Epolling!kNew, Epolling!kAdded, Epolling!kDeleted}]
      /\ Looked = {d \in channels_ : index_[d] = Epolling!kAdded}
      /\ Looked' = {d \in channels_' : index_'[d] = Epolling!kAdded}
      /\ channels_ \subseteq Fds
  BY Masks DEF Looked, EpollInv, EpollTypes, Epolling!KernelAgrees
<1>1. CASE Epolling!Poll
  <2>1. ready' \in [Fds -> ReadySets] /\ UNCHANGED <<channels_, events_, Looked>>
    BY <1>0, <1>1 DEF Epolling!Poll
  <2>2. PICK R : /\ active' = [c \in Fds |-> IF c \in R THEN Epolling!Happened(c) ELSE {}]
                 /\ R \subseteq {c \in Fds : Epolling!Happened(c) # {}}
                 /\ R = {} => \A c \in Fds : Epolling!Happened(c) = {}
    BY <1>1, Zenon DEF Waited
  <2>3. \A c \in Fds : Epolling!Happened(c) = IF c \in Looked THEN P!Happened(c) ELSE {}
    BY <1>0, Zenon DEF P!Happened, Epolling!Happened, EpollInv, Epolling!KernelAgrees
  <2>4. \A c \in Fds : active'[c] \in {{}, IF c \in Looked THEN P!Happened(c) ELSE {}}
    BY <2>2, <2>3
  <2>5. (\E c \in Looked : P!Happened(c) # {}) => \E c \in Fds : active'[c] # {}
    BY <1>0, <2>2, <2>3
  <2>6. P!Poll
    BY <2>1, <2>4, <2>5 DEF P!Poll, Looked
  <2> QED BY <2>6 DEF P!Next
<1>2. ASSUME NEW c \in Fds, Epolling!NewChannel(c) PROVE P!Next
  <2>1. /\ c \notin live /\ events_' = [events_ EXCEPT ![c] = {}] /\ channels_' = channels_ /\ interest' = interest
        /\ ready' = [d \in Fds |-> {}] /\ active' = [d \in Fds |-> {}]
    BY <1>2, Masks DEF Epolling!NewChannel, Epolling!NoPoll, Epolling!Nothing
  <2>2. events_' = events_
    BY <1>0, <2>1 DEF EpollMore, DeadAskNothing
  <2>3. P!Poll
    BY <1>0, <2>1, <2>2, NewRefines, Zenon
  <2> QED BY <2>3 DEF P!Next
<1>3. ASSUME NEW c \in Fds, Epolling!UpdateChannel(c) PROVE P!Next
  <2>1. PICK e \in Epolling!Changes(events_[c]) :
          /\ events_' = [events_ EXCEPT ![c] = e]
          /\ \/ /\ index_[c] \in {Epolling!kNew, Epolling!kDeleted}
                /\ channels_' = channels_ \cup {c}
                /\ index_' = [index_ EXCEPT ![c] = Epolling!kAdded]
             \/ /\ index_[c] = Epolling!kAdded
                /\ Epolling!UpdateExisting(c, e)
                /\ UNCHANGED channels_
    BY <1>3, Zenon DEF Epolling!UpdateChannel
  <2>2. e \in Events /\ ready' = [d \in Fds |-> {}] /\ active' = [d \in Fds |-> {}]
    BY <1>0, <1>3, EpollMasksToMasks, Masks DEF Epolling!UpdateChannel, Epolling!NoPoll, Epolling!Nothing
  <2>3. CASE index_[c] \in {Epolling!kNew, Epolling!kDeleted}
    <3>1. channels_' = channels_ \cup {c} /\ index_' = [index_ EXCEPT ![c] = Epolling!kAdded]
      BY <2>1, <2>3 DEF Epolling!kNew, Epolling!kDeleted, Epolling!kAdded
    <3>2. Looked' = Looked \cup {c}
      BY <1>0, <3>1
    <3>3. P!UpdateChannel(c)
      <4>1. events_ \in [Fds -> Events] /\ events_' = [events_ EXCEPT ![c] = e]
        BY <1>0, <2>1
      <4>2. channels_' = channels_ \cup {c} /\ (Looked' = Looked \cup {c} \/ (e = {} /\ Looked' = Looked \ {c}))
        BY <3>1, <3>2
      <4> QED BY <4>1, <4>2, <2>2, UpdateRefines, Zenon
    <3> QED BY <3>3 DEF P!Next
  <2>4. CASE index_[c] = Epolling!kAdded
    <3>1. channels_' = channels_ /\ Epolling!UpdateExisting(c, e) /\ c \in channels_
      BY <2>1, <2>4 DEF Epolling!kNew, Epolling!kDeleted, Epolling!kAdded, EpollInv, Epolling!KernelAgrees
    <3>2. index_' = IF e = {} THEN [index_ EXCEPT ![c] = Epolling!kDeleted] ELSE index_
      BY <3>1, Masks DEF Epolling!UpdateExisting
    <3>3. Looked' = IF e = {} THEN Looked \ {c} ELSE Looked \cup {c}
      BY <1>0, <2>4, <3>1, <3>2 DEF Epolling!kDeleted, Epolling!kAdded
    <3>4. P!UpdateChannel(c)
      <4>1. events_ \in [Fds -> Events] /\ events_' = [events_ EXCEPT ![c] = e]
        BY <1>0, <2>1
      <4>2. channels_' = channels_ \cup {c} /\ (Looked' = Looked \cup {c} \/ (e = {} /\ Looked' = Looked \ {c}))
        BY <3>1, <3>3
      <4> QED BY <4>1, <4>2, <2>2, UpdateRefines, Zenon
    <3> QED BY <3>4 DEF P!Next
  <2> QED BY <1>0, <2>3, <2>4
<1>4. ASSUME NEW c \in Fds, Epolling!RemoveChannel(c) PROVE P!Next
  <2>1. /\ c \in channels_ /\ channels_' = channels_ \ {c} /\ events_' = events_
        /\ events_[c] = {} /\ ready' = [d \in Fds |-> {}] /\ active' = [d \in Fds |-> {}]
        /\ index_' = [index_ EXCEPT ![c] = Epolling!kNew]
    BY <1>4, Masks DEF Epolling!RemoveChannel, Epolling!NoPoll, Epolling!Nothing
  <2>2. Looked' = Looked \ {c}
    BY <1>0, <2>1
  <2> QED BY <2>1, <2>2, RemoveRefines DEF P!Next
<1> QED BY <1>1, <1>2, <1>3, <1>4 DEF Epolling!Next

(* The pollers' Cardinality is that of FiniteSets. *)
LEMMA SameCardinality ==
  ASSUME NEW S
  PROVE  Polling!Cardinality(S) = Cardinality(S) /\ Epolling!Cardinality(S) = Cardinality(S)
BY DEF Polling!Cardinality, Epolling!Cardinality, Cardinality

-----------------------------------------------------------------------------
(* What is counted *)

(* What the proofs need to know of Cardinality; it is proved at the end, from the
   theorems on finite sets, the set of descriptors being finite. *)
Counting ==
  /\ Cardinality({}) = 0 /\ Cardinality(Fds) \in Nat
  /\ \A S \in SUBSET Fds : Cardinality(S) \in Nat
  /\ \A S \in SUBSET Fds : \A T \in SUBSET S :
       Cardinality(T) <= Cardinality(S) /\ (Cardinality(T) = Cardinality(S) => T = S)
  /\ \A S \in SUBSET Fds : \A c \in Fds \ S : Cardinality(S \cup {c}) = Cardinality(S) + 1
  /\ \A S \in SUBSET Fds : \A c \in S : Cardinality(S \ {c}) = Cardinality(S) - 1

(* The further invariants of a new PollPoller ... *)
LEMMA PollMoreInit ==
  ASSUME Counting, Polling!Init
  PROVE  PollMore
<1>1. Outcome
  BY NothingOutcome, Zenon DEF Polling!Init, Polling!Nothing, Outcome
<1>2. Cardinality(Fds) \in Nat
  BY DEF Counting
<1>3. IndexRange
  BY <1>2 DEF Polling!Init, IndexRange
<1>4. Counted
  BY DEF Counting, Polling!Init, Counted
<1> QED BY <1>1, <1>3, <1>4, Masks DEF Polling!Init, PollMore, DeadAskNothing

(* Every operation of a PollPoller keeps them. *)
LEMMA PollMoreStep ==
  ASSUME Counting, PollInv, PollMore, [Polling!Next]_pollVars
  PROVE  PollMore'
<1>0. /\ Cardinality(Fds) \in Nat /\ channels_ \in SUBSET Fds /\ live \subseteq Fds
      /\ index_ \in [Fds -> Int] /\ events_ \in [Fds -> Polling!Events] /\ Len(pollfds_) = Cardinality(channels_)
      /\ Fds \subseteq Nat
  BY PollerConstants DEF Counting, PollInv, PollTypes, PollMore, Counted
<1>1. CASE Polling!Poll
  <2>1. ready' \in [Fds -> ReadySets] /\ UNCHANGED <<live, events_, index_, channels_, pollfds_>>
    BY <1>1 DEF Polling!Poll
  <2>2. active' \in [Fds -> SUBSET Revents]
    <3>1. ASSUME NEW c \in Fds, NEW i \in 1..Len(pollfds_), pollfds_[i].fd = c
          PROVE  Polling!Reported(pollfds_[i], ready') \in SUBSET Revents
      BY <2>1, <3>1, ReportedHappened DEF Polling!Reported
    <3> QED BY <1>1, <3>1 DEF Polling!Poll
  <2> QED BY <2>1, <2>2 DEF PollMore, Outcome, DeadAskNothing, IndexRange, Counted
<1>2. ASSUME Polling!NoPoll PROVE Outcome'
  BY <1>2, NothingOutcome DEF Polling!NoPoll, Polling!Nothing, Outcome
<1>3. ASSUME NEW c \in Fds, Polling!NewChannel(c) PROVE PollMore'
  <2>1. Outcome'
    BY <1>2, <1>3 DEF Polling!NewChannel
  <2>2. IndexRange'
    BY <1>0, <1>3 DEF Polling!NewChannel, PollMore, IndexRange
  <2>3. DeadAskNothing'
    BY <1>0, <1>3 DEF Polling!NewChannel, PollMore, DeadAskNothing
  <2>4. Counted'
    BY <1>3 DEF Polling!NewChannel, PollMore, Counted
  <2> QED BY <2>1, <2>2, <2>3, <2>4 DEF PollMore
<1>4. ASSUME NEW c \in Fds, Polling!UpdateChannel(c) PROVE PollMore'
  <2>1. PICK e \in Polling!Changes(events_[c]) :
          /\ events_' = [events_ EXCEPT ![c] = e]
          /\ IF index_[c] < 0 THEN Polling!AddEntry(c, e) ELSE Polling!UpdateEntry(c, e)
    BY <1>4, Zenon DEF Polling!UpdateChannel
  <2>2. c \in live /\ live' = live /\ Outcome'
    BY <1>2, <1>4 DEF Polling!UpdateChannel
  <2>3. DeadAskNothing'
    BY <1>0, <2>1, <2>2 DEF PollMore, DeadAskNothing
  <2>4. IndexRange'
    <3>1. CASE index_[c] < 0
      <4>1. c \notin channels_
        BY <1>0, <3>1 DEF PollInv, Forth
      <4>2. Len(pollfds_) \in Nat /\ Len(pollfds_) < Cardinality(Fds)
        <5>1. channels_ # Fds /\ Cardinality(channels_) \in Nat /\ Cardinality(channels_) <= Cardinality(Fds)
          BY <1>0, <4>1 DEF Counting
        <5>2. Cardinality(channels_) # Cardinality(Fds)
          BY <1>0, <5>1 DEF Counting
        <5> QED BY <1>0, <5>1, <5>2
      <4>3. index_' = [index_ EXCEPT ![c] = Len(pollfds_)]
        BY <2>1, <3>1 DEF Polling!AddEntry
      <4> QED BY <1>0, <4>2, <4>3 DEF PollMore, IndexRange
    <3>2. CASE ~(index_[c] < 0)
      BY <2>1, <3>2 DEF Polling!UpdateEntry, PollMore, IndexRange
    <3> QED BY <3>1, <3>2
  <2>5. e \in Polling!Events
    BY <1>0, <2>1, MasksToMasks
  <2>6. Counted'
    <3>1. CASE c \in channels_
      <4>1. Polling!UpdateEntry(c, e)
        BY <1>0, <2>1, <3>1 DEF PollInv, Forth
      <4>2. Len(pollfds_') = Len(pollfds_) /\ channels_' = channels_
        BY <1>0, <2>1, <2>2, <2>5, <3>1, <4>1, UpdateEntryInv DEF Polling!UpdateEntry
      <4> QED BY <4>2 DEF PollMore, Counted
    <3>2. CASE c \notin channels_
      <4>1. Polling!AddEntry(c, e)
        BY <2>1, <2>2, <3>2 DEF PollInv, NewHaveNoIndex
      <4>2. Len(pollfds_') = Len(pollfds_) + 1 /\ channels_' = channels_ \cup {c}
        BY <1>0, <2>1, <2>2, <2>5, <3>2, <4>1, AddEntryInv DEF Polling!AddEntry
      <4>3. Cardinality(channels_ \cup {c}) = Cardinality(channels_) + 1
        BY <1>0, <3>2, Zenon DEF Counting
      <4> QED BY <1>0, <4>2, <4>3 DEF Counted
    <3> QED BY <3>1, <3>2
  <2> QED BY <2>2, <2>3, <2>4, <2>6 DEF PollMore
<1>5. ASSUME NEW c \in Fds, Polling!RemoveChannel(c) PROVE PollMore'
  <2>1. c \in channels_ /\ live' = live \ {c} /\ events_' = events_ /\ events_[c] = {} /\ Outcome'
    BY <1>2, <1>5, Masks DEF Polling!RemoveChannel
  <2>2. DeadAskNothing'
    BY <2>1 DEF PollMore, DeadAskNothing
  <2>3. \E m : index_' = [index_ EXCEPT ![m] = index_[c]]
    <3>1. CASE index_' = index_
      <4>1. index_' = [index_ EXCEPT ![c] = index_[c]]
        BY <1>0, <3>1
      <4> QED BY <4>1, Zenon
    <3>2. CASE index_' # index_
      BY <1>5, <3>2 DEF Polling!RemoveChannel, Polling!Reindexed
    <3> QED BY <3>1, <3>2
  <2>4. IndexRange'
    BY <1>0, <2>3 DEF PollMore, IndexRange
  <2>5. Len(pollfds_') = Len(pollfds_) - 1 /\ channels_' = channels_ \ {c}
    BY <1>0, <1>5, RemovedOne
  <2>6. Counted'
    <3>1. Cardinality(channels_ \ {c}) = Cardinality(channels_) - 1
      BY <1>0, <2>1, Zenon DEF Counting
    <3> QED BY <1>0, <2>5, <3>1 DEF Counted
  <2> QED BY <2>1, <2>2, <2>4, <2>6 DEF PollMore
<1>6. CASE UNCHANGED pollVars
  BY <1>6 DEF pollVars, PollMore, Outcome, DeadAskNothing, IndexRange, Counted
<1> QED BY <1>1, <1>3, <1>4, <1>5, <1>6 DEF Polling!Next

(* ... and of a new EPollPoller. *)
LEMMA EpollMoreInit ==
  ASSUME Counting, Epolling!Init
  PROVE  EpollMore
<1>1. Outcome
  BY NothingOutcome, Zenon DEF Epolling!Init, Epolling!Nothing, Outcome
<1>2. Cardinality(Fds) \in Nat
  BY DEF Counting
<1>3. ListRange
  BY <1>2, PollerConstants DEF Epolling!Init, ListRange
<1> QED BY <1>1, <1>3, Masks DEF Epolling!Init, EpollMore, DeadAskNothing

(* This is what poll() does with the result of epoll_wait(). *)
LEMMA EpollWait ==
  ASSUME Counting, EpollInv, EpollMore, Epolling!Poll
  PROVE  Waited
<1> DEFINE happened  == {c \in Fds : Epolling!Happened(c) # {}}
           numEvents == IF Cardinality(happened) < listSize THEN Cardinality(happened) ELSE listSize
<1>1. PICK R \in SUBSET happened : /\ Cardinality(R) = numEvents
                                   /\ active' = [c \in Fds |-> IF c \in R THEN Epolling!Happened(c) ELSE {}]
  BY Zenon DEF Epolling!Poll, Epolling!Cardinality, Cardinality
<1>2. listSize' = IF numEvents = listSize THEN 2 * listSize ELSE listSize
  BY DEF Epolling!Poll, Epolling!Resized, Epolling!Cardinality, Cardinality
<1>3. listSize \in Nat /\ listSize > 0
  BY PollerConstants DEF EpollMore, ListRange
<1>4. happened \in SUBSET Fds /\ R \in SUBSET Fds
  OBVIOUS
<1> HIDE DEF happened
<1>5. /\ Cardinality(happened) \in Nat /\ Cardinality(happened) <= Cardinality(Fds)
      /\ Cardinality(Fds) \in Nat
  BY <1>4 DEF Counting
<1>6. Cardinality(R) = Cardinality(happened) => R = happened
  BY <1>1, <1>4 DEF Counting
<1>7. R = {} => happened = {}
  <2>1. R = {} => Cardinality(R) = 0
    BY DEF Counting
  <2> QED BY <1>1, <1>3, <1>5, <1>6, <2>1
<1>8. (R = happened /\ listSize' \in {listSize, 2 * listSize}) \/ listSize' = 2 * listSize
  BY <1>1, <1>2, <1>3, <1>5, <1>6
<1>9. listSize' # listSize => listSize <= Cardinality(Fds)
  BY <1>2, <1>3, <1>5
<1> QED BY <1>1, <1>7, <1>8, <1>9 DEF happened, Waited

-----------------------------------------------------------------------------
(* The poller newDefaultPoller() makes *)

IInv ==
  /\ usePoll \in BOOLEAN
  /\ usePoll => PollInv /\ PollMore
  /\ ~usePoll => EpollInv /\ EpollMore

(* The constructor of either poller establishes the invariant. *)
LEMMA IInvInit ==
  ASSUME Counting
  PROVE  Init => IInv
BY PollInit, PollMoreInit, EpollInit, EpollMoreInit, Zenon DEF Init, IInv

(* Every operation of either poller keeps it. *)
LEMMA IInvStep ==
  ASSUME Counting
  PROVE  IInv /\ [Next]_vars => IInv'
<1> SUFFICES ASSUME IInv, [Next]_vars PROVE IInv'
  OBVIOUS
<1>1. usePoll' = usePoll
  BY DEF Next, vars
<1>2. CASE usePoll
  <2>1. [Polling!Next]_pollVars
    BY <1>2, Zenon DEF Next, vars, common, pollVars
  <2>2. PollInv' /\ PollMore'
    BY <1>2, <2>1, PollStep, PollMoreStep, PollerConstants DEF IInv
  <2> QED BY <1>1, <1>2, <2>2 DEF IInv
<1>3. CASE ~usePoll
  <2>1. [Epolling!Next]_epollVars
    BY <1>3 DEF Next, vars, common, epoll, epollVars
  <2>2. EpollInv' /\ EpollMore'
    <3>1. EpollInv /\ EpollMore /\ Cardinality(Fds) \in Nat
      BY <1>3 DEF Counting, IInv
    <3> QED BY <2>1, <3>1, EpollStep, EpollMoreStep, EpollWait
  <2> QED BY <1>1, <1>3, <2>2 DEF IInv
<1> QED BY <1>2, <1>3 DEF IInv

(* It is what the runs check of the indices. *)
LEMMA IInvIndices ==
  ASSUME Counting
  PROVE  IInv => IndicesAgree
<1> SUFFICES ASSUME IInv PROVE IndicesAgree
  OBVIOUS
<1>1. CASE usePoll
  <2>1. PollInv /\ PollMore
    BY <1>1 DEF IInv
  <2>2. index_ \in [Fds -> -1..(Polling!Cardinality(Fds) - 1)]
    <3>1. Cardinality(Fds) \in Nat /\ index_ \in [Fds -> Int]
      BY <2>1 DEF Counting, PollInv, PollTypes
    <3>2. \A c \in Fds : index_[c] \in -1..(Cardinality(Fds) - 1)
      BY <2>1, <3>1 DEF PollMore, IndexRange
    <3> QED BY <3>1, <3>2, SameCardinality
  <2>3. pollfds_ \in Seq([fd : Fds \cup {Polling!Ignored(c) : c \in Fds}, events : Polling!Events])
    <3> DEFINE T == [fd : Fds \cup {Polling!Ignored(c) : c \in Fds}, events : Polling!Events]
    <3>1. pollfds_ \in Seq(Entries)
      BY <2>1 DEF PollInv, PollTypes
    <3>2. ASSUME NEW i \in 1..Len(pollfds_) PROVE pollfds_[i] \in T
      <4>1. pollfds_[i] \in Entries
        BY <3>1, Elements
      <4>2. Owner(i) \in Fds
        BY <2>1 DEF PollInv, PollTypes, Back
      <4>3. pollfds_[i].fd \in {Owner(i), -Owner(i) - 1}
        BY <4>1 DEF Entries, Owner, Polling!ChannelAtEnd
      <4> QED BY <4>1, <4>2, <4>3 DEF Entries, Polling!Ignored
    <3> HIDE DEF T
    <3>3. pollfds_ \in [1..Len(pollfds_) -> T] /\ Len(pollfds_) \in Nat
      BY <3>1, <3>2, Elements
    <3>4. pollfds_ \in Seq(T)
      BY <3>3, IsSeq
    <3> QED BY <3>4 DEF T
  <2>4. Polling!TypeOK
    BY <2>1, <2>2, <2>3, Masks DEF Polling!TypeOK, PollInv, PollTypes, PollMore, Outcome
  <2>5. Polling!IndexConsistent
    BY <2>1, SameCardinality DEF Polling!IndexConsistent, PollInv, Forth, PollMore, Counted
  <2> QED BY <1>1, <2>4, <2>5 DEF IndicesAgree
<1>2. CASE ~usePoll
  <2>1. EpollInv /\ EpollMore
    BY <1>2 DEF IInv
  <2>2. DOMAIN interest \subseteq Fds /\ (\A c \in DOMAIN interest : interest[c] \in Epolling!Events) /\ ctlFailed = FALSE
    BY <2>1 DEF EpollInv, EpollTypes, Epolling!KernelAgrees
  <2>3. listSize \in kInitEventListSize..(2 * Epolling!Cardinality(Fds) + kInitEventListSize)
    <3>1. Cardinality(Fds) \in Nat /\ kInitEventListSize \in Nat
      BY PollerConstants DEF Counting
    <3> QED BY <2>1, <3>1, SameCardinality DEF EpollMore, ListRange
  <2>4. Epolling!TypeOK
    BY <2>1, <2>2, <2>3, Masks, Zenon DEF Epolling!TypeOK, EpollInv, EpollTypes, EpollMore, Outcome
  <2> QED BY <1>2, <2>1, <2>4 DEF IndicesAgree, EpollInv
<1> QED BY <1>1, <1>2

-----------------------------------------------------------------------------
(* The theorems *)

INSTANCE FiniteSetTheorems

(* The set of descriptors is finite, and so are its subsets. *)
LEMMA FdSets == Counting
<1>1. IsFiniteSet(Fds)
  BY PollerConstants
<1>2. \A S \in SUBSET Fds : IsFiniteSet(S)
  BY <1>1, FS_Subset
<1>3. Cardinality({}) = 0 /\ Cardinality(Fds) \in Nat /\ \A S \in SUBSET Fds : Cardinality(S) \in Nat
  BY <1>1, <1>2, FS_EmptySet, FS_CardinalityType
<1>4. \A S \in SUBSET Fds : \A T \in SUBSET S :
        Cardinality(T) <= Cardinality(S) /\ (Cardinality(T) = Cardinality(S) => T = S)
  BY <1>2, FS_Subset
<1>5. \A S \in SUBSET Fds : \A c \in Fds \ S : Cardinality(S \cup {c}) = Cardinality(S) + 1
  BY <1>2, FS_AddElement
<1>6. \A S \in SUBSET Fds : \A c \in S : Cardinality(S \ {c}) = Cardinality(S) - 1
  BY <1>2, FS_RemoveElement
<1> QED BY <1>3, <1>4, <1>5, <1>6 DEF Counting

(* Whichever poller it is, after any sequence of constructions, updates, removals and
   polls of channels, index_ of a registered channel is that of its own entry in
   pollfds_, or tells whether the kernel has the descriptor: no swap removal loses
   an entry, and no epoll_ctl() of update() fails. *)
THEOREM IndicesStayTrue == Spec => []IndicesAgree
<1>1. Init => IInv
  BY FdSets, IInvInit
<1>2. IInv /\ [Next]_vars => IInv'
  BY FdSets, IInvStep
<1>3. IInv => IndicesAgree
  BY FdSets, IInvIndices
<1> QED BY <1>1, <1>2, <1>3, PTL DEF Spec

(* A ready channel that epoll_wait() left out makes poll() enlarge events_: with any
   number of descriptors, and however small the array is at first. *)
THEOREM FullListAlwaysGrows == Spec => FullListGrows
<1>1. Init => IInv
  BY FdSets, IInvInit
<1>2. IInv /\ [Next]_vars => IInv'
  BY FdSets, IInvStep
<1>3. IInv /\ [Next]_vars => [~usePoll => Epolling!FullArrayGrows]_vars
  BY FdSets, ListGrows, EpollWait DEF IInv, Next
<1> QED BY <1>1, <1>2, <1>3, PTL DEF Spec, FullListGrows

(* Either poller is a Poller: poll() tells of registered channels, of what they asked
   for and of hang-ups and errors, of all of it when there is room, and of something
   when anything happened; no update or removal changes another channel. *)
THEOREM EitherPollerImplementsPoller == Spec => ImplementsPoller
<1>1. Init => IInv
  BY FdSets, IInvInit
<1>2. IInv /\ [Next]_vars => IInv'
  BY FdSets, IInvStep
<1>3. Init => P!Init
  BY Masks DEF Init, P!Init, Polling!Init, Epolling!Init, P!Nothing, Polling!Nothing, Epolling!Nothing, Polling!Watched
<1>4. IInv /\ IInv' /\ [Next]_vars => [P!Next]_P!vars
  <2> SUFFICES ASSUME IInv, IInv', [Next]_vars PROVE [P!Next]_P!vars
    OBVIOUS
  <2>1. CASE usePoll /\ Polling!Next /\ UNCHANGED <<usePoll, epoll>>
    BY <2>1, PollRefines DEF IInv
  <2>2. CASE ~usePoll /\ Epolling!Next /\ UNCHANGED <<usePoll, pollfds_>>
    BY <2>2, FdSets, EpollRefines, EpollWait DEF IInv
  <2>3. CASE UNCHANGED vars
    BY <2>3 DEF vars, common, epoll, P!vars, Polling!Watched
  <2> QED BY <2>1, <2>2, <2>3 DEF Next
<1> QED BY <1>1, <1>2, <1>3, <1>4, PTL DEF Spec, ImplementsPoller, P!Spec
===============================================================================
