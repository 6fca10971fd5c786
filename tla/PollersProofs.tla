--------------------------- MODULE PollersProofs ----------------------------
(***************************************************************************)
(* Proofs about the two backends, for any channels and descriptors, leaked *)
(* registrations of Acceptors included: Poller's swap-and-pop removal      *)
(* keeps the index of every channel, no call for a channel changes what    *)
(* another is watched for, and Epoller agrees with Poller.                 *)
(***************************************************************************)
EXTENDS Pollers, TLAPS

\* A live channel that remembers a position owns the entry there.
Owned ==
    \A c \in live : index_[c] # NOT_FILL =>
        /\ index_[c] \in 1..Len(pollFdList_)
        /\ pollFdList_[index_[c]].fd = Fd[c]
        /\ channels_[Fd[c]] = c

\* Live channels have different descriptors.
Distinct == \A c, d \in live : Fd[c] = Fd[d] => c = d

\* channels_ maps a descriptor to a channel of that descriptor.
MapOfFd == \A f \in Fds : channels_[f] # None => Fd[channels_[f]] = f

\* The channel of a descriptor that was not leaked is alive and registered.
CleanMap ==
    \A f \in Fds : f \notin leaked /\ channels_[f] # None =>
        channels_[f] \in live /\ index_[channels_[f]] # NOT_FILL

\* An entry of such a descriptor is the one its channel remembers.
CleanEntries ==
    \A j \in 1..Len(pollFdList_) : pollFdList_[j].fd \notin leaked =>
        LET c == channels_[pollFdList_[j].fd] IN
        /\ c # None
        /\ index_[c] = j
        /\ pollFdList_[j].events = events_[c]

PollerInv == Owned /\ Distinct /\ MapOfFd /\ CleanMap /\ CleanEntries

\* An entry that asks for something is switched on.
EntryOn(e) == e.events # {} => e.on

AskingIsOn == \A j \in 1..Len(pollFdList_) : EntryOn(pollFdList_[j])

\* Epoller's map and the kernel know the channel of such a descriptor, with its
\* events, if Poller's map does.
CleanInterest ==
    \A f \in Fds : f \notin leaked =>
        LET c == channels_[f] IN
        /\ channel_map_[f] = c
        /\ c = None => interest[f] = None
        /\ c # None => interest[f] = [channel |-> c, events |-> events_[c]]

Entry == [fd : Fds, on : BOOLEAN, events : SUBSET Events]

-----------------------------------------------------------------------------

\* Poller::removeChannel's swap with back() and pop_back: one entry less, the
\* last one in the place of the removed one, the others where they were.
LEMMA SwapAndPop ==
  ASSUME NEW T, NEW s \in Seq(T), NEW i \in 1..Len(s)
  PROVE  LET t == SubSeq([s EXCEPT ![i] = s[Len(s)]], 1, Len(s) - 1) IN
         /\ t \in Seq(T)
         /\ Len(t) = Len(s) - 1
         /\ \A j \in 1..(Len(s) - 1) : t[j] = IF j = i THEN s[Len(s)] ELSE s[j]
<1> DEFINE u == [s EXCEPT ![i] = s[Len(s)]]
<1>1. /\ Len(s) \in Nat
      /\ s[Len(s)] \in T
  OBVIOUS
<1>2. /\ u \in Seq(T)
      /\ Len(u) = Len(s)
  BY <1>1
<1>3. \A j \in 1..Len(s) : u[j] = IF j = i THEN s[Len(s)] ELSE s[j]
  BY <1>1
<1> HIDE DEF u
<1>4. /\ SubSeq(u, 1, Len(s) - 1) \in Seq(T)
      /\ Len(SubSeq(u, 1, Len(s) - 1)) = Len(s) - 1
      /\ \A j \in 1..(Len(s) - 1) : SubSeq(u, 1, Len(s) - 1)[j] = u[j]
  BY <1>1, <1>2
<1> QED
  BY <1>1, <1>3, <1>4 DEF u

\* Assigning a position of the list.
LEMMA SetEntry ==
  ASSUME NEW T, NEW s \in Seq(T), NEW i \in Nat, NEW v \in T
  PROVE  LET t == [s EXCEPT ![i] = v] IN
         /\ t \in Seq(T)
         /\ Len(t) = Len(s)
         /\ \A j \in 1..Len(s) : t[j] = IF j = i THEN v ELSE s[j]
<1>1. CASE i \in 1..Len(s)
  BY <1>1
<1>2. CASE i \notin 1..Len(s)
  <2>1. DOMAIN s = 1..Len(s) /\ s = [j \in 1..Len(s) |-> s[j]]
    OBVIOUS
  <2>2. [s EXCEPT ![i] = v] = s
    BY <1>2, <2>1
  <2> QED
    BY <1>2, <2>2
<1> QED
  BY <1>1, <1>2

\* Appending an entry to the list.
LEMMA AppendEntry ==
  ASSUME NEW T, NEW s \in Seq(T), NEW v \in T
  PROVE  /\ Append(s, v) \in Seq(T)
         /\ Len(Append(s, v)) = Len(s) + 1
         /\ Append(s, v)[Len(s) + 1] = v
         /\ \A j \in 1..Len(s) : Append(s, v)[j] = s[j]
  OBVIOUS

\* The list after Poller::updateChannel.
LEMMA UpdatedEntry ==
  ASSUME TypeOK, NEW c \in Channels, NEW E \in SUBSET Events, PollUpdate(c, E)
  PROVE  /\ pollFdList_' \in Seq(Entry)
         /\ index_[c] = NOT_FILL =>
              /\ Len(pollFdList_') = Len(pollFdList_) + 1
              /\ pollFdList_'[Len(pollFdList_) + 1] = PollFd(Fd[c], TRUE, E)
              /\ \A j \in 1..Len(pollFdList_) : pollFdList_'[j] = pollFdList_[j]
         /\ index_[c] # NOT_FILL =>
              /\ Len(pollFdList_') = Len(pollFdList_)
              /\ \A j \in 1..Len(pollFdList_) :
                    IF j = index_[c]
                      THEN pollFdList_'[j].fd = Fd[c] /\ pollFdList_'[j].events = E
                      ELSE pollFdList_'[j] = pollFdList_[j]
<1>1. pollFdList_ \in Seq(Entry) /\ index_[c] \in Nat /\ Fd[c] \in Fds
  BY FdAssumption DEF TypeOK, Entry
<1>2. PollFd(Fd[c], TRUE, E) \in Entry /\ PollFd(Fd[c], E # {}, E) \in Entry
  BY <1>1 DEF PollFd, Entry
<1>3. CASE index_[c] = NOT_FILL
  <2>1. pollFdList_' = Append(pollFdList_, PollFd(Fd[c], TRUE, E))
    BY <1>3 DEF PollUpdate
  <2>2. /\ pollFdList_' \in Seq(Entry)
        /\ Len(pollFdList_') = Len(pollFdList_) + 1
        /\ pollFdList_'[Len(pollFdList_) + 1] = PollFd(Fd[c], TRUE, E)
        /\ \A j \in 1..Len(pollFdList_) : pollFdList_'[j] = pollFdList_[j]
    <3> DEFINE v == PollFd(Fd[c], TRUE, E)
    <3>1. v \in Entry /\ pollFdList_' = Append(pollFdList_, v)
      BY <1>2, <2>1
    <3> HIDE DEF v
    <3>2. /\ Append(pollFdList_, v) \in Seq(Entry)
          /\ Len(Append(pollFdList_, v)) = Len(pollFdList_) + 1
          /\ Append(pollFdList_, v)[Len(pollFdList_) + 1] = v
          /\ \A j \in 1..Len(pollFdList_) : Append(pollFdList_, v)[j] = pollFdList_[j]
      BY <1>1, <3>1, AppendEntry
    <3>3. /\ pollFdList_' \in Seq(Entry)
          /\ Len(pollFdList_') = Len(pollFdList_) + 1
          /\ pollFdList_'[Len(pollFdList_) + 1] = v
          /\ \A j \in 1..Len(pollFdList_) : pollFdList_'[j] = pollFdList_[j]
      BY <3>1, <3>2, Zenon
    <3> QED
      BY <3>3 DEF v
  <2> QED
    BY <1>3, <2>2
<1>4. CASE index_[c] # NOT_FILL
  <2>1. pollFdList_' = [pollFdList_ EXCEPT ![index_[c]] = PollFd(Fd[c], E # {}, E)]
    BY <1>4 DEF PollUpdate
  <2> DEFINE v == PollFd(Fd[c], E # {}, E)
  <2>2. v \in Entry /\ v.fd = Fd[c] /\ v.events = E
    BY <1>2 DEF PollFd
  <2>3. pollFdList_' = [pollFdList_ EXCEPT ![index_[c]] = v]
    BY <2>1
  <2> HIDE DEF v
  <2> QED
    BY <1>1, <1>4, <2>2, <2>3, SetEntry
<1> QED
  BY <1>3, <1>4

\* The list after Poller::removeChannel has found the channel's entry.
LEMMA RemovedEntry ==
  ASSUME TypeOK, NEW c \in Channels, PollRemove(c),
         index_[c] # NOT_FILL, index_[c] <= Len(pollFdList_)
  PROVE  /\ index_[c] \in 1..Len(pollFdList_)
         /\ pollFdList_' \in Seq(Entry)
         /\ Len(pollFdList_') = Len(pollFdList_) - 1
         /\ \A j \in 1..Len(pollFdList_') :
               pollFdList_'[j] = IF j = index_[c] THEN pollFdList_[Len(pollFdList_)]
                                                 ELSE pollFdList_[j]
<1>1. pollFdList_ \in Seq(Entry) /\ index_[c] \in Nat /\ Len(pollFdList_) \in Nat
  BY DEF TypeOK, Entry
<1>2. index_[c] \in 1..Len(pollFdList_)
  BY <1>1 DEF NOT_FILL
<1>3. ~(index_[c] = NOT_FILL \/ index_[c] > Len(pollFdList_))
  BY <1>1
<1>4. pollFdList_' = SubSeq([pollFdList_ EXCEPT ![index_[c]] = pollFdList_[Len(pollFdList_)]],
                            1, Len(pollFdList_) - 1)
  BY <1>3 DEF PollRemove
<1> QED
  BY <1>1, <1>2, <1>4, SwapAndPop

\* Every entry's descriptor is one of Fds, and names a channel or none.
LEMMA EntryFd ==
  ASSUME TypeOK, NEW j \in 1..Len(pollFdList_)
  PROVE  pollFdList_[j].fd \in Fds /\ channels_[pollFdList_[j].fd] \in Channels \cup {None}
<1>1. pollFdList_ \in Seq(Entry)
  BY DEF TypeOK, Entry
<1>2. pollFdList_[j] \in Entry
  BY <1>1
<1>3. pollFdList_[j].fd \in Fds
  BY <1>2 DEF Entry
<1> QED
  BY <1>3 DEF TypeOK

\* The variables of Channel, Poller and Epoller stay in their types under
\* creation, listening, removal and destruction of channels.
THEOREM PollersTypeCorrect == Spec => []TypeOK
<1>1. Init => TypeOK
  <2> SUFFICES ASSUME Init PROVE TypeOK
    OBVIOUS
  <2>1. << >> \in Seq(Entry)
    OBVIOUS
  <2> QED
    BY <2>1 DEF Init, TypeOK, NOT_FILL, Entry
<1>2. TypeOK /\ [Next]_vars => TypeOK'
  <2> SUFFICES ASSUME TypeOK, [Next]_vars PROVE TypeOK'
    OBVIOUS
  <2> USE FdAssumption DEF TypeOK, Entry, NOT_FILL, Interests
  <2>1. ASSUME NEW c \in Channels, Create(c) PROVE TypeOK'
    BY <2>1 DEF Create, epollVars
  <2>2. ASSUME NEW c \in Channels, NEW E \in SUBSET Events, Listen(c, E) PROVE TypeOK'
    <3>1. /\ live' \subseteq Channels
          /\ events_' \in [Channels -> SUBSET Events]
          /\ leaked' \subseteq Fds
      BY <2>2 DEF Listen
    <3>2. pollFdList_' \in Seq(Entry)
      BY <2>2, UpdatedEntry DEF Listen
    <3>3. /\ index_' \in [Channels -> Nat]
          /\ channels_' \in [Fds -> Channels \cup {None}]
      <4>1. Len(pollFdList_) + 1 \in Nat
        OBVIOUS
      <4>2. CASE index_[c] = NOT_FILL
        <5>1. /\ index_' = [index_ EXCEPT ![c] = Len(pollFdList_) + 1]
              /\ channels_' = [channels_ EXCEPT ![Fd[c]] = c]
          BY <2>2, <4>2 DEF Listen, PollUpdate
        <5> QED
          BY <4>1, <5>1
      <4>3. CASE index_[c] # NOT_FILL
        BY <2>2, <4>3 DEF Listen, PollUpdate
      <4> QED
        BY <4>2, <4>3
    <3>4. Fd[c] \in Fds /\ [channel |-> c, events |-> E] \in Interests
      OBVIOUS
    <3>5. channel_map_' \in [Fds -> Channels \cup {None}]
      BY <2>2, <3>4 DEF Listen, EpollUpdate, epollVars
    <3>6. interest' \in [Fds -> Interests \cup {None}]
      <4>1. interest' = interest \/ interest' = [interest EXCEPT ![Fd[c]] = [channel |-> c, events |-> E]]
        BY <2>2 DEF Listen, EpollUpdate, epollVars
      <4> QED
        BY <3>4, <4>1
    <3> QED
      BY <3>1, <3>2, <3>3, <3>5, <3>6
  <2>3. ASSUME NEW c \in Channels, RemoveChannel(c) PROVE TypeOK'
    <3>1. /\ live' \subseteq Channels
          /\ events_' \in [Channels -> SUBSET Events]
          /\ leaked' \subseteq Fds
      BY <2>3 DEF RemoveChannel
    <3>2. /\ index_' \in [Channels -> Nat]
          /\ pollFdList_' \in Seq(Entry)
          /\ channels_' \in [Fds -> Channels \cup {None}]
      <4>1. CASE index_[c] = NOT_FILL \/ index_[c] > Len(pollFdList_)
        BY <2>3, <4>1 DEF RemoveChannel, PollRemove, pollVars
      <4>2. CASE ~(index_[c] = NOT_FILL \/ index_[c] > Len(pollFdList_))
        <5>1. index_[c] <= Len(pollFdList_) /\ index_[c] # NOT_FILL
          BY <4>2
        <5>2. PollRemove(c)
          BY <2>3 DEF RemoveChannel
        <5>3. pollFdList_' \in Seq(Entry) /\ index_[c] \in 1..Len(pollFdList_)
          BY <5>1, <5>2, RemovedEntry
        <5>4. Len(pollFdList_) \in 1..Len(pollFdList_)
          BY <5>3
        <5>5. channels_[pollFdList_[Len(pollFdList_)].fd] \in Channels \cup {None}
          BY <5>4, EntryFd
        <5>6. channels_' \in [Fds -> Channels \cup {None}]
          BY <4>2, <5>2 DEF PollRemove
        <5>7. index_' \in [Channels -> Nat]
          BY <4>2, <5>2, <5>5 DEF PollRemove
        <5> QED
          BY <5>3, <5>6, <5>7
      <4> QED
        BY <4>1, <4>2
    <3>3. /\ channel_map_' \in [Fds -> Channels \cup {None}]
          /\ interest' \in [Fds -> Interests \cup {None}]
      BY <2>3 DEF RemoveChannel, EpollRemove, epollVars
    <3> QED
      BY <3>1, <3>2, <3>3
  <2>4. ASSUME NEW c \in Channels, Destroy(c) PROVE TypeOK'
    BY <2>4 DEF Destroy, pollVars
  <2>5. CASE UNCHANGED vars
    BY <2>5 DEF vars
  <2> QED
    BY <2>1, <2>2, <2>3, <2>4, <2>5 DEF Next
<1> QED
  BY <1>1, <1>2, PTL DEF Spec

-----------------------------------------------------------------------------

\* Registered channels of different descriptors remember different positions,
\* and a clean descriptor has one entry: what removal by swap and pop needs.
LEMMA CleanOwner ==
  ASSUME TypeOK, PollerInv, NEW j \in 1..Len(pollFdList_), pollFdList_[j].fd \notin leaked
  PROVE  LET f == pollFdList_[j].fd
             c == channels_[f]
         IN  f \in Fds /\ c \in live /\ c \in Channels /\ Fd[c] = f /\ index_[c] = j
             /\ pollFdList_[j].events = events_[c]
<1>1. pollFdList_[j].fd \in Fds /\ channels_[pollFdList_[j].fd] \in Channels \cup {None}
  BY EntryFd
<1> QED
  BY <1>1 DEF PollerInv, MapOfFd, CleanMap, CleanEntries

\* A new channel has no entry, and no entry is its.
LEMMA CreateInv ==
  ASSUME TypeOK, PollerInv, NEW c \in Channels, Create(c)
  PROVE  PollerInv'
<1>1. /\ live' = live \cup {c}
      /\ index_' \in [Channels -> Nat] /\ index_'[c] = NOT_FILL
      /\ \A d \in Channels \ {c} : index_'[d] = index_[d] /\ events_'[d] = events_[d]
      /\ pollFdList_' = pollFdList_ /\ channels_' = channels_ /\ leaked' = leaked
  BY DEF Create, TypeOK, NOT_FILL
<1>2. c \notin live /\ \A d \in live : Fd[d] # Fd[c]
  BY DEF Create
<1>3. live \subseteq Channels
  BY DEF TypeOK
<1>4. Owned' /\ Distinct' /\ MapOfFd'
  BY <1>1, <1>2, <1>3 DEF PollerInv, Owned, Distinct, MapOfFd
<1>5. CleanMap'
  BY <1>1, <1>2, <1>3 DEF PollerInv, CleanMap
<1>6. CleanEntries'
  <2> SUFFICES ASSUME NEW j \in 1..Len(pollFdList_), pollFdList_[j].fd \notin leaked
               PROVE  LET d == channels_[pollFdList_[j].fd] IN
                      d # None /\ index_'[d] = j /\ pollFdList_[j].events = events_'[d]
    BY <1>1 DEF CleanEntries
  <2> QED
    BY <1>1, <1>2, CleanOwner, NoneAssumption
<1> QED
  BY <1>4, <1>5, <1>6 DEF PollerInv

\* A channel that goes leaves no entry behind, or its descriptor is leaked.
LEMMA DestroyInv ==
  ASSUME TypeOK, PollerInv, NEW c \in Channels, Destroy(c)
  PROVE  PollerInv'
<1>1. /\ live' = live \ {c}
      /\ \A d \in Channels \ {c} : events_'[d] = events_[d]
      /\ index_' = index_ /\ pollFdList_' = pollFdList_ /\ channels_' = channels_
      /\ leaked' = IF index_[c] = NOT_FILL THEN leaked ELSE leaked \cup {Fd[c]}
  BY DEF Destroy, TypeOK, pollVars
<1>2. Owned' /\ Distinct' /\ MapOfFd'
  BY <1>1 DEF PollerInv, Owned, Distinct, MapOfFd
<1>3. CleanMap'
  BY <1>1 DEF PollerInv, CleanMap, MapOfFd
<1>4. CleanEntries'
  <2> SUFFICES ASSUME NEW j \in 1..Len(pollFdList_), pollFdList_[j].fd \notin leaked'
               PROVE  LET d == channels_[pollFdList_[j].fd] IN
                      d # None /\ index_[d] = j /\ pollFdList_[j].events = events_'[d]
    BY <1>1 DEF CleanEntries
  <2>1. pollFdList_[j].fd \notin leaked
    BY <1>1
  <2>2. j # NOT_FILL
    BY DEF NOT_FILL
  <2> QED
    BY <1>1, <2>1, <2>2, CleanOwner, NoneAssumption
<1> QED
  BY <1>2, <1>3, <1>4 DEF PollerInv

\* updateChannel appends the entry of a new channel, or assigns the channel's.
LEMMA ListenInv ==
  ASSUME TypeOK, PollerInv, NEW c \in Channels, NEW E \in SUBSET Events, Listen(c, E)
  PROVE  PollerInv'
<1>1. /\ c \in live /\ live' = live /\ leaked' = leaked /\ live \subseteq Channels
      /\ events_'[c] = E
      /\ \A d \in Channels \ {c} : events_'[d] = events_[d]
      /\ PollUpdate(c, E)
      /\ Len(pollFdList_) \in Nat /\ Fd[c] \in Fds
  <2>1. events_ \in [Channels -> SUBSET Events] /\ live \subseteq Channels
    BY DEF TypeOK
  <2>2. Len(pollFdList_) \in Nat /\ Fd[c] \in Fds
    BY FdAssumption DEF TypeOK
  <2> QED
    BY <2>1, <2>2 DEF Listen
<1>2. Distinct'
  BY <1>1 DEF PollerInv, Distinct
<1>3. CASE index_[c] = NOT_FILL
  <2> DEFINE n == Len(pollFdList_)
  <2>1. /\ index_'[c] = n + 1
        /\ \A d \in Channels \ {c} : index_'[d] = index_[d]
        /\ channels_'[Fd[c]] = c
        /\ \A f \in Fds \ {Fd[c]} : channels_'[f] = channels_[f]
    BY <1>1, <1>3 DEF PollUpdate, TypeOK
  <2>2. /\ Len(pollFdList_') = n + 1
        /\ pollFdList_'[n + 1].fd = Fd[c]
        /\ pollFdList_'[n + 1].events = E
        /\ \A j \in 1..n : pollFdList_'[j] = pollFdList_[j]
    <3>1. /\ Len(pollFdList_') = n + 1
          /\ pollFdList_'[n + 1] = PollFd(Fd[c], TRUE, E)
          /\ \A j \in 1..n : pollFdList_'[j] = pollFdList_[j]
      BY <1>1, <1>3, UpdatedEntry, Zenon
    <3>2. PollFd(Fd[c], TRUE, E).fd = Fd[c] /\ PollFd(Fd[c], TRUE, E).events = E
      BY DEF PollFd
    <3> QED
      BY <3>1, <3>2, Zenon
  <2>3. n \in Nat
    BY <1>1
  <2> HIDE DEF n
  <2>4. Owned'
    <3> SUFFICES ASSUME NEW d \in live, index_'[d] # NOT_FILL
                 PROVE  /\ index_'[d] \in 1..(n + 1)
                        /\ pollFdList_'[index_'[d]].fd = Fd[d]
                        /\ channels_'[Fd[d]] = d
      BY <1>1, <2>2 DEF Owned
    <3>1. CASE d = c
      BY <2>1, <2>2, <2>3, <3>1
    <3>2. CASE d # c
      <4>1. d \in Channels /\ Fd[d] \in Fds /\ Fd[d] # Fd[c] /\ index_'[d] = index_[d]
        BY <1>1, <2>1, <3>2, FdAssumption DEF PollerInv, Distinct
      <4>2. index_[d] \in 1..n /\ pollFdList_[index_[d]].fd = Fd[d] /\ channels_[Fd[d]] = d
        BY <4>1 DEF PollerInv, Owned, n
      <4> QED
        BY <2>1, <2>2, <2>3, <4>1, <4>2
    <3> QED
      BY <3>1, <3>2
  <2>5. MapOfFd'
    BY <1>1, <2>1 DEF PollerInv, MapOfFd
  <2>6. CleanMap'
    <3> SUFFICES ASSUME NEW f \in Fds, f \notin leaked, channels_'[f] # None
                 PROVE  channels_'[f] \in live /\ index_'[channels_'[f]] # NOT_FILL
      BY <1>1 DEF CleanMap
    <3>1. n + 1 # NOT_FILL
      BY <2>3 DEF NOT_FILL
    <3> QED
      BY <1>1, <2>1, <3>1 DEF PollerInv, CleanMap
  <2>7. CleanEntries'
    <3> SUFFICES ASSUME NEW j \in 1..(n + 1), pollFdList_'[j].fd \notin leaked
                 PROVE  LET d == channels_'[pollFdList_'[j].fd] IN
                        d # None /\ index_'[d] = j /\ pollFdList_'[j].events = events_'[d]
      BY <1>1, <2>2 DEF CleanEntries
    <3>1. CASE j = n + 1
      BY <1>1, <2>1, <2>2, <3>1, NoneAssumption
    <3>2. CASE j # n + 1
      <4> DEFINE f == pollFdList_[j].fd
                 d == channels_[f]
      <4>1. j \in 1..n /\ pollFdList_'[j] = pollFdList_[j]
        BY <2>2, <2>3, <3>2
      <4>2. f \in Fds /\ d \in live /\ d \in Channels /\ Fd[d] = f /\ index_[d] = j
            /\ pollFdList_[j].events = events_[d]
        BY <4>1, CleanOwner DEF n
      <4>3. d # c
        BY <1>3, <4>1, <4>2 DEF NOT_FILL
      <4>4. f # Fd[c]
        BY <1>1, <4>2, <4>3 DEF PollerInv, Distinct
      <4> QED
        BY <1>1, <2>1, <4>1, <4>2, <4>3, <4>4, NoneAssumption
    <3> QED
      BY <3>1, <3>2
  <2> QED
    BY <1>2, <2>4, <2>5, <2>6, <2>7 DEF PollerInv
<1>4. CASE index_[c] # NOT_FILL
  <2> DEFINE n == Len(pollFdList_)
             i == index_[c]
  <2>1. index_' = index_ /\ channels_' = channels_
    BY <1>1, <1>4 DEF PollUpdate
  <2>2. i \in 1..n /\ pollFdList_[i].fd = Fd[c] /\ channels_[Fd[c]] = c
    BY <1>1, <1>4 DEF PollerInv, Owned
  <2>3. /\ Len(pollFdList_') = n
        /\ pollFdList_'[i].fd = Fd[c]
        /\ pollFdList_'[i].events = E
        /\ \A j \in 1..n : j # i => pollFdList_'[j] = pollFdList_[j]
        /\ \A j \in 1..n : pollFdList_'[j].fd = pollFdList_[j].fd
    <3>1. /\ Len(pollFdList_') = n
          /\ \A j \in 1..n :
                IF j = i THEN pollFdList_'[j].fd = Fd[c] /\ pollFdList_'[j].events = E
                         ELSE pollFdList_'[j] = pollFdList_[j]
      BY <1>1, <1>4, UpdatedEntry
    <3> HIDE DEF n, i
    <3> QED
      BY <2>2, <3>1, Zenon
  <2>4. Owned'
    BY <1>1, <2>1, <2>3 DEF PollerInv, Owned
  <2>5. MapOfFd' /\ CleanMap'
    BY <1>1, <2>1 DEF PollerInv, MapOfFd, CleanMap
  <2>6. CleanEntries'
    <3> SUFFICES ASSUME NEW j \in 1..n, pollFdList_[j].fd \notin leaked
                 PROVE  LET d == channels_[pollFdList_[j].fd] IN
                        d # None /\ index_[d] = j /\ pollFdList_'[j].events = events_'[d]
      BY <1>1, <2>1, <2>3 DEF CleanEntries
    <3>1. CASE j = i
      BY <1>1, <2>2, <2>3, <3>1, NoneAssumption
    <3>2. CASE j # i
      BY <1>1, <2>3, <3>2, CleanOwner, NoneAssumption
    <3> QED
      BY <3>1, <3>2
  <2> QED
    BY <1>2, <2>4, <2>5, <2>6 DEF PollerInv
<1> QED
  BY <1>3, <1>4

\* removeChannel moves the last entry, and its channel follows.
LEMMA RemoveInv ==
  ASSUME TypeOK, PollerInv, NEW c \in Channels, RemoveChannel(c)
  PROVE  PollerInv'
<1> DEFINE n == Len(pollFdList_)
           i == index_[c]
           moved == channels_[pollFdList_[n].fd]
<1>1. /\ c \in live /\ live' = live /\ leaked' = leaked /\ events_' = events_
      /\ PollRemove(c)
  BY DEF RemoveChannel
<1>2. n \in Nat /\ i \in Nat /\ Fd[c] \in Fds /\ live \subseteq Channels
  BY FdAssumption DEF TypeOK
<1>3. CASE i = NOT_FILL \/ i > n
  BY <1>1, <1>3 DEF PollRemove, pollVars, PollerInv, Owned, Distinct, MapOfFd, CleanMap, CleanEntries
<1>4. CASE ~(i = NOT_FILL \/ i > n)
  <2>1. i # NOT_FILL /\ i <= n /\ i \in 1..n
    BY <1>2, <1>4 DEF NOT_FILL
  <2>2. pollFdList_[i].fd = Fd[c] /\ channels_[Fd[c]] = c
    BY <1>1, <2>1 DEF PollerInv, Owned
  <2>3. /\ Len(pollFdList_') = n - 1
        /\ \A j \in 1..(n - 1) : j # i => pollFdList_'[j] = pollFdList_[j]
        /\ i \in 1..(n - 1) => pollFdList_'[i] = pollFdList_[n]
    BY <1>1, <2>1, RemovedEntry
  <2>4. channels_'[Fd[c]] = None /\ \A f \in Fds \ {Fd[c]} : channels_'[f] = channels_[f]
    <3>1. channels_' = [channels_ EXCEPT ![Fd[c]] = None]
      BY <1>1, <1>4 DEF PollRemove
    <3> QED
      BY <1>2, <3>1 DEF TypeOK
  <2>5. n \in 1..n /\ pollFdList_[n].fd \in Fds /\ moved \in Channels \cup {None}
    <3>1. n \in 1..n
      BY <1>2, <2>1
    <3> QED
      BY <3>1, EntryFd
  <2>6. /\ index_'[c] = NOT_FILL
        /\ i < n /\ moved # None /\ moved # c => index_'[moved] = i
        /\ \A d \in Channels \ {c} : d # moved \/ ~(i < n) => index_'[d] = index_[d]
    <3>1. index_' = IF i < n /\ moved # None THEN [index_ EXCEPT ![moved] = i, ![c] = NOT_FILL]
                                             ELSE [index_ EXCEPT ![c] = NOT_FILL]
      BY <1>1, <1>4 DEF PollRemove
    <3>2. index_ \in [Channels -> Nat]
      BY DEF TypeOK
    <3> HIDE DEF i, n, moved
    <3> QED
      BY <2>5, <3>1, <3>2, NoneAssumption
  <2> HIDE DEF i, n, moved
  <2>7. Distinct' /\ MapOfFd'
    BY <1>1, <1>2, <2>4 DEF PollerInv, Distinct, MapOfFd
  <2>8. Owned'
    <3> SUFFICES ASSUME NEW d \in live, index_'[d] # NOT_FILL
                 PROVE  /\ index_'[d] \in 1..(n - 1)
                        /\ pollFdList_'[index_'[d]].fd = Fd[d]
                        /\ channels_'[Fd[d]] = d
      BY <1>1, <2>3 DEF Owned
    <3>1. d # c /\ d \in Channels /\ Fd[d] \in Fds
      BY <1>2, <2>6, FdAssumption
    <3>2. Fd[d] # Fd[c]
      BY <1>1, <3>1 DEF PollerInv, Distinct
    <3>3. index_[d] # NOT_FILL =>
            index_[d] \in 1..n /\ pollFdList_[index_[d]].fd = Fd[d] /\ channels_[Fd[d]] = d
      BY DEF PollerInv, Owned, n
    <3>4. CASE d = moved /\ i < n
      <4>1. index_'[d] = i /\ i \in 1..(n - 1)
        BY <1>2, <2>1, <2>6, <3>1, <3>4, NoneAssumption
      <4>2. pollFdList_[n].fd = Fd[d] /\ channels_[Fd[d]] = d
        BY <2>5, <3>1, <3>4, NoneAssumption DEF PollerInv, MapOfFd, moved
      <4> QED
        BY <2>3, <2>4, <3>1, <3>2, <4>1, <4>2
    <3>5. CASE ~(d = moved /\ i < n)
      <4>1. index_'[d] = index_[d]
        BY <2>6, <3>1, <3>5
      <4>2. index_[d] # i
        BY <2>2, <3>2, <3>3, <4>1
      <4>3. index_[d] # n
        <5>1. index_[d] = n => d = moved
          BY <3>3, <4>1 DEF moved
        <5> QED
          BY <1>2, <2>1, <3>5, <4>2, <5>1
      <4>4. index_[d] \in 1..(n - 1)
        BY <1>2, <3>3, <4>1, <4>3
      <4> QED
        BY <2>3, <2>4, <3>1, <3>2, <3>3, <4>1, <4>2, <4>4
    <3> QED
      BY <3>4, <3>5
  <2>9. CleanMap'
    <3> SUFFICES ASSUME NEW f \in Fds, f \notin leaked, channels_'[f] # None
                 PROVE  channels_'[f] \in live /\ index_'[channels_'[f]] # NOT_FILL
      BY <1>1 DEF CleanMap
    <3>1. f # Fd[c] /\ channels_'[f] = channels_[f]
      BY <2>4
    <3>2. channels_[f] \in live /\ index_[channels_[f]] # NOT_FILL /\ channels_[f] # c
      BY <3>1 DEF PollerInv, CleanMap, MapOfFd
    <3> QED
      BY <1>2, <2>1, <2>6, <3>1, <3>2
  <2>10. CleanEntries'
    <3> SUFFICES ASSUME NEW j \in 1..(n - 1), pollFdList_'[j].fd \notin leaked
                 PROVE  LET d == channels_'[pollFdList_'[j].fd] IN
                        d # None /\ index_'[d] = j /\ pollFdList_'[j].events = events_[d]
      BY <1>1, <2>3 DEF CleanEntries
    <3> DEFINE k == IF j = i THEN n ELSE j
               f == pollFdList_[k].fd
               d == channels_[f]
    <3>1. k \in 1..n /\ pollFdList_'[j] = pollFdList_[k] /\ k # i
      BY <1>2, <2>1, <2>3
    <3>2. f \notin leaked
      BY <3>1
    <3>3. f \in Fds /\ d \in live /\ d \in Channels /\ Fd[d] = f /\ index_[d] = k
          /\ pollFdList_[k].events = events_[d]
      <4> HIDE DEF k
      <4> QED
        BY <3>1, <3>2, CleanOwner DEF n
    <3>4. d # c /\ f # Fd[c]
      BY <2>2, <3>1, <3>3 DEF i
    <3>5. index_'[d] = j
      <4>1. CASE j = i
        <5>1. d = moved /\ i < n
          BY <1>2, <2>1, <4>1 DEF moved
        <5> QED
          BY <2>6, <3>3, <3>4, <4>1, <5>1, NoneAssumption
      <4>2. CASE j # i
        <5>1. d # moved
          <6>1. j # n /\ index_[d] = j
            BY <1>2, <3>3, <4>2
          <6>2. moved = d => pollFdList_[n].fd = f
            BY <2>5, <3>3, NoneAssumption DEF PollerInv, MapOfFd, moved
          <6>3. pollFdList_[n].fd \notin leaked => index_[moved] = n
            BY <2>5, CleanOwner DEF moved, n
          <6> QED
            BY <3>2, <6>1, <6>2, <6>3
        <5> QED
          BY <2>6, <3>3, <3>4, <4>2, <5>1
      <4> QED
        BY <4>1, <4>2
    <3> QED
      <4> HIDE DEF k
      <4> QED
        BY <2>4, <3>1, <3>3, <3>4, <3>5, NoneAssumption
  <2> QED
    BY <2>7, <2>8, <2>9, <2>10 DEF PollerInv
<1> QED
  BY <1>3, <1>4

\* PollerInv holds in every state.
LEMMA PollerInvariant == Spec => [](TypeOK /\ PollerInv)
<1>1. Init => PollerInv
  BY DEF Init, PollerInv, Owned, Distinct, MapOfFd, CleanMap, CleanEntries
<1>2. TypeOK /\ PollerInv /\ [Next]_vars => PollerInv'
  <2> SUFFICES ASSUME TypeOK, PollerInv, [Next]_vars PROVE PollerInv'
    OBVIOUS
  <2>1. CASE UNCHANGED vars
    BY <2>1 DEF vars, PollerInv, Owned, Distinct, MapOfFd, CleanMap, CleanEntries
  <2> QED
    BY <2>1, CreateInv, ListenInv, RemoveInv, DestroyInv DEF Next
<1> QED
  BY <1>1, <1>2, PollersTypeCorrect, PTL DEF Spec

\* The position a channel remembers is always the one of its entry in Poller's
\* list: removeChannel's swap and pop_back, in any order with creations,
\* updates and destructions, never mixes up two channels.
THEOREM IndexStaysConsistent == Spec => []IndexConsistent
<1>1. TypeOK /\ PollerInv => IndexConsistent
  <2> SUFFICES ASSUME TypeOK, PollerInv, NEW c \in live, Clean(c)
               PROVE  LET i == index_[c] IN
                      /\ i \in 0..Len(pollFdList_)
                      /\ i # NOT_FILL <=> channels_[Fd[c]] = c
                      /\ i # NOT_FILL => pollFdList_[i].fd = Fd[c] /\ pollFdList_[i].events = events_[c]
                      /\ \A j \in 1..Len(pollFdList_) : pollFdList_[j].fd = Fd[c] <=> j = i
    BY DEF IndexConsistent
  <2> DEFINE i == index_[c]
  <2>1. c \in Channels /\ Fd[c] \in Fds /\ Fd[c] \notin leaked /\ i \in Nat /\ Len(pollFdList_) \in Nat
    BY FdAssumption DEF TypeOK, Clean
  <2>2. i # NOT_FILL => i \in 1..Len(pollFdList_) /\ pollFdList_[i].fd = Fd[c] /\ channels_[Fd[c]] = c
    BY DEF PollerInv, Owned
  <2>3. channels_[Fd[c]] = c => i # NOT_FILL
    BY <2>1, NoneAssumption DEF PollerInv, CleanMap
  <2>4. ASSUME NEW j \in 1..Len(pollFdList_), pollFdList_[j].fd = Fd[c] PROVE j = i
    BY <2>1, <2>4, CleanOwner DEF PollerInv, Distinct
  <2>5. ASSUME NEW j \in 1..Len(pollFdList_), j = i PROVE pollFdList_[j].fd = Fd[c]
    BY <2>2, <2>5 DEF NOT_FILL
  <2>6. i # NOT_FILL => pollFdList_[i].events = events_[c]
    BY <2>1, <2>2, CleanOwner
  <2>7. i \in 0..Len(pollFdList_)
    BY <2>1, <2>2 DEF NOT_FILL
  <2> QED
    BY <2>2, <2>3, <2>4, <2>5, <2>6, <2>7
<1> QED
  BY <1>1, PollerInvariant, PTL

-----------------------------------------------------------------------------
(* The registry: what each channel is watched for. *)

\* updateChannel leaves no entry switched off that asks for something.
LEMMA UpdateOn ==
  ASSUME TypeOK, AskingIsOn, NEW c \in Channels, NEW E \in SUBSET Events, PollUpdate(c, E)
  PROVE  AskingIsOn'
<1>1. pollFdList_ \in Seq(Entry) /\ index_[c] \in Nat /\ Fd[c] \in Fds /\ Len(pollFdList_) \in Nat
  BY FdAssumption DEF TypeOK, Entry
<1>2. CASE index_[c] = NOT_FILL
  <2>1. PICK v : v = PollFd(Fd[c], TRUE, E)
    OBVIOUS
  <2>2. EntryOn(v)
    BY <2>1 DEF EntryOn, PollFd
  <2>3. /\ Len(pollFdList_') = Len(pollFdList_) + 1
        /\ pollFdList_'[Len(pollFdList_) + 1] = v
        /\ \A j \in 1..Len(pollFdList_) : pollFdList_'[j] = pollFdList_[j]
    BY <1>2, <2>1, UpdatedEntry, Zenon
  <2>4. ASSUME NEW j \in 1..Len(pollFdList_') PROVE EntryOn(pollFdList_'[j])
    <3>1. j \in 1..Len(pollFdList_) \/ j = Len(pollFdList_) + 1
      BY <1>1, <2>3
    <3> QED  BY <2>2, <2>3, <3>1, Zenon DEF AskingIsOn
  <2> QED  BY <2>4 DEF AskingIsOn
<1>3. CASE index_[c] # NOT_FILL
  <2>1. PICK v : v = PollFd(Fd[c], E # {}, E)
    OBVIOUS
  <2>2. v \in Entry
    BY <1>1, <2>1 DEF Entry, PollFd
  <2>3. EntryOn(v)
    <3>1. v.events = E /\ v.on = (E # {})
      BY <2>1 DEF PollFd
    <3> QED  BY <3>1, Zenon DEF EntryOn
  <2>4. pollFdList_' = [pollFdList_ EXCEPT ![index_[c]] = v]
    BY <1>3, <2>1 DEF PollUpdate
  <2>5. /\ Len(pollFdList_') = Len(pollFdList_)
        /\ \A j \in 1..Len(pollFdList_) : pollFdList_'[j] = IF j = index_[c] THEN v ELSE pollFdList_[j]
    BY <1>1, <2>2, <2>4, SetEntry
  <2> QED  BY <2>3, <2>5, Zenon DEF AskingIsOn
<1> QED  BY <1>2, <1>3

\* Nor does removeChannel.
LEMMA RemoveOn ==
  ASSUME TypeOK, AskingIsOn, NEW c \in Channels, PollRemove(c)
  PROVE  AskingIsOn'
<1>1. index_[c] \in Nat /\ Len(pollFdList_) \in Nat
  BY DEF TypeOK
<1>2. CASE index_[c] = NOT_FILL \/ index_[c] > Len(pollFdList_)
  BY <1>2 DEF PollRemove, pollVars, AskingIsOn
<1>3. CASE ~(index_[c] = NOT_FILL \/ index_[c] > Len(pollFdList_))
  <2>1. /\ index_[c] \in 1..Len(pollFdList_)
        /\ Len(pollFdList_') = Len(pollFdList_) - 1
        /\ \A j \in 1..Len(pollFdList_') :
              pollFdList_'[j] = IF j = index_[c] THEN pollFdList_[Len(pollFdList_)]
                                                ELSE pollFdList_[j]
    BY <1>1, <1>3, RemovedEntry
  <2>2. \A j \in 1..Len(pollFdList_') : j \in 1..Len(pollFdList_)
    BY <1>1, <2>1
  <2>3. Len(pollFdList_) \in 1..Len(pollFdList_)
    BY <1>1, <2>1
  <2> QED  BY <2>1, <2>2, <2>3, Zenon DEF AskingIsOn
<1> QED  BY <1>2, <1>3

\* The channel that Poller's map has for a clean descriptor.
LEMMA CleanChannel ==
  ASSUME TypeOK, PollerInv, NEW f \in Fds, f \notin leaked
  PROVE  /\ channels_[f] # None => 
              /\ channels_[f] \in live /\ channels_[f] \in Channels
              /\ Fd[channels_[f]] = f /\ index_[channels_[f]] # NOT_FILL
         /\ \A c \in live : Fd[c] = f =>
              /\ index_[c] # NOT_FILL <=> channels_[f] = c
              /\ index_[c] = NOT_FILL <=> channels_[f] = None
<1>1. channels_[f] # None =>
        /\ channels_[f] \in live /\ channels_[f] \in Channels
        /\ Fd[channels_[f]] = f /\ index_[channels_[f]] # NOT_FILL
  BY DEF TypeOK, PollerInv, CleanMap, MapOfFd
<1>2. ASSUME NEW c \in live, Fd[c] = f
      PROVE  /\ index_[c] # NOT_FILL <=> channels_[f] = c
             /\ index_[c] = NOT_FILL <=> channels_[f] = None
  <2>1. index_[c] # NOT_FILL => channels_[f] = c
    BY <1>2 DEF PollerInv, Owned
  <2>2. c # None /\ (channels_[f] = None \/ channels_[f] = c)
    BY <1>1, <1>2, NoneAssumption DEF TypeOK, PollerInv, Distinct
  <2> QED  BY <1>1, <2>1, <2>2
<1> QED  BY <1>1, <1>2

\* The step of a backend's caller for channel c, seen from the clean descriptors:
\* only the one of c is affected, and the events of no other channel change.
LEMMA CleanStep ==
  ASSUME TypeOK, PollerInv, NEW c \in Channels,
         \/ Create(c)
         \/ \E E \in SUBSET Events : Listen(c, E)
         \/ RemoveChannel(c)
         \/ Destroy(c)
  PROVE  /\ \A d \in Channels : d # c => events_'[d] = events_[d]
         /\ \A f \in Fds : f # Fd[c] =>
              /\ channels_'[f] = channels_[f] /\ channel_map_'[f] = channel_map_[f]
              /\ interest'[f] = interest[f] /\ (f \in leaked' <=> f \in leaked)
<1> USE DEF TypeOK
<1>1. Fd[c] \in Fds
  BY FdAssumption
<1>2. CASE Create(c)
  BY <1>2 DEF Create, epollVars
<1>3. ASSUME NEW E \in SUBSET Events, Listen(c, E)
      PROVE  /\ \A d \in Channels : d # c => events_'[d] = events_[d]
             /\ \A f \in Fds : f # Fd[c] =>
                  /\ channels_'[f] = channels_[f] /\ channel_map_'[f] = channel_map_[f]
                  /\ interest'[f] = interest[f] /\ (f \in leaked' <=> f \in leaked)
  <2>1. events_' = [events_ EXCEPT ![c] = E] /\ leaked' = leaked
    BY <1>3 DEF Listen
  <2>2. channels_' = channels_ \/ channels_' = [channels_ EXCEPT ![Fd[c]] = c]
    BY <1>3 DEF Listen, PollUpdate
  <2>3. channel_map_' = channel_map_ \/ channel_map_' = [channel_map_ EXCEPT ![Fd[c]] = c]
    BY <1>3 DEF Listen, EpollUpdate, epollVars
  <2>4. interest' = interest \/ interest' = [interest EXCEPT ![Fd[c]] = [channel |-> c, events |-> E]]
    BY <1>3 DEF Listen, EpollUpdate, epollVars
  <2>5. \A f \in Fds : f # Fd[c] => interest'[f] = interest[f]
    BY <2>4
  <2> QED  BY <1>1, <2>1, <2>2, <2>3, <2>5
<1>4. CASE RemoveChannel(c)
  <2>1. events_' = events_ /\ leaked' = leaked
    BY <1>4 DEF RemoveChannel
  <2>2. channels_' = channels_ \/ channels_' = [channels_ EXCEPT ![Fd[c]] = None]
    BY <1>4 DEF RemoveChannel, PollRemove, pollVars
  <2>3. /\ channel_map_' = channel_map_ \/ channel_map_' = [channel_map_ EXCEPT ![Fd[c]] = None]
        /\ interest' = interest \/ interest' = [interest EXCEPT ![Fd[c]] = None]
    BY <1>4 DEF RemoveChannel, EpollRemove, epollVars
  <2> QED  BY <1>1, <2>1, <2>2, <2>3
<1>5. CASE Destroy(c)
  BY <1>1, <1>5 DEF Destroy, pollVars
<1> QED  BY <1>2, <1>3, <1>4, <1>5

\* What the step does to a clean descriptor of c.
LEMMA OwnStep ==
  ASSUME TypeOK, PollerInv, CleanInterest, NEW c \in Channels, Fd[c] \notin leaked',
         \/ Create(c)
         \/ \E E \in SUBSET Events : Listen(c, E)
         \/ RemoveChannel(c)
         \/ Destroy(c)
  PROVE  /\ Fd[c] \notin leaked
         /\ channel_map_'[Fd[c]] = channels_'[Fd[c]]
         /\ channels_'[Fd[c]] \in {c, None}
         /\ channels_'[Fd[c]] = None => interest'[Fd[c]] = None
         /\ channels_'[Fd[c]] = c => interest'[Fd[c]] = [channel |-> c, events |-> events_'[c]]
<1> USE DEF TypeOK
<1>1. PICK f \in Fds : f = Fd[c]
  BY FdAssumption
<1>2. f \notin leaked
  BY <1>1 DEF Create, Listen, RemoveChannel, Destroy
<1>3. /\ channel_map_[f] = channels_[f]
      /\ channels_[f] = None => interest[f] = None
      /\ channels_[f] # None =>
           interest[f] = [channel |-> channels_[f], events |-> events_[channels_[f]]]
  BY <1>2 DEF CleanInterest
<1>4. /\ channels_[f] # None =>
           /\ channels_[f] \in live /\ channels_[f] \in Channels
           /\ Fd[channels_[f]] = f /\ index_[channels_[f]] # NOT_FILL
      /\ c \in live =>
           /\ index_[c] # NOT_FILL <=> channels_[f] = c
           /\ index_[c] = NOT_FILL <=> channels_[f] = None
  BY <1>1, <1>2, CleanChannel
<1>5. channels_[f] # None <=> interest[f] # None
  <2>1. channels_[f] # None => [channel |-> channels_[f], events |-> events_[channels_[f]]] \in Interests
    BY <1>4 DEF Interests
  <2> QED  BY <1>3, <2>1, NoneAssumption
<1>6. c # None
  BY NoneAssumption
<1>7. CASE Create(c)
  <2>1. channels_[f] = None
    BY <1>1, <1>4, <1>7 DEF Create
  <2> QED  BY <1>1, <1>2, <1>3, <1>6, <1>7, <2>1 DEF Create, epollVars
<1>8. ASSUME NEW E \in SUBSET Events, Listen(c, E)
      PROVE  /\ channel_map_'[f] = c /\ channels_'[f] = c
             /\ interest'[f] = [channel |-> c, events |-> events_'[c]]
  <2>1. c \in live /\ events_'[c] = E
    BY <1>8 DEF Listen
  <2>2. channels_'[f] = c
    BY <1>1, <1>4, <1>8, <2>1 DEF Listen, PollUpdate
  <2>3. channel_map_[f] # None <=> interest[f] # None
    BY <1>3, <1>5
  <2>4. /\ interest' = [interest EXCEPT ![f] = [channel |-> c, events |-> E]]
        /\ channel_map_' = [channel_map_ EXCEPT ![f] = c]
    BY <1>1, <1>8, <2>3 DEF Listen, EpollUpdate
  <2>5. channel_map_'[f] = c
    BY <2>4
  <2>6. interest'[f] = [channel |-> c, events |-> E]
    BY <2>4
  <2> QED  BY <2>1, <2>2, <2>5, <2>6
<1>9. CASE RemoveChannel(c)
  <2>1. c \in live /\ events_' = events_ /\ PollRemove(c) /\ EpollRemove(c)
    BY <1>9 DEF RemoveChannel
  <2>2. channels_'[f] = None
    <3>1. CASE index_[c] = NOT_FILL
      BY <1>4, <2>1, <3>1 DEF PollRemove, pollVars
    <3>2. CASE index_[c] # NOT_FILL
      <4>1. index_[c] \in 1..Len(pollFdList_)
        BY <2>1, <3>2 DEF PollerInv, Owned
      <4>2. ~(index_[c] = NOT_FILL \/ index_[c] > Len(pollFdList_))
        BY <3>2, <4>1
      <4> QED  BY <1>1, <2>1, <4>2 DEF PollRemove
    <3> QED  BY <3>1, <3>2
  <2>3. channel_map_'[f] = None /\ interest'[f] = None
    BY <1>1, <1>3, <2>1 DEF EpollRemove, epollVars
  <2> QED  BY <1>1, <1>2, <1>6, <2>2, <2>3
<1>10. CASE Destroy(c)
  <2>1. c \in live /\ index_[c] = NOT_FILL
    BY <1>1, <1>10 DEF Destroy
  <2>2. interest'[f] = None /\ channels_'[f] = channels_[f] /\ channel_map_'[f] = channel_map_[f]
    BY <1>1, <1>10 DEF Destroy, pollVars
  <2> QED  BY <1>1, <1>2, <1>3, <1>4, <1>6, <2>1, <2>2
<1> QED  BY <1>1, <1>2, <1>6, <1>7, <1>8, <1>9, <1>10

\* The step, for the descriptors of the other channels.
LEMMA InterestStep ==
  ASSUME TypeOK, PollerInv, CleanInterest, NEW c \in Channels,
         \/ Create(c)
         \/ \E E \in SUBSET Events : Listen(c, E)
         \/ RemoveChannel(c)
         \/ Destroy(c)
  PROVE  CleanInterest'
<1>1. /\ \A d \in Channels : d # c => events_'[d] = events_[d]
      /\ \A f \in Fds : f # Fd[c] =>
           /\ channels_'[f] = channels_[f] /\ channel_map_'[f] = channel_map_[f]
           /\ interest'[f] = interest[f] /\ (f \in leaked' <=> f \in leaked)
  BY CleanStep
<1>2. ASSUME NEW f \in Fds, f \notin leaked'
      PROVE  /\ channel_map_'[f] = channels_'[f]
             /\ channels_'[f] = None => interest'[f] = None
             /\ channels_'[f] # None =>
                  interest'[f] = [channel |-> channels_'[f], events |-> events_'[channels_'[f]]]
  <2>1. CASE f = Fd[c]
    <3>1. /\ channel_map_'[f] = channels_'[f] /\ channels_'[f] \in {c, None}
          /\ channels_'[f] = None => interest'[f] = None
          /\ channels_'[f] = c => interest'[f] = [channel |-> c, events |-> events_'[c]]
      BY <1>2, <2>1, OwnStep
    <3> QED  BY <3>1
  <2>2. CASE f # Fd[c]
    <3>1. f \notin leaked
      BY <1>1, <1>2, <2>2
    <3>2. channels_[f] # None => channels_[f] \in Channels /\ channels_[f] # c
      BY <2>2, <3>1, CleanChannel
    <3>3. /\ channel_map_[f] = channels_[f]
          /\ channels_[f] = None => interest[f] = None
          /\ channels_[f] # None =>
               interest[f] = [channel |-> channels_[f], events |-> events_[channels_[f]]]
      BY <3>1 DEF CleanInterest
    <3> QED  BY <1>1, <2>2, <3>2, <3>3
  <2> QED  BY <2>1, <2>2
<1> QED  BY <1>2 DEF CleanInterest

\* The invariants of both backends.
LEMMA RegistryInvariant == Spec => [](AskingIsOn /\ CleanInterest)
<1>1. Init => AskingIsOn /\ CleanInterest
  BY DEF Init, AskingIsOn, CleanInterest
<1>2. TypeOK /\ PollerInv /\ AskingIsOn /\ CleanInterest /\ [Next]_vars
        => AskingIsOn' /\ CleanInterest'
  <2> SUFFICES ASSUME TypeOK, PollerInv, AskingIsOn, CleanInterest, [Next]_vars
               PROVE  AskingIsOn' /\ CleanInterest'
    OBVIOUS
  <2>1. CASE UNCHANGED vars
    BY <2>1 DEF vars, AskingIsOn, CleanInterest
  <2>2. ASSUME NEW c \in Channels, Create(c) PROVE AskingIsOn'
    BY <2>2 DEF Create, AskingIsOn
  <2>3. ASSUME NEW c \in Channels, NEW E \in SUBSET Events, Listen(c, E) PROVE AskingIsOn'
    BY <2>3, UpdateOn DEF Listen
  <2>4. ASSUME NEW c \in Channels, RemoveChannel(c) PROVE AskingIsOn'
    BY <2>4, RemoveOn DEF RemoveChannel
  <2>5. ASSUME NEW c \in Channels, Destroy(c) PROVE AskingIsOn'
    BY <2>5 DEF Destroy, pollVars, AskingIsOn
  <2>6. CASE Next
    BY <2>2, <2>3, <2>4, <2>5, <2>6, InterestStep DEF Next
  <2> QED  BY <2>1, <2>6
<1> QED  BY <1>1, <1>2, PollerInvariant, PTL DEF Spec

\* The entry of a registered channel whose descriptor is clean.
LEMMA RegisteredEntry ==
  ASSUME TypeOK, PollerInv, NEW c \in Channels, Clean(c), channels_[Fd[c]] = c
  PROVE  \E i \in 1..Len(pollFdList_) :
           /\ pollFdList_[i].fd = Fd[c] /\ pollFdList_[i].events = events_[c]
           /\ \A j \in 1..Len(pollFdList_) : pollFdList_[j].fd = Fd[c] => j = i
<1>1. Fd[c] \in Fds /\ Fd[c] \notin leaked /\ c # None
  BY FdAssumption, NoneAssumption DEF Clean
<1>2. c \in live /\ index_[c] # NOT_FILL
  BY <1>1, CleanChannel
<1>3. index_[c] \in 1..Len(pollFdList_) /\ pollFdList_[index_[c]].fd = Fd[c]
  BY <1>2 DEF PollerInv, Owned
<1>4. ASSUME NEW j \in 1..Len(pollFdList_), pollFdList_[j].fd = Fd[c]
      PROVE  j = index_[c] /\ pollFdList_[j].events = events_[c]
  BY <1>1, <1>4, CleanOwner
<1> QED  BY <1>3, <1>4

Registered(c) == Clean(c) /\ channels_[Fd[c]] = c

\* What a channel is watched for.
WatchedEvents ==
    \A c \in Channels :
        /\ Registered(c) => PollWatched[c] = events_[c]
        /\ ~Registered(c) => PollWatched[c] = {}

\* Poller watches a clean channel for its events if the map has it.
LEMMA Watched == TypeOK /\ PollerInv /\ AskingIsOn => WatchedEvents
<1> SUFFICES ASSUME TypeOK, PollerInv, AskingIsOn, NEW c \in Channels
             PROVE  /\ Registered(c) => PollWatched[c] = events_[c]
                    /\ ~Registered(c) => PollWatched[c] = {}
  BY DEF WatchedEvents
<1> USE DEF Registered
<1> DEFINE J == {j \in 1..Len(pollFdList_) :
                   /\ Clean(c)
                   /\ pollFdList_[j].on
                   /\ pollFdList_[j].fd = Fd[c]
                   /\ channels_[Fd[c]] = c}
<1>1. PollWatched[c] = UNION {pollFdList_[i].events : i \in J}
  BY DEF PollWatched
<1>2. CASE Clean(c) /\ channels_[Fd[c]] = c
  <2>1. PICK i \in 1..Len(pollFdList_) :
          /\ pollFdList_[i].fd = Fd[c] /\ pollFdList_[i].events = events_[c]
          /\ \A j \in 1..Len(pollFdList_) : pollFdList_[j].fd = Fd[c] => j = i
    BY <1>2, RegisteredEntry
  <2>2. pollFdList_[i].on \/ events_[c] = {}
    BY <2>1, Zenon DEF AskingIsOn, EntryOn
  <2>3. CASE pollFdList_[i].on
    <3>1. J = {i}
      BY <1>2, <2>1, <2>3, Zenon
    <3> QED  BY <1>1, <1>2, <2>1, <3>1
  <2>4. CASE ~pollFdList_[i].on
    <3>1. J = {}
      BY <2>1, <2>4, Zenon
    <3> QED  BY <1>1, <1>2, <2>2, <2>4, <3>1
  <2> QED  BY <2>3, <2>4
<1>3. CASE ~(Clean(c) /\ channels_[Fd[c]] = c)
  <2>1. J = {}
    BY <1>3
  <2> QED  BY <1>1, <1>3, <2>1
<1> QED  BY <1>2, <1>3

\* What a step for channel c leaves of the watches: those of all other channels.
LEMMA OthersWatched ==
  ASSUME TypeOK, PollerInv, CleanInterest, WatchedEvents, TypeOK', WatchedEvents', NEW c \in Channels,
         \/ Create(c)
         \/ \E E \in SUBSET Events : Listen(c, E)
         \/ RemoveChannel(c)
         \/ Destroy(c)
  PROVE  PollWatched' = [PollWatched EXCEPT ![c] = PollWatched'[c]]
<1>1. /\ \A d \in Channels : d # c => events_'[d] = events_[d]
      /\ \A f \in Fds : f # Fd[c] =>
           channels_'[f] = channels_[f] /\ (f \in leaked' <=> f \in leaked)
  BY CleanStep
<1>2. ASSUME NEW d \in Channels, d # c PROVE PollWatched'[d] = PollWatched[d]
  <2>1. /\ Registered(d) => PollWatched[d] = events_[d]
        /\ ~Registered(d) => PollWatched[d] = {}
    BY DEF WatchedEvents
  <2>2. /\ Registered(d)' => PollWatched'[d] = events_'[d]
        /\ ~Registered(d)' => PollWatched'[d] = {}
    BY DEF WatchedEvents
  <2>3. Fd[d] \in Fds /\ d # None
    BY FdAssumption, NoneAssumption
  <2>4. CASE Fd[d] # Fd[c]
    <3>1. Registered(d)' <=> Registered(d)
      BY <1>1, <2>3, <2>4 DEF Registered, Clean
    <3> QED  BY <1>1, <1>2, <2>1, <2>2, <3>1
  <2>5. CASE Fd[d] = Fd[c]
    <3>1. ~Registered(d)
      <4>1. Registered(d) => d \in live
        BY <2>3, CleanChannel DEF Registered, Clean
      <4>2. Create(c) => d \notin live
        BY <2>5 DEF Create
      <4>3. Create(c) \/ c \in live
        BY DEF Listen, RemoveChannel, Destroy
      <4> QED  BY <1>2, <2>5, <4>1, <4>2, <4>3 DEF PollerInv, Distinct
    <3>2. ~Registered(d)'
      <4>1. Fd[c] \notin leaked' => channels_'[Fd[c]] \in {c, None}
        BY OwnStep
      <4> QED  BY <1>2, <2>3, <2>5, <4>1 DEF Registered, Clean
    <3> QED  BY <2>1, <2>2, <3>1, <3>2
  <2> QED  BY <2>4, <2>5
<1>3. PICK w : w = PollWatched'
  OBVIOUS
<1>4. /\ PollWatched = [d \in Channels |-> PollWatched[d]]
      /\ w = [d \in Channels |-> w[d]]
  BY <1>3 DEF PollWatched
<1>5. \A d \in Channels : d # c => w[d] = PollWatched[d]
  BY <1>2, <1>3
<1>6. w = [PollWatched EXCEPT ![c] = w[c]]
  BY <1>4, <1>5
<1> QED  BY <1>3, <1>6

\* What it leaves of the watch of c.
LEMMA OwnWatched ==
  ASSUME TypeOK, WatchedEvents, WatchedEvents', IndexConsistent, IndexConsistent',
         PollerInv, NEW c \in Channels
  PROVE  /\ \A E \in SUBSET Events :
              Listen(c, E) => PollWatched'[c] = IF Clean(c) THEN E ELSE {}
         /\ RemoveChannel(c) \/ Destroy(c) => PollWatched'[c] = {}
         /\ Create(c) => PollWatched'[c] = PollWatched[c]
<1>1. /\ Registered(c) => PollWatched[c] = events_[c]
      /\ ~Registered(c) => PollWatched[c] = {}
  BY DEF WatchedEvents
<1>2. /\ Registered(c)' => PollWatched'[c] = events_'[c]
      /\ ~Registered(c)' => PollWatched'[c] = {}
  BY DEF WatchedEvents
<1>3. c \in live' /\ Clean(c)' => (index_'[c] # NOT_FILL <=> channels_'[Fd[c]] = c)
  BY DEF IndexConsistent
<1>4. /\ c \in live /\ Clean(c) =>
           (index_[c] # NOT_FILL <=> channels_[Fd[c]] = c) /\ index_[c] \in 0..Len(pollFdList_)
      /\ index_ \in [Channels -> Nat] /\ events_ \in [Channels -> SUBSET Events]
      /\ Len(pollFdList_) \in Nat
  BY DEF IndexConsistent, TypeOK
<1>5. ASSUME NEW E \in SUBSET Events, Listen(c, E)
      PROVE  PollWatched'[c] = IF Clean(c) THEN E ELSE {}
  <2>1. /\ c \in live' /\ events_'[c] = E /\ (Clean(c)' <=> Clean(c))
        /\ PollUpdate(c, E)
    BY <1>4, <1>5 DEF Listen, Clean
  <2>2. index_'[c] # NOT_FILL
    <3>1. CASE index_[c] # NOT_FILL
      BY <2>1, <3>1 DEF PollUpdate
    <3>2. CASE index_[c] = NOT_FILL
      <4>1. index_' = [index_ EXCEPT ![c] = Len(pollFdList_) + 1]
        BY <2>1, <3>2 DEF PollUpdate
      <4> QED  BY <1>4, <4>1 DEF NOT_FILL
    <3> QED  BY <3>1, <3>2
  <2> QED  BY <1>2, <1>3, <2>1, <2>2 DEF Registered
<1>6. ASSUME RemoveChannel(c) PROVE PollWatched'[c] = {}
  <2>1. c \in live /\ c \in live' /\ (Clean(c)' <=> Clean(c)) /\ PollRemove(c)
    BY <1>6 DEF RemoveChannel, Clean
  <2>2. CASE Clean(c)
    <3>1. index_'[c] = NOT_FILL
      BY <1>4, <2>1, <2>2 DEF PollRemove, pollVars, NOT_FILL
    <3> QED  BY <1>2, <1>3, <2>1, <2>2, <3>1 DEF Registered
  <2>3. CASE ~Clean(c)
    BY <1>2, <2>1, <2>3 DEF Registered
  <2> QED  BY <2>2, <2>3
<1>7. ASSUME Destroy(c) PROVE PollWatched'[c] = {}
  <2>1. /\ c \in live /\ channels_' = channels_
        /\ leaked' = IF index_[c] = NOT_FILL THEN leaked ELSE leaked \cup {Fd[c]}
    BY <1>7 DEF Destroy, pollVars
  <2>2. CASE index_[c] = NOT_FILL
    BY <1>2, <1>4, <2>1, <2>2 DEF Registered, Clean
  <2>3. CASE index_[c] # NOT_FILL
    BY <1>2, <2>1, <2>3 DEF Registered, Clean
  <2> QED  BY <2>2, <2>3
<1>8. ASSUME Create(c) PROVE PollWatched'[c] = PollWatched[c]
  <2>1. /\ c \notin live /\ c \in live' /\ channels_' = channels_ /\ leaked' = leaked
        /\ index_'[c] = NOT_FILL
    BY <1>4, <1>8 DEF Create
  <2>2. ~Registered(c)'
    BY <1>3, <2>1 DEF Registered
  <2>3. ~Registered(c)
    BY <2>1, <2>2 DEF Registered, Clean
  <2> QED  BY <1>1, <1>2, <2>2, <2>3
<1> QED  BY <1>5, <1>6, <1>7, <1>8

\* Poller implements ChannelRegistry call by call: updateChannel sets what its
\* channel is watched for, removeChannel ends it, and no call changes what another
\* channel is watched for, over any history of removals by swap and pop.
THEOREM PollerImplementsRegistry == Spec => PollImplementsRegistry
<1>1. Init => PollRegistry!RInit
  <2> SUFFICES ASSUME Init PROVE PollWatched = [c \in Channels |-> {}]
    BY DEF PollRegistry!RInit
  <2>1. 1..Len(pollFdList_) = {}
    BY DEF Init
  <2> QED  BY <2>1 DEF PollWatched
<1> DEFINE Corresponds(c) ==
      /\ \A E \in SUBSET Events :
           Listen(c, E) => PollRegistry!UpdateChannel(c, IF Clean(c) THEN E ELSE {})
      /\ RemoveChannel(c) => PollRegistry!RemoveChannel(c)
      /\ Create(c) => UNCHANGED PollWatched
      /\ Destroy(c) => PollRegistry!RemoveChannel(c)
<1>2. ASSUME TypeOK, PollerInv, CleanInterest, WatchedEvents, IndexConsistent,
             TypeOK', WatchedEvents', IndexConsistent', NEW c \in Channels
      PROVE  Corresponds(c)
  <2>1. /\ \A E \in SUBSET Events :
             Listen(c, E) => PollWatched'[c] = IF Clean(c) THEN E ELSE {}
        /\ RemoveChannel(c) \/ Destroy(c) => PollWatched'[c] = {}
        /\ Create(c) => PollWatched'[c] = PollWatched[c]
    BY <1>2, OwnWatched
  <2>2. ASSUME NEW E \in SUBSET Events, Listen(c, E)
        PROVE  PollRegistry!UpdateChannel(c, IF Clean(c) THEN E ELSE {})
    BY <1>2, <2>1, <2>2, OthersWatched DEF PollRegistry!UpdateChannel
  <2>3. ASSUME RemoveChannel(c) \/ Destroy(c) PROVE PollRegistry!RemoveChannel(c)
    BY <1>2, <2>1, <2>3, OthersWatched DEF PollRegistry!RemoveChannel
  <2>4. ASSUME Create(c) PROVE UNCHANGED PollWatched
    <3>1. PollWatched' = [PollWatched EXCEPT ![c] = PollWatched[c]]
      BY <1>2, <2>1, <2>4, OthersWatched
    <3>2. PollWatched = [PollWatched EXCEPT ![c] = PollWatched[c]]
      BY DEF PollWatched
    <3> QED  BY <3>1, <3>2
  <2> QED  BY <2>2, <2>3, <2>4
<1>3. /\ TypeOK /\ PollerInv /\ CleanInterest /\ WatchedEvents /\ IndexConsistent
      /\ TypeOK' /\ WatchedEvents' /\ IndexConsistent'
      => [\A c \in Channels : Corresponds(c)]_vars
  BY <1>2
<1> QED
  BY <1>1, <1>3, PollerInvariant, RegistryInvariant, Watched, IndexStaysConsistent, PTL
  DEF Spec, PollImplementsRegistry

\* Poller and Epoller run the same callbacks of every channel that listens for
\* something, whatever the conditions of its descriptor: a loop can be switched
\* between them.
THEOREM PollAndEpollAgree == Spec => []BackendsAgree
<1>1. ASSUME NEW E \in SUBSET Events, NEW R \in SUBSET Conditions
      PROVE  HandleEvent(R \cap (Asked(E) \cup {"err", "hup"}))
               = HandleEvent(SetPollEvents(R \cap (Asked(E) \cup {"rdhup", "err", "hup"})))
  <2>1. PICK P : P = R \cap (Asked(E) \cup {"err", "hup"})
    OBVIOUS
  <2>2. PICK Q : Q = SetPollEvents(R \cap (Asked(E) \cup {"rdhup", "err", "hup"}))
    OBVIOUS
  <2>3. Asked(E) \subseteq {"in", "out"}
    BY DEF Asked
  <2>4. "rdhup" \notin P /\ "rdhup" \notin Q
    BY <2>1, <2>2, <2>3 DEF SetPollEvents
  <2>5. \A x \in {"in", "out", "err"} : x \in P <=> x \in Q
    BY <2>1, <2>2, <2>3 DEF SetPollEvents
  <2>6. P \cap {"in", "rdhup"} # {} <=> Q \cap {"in", "rdhup"} # {}
    BY <2>4, <2>5
  <2>7. HandleEvent(P) = HandleEvent(Q)
    BY <2>5, <2>6 DEF HandleEvent
  <2> QED  BY <2>1, <2>2, <2>7
<1>2. TypeOK /\ PollerInv /\ AskingIsOn /\ CleanInterest => BackendsAgree
  <2> SUFFICES ASSUME TypeOK, PollerInv, AskingIsOn, CleanInterest,
                      NEW c \in live, Clean(c), events_[c] # {}, NEW R \in SUBSET Conditions
               PROVE  HandleEvent(PollReturns(c, R)) = HandleEvent(EpollReturns(c, R))
    BY DEF BackendsAgree
  <2> DEFINE J == {j \in 1..Len(pollFdList_) :
                     /\ pollFdList_[j].on
                     /\ pollFdList_[j].fd = Fd[c]
                     /\ channels_[Fd[c]] = c}
  <2>1. PollReturns(c, R) = UNION {R \cap (Asked(pollFdList_[i].events) \cup {"err", "hup"}) : i \in J}
    BY DEF PollReturns
  <2>2. c \in Channels /\ Fd[c] \in Fds /\ Fd[c] \notin leaked /\ c # None /\ events_[c] \in SUBSET Events
    BY FdAssumption, NoneAssumption DEF TypeOK, Clean
  <2>3. CASE channels_[Fd[c]] = c
    <3>1. PICK i \in 1..Len(pollFdList_) :
            /\ pollFdList_[i].fd = Fd[c] /\ pollFdList_[i].events = events_[c]
            /\ \A j \in 1..Len(pollFdList_) : pollFdList_[j].fd = Fd[c] => j = i
      BY <2>2, <2>3, RegisteredEntry
    <3>2. pollFdList_[i].on
      BY <3>1, Zenon DEF AskingIsOn, EntryOn
    <3>3. J = {i}
      BY <2>3, <3>1, <3>2, Zenon
    <3>4. PollReturns(c, R) = R \cap (Asked(events_[c]) \cup {"err", "hup"})
      BY <2>1, <3>1, <3>3
    <3>5. interest[Fd[c]] = [channel |-> c, events |-> events_[c]] /\ interest[Fd[c]] # None
      <4>1. interest[Fd[c]] = [channel |-> c, events |-> events_[c]]
        BY <2>2, <2>3 DEF CleanInterest
      <4>2. [channel |-> c, events |-> events_[c]] \in Interests
        BY <2>2 DEF Interests
      <4> QED  BY <4>1, <4>2, NoneAssumption
    <3>6. EpollReturns(c, R) = SetPollEvents(R \cap (Asked(events_[c]) \cup {"rdhup", "err", "hup"}))
      BY <3>5 DEF EpollReturns
    <3> QED  BY <1>1, <2>2, <3>4, <3>6
  <2>4. CASE channels_[Fd[c]] # c
    <3>1. J = {}
      BY <2>4
    <3>2. PollReturns(c, R) = {}
      BY <2>1, <3>1
    <3>3. channels_[Fd[c]] = None
      BY <2>2, <2>4, CleanChannel
    <3>4. interest[Fd[c]] = None
      BY <2>2, <3>3 DEF CleanInterest
    <3>5. EpollReturns(c, R) = {}
      BY <3>4 DEF EpollReturns
    <3> QED  BY <3>2, <3>5
  <2> QED  BY <2>3, <2>4
<1> QED  BY <1>2, PollerInvariant, RegistryInvariant, PTL
=============================================================================
