------------------------------ MODULE Pollers -------------------------------
(***************************************************************************)
(* net/Poller and net/Epoller, the two backends an EventLoop can have,     *)
(* driven by the same calls of the loop's channels, and net/Channel's      *)
(* event bits.                                                             *)
(*                                                                         *)
(* A channel name stands for one Channel object at a time: the object is   *)
(* created with its descriptor, listens and ignores, is removed, and is    *)
(* destroyed; descriptors are reused.  A pollfd whose fd is ~fd has on =   *)
(* FALSE.  Positions count from 1, NOT_FILL is 0.  interest is the         *)
(* kernel's list of the epoll instance.                                    *)
(***************************************************************************)
EXTENDS Naturals, Sequences, FiniteSets

CONSTANTS
    Channels,
    Fds,
    Fd,           \* Fd[c]: the descriptor of c
    Acceptors,    \* the channels that are destroyed without removeChannel
    None          \* a null pointer, an absent entry

Events == {"read", "write"}

\* What the epoll instance knows of a descriptor.
Interests == [channel : Channels, events : SUBSET Events]

ASSUME FdAssumption == Fd \in [Channels -> Fds]
ASSUME NoneAssumption == None \notin Channels /\ None \notin Interests

VARIABLES
    live,          \* the Channel objects that exist
    events_,       \* events_[c], a subset of Events
    index_,        \* index_[c], of the poll backend
    pollFdList_,
    channels_,     \* Poller: the channel of a descriptor
    channel_map_,  \* Epoller: the channel of a descriptor
    interest,      \* the kernel: None, or the channel and the events of a descriptor
    leaked         \* history: descriptors closed while a channel was registered

pollVars  == <<index_, pollFdList_, channels_>>
epollVars == <<channel_map_, interest>>
vars == <<live, events_, index_, pollFdList_, channels_, channel_map_, interest, leaked>>

NOT_FILL == 0

TypeOK ==
    /\ live \subseteq Channels
    /\ events_ \in [Channels -> SUBSET Events]
    /\ index_ \in [Channels -> Nat]
    /\ pollFdList_ \in Seq([fd : Fds, on : BOOLEAN, events : SUBSET Events])
    /\ channels_ \in [Fds -> Channels \cup {None}]
    /\ channel_map_ \in [Fds -> Channels \cup {None}]
    /\ interest \in [Fds -> Interests \cup {None}]
    /\ leaked \subseteq Fds

Init ==
    /\ live = {}
    /\ events_ = [c \in Channels |-> {}]
    /\ index_ = [c \in Channels |-> NOT_FILL]
    /\ pollFdList_ = << >>
    /\ channels_ = [f \in Fds |-> None]
    /\ channel_map_ = [f \in Fds |-> None]
    /\ interest = [f \in Fds |-> None]
    /\ leaked = {}

-----------------------------------------------------------------------------
(* The backends.  E is the new value of events_[c]. *)

PollFd(f, on, E) == [fd |-> f, on |-> on, events |-> E]

\* Poller::updateChannel.
PollUpdate(c, E) ==
    \/ /\ index_[c] = NOT_FILL
       /\ pollFdList_' = Append(pollFdList_, PollFd(Fd[c], TRUE, E))
       /\ index_' = [index_ EXCEPT ![c] = Len(pollFdList_) + 1]
       /\ channels_' = [channels_ EXCEPT ![Fd[c]] = c]
    \/ /\ index_[c] # NOT_FILL
       /\ pollFdList_' = [pollFdList_ EXCEPT ![index_[c]] = PollFd(Fd[c], E # {}, E)]
       /\ UNCHANGED <<index_, channels_>>

\* Mutant: the channel of the entry that is moved keeps its old index.
PollRemoveStaleIndex(c) ==
    LET i == index_[c]
        n == Len(pollFdList_)
    IN  IF i = NOT_FILL \/ i > n
          THEN UNCHANGED pollVars
          ELSE /\ pollFdList_' = SubSeq([pollFdList_ EXCEPT ![i] = pollFdList_[n]], 1, n - 1)
               /\ channels_' = [channels_ EXCEPT ![Fd[c]] = None]
               /\ index_' = [index_ EXCEPT ![c] = NOT_FILL]

\* Mutant: the channel of the entry that is moved is looked up by ~fd if the
\* channel listens for nothing, and is not found.
PollRemoveIgnored(c) ==
    LET i == index_[c]
        n == Len(pollFdList_)
        moved == channels_[pollFdList_[n].fd]
    IN  IF i = NOT_FILL \/ i > n
          THEN UNCHANGED pollVars
          ELSE /\ pollFdList_' = SubSeq([pollFdList_ EXCEPT ![i] = pollFdList_[n]], 1, n - 1)
               /\ channels_' = [channels_ EXCEPT ![Fd[c]] = None]
               /\ index_' = IF i < n /\ moved # None /\ pollFdList_[n].on
                              THEN [index_ EXCEPT ![moved] = i, ![c] = NOT_FILL]
                              ELSE [index_ EXCEPT ![c] = NOT_FILL]

\* Poller::removeChannel: the last entry takes the place of c's.
PollRemove(c) ==
    LET i == index_[c]
        n == Len(pollFdList_)
        moved == channels_[pollFdList_[n].fd]
    IN  IF i = NOT_FILL \/ i > n
          THEN UNCHANGED pollVars
          ELSE /\ pollFdList_' = SubSeq([pollFdList_ EXCEPT ![i] = pollFdList_[n]], 1, n - 1)
               /\ channels_' = [channels_ EXCEPT ![Fd[c]] = None]
               /\ index_' = IF i < n /\ moved # None
                              THEN [index_ EXCEPT ![moved] = i, ![c] = NOT_FILL]
                              ELSE [index_ EXCEPT ![c] = NOT_FILL]

\* Epoller::updateChannel: EPOLL_CTL_MOD if the map has the descriptor, which
\* fails if the kernel does not; EPOLL_CTL_ADD if not, which fails if it does.
EpollUpdate(c, E) ==
    LET f == Fd[c] IN
    IF channel_map_[f] # None <=> interest[f] # None
      THEN /\ interest' = [interest EXCEPT ![f] = [channel |-> c, events |-> E]]
           /\ channel_map_' = [channel_map_ EXCEPT ![f] = c]
      ELSE UNCHANGED epollVars

\* Mutant: the map entry is kept.
EpollRemoveKeeping(c) ==
    /\ interest' = [interest EXCEPT ![Fd[c]] = None]
    /\ UNCHANGED channel_map_

\* Epoller::removeChannel: nothing if the map does not have the descriptor.
EpollRemove(c) ==
    LET f == Fd[c] IN
    IF channel_map_[f] # None
      THEN /\ interest' = [interest EXCEPT ![f] = None]
           /\ channel_map_' = [channel_map_ EXCEPT ![f] = None]
      ELSE UNCHANGED epollVars

-----------------------------------------------------------------------------
(* The owners of channels. *)

\* The kernel hands out a descriptor that is not in use.
Create(c) ==
    /\ c \notin live
    /\ \A d \in live : Fd[d] # Fd[c]
    /\ live' = live \cup {c}
    /\ events_' = [events_ EXCEPT ![c] = {}]
    /\ index_' = [index_ EXCEPT ![c] = NOT_FILL]
    /\ UNCHANGED <<pollFdList_, channels_, epollVars, leaked>>

\* listenTillReadable, listenTillWritable, ignoreReadable, ignoreWritable and
\* ignoreAll, through notifyLoop and updateChannel.
Listen(c, E) ==
    /\ c \in live
    /\ \/ \E e \in Events : E \in {events_[c] \cup {e}, events_[c] \ {e}}
       \/ E = {}
    /\ events_' = [events_ EXCEPT ![c] = E]
    /\ PollUpdate(c, E)
    /\ EpollUpdate(c, E)
    /\ UNCHANGED <<live, leaked>>

RemoveChannel(c) ==
    /\ c \in live
    /\ PollRemove(c)
    /\ EpollRemove(c)
    /\ UNCHANGED <<live, events_, leaked>>

\* The Channel object is destroyed and its descriptor closed; the kernel drops
\* the descriptor from the epoll instance.  Other owners call removeChannel
\* first, an Acceptor does not.  Bound: one leaked registration per descriptor.
Destroy(c) ==
    /\ c \in live
    /\ index_[c] # NOT_FILL => c \in Acceptors /\ Fd[c] \notin leaked
    /\ live' = live \ {c}
    /\ leaked' = IF index_[c] = NOT_FILL THEN leaked ELSE leaked \cup {Fd[c]}
    /\ interest' = [interest EXCEPT ![Fd[c]] = None]
    /\ events_' = [events_ EXCEPT ![c] = {}]
    /\ UNCHANGED <<pollVars, channel_map_>>

Next ==
    \E c \in Channels :
        \/ Create(c)
        \/ \E E \in SUBSET Events : Listen(c, E)
        \/ RemoveChannel(c)
        \/ Destroy(c)

Spec == Init /\ [][Next]_vars

-----------------------------------------------------------------------------
(* What poll returns, and what Channel::handleEvent makes of it, when the   *)
(* conditions R hold for the channel's descriptor.                          *)

Conditions == {"in", "out", "err", "hup", "rdhup"}

Asked(E) == (IF "read" \in E THEN {"in"} ELSE {}) \cup (IF "write" \in E THEN {"out"} ELSE {})

\* ::poll and Poller::fillActiveChannels: err and hup are always reported.
PollReturns(c, R) ==
    UNION {R \cap (Asked(pollFdList_[i].events) \cup {"err", "hup"}) :
             i \in {j \in 1..Len(pollFdList_) :
                      /\ pollFdList_[j].on
                      /\ pollFdList_[j].fd = Fd[c]
                      /\ channels_[Fd[c]] = c}}

\* setPollEvents: EPOLLRDHUP becomes POLLHUP.
SetPollEvents(R) == (R \ {"rdhup"}) \cup (IF "rdhup" \in R THEN {"hup"} ELSE {})

\* ::epoll_wait and Epoller::fillActiveChannels; pollToEpollEvents asks for
\* EPOLLRDHUP in any case.
EpollReturns(c, R) ==
    LET e == interest[Fd[c]] IN
    IF e # None /\ e.channel = c
      THEN SetPollEvents(R \cap (Asked(e.events) \cup {"rdhup", "err", "hup"}))
      ELSE {}

\* Channel::handleEvent.  POLLNVAL comes only for a descriptor that was closed
\* with its channel registered; those are in leaked.
HandleEvent(R) ==
    {cb \in {"error", "read", "write"} :
        \/ cb = "error" /\ "err" \in R
        \/ cb = "read" /\ R \cap {"in", "rdhup"} # {}
        \/ cb = "write" /\ "out" \in R}

-----------------------------------------------------------------------------
(* Properties. *)

\* The descriptors whose registrations end with their channels.
Clean(c) == Fd[c] \notin leaked

\* The position a channel remembers is the one of its entry in pollFdList_, and
\* every entry belongs to a channel that remembers it: removals by swap and
\* pop, in any order, with entries switched off, never mix up two channels.
IndexConsistent ==
    \A c \in live : Clean(c) =>
        LET i == index_[c] IN
        /\ i \in 0..Len(pollFdList_)
        /\ i # NOT_FILL <=> channels_[Fd[c]] = c
        /\ i # NOT_FILL => pollFdList_[i].fd = Fd[c] /\ pollFdList_[i].events = events_[c]
        /\ \A j \in 1..Len(pollFdList_) : pollFdList_[j].fd = Fd[c] <=> j = i

\* The loop can be switched between poll and epoll (README.md:633): whatever
\* the state of a descriptor, both run the same callbacks of a channel that
\* listens for something, and the descriptors of the latter are all known to
\* the kernel.
BackendsAgree ==
    \A c \in live : Clean(c) /\ events_[c] # {} =>
        \A R \in SUBSET Conditions :
            HandleEvent(PollReturns(c, R)) = HandleEvent(EpollReturns(c, R))

\* What Poller watches each channel for.
PollWatched == [c \in Channels |->
    UNION {pollFdList_[i].events : i \in {j \in 1..Len(pollFdList_) :
        /\ Clean(c)
        /\ pollFdList_[j].on
        /\ pollFdList_[j].fd = Fd[c]
        /\ channels_[Fd[c]] = c}}]

PollRegistry == INSTANCE ChannelRegistry WITH watched <- PollWatched

\* Poller implements ChannelRegistry call by call: updateChannel and
\* removeChannel do what they promise for the channel of the call, whichever
\* entry of the vector they move, and no call, nor the creation or destruction
\* of a channel, changes what another channel is watched for.  What a leaked
\* descriptor is watched for does not count.
PollImplementsRegistry ==
    /\ PollRegistry!RInit
    /\ [][\A c \in Channels :
            /\ \A E \in SUBSET Events :
                 Listen(c, E) => PollRegistry!UpdateChannel(c, IF Clean(c) THEN E ELSE {})
            /\ RemoveChannel(c) => PollRegistry!RemoveChannel(c)
            /\ Create(c) => UNCHANGED PollWatched
            /\ Destroy(c) => PollRegistry!RemoveChannel(c)]_vars
=============================================================================
