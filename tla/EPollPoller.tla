---------------------------- MODULE EPollPoller ----------------------------
(***************************************************************************)
(* The poller of one loop (net/core/EPollPoller.cpp) with the Channels it  *)
(* watches (net/core/Channel.cpp) and the kernel's interest list.          *)
(*                                                                         *)
(* Three records say what is watched: Channel::index_, the map channels_   *)
(* and the kernel's list.  Only the loop's thread changes them, in the     *)
(* handlers of active channels and in functors.  The owners keep this      *)
(* contract: a channel that was reported and is not handled yet is only    *)
(* ever given more events (sendInLoop of another connection's handler); a  *)
(* channel is removed in a functor, and its descriptor closed afterwards.  *)
(* Then another channel may come with the same descriptor.                 *)
(***************************************************************************)
EXTENDS Naturals, FiniteSets

CONSTANTS
  Channels,             \* the channels that exist during a behaviour
  Fds,                  \* file descriptors
  fd,                   \* Channel::fd_ of each channel
  kInitEventListSize,   \* EPollPoller::kInitEventListSize
  None                  \* not in the map, not in the kernel's list

ASSUME FdAssumption == fd \in [Channels -> Fds]
ASSUME FdsAssumption == IsFiniteSet(Fds) /\ kInitEventListSize \in Nat \ {0}
VARIABLES
  life,         \* per channel: "unborn", "open", "removed" or "closed"
  events_,      \* Channel::events_, a set of Events
  index_,       \* Channel::index_
  channels_,    \* Poller::channels_, a channel or None for each descriptor
  listSize,     \* EPollPoller::events_.size()
  epoll,        \* the kernel's list: per descriptor an entry or None
  failed,       \* an epoll_ctl has failed
  condition,    \* per descriptor: the Conditions that hold of it
  pc,           \* the loop: "poll", "events" or "functors"
  active        \* activeChannels_, those not handled yet, each with revents_

channelVars == <<life, events_, index_, channels_, epoll, failed>>
vars == <<channelVars, listSize, condition, pc, active>>

Events == {"read", "write"}     \* kReadEvent, kWriteEvent

\* EPOLLHUP or EPOLLERR: reported whatever a channel wants.
Errors == {"error"}
Conditions == Events \union Errors

Indexes == {"kNew", "kAdded", "kDeleted"}

Entry(c, mask) == [ptr |-> c, mask |-> mask]
Active(c, revents) == [channel |-> c, revents_ |-> revents]
Entries == [ptr : Channels, mask : SUBSET Events]

ASSUME NoneAssumption == None \notin Channels \union Entries

Init ==
  /\ life = [c \in Channels |-> "unborn"]
  /\ events_ = [c \in Channels |-> {}]
  /\ index_ = [c \in Channels |-> "kNew"]
  /\ channels_ = [f \in Fds |-> None]
  /\ listSize = kInitEventListSize
  /\ epoll = [f \in Fds |-> None]
  /\ failed = FALSE
  /\ condition = [f \in Fds |-> {}]
  /\ pc = "functors"
  /\ active = {}

IsActive(c) == \E a \in active : a.channel = c
hasChannel(c) == channels_[fd[c]] = c

-----------------------------------------------------------------------------
(* epoll_ctl, and the decisions of updateChannel and removeChannel.        *)

\* EPOLL_CTL_ADD, MOD and DEL for channel c with the events it now wants.
Ctl(op, c, mask) ==
  /\ failed' = (failed \/ (op = "add") = (epoll[fd[c]] # None))
  /\ epoll' = [epoll EXCEPT ![fd[c]] = IF op = "del" THEN None ELSE Entry(c, mask)]

\* A channel that is not in the kernel's list is added even if it wants
\* nothing; one that is there is modified, or deleted if it wants nothing.
UpdateOp(c, mask) ==
  IF index_[c] # "kAdded" THEN "add" ELSE IF mask = {} THEN "del" ELSE "mod"

\* Mutant of IndexAfter: set_index(kDeleted) is forgotten.
StaysAdded(op) == "kAdded"

IndexAfter(op) == IF op = "del" THEN "kDeleted" ELSE "kAdded"

\* Channel::update and EPollPoller::updateChannel, after a change of events_.
UpdateChannel(c, mask) ==
  LET op == UpdateOp(c, mask) IN
  /\ events_' = [events_ EXCEPT ![c] = mask]
  /\ channels_' = IF index_[c] = "kNew" THEN [channels_ EXCEPT ![fd[c]] = c]
                  ELSE channels_
  /\ index_' = [index_ EXCEPT ![c] = IndexAfter(op)]
  /\ Ctl(op, c, mask)
  /\ UNCHANGED life

\* Mutant of MustDelete: the kernel is asked whatever index_ says.
DeletesAlways(c) == TRUE

\* if (index == kAdded)
MustDelete(c) == index_[c] = "kAdded"

\* Channel::remove and EPollPoller::removeChannel.
RemoveChannel(c) ==
  /\ channels_' = [channels_ EXCEPT ![fd[c]] = None]
  /\ index_' = [index_ EXCEPT ![c] = "kNew"]
  /\ IF MustDelete(c) THEN Ctl("del", c, {}) ELSE UNCHANGED <<epoll, failed>>
  /\ life' = [life EXCEPT ![c] = "removed"]
  /\ UNCHANGED events_

-----------------------------------------------------------------------------
(* The owners of the channels, on the loop's thread.                       *)

LoopUnchanged == UNCHANGED <<listSize, condition, pc, active>>

\* A new channel, on a descriptor that no other one uses.
Create(c) ==
  /\ pc # "poll"
  /\ life[c] = "unborn"
  /\ \A d \in Channels : fd[d] = fd[c] => life[d] \in {"unborn", "closed"}
  /\ life' = [life EXCEPT ![c] = "open"]
  /\ UNCHANGED <<events_, index_, channels_, epoll, failed>>
  /\ LoopUnchanged

\* enableReading, enableWriting
Enable(c, e) ==
  /\ pc # "poll"
  /\ life[c] = "open"
  /\ UpdateChannel(c, events_[c] \union {e})
  /\ LoopUnchanged

\* disableReading, disableWritting, and disableAll
Disable(c, es) ==
  /\ pc # "poll" /\ ~IsActive(c)
  /\ life[c] = "open"
  /\ UpdateChannel(c, events_[c] \ es)
  /\ LoopUnchanged

\* Mutant of MayRemove: removal runs at once instead of being queued.
RemovesAtOnce(c) == pc # "poll"

\* connectDestroyed runs as a functor (queueInLoop in removeConnectionInLoop).
MayRemove(c) == pc = "functors"

Remove(c) ==
  /\ MayRemove(c)
  /\ life[c] = "open"
  /\ RemoveChannel(c)
  /\ LoopUnchanged

\* The descriptor is closed (~Socket): the kernel forgets it.
Close(c) ==
  /\ pc # "poll"
  /\ life[c] = "removed"
  /\ life' = [life EXCEPT ![c] = "closed"]
  /\ epoll' = [epoll EXCEPT ![fd[c]] = None]
  /\ condition' = [condition EXCEPT ![fd[c]] = {}]
  /\ UNCHANGED <<events_, index_, channels_, failed, listSize, pc, active>>

-----------------------------------------------------------------------------
(* The loop.                                                               *)

\* What the kernel has to report of a descriptor: the events in the mask of its
\* entry and, even if the mask is empty, errors and hang-ups.
Pending(f) ==
  IF epoll[f] = None THEN {}
  ELSE condition[f] \intersect (epoll[f].mask \union Errors)
ReadyFds == {f \in Fds : Pending(f) # {}}
IsReady(c) == \E f \in ReadyFds : epoll[f].ptr = c

\* Mutant of ListIsFull: the list never grows.
NeverFull(n) == FALSE

\* if (numEvents == events_.size())
ListIsFull(n) == n = listSize

\* Mutant of Lengthened: the list is doubled every time.
LengthenedAlways(n) == 2 * listSize

Lengthened(n) == IF ListIsFull(n) THEN 2 * listSize ELSE listSize

\* poll and fillActiveChannels: epoll_wait fills the list with ready
\* descriptors, any if there are more, and returns with none only after the
\* timeout.
Report(fs) ==
  /\ active' = {Active(epoll[f].ptr, Pending(f)) : f \in fs}
  /\ listSize' = Lengthened(Cardinality(fs))

Poll ==
  /\ pc = "poll"
  /\ \E fs \in SUBSET ReadyFds :
       /\ Cardinality(fs) <= listSize
       /\ fs = ReadyFds \/ Cardinality(fs) = listSize
       /\ Report(fs)
  /\ pc' = "events"
  /\ UNCHANGED <<channelVars, condition>>

\* handleEvent calls the callbacks of revents_; what they do to channels is
\* Enable, Disable and Create.
HandleEvent(c) ==
  /\ pc = "events"
  /\ IsActive(c)
  /\ active' = {a \in active : a.channel # c}
  /\ UNCHANGED <<channelVars, listSize, condition, pc>>

EndOfEvents ==
  /\ pc = "events" /\ active = {}
  /\ pc' = "functors"
  /\ UNCHANGED <<channelVars, listSize, condition, active>>

EndOfFunctors ==
  /\ pc = "functors"
  /\ pc' = "poll"
  /\ UNCHANGED <<channelVars, listSize, condition, active>>

\* A descriptor becomes ready or fails, or is no longer so; epoll_wait alone
\* looks at it, so this may as well happen while the loop is there.
ConditionChanges(f) ==
  /\ pc = "poll"
  /\ \E c \in Channels : fd[c] = f /\ life[c] = "open"
  /\ \E e \in Conditions :
       condition' = [condition EXCEPT ![f] = IF e \in @ THEN @ \ {e} ELSE @ \union {e}]
  /\ UNCHANGED <<channelVars, listSize, pc, active>>

LoopStep ==
  \/ Poll \/ EndOfEvents \/ EndOfFunctors
  \/ \E c \in Channels : HandleEvent(c)

OwnerStep ==
  \E c \in Channels :
    \/ Create(c) \/ Remove(c) \/ Close(c)
    \/ \E e \in Events : Enable(c, e) \/ Disable(c, {e})
    \/ Disable(c, Events)

Next == LoopStep \/ OwnerStep \/ \E f \in Fds : ConditionChanges(f)

SafeSpec == Init /\ [][Next]_vars

\* The loop's thread runs: poll returns, and the callbacks do.
Spec == SafeSpec /\ WF_vars(LoopStep)

-----------------------------------------------------------------------------
(* Properties.                                                             *)

\* The types of the variables.  The event list is never more than twice as
\* long as the descriptors need.
TypeOK ==
  /\ life \in [Channels -> {"unborn", "open", "removed", "closed"}]
  /\ events_ \in [Channels -> SUBSET Events]
  /\ index_ \in [Channels -> Indexes]
  /\ channels_ \in [Fds -> Channels \union {None}]
  /\ listSize \in Nat \ {0}
  /\ listSize <= kInitEventListSize \/ listSize <= 2 * Cardinality(Fds)
  /\ epoll \in [Fds -> Entries \union {None}]
  /\ failed \in BOOLEAN
  /\ condition \in [Fds -> SUBSET Conditions]
  /\ pc \in {"poll", "events", "functors"}
  /\ active \subseteq [channel : Channels, revents_ : SUBSET Conditions]

\* The three records agree (updateChannel, removeChannel): a channel is in the
\* kernel's list, under its own descriptor and with the events it wants, just
\* when its index is kAdded; and in channels_ unless its index is kNew.
RecordsAgree ==
  \A c \in Channels :
    /\ index_[c] = "kAdded" <=> epoll[fd[c]] = Entry(c, events_[c])
    /\ index_[c] # "kNew" <=> hasChannel(c)

\* No epoll_ctl fails: none adds a descriptor twice or changes one that is not
\* there, which the code answers with LOG_FATAL (EPollPoller::update).
NoCtlFails == ~failed

\* A channel that was reported is, until it is handled, open and in the kernel's
\* list, and all it was reported for is an event it wants, an error or a
\* hang-up, whatever the handlers before it in the same pass have done
\* (EventLoop::loop walks raw pointers).
ActiveIsRegistered ==
  \A a \in active :
    /\ life[a.channel] = "open" /\ index_[a.channel] = "kAdded"
    /\ a.revents_ # {} /\ a.revents_ \subseteq events_[a.channel] \union Errors

\* A channel that stays ready is handled, however many others are ready and
\* whichever of them epoll_wait prefers: the list of events grows until it
\* holds them all (EPollPoller::poll).
NoStarvation ==
  \A c \in Channels : []<>~IsReady(c) \/ []<><<HandleEvent(c)>>_vars
=============================================================================
