------------------------- MODULE EPollPollerProofs -------------------------
(***************************************************************************)
(* Theorems about EPollPoller, for any channels and descriptors.           *)
(*                                                                         *)
(* That index_, channels_ and the kernel agree is not inductive: removing  *)
(* a channel empties the place of its descriptor in the map and in the     *)
(* list, which must not be the place of another channel.  The strengthening*)
(* says whose every place is (EntriesOwned, MapOwned), that only an open   *)
(* channel has one (OpenIfKnown), and that a descriptor has one owner at a *)
(* time (OneOwner).                                                        *)
(***************************************************************************)
EXTENDS EPollPoller, FiniteSetTheorems, TLAPS

\* An entry of the kernel's list is that of a channel known to be added.
EntriesOwned ==
  \A f \in Fds : epoll[f] # None =>
    \E c \in Channels : /\ fd[c] = f
                        /\ index_[c] = "kAdded"
                        /\ epoll[f] = Entry(c, events_[c])

MapOwned ==
  \A f \in Fds : channels_[f] # None =>
    index_[channels_[f]] # "kNew" /\ fd[channels_[f]] = f

OpenIfKnown == \A c \in Channels : index_[c] # "kNew" => life[c] = "open"

OneOwner ==
  \A c, d \in Channels :
    c # d /\ fd[c] = fd[d] /\ life[c] \in {"open", "removed"} =>
      life[d] \in {"unborn", "closed"}

\* Channels are active only while they are walked.
ActiveInEvents == pc # "events" => active = {}

Records == RecordsAgree /\ NoCtlFails /\ EntriesOwned /\ MapOwned
Owners == OpenIfKnown /\ OneOwner
Walk == ActiveInEvents /\ ActiveIsRegistered

IInv == TypeOK /\ Records /\ Owners /\ Walk

USE DEF Events, Indexes, Entries, Entry, hasChannel

-----------------------------------------------------------------------------
(* Lemmas.                                                                 *)

\* The list of events grows only when it was full, so never past its bound.
LEMMA ListBounded ==
  ASSUME TypeOK, NEW fs \in SUBSET Fds, Cardinality(fs) <= listSize
  PROVE  /\ Lengthened(Cardinality(fs)) \in Nat \ {0}
         /\ \/ Lengthened(Cardinality(fs)) <= kInitEventListSize
            \/ Lengthened(Cardinality(fs)) <= 2 * Cardinality(Fds)
<1>1. IsFiniteSet(fs) /\ Cardinality(fs) <= Cardinality(Fds)
  BY FdsAssumption, FS_Subset
<1>2. Cardinality(fs) \in Nat /\ Cardinality(Fds) \in Nat
  BY <1>1, FdsAssumption, FS_CardinalityType
<1>3. listSize \in Nat \ {0}
      /\ (listSize <= kInitEventListSize \/ listSize <= 2 * Cardinality(Fds))
  BY DEF TypeOK
<1> QED
  BY <1>1, <1>2, <1>3, FdsAssumption DEF Lengthened, ListIsFull

\* A channel that is open and not in the kernel's list finds its place free.
LEMMA PlaceIsFree ==
  ASSUME IInv, NEW c \in Channels, life[c] = "open", index_[c] # "kAdded"
  PROVE  epoll[fd[c]] = None
<1> SUFFICES ASSUME epoll[fd[c]] # None PROVE FALSE
  OBVIOUS
<1>1. PICK d \in Channels : fd[d] = fd[c] /\ index_[d] = "kAdded"
  BY FdAssumption DEF IInv, Records, EntriesOwned
<1>2. life[d] = "open" /\ d # c
  BY <1>1 DEF IInv, Owners, OpenIfKnown
<1> QED
  BY <1>1, <1>2 DEF IInv, Owners, OneOwner

\* So does a channel that index_ calls new, in the map.
LEMMA NotMapped ==
  ASSUME IInv, NEW c \in Channels, life[c] = "open", index_[c] = "kNew"
  PROVE  channels_[fd[c]] = None
<1> SUFFICES ASSUME channels_[fd[c]] # None PROVE FALSE
  OBVIOUS
<1>1. channels_[fd[c]] \in Channels
  BY FdAssumption DEF IInv, TypeOK
<1>2. life[channels_[fd[c]]] = "open" /\ channels_[fd[c]] # c
      /\ fd[channels_[fd[c]]] = fd[c]
  BY <1>1, FdAssumption DEF IInv, Records, MapOwned, Owners, OpenIfKnown
<1> QED
  BY <1>1, <1>2 DEF IInv, Owners, OneOwner

\* The epoll_ctl that updateChannel chooses succeeds, and what it leaves in the
\* list is the channel's own entry or nothing.
LEMMA UpdateKeepsRecords ==
  ASSUME IInv, NEW c \in Channels, NEW mask \in SUBSET Events,
         life[c] = "open", UpdateChannel(c, mask)
  PROVE  /\ Records'
         /\ life' = life
         /\ events_' = [events_ EXCEPT ![c] = mask]
         /\ index_' \in [Channels -> Indexes]
         /\ channels_' \in [Fds -> Channels \union {None}]
         /\ epoll' \in [Fds -> Entries \union {None}]
         /\ failed' \in BOOLEAN
         /\ OpenIfKnown'
<1> DEFINE op == UpdateOp(c, mask)
<1>1. /\ events_' = [events_ EXCEPT ![c] = mask]
      /\ channels_' = IF index_[c] = "kNew" THEN [channels_ EXCEPT ![fd[c]] = c]
                      ELSE channels_
      /\ index_' = [index_ EXCEPT ![c] = IndexAfter(op)]
      /\ failed' = (failed \/ (op = "add") = (epoll[fd[c]] # None))
      /\ epoll' = [epoll EXCEPT ![fd[c]] =
                     IF op = "del" THEN None ELSE Entry(c, mask)]
      /\ life' = life
  BY DEF UpdateChannel, Ctl
<1>2. fd[c] \in Fds
  BY FdAssumption
<1>3. /\ events_ \in [Channels -> SUBSET Events]
      /\ index_ \in [Channels -> Indexes]
      /\ channels_ \in [Fds -> Channels \union {None}]
      /\ epoll \in [Fds -> Entries \union {None}]
  BY DEF IInv, TypeOK
<1>4. op \in {"add", "del", "mod"} /\ (op = "add" <=> index_[c] # "kAdded")
  BY DEF UpdateOp
<1>5. epoll[fd[c]] = None <=> index_[c] # "kAdded"
  <2>1. CASE index_[c] # "kAdded"
    BY <2>1, PlaceIsFree
  <2>2. CASE index_[c] = "kAdded"
    <3>1. epoll[fd[c]] = Entry(c, events_[c])
      BY <2>2 DEF IInv, Records, RecordsAgree
    <3>2. Entry(c, events_[c]) \in Entries
      BY <1>3
    <3> QED
      BY <3>1, <3>2, <2>2, NoneAssumption
  <2> QED
    BY <2>1, <2>2
<1>6. ~failed'
  <2>1. (op = "add") <=> (epoll[fd[c]] = None)
    BY <1>4, <1>5
  <2>2. ~failed
    BY DEF IInv, Records, NoCtlFails
  <2> HIDE DEF op
  <2> QED
    BY <1>1, <2>1, <2>2
<1>7. /\ index_'[c] \in {"kAdded", "kDeleted"}
      /\ index_'[c] = "kAdded" <=> op # "del"
      /\ \A d \in Channels : d # c => index_'[d] = index_[d] /\ events_'[d] = events_[d]
      /\ events_'[c] = mask
  BY <1>1, <1>3, <1>4 DEF IndexAfter
<1>8. /\ epoll'[fd[c]] = IF op = "del" THEN None ELSE Entry(c, mask)
      /\ \A f \in Fds : f # fd[c] => epoll'[f] = epoll[f]
  BY <1>1, <1>2, <1>3
<1> HIDE DEF op
<1>9. /\ channels_'[fd[c]] = c
      /\ \A f \in Fds : f # fd[c] => channels_'[f] = channels_[f]
  BY <1>1, <1>2, <1>3 DEF IInv, Records, RecordsAgree
<1>10. \A d \in Channels : d # c /\ fd[d] = fd[c] => index_[d] = "kNew"
  BY DEF IInv, Owners, OpenIfKnown, OneOwner
<1>11. Entry(c, mask) \in Entries /\ Entry(c, mask) # None
  BY NoneAssumption
<1>12. /\ index_' \in [Channels -> Indexes]
       /\ channels_' \in [Fds -> Channels \union {None}]
       /\ epoll' \in [Fds -> Entries \union {None}]
  BY <1>1, <1>3, <1>4, <1>11 DEF IndexAfter
<1>13. RecordsAgree'
  <2> SUFFICES ASSUME NEW d \in Channels
               PROVE  /\ index_'[d] = "kAdded" <=> epoll'[fd[d]] = Entry(d, events_'[d])
                      /\ index_'[d] # "kNew" <=> channels_'[fd[d]] = d
    BY DEF RecordsAgree
  <2>1. CASE d = c
    BY <2>1, <1>7, <1>8, <1>9, <1>11
  <2>2. CASE d # c /\ fd[d] = fd[c]
    <3>1. index_'[d] = "kNew" /\ channels_'[fd[d]] = c
      BY <2>2, <1>7, <1>9, <1>10
    <3>2. epoll'[fd[d]] # Entry(d, events_'[d])
      <4>1. Entry(d, events_'[d]) # None
        BY <1>3, <1>7, <2>2, NoneAssumption
      <4>2. Entry(d, events_'[d]) # Entry(c, mask)
        BY <2>2
      <4> QED
        BY <4>1, <4>2, <1>8, <2>2
    <3> QED
      BY <3>1, <3>2, <2>2
  <2>3. CASE d # c /\ fd[d] # fd[c]
    BY <2>3, <1>7, <1>8, <1>9, FdAssumption DEF IInv, Records, RecordsAgree
  <2> QED
    BY <2>1, <2>2, <2>3
<1>14. EntriesOwned'
  <2> SUFFICES ASSUME NEW f \in Fds, epoll'[f] # None
               PROVE  \E d \in Channels : /\ fd[d] = f
                                          /\ index_'[d] = "kAdded"
                                          /\ epoll'[f] = Entry(d, events_'[d])
    BY DEF EntriesOwned
  <2>1. CASE f = fd[c]
    BY <2>1, <1>7, <1>8
  <2>2. CASE f # fd[c]
    <3>1. PICK d \in Channels : /\ fd[d] = f
                                /\ index_[d] = "kAdded"
                                /\ epoll[f] = Entry(d, events_[d])
      BY <2>2, <1>8 DEF IInv, Records, EntriesOwned
    <3> QED
      BY <3>1, <2>2, <1>7, <1>8
  <2> QED
    BY <2>1, <2>2
<1>15. MapOwned'
  <2> SUFFICES ASSUME NEW f \in Fds, channels_'[f] # None
               PROVE  index_'[channels_'[f]] # "kNew" /\ fd[channels_'[f]] = f
    BY DEF MapOwned
  <2>1. CASE f = fd[c]
    BY <2>1, <1>7, <1>9
  <2>2. CASE f # fd[c]
    <3>1. channels_'[f] = channels_[f] /\ channels_[f] \in Channels
      BY <2>2, <1>3, <1>9
    <3> QED
      BY <3>1, <2>2, <1>7 DEF IInv, Records, MapOwned
  <2> QED
    BY <2>1, <2>2
<1>16. OpenIfKnown'
  BY <1>1, <1>7 DEF IInv, Owners, OpenIfKnown
<1>17. failed' \in BOOLEAN
  BY <1>1
<1> QED
  BY <1>1, <1>6, <1>12, <1>13, <1>14, <1>15, <1>16, <1>17 DEF Records, NoCtlFails

\* removeChannel finds what it deletes and leaves the place of the descriptor
\* empty in the map and in the list.
LEMMA RemoveKeepsRecords ==
  ASSUME IInv, NEW c \in Channels, life[c] = "open", RemoveChannel(c)
  PROVE  /\ Records'
         /\ life' = [life EXCEPT ![c] = "removed"]
         /\ events_' = events_
         /\ index_' \in [Channels -> Indexes]
         /\ channels_' \in [Fds -> Channels \union {None}]
         /\ epoll' \in [Fds -> Entries \union {None}]
         /\ failed' \in BOOLEAN
         /\ OpenIfKnown'
<1>1. /\ channels_' = [channels_ EXCEPT ![fd[c]] = None]
      /\ index_' = [index_ EXCEPT ![c] = "kNew"]
      /\ life' = [life EXCEPT ![c] = "removed"]
      /\ events_' = events_
  BY DEF RemoveChannel
<1>2. fd[c] \in Fds
  BY FdAssumption
<1>3. /\ life \in [Channels -> {"unborn", "open", "removed", "closed"}]
      /\ events_ \in [Channels -> SUBSET Events]
      /\ index_ \in [Channels -> Indexes]
      /\ channels_ \in [Fds -> Channels \union {None}]
      /\ epoll \in [Fds -> Entries \union {None}]
  BY DEF IInv, TypeOK
<1>4. ~failed /\ failed \in BOOLEAN
  BY DEF IInv, TypeOK, Records, NoCtlFails
<1>5. epoll' = [epoll EXCEPT ![fd[c]] = None] /\ ~failed' /\ failed' \in BOOLEAN
  <2>1. CASE index_[c] = "kAdded"
    <3>1. epoll' = [epoll EXCEPT ![fd[c]] = None]
          /\ failed' = (failed \/ ("del" = "add") = (epoll[fd[c]] # None))
      BY <2>1 DEF RemoveChannel, MustDelete, Ctl
    <3>2. epoll[fd[c]] = Entry(c, events_[c])
      BY <2>1 DEF IInv, Records, RecordsAgree
    <3>3. Entry(c, events_[c]) \in Entries
      BY <1>3
    <3>4. epoll[fd[c]] # None
      BY <3>2, <3>3, NoneAssumption
    <3> QED
      BY <3>1, <3>4, <1>4
  <2>2. CASE index_[c] # "kAdded"
    <3>1. epoll' = epoll /\ failed' = failed
      BY <2>2 DEF RemoveChannel, MustDelete
    <3>2. epoll[fd[c]] = None
      BY <2>2, PlaceIsFree
    <3> QED
      BY <3>1, <3>2, <1>2, <1>3, <1>4
  <2> QED
    BY <2>1, <2>2
<1>6. \A d \in Channels : d # c /\ fd[d] = fd[c] => index_[d] = "kNew"
  BY DEF IInv, Owners, OpenIfKnown, OneOwner
<1>7. /\ index_' \in [Channels -> Indexes]
      /\ channels_' \in [Fds -> Channels \union {None}]
      /\ epoll' \in [Fds -> Entries \union {None}]
  BY <1>1, <1>3, <1>5
<1>8. /\ index_'[c] = "kNew"
      /\ \A d \in Channels : d # c => index_'[d] = index_[d]
      /\ channels_'[fd[c]] = None
      /\ \A f \in Fds : f # fd[c] => channels_'[f] = channels_[f]
      /\ epoll'[fd[c]] = None
      /\ \A f \in Fds : f # fd[c] => epoll'[f] = epoll[f]
  BY <1>1, <1>2, <1>3, <1>5
<1>9. RecordsAgree'
  <2> SUFFICES ASSUME NEW d \in Channels
               PROVE  /\ index_'[d] = "kAdded" <=> epoll'[fd[d]] = Entry(d, events_[d])
                      /\ index_'[d] # "kNew" <=> channels_'[fd[d]] = d
    BY <1>1 DEF RecordsAgree
  <2>1. CASE fd[d] = fd[c]
    <3>1. index_'[d] = "kNew"
      BY <2>1, <1>6, <1>8
    <3>2. Entry(d, events_[d]) \in Entries
      BY <1>3
    <3> QED
      BY <2>1, <3>1, <3>2, <1>8, NoneAssumption
  <2>2. CASE fd[d] # fd[c]
    BY <2>2, <1>8, FdAssumption DEF IInv, Records, RecordsAgree
  <2> QED
    BY <2>1, <2>2
<1>10. EntriesOwned'
  <2> SUFFICES ASSUME NEW f \in Fds, epoll'[f] # None
               PROVE  \E d \in Channels : /\ fd[d] = f
                                          /\ index_'[d] = "kAdded"
                                          /\ epoll'[f] = Entry(d, events_[d])
    BY <1>1 DEF EntriesOwned
  <2>1. f # fd[c] /\ epoll'[f] = epoll[f]
    BY <1>8
  <2>2. PICK d \in Channels : /\ fd[d] = f
                              /\ index_[d] = "kAdded"
                              /\ epoll[f] = Entry(d, events_[d])
    BY <2>1 DEF IInv, Records, EntriesOwned
  <2> QED
    BY <2>1, <2>2, <1>8
<1>11. MapOwned'
  <2> SUFFICES ASSUME NEW f \in Fds, channels_'[f] # None
               PROVE  index_'[channels_'[f]] # "kNew" /\ fd[channels_'[f]] = f
    BY DEF MapOwned
  <2>1. f # fd[c] /\ channels_'[f] = channels_[f] /\ channels_[f] \in Channels
    BY <1>3, <1>8
  <2>2. index_[channels_[f]] # "kNew" /\ fd[channels_[f]] = f
    BY <2>1 DEF IInv, Records, MapOwned
  <2> QED
    BY <2>1, <2>2, <1>8
<1>12. OpenIfKnown'
  BY <1>1, <1>3, <1>8 DEF IInv, Owners, OpenIfKnown
<1> QED
  BY <1>1, <1>5, <1>7, <1>9, <1>10, <1>11, <1>12 DEF Records, NoCtlFails

\* An update of a channel that is not active, or that only adds events, keeps
\* everything; the rest of the state stays as it is.
LEMMA UpdateKeepsInv ==
  ASSUME IInv, NEW c \in Channels, NEW mask \in SUBSET Events,
         life[c] = "open", UpdateChannel(c, mask), LoopUnchanged,
         IsActive(c) => mask # {} /\ events_[c] \subseteq mask
  PROVE  IInv'
<1>1. /\ Records'
      /\ life' = life
      /\ events_' = [events_ EXCEPT ![c] = mask]
      /\ index_' \in [Channels -> Indexes]
      /\ channels_' \in [Fds -> Channels \union {None}]
      /\ epoll' \in [Fds -> Entries \union {None}]
      /\ failed' \in BOOLEAN
      /\ OpenIfKnown'
  BY UpdateKeepsRecords
<1>2. listSize' = listSize /\ condition' = condition /\ pc' = pc /\ active' = active
  BY DEF LoopUnchanged
<1>3. TypeOK'
  <2>1. events_' \in [Channels -> SUBSET Events]
    BY <1>1 DEF IInv, TypeOK
  <2> QED
    BY <1>1, <1>2, <2>1 DEF IInv, TypeOK
<1>4. Owners'
  BY <1>1 DEF IInv, Owners, OneOwner
<1>5. ActiveIsRegistered'
  <2> SUFFICES ASSUME NEW a \in active
               PROVE  /\ life[a.channel] = "open" /\ index_'[a.channel] = "kAdded"
                      /\ a.revents_ # {}
                      /\ a.revents_ \subseteq events_'[a.channel] \union Errors
    BY <1>1, <1>2 DEF ActiveIsRegistered
  <2>1. /\ a.channel \in Channels /\ life[a.channel] = "open"
        /\ index_[a.channel] = "kAdded" /\ a.revents_ # {}
        /\ a.revents_ \subseteq events_[a.channel] \union Errors
    BY DEF IInv, TypeOK, Walk, ActiveIsRegistered
  <2>2. CASE a.channel = c
    <3>1. mask # {} /\ events_[c] \subseteq mask
      BY <2>2 DEF IsActive
    <3>2. events_'[c] = mask
      BY <1>1 DEF IInv, TypeOK
    <3>3. index_'[c] = "kAdded"
      BY <2>1, <2>2, <3>1 DEF UpdateChannel, UpdateOp, IndexAfter, IInv, TypeOK
    <3> QED
      BY <2>1, <2>2, <3>1, <3>2, <3>3
  <2>3. CASE a.channel # c
    BY <2>1, <2>3, <1>1 DEF UpdateChannel, IInv, TypeOK
  <2> QED
    BY <2>2, <2>3
<1>6. ActiveInEvents'
  BY <1>2 DEF IInv, Walk, ActiveInEvents
<1> QED
  BY <1>1, <1>3, <1>4, <1>5, <1>6 DEF IInv, Walk

-----------------------------------------------------------------------------
(* The initial states and the steps.                                       *)

\* An empty poller satisfies the invariant.
LEMMA InitInv == Init => IInv
<1> SUFFICES ASSUME Init PROVE IInv
  OBVIOUS
<1>1. TypeOK
  <2>1. kInitEventListSize \in Nat \ {0} /\ kInitEventListSize <= kInitEventListSize
    BY FdsAssumption
  <2>2. /\ events_ \in [Channels -> SUBSET Events]
        /\ condition \in [Fds -> SUBSET Conditions]
        /\ index_ \in [Channels -> Indexes]
        /\ life \in [Channels -> {"unborn", "open", "removed", "closed"}]
    BY DEF Init
  <2>3. /\ channels_ \in [Fds -> Channels \union {None}]
        /\ epoll \in [Fds -> Entries \union {None}]
        /\ failed \in BOOLEAN
        /\ active \subseteq [channel : Channels, revents_ : SUBSET Conditions]
    BY DEF Init
  <2> QED
    BY <2>1, <2>2, <2>3 DEF Init, TypeOK
<1>2. Records
  <2>1. ASSUME NEW c \in Channels
        PROVE  None # Entry(c, {}) /\ None # c
    <3>1. Entry(c, {}) \in Entries
      OBVIOUS
    <3> QED
      BY <3>1, NoneAssumption
  <2>2. RecordsAgree
    BY <2>1, FdAssumption DEF Init, RecordsAgree
  <2>3. EntriesOwned /\ MapOwned /\ NoCtlFails
    BY DEF Init, EntriesOwned, MapOwned, NoCtlFails
  <2> QED
    BY <2>2, <2>3 DEF Records
<1>3. Owners
  BY DEF Init, Owners, OpenIfKnown, OneOwner
<1>4. Walk
  BY DEF Init, Walk, ActiveInEvents, ActiveIsRegistered
<1> QED
  BY <1>1, <1>2, <1>3, <1>4 DEF IInv

\* A channel is made for a descriptor that no live channel has.
LEMMA CreateInv ==
  ASSUME IInv, NEW c \in Channels, Create(c) PROVE IInv'
<1>1. /\ life[c] = "unborn"
      /\ \A d \in Channels : fd[d] = fd[c] => life[d] \in {"unborn", "closed"}
      /\ life' = [life EXCEPT ![c] = "open"]
      /\ UNCHANGED <<events_, index_, channels_, epoll, failed>>
      /\ UNCHANGED <<listSize, condition, pc, active>>
  BY DEF Create, LoopUnchanged
<1>2. TypeOK'
  BY <1>1 DEF IInv, TypeOK
<1>3. life \in [Channels -> {"unborn", "open", "removed", "closed"}]
  BY DEF IInv, TypeOK
<1>4. Records'
  BY <1>1 DEF IInv, Records, RecordsAgree, NoCtlFails, EntriesOwned, MapOwned
<1>5. Owners'
  BY <1>1, <1>3 DEF IInv, Owners, OpenIfKnown, OneOwner
<1>6. Walk'
  BY <1>1, <1>3 DEF IInv, TypeOK, Walk, ActiveInEvents, ActiveIsRegistered
<1> QED
  BY <1>2, <1>4, <1>5, <1>6 DEF IInv

\* removeChannel on any channel.
LEMMA RemoveInv ==
  ASSUME IInv, NEW c \in Channels, Remove(c) PROVE IInv'
<1>1. /\ Records'
      /\ life' = [life EXCEPT ![c] = "removed"]
      /\ events_' = events_
      /\ index_' \in [Channels -> Indexes]
      /\ channels_' \in [Fds -> Channels \union {None}]
      /\ epoll' \in [Fds -> Entries \union {None}]
      /\ failed' \in BOOLEAN
      /\ OpenIfKnown'
  BY RemoveKeepsRecords DEF Remove
<1>2. /\ life[c] = "open"
      /\ pc = "functors" /\ pc' = pc /\ active' = active
      /\ listSize' = listSize /\ condition' = condition
  BY DEF Remove, MayRemove, LoopUnchanged
<1>3. active = {}
  BY <1>2 DEF IInv, Walk, ActiveInEvents
<1>4. life \in [Channels -> {"unborn", "open", "removed", "closed"}]
  BY DEF IInv, TypeOK
<1>5. TypeOK'
  BY <1>1, <1>2 DEF IInv, TypeOK
<1>6. OneOwner'
  BY <1>1, <1>2, <1>4 DEF IInv, Owners, OneOwner
<1>7. Walk'
  BY <1>2, <1>3 DEF Walk, ActiveInEvents, ActiveIsRegistered
<1> QED
  BY <1>1, <1>5, <1>6, <1>7 DEF IInv, Owners

\* The kernel forgets a descriptor nobody is registered on.
LEMMA CloseInv ==
  ASSUME IInv, NEW c \in Channels, Close(c) PROVE IInv'
<1>1. /\ life[c] = "removed"
      /\ life' = [life EXCEPT ![c] = "closed"]
      /\ epoll' = [epoll EXCEPT ![fd[c]] = None]
      /\ condition' = [condition EXCEPT ![fd[c]] = {}]
      /\ UNCHANGED <<events_, index_, channels_, failed, listSize, pc, active>>
  BY DEF Close
<1>2. /\ life \in [Channels -> {"unborn", "open", "removed", "closed"}]
      /\ epoll \in [Fds -> Entries \union {None}]
      /\ fd[c] \in Fds
  BY FdAssumption DEF IInv, TypeOK
<1>3. epoll[fd[c]] = None
  <2> SUFFICES ASSUME epoll[fd[c]] # None PROVE FALSE
    OBVIOUS
  <2>1. PICK d \in Channels : fd[d] = fd[c] /\ index_[d] = "kAdded"
    BY <1>2 DEF IInv, Records, EntriesOwned
  <2>2. life[d] = "open" /\ d # c
    BY <1>1, <2>1 DEF IInv, Owners, OpenIfKnown
  <2> QED
    BY <1>1, <2>1, <2>2 DEF IInv, Owners, OneOwner
<1>4. epoll' = epoll
  BY <1>1, <1>2, <1>3
<1>5. TypeOK'
  BY <1>1, <1>4 DEF IInv, TypeOK
<1>6. Records'
  BY <1>1, <1>4 DEF IInv, Records, RecordsAgree, NoCtlFails, EntriesOwned, MapOwned
<1>7. Owners'
  BY <1>1, <1>2 DEF IInv, Owners, OpenIfKnown, OneOwner
<1>8. Walk'
  BY <1>1, <1>2 DEF IInv, TypeOK, Walk, ActiveInEvents, ActiveIsRegistered
<1> QED
  BY <1>5, <1>6, <1>7, <1>8 DEF IInv

\* What epoll_wait reports are events that an open channel in the kernel's list
\* wants, and errors.
LEMMA PollInv ==
  ASSUME IInv, Poll PROVE IInv'
<1>1. PICK fs \in SUBSET ReadyFds :
        Cardinality(fs) <= listSize /\ Report(fs)
  BY DEF Poll
<1>2. /\ active' = {Active(epoll[f].ptr, Pending(f)) : f \in fs}
      /\ listSize' = Lengthened(Cardinality(fs))
      /\ pc' = "events"
      /\ UNCHANGED <<life, events_, index_, channels_, epoll, failed, condition>>
  BY <1>1 DEF Poll, Report, channelVars
<1>3. fs \in SUBSET Fds
  BY DEF ReadyFds
<1>4. ASSUME NEW f \in fs
      PROVE  /\ epoll[f].ptr \in Channels
             /\ life[epoll[f].ptr] = "open"
             /\ index_[epoll[f].ptr] = "kAdded"
             /\ Pending(f) \subseteq events_[epoll[f].ptr] \union Errors
             /\ Pending(f) \subseteq Conditions
             /\ Pending(f) # {}
  <2>1. epoll[f] # None /\ Pending(f) # {} /\ f \in Fds
    BY DEF ReadyFds, Pending
  <2>2. PICK c \in Channels : index_[c] = "kAdded" /\ epoll[f] = Entry(c, events_[c])
    BY <2>1 DEF IInv, Records, EntriesOwned
  <2>3. epoll[f].ptr = c /\ epoll[f].mask = events_[c]
    BY <2>2
  <2>4. life[c] = "open" /\ events_[c] \subseteq Events
    BY <2>2 DEF IInv, TypeOK, Owners, OpenIfKnown
  <2> QED
    BY <2>1, <2>2, <2>3, <2>4 DEF Pending, Conditions
<1>5. TypeOK'
  <2>1. active' \subseteq [channel : Channels, revents_ : SUBSET Conditions]
    BY <1>2, <1>4 DEF Active
  <2>2. TypeOK
    BY DEF IInv
  <2>3. /\ listSize' \in Nat \ {0}
        /\ listSize' <= kInitEventListSize \/ listSize' <= 2 * Cardinality(Fds)
    BY <1>1, <1>2, <1>3, <2>2, ListBounded
  <2> QED
    BY <1>2, <2>1, <2>2, <2>3 DEF TypeOK
<1>6. Records' /\ Owners'
  BY <1>2 DEF IInv, Records, RecordsAgree, NoCtlFails, EntriesOwned, MapOwned,
              Owners, OpenIfKnown, OneOwner
<1>7. ActiveIsRegistered'
  BY <1>2, <1>4 DEF ActiveIsRegistered, Active
<1>8. ActiveInEvents'
  BY <1>2 DEF ActiveInEvents
<1> QED
  BY <1>5, <1>6, <1>7, <1>8 DEF IInv, Walk

\* The other steps of the loop and of the world touch no record.
LEMMA LoopInv ==
  ASSUME IInv,
         \/ EndOfEvents \/ EndOfFunctors
         \/ \E c \in Channels : HandleEvent(c)
         \/ \E f \in Fds : ConditionChanges(f)
  PROVE  IInv'
<1>1. /\ UNCHANGED channelVars
      /\ listSize' = listSize
      /\ pc' \in {"poll", "events", "functors"}
      /\ active' \subseteq active
  BY DEF EndOfEvents, EndOfFunctors, HandleEvent, ConditionChanges, IInv, TypeOK
<1>2. condition' \in [Fds -> SUBSET Conditions]
  BY DEF EndOfEvents, EndOfFunctors, HandleEvent, ConditionChanges, IInv, TypeOK
<1>3. pc' # "events" => active' = {}
  BY DEF EndOfEvents, EndOfFunctors, HandleEvent, ConditionChanges, IInv, Walk,
         ActiveInEvents
<1>4. TypeOK'
  BY <1>1, <1>2 DEF IInv, TypeOK, channelVars
<1>5. Records' /\ Owners'
  BY <1>1 DEF channelVars, IInv, Records, RecordsAgree, NoCtlFails, EntriesOwned,
              MapOwned, Owners, OpenIfKnown, OneOwner
<1>6. Walk'
  BY <1>1, <1>3 DEF channelVars, IInv, Walk, ActiveInEvents, ActiveIsRegistered
<1> QED
  BY <1>4, <1>5, <1>6 DEF IInv

\* Every step keeps the invariant.
LEMMA StepInv == IInv /\ [Next]_vars => IInv'
<1> SUFFICES ASSUME IInv, [Next]_vars PROVE IInv'
  OBVIOUS
<1>1. ASSUME NEW c \in Channels, NEW e \in Events, Enable(c, e) PROVE IInv'
  <2>1. events_[c] \union {e} \in SUBSET Events
    BY DEF IInv, TypeOK
  <2> QED
    BY <1>1, <2>1, UpdateKeepsInv DEF Enable
<1>2. ASSUME NEW c \in Channels, NEW es \in SUBSET Events, Disable(c, es)
      PROVE  IInv'
  <2>1. events_[c] \ es \in SUBSET Events
    BY DEF IInv, TypeOK
  <2> QED
    BY <1>2, <2>1, UpdateKeepsInv DEF Disable
<1>3. CASE OwnerStep
  BY <1>1, <1>2, <1>3, CreateInv, RemoveInv, CloseInv DEF OwnerStep
<1>4. CASE LoopStep
  BY <1>4, PollInv, LoopInv DEF LoopStep
<1>5. CASE \E f \in Fds : ConditionChanges(f)
  BY <1>5, LoopInv
<1>6. CASE UNCHANGED vars
  BY <1>6 DEF vars, channelVars, IInv, TypeOK, Records, RecordsAgree, NoCtlFails,
              EntriesOwned, MapOwned, Owners, OpenIfKnown, OneOwner, Walk,
              ActiveInEvents, ActiveIsRegistered
<1> QED
  BY <1>3, <1>4, <1>5, <1>6 DEF Next

-----------------------------------------------------------------------------
(* The theorems.                                                           *)

\* The invariant holds in every reachable state of the poller, whatever the
\* owners of the channels and the kernel do.
THEOREM Inductive == SafeSpec => []IInv
<1>1. Init => IInv
  BY InitInv
<1>2. IInv /\ [Next]_vars => IInv'
  BY StepInv
<1> QED
  BY <1>1, <1>2, PTL DEF SafeSpec

\* Every variable of the poller keeps its type, and the list of events its
\* bound (EPollPoller::poll doubles it only when it was full).
THEOREM TypeCorrect == SafeSpec => []TypeOK
<1>1. IInv => TypeOK
  BY DEF IInv
<1> QED
  BY <1>1, Inductive, PTL

\* index_, channels_ and the kernel's list agree, through every update,
\* removal and reuse of a descriptor (updateChannel, removeChannel).
THEOREM RecordsAlwaysAgree == SafeSpec => []RecordsAgree
<1>1. IInv => RecordsAgree
  BY DEF IInv, Records
<1> QED
  BY <1>1, Inductive, PTL

\* No epoll_ctl adds what is there or changes what is not (update would end
\* the process).
THEOREM EveryCtlSucceeds == SafeSpec => []NoCtlFails
<1>1. IInv => NoCtlFails
  BY DEF IInv, Records
<1> QED
  BY <1>1, Inductive, PTL

\* What the loop walks are open channels, still in the kernel's list, that want
\* what was reported of them unless it is an error, which is reported unasked
\* (EventLoop::loop, fillActiveChannels, Channel::handleEventWithGuard).
THEOREM ActiveAreRegistered == SafeSpec => []ActiveIsRegistered
<1>1. IInv => ActiveIsRegistered
  BY DEF IInv, Walk
<1> QED
  BY <1>1, Inductive, PTL
=============================================================================
