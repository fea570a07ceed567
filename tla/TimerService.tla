---------------------------- MODULE TimerService ----------------------------
(***************************************************************************)
(* What an EventLoop promises the code that calls runAt, runAfter,         *)
(* runEvery and cancelTimer (EventLoop.h): a callback runs when its timer  *)
(* is due and never before, once for every time it is due, the earlier     *)
(* ones first; a repeating timer comes back an interval later, unless it   *)
(* was cancelled; and one that is cancelled before it first came back      *)
(* never does.  The timerfd, the threads and the identity that cancelTimer *)
(* is given do not show.                                                   *)
(***************************************************************************)
EXTENDS Integers, SequencesExt

VARIABLES
  time,          \* the clock
  used,          \* the timers created so far, by number
  waiting,       \* those that wait: [id, expire, interval]
  firing,        \* those taken because they are due, to be run in this order
  ran,           \* those of the same batch that have run
  taken,         \* when the batch was taken; 0 if there is none
  repeated,      \* the timers that came back at least once
  stopped,       \* the timers cancelled before they first came back
  asked          \* the timers cancelled later

batch == <<firing, ran, taken>>
vars == <<time, used, waiting, batch, repeated, stopped, asked>>

Init ==
  /\ time = 0
  /\ used = {}
  /\ waiting = {}
  /\ firing = <<>>
  /\ ran = {}
  /\ taken = 0
  /\ repeated = {}
  /\ stopped = {}
  /\ asked = {}

Pass ==
  /\ time' > time
  /\ UNCHANGED <<used, waiting, batch, repeated, stopped, asked>>

\* A new timer, due now or later.
SetTimer(t) ==
  /\ t.id \notin used
  /\ t.expire >= time
  /\ used' = used \union {t.id}
  /\ waiting' = waiting \union {t}
  /\ UNCHANGED <<time, batch, repeated, stopped, asked>>

\* Timers that are due are taken, the earlier ones first.
Take ==
  /\ firing = <<>> /\ ran = {}
  /\ \A t \in ToSet(firing') : t \in waiting /\ t.expire <= time
  /\ \A i, j \in DOMAIN firing' : i < j =>
       firing'[i].expire <= firing'[j].expire /\ firing'[i] # firing'[j]
  /\ waiting' = waiting \ ToSet(firing')
  /\ taken' = time
  /\ UNCHANGED <<time, used, ran, repeated, stopped, asked>>

\* A callback begins.
Fire ==
  /\ firing # <<>>
  /\ ran' = ran \union {Head(firing)}
  /\ firing' = Tail(firing)
  /\ UNCHANGED <<time, used, waiting, taken, repeated, stopped, asked>>

Repeated(t) == [t EXCEPT !.expire = taken + t.interval]

\* The end of a batch: the repeating timers come back.
Finish(back) ==
  /\ firing = <<>>
  /\ \A t \in back : t.interval > 0 /\ t.id \notin stopped
  /\ \A t \in ran \ back : t.interval = 0 \/ t.id \in stopped \union asked
  /\ waiting' = waiting \union {Repeated(t) : t \in back}
  /\ repeated' = repeated \union {t.id : t \in back}
  /\ ran' = {}
  /\ taken' = 0
  /\ UNCHANGED <<time, used, firing, stopped, asked>>

Others(id) == {t \in waiting : t.id # id}

\* A timer is cancelled.  One that came back may not notice.
Cancel(id) ==
  /\ IF id \in repeated
       THEN /\ asked' = asked \union {id}
            /\ waiting' \in {waiting, Others(id)}
            /\ UNCHANGED stopped
       ELSE /\ stopped' = stopped \union {id}
            /\ waiting' = Others(id)
            /\ UNCHANGED asked
  /\ UNCHANGED <<time, used, batch, repeated>>

Next ==
  \/ Pass
  \/ \E t \in waiting' : SetTimer(t)
  \/ Take
  \/ Fire
  \/ \E back \in SUBSET ran : Finish(back)
  \/ \E id \in used : Cancel(id)

Spec == Init /\ [][Next]_vars
=============================================================================
