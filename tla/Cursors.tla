-------------------------------- MODULE Cursors --------------------------------
(***************************************************************************)
(* The live cursor of one person seen by another (web                      *)
(* features/realtime/CursorsLayer.tsx, api realtime/cursors.ts and         *)
(* rate-limit.ts): the sender limits itself and sends the last position of *)
(* a burst when the interval ends, the server drops what exceeds its own   *)
(* limit and relays without waiting for slow receivers, and the receiver   *)
(* hides a cursor it has not heard of for a while.                         *)
(***************************************************************************)
EXTENDS Naturals, Sequences, FiniteSets

CONSTANTS Points,    \* positions in the image
          Interval,  \* SEND_INTERVAL_MS, in ticks
          PerWindow, \* cursors the server accepts in a window
          Stale,     \* STALE_MS, in ticks
          Jitter,    \* bound: most ticks a message is on its way
          MaxLeaves  \* bound: times the sender leaves the room

\* The window of the server holds PerWindow intervals.
Window == Interval * PerWindow
None == "none"
NoTimer == Interval + 1

VARIABLES
  pointer,  \* the last position pushed, or None
  throttle, \* ticks since the last send, the pending position, the timer
  joined,   \* the sender is in the room
  wire,     \* messages on their way to the server, in order
  times,    \* how long ago the server accepted the last ones
  remote,   \* what the receiver shows: a position and its age, or None
  running,  \* the receiver has a frame scheduled
  even,     \* no message took longer than another, and the sender never left
  missed,   \* the last position sent did not reach the receiver
  leaves    \* bound

vars == <<pointer, throttle, joined, wire, times, remote, running, even, missed, leaves>>
sender == <<pointer, throttle, joined, leaves>>
receiver == <<remote, running>>

Fresh == [since |-> Interval, pending |-> None, timer |-> NoTimer]
Hidden == [at |-> None, age |-> 0]

TypeOK ==
  /\ pointer \in Points \cup {None} /\ joined \in BOOLEAN
  /\ throttle \in [since : 0..Interval, pending : Points \cup {None}, timer : 0..NoTimer]
  /\ wire \in Seq([at : Points, age : 0..Jitter])
  /\ times \in Seq(0..Window + 1) /\ Len(times) <= PerWindow
  /\ remote \in [at : Points \cup {None}, age : 0..Stale + 1]
  /\ running \in BOOLEAN /\ even \in BOOLEAN /\ missed \in BOOLEAN /\ leaves \in 0..MaxLeaves

Init ==
  /\ pointer = None /\ throttle = Fresh /\ joined = TRUE /\ wire = <<>> /\ times = <<>>
  /\ remote = Hidden /\ running = FALSE /\ even = TRUE /\ missed = FALSE /\ leaves = 0

Sent(p) == Append(wire, [at |-> p, age |-> 0])

\* What waits for the end of the interval; the slip lets it go.
NoTrailing(p) == [throttle EXCEPT !.pending = None]
Waiting(p) ==
  [throttle EXCEPT !.pending = p, !.timer = IF @ = NoTimer THEN Interval - throttle.since ELSE @]

\* Sending at once forgets the timer.  In the code one that was due still fires;
\* moves come once a frame, so it does before the next and finds nothing pending.
Push(p) ==
  /\ joined /\ pointer' = p
  /\ IF throttle.since >= Interval
       THEN wire' = Sent(p) /\ throttle' = [throttle EXCEPT !.since = 0, !.pending = None, !.timer = NoTimer]
            /\ missed' = TRUE
       ELSE throttle' = Waiting(p) /\ UNCHANGED <<wire, missed>>
  /\ UNCHANGED <<joined, times, receiver, even, leaves>>

Flush ==
  /\ throttle.timer = 0 /\ wire' = Sent(throttle.pending)
  /\ throttle' = [since |-> 0, pending |-> None, timer |-> NoTimer] /\ missed' = TRUE
  /\ UNCHANGED <<pointer, joined, times, receiver, even, leaves>>

\* Leaving cancels what was pending; joining starts with a new limit.
Leave ==
  /\ joined /\ leaves < MaxLeaves /\ leaves' = leaves + 1
  /\ joined' = FALSE /\ throttle' = Fresh /\ pointer' = None /\ even' = FALSE
  /\ UNCHANGED <<wire, times, receiver, missed>>
Join ==
  /\ ~joined /\ joined' = TRUE
  /\ UNCHANGED <<pointer, throttle, leaves, wire, times, receiver, even, missed>>

\* The limit of the server forgets the oldest times, the first k, while they are a window
\* old; the slip keeps one of exactly a window ago.
ShiftedLater(k) ==
  (\A i \in 1..k : times[i] > Window) /\ (k < Len(times) => times[k + 1] <= Window)
Shifted(k) ==
  (\A i \in 1..k : times[i] >= Window) /\ (k < Len(times) => times[k + 1] < Window)

\* A relayed cursor may be lost on its way to a receiver that is behind.
Relay(received) ==
  /\ wire # <<>> /\ wire' = Tail(wire)
  /\ even' = (even /\ wire[1].age = Jitter)
  /\ \E k \in 0..Len(times) :
       LET recent == SubSeq(times, k + 1, Len(times))
           dropped == Len(recent) >= PerWindow
       IN  /\ Shifted(k)
           /\ times' = IF dropped THEN recent ELSE Append(recent, 0)
           /\ IF received /\ ~dropped
                THEN /\ remote' = [at |-> wire[1].at, age |-> 0] /\ running' = TRUE
                     /\ missed' = (Len(wire) > 1)
                ELSE UNCHANGED <<receiver, missed>>
  /\ UNCHANGED sender

\* A frame of the receiver: it schedules the next while it shows a cursor.
\* The slip schedules none.
OnlyOnce(shown) == FALSE
Again(shown) == shown.at # None
Frame ==
  /\ running
  /\ remote' = IF remote.at # None /\ remote.age > Stale THEN Hidden ELSE remote
  /\ running' = Again(remote')
  /\ UNCHANGED <<sender, wire, times, even, missed>>

\* A tick: a timer is not later than its time, nor a message than Jitter.
Tick ==
  /\ throttle.timer # 0 /\ \A i \in 1..Len(wire) : wire[i].age < Jitter
  /\ throttle' = [throttle EXCEPT !.since = IF @ < Interval THEN @ + 1 ELSE @,
                                  !.timer = IF @ = NoTimer THEN NoTimer ELSE @ - 1]
  /\ wire' = [i \in DOMAIN wire |-> [wire[i] EXCEPT !.age = @ + 1]]
  /\ times' = [i \in DOMAIN times |-> IF times[i] < Window + 1 THEN times[i] + 1 ELSE times[i]]
  /\ remote' = IF remote.at # None /\ remote.age <= Stale THEN [remote EXCEPT !.age = @ + 1] ELSE remote
  /\ UNCHANGED <<pointer, joined, leaves, running, even, missed>>

Next ==
  \/ \E p \in Points : Push(p)
  \/ Flush \/ Leave \/ Join
  \/ \E received \in BOOLEAN : Relay(received)
  \/ Frame \/ Tick

Fairness == WF_vars(Tick) /\ WF_vars(Flush) /\ WF_vars(Frame) /\ WF_vars(Relay(TRUE) \/ Relay(FALSE))

-----------------------------------------------------------------------------
\* The limits of both sides agree: the server accepts every cursor of a
\* sender that never left, when its messages all take the same time.  With
\* jitter it may drop one, the last of a burst too.
NothingDropped ==
  even' /\ Len(wire') < Len(wire) => times' # <<>> /\ times'[Len(times')] = 0

\* The others see where the pointer stopped: once nothing is pending or on
\* its way, and unless that message was lost, the receiver shows the last
\* position pushed or, after a while without moving, none.
StopIsShown ==
  joined /\ pointer # None /\ throttle.pending = None /\ wire = <<>> /\ ~missed
    => remote.at \in {pointer, None}

\* The cursor of someone who leaves for good is hidden in the end.
LeftIsHidden == []<>(joined \/ remote.at = None)
=============================================================================
