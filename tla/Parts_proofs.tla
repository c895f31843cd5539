---------------------------- MODULE Parts_proofs -----------------------------
(***************************************************************************)
(* Proofs about the components of a tab that run by themselves (MCParts):  *)
(* the buttons, forms, editors, lists and cursors, for any requests, any   *)
(* sizes and any bounds.  Then the theorems of the specification, with     *)
(* what Server_proofs shows of the components of the server.               *)
(***************************************************************************)
EXTENDS Server_proofs

-----------------------------------------------------------------------------
(* The vote button: x1 .. x7 are votes, prop, shown, before, click, stale  *)
(* and clicks.                                                             *)

\* The button: the cache never shows a vote of others that is not there yet.
VotesInv ==
  /\ Button!TypeOK
  /\ x2.others <= x1.others
  /\ x5.pc \in {"idle", "refreshing"} /\ x2 = x1 => x3 = x1 \/ x6

ClickRecords == [pc : {"idle", "sent", "answered", "refused", "refreshing"}, answer : Button!States]

\* The records of the button.
LEMMA VoteRecords ==
  /\ Button!None \in Button!States /\ Button!None.others = 0
  /\ Button!Idle \in ClickRecords /\ Button!Idle.pc = "idle"
  /\ \A s \in Button!States : s.others \in 0..MaxVoters /\ s.mine \in BOOLEAN
  /\ \A s \in Button!States, m \in BOOLEAN :
       /\ [s EXCEPT !.mine = m] \in Button!States
       /\ [s EXCEPT !.mine = m].others = s.others
  /\ \A s \in Button!States : s.others < MaxVoters =>
       [s EXCEPT !.others = @ + 1] \in Button!States /\ [s EXCEPT !.others = @ + 1].others = s.others + 1
BY TabBounds DEF Button!None, Button!States, Button!Idle, ClickRecords

\* At first nobody voted.
LEMMA VotesInit == Button!Init => VotesInv
<1> SUFFICES ASSUME Button!Init PROVE VotesInv
  OBVIOUS
<1>1. x1 = Button!None /\ x2 = Button!None /\ x3 = Button!None /\ x4 = Button!None /\ x5 = Button!Idle /\ x7 = 0
  BY DEF Button!Init
<1>2. x6 \in BOOLEAN
  BY DEF Button!Init
<1>3. x7 \in 0..MaxClicks /\ x2.others <= x1.others /\ x3 = x1
  BY <1>1, VoteRecords, TabBounds
<1> QED
  BY <1>1, <1>2, <1>3, VoteRecords DEF VotesInv, Button!TypeOK, ClickRecords

\* Every step of the button keeps the invariant.
LEMMA VotesSteps == ASSUME VotesInv, Button!Next PROVE VotesInv'
<1>0. /\ x1 \in Button!States /\ x2 \in Button!States /\ x3 \in Button!States /\ x4 \in Button!States
      /\ x5 \in ClickRecords /\ x6 \in BOOLEAN /\ x7 \in 0..MaxClicks
      /\ x2.others \in Nat /\ x1.others \in Nat
  BY VoteRecords, TabBounds DEF VotesInv, Button!TypeOK, ClickRecords
<1>1. CASE Button!OtherVotes
  <2>1. x1' \in Button!States /\ x1'.others = x1.others + 1
    BY <1>0, <1>1, VoteRecords DEF Button!OtherVotes
  <2>2. UNCHANGED <<x2, x3, x4, x5, x6, x7>>
    BY <1>1 DEF Button!OtherVotes
  <2>3. x2' # x1' /\ x2'.others <= x1'.others
    BY <1>0, <2>1, <2>2 DEF VotesInv
  <2> QED
    BY <1>0, <2>1, <2>2, <2>3 DEF VotesInv, Button!TypeOK, ClickRecords
<1>2. CASE Button!CacheFollows
  <2>1. x2' = x1 /\ x3' = x1 /\ UNCHANGED <<x1, x4, x5, x7>>
    BY <1>2 DEF Button!CacheFollows, Button!Follow
  <2>2. x6' \in BOOLEAN
    BY <1>0, <1>2 DEF Button!CacheFollows, Button!Follow
  <2> QED
    BY <1>0, <2>1, <2>2 DEF VotesInv, Button!TypeOK, ClickRecords
<1>3. CASE Button!Toggle
  <2>1. x3' \in Button!States
    BY <1>0, <1>3 DEF Button!Toggle, Button!States
  <2>2. x5'.pc = "sent" /\ x5' \in ClickRecords
    <3> DEFINE answer == [others |-> 0, mine |-> ~x3.mine]
    <3>1. x5' = [pc |-> "sent", answer |-> answer]
      BY <1>3 DEF Button!Toggle, Button!Idle, Button!None
    <3>2. answer \in Button!States
      BY <1>0, TabBounds DEF Button!States
    <3> HIDE DEF answer
    <3> QED
      BY <3>1, <3>2 DEF ClickRecords
  <2>3. x4' \in Button!States /\ x7' \in 0..MaxClicks /\ UNCHANGED <<x1, x2, x6>>
    BY <1>0, <1>3, TabBounds DEF Button!Toggle
  <2> QED
    BY <1>0, <2>1, <2>2, <2>3 DEF VotesInv, Button!TypeOK, ClickRecords
<1>4. CASE Button!Voted
  <2>1. x5.answer.mine \in BOOLEAN
    BY <1>0 DEF ClickRecords, Button!States
  <2>2. x1' \in Button!States /\ x1'.others = x1.others
    BY <1>0, <1>4, <2>1, VoteRecords DEF Button!Voted
  <2>3. x5' \in ClickRecords /\ x5'.pc = "answered"
    BY <1>4, <2>2 DEF Button!Voted, ClickRecords
  <2> QED
    BY <1>0, <1>4, <2>2, <2>3 DEF Button!Voted, VotesInv, Button!TypeOK, ClickRecords
<1>5. CASE Button!Refuse
  <2>1. x5' \in ClickRecords /\ x5'.pc = "refused"
    BY <1>5, VoteRecords DEF Button!Refuse, Button!Idle, ClickRecords
  <2> QED
    BY <1>0, <1>5, <2>1 DEF Button!Refuse, VotesInv, Button!TypeOK, ClickRecords
<1>6. CASE Button!Answered
  <2>1. x5' \in ClickRecords /\ x5'.pc = "refreshing"
    BY <1>6, VoteRecords DEF Button!Answered, Button!Idle, ClickRecords
  <2>2. x3' = x5.answer /\ x5.answer \in Button!States
    BY <1>0, <1>6 DEF Button!Answered, ClickRecords
  <2>3. UNCHANGED <<x1, x2, x4, x7>> /\ x6' = (x2 = x1 /\ x5.answer # x1)
    BY <1>6 DEF Button!Answered
  <2>4. x6' \in BOOLEAN
    BY <2>3
  <2>5. x2' = x1' => x3' = x1' \/ x6'
    BY <2>2, <2>3
  <2> QED
    BY <1>0, <2>1, <2>2, <2>3, <2>4, <2>5 DEF VotesInv, Button!TypeOK, ClickRecords
<1>7. CASE Button!Refused
  <2>1. UNCHANGED <<x1, x2, x4, x7>> /\ x3' = x4
    BY <1>7 DEF Button!Refused, Button!RolledBack
  <2>2. x6' = (x2 = x1 /\ x4 # x1) /\ x5' = Button!Idle
    BY <1>7 DEF Button!Refused
  <2>3. x6' \in BOOLEAN
    BY <2>2
  <2>4. x2' = x1' => x3' = x1' \/ x6'
    BY <2>1, <2>2
  <2> QED
    BY <1>0, <2>1, <2>2, <2>3, <2>4, VoteRecords DEF VotesInv, Button!TypeOK, ClickRecords
<1>8. CASE Button!Refreshed
  <2>1. x5' = Button!Idle /\ UNCHANGED <<x1, x4, x7>> /\ x5.pc = "refreshing" /\ x2' = x1
    BY <1>8 DEF Button!Refreshed, Button!Follow
  <2>2. x3' \in Button!States /\ x6' \in BOOLEAN /\ (x3' = x1 \/ x6')
    BY <1>0, <1>8 DEF Button!Refreshed, Button!Follow, VotesInv
  <2> QED
    BY <1>0, <2>1, <2>2, VoteRecords DEF VotesInv, Button!TypeOK, ClickRecords
<1> QED
  BY <1>1, <1>2, <1>3, <1>4, <1>5, <1>6, <1>7, <1>8 DEF Button!Next

\* What the invariant says of the button.
LEMMA VotesHold == VotesInv => Button!ShowsVotes
BY DEF VotesInv, Button!ShowsVotes

-----------------------------------------------------------------------------
(* The socket of a tab: x1 .. x11 are signed, age, known, armed,           *)
(* refreshing, sock, sent, retried, cuts, failures and untold.             *)

\* The socket of a tab with a session: the timer that renews its token is set, or a
\* renewal is on its way; and the server knows the token of the tab, is being told, or
\* will not be, because a renewal ended during the handshake.  A handshake sent the token
\* the tab still has, or it was renewed meanwhile; and who retries it has a new one.
SocketInv ==
  /\ Socket!TypeOK
  /\ x4 => x2 <= Socket!Due
  /\ x1 /\ x6 = "connected" =>
       /\ x4 \/ x5
       /\ x2 <= Socket!Due
       /\ x7 \/ x11 \/ x3 = x2
  /\ x6 = "handshake" /\ x3 < Socket!Expired => x2 <= Socket!Due
  /\ x1 /\ x6 = "handshake" => IF x11 THEN x2 <= Socket!Due ELSE x3 = x2
  /\ x1 /\ x8 /\ x6 # "renewing" =>
       /\ x4 \/ x5
       /\ x2 <= Socket!Due

\* At first the socket is connecting.
LEMMA SocketInit == Socket!Init => SocketInv
<1> SUFFICES ASSUME Socket!Init PROVE SocketInv
  OBVIOUS
<1>1. /\ x1 \in BOOLEAN /\ x4 \in BOOLEAN /\ x5 \in BOOLEAN /\ x7 \in BOOLEAN /\ x8 \in BOOLEAN
      /\ x11 \in BOOLEAN
  BY DEF Socket!Init
<1>2. x2 \in Socket!Ages /\ x3 \in Socket!Ages
  BY DEF Socket!Init, Socket!Ages, Socket!Valid, Socket!Due, Socket!Expired, Socket!Past
<1>3. /\ x6 \in {"connecting", "handshake", "connected", "waiting", "renewing", "dropped"}
      /\ x9 \in 0..MaxCuts /\ x10 \in 0..MaxRefused
  BY TabBounds DEF Socket!Init
<1>4. ~x4 /\ ~x8 /\ x6 = "connecting"
  BY DEF Socket!Init
<1> QED
  BY <1>1, <1>2, <1>3, <1>4 DEF SocketInv, Socket!TypeOK

\* Every step keeps the types.
LEMMA SocketTypes == ASSUME Socket!TypeOK, Socket!Next PROVE Socket!TypeOK'
<1>1. x1' \in BOOLEAN /\ x4' \in BOOLEAN
  BY DEF Socket!TypeOK, Socket!Next, Socket!Tick, Socket!TimerFires, Socket!CallRefused,
     Socket!RefreshOk, Socket!RefreshFails, Socket!Deliver, Socket!Expire, Socket!Cut,
     Socket!Retry, Socket!Online, Socket!Handshake, Socket!Connected, Socket!Refused,
     Socket!LogIn, Socket!Renewed
<1>2. x5' \in BOOLEAN /\ x7' \in BOOLEAN
  BY DEF Socket!TypeOK, Socket!Next, Socket!Tick, Socket!TimerFires, Socket!CallRefused,
     Socket!RefreshOk, Socket!RefreshFails, Socket!Deliver, Socket!Expire, Socket!Cut,
     Socket!Retry, Socket!Online, Socket!Handshake, Socket!Connected, Socket!Refused,
     Socket!LogIn, Socket!Renewed
<1>3. x8' \in BOOLEAN /\ x11' \in BOOLEAN
  BY DEF Socket!TypeOK, Socket!Next, Socket!Tick, Socket!TimerFires, Socket!CallRefused,
     Socket!RefreshOk, Socket!RefreshFails, Socket!Deliver, Socket!Expire, Socket!Cut,
     Socket!Retry, Socket!Online, Socket!Handshake, Socket!Connected, Socket!Refused,
     Socket!LogIn, Socket!Renewed
<1>4. x2' \in Socket!Ages
  BY DEF Socket!TypeOK, Socket!Next, Socket!Tick, Socket!TimerFires, Socket!CallRefused,
     Socket!RefreshOk, Socket!RefreshFails, Socket!Deliver, Socket!Expire, Socket!Cut,
     Socket!Retry, Socket!Online, Socket!Handshake, Socket!Connected, Socket!Refused,
     Socket!LogIn, Socket!Renewed, Socket!Older, Socket!Ages, Socket!Valid, Socket!Due,
     Socket!Expired, Socket!Past
<1>5. x3' \in Socket!Ages
  BY DEF Socket!TypeOK, Socket!Next, Socket!Tick, Socket!TimerFires, Socket!CallRefused,
     Socket!RefreshOk, Socket!RefreshFails, Socket!Deliver, Socket!Expire, Socket!Cut,
     Socket!Retry, Socket!Online, Socket!Handshake, Socket!Connected, Socket!Refused,
     Socket!LogIn, Socket!Renewed, Socket!Older, Socket!Ages, Socket!Valid, Socket!Due,
     Socket!Expired, Socket!Past
<1>6. x6' \in {"connecting", "handshake", "connected", "waiting", "renewing", "dropped"}
  BY DEF Socket!TypeOK, Socket!Next, Socket!Tick, Socket!TimerFires, Socket!CallRefused,
     Socket!RefreshOk, Socket!RefreshFails, Socket!Deliver, Socket!Expire, Socket!Cut,
     Socket!Retry, Socket!Online, Socket!Handshake, Socket!Connected, Socket!Refused,
     Socket!LogIn, Socket!Renewed
<1>7. x9' \in 0..MaxCuts
  BY TabBounds DEF Socket!TypeOK, Socket!Next, Socket!Tick, Socket!TimerFires, Socket!CallRefused,
     Socket!RefreshOk, Socket!RefreshFails, Socket!Deliver, Socket!Expire, Socket!Cut,
     Socket!Retry, Socket!Online, Socket!Handshake, Socket!Connected, Socket!Refused,
     Socket!LogIn, Socket!Renewed
<1>8. x10' \in 0..MaxRefused
  BY TabBounds DEF Socket!TypeOK, Socket!Next, Socket!Tick, Socket!TimerFires, Socket!CallRefused,
     Socket!RefreshOk, Socket!RefreshFails, Socket!Deliver, Socket!Expire, Socket!Cut,
     Socket!Retry, Socket!Online, Socket!Handshake, Socket!Connected, Socket!Refused,
     Socket!LogIn, Socket!Renewed
<1> QED
  BY <1>1, <1>2, <1>3, <1>4, <1>5, <1>6, <1>7, <1>8 DEF Socket!TypeOK

\* Every step of the socket keeps the invariant, and drops a tab with a session only when
\* the server could not be told of its renewal.
LEMMA SocketSteps == ASSUME SocketInv, Socket!Next PROVE SocketInv' /\ Socket!SignedIsNotDropped
<1>0. Socket!TypeOK' /\ x2 \in Nat /\ x3 \in Nat
  BY SocketTypes DEF SocketInv, Socket!TypeOK, Socket!Ages, Socket!Valid, Socket!Past
<1>1. CASE Socket!Tick
  BY <1>0, <1>1 DEF Socket!Tick, Socket!Settled, Socket!Older, Socket!Shared, SocketInv, Socket!TypeOK, Socket!SignedIsNotDropped,
     Socket!Valid, Socket!Due, Socket!Expired, Socket!Past
<1>2. CASE Socket!TimerFires
  BY <1>0, <1>2 DEF Socket!TimerFires, SocketInv, Socket!TypeOK, Socket!SignedIsNotDropped,
     Socket!Valid, Socket!Due, Socket!Expired, Socket!Past
<1>3. CASE Socket!CallRefused
  BY <1>0, <1>3 DEF Socket!CallRefused, SocketInv, Socket!TypeOK, Socket!SignedIsNotDropped,
     Socket!Valid, Socket!Due, Socket!Expired, Socket!Past
<1>4. CASE Socket!RefreshOk
  <2>1. x2' = Socket!Valid /\ x4' /\ (x6' = "dropped" => x6 = "dropped")
    BY <1>4 DEF Socket!RefreshOk, Socket!Renewed
  <2>2. x6' = "connected" => x7'
    <3>1. x6' = "connected" => x6 = "connected"
      BY <1>4 DEF Socket!RefreshOk
    <3>2. x6 = "connected" => x7'
      BY <1>0, <1>4 DEF Socket!RefreshOk, Socket!Renewed, Socket!TypeOK
    <3> QED
      BY <3>1, <3>2
  <2>3. x6' = "handshake" => x11'
    <3>1. x6' = "handshake" => x6 = "handshake"
      BY <1>4 DEF Socket!RefreshOk
    <3>2. x6 = "handshake" => x11'
      BY <1>0, <1>4 DEF Socket!RefreshOk, Socket!Renewed, Socket!TypeOK
    <3> QED
      BY <3>1, <3>2
  <2> QED
    BY <1>0, <2>1, <2>2, <2>3 DEF SocketInv, Socket!SignedIsNotDropped, Socket!Valid, Socket!Due
<1>5. CASE Socket!RefreshFails
  BY <1>0, <1>5 DEF Socket!RefreshFails, SocketInv, Socket!TypeOK, Socket!SignedIsNotDropped,
     Socket!Valid, Socket!Due, Socket!Expired, Socket!Past
<1>6. CASE Socket!Deliver
  BY <1>0, <1>6 DEF Socket!Deliver, SocketInv, Socket!TypeOK, Socket!SignedIsNotDropped,
     Socket!Valid, Socket!Due, Socket!Expired, Socket!Past
<1>7. CASE Socket!Expire
  BY <1>0, <1>7 DEF Socket!Expire, SocketInv, Socket!TypeOK, Socket!SignedIsNotDropped,
     Socket!Valid, Socket!Due, Socket!Expired, Socket!Past
<1>8. CASE Socket!Cut
  BY <1>0, <1>8 DEF Socket!Cut, SocketInv, Socket!TypeOK, Socket!SignedIsNotDropped,
     Socket!Valid, Socket!Due, Socket!Expired, Socket!Past
<1>9. CASE Socket!Retry
  BY <1>0, <1>9 DEF Socket!Retry, SocketInv, Socket!TypeOK, Socket!SignedIsNotDropped,
     Socket!Valid, Socket!Due, Socket!Expired, Socket!Past
<1>10. CASE Socket!Online
  BY <1>0, <1>10 DEF Socket!Online, SocketInv, Socket!TypeOK, Socket!SignedIsNotDropped,
     Socket!Valid, Socket!Due, Socket!Expired, Socket!Past
<1>11. CASE Socket!Handshake
  BY <1>0, <1>11 DEF Socket!Handshake, SocketInv, Socket!TypeOK, Socket!SignedIsNotDropped,
     Socket!Valid, Socket!Due, Socket!Expired, Socket!Past
<1>12. CASE Socket!Connected
  <2>1. /\ x4' /\ ~x8' /\ x6' = "connected" /\ x6 = "handshake" /\ x3 < Socket!Expired
        /\ UNCHANGED <<x1, x2, x3, x7, x11>>
    BY <1>12 DEF Socket!Connected, Socket!Accepts
  <2>2. x2 <= Socket!Due
    BY <1>0, <2>1 DEF SocketInv
  <2>3. x1 => x11 \/ x3 = x2
    BY <2>1 DEF SocketInv
  <2> QED
    BY <1>0, <2>1, <2>2, <2>3 DEF SocketInv, Socket!SignedIsNotDropped
<1>13. CASE Socket!Refused
  BY <1>0, <1>13 DEF Socket!Refused, Socket!Accepts, SocketInv, Socket!TypeOK, Socket!SignedIsNotDropped,
     Socket!Valid, Socket!Due, Socket!Expired, Socket!Past
<1>14. CASE Socket!LogIn
  <2>1. x2' = Socket!Valid /\ x4' /\ x6' # "dropped"
    BY <1>14 DEF Socket!LogIn, Socket!Renewed
  <2>2. x6' = "connected" => x7'
    <3>1. x6' = "connected" => x6 = "connected"
      BY <1>14 DEF Socket!LogIn
    <3>2. x6 = "connected" => x7'
      BY <1>0, <1>14 DEF Socket!LogIn, Socket!Renewed, Socket!TypeOK
    <3> QED
      BY <3>1, <3>2
  <2>3. x6' = "handshake" => x11'
    <3>1. x6' = "handshake" => x6 = "handshake"
      BY <1>14 DEF Socket!LogIn
    <3>2. x6 = "handshake" => x11'
      BY <1>0, <1>14 DEF Socket!LogIn, Socket!Renewed, Socket!TypeOK
    <3> QED
      BY <3>1, <3>2
  <2> QED
    BY <1>0, <2>1, <2>2, <2>3 DEF SocketInv, Socket!SignedIsNotDropped, Socket!Valid, Socket!Due
<1> QED
  BY <1>1, <1>2, <1>3, <1>4, <1>5, <1>6, <1>7, <1>8, <1>9, <1>10, <1>11, <1>12, <1>13, <1>14 DEF
     Socket!Next

-----------------------------------------------------------------------------
(* The watch of a job: x1 .. x9 are kind, job, shown, events, room, poll,  *)
(* astray, cuts and losses.                                                *)

\* At first there is no job.
LEMMA WatchInit == Watch!Init => Watch!TypeOK
<1> SUFFICES ASSUME Watch!Init PROVE Watch!TypeOK
  OBVIOUS
<1>1. x7 \in BOOLEAN
  BY DEF Watch!Init
<1>2. x8 \in 0..MaxCuts /\ x9 \in 0..MaxLosses
  BY TabBounds DEF Watch!Init
<1>3. /\ x1 \in {"detection", "polled"} /\ x2 \in Watch!Statuses /\ x3 \in Watch!Statuses
      /\ x4 \subseteq {"progress", "finished"} /\ x5 \in {"in", "out", "joining"}
      /\ x6 \in {"no", "asked"} \cup Watch!Statuses
  BY DEF Watch!Init, Watch!Statuses
<1> QED
  BY <1>1, <1>2, <1>3 DEF Watch!TypeOK

\* Every step of the watch keeps its types.
LEMMA WatchSteps == ASSUME Watch!TypeOK, Watch!Next PROVE Watch!TypeOK'
<1>1. x1' \in {"detection", "polled"}
  BY DEF Watch!TypeOK, Watch!Next, Watch!bounds, Watch!Start, Watch!Progress, Watch!End,
     Watch!OnProgress, Watch!OnFinished, Watch!Ask, Watch!Read, Watch!Got, Watch!Lose, Watch!Cut,
     Watch!Reconnect, Watch!Joined
<1>2. x2' \in Watch!Statuses
  BY DEF Watch!TypeOK, Watch!Next, Watch!bounds, Watch!Start, Watch!Progress, Watch!End,
     Watch!OnProgress, Watch!OnFinished, Watch!Ask, Watch!Read, Watch!Got, Watch!Lose, Watch!Cut,
     Watch!Reconnect, Watch!Joined, Watch!Statuses
<1>3. x3' \in Watch!Statuses
  BY DEF Watch!TypeOK, Watch!Next, Watch!bounds, Watch!Start, Watch!Progress, Watch!End,
     Watch!OnProgress, Watch!OnFinished, Watch!Ask, Watch!Read, Watch!Got, Watch!Lose, Watch!Cut,
     Watch!Reconnect, Watch!Joined, Watch!Statuses
<1>4. x4' \subseteq {"progress", "finished"}
  BY DEF Watch!TypeOK, Watch!Next, Watch!bounds, Watch!Start, Watch!Progress, Watch!End,
     Watch!OnProgress, Watch!OnFinished, Watch!Ask, Watch!Read, Watch!Got, Watch!Lose, Watch!Cut,
     Watch!Reconnect, Watch!Joined, Watch!Relay
<1>5. x5' \in {"in", "out", "joining"}
  BY DEF Watch!TypeOK, Watch!Next, Watch!bounds, Watch!Start, Watch!Progress, Watch!End,
     Watch!OnProgress, Watch!OnFinished, Watch!Ask, Watch!Read, Watch!Got, Watch!Lose, Watch!Cut,
     Watch!Reconnect, Watch!Joined
<1>6. x6' \in {"no", "asked"} \cup Watch!Statuses
  BY DEF Watch!TypeOK, Watch!Next, Watch!bounds, Watch!Start, Watch!Progress, Watch!End,
     Watch!OnProgress, Watch!OnFinished, Watch!Ask, Watch!Read, Watch!Got, Watch!Lose, Watch!Cut,
     Watch!Reconnect, Watch!Joined, Watch!Statuses
<1>7. x7' \in BOOLEAN
  BY DEF Watch!TypeOK, Watch!Next, Watch!bounds, Watch!Start, Watch!Progress, Watch!End,
     Watch!OnProgress, Watch!OnFinished, Watch!Ask, Watch!Read, Watch!Got, Watch!Lose, Watch!Cut,
     Watch!Reconnect, Watch!Joined
<1>8. x8' \in 0..MaxCuts
  BY TabBounds DEF Watch!TypeOK, Watch!Next, Watch!bounds, Watch!Start, Watch!Progress, Watch!End,
     Watch!OnProgress, Watch!OnFinished, Watch!Ask, Watch!Read, Watch!Got, Watch!Lose, Watch!Cut,
     Watch!Reconnect, Watch!Joined
<1>9. x9' \in 0..MaxLosses
  BY TabBounds DEF Watch!TypeOK, Watch!Next, Watch!bounds, Watch!Start, Watch!Progress, Watch!End,
     Watch!OnProgress, Watch!OnFinished, Watch!Ask, Watch!Read, Watch!Got, Watch!Lose, Watch!Cut,
     Watch!Reconnect, Watch!Joined
<1> QED
  BY <1>1, <1>2, <1>3, <1>4, <1>5, <1>6, <1>7, <1>8, <1>9 DEF Watch!TypeOK

-----------------------------------------------------------------------------
(* The editor of zones: x1 .. x3 are box, narrow and drag.                 *)

\* A zone goes out of the image by its left edge only, and by less than the least side.
FitsImage(b) == b \in Drawing!Edges /\ b.hi \in 1..Width /\ b.lo > -MinSide
\* One that came wide enough is in the image, and as wide.
IsInside(b) == b \in Drawing!BBoxSchema /\ Drawing!width(b) >= MinSide

\* The editor of zones: the zone, and what the drag began with.
ZonesInv ==
  /\ Drawing!TypeOK
  /\ FitsImage(x1) /\ FitsImage(x3.box)
  /\ ~x2 => IsInside(x1)
  /\ ~x2 /\ x3.kind \in {"move", "left", "right"} => IsInside(x3.box)

\* Where a zone that is moved or resized ends.
LEMMA ZoneMoves ==
  ASSUME NEW b, FitsImage(b), NEW d \in Int
  PROVE  /\ FitsImage(Drawing!moveBox(b, d)) /\ (IsInside(b) => IsInside(Drawing!moveBox(b, d)))
         /\ \A handle \in {"left", "right"} :
              FitsImage(Drawing!resizeBox(b, handle, d)) /\ (IsInside(b) => IsInside(Drawing!resizeBox(b, handle, d)))
<1>1. b.lo \in Int /\ b.hi \in Int /\ b.lo < b.hi /\ b.hi <= Width /\ b.hi >= 1 /\ b.lo > -MinSide
  BY Sizes DEF FitsImage, Drawing!Edges
<1>2. b = [lo |-> b.lo, hi |-> b.hi]
  BY DEF FitsImage, Drawing!Edges
<1>3. ASSUME NEW lo \in Int, NEW hi \in Int, lo < hi, 1 <= hi, hi <= Width, lo > -MinSide
      PROVE   FitsImage([lo |-> lo, hi |-> hi]) /\ (0 <= lo /\ hi - lo >= MinSide => IsInside([lo |-> lo, hi |-> hi]))
  BY <1>3, Sizes DEF FitsImage, IsInside, Drawing!Edges, Drawing!BBoxSchema, Drawing!width
<1>4. IsInside(b) => 0 <= b.lo /\ b.hi - b.lo >= MinSide
  BY DEF IsInside, Drawing!BBoxSchema, Drawing!width
<1>5. FitsImage(Drawing!moveBox(b, d)) /\ (IsInside(b) => IsInside(Drawing!moveBox(b, d)))
  <2> DEFINE left == Drawing!clamp(b.lo + d, 0, Width - (b.hi - b.lo))
             right == left + (b.hi - b.lo)
  <2>1. left \in Int /\ right \in Int /\ left < right /\ 1 <= right /\ right <= Width /\ left > -MinSide
    BY <1>1, Sizes DEF Drawing!clamp
  <2>2. 0 <= b.lo => 0 <= left
    BY <1>1, Sizes DEF Drawing!clamp
  <2>3. right - left = b.hi - b.lo
    BY <1>1, <2>1
  <2>4. Drawing!moveBox(b, d) = [lo |-> left, hi |-> right]
    BY DEF Drawing!moveBox, Drawing!width
  <2> HIDE DEF left, right
  <2> QED
    BY <1>3, <1>4, <2>1, <2>2, <2>3, <2>4
<1>6. FitsImage(Drawing!resizeBox(b, "left", d)) /\ (IsInside(b) => IsInside(Drawing!resizeBox(b, "left", d)))
  <2> DEFINE left == Drawing!clamp(d, 0, b.hi - MinSide)
  <2>1. left \in Int /\ left < b.hi /\ left > -MinSide /\ b.hi - left >= MinSide
    BY <1>1, Sizes DEF Drawing!clamp
  <2>2. 0 <= b.lo /\ b.hi - b.lo >= MinSide => 0 <= left
    BY <1>1, Sizes DEF Drawing!clamp
  <2>3. Drawing!resizeBox(b, "left", d) = [lo |-> left, hi |-> b.hi]
    BY <1>2 DEF Drawing!resizeBox
  <2> HIDE DEF left
  <2> QED
    BY <1>1, <1>3, <1>4, <2>1, <2>2, <2>3
<1>7. FitsImage(Drawing!resizeBox(b, "right", d)) /\ (IsInside(b) => IsInside(Drawing!resizeBox(b, "right", d)))
  <2> DEFINE right == Drawing!clamp(d, b.lo + MinSide, Width)
  <2>1. right \in Int /\ b.lo < right /\ 1 <= right /\ right <= Width
    BY <1>1, Sizes DEF Drawing!clamp
  <2>2. b.hi - b.lo >= MinSide => right - b.lo >= MinSide
    BY <1>1, Sizes DEF Drawing!clamp
  <2>3. Drawing!resizeBox(b, "right", d) = [lo |-> b.lo, hi |-> right]
    BY <1>2 DEF Drawing!resizeBox
  <2> HIDE DEF right
  <2> QED
    BY <1>1, <1>3, <1>4, <2>1, <2>2, <2>3
<1> QED
  BY <1>5, <1>6, <1>7

\* Where a zone that is drawn ends.
LEMMA ZoneDrawn ==
  ASSUME NEW start \in Int, NEW end \in Int, Drawing!width(Drawing!boxFromDrag(start, end)) >= MinSide
  PROVE  FitsImage(Drawing!boxFromDrag(start, end)) /\ IsInside(Drawing!boxFromDrag(start, end))
<1> DEFINE left == Drawing!clamp(IF start < end THEN start ELSE end, 0, Width)
           right == Drawing!clamp(IF start < end THEN end ELSE start, 0, Width)
<1>1. left \in 0..Width /\ right \in 0..Width
  BY Sizes DEF Drawing!clamp
<1>2. Drawing!boxFromDrag(start, end) = [lo |-> left, hi |-> right]
  BY DEF Drawing!boxFromDrag
<1> HIDE DEF left, right
<1>3. right - left >= MinSide
  BY <1>2 DEF Drawing!width
<1> QED
  BY <1>1, <1>2, <1>3, Sizes DEF FitsImage, IsInside, Drawing!Edges, Drawing!BBoxSchema, Drawing!width

\* A zone that the server has.
LEMMA ZoneRead ==
  ASSUME NEW b \in Drawing!BBoxSchema
  PROVE  FitsImage(b) /\ (Drawing!width(b) >= MinSide => IsInside(b))
BY Sizes DEF FitsImage, IsInside, Drawing!BBoxSchema, Drawing!Edges, Drawing!width

\* Nothing is being dragged.
LEMMA ZoneStill == Drawing!Still.kind = "none" /\ FitsImage(Drawing!Still.box) /\ Drawing!Still.start \in Drawing!Points
BY Sizes DEF Drawing!Still, FitsImage, Drawing!Edges, Drawing!Points

\* At first the zone is the one of the server.
LEMMA ZonesInit == Drawing!Init => ZonesInv
<1> SUFFICES ASSUME Drawing!Init PROVE ZonesInv
  OBVIOUS
<1>1. x1 \in Drawing!BBoxSchema /\ x2 = (Drawing!width(x1) < MinSide) /\ x3 = Drawing!Still
  BY DEF Drawing!Init
<1>2. x2 \in BOOLEAN
  BY <1>1
<1>3. ~x2 => ~(Drawing!width(x1) < MinSide)
  BY <1>1
<1>4. Drawing!width(x1) \in Int
  BY <1>1 DEF Drawing!width, Drawing!BBoxSchema, Drawing!Edges
<1>5. FitsImage(x1) /\ (~x2 => IsInside(x1))
  BY <1>1, <1>3, <1>4, ZoneRead, Sizes
<1> QED
  BY <1>1, <1>2, <1>5, ZoneStill DEF ZonesInv, Drawing!TypeOK, FitsImage

\* Every step of the editor of zones keeps the invariant.
LEMMA ZonesSteps == ASSUME ZonesInv, Drawing!Next PROVE ZonesInv'
<1>0. /\ x2 \in BOOLEAN /\ x3.kind \in {"none", "move", "left", "right", "draw"}
      /\ x3.start \in Drawing!Points
      /\ x1.lo \in Int
  BY DEF ZonesInv, Drawing!TypeOK, Drawing!Edges
<1>1. ASSUME NEW p \in Drawing!Points, Drawing!Down(p) PROVE ZonesInv'
  <2>1. /\ x3'.kind \in {"move", "left", "right", "draw"} /\ x3'.box = x1 /\ x3'.start = p
        /\ UNCHANGED <<x1, x2>>
    BY <1>1 DEF Drawing!Down
  <2> QED
    BY <2>1 DEF ZonesInv, Drawing!TypeOK
<1>2. ASSUME NEW p \in Drawing!Points, Drawing!Move(p) PROVE ZonesInv'
  <2>1. p \in Int /\ p - x3.start \in Int
    BY <1>0, Sizes DEF Drawing!Points
  <2>2. x3.kind \in {"move", "left", "right"} /\ UNCHANGED <<x2, x3>>
    BY <1>2 DEF Drawing!Move
  <2>3. FitsImage(x1') /\ (IsInside(x3.box) => IsInside(x1'))
    BY <1>2, <2>1, ZoneMoves DEF Drawing!Move, ZonesInv
  <2> QED
    BY <2>2, <2>3 DEF ZonesInv, Drawing!TypeOK, FitsImage
<1>3. ASSUME NEW p \in Drawing!Points, Drawing!Up(p) PROVE ZonesInv'
  <2>1. p \in Int /\ x3.start \in Int
    BY <1>0, Sizes DEF Drawing!Points
  <2>2. x3' = Drawing!Still /\ UNCHANGED x2
    BY <1>3 DEF Drawing!Up
  <2>3. x1' = x1 \/ (FitsImage(x1') /\ IsInside(x1'))
    BY <1>3, <2>1, ZoneDrawn DEF Drawing!Up
  <2> QED
    BY <2>2, <2>3, ZoneStill DEF ZonesInv, Drawing!TypeOK, FitsImage
<1>4. ASSUME NEW delta \in {-2, -1, 1, 2}, Drawing!Nudge(delta) PROVE ZonesInv'
  <2>1. FitsImage(x1') /\ (IsInside(x1) => IsInside(x1')) /\ UNCHANGED <<x2, x3>>
    BY <1>4, ZoneMoves DEF Drawing!Nudge, ZonesInv
  <2> QED
    BY <2>1 DEF ZonesInv, Drawing!TypeOK, FitsImage
<1>5. ASSUME NEW b \in Drawing!BBoxSchema, Drawing!Refetch(b) PROVE ZonesInv'
  <2>1. x1' = b /\ UNCHANGED x3 /\ x2' = (x2 \/ Drawing!width(b) < MinSide)
    BY <1>5 DEF Drawing!Refetch
  <2>2. x2' \in BOOLEAN
    BY <2>1
  <2>3. Drawing!width(b) \in Int
    BY DEF Drawing!width, Drawing!BBoxSchema, Drawing!Edges
  <2>4. ~x2' => ~x2 /\ Drawing!width(b) >= MinSide
    <3>1. ~x2' => ~x2 /\ ~(Drawing!width(b) < MinSide)
      BY <2>1
    <3> QED
      BY <2>3, <3>1, Sizes
  <2> QED
    BY <1>0, <2>1, <2>2, <2>4, ZoneRead DEF ZonesInv, Drawing!TypeOK, FitsImage
<1> QED
  BY <1>1, <1>2, <1>3, <1>4, <1>5 DEF Drawing!Next

\* What the invariant says of the zone.
LEMMA ZonesHold == ZonesInv => Drawing!ZoneIsInside
BY DEF ZonesInv, Drawing!ZoneIsInside, IsInside

-----------------------------------------------------------------------------
(* The camera: x1 .. x2 are zoom and center.                               *)

\* The zoom after a step is one of the zooms.
LEMMA ZoomSteps ==
  ASSUME NEW z \in View!Zooms, NEW f \in {<<2, 1>>, <<1, 2>>}
  PROVE  View!clampZoom((z * f[1]) \div f[2]) \in View!Zooms
BY DEF View!Zooms, View!clampZoom, View!clamp

\* Every step keeps the camera over the image.
LEMMA PanSteps ==
  ASSUME NEW c \in Int
  PROVE  View!clampPan(c) \in 0..View!UNIT * Width
BY Sizes DEF View!clampPan, View!clamp, View!UNIT

\* How far a point of the screen is from the middle, in the image.
LEMMA Distances ==
  ASSUME NEW z \in View!Zooms, NEW d \in Int
  PROVE  (View!UNIT * View!UNIT * d) \div z \in Int
BY DEF View!Zooms, View!UNIT

\* At first the image fits.
LEMMA CameraInit == View!Init => View!TypeOK
BY Sizes DEF View!Init, View!TypeOK, View!Zooms, View!UNIT

\* Every step of the camera keeps the types, and the point under the pointer.
LEMMA CameraSteps == ASSUME View!TypeOK, View!Next PROVE View!TypeOK' /\ View!AnchorStays
<1>0. x1 \in View!Zooms /\ x2 \in Int /\ View!Offsets \subseteq Int /\ x1 \in Nat
  BY Sizes DEF View!TypeOK, View!UNIT, View!Offsets, View!Zooms
<1>1. ASSUME NEW f \in {<<2, 1>>, <<1, 2>>}, NEW d \in View!Offsets, View!zoomAt(f[1], f[2], d)
      PROVE  View!TypeOK' /\ (x2' \in 1..View!UNIT * Width - 1 =>
               View!screenToImage(x2', x1', d) = View!screenToImage(x2, x1, d))
  <2>1. x1' \in View!Zooms /\ x1' = View!clampZoom((x1 * f[1]) \div f[2])
    BY <1>0, <1>1, ZoomSteps DEF View!zoomAt
  <2>2. (View!UNIT * View!UNIT * d) \div x1 \in Int /\ (View!UNIT * View!UNIT * d) \div x1' \in Int
    BY <1>0, <2>1, Distances
  <2>3. PICK c \in Int : /\ c = View!screenToImage(x2, x1, d) - (View!UNIT * View!UNIT * d) \div x1'
                         /\ x2' = View!clampPan(c)
    BY <1>0, <1>1, <2>1, <2>2 DEF View!zoomAt, View!CenterAt, View!screenToImage
  <2>4. x2' \in 0..View!UNIT * Width
    BY <2>3, PanSteps
  <2>5. x2' \in 1..View!UNIT * Width - 1 => x2' = c
    BY <2>3, Sizes DEF View!clampPan, View!clamp, View!UNIT
  <2>6. x2' = c => View!screenToImage(x2', x1', d) = View!screenToImage(x2, x1, d)
    BY <1>0, <2>2, <2>3 DEF View!screenToImage
  <2> QED
    BY <2>1, <2>4, <2>5, <2>6 DEF View!TypeOK
<1>2. ASSUME NEW d \in View!Offsets, View!pan(d) PROVE View!TypeOK'
  <2>1. (View!UNIT * View!UNIT * d) \div x1 \in Int
    BY <1>0, Distances
  <2> QED
    BY <1>0, <1>2, <2>1, PanSteps DEF View!pan, View!TypeOK
<1>3. ASSUME NEW p \in -1..Width + 1, View!centerOn(p) PROVE View!TypeOK'
  <2>1. View!UNIT * p \in Int
    BY Sizes DEF View!UNIT
  <2> QED
    BY <1>0, <1>3, <2>1, PanSteps DEF View!centerOn, View!TypeOK
<1>4. ASSUME View!fitCamera PROVE View!TypeOK'
  BY <1>4, Sizes DEF View!fitCamera, View!TypeOK, View!Zooms, View!UNIT
<1>5. View!AnchorStays
  BY <1>1 DEF View!AnchorStays
<1>6. View!TypeOK'
  BY <1>1, <1>2, <1>3, <1>4 DEF View!Next
<1> QED
  BY <1>5, <1>6

\* What the types say of what is on the screen.
LEMMA CameraHolds == View!TypeOK => View!SomethingShows
<1> SUFFICES ASSUME View!TypeOK PROVE View!SomethingShows
  OBVIOUS
<1> DEFINE half == VIEWPORT \div 2
<1>1. half \in Nat /\ half >= 1
  BY Sizes
<1> HIDE DEF half
<1>2. x2 \in 0..View!UNIT * Width /\ x1 \in View!Zooms
  BY DEF View!TypeOK
<1>3. PICK a \in Int, b \in Int : a = (View!UNIT * View!UNIT * (-half)) \div x1 /\ b = (View!UNIT * View!UNIT * half) \div x1
  BY <1>1, <1>2, Distances
<1>4. a < 0 /\ b > 0
  BY <1>1, <1>2, <1>3 DEF View!Zooms, View!UNIT
<1>5. View!clamp(x2 + a, 0, View!UNIT * Width) < View!clamp(x2 + b, 0, View!UNIT * Width)
  BY <1>2, <1>4, Sizes DEF View!clamp, View!UNIT
<1> QED
  BY <1>3, <1>5 DEF View!SomethingShows, View!screenToImage, half

-----------------------------------------------------------------------------
(* The form of a requirement: x1 .. x15 are server, cache, form, draft,    *)
(* timer, save, dialog, typed, unsaved, shown, blind, count, others, saves *)
(* and faults.                                                             *)

\* What the form, the draft, the PATCH and the dialog hold.
Forms == [open : BOOLEAN, rev : Form!Revs, base : Form!Texts, text : Form!Texts]
Drafts == [kept : BOOLEAN, rev : Form!Revs, text : Form!Texts]
Patches == [pc : {"idle", "sent", "answered", "refreshing"}, rev : Form!Revs, text : Form!Texts,
            answer : {"none", "ok", "conflict", "error"}]
Dialogs == [on : BOOLEAN, mine : Form!Texts, rev : Form!Revs]

\* Each PATCH and each of the others saves once.
RevsCounted ==
  x1.rev <= x14 + x13 /\ (x6.pc = "sent" => x1.rev + 1 <= x14 + x13)

\* What a save may carry was on screen.
RevsShown ==
  /\ x3.open => x3.rev \in x10
  /\ x4.kept => x4.rev \in x10
  /\ x7.on => x7.rev \in x10
  /\ x6.pc = "sent" => x6.rev \in x10

\* The texts there are: those typed so far, and that of the others.
WrittenTexts == 0..x12 \cup {Form!Foreign}
TextsWritten ==
  /\ x8 \in 0..x12
  /\ x1.text \in WrittenTexts /\ x2.text \in WrittenTexts /\ x3.base \in WrittenTexts
  /\ x3.text \in WrittenTexts /\ x4.text \in WrittenTexts /\ x7.mine \in WrittenTexts
  /\ x6.text \in WrittenTexts

\* What is typed is in none of the texts of the server, and is the text of the form, of
\* the dialog and of the PATCH on its way; it is kept in the draft, or about to be.
TypedHolds ==
  \/ x8 = Form!First
  \/ x9
  \/ /\ x8 \notin {x1.text, x2.text, x3.base}
     /\ x3.open => x3.text = x8
     /\ x7.on => x7.mine = x8
     /\ x6.pc # "idle" => x6.text = x8
     /\ ~(x6.pc = "answered" /\ x6.answer = "ok") /\ x6.pc # "refreshing"
     /\ x5 \/ (x4.kept /\ x4.text = x8)

\* A form that is closed has no timer and no dialog.
FormClosed == ~x3.open => ~x5 /\ ~x7.on

\* The form of a requirement: nobody else's text is replaced unseen, and what is typed is kept.
FormInv ==
  /\ Form!TypeOK /\ RevsCounted /\ RevsShown /\ TextsWritten /\ FormClosed
  /\ ~x11
  /\ TypedHolds

\* The records of the form.
LEMMA FormRecords ==
  /\ Form!Closed \in Forms /\ ~Form!Closed.open /\ Form!Closed.base = Form!First
  /\ Form!Closed.text = Form!First
  /\ Form!NoDraft \in Drafts /\ ~Form!NoDraft.kept /\ Form!NoDraft.text = Form!First
  /\ Form!Idle \in Patches /\ Form!Idle.pc = "idle" /\ Form!Idle.text = Form!First
  /\ Form!NoDialog \in Dialogs /\ ~Form!NoDialog.on /\ Form!NoDialog.mine = Form!First
<1>1. 0 \in Form!Revs /\ Form!First \in Form!Texts
  BY TabBounds DEF Form!Revs, Form!Texts, Form!First, Form!Foreign
<1> QED
  BY <1>1 DEF Form!Closed, Form!NoDraft, Form!Idle, Form!NoDialog, Forms, Drafts, Patches, Dialogs

\* The PATCH that is sent, and its answers.
Sending(p, rev, text) == [p EXCEPT !.pc = "sent", !.rev = rev, !.text = text]
AnsweredBy(p, answer) == [p EXCEPT !.pc = "answered", !.answer = answer]
AnsweredOver(p, rev) == [p EXCEPT !.pc = "answered", !.answer = "conflict", !.rev = rev]
Refreshing(p) == [p EXCEPT !.pc = "refreshing"]

\* The fields of a PATCH.
LEMMA PatchRecords ==
  ASSUME NEW p \in Patches
  PROVE  /\ \A rev \in Form!Revs, text \in Form!Texts :
              /\ Sending(p, rev, text) \in Patches /\ Sending(p, rev, text).pc = "sent"
              /\ Sending(p, rev, text).rev = rev /\ Sending(p, rev, text).text = text
         /\ \A answer \in {"ok", "error"} :
              /\ AnsweredBy(p, answer) \in Patches /\ AnsweredBy(p, answer).pc = "answered"
              /\ AnsweredBy(p, answer).text = p.text /\ AnsweredBy(p, answer).answer = answer
         /\ \A rev \in Form!Revs :
              /\ AnsweredOver(p, rev) \in Patches /\ AnsweredOver(p, rev).pc = "answered"
              /\ AnsweredOver(p, rev).text = p.text /\ AnsweredOver(p, rev).answer = "conflict"
         /\ Refreshing(p) \in Patches /\ Refreshing(p).pc = "refreshing" /\ Refreshing(p).text = p.text
BY DEF Patches, Sending, AnsweredBy, AnsweredOver, Refreshing

\* What each step does to the PATCH on its way.
LEMMA PatchSteps ==
  ASSUME FormInv, Form!Next
  PROVE  /\ x6' \in Patches
         /\ Form!Submit \/ Form!KeepMine =>
              /\ x6.pc = "idle" /\ x6'.pc = "sent"
              /\ Form!Submit => x6'.rev = x3.rev /\ x6'.text = x3.text
              /\ Form!KeepMine => x6'.rev = x7.rev /\ x6'.text = x7.mine
         /\ Form!Patched \/ Form!Lost => x6'.pc = "answered" /\ x6'.text = x6.text
         /\ Form!Patched => x6'.answer = (IF x6.rev = x1.rev THEN "ok" ELSE "conflict")
         /\ Form!Lost => x6'.answer = "error"
         /\ Form!Saved => x6'.pc = "refreshing" /\ x6'.text = x6.text
         /\ Form!Done \/ Form!Conflict \/ Form!Failed \/ Form!Reload => x6' = Form!Idle
         /\ ~(Form!Submit \/ Form!KeepMine \/ Form!Patched \/ Form!Lost \/ Form!Saved \/ Form!Done \/ Form!Conflict \/ Form!Failed \/ Form!Reload) =>
              x6' = x6
<1>0. /\ x6 \in Patches /\ x3.rev \in Form!Revs /\ x3.text \in Form!Texts /\ x7.rev \in Form!Revs
      /\ x7.mine \in Form!Texts /\ x1.rev \in Form!Revs
  BY DEF FormInv, Form!TypeOK, Form!Copies, Patches
<1>8. Form!Idle \in Patches
  BY FormRecords
<1>9. \A rev \in Form!Revs, text \in Form!Texts :
        /\ Sending(Form!Idle, rev, text) \in Patches /\ Sending(Form!Idle, rev, text).pc = "sent"
        /\ Sending(Form!Idle, rev, text).rev = rev /\ Sending(Form!Idle, rev, text).text = text
  BY <1>8, PatchRecords
<1>1. Form!Submit => /\ x6' \in Patches /\ x6.pc = "idle" /\ x6'.pc = "sent"
                     /\ x6'.rev = x3.rev /\ x6'.text = x3.text
  <2>1. Form!Submit => x6.pc = "idle" /\ x6' = Sending(Form!Idle, x3.rev, x3.text)
    BY DEF Form!Submit, Form!RevToSave, Sending
  <2>2. /\ Sending(Form!Idle, x3.rev, x3.text) \in Patches
        /\ Sending(Form!Idle, x3.rev, x3.text).pc = "sent"
        /\ Sending(Form!Idle, x3.rev, x3.text).rev = x3.rev
        /\ Sending(Form!Idle, x3.rev, x3.text).text = x3.text
    BY <1>0, <1>9
  <2> QED
    BY <2>1, <2>2
<1>2. Form!KeepMine => /\ x6' \in Patches /\ x6.pc = "idle" /\ x6'.pc = "sent"
                       /\ x6'.rev = x7.rev /\ x6'.text = x7.mine
  <2>1. Form!KeepMine => x6.pc = "idle" /\ x6' = Sending(Form!Idle, x7.rev, x7.mine)
    BY DEF Form!KeepMine, Sending
  <2>2. /\ Sending(Form!Idle, x7.rev, x7.mine) \in Patches
        /\ Sending(Form!Idle, x7.rev, x7.mine).pc = "sent"
        /\ Sending(Form!Idle, x7.rev, x7.mine).rev = x7.rev
        /\ Sending(Form!Idle, x7.rev, x7.mine).text = x7.mine
    BY <1>0, <1>9
  <2> QED
    BY <2>1, <2>2
<1>3. Form!Patched => /\ x6' \in Patches /\ x6'.pc = "answered" /\ x6'.text = x6.text
                      /\ x6'.answer = (IF x6.rev = x1.rev THEN "ok" ELSE "conflict")
  <2>1. Form!Patched => x6' = (IF x6.rev = x1.rev THEN AnsweredBy(x6, "ok") ELSE AnsweredOver(x6, x1.rev))
    BY DEF Form!Patched, AnsweredBy, AnsweredOver
  <2>2. /\ AnsweredBy(x6, "ok") \in Patches /\ AnsweredBy(x6, "ok").pc = "answered"
        /\ AnsweredBy(x6, "ok").text = x6.text /\ AnsweredBy(x6, "ok").answer = "ok"
    BY <1>0, PatchRecords
  <2>3. /\ AnsweredOver(x6, x1.rev) \in Patches /\ AnsweredOver(x6, x1.rev).pc = "answered"
        /\ AnsweredOver(x6, x1.rev).text = x6.text /\ AnsweredOver(x6, x1.rev).answer = "conflict"
    BY <1>0, PatchRecords
  <2> QED
    BY <2>1, <2>2, <2>3
<1>4. Form!Lost => x6' \in Patches /\ x6'.pc = "answered" /\ x6'.text = x6.text /\ x6'.answer = "error"
  <2>1. Form!Lost => x6' = AnsweredBy(x6, "error")
    BY DEF Form!Lost, AnsweredBy
  <2> QED
    BY <1>0, <2>1, PatchRecords
<1>7. Form!Saved => x6' \in Patches /\ x6'.pc = "refreshing" /\ x6'.text = x6.text
  <2>1. Form!Saved => x6' = Refreshing(x6)
    BY DEF Form!Saved, Refreshing
  <2> QED
    BY <1>0, <2>1, PatchRecords
<1>5. Form!Done \/ Form!Conflict \/ Form!Failed \/ Form!Reload => x6' = Form!Idle
  BY DEF Form!Done, Form!Conflict, Form!Failed, Form!Reload
<1>6. Form!OtherSaves \/ Form!CacheFollows \/ Form!Open \/ Form!Type \/ Form!TypeBack \/ Form!KeepDraft \/ Form!Cancel \/ Form!UseCurrent => x6' = x6
  BY DEF Form!OtherSaves, Form!CacheFollows, Form!Open, Form!Type, Form!TypeBack, Form!KeepDraft,
     Form!Cancel, Form!UseCurrent
<1> QED
  BY <1>0, <1>1, <1>2, <1>3, <1>4, <1>5, <1>6, <1>7, FormRecords DEF Form!Next

\* Every step keeps the counts.
LEMMA FormCounts ==
  ASSUME FormInv, Form!Next
  PROVE  RevsCounted' /\ x1' \in Form!Copies /\ x2' \in Form!Copies
<1>0. /\ x1.rev \in Nat /\ x14 \in 0..MaxSaves /\ x13 \in 0..MaxOthers /\ x6.text \in Form!Texts
      /\ x1 \in Form!Copies /\ x2 \in Form!Copies /\ RevsCounted /\ Form!Foreign \in Form!Texts
  BY TabBounds DEF FormInv, Form!TypeOK, Form!Copies, Form!Revs, Form!Texts, Form!First, Form!Foreign
<1>1. CASE Form!OtherSaves
  <2>1. x1' = [rev |-> x1.rev + 1, text |-> Form!Foreign] /\ x13' = x13 + 1 /\ UNCHANGED <<x2, x14>>
        /\ x13 < MaxOthers
    BY <1>1 DEF Form!OtherSaves
  <2>2. x6' = x6
    BY <1>1 DEF Form!OtherSaves
  <2>3. x1'.rev = x1.rev + 1 /\ RevsCounted'
    BY <1>0, <2>1, <2>2, TabBounds DEF RevsCounted
  <2>4. x1.rev + 1 \in Form!Revs
    BY <1>0, <2>1, TabBounds DEF RevsCounted, Form!Revs
  <2> QED
    BY <1>0, <2>1, <2>3, <2>4 DEF Form!Copies
<1>2. CASE Form!Patched
  <2>1. UNCHANGED <<x2, x13, x14>> /\ x6'.pc = "answered" /\ x6.pc = "sent"
    BY <1>2, PatchSteps DEF Form!Patched, Form!bounds
  <2>2. x1' = x1 \/ x1' = [rev |-> x1.rev + 1, text |-> x6.text]
    BY <1>2 DEF Form!Patched
  <2>3. RevsCounted'
    BY <1>0, <2>1, <2>2, TabBounds DEF RevsCounted
  <2>4. x1.rev + 1 \in Form!Revs
    BY <1>0, <2>1, TabBounds DEF RevsCounted, Form!Revs
  <2> QED
    BY <1>0, <2>1, <2>2, <2>3, <2>4 DEF Form!Copies
<1>3. CASE Form!Submit \/ Form!KeepMine
  <2>1. /\ UNCHANGED <<x1, x2, x13>> /\ x14' = x14 + 1 /\ x6.pc = "idle" /\ x6'.pc = "sent"
    BY <1>3, PatchSteps DEF Form!Submit, Form!KeepMine
  <2> QED
    BY <1>0, <2>1, TabBounds DEF RevsCounted
<1>4. CASE ~(Form!OtherSaves \/ Form!Patched \/ Form!Submit \/ Form!KeepMine)
  <2>1. UNCHANGED <<x1, x13, x14>> /\ (x2' = x2 \/ x2' = x1)
    BY <1>4 DEF Form!Next, Form!CacheFollows, Form!Open, Form!Type, Form!TypeBack, Form!KeepDraft,
       Form!Cancel, Form!Reload, Form!UseCurrent, Form!Lost, Form!Saved, Form!Done, Form!Conflict,
       Form!Failed, Form!bounds
  <2>2. x6'.pc = "sent" => x6.pc = "sent"
    BY <1>4, PatchSteps, FormRecords
  <2> QED
    BY <1>0, <2>1, <2>2 DEF RevsCounted
<1> QED
  BY <1>1, <1>2, <1>3, <1>4

\* Every step keeps the types.
LEMMA FormTypes == ASSUME FormInv, Form!Next PROVE Form!TypeOK'
<1>0. /\ x1 \in Form!Copies /\ x2 \in Form!Copies /\ x3 \in Forms /\ x4 \in Drafts /\ x7 \in Dialogs
      /\ x6 \in Patches /\ x8 \in Form!Texts /\ x10 \subseteq Form!Revs /\ x6.text \in Form!Texts
      /\ x6.rev \in Form!Revs
      /\ x12 \in 0..MaxTyped /\ x13 \in 0..MaxOthers /\ x14 \in 0..MaxSaves /\ x15 \in 0..MoreFaults
  BY DEF FormInv, Form!TypeOK, Forms, Drafts, Dialogs, Patches
<1>1. /\ x2.rev \in Form!Revs /\ x2.text \in Form!Texts /\ x3.rev \in Form!Revs
      /\ x3.text \in Form!Texts
      /\ x3.base \in Form!Texts /\ x4.rev \in Form!Revs /\ x4.text \in Form!Texts /\ x3.open \in BOOLEAN
  BY <1>0 DEF Form!Copies, Forms, Drafts
<1>2. Form!First \in Form!Texts /\ (x12 < MaxTyped => x12 + 1 \in Form!Texts /\ x12 + 1 \in 0..MaxTyped)
  BY <1>0, TabBounds DEF Form!Texts, Form!First, Form!Foreign
<1>3. x1' \in Form!Copies /\ x2' \in Form!Copies
  BY FormCounts
<1>4. x3' \in Forms
  <2>1. CASE Form!Open
    <3>1. x3' = [open |-> TRUE, base |-> x2.text,
              rev |-> IF x4.kept THEN x4.rev ELSE x2.rev,
              text |-> IF x4.kept THEN x4.text ELSE x2.text]
      BY <2>1 DEF Form!Open
    <3> QED
      BY <1>1, <3>1 DEF Forms
  <2>2. CASE Form!Type
    BY <1>0, <1>2, <2>2 DEF Form!Type, Forms
  <2>3. CASE Form!TypeBack
    BY <1>0, <1>1, <2>3 DEF Form!TypeBack, Forms
  <2>4. CASE ~(Form!Open \/ Form!Type \/ Form!TypeBack)
    BY <1>0, <2>4, FormRecords DEF Form!Next, Form!OtherSaves, Form!CacheFollows, Form!KeepDraft,
       Form!Cancel, Form!Reload, Form!Submit, Form!KeepMine, Form!UseCurrent, Form!Patched, Form!Lost,
       Form!Saved, Form!Done, Form!Conflict, Form!Failed, Form!Unmounted, Form!screen
  <2> QED
    BY <2>1, <2>2, <2>3, <2>4
<1>5. x4' \in Drafts
  <2>1. CASE Form!KeepDraft
    <3>1. x4' = Form!NoDraft \/ x4' = [kept |-> TRUE, rev |-> x3.rev, text |-> x3.text]
      BY <2>1 DEF Form!KeepDraft
    <3>2. [kept |-> TRUE, rev |-> x3.rev, text |-> x3.text] \in Drafts
      BY <1>1 DEF Drafts
    <3> QED
      BY <3>1, <3>2, FormRecords
  <2>2. CASE ~Form!KeepDraft
    BY <1>0, <2>2, FormRecords DEF Form!Next, Form!OtherSaves, Form!CacheFollows, Form!Open, Form!Type,
       Form!TypeBack, Form!Cancel, Form!Reload, Form!Submit, Form!KeepMine, Form!UseCurrent,
       Form!Patched, Form!Lost, Form!Saved, Form!Done, Form!Conflict, Form!Failed, Form!StaysTyped,
       Form!screen
  <2> QED
    BY <2>1, <2>2
<1>6. x7' \in Dialogs
  <2>1. CASE Form!Conflict
    <3>1. x7' = x7 \/ x7' = [on |-> TRUE, mine |-> x6.text, rev |-> x6.rev]
      BY <2>1 DEF Form!Conflict
    <3>2. [on |-> TRUE, mine |-> x6.text, rev |-> x6.rev] \in Dialogs
      BY <1>0 DEF Dialogs
    <3> QED
      BY <1>0, <3>1, <3>2
  <2>2. CASE ~Form!Conflict
    BY <1>0, <2>2, FormRecords DEF Form!Next, Form!OtherSaves, Form!CacheFollows, Form!Open, Form!Type,
       Form!TypeBack, Form!KeepDraft, Form!Cancel, Form!Reload, Form!Submit, Form!KeepMine,
       Form!UseCurrent, Form!Patched, Form!Lost, Form!Saved, Form!Done, Form!Failed, Form!Unmounted,
       Form!screen
  <2> QED
    BY <2>1, <2>2
<1>7. x5' \in BOOLEAN
  BY DEF FormInv, Form!TypeOK, Form!Next, Form!OtherSaves, Form!CacheFollows, Form!Open, Form!Type,
     Form!TypeBack, Form!KeepDraft, Form!Cancel, Form!Reload, Form!Submit, Form!KeepMine,
     Form!UseCurrent, Form!Patched, Form!Lost, Form!Saved, Form!Done, Form!Conflict, Form!Failed,
     Form!Unmounted, Form!screen
<1>8. x9' \in BOOLEAN
  BY DEF FormInv, Form!TypeOK, Form!Next, Form!OtherSaves, Form!CacheFollows, Form!Open, Form!Type,
     Form!TypeBack, Form!KeepDraft, Form!Cancel, Form!Reload, Form!Submit, Form!KeepMine,
     Form!UseCurrent, Form!Patched, Form!Lost, Form!Saved, Form!Done, Form!Conflict, Form!Failed,
     Form!history
<1>9. x11' \in BOOLEAN
  BY DEF FormInv, Form!TypeOK, Form!Next, Form!OtherSaves, Form!CacheFollows, Form!Open, Form!Type,
     Form!TypeBack, Form!KeepDraft, Form!Cancel, Form!Reload, Form!Submit, Form!KeepMine,
     Form!UseCurrent, Form!Patched, Form!Lost, Form!Saved, Form!Done, Form!Conflict, Form!Failed,
     Form!history
<1>10. x8' \in Form!Texts
  BY <1>0, <1>2 DEF Form!Next, Form!OtherSaves, Form!CacheFollows, Form!Open, Form!Type, Form!TypeBack,
     Form!KeepDraft, Form!Cancel, Form!Reload, Form!Submit, Form!KeepMine, Form!UseCurrent,
     Form!Patched, Form!Lost, Form!Saved, Form!Done, Form!Conflict, Form!Failed, Form!history
<1>11. x10' \subseteq Form!Revs
  BY <1>0, <1>1 DEF Form!Next, Form!OtherSaves, Form!CacheFollows, Form!Open, Form!Type, Form!TypeBack,
     Form!KeepDraft, Form!Cancel, Form!Reload, Form!Submit, Form!KeepMine, Form!UseCurrent,
     Form!Patched, Form!Lost, Form!Saved, Form!Done, Form!Conflict, Form!Failed, Form!history
<1>12. x12' \in 0..MaxTyped
  BY <1>0, <1>2 DEF Form!Next, Form!OtherSaves, Form!CacheFollows, Form!Open, Form!Type, Form!TypeBack,
     Form!KeepDraft, Form!Cancel, Form!Reload, Form!Submit, Form!KeepMine, Form!UseCurrent,
     Form!Patched, Form!Lost, Form!Saved, Form!Done, Form!Conflict, Form!Failed, Form!bounds
<1>13. x13' \in 0..MaxOthers
  BY <1>0, TabBounds DEF Form!Next, Form!OtherSaves, Form!CacheFollows, Form!Open, Form!Type,
     Form!TypeBack, Form!KeepDraft, Form!Cancel, Form!Reload, Form!Submit, Form!KeepMine,
     Form!UseCurrent, Form!Patched, Form!Lost, Form!Saved, Form!Done, Form!Conflict, Form!Failed,
     Form!bounds
<1>14. x14' \in 0..MaxSaves
  BY <1>0, TabBounds DEF Form!Next, Form!OtherSaves, Form!CacheFollows, Form!Open, Form!Type,
     Form!TypeBack, Form!KeepDraft, Form!Cancel, Form!Reload, Form!Submit, Form!KeepMine,
     Form!UseCurrent, Form!Patched, Form!Lost, Form!Saved, Form!Done, Form!Conflict, Form!Failed,
     Form!bounds
<1>15. x15' \in 0..MoreFaults
  BY <1>0, TabBounds DEF Form!Next, Form!OtherSaves, Form!CacheFollows, Form!Open, Form!Type,
     Form!TypeBack, Form!KeepDraft, Form!Cancel, Form!Reload, Form!Submit, Form!KeepMine,
     Form!UseCurrent, Form!Patched, Form!Lost, Form!Saved, Form!Done, Form!Conflict, Form!Failed,
     Form!bounds
<1>16. x6' \in Patches
  BY PatchSteps
<1> QED
  BY <1>3, <1>4, <1>5, <1>6, <1>7, <1>8, <1>9, <1>10, <1>11, <1>12, <1>13, <1>14, <1>15, <1>16 DEF
     Form!TypeOK, Forms, Drafts, Patches, Dialogs

\* What a save may carry was on screen.
LEMMA FormRevs == ASSUME FormInv, Form!Next PROVE RevsShown' /\ ~x11' /\ x10 \subseteq x10'
<1>0. RevsShown /\ ~x11 /\ FormClosed /\ x3 \in Forms /\ x4 \in Drafts /\ x7 \in Dialogs
  BY DEF FormInv, Form!TypeOK, Forms, Drafts, Dialogs
<1>1. x10 \subseteq x10'
  BY DEF Form!Next, Form!OtherSaves, Form!CacheFollows, Form!Open, Form!Type, Form!TypeBack,
     Form!KeepDraft, Form!Cancel, Form!Reload, Form!Submit, Form!KeepMine, Form!UseCurrent,
     Form!Patched, Form!Lost, Form!Saved, Form!Done, Form!Conflict, Form!Failed, Form!history
<1>2. x3'.open => x3'.rev \in x10'
  <2>1. CASE Form!Open
    <3>1. /\ x3'.rev = IF x4.kept THEN x4.rev ELSE x2.rev
          /\ x10' = IF x4.kept THEN x10 ELSE x10 \cup {x2.rev}
      BY <2>1 DEF Form!Open
    <3> QED
      BY <1>0, <3>1 DEF RevsShown
  <2>2. CASE Form!Type \/ Form!TypeBack
    <3>1. x3'.open = x3.open /\ x3'.rev = x3.rev
      BY <1>0, <2>2 DEF Form!Type, Form!TypeBack, Forms
    <3> QED
      BY <1>0, <1>1, <3>1 DEF RevsShown
  <2>3. CASE ~(Form!Open \/ Form!Type \/ Form!TypeBack)
    <3>1. x3' = x3 \/ x3' = Form!Closed
      BY <2>3 DEF Form!Next, Form!OtherSaves, Form!CacheFollows, Form!KeepDraft, Form!Cancel,
         Form!Reload, Form!Submit, Form!KeepMine, Form!UseCurrent, Form!Patched, Form!Lost, Form!Saved,
         Form!Done, Form!Conflict, Form!Failed, Form!Unmounted, Form!screen
    <3> QED
      BY <1>0, <1>1, <3>1, FormRecords DEF RevsShown
  <2> QED
    BY <2>1, <2>2, <2>3
<1>3. x4'.kept => x4'.rev \in x10'
  <2>1. x4' = x4 \/ x4' = Form!NoDraft \/ (x5 /\ x4' = [kept |-> TRUE, rev |-> x3.rev, text |-> x3.text])
    BY DEF Form!Next, Form!OtherSaves, Form!CacheFollows, Form!Open, Form!Type, Form!TypeBack,
       Form!KeepDraft, Form!Cancel, Form!Reload, Form!Submit, Form!KeepMine, Form!UseCurrent,
       Form!Patched, Form!Lost, Form!Saved, Form!Done, Form!Conflict, Form!Failed, Form!StaysTyped,
       Form!screen
  <2>2. x5 => x3.open
    BY <1>0 DEF FormClosed
  <2>3. [kept |-> TRUE, rev |-> x3.rev, text |-> x3.text].rev = x3.rev
    OBVIOUS
  <2> QED
    BY <1>0, <1>1, <2>1, <2>2, <2>3, FormRecords DEF RevsShown
<1>4. x7'.on => x7'.rev \in x10'
  <2>1. CASE Form!Conflict /\ x3.open
    <3>1. x7'.rev = x6.rev /\ x10' = x10 \cup {x6.rev}
      BY <2>1 DEF Form!Conflict
    <3> QED
      BY <3>1
  <2>2. CASE ~(Form!Conflict /\ x3.open)
    <3>1. x7' = x7 \/ x7' = Form!NoDialog
      BY <2>2 DEF Form!Next, Form!OtherSaves, Form!CacheFollows, Form!Open, Form!Type, Form!TypeBack,
         Form!KeepDraft, Form!Cancel, Form!Reload, Form!Submit, Form!KeepMine, Form!UseCurrent,
         Form!Patched, Form!Lost, Form!Saved, Form!Done, Form!Conflict, Form!Failed, Form!Unmounted,
         Form!screen
    <3> QED
      BY <1>0, <1>1, <3>1, FormRecords DEF RevsShown
  <2> QED
    BY <2>1, <2>2
<1>5. x6'.pc = "sent" => x6'.rev \in x10'
  <2>1. CASE Form!Submit
    <3>1. x6'.rev = x3.rev /\ x3.open
      BY <2>1, PatchSteps DEF Form!Submit
    <3> QED
      BY <1>0, <1>1, <3>1 DEF RevsShown
  <2>2. CASE Form!KeepMine
    <3>1. x6'.rev = x7.rev /\ x7.on
      BY <2>2, PatchSteps DEF Form!KeepMine
    <3> QED
      BY <1>0, <1>1, <3>1 DEF RevsShown
  <2>3. CASE ~(Form!Submit \/ Form!KeepMine)
    <3>1. x6'.pc = "sent" => x6' = x6
      BY <2>3, PatchSteps, FormRecords
    <3> QED
      BY <1>0, <1>1, <3>1 DEF RevsShown
  <2> QED
    BY <2>1, <2>2, <2>3
<1>6. ~x11'
  <2>1. CASE Form!Patched
    <3>1. x6.pc = "sent" /\ (x11' = x11 \/ (x6.rev = x1.rev /\ x11' = (x11 \/ x1.rev \notin x10)))
      BY <2>1 DEF Form!Patched
    <3> QED
      BY <1>0, <3>1 DEF RevsShown
  <2>2. CASE ~Form!Patched
    <3>1. x11' = x11
      BY <2>2 DEF Form!Next, Form!OtherSaves, Form!CacheFollows, Form!Open, Form!Type, Form!TypeBack,
         Form!KeepDraft, Form!Cancel, Form!Reload, Form!Submit, Form!KeepMine, Form!UseCurrent,
         Form!Lost, Form!Saved, Form!Done, Form!Conflict, Form!Failed, Form!history
    <3> QED
      BY <1>0, <3>1
  <2> QED
    BY <2>1, <2>2
<1> QED
  BY <1>1, <1>2, <1>3, <1>4, <1>5, <1>6 DEF RevsShown

\* The texts there are were typed, or are of the others.
LEMMA FormTexts == ASSUME FormInv, Form!Next PROVE TextsWritten' /\ FormClosed' /\ x12' \in Nat
<1>0. /\ TextsWritten /\ FormClosed /\ x3 \in Forms /\ x4 \in Drafts /\ x7 \in Dialogs
      /\ x12 \in 0..MaxTyped /\ x12 \in Nat
  BY TabBounds DEF FormInv, Form!TypeOK, Forms, Drafts, Dialogs
<1>1. x12' = x12 \/ x12' = x12 + 1
  BY DEF Form!Next, Form!OtherSaves, Form!CacheFollows, Form!Open, Form!Type, Form!TypeBack,
     Form!KeepDraft, Form!Cancel, Form!Reload, Form!Submit, Form!KeepMine, Form!UseCurrent,
     Form!Patched, Form!Lost, Form!Saved, Form!Done, Form!Conflict, Form!Failed, Form!bounds
<1>2. WrittenTexts \subseteq WrittenTexts' /\ Form!First \in WrittenTexts' /\ Form!Foreign \in WrittenTexts' /\ 0..x12 \subseteq 0..x12'
      /\ Form!First \in 0..x12' /\ x12' \in Nat
      /\ (Form!Type => x12' \in WrittenTexts' /\ x12' \in 0..x12')
  BY <1>0, <1>1 DEF WrittenTexts, Form!First
<1>3. x8' \in 0..x12'
  <2>1. x8' = x8 \/ x8' = Form!First \/ (Form!Type /\ x8' = x12')
    BY DEF Form!Next, Form!OtherSaves, Form!CacheFollows, Form!Open, Form!Type, Form!TypeBack,
       Form!KeepDraft, Form!Cancel, Form!Reload, Form!Submit, Form!KeepMine, Form!UseCurrent,
       Form!Patched, Form!Lost, Form!Saved, Form!Done, Form!Conflict, Form!Failed, Form!history
  <2> QED
    BY <1>0, <1>2, <2>1 DEF TextsWritten
<1>4. x1'.text \in WrittenTexts'
  <2>1. x1' = x1 \/ x1'.text = Form!Foreign \/ x1'.text = x6.text
    BY DEF Form!Next, Form!OtherSaves, Form!CacheFollows, Form!Open, Form!Type, Form!TypeBack,
       Form!KeepDraft, Form!Cancel, Form!Reload, Form!Submit, Form!KeepMine, Form!UseCurrent,
       Form!Patched, Form!Lost, Form!Saved, Form!Done, Form!Conflict, Form!Failed
  <2> QED
    BY <1>0, <1>2, <2>1 DEF TextsWritten
<1>5. x2'.text \in WrittenTexts'
  <2>1. x2' = x2 \/ x2' = x1
    BY DEF Form!Next, Form!OtherSaves, Form!CacheFollows, Form!Open, Form!Type, Form!TypeBack,
       Form!KeepDraft, Form!Cancel, Form!Reload, Form!Submit, Form!KeepMine, Form!UseCurrent,
       Form!Patched, Form!Lost, Form!Saved, Form!Done, Form!Conflict, Form!Failed
  <2> QED
    BY <1>0, <1>2, <2>1 DEF TextsWritten
<1>6. x3'.base \in WrittenTexts' /\ x3'.text \in WrittenTexts' /\ (~x3'.open => ~x5' /\ ~x7'.on)
  <2>1. CASE Form!Open
    <3>1. /\ x3'.base = x2.text /\ x3'.text = IF x4.kept THEN x4.text ELSE x2.text
          /\ x3'.open
      BY <2>1 DEF Form!Open
    <3> QED
      BY <1>0, <1>2, <3>1 DEF TextsWritten
  <2>2. CASE Form!Type
    <3>1. x3'.base = x3.base /\ x3'.text = x12' /\ x3'.open
      BY <1>0, <2>2 DEF Form!Type, Forms
    <3> QED
      BY <1>0, <1>2, <2>2, <3>1 DEF TextsWritten
  <2>3. CASE Form!TypeBack
    <3>1. x3'.base = x3.base /\ x3'.text = x3.base /\ x3'.open
      BY <1>0, <2>3 DEF Form!TypeBack, Forms
    <3> QED
      BY <1>0, <1>2, <3>1 DEF TextsWritten
  <2>4. CASE Form!Cancel \/ Form!Reload \/ Form!UseCurrent \/ Form!Done
    <3>1. x3' = Form!Closed /\ x5' = FALSE /\ x7' = Form!NoDialog
      BY <2>4 DEF Form!Cancel, Form!Reload, Form!UseCurrent, Form!Done, Form!Unmounted
    <3> QED
      BY <1>2, <3>1, FormRecords
  <2>5. CASE ~(Form!Open \/ Form!Type \/ Form!TypeBack \/ Form!Cancel \/ Form!Reload \/ Form!UseCurrent \/ Form!Done)
    <3>1. /\ x3' = x3 /\ (x5' => x5)
          /\ x7' = x7 \/ x7' = Form!NoDialog \/ x3.open
      BY <2>5 DEF Form!Next, Form!OtherSaves, Form!CacheFollows, Form!KeepDraft, Form!Submit,
         Form!KeepMine, Form!Patched, Form!Lost, Form!Saved, Form!Conflict, Form!Failed, Form!screen
    <3> QED
      BY <1>0, <1>2, <3>1, FormRecords DEF TextsWritten, FormClosed
  <2> QED
    BY <2>1, <2>2, <2>3, <2>4, <2>5
<1>7. x4'.text \in WrittenTexts'
  <2>1. x4' = x4 \/ x4' = Form!NoDraft \/ x4'.text = x3.text
    BY DEF Form!Next, Form!OtherSaves, Form!CacheFollows, Form!Open, Form!Type, Form!TypeBack,
       Form!KeepDraft, Form!Cancel, Form!Reload, Form!Submit, Form!KeepMine, Form!UseCurrent,
       Form!Patched, Form!Lost, Form!Saved, Form!Done, Form!Conflict, Form!Failed, Form!StaysTyped,
       Form!screen
  <2> QED
    BY <1>0, <1>2, <2>1, FormRecords DEF TextsWritten
<1>8. x7'.mine \in WrittenTexts'
  <2>1. x7' = x7 \/ x7' = Form!NoDialog \/ x7'.mine = x6.text
    BY DEF Form!Next, Form!OtherSaves, Form!CacheFollows, Form!Open, Form!Type, Form!TypeBack,
       Form!KeepDraft, Form!Cancel, Form!Reload, Form!Submit, Form!KeepMine, Form!UseCurrent,
       Form!Patched, Form!Lost, Form!Saved, Form!Done, Form!Conflict, Form!Failed, Form!Unmounted,
       Form!screen
  <2> QED
    BY <1>0, <1>2, <2>1, FormRecords DEF TextsWritten
<1>9. x6'.text \in WrittenTexts'
  <2>1. x6' = Form!Idle \/ x6'.text = x6.text \/ x6'.text = x3.text \/ x6'.text = x7.mine
    BY PatchSteps DEF Form!Next
  <2> QED
    BY <1>0, <1>2, <2>1, FormRecords DEF TextsWritten
<1> QED
  BY <1>2, <1>3, <1>4, <1>5, <1>6, <1>7, <1>8, <1>9 DEF TextsWritten, FormClosed

\* What was typed is kept.
LEMMA FormKeeps == ASSUME FormInv, Form!Next PROVE TypedHolds'
<1>0. /\ TypedHolds /\ TextsWritten /\ FormClosed /\ x3 \in Forms /\ x4 \in Drafts /\ x7 \in Dialogs
      /\ x6 \in Patches /\ x12 \in Nat /\ x12 <= MaxTyped
  BY TabBounds DEF FormInv, Form!TypeOK, Forms, Drafts, Dialogs, Patches
<1>1. CASE Form!Type
  <2>1. /\ x3.open /\ x3' = [x3 EXCEPT !.text = x12'] /\ x5' /\ x8' = x12' /\ ~x7.on
        /\ UNCHANGED <<x1, x2, x4, x6, x7>> /\ x9' = (x6.pc # "idle") /\ x12' = x12 + 1
        /\ x12 < MaxTyped
    BY <1>1 DEF Form!Type
  <2>2. x3'.text = x12' /\ x3'.base = x3.base
    BY <1>0, <2>1 DEF Forms
  <2>3. \A text \in WrittenTexts : text # x12'
    BY <1>0, <2>1, TabBounds DEF WrittenTexts, Form!Foreign
  <2>4. CASE x6.pc = "idle"
    BY <1>0, <2>1, <2>2, <2>3, <2>4 DEF TypedHolds, TextsWritten
  <2>5. CASE x6.pc # "idle"
    BY <2>1, <2>5 DEF TypedHolds
  <2> QED
    BY <2>4, <2>5
<1>2. CASE Form!TypeBack \/ Form!Cancel \/ Form!UseCurrent
  BY <1>2 DEF Form!TypeBack, Form!Cancel, Form!UseCurrent, TypedHolds
<1>3. CASE x8 = Form!First /\ ~(Form!Type \/ Form!TypeBack \/ Form!Cancel \/ Form!UseCurrent)
  <2>1. x8' = Form!First
    BY <1>3 DEF Form!Next, Form!OtherSaves, Form!CacheFollows, Form!Open, Form!KeepDraft, Form!Reload,
       Form!Submit, Form!KeepMine, Form!Patched, Form!Lost, Form!Saved, Form!Done, Form!Conflict,
       Form!Failed, Form!history
  <2> QED
    BY <2>1 DEF TypedHolds
<1>4. CASE x9 /\ ~(Form!Type \/ Form!TypeBack \/ Form!Cancel \/ Form!UseCurrent)
  <2>1. x9'
    BY <1>4 DEF Form!Next, Form!OtherSaves, Form!CacheFollows, Form!Open, Form!KeepDraft, Form!Reload,
       Form!Submit, Form!KeepMine, Form!Patched, Form!Lost, Form!Saved, Form!Done, Form!Conflict,
       Form!Failed, Form!history
  <2> QED
    BY <2>1 DEF TypedHolds
<1>5. CASE x8 # Form!First /\ ~x9 /\ ~(Form!Type \/ Form!TypeBack \/ Form!Cancel \/ Form!UseCurrent)
  <2>0. /\ x8 \notin {x1.text, x2.text, x3.base}
        /\ x3.open => x3.text = x8
        /\ x7.on => x7.mine = x8
        /\ x6.pc # "idle" => x6.text = x8
        /\ ~(x6.pc = "answered" /\ x6.answer = "ok") /\ x6.pc # "refreshing"
        /\ x5 \/ (x4.kept /\ x4.text = x8)
        /\ x8 # Form!Foreign
    BY <1>0, <1>5, TabBounds DEF TypedHolds, TextsWritten, Form!Foreign
  <2>1. CASE Form!OtherSaves \/ Form!CacheFollows
    <3>1. /\ UNCHANGED <<x3, x4, x5, x7, x6, x8>>
          /\ x1'.text \in {x1.text, Form!Foreign} /\ x2'.text \in {x1.text, x2.text}
      BY <2>1 DEF Form!OtherSaves, Form!CacheFollows, Form!screen, Form!history
    <3> QED
      BY <2>0, <3>1 DEF TypedHolds
  <2>2. CASE Form!Open
    <3>1. /\ UNCHANGED <<x1, x2, x4, x5, x7, x6, x8>> /\ ~x3.open
          /\ x3'.base = x2.text /\ x3'.text = IF x4.kept THEN x4.text ELSE x2.text
      BY <2>2 DEF Form!Open
    <3> QED
      BY <1>0, <2>0, <3>1 DEF TypedHolds, FormClosed
  <2>3. CASE Form!KeepDraft
    <3>1. /\ UNCHANGED <<x1, x2, x3, x7, x6, x8>> /\ x5
          /\ x4' = IF x3.text = x3.base THEN Form!NoDraft
                                        ELSE [kept |-> TRUE, rev |-> x3.rev, text |-> x3.text]
      BY <2>3 DEF Form!KeepDraft, Form!history
    <3>2. x3.open /\ x3.text = x8
      BY <1>0, <2>0, <3>1 DEF FormClosed
    <3>3. x4'.kept /\ x4'.text = x8
      BY <2>0, <3>1, <3>2
    <3> QED
      BY <2>0, <3>1, <3>3 DEF TypedHolds
  <2>4. CASE Form!Reload
    <3>1. /\ x3' = Form!Closed /\ ~x5' /\ x7' = Form!NoDialog /\ x6' = Form!Idle /\ x2' = x1
          /\ UNCHANGED <<x1, x4, x8>> /\ x9' = (x9 \/ x5)
      BY <2>4 DEF Form!Reload, Form!Unmounted
    <3>2. CASE x5
      BY <3>1, <3>2 DEF TypedHolds
    <3>3. CASE ~x5
      BY <1>5, <2>0, <3>1, <3>3, FormRecords DEF TypedHolds
    <3> QED
      BY <3>2, <3>3
  <2>5. CASE Form!Submit \/ Form!KeepMine
    <3>1. UNCHANGED <<x1, x2, x3, x4, x5, x7, x8>> /\ (Form!Submit => x3.open) /\ (Form!KeepMine => x7.on)
      BY <2>5 DEF Form!Submit, Form!KeepMine, Form!screen, Form!history
    <3>2. x6'.pc = "sent" /\ x6'.text = x8
      BY <2>0, <2>5, <3>1, PatchSteps
    <3> QED
      BY <2>0, <3>1, <3>2 DEF TypedHolds
  <2>6. CASE Form!Patched
    <3>1. UNCHANGED <<x2, x3, x4, x5, x7>> /\ x6.pc = "sent"
      BY <2>6 DEF Form!Patched, Form!screen
    <3>2. x6'.pc = "answered" /\ x6'.text = x8
      BY <2>0, <2>6, <3>1, PatchSteps
    <3>3. CASE x6.rev = x1.rev
      <4>1. x8' = Form!First
        BY <2>0, <2>6, <3>1, <3>3 DEF Form!Patched
      <4> QED
        BY <4>1 DEF TypedHolds
    <3>4. CASE x6.rev # x1.rev
      <4>1. UNCHANGED <<x1, x8>>
        BY <2>6, <3>4 DEF Form!Patched
      <4>2. x6'.answer = "conflict"
        BY <2>6, <3>4, PatchSteps
      <4> QED
        BY <2>0, <3>1, <3>2, <4>1, <4>2 DEF TypedHolds
    <3> QED
      BY <3>3, <3>4
  <2>7. CASE Form!Lost
    <3>1. UNCHANGED <<x1, x2, x3, x4, x5, x7, x8>> /\ x6.pc # "idle"
      BY <2>7 DEF Form!Lost, Form!screen, Form!history
    <3>2. x6'.pc = "answered" /\ x6'.text = x8 /\ x6'.answer = "error"
      BY <2>0, <2>7, <3>1, PatchSteps
    <3> QED
      BY <2>0, <3>1, <3>2 DEF TypedHolds
  <2>8. CASE Form!Saved \/ Form!Done
    BY <2>0, <2>8 DEF Form!Saved, Form!Done
  <2>9. CASE Form!Conflict
    <3>1. UNCHANGED <<x1, x2, x3, x4, x5, x8>> /\ x6' = Form!Idle /\ x6.pc # "idle"
          /\ (x7' = x7 \/ x7'.mine = x6.text)
      BY <2>9 DEF Form!Conflict
    <3> QED
      BY <2>0, <3>1, FormRecords DEF TypedHolds
  <2>10. CASE Form!Failed
    <3>1. UNCHANGED <<x1, x2, x3, x4, x5, x7, x8>> /\ x6' = Form!Idle
      BY <2>10 DEF Form!Failed, Form!StaysTyped, Form!history
    <3> QED
      BY <2>0, <3>1, FormRecords DEF TypedHolds
  <2> QED
    BY <1>5, <2>1, <2>2, <2>3, <2>4, <2>5, <2>6, <2>7, <2>8, <2>9, <2>10 DEF Form!Next
<1> QED
  BY <1>1, <1>2, <1>3, <1>4, <1>5

\* Every step of the form keeps the invariant.
LEMMA FormSteps == ASSUME FormInv, Form!Next PROVE FormInv'
BY FormTypes, FormCounts, FormRevs, FormTexts, FormKeeps DEF FormInv

\* At first the form is closed.
LEMMA FormInit == Form!Init => FormInv
<1> SUFFICES ASSUME Form!Init PROVE FormInv
  OBVIOUS
<1>1. /\ x1 = [rev |-> 0, text |-> Form!First] /\ x2 = x1
      /\ x3 = Form!Closed /\ x4 = Form!NoDraft /\ x5 = FALSE /\ x6 = Form!Idle /\ x7 = Form!NoDialog
      /\ x8 = Form!First /\ x9 = FALSE /\ x10 = {} /\ x11 = FALSE
      /\ x12 = 0 /\ x13 = 0 /\ x14 = 0 /\ x15 = 0
  BY DEF Form!Init
<1>2. x1 \in Form!Copies /\ x1.rev = 0 /\ x1.text = Form!First /\ Form!First \in Form!Texts /\ 0 \in Form!Revs
  BY <1>1, TabBounds DEF Form!Copies, Form!Revs, Form!Texts, Form!First, Form!Foreign
<1>3. Form!First \in WrittenTexts
  BY <1>1 DEF WrittenTexts, Form!First
<1>4. RevsCounted
  BY <1>1, <1>2, FormRecords DEF RevsCounted
<1>5. RevsShown /\ FormClosed /\ TypedHolds /\ ~x11
  BY <1>1, FormRecords DEF RevsShown, FormClosed, TypedHolds
<1>6. x8 \in 0..x12
  BY <1>1 DEF Form!First
<1>7. TextsWritten
  BY <1>1, <1>2, <1>3, <1>6, FormRecords DEF TextsWritten
<1>8. x5 \in BOOLEAN /\ x9 \in BOOLEAN /\ x11 \in BOOLEAN
  BY <1>1
<1>9. x12 \in 0..MaxTyped /\ x13 \in 0..MaxOthers /\ x14 \in 0..MaxSaves /\ x15 \in 0..MoreFaults
  BY <1>1, TabBounds
<1>10. Form!TypeOK
  BY <1>1, <1>2, <1>8, <1>9, FormRecords DEF Form!TypeOK, Forms, Drafts, Patches, Dialogs
<1> QED
  BY <1>4, <1>5, <1>7, <1>10 DEF FormInv

\* What the invariant says of saving and of what was typed.
LEMMA FormHolds == FormInv => Form!NothingReplacedUnseen /\ Form!TypedIsKept
BY DEF FormInv, TypedHolds, FormClosed, Form!NothingReplacedUnseen, Form!TypedIsKept

-----------------------------------------------------------------------------
(* The editor of activities: x1 .. x16 are server, cache, entry, current,  *)
(* answer, fetch, edits, others, fetches, errors, pulls, conflict, real,   *)
(* confused, page and takes.                                               *)

\* What the entries, the answers to the PATCHes and the readings hold.
EntryRecords == [patch : Editor!Values, timer : BOOLEAN, saving : BOOLEAN]
Replies == [pc : {"none", "sent", "ok", "conflict", "error"}, patch : Editor!Values, rev : Editor!Revs, value : Editor!Values]
Fetches == [pc : {"none", "read"}, rev : Editor!Revs, value : Editor!Values]

\* The entries with something to send, and the PATCHes that may have to be sent again.
Unsent == {e \in Editor!Entries : x3[e].patch # Editor!Nothing}
Unsure == {e \in Editor!Entries : x5[e].pc \in {"sent", "error"}}

\* What is still to be sent is of an edit or of a PATCH without answer.
SendsCounted ==
  x1.rev + Cardinality(Unsent) + Cardinality(Unsure) <= x7 + x10 + x8 + x11

\* A PATCH is of an entry that is saving, of one the map held at some time.
PatchesHeld ==
  /\ \A e \in Editor!Entries : x5[e].pc # "none" => x3[e].saving
  /\ \A e \in Editor!Entries : e > x4 => x3[e] = Editor!NoPatch /\ x5[e] = Editor!NoAnswer

\* Unless something confused the tab, it has one PATCH on its way; what it shows is
\* pending or on its way, and its rev is that of the server or another administrator
\* saved.  While the body of an error is in the cache nothing is on its way.
TabKnows ==
  \/ x14
  \/ /\ \A e \in Editor!Entries : x5[e].pc # "none" => e = x4
     /\ x2.value = Editor!Junk => x5[x4].pc = "none"
     /\ x2.value # Editor!Junk =>
          /\ x3[x4].patch # Editor!Nothing => x2.value = x3[x4].patch
          /\ x3[x4].patch = Editor!Nothing /\ x5[x4].pc \in {"sent", "conflict", "error"} =>
               x2.value = x5[x4].patch
          /\ x5[x4].pc = "sent" => x5[x4].rev = x2.rev
          /\ x5[x4].pc = "conflict" => x13 \/ x5[x4].value = Editor!Junk
          /\ IF x5[x4].pc = "ok" THEN x5[x4].rev = x1.rev \/ x13
                                 ELSE x2.rev = x1.rev \/ x13

\* The editor of activities: its entries, its PATCHes, and what it shows.
EditorInv == Editor!TypeOK /\ SendsCounted /\ PatchesHeld /\ TabKnows

\* Sizes of sets of entries.
LEMMA EntrySets ==
  /\ \A A, B \in SUBSET Editor!Entries : A \subseteq B => Cardinality(A) <= Cardinality(B)
  /\ \A A, B \in SUBSET Editor!Entries, e \in Editor!Entries :
       A \subseteq B \cup {e} => Cardinality(A) <= Cardinality(B) + 1
  /\ \A A, B \in SUBSET Editor!Entries, e \in Editor!Entries :
       e \in B /\ A \subseteq B \ {e} => Cardinality(A) + 1 <= Cardinality(B)
  /\ \A A \in SUBSET Editor!Entries : Cardinality(A) \in Nat
<1>0. 0 \in Int /\ MaxDiscards \in Int
  BY TabBounds
<1>1. IsFiniteSet(Editor!Entries)
  BY <1>0, FS_Interval DEF Editor!Entries
<1>2. \A A \in SUBSET Editor!Entries : IsFiniteSet(A) /\ Cardinality(A) \in Nat
  BY <1>1, FS_Subset, FS_CardinalityType
<1>3. ASSUME NEW A \in SUBSET Editor!Entries, NEW B \in SUBSET Editor!Entries, A \subseteq B
      PROVE  Cardinality(A) <= Cardinality(B)
  BY <1>2, <1>3, FS_Subset
<1>4. ASSUME NEW A \in SUBSET Editor!Entries, NEW B \in SUBSET Editor!Entries,
             NEW e \in Editor!Entries, A \subseteq B \cup {e}
      PROVE  Cardinality(A) <= Cardinality(B) + 1
  <2>1. IsFiniteSet(B \cup {e}) /\ Cardinality(B \cup {e}) \in Nat
    BY <1>2
  <2>2. Cardinality(A) <= Cardinality(B \cup {e})
    BY <1>4, <2>1, FS_Subset
  <2>3. Cardinality(B \cup {e}) = Cardinality(B) \/ Cardinality(B \cup {e}) = Cardinality(B) + 1
    BY <1>2, FS_AddElement
  <2> QED
    BY <1>2, <2>1, <2>2, <2>3
<1>5. ASSUME NEW A \in SUBSET Editor!Entries, NEW B \in SUBSET Editor!Entries,
             NEW e \in Editor!Entries, e \in B, A \subseteq B \ {e}
      PROVE  Cardinality(A) + 1 <= Cardinality(B)
  <2>1. IsFiniteSet(B \ {e}) /\ Cardinality(B \ {e}) \in Nat
    BY <1>2
  <2>2. Cardinality(A) <= Cardinality(B \ {e})
    BY <1>5, <2>1, FS_Subset
  <2>3. Cardinality(B \ {e}) = Cardinality(B) - 1
    BY <1>2, <1>5, FS_RemoveElement
  <2> QED
    BY <1>2, <2>1, <2>2, <2>3
<1> QED
  BY <1>2, <1>3, <1>4, <1>5

\* The fields of the entries and of the answers.
WithEntry(E, c, p) == [E EXCEPT ![c].patch = p]
TimerSet(E, c) == [E EXCEPT ![c].timer = TRUE]
TimerClear(E, c) == [E EXCEPT ![c].timer = FALSE]
WithSaving(E, c, s) == [E EXCEPT ![c].saving = s]
LEMMA EntryFields ==
  ASSUME NEW E \in [Editor!Entries -> EntryRecords], NEW c \in Editor!Entries
  PROVE  /\ \A p \in Editor!Values :
              /\ WithEntry(E, c, p) \in [Editor!Entries -> EntryRecords]
              /\ WithEntry(E, c, p)[c].patch = p /\ WithEntry(E, c, p)[c].saving = E[c].saving
              /\ \A e \in Editor!Entries : e # c => WithEntry(E, c, p)[e] = E[e]
         /\ TimerSet(E, c) \in [Editor!Entries -> EntryRecords]
         /\ TimerSet(E, c)[c].patch = E[c].patch /\ TimerSet(E, c)[c].saving = E[c].saving
         /\ \A e \in Editor!Entries : e # c => TimerSet(E, c)[e] = E[e]
         /\ TimerClear(E, c) \in [Editor!Entries -> EntryRecords]
         /\ TimerClear(E, c)[c].patch = E[c].patch /\ TimerClear(E, c)[c].saving = E[c].saving
         /\ \A e \in Editor!Entries : e # c => TimerClear(E, c)[e] = E[e]
         /\ \A s \in BOOLEAN :
              /\ WithSaving(E, c, s) \in [Editor!Entries -> EntryRecords]
              /\ WithSaving(E, c, s)[c].patch = E[c].patch /\ WithSaving(E, c, s)[c].saving = s
              /\ \A e \in Editor!Entries : e # c => WithSaving(E, c, s)[e] = E[e]
<1>1. ASSUME NEW p \in Editor!Values
      PROVE  /\ WithEntry(E, c, p) \in [Editor!Entries -> EntryRecords]
             /\ WithEntry(E, c, p)[c].patch = p /\ WithEntry(E, c, p)[c].saving = E[c].saving
             /\ \A e \in Editor!Entries : e # c => WithEntry(E, c, p)[e] = E[e]
  BY DEF WithEntry, EntryRecords
<1>2. /\ TimerSet(E, c) \in [Editor!Entries -> EntryRecords]
      /\ TimerSet(E, c)[c].patch = E[c].patch /\ TimerSet(E, c)[c].saving = E[c].saving
      /\ \A e \in Editor!Entries : e # c => TimerSet(E, c)[e] = E[e]
  BY DEF TimerSet, EntryRecords
<1>4. /\ TimerClear(E, c) \in [Editor!Entries -> EntryRecords]
      /\ TimerClear(E, c)[c].patch = E[c].patch /\ TimerClear(E, c)[c].saving = E[c].saving
      /\ \A e \in Editor!Entries : e # c => TimerClear(E, c)[e] = E[e]
  BY DEF TimerClear, EntryRecords
<1>3. ASSUME NEW s \in BOOLEAN
      PROVE  /\ WithSaving(E, c, s) \in [Editor!Entries -> EntryRecords]
             /\ WithSaving(E, c, s)[c].patch = E[c].patch /\ WithSaving(E, c, s)[c].saving = s
             /\ \A e \in Editor!Entries : e # c => WithSaving(E, c, s)[e] = E[e]
  BY DEF WithSaving, EntryRecords
<1> QED
  BY <1>1, <1>2, <1>3, <1>4

\* The constants of the editor, and the texts.
LEMMA EditorRecords ==
  /\ Editor!NoPatch \in EntryRecords /\ Editor!NoPatch.patch = Editor!Nothing /\ ~Editor!NoPatch.saving
  /\ Editor!NoAnswer \in Replies /\ Editor!NoAnswer.pc = "none" /\ Editor!NoFetch \in Fetches
  /\ Editor!Nothing \in Editor!Values /\ Editor!Foreign \in Editor!Values
  /\ Editor!Junk \in Editor!Values /\ 0 \in Editor!Revs
  /\ \A p, v \in Editor!Values : Editor!Or(p, v) \in Editor!Values
<1>1. /\ Editor!Nothing \in Editor!Values /\ Editor!Foreign \in Editor!Values
      /\ Editor!Junk \in Editor!Values /\ 0 \in Editor!Revs
  BY TabBounds DEF Editor!Nothing, Editor!Values, Editor!Foreign, Editor!Junk, Editor!Revs
<1>2. Editor!NoPatch \in EntryRecords /\ Editor!NoPatch.patch = Editor!Nothing /\ ~Editor!NoPatch.saving
  BY <1>1 DEF Editor!NoPatch, EntryRecords
<1>3. Editor!NoAnswer \in Replies /\ Editor!NoAnswer.pc = "none" /\ Editor!NoFetch \in Fetches
  BY <1>1 DEF Editor!NoAnswer, Replies, Editor!NoFetch, Fetches
<1>4. \A p, v \in Editor!Values : Editor!Or(p, v) \in Editor!Values
  BY DEF Editor!Or
<1> QED
  BY <1>1, <1>2, <1>3, <1>4

\* What finally leaves of the entries.
LEMMA FreedEntries ==
  ASSUME EditorInv, NEW e \in Editor!Entries, NEW p \in Editor!Values
  PROVE  /\ Editor!Freed(e, p) \in [Editor!Entries -> EntryRecords]
         /\ Editor!Freed(e, p)[e].patch = p /\ ~Editor!Freed(e, p)[e].saving
         /\ \A d \in Editor!Entries : d # e => Editor!Freed(e, p)[d].patch = x3[d].patch /\ Editor!Freed(e, p)[d].saving = x3[d].saving
         /\ \A d \in Editor!Entries : d # e /\ d # x4 => Editor!Freed(e, p)[d] = x3[d]
<1>0. x3 \in [Editor!Entries -> EntryRecords] /\ x4 \in Editor!Entries
  BY DEF EditorInv, Editor!TypeOK, EntryRecords
<1> DEFINE E == WithSaving(WithEntry(x3, e, p), e, FALSE)
           F == TimerSet(E, x4)
<1>1. Editor!Freed(e, p) = IF p # Editor!Nothing THEN F ELSE E
  BY DEF Editor!Freed, Editor!Scheduled, WithSaving, WithEntry, TimerSet
<1>2. /\ E \in [Editor!Entries -> EntryRecords] /\ E[e].patch = p /\ ~E[e].saving
      /\ \A d \in Editor!Entries : d # e => E[d] = x3[d]
  <2> DEFINE G == WithEntry(x3, e, p)
  <2>1. G \in [Editor!Entries -> EntryRecords] /\ G[e].patch = p /\ \A d \in Editor!Entries : d # e => G[d] = x3[d]
    BY <1>0, EntryFields
  <2> HIDE DEF G
  <2>2. /\ WithSaving(G, e, FALSE) \in [Editor!Entries -> EntryRecords]
        /\ WithSaving(G, e, FALSE)[e].patch = p
        /\ WithSaving(G, e, FALSE)[e].saving = FALSE
        /\ \A d \in Editor!Entries : d # e => WithSaving(G, e, FALSE)[d] = G[d]
    BY <2>1, EntryFields
  <2> USE DEF G
  <2> QED
    BY <2>1, <2>2
<1> HIDE DEF E
<1>3. /\ F \in [Editor!Entries -> EntryRecords] /\ F[x4].patch = E[x4].patch
      /\ F[x4].saving = E[x4].saving
      /\ \A d \in Editor!Entries : d # x4 => F[d] = E[d]
  BY <1>0, <1>2, EntryFields
<1> HIDE DEF F
<1> QED
  BY <1>0, <1>1, <1>2, <1>3

\* Sending what is pending, or clearing the timer.
LEMMA SendMoves ==
  ASSUME EditorInv, Editor!Send
  PROVE  /\ x3' \in [Editor!Entries -> EntryRecords] /\ x5' \in [Editor!Entries -> Replies]
         /\ \A e \in Editor!Entries : e # x4 => x3'[e] = x3[e] /\ x5'[e] = x5[e]
         /\ IF Editor!MaySend(x4)
            THEN /\ x3'[x4].patch = Editor!Nothing /\ x3'[x4].saving
                 /\ x5'[x4].pc = "sent" /\ x5'[x4].patch = x3[x4].patch
                 /\ x5'[x4].rev = x2.rev
            ELSE /\ x3'[x4].patch = x3[x4].patch
                 /\ x3'[x4].saving = x3[x4].saving
                 /\ x5' = x5
<1>0. /\ x3 \in [Editor!Entries -> EntryRecords] /\ x4 \in Editor!Entries
      /\ x5 \in [Editor!Entries -> Replies]
      /\ x2.rev \in Editor!Revs /\ x3[x4].patch \in Editor!Values
  BY DEF EditorInv, Editor!TypeOK, EntryRecords, Replies, Editor!Copies
<1>1. CASE Editor!MaySend(x4)
  <2> DEFINE r == [pc |-> "sent", patch |-> x3[x4].patch, rev |-> x2.rev, value |-> Editor!Nothing]
             n == [patch |-> Editor!Nothing, timer |-> FALSE, saving |-> TRUE]
  <2>1. x3' = [x3 EXCEPT ![x4] = n] /\ x5' = [x5 EXCEPT ![x4] = r]
    BY <1>1 DEF Editor!Send
  <2>2. r \in Replies /\ r.pc = "sent" /\ r.patch = x3[x4].patch /\ r.rev = x2.rev
    BY <1>0, EditorRecords DEF Replies
  <2>3. n \in EntryRecords /\ n.patch = Editor!Nothing /\ n.saving
    BY EditorRecords DEF EntryRecords
  <2> HIDE DEF r, n
  <2> QED
    BY <1>0, <1>1, <2>1, <2>2, <2>3
<1>2. CASE ~Editor!MaySend(x4)
  <2>1. x3' = TimerClear(x3, x4) /\ x5' = x5
    BY <1>2 DEF Editor!Send, TimerClear
  <2> QED
    BY <1>0, <1>2, <2>1, EntryFields
<1> QED
  BY <1>1, <1>2

\* The answer of the server, or none.
LEMMA ReplyMoves ==
  ASSUME EditorInv, NEW e \in Editor!Entries
  PROVE  /\ \A pc \in {"ok", "conflict"}, copy \in Editor!Copies :
              Editor!Reply(e, pc, copy) =>
                /\ x5' \in [Editor!Entries -> Replies] /\ x5'[e].pc = pc /\ x5'[e].patch = x5[e].patch
                /\ x5'[e].rev = copy.rev /\ x5'[e].value = copy.value
                /\ \A d \in Editor!Entries : d # e => x5'[d] = x5[d]
         /\ x5' = [x5 EXCEPT ![e].pc = "error"] =>
              /\ x5' \in [Editor!Entries -> Replies] /\ x5'[e].pc = "error"
              /\ x5'[e].patch = x5[e].patch
              /\ \A d \in Editor!Entries : d # e => x5'[d] = x5[d]
         /\ Editor!Done(e) =>
              /\ x5' \in [Editor!Entries -> Replies] /\ x5'[e] = Editor!NoAnswer
              /\ \A d \in Editor!Entries : d # e => x5'[d] = x5[d]
<1>0. x5 \in [Editor!Entries -> Replies]
  BY DEF EditorInv, Editor!TypeOK, Replies
<1>1. ASSUME NEW pc \in {"ok", "conflict"}, NEW copy \in Editor!Copies, Editor!Reply(e, pc, copy)
      PROVE  /\ x5' \in [Editor!Entries -> Replies] /\ x5'[e].pc = pc /\ x5'[e].patch = x5[e].patch
             /\ x5'[e].rev = copy.rev /\ x5'[e].value = copy.value
             /\ \A d \in Editor!Entries : d # e => x5'[d] = x5[d]
  <2>1. PICK rev \in Editor!Revs, value \in Editor!Values : rev = copy.rev /\ value = copy.value
    BY DEF Editor!Copies
  <2>2. x5' = [x5 EXCEPT ![e] = [x5[e] EXCEPT !.pc = pc, !.rev = rev, !.value = value]]
    BY <1>0, <1>1, <2>1 DEF Editor!Reply
  <2>3. [x5[e] EXCEPT !.pc = pc, !.rev = rev, !.value = value] \in Replies
    BY <1>0 DEF Replies
  <2>4. /\ [x5[e] EXCEPT !.pc = pc, !.rev = rev, !.value = value].pc = pc
        /\ [x5[e] EXCEPT !.pc = pc, !.rev = rev, !.value = value].rev = rev
        /\ [x5[e] EXCEPT !.pc = pc, !.rev = rev, !.value = value].value = value
        /\ [x5[e] EXCEPT !.pc = pc, !.rev = rev, !.value = value].patch = x5[e].patch
    BY <1>0 DEF Replies
  <2> QED
    BY <1>0, <2>1, <2>2, <2>3, <2>4
<1>2. ASSUME x5' = [x5 EXCEPT ![e].pc = "error"]
      PROVE  /\ x5' \in [Editor!Entries -> Replies] /\ x5'[e].pc = "error"
             /\ x5'[e].patch = x5[e].patch
             /\ \A d \in Editor!Entries : d # e => x5'[d] = x5[d]
  BY <1>0, <1>2 DEF Replies
<1>3. ASSUME Editor!Done(e)
      PROVE  /\ x5' \in [Editor!Entries -> Replies] /\ x5'[e] = Editor!NoAnswer
             /\ \A d \in Editor!Entries : d # e => x5'[d] = x5[d]
  BY <1>0, <1>3, EditorRecords DEF Editor!Done
<1> QED
  BY <1>1, <1>2, <1>3

\* What is left to count: what is pending and what may be sent again.
LEMMA EditorCounts ==
  ASSUME EditorInv
  PROVE  /\ Cardinality(Unsent) \in Nat /\ Cardinality(Unsure) \in Nat
         /\ Unsent' \in SUBSET Editor!Entries /\ Unsure' \in SUBSET Editor!Entries
         /\ Unsent \in SUBSET Editor!Entries /\ Unsure \in SUBSET Editor!Entries
         /\ Cardinality(Unsent') \in Nat /\ Cardinality(Unsure') \in Nat
         /\ x1.rev \in Nat /\ x7 \in 0..MaxEdits /\ x10 \in 0..MaxErrors
         /\ x8 \in 0..MaxOthers /\ x11 \in 0..MaxPulls /\ SendsCounted
<1>1. /\ Unsent' \in SUBSET Editor!Entries /\ Unsure' \in SUBSET Editor!Entries
      /\ Unsent \in SUBSET Editor!Entries /\ Unsure \in SUBSET Editor!Entries
  BY DEF Unsent, Unsure
<1>2. x1.rev \in Nat
  BY TabBounds DEF EditorInv, Editor!TypeOK, Editor!Copies, Editor!Revs
<1> QED
  BY <1>1, <1>2, EntrySets DEF EditorInv, Editor!TypeOK

\* The rev of a text that is stored is one of the revs.
LEMMA StoredIsCopy ==
  ASSUME EditorInv, NEW value \in Editor!Values, x1' = Editor!Stored(value),
         x1.rev + 1 <= x7' + x10' + x8' + x11',
         x7' <= MaxEdits, x10' <= MaxErrors, x8' <= MaxOthers, x11' <= MaxPulls,
         x7' \in Nat, x10' \in Nat, x8' \in Nat, x11' \in Nat
  PROVE  x1' \in Editor!Copies /\ x1'.rev = x1.rev + 1
<1>1. x1.rev \in Nat
  BY EditorCounts
<1>2. x1.rev + 1 \in Editor!Revs
  BY <1>1, TabBounds DEF Editor!Revs
<1>3. x1' = [rev |-> x1.rev + 1, value |-> value]
  BY DEF Editor!Stored
<1> QED
  BY <1>2, <1>3 DEF Editor!Copies

\* What a step of the editor has to keep.
EditorKept ==
  /\ x1' \in Editor!Copies /\ x2' \in Editor!Copies /\ x6' \in Fetches
  /\ x3' \in [Editor!Entries -> EntryRecords] /\ x5' \in [Editor!Entries -> Replies]
  /\ SendsCounted' /\ PatchesHeld' /\ TabKnows'
  /\ Editor!ConflictIsReal

\* What the invariant says of the records and of the entries.
LEMMA EditorFacts ==
  ASSUME EditorInv
  PROVE  /\ x1 \in Editor!Copies /\ x2 \in Editor!Copies /\ x6 \in Fetches
         /\ x3 \in [Editor!Entries -> EntryRecords] /\ x5 \in [Editor!Entries -> Replies]
         /\ x4 \in Editor!Entries /\ x4 \in Nat
         /\ \A e \in Editor!Entries : /\ x5[e].pc # "none" => x3[e].saving
                                      /\ e > x4 => x3[e] = Editor!NoPatch /\ x5[e] = Editor!NoAnswer
                                      /\ x5[e].pc # "none" => ~(e > x4)
                                      /\ x3[e].patch \in Editor!Values /\ x5[e].patch \in Editor!Values
                                      /\ x5[e].rev \in Editor!Revs /\ x5[e].value \in Editor!Values
         /\ TabKnows
<1>1. /\ x1 \in Editor!Copies /\ x2 \in Editor!Copies /\ x6 \in Fetches
      /\ x3 \in [Editor!Entries -> EntryRecords] /\ x5 \in [Editor!Entries -> Replies]
      /\ x4 \in Editor!Entries /\ PatchesHeld /\ TabKnows
  BY DEF EditorInv, Editor!TypeOK, EntryRecords, Replies, Fetches
<1>2. x4 \in Nat
  BY <1>1, TabBounds DEF Editor!Entries
<1>3. \A e \in Editor!Entries : /\ x3[e].patch \in Editor!Values /\ x5[e].patch \in Editor!Values
                                /\ x5[e].rev \in Editor!Revs /\ x5[e].value \in Editor!Values
  BY <1>1 DEF EntryRecords, Replies
<1> QED
  BY <1>1, <1>2, <1>3, EditorRecords DEF PatchesHeld

\* Typing.
LEMMA EditorTypes == ASSUME EditorInv, Editor!Save PROVE EditorKept
<1>0. /\ x3 \in [Editor!Entries -> EntryRecords] /\ x4 \in Editor!Entries /\ x2 \in Editor!Copies
  BY EditorFacts
<1>1. /\ x7 < MaxEdits /\ x7' = x7 + 1 /\ ~x12'
      /\ x2' = IF x2.value = Editor!Junk THEN x2 ELSE [x2 EXCEPT !.value = x7']
      /\ UNCHANGED <<x1, x4, x5, x6, x8, x10, x11, x13, x14>>
  BY DEF Editor!Save, Editor!Cached
<1>2. x7' \in Editor!Values /\ x7' # Editor!Nothing
  BY <1>1, EditorCounts, TabBounds DEF Editor!Values, Editor!Nothing, Editor!Junk
<1>3. /\ x2' \in Editor!Copies /\ x2'.rev = x2.rev
      /\ x2'.value = IF x2.value = Editor!Junk THEN x2.value ELSE x7'
  BY <1>0, <1>1, <1>2 DEF Editor!Copies
<1>4. /\ x3' \in [Editor!Entries -> EntryRecords] /\ x3'[x4].patch = x7'
      /\ x3'[x4].saving = x3[x4].saving
      /\ \A d \in Editor!Entries : d # x4 => x3'[d] = x3[d]
  <2> DEFINE E == WithEntry(x3, x4, x7')
  <2>1. PICK n \in Editor!Values : n = x7'
    BY <1>2
  <2>2. x3' = TimerSet(WithEntry(x3, x4, n), x4)
    BY <2>1 DEF Editor!Save, Editor!Scheduled, TimerSet, WithEntry
  <2>3. /\ WithEntry(x3, x4, n) \in [Editor!Entries -> EntryRecords]
        /\ WithEntry(x3, x4, n)[x4].patch = n
        /\ WithEntry(x3, x4, n)[x4].saving = x3[x4].saving
        /\ \A d \in Editor!Entries : d # x4 => WithEntry(x3, x4, n)[d] = x3[d]
    BY <1>0, EntryFields
  <2> QED
    BY <1>0, <2>1, <2>2, <2>3, EntryFields
<1>5. SendsCounted'
  <2>1. Unsent' \subseteq Unsent \cup {x4} /\ Unsure' \subseteq Unsure
    BY <1>1, <1>4 DEF Unsent, Unsure
  <2>2. Cardinality(Unsent') <= Cardinality(Unsent) + 1 /\ Cardinality(Unsure') <= Cardinality(Unsure)
    BY <1>0, <2>1, EditorCounts, EntrySets
  <2> QED
    BY <1>1, <2>2, EditorCounts DEF SendsCounted
<1>6. PatchesHeld'
  BY <1>0, <1>1, <1>4, EditorFacts DEF PatchesHeld
<1>7. TabKnows'
  <2>1. CASE x14
    BY <1>1, <2>1 DEF TabKnows
  <2>2. CASE ~x14 /\ x2.value = Editor!Junk
    BY <1>1, <1>3, <2>2, EditorFacts DEF TabKnows
  <2>3. CASE ~x14 /\ x2.value # Editor!Junk
    <3>1. x2'.value = x7' /\ x3'[x4].patch = x7'
      BY <1>3, <1>4, <2>3
    <3>2. x2'.value # Editor!Junk
      BY <1>1, <3>1, EditorCounts, TabBounds DEF Editor!Junk
    <3> QED
      BY <1>0, <1>1, <1>2, <1>3, <2>3, <3>1, <3>2, EditorFacts DEF TabKnows
  <2> QED
    BY <2>1, <2>2, <2>3
<1> QED
  BY <1>1, <1>3, <1>4, <1>5, <1>6, <1>7, EditorFacts DEF EditorKept, Editor!ConflictIsReal

\* Sending.
LEMMA EditorSends ==
  ASSUME EditorInv, Editor!Send,
         UNCHANGED <<x1, x2, x4, x6, x7, x8, x10, x11, x12, x13, x14>>
  PROVE  EditorKept
<1>0. x4 \in Editor!Entries
  BY EditorFacts
<1>1. /\ Editor!Send
      /\ UNCHANGED <<x1, x2, x4, x6, x7, x8, x10, x11, x12, x13, x14>>
  OBVIOUS
<1>2. CASE Editor!MaySend(x4)
  <2>1. x3[x4].patch # Editor!Nothing /\ x5[x4].pc = "none" /\ x2.value # Editor!Junk
    BY <1>0, <1>2, EditorFacts DEF Editor!MaySend
  <2>2. Unsent' \subseteq Unsent \ {x4} /\ x4 \in Unsent /\ Unsure' \subseteq Unsure \cup {x4}
    BY <1>0, <1>1, <1>2, <2>1, SendMoves DEF Unsent, Unsure
  <2>3. Cardinality(Unsent') + 1 <= Cardinality(Unsent) /\ Cardinality(Unsure') <= Cardinality(Unsure) + 1
    BY <1>0, <2>2, EditorCounts, EntrySets
  <2>4. SendsCounted'
    BY <1>1, <2>3, EditorCounts DEF SendsCounted
  <2>5. PatchesHeld'
    BY <1>0, <1>1, <1>2, SendMoves, EditorFacts DEF PatchesHeld
  <2>6. TabKnows'
    BY <1>0, <1>1, <1>2, <2>1, SendMoves, EditorFacts DEF TabKnows
  <2> QED
    BY <1>1, <2>4, <2>5, <2>6, SendMoves, EditorFacts DEF EditorKept, Editor!ConflictIsReal
<1>3. CASE ~Editor!MaySend(x4)
  <2>1. Unsent' \subseteq Unsent /\ Unsure' \subseteq Unsure
    BY <1>0, <1>1, <1>3, SendMoves DEF Unsent, Unsure
  <2>2. Cardinality(Unsent') <= Cardinality(Unsent) /\ Cardinality(Unsure') <= Cardinality(Unsure)
    BY <2>1, EditorCounts, EntrySets
  <2>3. SendsCounted'
    BY <1>1, <2>2, EditorCounts DEF SendsCounted
  <2>4. PatchesHeld'
    BY <1>0, <1>1, <1>3, SendMoves, EditorFacts DEF PatchesHeld
  <2>5. TabKnows'
    BY <1>0, <1>1, <1>3, SendMoves, EditorFacts DEF TabKnows
  <2> QED
    BY <1>1, <2>3, <2>4, <2>5, SendMoves, EditorFacts DEF EditorKept, Editor!ConflictIsReal
<1> QED
  BY <1>2, <1>3

\* Another administrator saves, or an activity this one leads to is deleted.
LEMMA EditorOthers == ASSUME EditorInv, Editor!Other \/ Editor!Pull PROVE EditorKept
<1>1. /\ UNCHANGED <<x2, x3, x4, x5, x6, x7, x10, x12>>
      /\ \/ x8 < MaxOthers /\ x8' = x8 + 1 /\ x11' = x11
         \/ x11 < MaxPulls /\ x11' = x11 + 1 /\ x8' = x8
      /\ x13' \/ x14'
  BY DEF Editor!Other, Editor!Pull
<1>2. PICK value \in Editor!Values : x1' = Editor!Stored(value)
  <2>1. x1.value \in Editor!Values
    BY EditorFacts DEF Editor!Copies
  <2> QED
    BY <2>1, EditorRecords DEF Editor!Other, Editor!Pull
<1>3. Unsent' = Unsent /\ Unsure' = Unsure
  BY <1>1 DEF Unsent, Unsure
<1>4. x1.rev + 1 <= x7' + x10' + x8' + x11'
  BY <1>1, EditorCounts DEF SendsCounted
<1>6. /\ x7' <= MaxEdits /\ x10' <= MaxErrors /\ x8' <= MaxOthers /\ x11' <= MaxPulls
      /\ x7' \in Nat /\ x10' \in Nat /\ x8' \in Nat /\ x11' \in Nat
  BY <1>1, EditorCounts, TabBounds
<1>5. x1' \in Editor!Copies /\ x1'.rev = x1.rev + 1
  BY <1>2, <1>4, <1>6, StoredIsCopy
<1>7. SendsCounted'
  BY <1>1, <1>3, <1>5, EditorCounts DEF SendsCounted
<1>8. PatchesHeld'
  BY <1>1, EditorFacts DEF PatchesHeld
<1>9. TabKnows'
  <2>1. x14 => x14'
    BY DEF Editor!Other, Editor!Pull
  <2>2. ~x14' => x13'
    BY <1>1
  <2> QED
    BY <1>1, <2>1, <2>2, EditorFacts DEF TabKnows
<1> QED
  BY <1>1, <1>5, <1>7, <1>8, <1>9, EditorFacts DEF EditorKept, Editor!ConflictIsReal

\* The timer fires, the editor is left, its page is closed, or the server comes to refuse.
LEMMA EditorMoves ==
  ASSUME EditorInv, Editor!Flush \/ Editor!Unmount \/ Editor!Close \/ Editor!Turn
  PROVE  EditorKept
<1>1. UNCHANGED <<x1, x2, x4, x6, x7, x8, x10, x11, x12, x13, x14>>
  BY DEF Editor!Flush, Editor!Unmount, Editor!Close, Editor!Turn, Editor!count
<1>2. CASE Editor!Send
  BY <1>1, <1>2, EditorSends
<1>3. CASE UNCHANGED <<x3, x5>>
  <2>1. Unsent' = Unsent /\ Unsure' = Unsure
    BY <1>1, <1>3 DEF Unsent, Unsure
  <2>2. SendsCounted' /\ PatchesHeld'
    BY <1>1, <1>3, <2>1, EditorCounts, EditorFacts DEF SendsCounted, PatchesHeld
  <2>3. TabKnows'
    BY <1>1, <1>3, EditorFacts DEF TabKnows
  <2> QED
    BY <1>1, <1>3, <2>2, <2>3, EditorFacts DEF EditorKept, Editor!ConflictIsReal
<1> QED
  BY <1>2, <1>3 DEF Editor!Flush, Editor!Unmount, Editor!Close, Editor!Turn

\* Fetching the version again.
LEMMA EditorFetches == ASSUME EditorInv, Editor!Fetch \/ Editor!Fetched PROVE EditorKept
<1>1. UNCHANGED <<x1, x3, x4, x5, x7, x8, x10, x11, x12>>
  BY DEF Editor!Fetch, Editor!Fetched, Editor!count
<1>2. Unsent' = Unsent /\ Unsure' = Unsure
  BY <1>1 DEF Unsent, Unsure
<1>3. SendsCounted' /\ PatchesHeld'
  BY <1>1, <1>2, EditorCounts, EditorFacts DEF SendsCounted, PatchesHeld
<1>4. CASE Editor!Fetch
  <2>1. UNCHANGED <<x2, x13, x14>> /\ x6' = [pc |-> "read", rev |-> x1.rev, value |-> x1.value]
    BY <1>4 DEF Editor!Fetch
  <2>2. x6' \in Fetches
    BY <2>1, EditorFacts DEF Fetches, Editor!Copies
  <2>3. TabKnows'
    BY <1>1, <2>1, EditorFacts DEF TabKnows
  <2> QED
    BY <1>1, <1>3, <2>1, <2>2, <2>3, EditorFacts DEF EditorKept, Editor!ConflictIsReal
<1>5. CASE Editor!Fetched
  <2>1. /\ x2' = [rev |-> x6.rev, value |-> x6.value] /\ x6' = Editor!NoFetch
        /\ x13' = (x6.rev # x1.rev)
        /\ x14' = (x14 \/ \E e \in Editor!Entries : x3[e] # Editor!NoPatch)
    BY <1>5 DEF Editor!Fetched
  <2>2. x6.rev \in Editor!Revs /\ x6.value \in Editor!Values
    BY EditorFacts DEF Fetches
  <2>3. x2' \in Editor!Copies /\ x2'.rev = x6.rev
    BY <2>1, <2>2 DEF Editor!Copies
  <2>4. ASSUME x14' PROVE TabKnows'
    BY <2>4 DEF TabKnows
  <2>5. ASSUME ~x14' PROVE TabKnows'
    <3>1. \A e \in Editor!Entries : x3[e].patch = Editor!Nothing /\ x5[e].pc = "none"
      BY <2>1, <2>5, EditorFacts, EditorRecords
    <3>2. x2'.rev = x1'.rev \/ x13'
      BY <1>1, <2>1, <2>3
    <3> QED
      BY <1>1, <3>1, <3>2, EditorFacts DEF TabKnows
  <2> QED
    BY <1>1, <1>3, <2>1, <2>3, <2>4, <2>5, EditorFacts, EditorRecords DEF EditorKept,
       Editor!ConflictIsReal
<1> QED
  BY <1>4, <1>5

\* What is pending is discarded.
LEMMA EditorDiscards == ASSUME EditorInv, Editor!Discard PROVE EditorKept /\ x4' \in Editor!Entries
<1>0. x4 \in Editor!Entries /\ x4 \in Nat /\ x3 \in [Editor!Entries -> EntryRecords]
  BY EditorFacts
<1>1. /\ UNCHANGED <<x1, x2, x5, x6, x7, x8, x10, x11, x12, x13>>
      /\ x4 < MaxDiscards /\ x4' = x4 + 1
      /\ x3' = TimerClear(x3, x4)
      /\ x14' = (x14 \/ x3[x4].saving)
  BY DEF Editor!Discard, TimerClear, Editor!count
<1>2. x4' \in Editor!Entries /\ x4' > x4
  BY <1>0, <1>1, TabBounds DEF Editor!Entries
<1>3. /\ x3' \in [Editor!Entries -> EntryRecords] /\ x3'[x4].patch = x3[x4].patch
      /\ x3'[x4].saving = x3[x4].saving
      /\ \A d \in Editor!Entries : d # x4 => x3'[d] = x3[d]
  BY <1>0, <1>1, EntryFields
<1>4. Unsent' \subseteq Unsent /\ Unsure' = Unsure
  BY <1>0, <1>1, <1>3 DEF Unsent, Unsure
<1>5. Cardinality(Unsent') <= Cardinality(Unsent)
  BY <1>4, EditorCounts, EntrySets
<1>6. SendsCounted'
  BY <1>1, <1>4, <1>5, EditorCounts DEF SendsCounted
<1>7. PatchesHeld'
  <2>1. \A e \in Editor!Entries : e > x4' => e > x4 /\ e # x4
    BY <1>0, <1>1, TabBounds DEF Editor!Entries
  <2> QED
    BY <1>0, <1>1, <1>3, <2>1, EditorFacts DEF PatchesHeld
<1>8. TabKnows'
  <2>1. CASE x14'
    BY <2>1 DEF TabKnows
  <2>2. CASE ~x14'
    <3>1. ~x14 /\ ~x3[x4].saving
      BY <1>1, <2>2
    <3>2. x5[x4].pc = "none"
      BY <1>0, <3>1, EditorFacts
    <3>3. \A e \in Editor!Entries : x5[e].pc = "none"
      BY <3>1, <3>2, EditorFacts DEF TabKnows
    <3>4. x2.value # Editor!Junk => x2.rev = x1.rev \/ x13
      BY <3>1, <3>2, EditorFacts DEF TabKnows
    <3>5. x3'[x4'].patch = Editor!Nothing
      BY <1>0, <1>2, <1>3, EditorFacts, EditorRecords
    <3> QED
      BY <1>1, <1>2, <3>3, <3>4, <3>5 DEF TabKnows
  <2> QED
    BY <2>1, <2>2
<1> QED
  BY <1>1, <1>2, <1>3, <1>6, <1>7, <1>8, EditorFacts DEF EditorKept, Editor!ConflictIsReal

\* The server answers.
LEMMA EditorPatches ==
  ASSUME EditorInv, NEW e \in Editor!Entries, Editor!Patched(e)
  PROVE  EditorKept
<1>1. /\ x5[e].pc = "sent"
      /\ UNCHANGED <<x2, x3, x4, x6, x7, x8, x10, x11, x12, x14>>
  BY DEF Editor!Patched, Editor!count
<1>2. Unsent' = Unsent
  BY <1>1 DEF Unsent
<1>3. CASE Editor!IsCurrent(x5[e].rev) /\ x1' = Editor!Stored(x5[e].patch) /\ Editor!Reply(e, "ok", x1') /\ x13' = FALSE
  <2>1. x1.rev + 1 <= x7 + x10 + x8 + x11 /\ Cardinality(Unsure) >= 1
    <3>1. {} \subseteq Unsure \ {e} /\ e \in Unsure
      BY <1>1 DEF Unsure
    <3>2. Cardinality({}) + 1 <= Cardinality(Unsure) /\ Cardinality({}) \in Nat
      BY <3>1, EditorCounts, EntrySets
    <3> QED
      BY <3>2, EditorCounts DEF SendsCounted
  <2>2. /\ x7' <= MaxEdits /\ x10' <= MaxErrors /\ x8' <= MaxOthers /\ x11' <= MaxPulls
        /\ x7' \in Nat /\ x10' \in Nat /\ x8' \in Nat /\ x11' \in Nat
    BY <1>1, EditorCounts, TabBounds
  <2>3. x1' \in Editor!Copies /\ x1'.rev = x1.rev + 1
    BY <1>1, <1>3, <2>1, <2>2, StoredIsCopy, EditorFacts
  <2>4. PICK copy \in Editor!Copies : copy = x1'
    BY <2>3
  <2>5. /\ x5' \in [Editor!Entries -> Replies] /\ x5'[e].pc = "ok" /\ x5'[e].rev = x1'.rev
        /\ \A d \in Editor!Entries : d # e => x5'[d] = x5[d]
    BY <1>3, <2>4, ReplyMoves
  <2>6. Unsure' \subseteq Unsure \ {e} /\ e \in Unsure
    BY <1>1, <2>5 DEF Unsure
  <2>7. Cardinality(Unsure') + 1 <= Cardinality(Unsure)
    BY <2>6, EditorCounts, EntrySets
  <2>8. SendsCounted'
    BY <1>1, <1>2, <2>3, <2>7, EditorCounts DEF SendsCounted
  <2>9. PatchesHeld'
    BY <1>1, <2>5, EditorFacts DEF PatchesHeld
  <2>10. TabKnows'
    BY <1>1, <2>5, EditorFacts DEF TabKnows
  <2> QED
    BY <1>1, <2>3, <2>5, <2>8, <2>9, <2>10, EditorFacts DEF EditorKept, Editor!ConflictIsReal
<1>4. CASE ~Editor!IsCurrent(x5[e].rev) /\ Editor!Reply(e, "conflict", x1) /\ UNCHANGED <<x1, x13>>
  <2>1. /\ x5' \in [Editor!Entries -> Replies] /\ x5'[e].pc = "conflict"
        /\ \A d \in Editor!Entries : d # e => x5'[d] = x5[d]
    BY <1>4, ReplyMoves, EditorFacts
  <2>2. Unsure' \subseteq Unsure
    BY <1>1, <2>1 DEF Unsure
  <2>3. Cardinality(Unsure') <= Cardinality(Unsure)
    BY <2>2, EditorCounts, EntrySets
  <2>4. SendsCounted'
    BY <1>1, <1>2, <1>4, <2>3, EditorCounts DEF SendsCounted
  <2>5. PatchesHeld'
    BY <1>1, <2>1, EditorFacts DEF PatchesHeld
  <2>6. TabKnows'
    <3>1. CASE x14
      BY <1>1, <3>1 DEF TabKnows
    <3>2. CASE ~x14
      <4>1. /\ e = x4 /\ x5[e].rev = x2.rev /\ (x2.rev = x1.rev \/ x13)
            /\ x2.value # Editor!Junk
        BY <1>1, <3>2, EditorFacts DEF TabKnows
      <4>2. x13
        BY <1>4, <4>1 DEF Editor!IsCurrent
      <4>3. x5'[e].patch = x5[e].patch
        BY <1>4, ReplyMoves, EditorFacts
      <4> QED
        BY <1>1, <1>4, <2>1, <3>2, <4>1, <4>2, <4>3, EditorFacts DEF TabKnows
    <3> QED
      BY <3>1, <3>2
  <2> QED
    BY <1>1, <1>4, <2>1, <2>4, <2>5, <2>6, EditorFacts DEF EditorKept, Editor!ConflictIsReal
<1>5. CASE Editor!Refused(e)
  <2>1. UNCHANGED <<x1, x13>>
    BY <1>5 DEF Editor!Refused
  <2>2. PICK copy \in Editor!Copies : copy = [rev |-> 0, value |-> Editor!Junk]
    BY EditorRecords DEF Editor!Copies
  <2>3. Editor!Reply(e, "conflict", copy) \/ x5' = [x5 EXCEPT ![e].pc = "error"]
    BY <1>5, <2>2 DEF Editor!Refused
  <2>4. /\ x5' \in [Editor!Entries -> Replies] /\ x5'[e].patch = x5[e].patch
        /\ x5'[e].pc = "error" \/ (x5'[e].pc = "conflict" /\ x5'[e].value = Editor!Junk)
        /\ \A d \in Editor!Entries : d # e => x5'[d] = x5[d]
    BY <2>2, <2>3, ReplyMoves
  <2>5. Unsure' \subseteq Unsure
    BY <1>1, <2>4 DEF Unsure
  <2>6. Cardinality(Unsure') <= Cardinality(Unsure)
    BY <2>5, EditorCounts, EntrySets
  <2>7. SendsCounted'
    BY <1>1, <1>2, <2>1, <2>6, EditorCounts DEF SendsCounted
  <2>8. PatchesHeld'
    BY <1>1, <2>4, EditorFacts DEF PatchesHeld
  <2>9. TabKnows'
    <3>1. CASE x14
      BY <1>1, <3>1 DEF TabKnows
    <3>2. CASE ~x14
      <4>1. e = x4 /\ (x2.rev = x1.rev \/ x13) /\ x2.value # Editor!Junk
        BY <1>1, <3>2, EditorFacts DEF TabKnows
      <4> QED
        BY <1>1, <2>1, <2>4, <3>2, <4>1, EditorFacts DEF TabKnows
    <3> QED
      BY <3>1, <3>2
  <2> QED
    BY <1>1, <2>1, <2>4, <2>7, <2>8, <2>9, EditorFacts DEF EditorKept, Editor!ConflictIsReal
<1> QED
  BY <1>3, <1>4, <1>5 DEF Editor!Patched

\* An answer is lost.
LEMMA EditorLoses == ASSUME EditorInv, NEW e \in Editor!Entries, Editor!Lost(e) PROVE EditorKept
<1>1. /\ x5[e].pc \in {"sent", "ok", "conflict"} /\ x10 < MaxErrors /\ x10' = x10 + 1
      /\ x5' = [x5 EXCEPT ![e].pc = "error"]
      /\ x14' = (x14 \/ x5[e].pc = "ok")
      /\ UNCHANGED <<x1, x2, x3, x4, x6, x7, x8, x11, x12, x13>>
  BY DEF Editor!Lost
<1>2. /\ x5' \in [Editor!Entries -> Replies] /\ x5'[e].pc = "error" /\ x5'[e].patch = x5[e].patch
      /\ \A d \in Editor!Entries : d # e => x5'[d] = x5[d]
  BY <1>1, ReplyMoves
<1>3. Unsent' = Unsent /\ Unsure' \subseteq Unsure \cup {e}
  BY <1>1, <1>2 DEF Unsent, Unsure
<1>4. Cardinality(Unsure') <= Cardinality(Unsure) + 1
  BY <1>3, EditorCounts, EntrySets
<1>5. SendsCounted'
  BY <1>1, <1>3, <1>4, EditorCounts DEF SendsCounted
<1>6. PatchesHeld'
  BY <1>1, <1>2, EditorFacts DEF PatchesHeld
<1>7. TabKnows'
  BY <1>1, <1>2, EditorFacts DEF TabKnows
<1> QED
  BY <1>1, <1>2, <1>5, <1>6, <1>7, EditorFacts DEF EditorKept, Editor!ConflictIsReal

\* The answer comes: what it leaves of the entries and of the counts.
LEMMA EditorAnswers ==
  ASSUME EditorInv, NEW e \in Editor!Entries, NEW p \in Editor!Values, x3' = Editor!Freed(e, p),
         Editor!Done(e),
         UNCHANGED <<x1, x4, x7, x8, x10, x11>>,
         p = Editor!Nothing \/ x3[e].patch # Editor!Nothing \/ x5[e].pc = "error", x5[e].pc # "none"
  PROVE  /\ SendsCounted' /\ PatchesHeld'
         /\ x3' \in [Editor!Entries -> EntryRecords] /\ x5' \in [Editor!Entries -> Replies]
         /\ x3'[e].patch = p /\ \A d \in Editor!Entries : d # e => x3'[d].patch = x3[d].patch
         /\ x5'[e].pc = "none" /\ \A d \in Editor!Entries : d # e => x5'[d] = x5[d]
<1>1. /\ x5' \in [Editor!Entries -> Replies] /\ x5'[e] = Editor!NoAnswer
      /\ \A d \in Editor!Entries : d # e => x5'[d] = x5[d]
  BY ReplyMoves
<1>2. /\ x3' \in [Editor!Entries -> EntryRecords] /\ x3'[e].patch = p /\ ~x3'[e].saving
      /\ \A d \in Editor!Entries : d # e => x3'[d].patch = x3[d].patch /\ x3'[d].saving = x3[d].saving
      /\ \A d \in Editor!Entries : d # e /\ d # x4 => x3'[d] = x3[d]
  BY FreedEntries
<1>3. SendsCounted'
  <2>1. CASE x5[e].pc = "error"
    <3>1. Unsent' \subseteq Unsent \cup {e} /\ Unsure' \subseteq Unsure \ {e} /\ e \in Unsure
      BY <1>1, <1>2, <2>1, EditorRecords DEF Unsent, Unsure
    <3>2. Cardinality(Unsent') <= Cardinality(Unsent) + 1 /\ Cardinality(Unsure') + 1 <= Cardinality(Unsure)
      BY <3>1, EditorCounts, EntrySets
    <3> QED
      BY <3>2, EditorCounts DEF SendsCounted
  <2>2. CASE p = Editor!Nothing \/ x3[e].patch # Editor!Nothing
    <3>1. Unsent' \subseteq Unsent /\ Unsure' \subseteq Unsure
      BY <1>1, <1>2, <2>2, EditorRecords DEF Unsent, Unsure
    <3>2. Cardinality(Unsent') <= Cardinality(Unsent) /\ Cardinality(Unsure') <= Cardinality(Unsure)
      BY <3>1, EditorCounts, EntrySets
    <3> QED
      BY <3>2, EditorCounts DEF SendsCounted
  <2> QED
    BY <2>1, <2>2
<1>4. PatchesHeld'
  <2>1. ASSUME NEW d \in Editor!Entries, x5'[d].pc # "none" PROVE x3'[d].saving
    BY <1>1, <1>2, <2>1, EditorFacts, EditorRecords
  <2>2. ASSUME NEW d \in Editor!Entries,
               d > x4
        PROVE  x3'[d] = Editor!NoPatch /\ x5'[d] = Editor!NoAnswer
    <3>1. d # e /\ d # x4
      BY <2>2, EditorFacts
    <3> QED
      BY <1>1, <1>2, <2>2, <3>1, EditorFacts
  <2> QED
    BY <2>1, <2>2 DEF PatchesHeld
<1> QED
  BY <1>1, <1>2, <1>3, <1>4, EditorRecords

\* A PATCH that was stored.
LEMMA EditorStored == ASSUME EditorInv, NEW e \in Editor!Entries, Editor!Ok(e) PROVE EditorKept
<1>1. /\ x5[e].pc = "ok" /\ x3' = Editor!Freed(e, x3[e].patch)
      /\ x2' = IF x2.value = Editor!Junk THEN x2 ELSE Editor!Merged(e)
      /\ Editor!Done(e)
      /\ x14' = (x14 \/ e # x4 \/ x6 # Editor!NoFetch)
      /\ UNCHANGED <<x1, x4, x6, x7, x8, x10, x11, x12, x13>>
  BY DEF Editor!Ok, Editor!count, Editor!Cached
<1>2. /\ SendsCounted' /\ PatchesHeld'
      /\ x3' \in [Editor!Entries -> EntryRecords] /\ x5' \in [Editor!Entries -> Replies]
      /\ x3'[e].patch = x3[e].patch
      /\ x5'[e].pc = "none" /\ \A d \in Editor!Entries : d # e => x5'[d] = x5[d]
  BY <1>1, EditorAnswers, EditorFacts
<1>3. /\ x2' \in Editor!Copies
      /\ x2.value # Editor!Junk =>
           /\ x2'.rev = x5[e].rev
           /\ x3[e].patch # Editor!Nothing => x2'.value = x3[e].patch
  <2>1. Editor!Or(x3[e].patch, x5[e].value) \in Editor!Values /\ x5[e].rev \in Editor!Revs
    BY EditorFacts, EditorRecords
  <2>2. x3[e].patch # Editor!Nothing => Editor!Or(x3[e].patch, x5[e].value) = x3[e].patch
    BY DEF Editor!Or
  <2> QED
    BY <1>1, <2>1, <2>2, EditorFacts DEF Editor!Merged, Editor!Copies
<1>4. TabKnows'
  <2>1. CASE x14'
    BY <2>1 DEF TabKnows
  <2>2. CASE ~x14'
    <3>1. ~x14 /\ e = x4
      BY <1>1, <2>2
    <3>2. x2.value # Editor!Junk /\ (x5[e].rev = x1.rev \/ x13)
      BY <1>1, <3>1, EditorFacts DEF TabKnows
    <3>3. \A d \in Editor!Entries : x5'[d].pc = "none"
      BY <1>2, <3>1, EditorFacts DEF TabKnows
    <3> QED
      BY <1>1, <1>2, <1>3, <3>1, <3>2, <3>3, EditorFacts DEF TabKnows
  <2> QED
    BY <2>1, <2>2
<1> QED
  BY <1>1, <1>2, <1>3, <1>4, EditorFacts DEF EditorKept, Editor!ConflictIsReal

\* A PATCH that came late.
LEMMA EditorConflicts ==
  ASSUME EditorInv, NEW e \in Editor!Entries, Editor!Conflict(e)
  PROVE  EditorKept
<1>1. /\ x5[e].pc = "conflict" /\ x3' = Editor!Freed(e, Editor!Nothing) /\ Editor!Done(e)
      /\ x2' = IF x2.value = Editor!Junk THEN x2
                ELSE [rev |-> x5[e].rev, value |-> x5[e].value]
      /\ x13' = IF x5[e].value = Editor!Junk THEN x13 ELSE x5[e].rev # x1.rev
      /\ x14' = (x14 \/ e # x4 \/ x6 # Editor!NoFetch)
      /\ UNCHANGED <<x1, x4, x6, x7, x8, x10, x11>>
  BY DEF Editor!Conflict, Editor!count, Editor!Cached
<1>2. /\ SendsCounted' /\ PatchesHeld'
      /\ x3' \in [Editor!Entries -> EntryRecords] /\ x5' \in [Editor!Entries -> Replies]
      /\ x3'[e].patch = Editor!Nothing
      /\ x5'[e].pc = "none" /\ \A d \in Editor!Entries : d # e => x5'[d] = x5[d]
  BY <1>1, EditorAnswers, EditorFacts, EditorRecords
<1>3. /\ x2' \in Editor!Copies
      /\ x2.value # Editor!Junk => x2'.rev = x5[e].rev /\ x2'.value = x5[e].value
  BY <1>1, EditorFacts DEF Editor!Copies
<1>4. TabKnows'
  <2>1. CASE x14'
    BY <2>1 DEF TabKnows
  <2>2. CASE ~x14'
    <3>1. ~x14 /\ e = x4
      BY <1>1, <2>2
    <3>2. x2.value # Editor!Junk
      BY <1>1, <3>1, EditorFacts DEF TabKnows
    <3>4. x2'.value # Editor!Junk => x2'.rev = x1'.rev \/ x13'
      BY <1>1, <1>3, <3>2
    <3>3. \A d \in Editor!Entries : x5'[d].pc = "none"
      BY <1>2, <3>1, EditorFacts DEF TabKnows
    <3> QED
      BY <1>1, <1>2, <3>1, <3>3, <3>4, EditorFacts DEF TabKnows
  <2> QED
    BY <2>1, <2>2
<1>5. Editor!ConflictIsReal
  <2>1. CASE x14
    BY <2>1 DEF Editor!ConflictIsReal
  <2>2. CASE ~x14
    <3>1. x2.value # Editor!Junk /\ (x13 \/ x5[e].value = Editor!Junk)
      BY <1>1, <2>2, EditorFacts DEF TabKnows
    <3> QED
      BY <1>3, <3>1 DEF Editor!ConflictIsReal
  <2> QED
    BY <2>1, <2>2
<1> QED
  BY <1>1, <1>2, <1>3, <1>4, <1>5, EditorFacts DEF EditorKept

\* A PATCH without an answer.
LEMMA EditorFails == ASSUME EditorInv, NEW e \in Editor!Entries, Editor!Failed(e) PROVE EditorKept
<1> DEFINE p == Editor!Or(x3[e].patch, x5[e].patch)
<1>1. /\ x5[e].pc = "error" /\ x3' = Editor!Freed(e, p) /\ Editor!Done(e)
      /\ UNCHANGED <<x1, x2, x4, x6, x7, x8, x10, x11, x12, x13, x14>>
  BY DEF Editor!Failed, Editor!count
<1>2. /\ p \in Editor!Values /\ (x3[e].patch # Editor!Nothing => p = x3[e].patch)
      /\ (x3[e].patch = Editor!Nothing => p = x5[e].patch)
  BY EditorFacts, EditorRecords DEF Editor!Or
<1> HIDE DEF p
<1>3. /\ SendsCounted' /\ PatchesHeld'
      /\ x3' \in [Editor!Entries -> EntryRecords] /\ x5' \in [Editor!Entries -> Replies]
      /\ x3'[e].patch = p
      /\ x5'[e].pc = "none" /\ \A d \in Editor!Entries : d # e => x5'[d] = x5[d]
  BY <1>1, <1>2, EditorAnswers
<1>4. TabKnows'
  <2>1. CASE x14
    BY <1>1, <2>1 DEF TabKnows
  <2>2. CASE ~x14
    <3>1. e = x4 /\ x2.value = p /\ (x2.rev = x1.rev \/ x13) /\ x2.value # Editor!Junk
      BY <1>1, <1>2, <2>2, EditorFacts DEF TabKnows
    <3>2. \A d \in Editor!Entries : x5'[d].pc = "none"
      BY <1>1, <1>3, <2>2, <3>1, EditorFacts DEF TabKnows
    <3> QED
      BY <1>1, <1>3, <2>2, <3>1, <3>2, EditorFacts DEF TabKnows
  <2> QED
    BY <2>1, <2>2
<1> QED
  BY <1>1, <1>3, <1>4, EditorFacts DEF EditorKept, Editor!ConflictIsReal

\* Every step of the editor keeps the invariant, and blames nobody who saved nothing.
LEMMA EditorSteps == ASSUME EditorInv, Editor!Next PROVE EditorInv' /\ Editor!ConflictIsReal
<1>1. EditorKept
  BY EditorTypes, EditorMoves, EditorOthers, EditorFetches, EditorDiscards, EditorPatches, EditorLoses,
     EditorStored, EditorConflicts, EditorFails DEF Editor!Next
<1>2. x4' \in Editor!Entries
  <2>1. CASE Editor!Discard
    BY <2>1, EditorDiscards
  <2>2. CASE ~Editor!Discard
    <3>1. x4' = x4
      BY <2>2 DEF Editor!Next, Editor!Save, Editor!Flush, Editor!Unmount, Editor!Close, Editor!Other,
         Editor!Pull, Editor!Turn,
         Editor!Fetch, Editor!Fetched, Editor!Patched, Editor!Lost, Editor!Ok, Editor!Conflict,
         Editor!Failed
    <3> QED
      BY <3>1, EditorFacts
  <2> QED
    BY <2>1, <2>2
<1>0. /\ x7 \in 0..MaxEdits /\ x8 \in 0..MaxOthers /\ x10 \in 0..MaxErrors
      /\ x11 \in 0..MaxPulls /\ x9 \in 0..MaxFetches
      /\ x15 \in {"editor", "left", "closed"} /\ x16 \in {"open", "closed", "never"}
  BY DEF EditorInv, Editor!TypeOK
<1>3. x7' \in 0..MaxEdits
  <2>1. x7' = x7 \/ (x7 < MaxEdits /\ x7' = x7 + 1)
    BY DEF Editor!Next, Editor!Save, Editor!Flush, Editor!Unmount, Editor!Close, Editor!Other,
         Editor!Pull, Editor!Turn,
       Editor!Fetch, Editor!Fetched, Editor!Discard, Editor!Patched, Editor!Lost, Editor!Ok,
       Editor!Conflict, Editor!Failed, Editor!count
  <2> QED
    BY <1>0, <2>1, TabBounds
<1>4. x8' \in 0..MaxOthers
  <2>1. x8' = x8 \/ (x8 < MaxOthers /\ x8' = x8 + 1)
    BY DEF Editor!Next, Editor!Save, Editor!Flush, Editor!Unmount, Editor!Close, Editor!Other,
         Editor!Pull, Editor!Turn,
       Editor!Fetch, Editor!Fetched, Editor!Discard, Editor!Patched, Editor!Lost, Editor!Ok,
       Editor!Conflict, Editor!Failed, Editor!count
  <2> QED
    BY <1>0, <2>1, TabBounds
<1>5. x10' \in 0..MaxErrors
  <2>1. x10' = x10 \/ (x10 < MaxErrors /\ x10' = x10 + 1)
    BY DEF Editor!Next, Editor!Save, Editor!Flush, Editor!Unmount, Editor!Close, Editor!Other,
         Editor!Pull, Editor!Turn,
       Editor!Fetch, Editor!Fetched, Editor!Discard, Editor!Patched, Editor!Lost, Editor!Ok,
       Editor!Conflict, Editor!Failed, Editor!count
  <2> QED
    BY <1>0, <2>1, TabBounds
<1>6. x11' \in 0..MaxPulls
  <2>1. x11' = x11 \/ (x11 < MaxPulls /\ x11' = x11 + 1)
    BY DEF Editor!Next, Editor!Save, Editor!Flush, Editor!Unmount, Editor!Close, Editor!Other,
         Editor!Pull, Editor!Turn,
       Editor!Fetch, Editor!Fetched, Editor!Discard, Editor!Patched, Editor!Lost, Editor!Ok,
       Editor!Conflict, Editor!Failed, Editor!count
  <2> QED
    BY <1>0, <2>1, TabBounds
<1>7. x9' \in 0..MaxFetches
  <2>1. x9' = x9 \/ (x9 < MaxFetches /\ x9' = x9 + 1)
    BY DEF Editor!Next, Editor!Save, Editor!Flush, Editor!Unmount, Editor!Close, Editor!Other,
         Editor!Pull, Editor!Turn,
       Editor!Fetch, Editor!Fetched, Editor!Discard, Editor!Patched, Editor!Lost, Editor!Ok,
       Editor!Conflict, Editor!Failed, Editor!count
  <2> QED
    BY <1>0, <2>1, TabBounds
<1>8. x12 \in BOOLEAN /\ x13 \in BOOLEAN /\ x14 \in BOOLEAN
  BY DEF EditorInv, Editor!TypeOK
<1>9. x12' \in BOOLEAN /\ x13' \in BOOLEAN /\ x14' \in BOOLEAN
  <2>1. CASE Editor!Save
    BY <1>8, <2>1 DEF Editor!Save
  <2>2. CASE Editor!Flush \/ Editor!Unmount \/ Editor!Close \/ Editor!Turn
    BY <1>8, <2>2 DEF Editor!Flush, Editor!Unmount, Editor!Close, Editor!Turn
  <2>3. CASE Editor!Other \/ Editor!Pull
    BY <1>8, <2>3 DEF Editor!Other, Editor!Pull
  <2>4. CASE Editor!Fetch \/ Editor!Fetched
    BY <1>8, <2>4 DEF Editor!Fetch, Editor!Fetched
  <2>5. CASE Editor!Discard
    BY <1>8, <2>5 DEF Editor!Discard
  <2>6. ASSUME NEW e \in Editor!Entries, Editor!Patched(e) PROVE x12' \in BOOLEAN /\ x13' \in BOOLEAN /\ x14' \in BOOLEAN
    BY <1>8, <2>6 DEF Editor!Patched, Editor!Refused
  <2>7. ASSUME NEW e \in Editor!Entries, Editor!Lost(e) \/ Editor!Ok(e) \/ Editor!Failed(e) PROVE x12' \in BOOLEAN /\ x13' \in BOOLEAN /\ x14' \in BOOLEAN
    BY <1>8, <2>7 DEF Editor!Lost, Editor!Ok, Editor!Failed
  <2>8. ASSUME NEW e \in Editor!Entries, Editor!Conflict(e) PROVE x12' \in BOOLEAN /\ x13' \in BOOLEAN /\ x14' \in BOOLEAN
    BY <1>8, <2>8 DEF Editor!Conflict
  <2> QED
    BY <2>1, <2>2, <2>3, <2>4, <2>5, <2>6, <2>7, <2>8 DEF Editor!Next
<1>10. x15' \in {"editor", "left", "closed"} /\ x16' \in {"open", "closed", "never"}
  BY <1>0, Refusing DEF Editor!Next, Editor!Save, Editor!Flush, Editor!Unmount, Editor!Close, Editor!Other,
     Editor!Pull, Editor!Turn, Editor!Fetch, Editor!Fetched, Editor!Discard, Editor!Patched,
     Editor!Lost, Editor!Ok, Editor!Conflict, Editor!Failed
<1>11. Editor!TypeOK'
  BY <1>1, <1>2, <1>3, <1>4, <1>5, <1>6, <1>7, <1>9, <1>10 DEF EditorKept, Editor!TypeOK,
     EntryRecords, Replies, Fetches
<1> QED
  BY <1>1, <1>11 DEF EditorKept, EditorInv

\* At first nothing was typed.
LEMMA EditorInit == Editor!Init => EditorInv
<1> SUFFICES ASSUME Editor!Init PROVE EditorInv
  OBVIOUS
<1>1. /\ x1 = [rev |-> 0, value |-> Editor!Nothing] /\ x2 = x1
      /\ x3 = [e \in Editor!Entries |-> Editor!NoPatch] /\ x4 = 0
      /\ x5 = [e \in Editor!Entries |-> Editor!NoAnswer]
      /\ x6 = Editor!NoFetch /\ x7 = 0 /\ x8 = 0 /\ x9 = 0 /\ x10 = 0 /\ x11 = 0
      /\ x12 = FALSE /\ x13 = FALSE /\ x14 = FALSE /\ x15 = "editor" /\ x16 = "open"
  BY DEF Editor!Init
<1>2. 0 \in Editor!Entries /\ 0 \in Editor!Revs
  BY TabBounds DEF Editor!Entries, Editor!Revs
<1>3. x1 \in Editor!Copies /\ x1.rev = 0
  BY <1>1, <1>2, EditorRecords DEF Editor!Copies
<1>4. x3 \in [Editor!Entries -> EntryRecords] /\ x5 \in [Editor!Entries -> Replies]
  BY <1>1, EditorRecords
<1>5. \A e \in Editor!Entries : x3[e] = Editor!NoPatch /\ x5[e] = Editor!NoAnswer
  BY <1>1
<1>6. Unsent = {} /\ Unsure = {}
  BY <1>5, EditorRecords DEF Unsent, Unsure
<1>7. SendsCounted
  BY <1>1, <1>3, <1>6, FS_EmptySet DEF SendsCounted
<1>8. PatchesHeld
  BY <1>5, EditorRecords DEF PatchesHeld
<1>9. TabKnows
  BY <1>1, <1>2, <1>5, EditorRecords DEF TabKnows
<1>10. x12 \in BOOLEAN /\ x13 \in BOOLEAN /\ x14 \in BOOLEAN
  BY <1>1
<1>11. /\ x7 \in 0..MaxEdits /\ x8 \in 0..MaxOthers /\ x9 \in 0..MaxFetches
       /\ x10 \in 0..MaxErrors /\ x11 \in 0..MaxPulls
  BY <1>1, TabBounds
<1>12. Editor!TypeOK
  BY <1>1, <1>2, <1>3, <1>4, <1>10, <1>11, EditorRecords DEF Editor!TypeOK, EntryRecords, Replies,
     Fetches
<1> QED
  BY <1>7, <1>8, <1>9, <1>12 DEF EditorInv

\* What the invariant says of what was typed.
LEMMA EditorHolds == EditorInv => Editor!TypedIsShown
BY DEF EditorInv, TabKnows, Editor!TypedIsShown

-----------------------------------------------------------------------------
(* The list and the comments that events keep up to date: x1 .. x11 are    *)
(* rev, comments, request, channel, text, thread, room, answer, astray,    *)
(* cuts and fetches.                                                       *)

\* The requests that have not come yet.
Unborn == {r \in Three : x3[r].pc = "new"}

\* Each edit is of a request of its own.
EditsCounted == x1 + Cardinality(Unborn) <= Cardinality(Three)

\* An event that is emitted or to be emitted tells of what the database had: a comment that
\* is deleted was there and never comes again.
Tells(event) ==
  /\ event \in Events!Event /\ event.rev <= x1
  /\ event.kind \in {"created", "deleted"} => event.of \in Three
  /\ event.kind = "deleted" => event.of \notin x2 /\ x3[event.of].pc # "new"

\* So do all of them.
EventsTell ==
  /\ \A r \in Three : x3[r].pc = "committed" => Tells(x3[r].event)
  /\ \A i \in 1..Len(x4) : Tells(x4[i])
  /\ \A c \in x2 : x3[c].pc # "new"

\* What the tab has not heard of and will.
EditComes(v) ==
  \/ \E r \in Three : x3[r].pc = "committed" /\ x3[r].event.kind = "updated"
                         /\ x3[r].event.rev = v
  \/ \E i \in 1..Len(x4) : x4[i].kind = "updated" /\ x4[i].rev = v
CreationComes(c) ==
  \/ \E r \in Three : x3[r].pc = "committed" /\ x3[r].event.kind = "created"
                         /\ x3[r].event.of = c
  \/ \E i \in 1..Len(x4) : x4[i].kind = "created" /\ x4[i].of = c

\* A text or a thread that the events to come bring up to date.
TextCatchesUp(v) == v <= x1 /\ (v = x1 \/ EditComes(x1))
ThreadCatchesUp(set) ==
  \A c \in Three :
    IF c \in x2 THEN c \in set \/ CreationComes(c) ELSE c \in set => Events!DeletionComes(c)

\* Unless the tab is disconnected, what it shows and what it has read catch up, or are
\* known to be lost, or will be read again.
TextKept ==
  x7 # "out" =>
    /\ x8["list"].pc = "none" /\ ~x9["list"] => TextCatchesUp(x5)
    /\ x8["list"].pc = "read" /\ ~x8["list"].crossed => TextCatchesUp(x8["list"].rev)
ThreadKept ==
  x7 # "out" =>
    /\ x8["thread"].pc = "none" /\ ~x9["thread"] => ThreadCatchesUp(x6)
    /\ x8["thread"].pc = "read" /\ ~x8["thread"].crossed =>
         ThreadCatchesUp(x8["thread"].set)

\* What is shown and what was read are of revs there were.
OldRevs == x5 <= x1 /\ \A q \in Events!Queries : x8[q].rev <= x1

\* The list and the comments of a tab.
EventsInv == Events!TypeOK /\ EditsCounted /\ EventsTell /\ OldRevs /\ TextKept /\ ThreadKept

\* What a step has to keep, beside the types.
EventsKept == EventsTell' /\ OldRevs' /\ TextKept' /\ ThreadKept'

\* A rev for each edit.
LEMMA EventRevs == Events!Revs = 0..Cardinality(Three)
BY DEF Events!Revs, Cardinality, Events!Cardinality

\* The types, and what the invariant says, one by one.
LEMMA EventsFacts == ASSUME EventsInv
  PROVE /\ x1 \in Nat /\ x1 \in Events!Revs /\ x5 \in Events!Revs /\ x6 \subseteq Three
        /\ x2 \subseteq Three
        /\ x3 \in [Three -> [pc : {"new", "committed", "emitted"}, event : Events!Event]]
        /\ x4 \in Seq(Events!Event) /\ x7 \in {"in", "out", "joining"}
        /\ x8 \in [Events!Queries -> Events!Answer]
        /\ x9 \in [Events!Queries -> BOOLEAN]
        /\ EventsTell /\ OldRevs /\ TextKept /\ ThreadKept
        /\ Cardinality(Three) \in Nat
<1>1. Cardinality(Three) \in Nat
  BY Finite, FS_CardinalityType
<1>2. x1 \in Events!Revs
  BY DEF EventsInv, Events!TypeOK
<1>3. x1 \in Nat
  BY <1>1, <1>2, EventRevs
<1> QED
  BY <1>1, <1>3 DEF EventsInv, Events!TypeOK

\* At first nothing was read.
LEMMA EventsInit == ASSUME Events!Init PROVE EventsInv
<1>1. Cardinality(Three) \in Nat /\ 0 \in Events!Revs
  <2>1. Cardinality(Three) \in Nat
    BY Finite, FS_CardinalityType
  <2> QED
    BY <2>1, EventRevs
<1>2. Events!NoEvent \in Events!Event /\ Events!NoAnswer \in Events!Answer
  BY <1>1 DEF Events!NoEvent, Events!Event, Events!NoAnswer, Events!Answer
<1>3. Events!TypeOK
  <2>1. x3 \in [Three -> [pc : {"new", "committed", "emitted"}, event : Events!Event]]
    BY <1>2 DEF Events!Init
  <2>2. x4 \in Seq(Events!Event)
    BY DEF Events!Init
  <2>3. x9 \in [Events!Queries -> BOOLEAN]
    BY DEF Events!Init
  <2>4. x8 \in [Events!Queries -> Events!Answer]
    BY <1>2 DEF Events!Init
  <2>5. x10 \in 0..MaxDrops /\ x11 \in 0..MaxFetches
    BY TabBounds DEF Events!Init
  <2> QED
    BY <1>1, <2>1, <2>2, <2>3, <2>4, <2>5 DEF Events!Init, Events!TypeOK
<1>4. EditsCounted
  <2>1. Unborn = Three
    BY DEF Events!Init, Unborn
  <2> QED
    BY <1>1, <2>1 DEF Events!Init, EditsCounted
<1>5. EventsTell
  <2>1. \A r \in Three : x3[r].pc = "new"
    BY DEF Events!Init
  <2>2. Len(x4) = 0 /\ x2 = {}
    BY DEF Events!Init
  <2> QED
    BY <2>1, <2>2 DEF EventsTell
<1>6. OldRevs
  BY DEF Events!Init, OldRevs, Events!NoAnswer
<1>7. \A q \in Events!Queries : x8[q].pc = "none"
  BY DEF Events!Init, Events!NoAnswer
<1>8. TextKept
  BY <1>7 DEF Events!Init, TextKept, TextCatchesUp, Events!Queries
<1>9. ThreadKept
  BY <1>7 DEF Events!Init, ThreadKept, ThreadCatchesUp, Events!Queries
<1> QED
  BY <1>3, <1>4, <1>5, <1>6, <1>8, <1>9 DEF EventsInv

\* A request commits: its event is still to come, and nothing of the others changes.
Committed(r, event) ==
  /\ x3[r].pc = "new" /\ x3'[r].pc = "committed" /\ x3'[r].event = event
  /\ \A s \in Three : s # r => x3'[s] = x3[s]
  /\ x3' \in [Three -> [pc : {"new", "committed", "emitted"}, event : Events!Event]]
  /\ UNCHANGED <<x4, x5, x6, x7, x8, x9, x10, x11>>
  /\ \A v : EditComes(v) => EditComes(v)'
  /\ \A c : CreationComes(c) => CreationComes(c)'
  /\ \A c : Events!DeletionComes(c) => Events!DeletionComes(c)'
  /\ Unborn' = Unborn \ {r} /\ r \in Unborn

\* A commit leaves what the tab hears of, and adds its own event.
LEMMA CommitKeeps ==
  ASSUME EventsInv, NEW r \in Three, NEW event \in Events!Event, Events!Commit(r, event)
  PROVE  Committed(r, event)
<1>1. /\ x3[r].pc = "new" /\ UNCHANGED <<x4, x5, x6, x7, x8, x9, x10, x11>>
      /\ x3' = [x3 EXCEPT ![r] = [pc |-> "committed", event |-> event]]
  BY DEF Events!Commit, Events!cache
<1>2. /\ x3'[r].pc = "committed" /\ x3'[r].event = event
      /\ \A s \in Three : s # r => x3'[s] = x3[s]
  BY <1>1, EventsFacts
<1>3. x3' \in [Three -> [pc : {"new", "committed", "emitted"}, event : Events!Event]]
  BY <1>1, EventsFacts
<1>4. \A s \in Three : x3[s].pc = "committed" => x3'[s] = x3[s]
  BY <1>1, <1>2
<1>5. \A v : EditComes(v) => EditComes(v)'
  BY <1>1, <1>4 DEF EditComes
<1>6. \A c : CreationComes(c) => CreationComes(c)'
  BY <1>1, <1>4 DEF CreationComes
<1>7. \A c : Events!DeletionComes(c) => Events!DeletionComes(c)'
  BY <1>1, <1>4 DEF Events!DeletionComes
<1>8. Unborn' = Unborn \ {r} /\ r \in Unborn
  BY <1>1, <1>2 DEF Unborn
<1> QED
  BY <1>1, <1>2, <1>3, <1>5, <1>6, <1>7, <1>8 DEF Committed

\* The lack of an event is one.
LEMMA NoEventIsOne ==
  /\ Events!NoEvent \in Events!Event /\ Events!NoEvent.kind = "none" /\ Events!NoEvent.rev = 0
  /\ Events!NoEvent.of = Events!None
  /\ Events!NoAnswer \in Events!Answer /\ Events!NoAnswer.pc = "none" /\ Events!NoAnswer.rev = 0
<1>1. Cardinality(Three) \in Nat
  BY Finite, FS_CardinalityType
<1>2. 0 \in Events!Revs
  BY <1>1, EventRevs
<1> QED
  BY <1>2 DEF Events!NoEvent, Events!Event, Events!NoAnswer, Events!Answer

\* What the requests that commit and the events tell, after a request that commits.
LEMMA CommitTells ==
  ASSUME EventsInv, NEW r \in Three, NEW event \in Events!Event, Committed(r, event), Tells(event)',
         x1 <= x1', x1' \in Nat, \A c \in x2' : c \in x2 \/ c = r
  PROVE EventsTell'
<1>1. \A e : e.rev <= x1 /\ e \in Events!Event => e.rev <= x1'
  BY EventsFacts DEF Events!Event, Events!Revs
<1>2. \A s \in Three : x3'[s].pc = "new" => x3[s].pc = "new"
  BY DEF Committed
<1>3. ASSUME NEW e \in Events!Event, Tells(e) PROVE Tells(e)'
  BY <1>1, <1>3 DEF Committed, Tells
<1>4. \A s \in Three : x3'[s].pc = "committed" => Tells(x3[s].event)'
  <2> SUFFICES ASSUME NEW s \in Three, x3'[s].pc = "committed" PROVE Tells(x3[s].event)'
    OBVIOUS
  <2>1. PICK e \in Events!Event : e = x3'[s].event
    BY DEF Committed
  <2>2. CASE s = r
    BY <2>1, <2>2 DEF Committed, Tells
  <2>3. CASE s # r
    <3>1. Tells(e)
      BY <2>1, <2>3, EventsFacts DEF Committed, EventsTell
    <3>2. Tells(e)'
      BY <3>1, <1>3
    <3> QED
      BY <3>2, <2>1 DEF Tells
  <2> QED
    BY <2>2, <2>3
<1>5. \A i \in 1..Len(x4') : Tells(x4[i])'
  <2> SUFFICES ASSUME NEW i \in 1..Len(x4) PROVE Tells(x4[i])'
    BY DEF Committed
  <2>1. PICK e \in Events!Event : e = x4[i]
    BY EventsFacts
  <2>2. Tells(e)'
    BY <2>1, <1>3, EventsFacts DEF EventsTell
  <2> QED
    BY <2>1, <2>2 DEF Committed, Tells
<1>6. \A c \in x2' : x3'[c].pc # "new"
  BY <1>2, EventsFacts DEF EventsTell, Committed
<1> QED
  BY <1>4, <1>5, <1>6 DEF EventsTell

\* An edit is heard of later.
LEMMA EventsEdit ==
  ASSUME EventsInv, NEW r \in Three, Events!Edit(r)
  PROVE  EventsKept /\ x1' \in Events!Revs
<1>1. x1 < Cardinality(Three)
  <2>1. x3[r].pc = "new"
    BY DEF Events!Edit, Events!Commit
  <2>2. r \in Unborn /\ Unborn \subseteq Three
    BY <2>1 DEF Unborn
  <2>3. IsFiniteSet(Unborn)
    BY <2>2, Finite, FS_Subset
  <2>4. Cardinality(Unborn) # 0 /\ Cardinality(Unborn) \in Nat
    BY <2>2, <2>3, FS_EmptySet, FS_CardinalityType
  <2> QED
    BY <2>4, EventsFacts DEF EventsInv, EditsCounted
<1>2. x1' = x1 + 1 /\ x1' \in Events!Revs /\ UNCHANGED x2
  BY <1>1, EventsFacts, EventRevs DEF Events!Edit
<1>3. PICK e \in Events!Event : e.kind = "updated" /\ e.rev = x1' /\ Events!Commit(r, e)
  <2>1. /\ [Events!NoEvent EXCEPT !.kind = "updated", !.rev = x1'] \in Events!Event
        /\ [Events!NoEvent EXCEPT !.kind = "updated", !.rev = x1'].kind = "updated"
        /\ [Events!NoEvent EXCEPT !.kind = "updated", !.rev = x1'].rev = x1'
    BY <1>2, NoEventIsOne DEF Events!Event
  <2> QED
    BY <2>1 DEF Events!Edit
<1>4. Committed(r, e)
  BY <1>3, CommitKeeps
<1>5. x1' \in Nat /\ x1 <= x1' /\ \A v \in Nat : v <= x1 => v <= x1'
  BY <1>2, EventsFacts
<1>6. EventsTell'
  <2>1. Tells(e)'
    BY <1>3, <1>5 DEF Tells
  <2> QED
    BY <1>2, <1>4, <1>5, <2>1, CommitTells
<1>7. OldRevs'
  <2>1. x5 \in Nat /\ \A q \in Events!Queries : x8[q].rev \in Nat
    BY EventsFacts DEF Events!Revs, Events!Answer
  <2>2. x5' = x5 /\ x8' = x8
    BY <1>4 DEF Committed
  <2> QED
    BY <2>1, <2>2, <1>5, EventsFacts DEF OldRevs
<1>8. EditComes(x1)'
  BY <1>3, <1>4 DEF EditComes, Committed
<1>9. TextKept'
  BY <1>7, <1>8 DEF TextKept, TextCatchesUp, OldRevs, Events!Queries
<1>10. ThreadKept'
  BY <1>2, <1>4, EventsFacts DEF ThreadKept, ThreadCatchesUp, Committed
<1> QED
  BY <1>2, <1>6, <1>7, <1>9, <1>10 DEF EventsKept

\* So is a comment.
LEMMA EventsComment ==
  ASSUME EventsInv, NEW r \in Three, Events!Comment(r)
  PROVE  EventsKept /\ x2' \subseteq Three
<1>1. x2' = x2 \cup {r} /\ x1' = x1 /\ x2' \subseteq Three
  BY EventsFacts DEF Events!Comment
<1>2. PICK e \in Events!Event : e.kind = "created" /\ e.rev = 0 /\ e.of = r /\ Events!Commit(r, e)
  <2>1. /\ [Events!NoEvent EXCEPT !.kind = "created", !.of = r] \in Events!Event
        /\ [Events!NoEvent EXCEPT !.kind = "created", !.of = r].kind = "created"
        /\ [Events!NoEvent EXCEPT !.kind = "created", !.of = r].of = r
        /\ [Events!NoEvent EXCEPT !.kind = "created", !.of = r].rev = 0
    BY <1>1, NoEventIsOne DEF Events!Event
  <2> QED
    BY <2>1 DEF Events!Comment
<1>3. Committed(r, e)
  BY <1>2, CommitKeeps
<1>4. x1' \in Nat /\ x1 <= x1' /\ 0 <= x1'
  BY <1>1, EventsFacts
<1>6. EventsTell'
  <2>1. Tells(e)'
    BY <1>2, <1>4 DEF Tells
  <2> QED
    BY <1>1, <1>3, <1>4, <2>1, CommitTells
<1>7. OldRevs'
  BY <1>1, <1>3, EventsFacts DEF OldRevs, Committed
<1>8. CreationComes(r)'
  BY <1>2, <1>3 DEF CreationComes, Committed
<1>9. TextKept'
  BY <1>1, <1>3, EventsFacts DEF TextKept, TextCatchesUp, Committed
<1>10. ASSUME NEW set, ThreadCatchesUp(set) PROVE ThreadCatchesUp(set)'
  BY <1>1, <1>3, <1>8, <1>10 DEF ThreadCatchesUp, Committed
<1>11. ThreadKept'
  <2>1. UNCHANGED <<x7, x8, x9, x6>>
    BY <1>3 DEF Committed
  <2>2. ThreadCatchesUp(x6) => ThreadCatchesUp(x6)'
    <3>1. PICK set : set = x6
      OBVIOUS
    <3> QED
      BY <1>10, <2>1, <3>1 DEF ThreadCatchesUp
  <2>3. ThreadCatchesUp(x8["thread"].set) => ThreadCatchesUp(x8["thread"].set)'
    <3>1. PICK set : set = x8["thread"].set
      OBVIOUS
    <3> QED
      BY <1>10, <2>1, <3>1 DEF ThreadCatchesUp
  <2> QED
    BY <2>1, <2>2, <2>3, EventsFacts DEF ThreadKept
<1> QED
  BY <1>1, <1>6, <1>7, <1>9, <1>11 DEF EventsKept

\* So is its deletion.
LEMMA EventsUncomment ==
  ASSUME EventsInv, NEW r \in Three, NEW c \in Three, Events!Uncomment(r, c)
  PROVE EventsKept /\ x2' \subseteq Three
<1>1. c \in x2 /\ x2' = x2 \ {c} /\ x1' = x1 /\ x2' \subseteq Three
  BY EventsFacts DEF Events!Uncomment
<1>2. PICK e \in Events!Event : e.kind = "deleted" /\ e.rev = 0 /\ e.of = c /\ Events!Commit(r, e)
  <2>1. /\ [Events!NoEvent EXCEPT !.kind = "deleted", !.of = c] \in Events!Event
        /\ [Events!NoEvent EXCEPT !.kind = "deleted", !.of = c].kind = "deleted"
        /\ [Events!NoEvent EXCEPT !.kind = "deleted", !.of = c].of = c
        /\ [Events!NoEvent EXCEPT !.kind = "deleted", !.of = c].rev = 0
    BY <1>1, NoEventIsOne DEF Events!Event
  <2> QED
    BY <2>1 DEF Events!Uncomment
<1>3. Committed(r, e)
  BY <1>2, CommitKeeps
<1>4. x1' \in Nat /\ x1 <= x1' /\ 0 <= x1'
  BY <1>1, EventsFacts
<1>6. EventsTell'
  <2>1. x3'[c].pc # "new"
    BY <1>1, <1>3, EventsFacts DEF EventsTell, Committed
  <2>2. Tells(e)'
    BY <1>1, <1>2, <1>4, <2>1 DEF Tells
  <2> QED
    BY <1>1, <1>3, <1>4, <2>2, CommitTells
<1>7. OldRevs'
  BY <1>1, <1>3, EventsFacts DEF OldRevs, Committed
<1>8. Events!DeletionComes(c)'
  BY <1>2, <1>3 DEF Events!DeletionComes, Committed
<1>9. TextKept'
  BY <1>1, <1>3, EventsFacts DEF TextKept, TextCatchesUp, Committed
<1>10. ASSUME NEW set, ThreadCatchesUp(set) PROVE ThreadCatchesUp(set)'
  BY <1>1, <1>3, <1>8, <1>10 DEF ThreadCatchesUp, Committed
<1>11. ThreadKept'
  <2>1. UNCHANGED <<x7, x8, x9, x6>>
    BY <1>3 DEF Committed
  <2>2. ThreadCatchesUp(x6) => ThreadCatchesUp(x6)'
    <3>1. PICK set : set = x6
      OBVIOUS
    <3> QED
      BY <1>10, <2>1, <3>1 DEF ThreadCatchesUp
  <2>3. ThreadCatchesUp(x8["thread"].set) => ThreadCatchesUp(x8["thread"].set)'
    <3>1. PICK set : set = x8["thread"].set
      OBVIOUS
    <3> QED
      BY <1>10, <2>1, <3>1 DEF ThreadCatchesUp
  <2> QED
    BY <2>1, <2>2, <2>3, EventsFacts DEF ThreadKept
<1> QED
  BY <1>1, <1>6, <1>7, <1>9, <1>11 DEF EventsKept

\* An event goes to the tab that is in the room, and is lost to the one that is not.
LEMMA EventsEmit ==
  ASSUME EventsInv, NEW r \in Three, Events!Emit(r)
  PROVE  EventsKept /\ x4' \in Seq(Events!Event) /\ x8' \in [Events!Queries -> Events!Answer]
<1>1. /\ x3[r].pc = "committed" /\ x3' = [x3 EXCEPT ![r].pc = "emitted"]
      /\ UNCHANGED <<x1, x2, x5, x6, x7>>
      /\ x4' = IF x7 = "in" THEN Append(x4, x3[r].event) ELSE x4
  BY DEF Events!Emit, Events!cache
<1>2. PICK e \in Events!Event : e = x3[r].event
  BY EventsFacts
<1>3. /\ x3'[r].pc = "emitted" /\ x3'[r].event = e
      /\ \A s \in Three : s # r => x3'[s] = x3[s]
      /\ \A s \in Three : x3'[s].pc = "new" => x3[s].pc = "new"
  BY <1>1, <1>2, EventsFacts
<1>4. Tells(e)
  BY <1>1, <1>2, EventsFacts DEF EventsTell
<1>5. x4' \in Seq(Events!Event)
  BY <1>1, <1>2, EventsFacts
<1>6. \A i \in 1..Len(x4') : \/ i \in 1..Len(x4) /\ x4'[i] = x4[i]
                             \/ x4'[i] = e
  BY <1>1, <1>2, EventsFacts
<1>7. EventsTell'
  <2>1. ASSUME NEW f \in Events!Event, Tells(f) PROVE Tells(f)'
    BY <1>1, <1>3, <2>1 DEF Tells
  <2>2. \A s \in Three : x3'[s].pc = "committed" => Tells(x3[s].event)'
    <3> SUFFICES ASSUME NEW s \in Three, x3'[s].pc = "committed" PROVE Tells(x3[s].event)'
      OBVIOUS
    <3>1. s # r /\ x3'[s] = x3[s]
      BY <1>3
    <3>2. PICK f \in Events!Event : f = x3[s].event
      BY EventsFacts
    <3>3. Tells(f)
      BY <3>1, <3>2, EventsFacts DEF EventsTell
    <3>4. Tells(f)'
      BY <3>3, <2>1
    <3> QED
      BY <3>1, <3>2, <3>4 DEF Tells
  <2>3. \A i \in 1..Len(x4') : Tells(x4[i])'
    <3> SUFFICES ASSUME NEW i \in 1..Len(x4') PROVE Tells(x4[i])'
      OBVIOUS
    <3>1. PICK f \in Events!Event : f = x4'[i]
      BY <1>5
    <3>2. Tells(f)
      BY <1>4, <1>6, <3>1, EventsFacts DEF EventsTell
    <3>3. Tells(f)'
      BY <3>2, <2>1
    <3> QED
      BY <3>1, <3>3 DEF Tells
  <2>4. \A c \in x2' : x3'[c].pc # "new"
    BY <1>1, <1>3, EventsFacts DEF EventsTell
  <2> QED
    BY <2>2, <2>3, <2>4 DEF EventsTell
<1>8. CASE x7 = "in"
  <2>1. Len(x4') = Len(x4) + 1 /\ x4'[Len(x4) + 1] = e /\ Len(x4) \in Nat
    BY <1>1, <1>2, <1>8, EventsFacts
  <2>2. \A i \in 1..Len(x4) : i \in 1..Len(x4') /\ x4'[i] = x4[i]
    BY <1>1, <1>2, <1>8, EventsFacts
  <2>3. Len(x4) + 1 \in 1..Len(x4')
    BY <2>1
  <2>4. ASSUME NEW v, EditComes(v) PROVE EditComes(v)'
    BY <1>2, <1>3, <2>1, <2>2, <2>3, <2>4 DEF EditComes
  <2>5. ASSUME NEW c, CreationComes(c) PROVE CreationComes(c)'
    BY <1>2, <1>3, <2>1, <2>2, <2>3, <2>5 DEF CreationComes
  <2>6. ASSUME NEW c, Events!DeletionComes(c) PROVE Events!DeletionComes(c)'
    BY <1>2, <1>3, <2>1, <2>2, <2>3, <2>6 DEF Events!DeletionComes
  <2>7. UNCHANGED <<x9, x8>>
    BY <1>8 DEF Events!Emit
  <2>8. EditComes(x1) => EditComes(x1)'
    <3>1. PICK v : v = x1
      OBVIOUS
    <3> QED
      BY <1>1, <2>4, <3>1 DEF EditComes
  <2>9. TextKept'
    BY <1>1, <2>7, <2>8, EventsFacts DEF TextKept, TextCatchesUp
  <2>10. ASSUME NEW set, ThreadCatchesUp(set) PROVE ThreadCatchesUp(set)'
    BY <1>1, <2>5, <2>6, <2>10 DEF ThreadCatchesUp
  <2>11. ThreadKept'
    <3>2. ThreadCatchesUp(x6) => ThreadCatchesUp(x6)'
      <4>1. PICK set : set = x6
        OBVIOUS
      <4> QED
        BY <1>1, <2>10, <4>1 DEF ThreadCatchesUp
    <3>3. ThreadCatchesUp(x8["thread"].set) => ThreadCatchesUp(x8["thread"].set)'
      <4>1. PICK set : set = x8["thread"].set
        OBVIOUS
      <4> QED
        BY <2>7, <2>10, <4>1 DEF ThreadCatchesUp
    <3> QED
      BY <1>1, <2>7, <3>2, <3>3, EventsFacts DEF ThreadKept
  <2> QED
    BY <1>1, <1>5, <1>7, <2>7, <2>9, <2>11, EventsFacts DEF EventsKept, OldRevs
<1>9. CASE x7 = "out"
  <2>1. UNCHANGED <<x9, x8>>
    BY <1>9 DEF Events!Emit
  <2>2. TextKept' /\ ThreadKept'
    BY <1>1, <1>9 DEF TextKept, ThreadKept
  <2> QED
    BY <1>1, <1>5, <1>7, <2>1, <2>2, EventsFacts DEF EventsKept, OldRevs
<1>10. CASE x7 = "joining"
  <2>1. /\ x9' = [q \in Events!Queries |-> TRUE]
        /\ x8' = [q \in Events!Queries |-> [x8[q] EXCEPT !.crossed = x8[q].pc = "read"]]
    BY <1>10 DEF Events!Emit
  <2>2. \A q \in Events!Queries : /\ x9'[q] /\ x8'[q] \in Events!Answer /\ x8'[q].pc = x8[q].pc
                                  /\ x8'[q].rev = x8[q].rev
                                  /\ x8'[q].pc = "read" => x8'[q].crossed
    BY <2>1, EventsFacts DEF Events!Answer
  <2>3. TextKept' /\ ThreadKept'
    BY <2>2 DEF TextKept, ThreadKept, Events!Queries
  <2>4. OldRevs'
    BY <1>1, <2>2, EventsFacts DEF OldRevs
  <2> QED
    BY <1>5, <1>7, <2>1, <2>2, <2>3, <2>4 DEF EventsKept
<1> QED
  BY <1>8, <1>9, <1>10, EventsFacts

\* The tab applies the next event.
LEMMA EventsApply ==
  ASSUME EventsInv, Events!Apply
  PROVE  /\ EventsKept /\ x4' \in Seq(Events!Event) /\ x8' \in [Events!Queries -> Events!Answer]
         /\ x9' \in [Events!Queries -> BOOLEAN]
         /\ x5' \in Events!Revs /\ x6' \subseteq Three
<1>1. /\ x4 # <<>> /\ x4' = Tail(x4)
      /\ UNCHANGED <<x1, x2, x3, x7>>
      /\ x8' = [q \in Events!Queries |-> [x8[q] EXCEPT !.crossed = x8[q].pc = "read"]]
  BY DEF Events!Apply, Events!server
<1>2. PICK e \in Events!Event : e = Head(x4)
  BY <1>1, EventsFacts
<1>3. /\ Events!Updated(e) \/ Events!Created(e) \/ Events!Deleted(e)
      /\ x9' = [x9 EXCEPT !["thread"] = x9["thread"] \/ Events!Overtaken(e)]
  BY <1>2 DEF Events!Apply
<1>4. /\ x4' \in Seq(Events!Event) /\ Len(x4) \in Nat /\ Len(x4) >= 1
      /\ Len(x4') = Len(x4) - 1 /\ x4[1] = e
      /\ \A i \in 1..Len(x4') : x4'[i] = x4[i + 1] /\ i + 1 \in 1..Len(x4)
  BY <1>1, <1>2, EventsFacts
<1>5. \A i \in 1..Len(x4) : x4[i] = e \/ \E j \in 1..Len(x4') : x4'[j] = x4[i]
  <2> SUFFICES ASSUME NEW i \in 1..Len(x4), i # 1
               PROVE \E j \in 1..Len(x4') : x4'[j] = x4[i]
    BY <1>4
  <2>1. i - 1 \in 1..Len(x4') /\ (i - 1) + 1 = i
    BY <1>4
  <2>2. x4'[i - 1] = x4[i]
    BY <1>4, <2>1
  <2> QED
    BY <2>1, <2>2
<1>6. Tells(e)
  BY <1>4, EventsFacts DEF EventsTell
<1>7. EventsTell'
  <2>1. \A f \in Events!Event : Tells(f)' = Tells(f)
    BY <1>1 DEF Tells
  <2>2. \A s \in Three : x3'[s].pc = "committed" => Tells(x3[s].event)'
    BY <1>1, EventsFacts DEF EventsTell, Tells
  <2>3. \A i \in 1..Len(x4') : Tells(x4[i])'
    <3> SUFFICES ASSUME NEW i \in 1..Len(x4') PROVE Tells(x4[i])'
      OBVIOUS
    <3>1. PICK f \in Events!Event : f = x4'[i]
      BY <1>4
    <3>2. Tells(f)
      BY <1>4, <3>1, EventsFacts DEF EventsTell
    <3> QED
      BY <1>1, <3>1, <3>2 DEF Tells
  <2> QED
    BY <1>1, <2>2, <2>3, EventsFacts DEF EventsTell
<1>8. \A q \in Events!Queries : /\ x8'[q] \in Events!Answer /\ x8'[q].pc = x8[q].pc
                                /\ x8'[q].rev = x8[q].rev
                                /\ x8'[q].pc = "read" => x8'[q].crossed
  BY <1>1, EventsFacts DEF Events!Answer
<1>9. /\ x9'["list"] = x9["list"]
      /\ ~x9'["thread"] => ~x9["thread"] /\ ~Events!Overtaken(e)
  BY <1>3, EventsFacts DEF Events!Queries
<1>10. x9' \in [Events!Queries -> BOOLEAN]
  <2>1. (x9["thread"] \/ Events!Overtaken(e)) \in BOOLEAN
    OBVIOUS
  <2> QED
    BY <1>3, <2>1, EventsFacts
<1>11. x8' \in [Events!Queries -> Events!Answer]
  BY <1>1, <1>8
<1>12. x5' \in Events!Revs /\ x5' <= x1
  BY <1>3, <1>6, EventsFacts DEF Events!Updated, Events!Created, Events!Deleted, Events!Event, OldRevs,
     Tells
<1>13. x6' \subseteq Three
  BY <1>3, <1>6, EventsFacts DEF Events!Updated, Events!Created, Events!Deleted, Tells
<1>14. OldRevs'
  BY <1>1, <1>8, <1>12, EventsFacts DEF OldRevs
<1>15. TextKept'
  <2> SUFFICES ASSUME x7 # "out", x8["list"].pc = "none", ~x9["list"] PROVE TextCatchesUp(x5)'
    BY <1>1, <1>8, <1>9 DEF TextKept, Events!Queries
  <2>1. TextCatchesUp(x5)
    BY EventsFacts DEF TextKept
  <2>2. CASE x5' = x1
    BY <1>1, <1>12, <2>2 DEF TextCatchesUp
  <2>3. CASE x5' # x1
    <3>1. x5 # x1 /\ ~(e.kind = "updated" /\ e.rev = x1)
      <4>1. x5 \in Nat /\ e.rev \in Nat /\ e.rev <= x1 /\ x5 <= x1
        BY <1>6, EventsFacts DEF Events!Revs, Events!Event, OldRevs, Tells
      <4> QED
        BY <1>3, <2>3, <4>1, EventsFacts DEF Events!Updated, Events!Created, Events!Deleted,
           Events!IsNewer
    <3>2. EditComes(x1)
      BY <2>1, <3>1 DEF TextCatchesUp
    <3>3. EditComes(x1)'
      <4>1. CASE \E r \in Three : x3[r].pc = "committed" /\ x3[r].event.kind = "updated"
                                     /\ x3[r].event.rev = x1
        BY <1>1, <4>1 DEF EditComes
      <4>2. CASE \E i \in 1..Len(x4) : x4[i].kind = "updated" /\ x4[i].rev = x1
        <5>1. \E j \in 1..Len(x4') : x4'[j].kind = "updated" /\ x4'[j].rev = x1
          BY <1>5, <3>1, <4>2
        <5> QED
          BY <1>1, <5>1 DEF EditComes
      <4> QED
        BY <3>2, <4>1, <4>2 DEF EditComes
    <3> QED
      BY <1>1, <1>12, <3>3 DEF TextCatchesUp
  <2> QED
    BY <2>2, <2>3
<1>16. ASSUME NEW c, CreationComes(c), ~(e.kind = "created" /\ e.of = c) PROVE CreationComes(c)'
  <2>1. (\E i \in 1..Len(x4) : x4[i].kind = "created" /\ x4[i].of = c) =>
          \E j \in 1..Len(x4') : x4'[j].kind = "created" /\ x4'[j].of = c
    BY <1>5, <1>16
  <2> QED
    BY <1>1, <1>16, <2>1 DEF CreationComes
<1>17. ASSUME NEW c, Events!DeletionComes(c),
              ~(e.kind = "deleted" /\ e.of = c)
       PROVE  Events!DeletionComes(c)'
  <2>1. (\E i \in 1..Len(x4) : x4[i].kind = "deleted" /\ x4[i].of = c) =>
          \E j \in 1..Len(x4') : x4'[j].kind = "deleted" /\ x4'[j].of = c
    BY <1>5, <1>17
  <2> QED
    BY <1>1, <1>17, <2>1 DEF Events!DeletionComes
<1>18. ThreadKept'
  <2> SUFFICES ASSUME x7 # "out", x8["thread"].pc = "none", ~x9'["thread"]
               PROVE ThreadCatchesUp(x6)'
    BY <1>1, <1>8 DEF ThreadKept, Events!Queries
  <2>1. ThreadCatchesUp(x6) /\ ~Events!Overtaken(e)
    BY <1>9, EventsFacts DEF ThreadKept
  <2>2. ASSUME NEW c \in Three
        PROVE  IF c \in x2 THEN c \in x6' \/ CreationComes(c)' ELSE c \in x6' => Events!DeletionComes(c)'
    <3>1. CASE c \in x2
      <4>1. ~(e.kind = "deleted" /\ e.of = c)
        BY <1>6, <3>1 DEF Tells
      <4>2. c \in x6 \/ CreationComes(c)
        BY <2>1, <3>1 DEF ThreadCatchesUp
      <4>3. c \in x6 => c \in x6'
        BY <1>3, <4>1 DEF Events!Updated, Events!Created, Events!Deleted
      <4>4. e.kind = "created" /\ e.of = c => c \in x6'
        BY <1>3 DEF Events!Updated, Events!Created, Events!Deleted
      <4> QED
        BY <1>16, <3>1, <4>2, <4>3, <4>4
    <3>2. CASE c \notin x2
      <4> SUFFICES ASSUME c \in x6' PROVE Events!DeletionComes(c)'
        BY <3>2
      <4>1. ~(e.kind = "deleted" /\ e.of = c)
        BY <1>3 DEF Events!Updated, Events!Created, Events!Deleted
      <4>2. Events!DeletionComes(c)
        <5>1. CASE c \in x6
          BY <2>1, <3>2, <5>1 DEF ThreadCatchesUp
        <5>2. CASE c \notin x6
          BY <1>3, <2>1, <3>2, <5>2 DEF Events!Updated, Events!Created, Events!Deleted, Events!Overtaken
        <5> QED
          BY <5>1, <5>2
      <4> QED
        BY <1>17, <4>1, <4>2
    <3> QED
      BY <3>1, <3>2
  <2> QED
    BY <1>1, <2>2 DEF ThreadCatchesUp
<1> QED
  BY <1>4, <1>7, <1>10, <1>11, <1>12, <1>13, <1>14, <1>15, <1>18 DEF EventsKept

\* The connection and the fetches.
LEMMA EventsAsk ==
  ASSUME EventsInv, Events!Invalidate \/ Events!Reconnect \/ Events!Cut \/ Events!Joined
  PROVE  /\ EventsKept /\ x4' \in Seq(Events!Event) /\ x8' \in [Events!Queries -> Events!Answer]
         /\ x7' \in {"in", "out", "joining"}
         /\ UNCHANGED <<x1, x2, x3, x5, x6, x9>>
<1>1. UNCHANGED <<x1, x2, x3, x5, x6, x9>>
  BY DEF Events!Invalidate, Events!Reconnect, Events!Cut, Events!Joined, Events!server, Events!cache
<1>2. /\ x4' = x4 \/ (x4' = <<>> /\ x7' = "out")
      /\ x8' = x8 \/ Events!AskAgain
      /\ Events!AskAgain \/ x7' = "out" \/ (x4' = x4 /\ x7 = "joining" /\ x8' = x8)
      /\ x7' \in {"in", "out", "joining"}
  BY EventsFacts DEF Events!Invalidate, Events!Reconnect, Events!Cut, Events!Joined, Events!Resync
<1>3. Events!AskAgain => \A q \in Events!Queries : x8'[q] \in Events!Answer /\ x8'[q].pc = "asked" /\ x8'[q].rev = 0
  BY NoEventIsOne DEF Events!AskAgain, Events!Answer
<1>4. x8' \in [Events!Queries -> Events!Answer]
  <2>1. Events!AskAgain => x8' \in [Events!Queries -> Events!Answer]
    BY <1>3 DEF Events!AskAgain
  <2> QED
    BY <1>2, <2>1, EventsFacts
<1>5. x4' \in Seq(Events!Event)
  <2>1. <<>> \in Seq(Events!Event)
    OBVIOUS
  <2> QED
    BY <1>2, <2>1, EventsFacts
<1>6. EventsTell'
  <2>1. \A s \in Three : x3'[s].pc = "committed" => Tells(x3[s].event)'
    BY <1>1, EventsFacts DEF EventsTell, Tells
  <2>2. \A i \in 1..Len(x4') : Tells(x4[i])'
    <3>1. CASE x4' = x4
      BY <1>1, <3>1, EventsFacts DEF EventsTell, Tells
    <3>2. CASE x4' = <<>>
      <4>1. Len(x4') = 0
        BY <3>2
      <4> QED
        BY <4>1
    <3> QED
      BY <1>2, <3>1, <3>2
  <2> QED
    BY <1>1, <2>1, <2>2, EventsFacts DEF EventsTell
<1>7. OldRevs'
  BY <1>1, <1>2, <1>3, EventsFacts DEF OldRevs
<1>8. CASE Events!AskAgain
  <2>1. TextKept' /\ ThreadKept'
    BY <1>3, <1>8 DEF TextKept, ThreadKept, Events!Queries
  <2> QED
    BY <1>1, <1>2, <1>4, <1>5, <1>6, <1>7, <2>1 DEF EventsKept
<1>9. CASE x7' = "out"
  BY <1>1, <1>2, <1>4, <1>5, <1>6, <1>7, <1>9 DEF EventsKept, TextKept, ThreadKept
<1>10. CASE x4' = x4 /\ x7 = "joining" /\ x8' = x8
  <2>1. TextKept'
    BY <1>1, <1>10, EventsFacts DEF TextKept, TextCatchesUp, EditComes
  <2>2. ThreadKept'
    BY <1>1, <1>10, EventsFacts DEF ThreadKept, ThreadCatchesUp, CreationComes, Events!DeletionComes
  <2> QED
    BY <1>1, <1>2, <1>4, <1>5, <1>6, <1>7, <2>1, <2>2 DEF EventsKept
<1> QED
  BY <1>2, <1>8, <1>9, <1>10

\* What an answer does not touch.
LEMMA EventsStay ==
  ASSUME EventsInv, UNCHANGED <<x1, x2, x3, x4, x7>>
  PROVE /\ EventsTell'
        /\ \A v : TextCatchesUp(v)' = TextCatchesUp(v)
        /\ \A set : ThreadCatchesUp(set)' = ThreadCatchesUp(set)
<1>1. EventsTell'
  BY EventsFacts DEF EventsTell, Tells
<1>2. \A v : TextCatchesUp(v)' = TextCatchesUp(v)
  BY DEF TextCatchesUp, EditComes
<1>3. \A c : CreationComes(c)' = CreationComes(c) /\ Events!DeletionComes(c)' = Events!DeletionComes(c)
  BY DEF CreationComes, Events!DeletionComes
<1>4. \A set : ThreadCatchesUp(set)' = ThreadCatchesUp(set)
  BY <1>3 DEF ThreadCatchesUp
<1> QED
  BY <1>1, <1>2, <1>4

\* A query reads the database.
LEMMA EventsRead ==
  ASSUME EventsInv, NEW q \in Events!Queries, Events!Read(q)
  PROVE  /\ EventsKept /\ x8' \in [Events!Queries -> Events!Answer]
         /\ UNCHANGED <<x1, x2, x3, x4, x5, x6, x7, x9>>
<1>1. /\ x8' = [x8 EXCEPT ![q] = [pc |-> "read", rev |-> x1, set |-> x2, crossed |-> FALSE]]
      /\ UNCHANGED <<x1, x2, x3, x4, x5, x6, x7, x9>>
  BY DEF Events!Read, Events!server, Events!cache
<1>2. [pc |-> "read", rev |-> x1, set |-> x2, crossed |-> FALSE] \in Events!Answer
  BY EventsFacts DEF Events!Answer
<1>3. /\ x8' \in [Events!Queries -> Events!Answer]
      /\ x8'[q].pc = "read" /\ x8'[q].rev = x1 /\ x8'[q].set = x2
      /\ \A p \in Events!Queries : p # q => x8'[p] = x8[p]
  BY <1>1, <1>2, EventsFacts
<1>4. EventsTell'
  BY <1>1, EventsStay
<1>5. OldRevs'
  BY <1>1, <1>3, EventsFacts DEF OldRevs
<1>6. TextCatchesUp(x1) /\ ThreadCatchesUp(x2)
  BY EventsFacts DEF TextCatchesUp, ThreadCatchesUp
<1>7. PICK v, set : v = x8'["list"].rev /\ set = x8'["thread"].set
  OBVIOUS
<1>8. PICK v0, set0 : v0 = x5 /\ set0 = x6
  OBVIOUS
<1>9. TextKept'
  <2>1. \A u : TextCatchesUp(u)' = TextCatchesUp(u)
    BY <1>1, EventsStay
  <2>2. x7 # "out" /\ x8'["list"].pc = "read" /\ ~x8'["list"].crossed => TextCatchesUp(v)
    <3>1. CASE q = "list"
      BY <1>3, <1>6, <1>7, <3>1
    <3>2. CASE q # "list"
      BY <1>3, <1>7, <3>2, EventsFacts DEF TextKept, Events!Queries
    <3> QED
      BY <3>1, <3>2
  <2>3. x7 # "out" /\ x8'["list"].pc = "none" /\ ~x9'["list"] => TextCatchesUp(v0)
    <3>1. CASE q = "list"
      BY <1>3, <3>1
    <3>2. CASE q # "list"
      BY <1>1, <1>3, <1>8, <3>2, EventsFacts DEF TextKept, Events!Queries
    <3> QED
      BY <3>1, <3>2
  <2>4. TextCatchesUp(v)' = TextCatchesUp(x8["list"].rev)' /\ TextCatchesUp(v0)' = TextCatchesUp(x5)'
    BY <1>1, <1>7, <1>8 DEF TextCatchesUp
  <2> QED
    BY <1>1, <2>1, <2>2, <2>3, <2>4 DEF TextKept
<1>10. ThreadKept'
  <2>1. \A u : ThreadCatchesUp(u)' = ThreadCatchesUp(u)
    BY <1>1, EventsStay
  <2>2. x7 # "out" /\ x8'["thread"].pc = "read" /\ ~x8'["thread"].crossed => ThreadCatchesUp(set)
    <3>1. CASE q = "thread"
      BY <1>3, <1>6, <1>7, <3>1
    <3>2. CASE q # "thread"
      BY <1>3, <1>7, <3>2, EventsFacts DEF ThreadKept, Events!Queries
    <3> QED
      BY <3>1, <3>2
  <2>3. x7 # "out" /\ x8'["thread"].pc = "none" /\ ~x9'["thread"] => ThreadCatchesUp(set0)
    <3>1. CASE q = "thread"
      BY <1>3, <3>1
    <3>2. CASE q # "thread"
      BY <1>1, <1>3, <1>8, <3>2, EventsFacts DEF ThreadKept, Events!Queries
    <3> QED
      BY <3>1, <3>2
  <2>4. ThreadCatchesUp(set)' = ThreadCatchesUp(x8["thread"].set)' /\ ThreadCatchesUp(set0)' = ThreadCatchesUp(x6)'
    BY <1>1, <1>7, <1>8 DEF ThreadCatchesUp
  <2> QED
    BY <1>1, <2>1, <2>2, <2>3, <2>4 DEF ThreadKept
<1> QED
  BY <1>1, <1>3, <1>4, <1>5, <1>9, <1>10 DEF EventsKept

\* The answer of a query replaces what is shown.
LEMMA EventsGot ==
  ASSUME EventsInv, NEW q \in Events!Queries, Events!Got(q)
  PROVE  /\ EventsKept /\ x8' \in [Events!Queries -> Events!Answer]
         /\ x9' \in [Events!Queries -> BOOLEAN]
         /\ x5' \in Events!Revs /\ x6' \subseteq Three /\ UNCHANGED <<x1, x2, x3, x4, x7>>
<1>1. /\ x8[q].pc = "read" /\ x8' = [x8 EXCEPT ![q] = Events!NoAnswer]
      /\ x9' = [x9 EXCEPT ![q] = x8[q].crossed]
      /\ UNCHANGED <<x1, x2, x3, x4, x7>>
      /\ IF q = "list" THEN x5' = x8[q].rev /\ x6' = x6
                       ELSE x6' = x8[q].set /\ x5' = x5
  BY DEF Events!Got, Events!server
<1>2. x8[q] \in Events!Answer
  BY EventsFacts
<1>3. /\ x8' \in [Events!Queries -> Events!Answer] /\ x8'[q] = Events!NoAnswer
      /\ \A p \in Events!Queries : p # q => x8'[p] = x8[p]
  BY <1>1, EventsFacts, NoEventIsOne
<1>4. x9' \in [Events!Queries -> BOOLEAN] /\ x9'[q] = x8[q].crossed
      /\ \A p \in Events!Queries : p # q => x9'[p] = x9[p]
  BY <1>1, <1>2, EventsFacts DEF Events!Answer
<1>5. x5' \in Events!Revs /\ x6' \subseteq Three
  BY <1>1, <1>2, EventsFacts DEF Events!Answer
<1>6. x5' <= x1 /\ \A p \in Events!Queries : x8'[p].rev <= x1
  BY <1>1, <1>3, EventsFacts, NoEventIsOne DEF OldRevs
<1>7. EventsTell'
  BY <1>1, EventsStay
<1>8. OldRevs'
  BY <1>1, <1>6 DEF OldRevs
<1>9. PICK v, set : v = x8'["list"].rev /\ set = x8'["thread"].set
  OBVIOUS
<1>10. PICK v0, set0 : v0 = x5' /\ set0 = x6'
  OBVIOUS
<1>11. TextKept'
  <2>1. \A u : TextCatchesUp(u)' = TextCatchesUp(u)
    BY <1>1, EventsStay
  <2>2. x7 # "out" /\ x8'["list"].pc = "read" /\ ~x8'["list"].crossed => TextCatchesUp(v)
    <3>1. CASE q = "list"
      BY <1>3, <3>1, NoEventIsOne
    <3>2. CASE q # "list"
      BY <1>3, <1>9, <3>2, EventsFacts DEF TextKept, Events!Queries
    <3> QED
      BY <3>1, <3>2
  <2>3. x7 # "out" /\ x8'["list"].pc = "none" /\ ~x9'["list"] => TextCatchesUp(v0)
    <3>1. CASE q = "list"
      BY <1>1, <1>4, <1>10, <3>1, EventsFacts DEF TextKept
    <3>2. CASE q # "list"
      BY <1>1, <1>3, <1>4, <1>10, <3>2, EventsFacts DEF TextKept, Events!Queries
    <3> QED
      BY <3>1, <3>2
  <2>4. TextCatchesUp(v)' = TextCatchesUp(x8["list"].rev)' /\ TextCatchesUp(v0)' = TextCatchesUp(x5)'
    BY <1>1, <1>9, <1>10 DEF TextCatchesUp
  <2> QED
    BY <1>1, <2>1, <2>2, <2>3, <2>4 DEF TextKept
<1>12. ThreadKept'
  <2>1. \A u : ThreadCatchesUp(u)' = ThreadCatchesUp(u)
    BY <1>1, EventsStay
  <2>2. x7 # "out" /\ x8'["thread"].pc = "read" /\ ~x8'["thread"].crossed => ThreadCatchesUp(set)
    <3>1. CASE q = "thread"
      BY <1>3, <3>1, NoEventIsOne
    <3>2. CASE q # "thread"
      BY <1>3, <1>9, <3>2, EventsFacts DEF ThreadKept, Events!Queries
    <3> QED
      BY <3>1, <3>2
  <2>3. x7 # "out" /\ x8'["thread"].pc = "none" /\ ~x9'["thread"] => ThreadCatchesUp(set0)
    <3>1. CASE q = "thread"
      BY <1>1, <1>4, <1>10, <3>1, EventsFacts DEF ThreadKept
    <3>2. CASE q # "thread"
      BY <1>1, <1>3, <1>4, <1>10, <3>2, EventsFacts DEF ThreadKept, Events!Queries
    <3> QED
      BY <3>1, <3>2
  <2>4. ThreadCatchesUp(set)' = ThreadCatchesUp(x8["thread"].set)' /\ ThreadCatchesUp(set0)' = ThreadCatchesUp(x6)'
    BY <1>1, <1>9, <1>10 DEF ThreadCatchesUp
  <2> QED
    BY <1>1, <2>1, <2>2, <2>3, <2>4 DEF ThreadKept
<1> QED
  BY <1>1, <1>3, <1>4, <1>5, <1>7, <1>8, <1>11, <1>12 DEF EventsKept

\* Every step keeps the invariant.
LEMMA EventsSteps == ASSUME EventsInv, Events!Next PROVE EventsInv'
<1>0. EventsTell' /\ OldRevs' /\ TextKept' /\ ThreadKept'
  BY EventsEdit, EventsComment, EventsUncomment, EventsEmit, EventsApply, EventsAsk, EventsRead,
     EventsGot DEF Events!Next, EventsKept
<1>1. x1' \in Events!Revs
  <2>1. ASSUME NEW r \in Three, Events!Edit(r) PROVE x1' \in Events!Revs
    BY <2>1, EventsEdit
  <2>2. (\E r \in Three : Events!Edit(r)) \/ x1' = x1
    BY DEF Events!Next, Events!Comment, Events!Uncomment, Events!Emit, Events!Apply, Events!Invalidate,
       Events!Reconnect, Events!Cut, Events!Joined, Events!Read, Events!Got, Events!server
  <2> QED
    BY <2>1, <2>2, EventsFacts
<1>2. x2' \subseteq Three
  <2>1. (\E r \in Three : Events!Comment(r) \/ \E c \in Three : Events!Uncomment(r, c)) => x2' \subseteq Three
    BY EventsComment, EventsUncomment
  <2>2. (\E r \in Three : Events!Comment(r) \/ \E c \in Three : Events!Uncomment(r, c)) \/ x2' = x2
    BY DEF Events!Next, Events!Edit, Events!Emit, Events!Apply, Events!Invalidate, Events!Reconnect,
       Events!Cut, Events!Joined, Events!Read, Events!Got, Events!server
  <2> QED
    BY <2>1, <2>2, EventsFacts
<1>3. x3' \in [Three -> [pc : {"new", "committed", "emitted"}, event : Events!Event]] /\ EditsCounted'
  <2>1. Cardinality(Unborn) \in Nat /\ IsFiniteSet(Unborn)
    <3>1. Unborn \subseteq Three
      BY DEF Unborn
    <3>2. IsFiniteSet(Unborn)
      BY <3>1, Finite, FS_Subset
    <3> QED
      BY <3>2, FS_CardinalityType
  <2>2. ASSUME NEW r \in Three, NEW e \in Events!Event, Events!Commit(r, e), x1' \in {x1, x1 + 1}
        PROVE  /\ x3' \in [Three -> [pc : {"new", "committed", "emitted"}, event : Events!Event]]
               /\ EditsCounted'
    <3>1. Committed(r, e)
      BY <2>2, CommitKeeps
    <3>2. r \in Unborn /\ Unborn' = Unborn \ {r}
      BY <3>1 DEF Committed
    <3>3. Cardinality(Unborn \ {r}) = Cardinality(Unborn) - 1
      BY <2>1, <3>2, FS_RemoveElement
    <3>4. x1 + Cardinality(Unborn) <= Cardinality(Three)
      BY DEF EventsInv, EditsCounted
    <3>5. x1' <= x1 + 1 /\ x1' \in Nat
      BY <2>2, EventsFacts
    <3>6. Cardinality(Unborn') = Cardinality(Unborn) - 1
      BY <3>2, <3>3
    <3>7. EditsCounted'
      BY <2>1, <3>4, <3>5, <3>6, EventsFacts DEF EditsCounted
    <3> QED
      BY <3>1, <3>7 DEF Committed
  <2>3. ASSUME NEW r \in Three, Events!Edit(r) PROVE \E e \in Events!Event : Events!Commit(r,
               e) /\ x1' = x1 + 1
    <3>1. x1' \in Events!Revs /\ x1' = x1 + 1
      BY <2>3, EventsEdit DEF Events!Edit
    <3>2. [Events!NoEvent EXCEPT !.kind = "updated", !.rev = x1'] \in Events!Event
      BY <3>1, NoEventIsOne DEF Events!Event
    <3> QED
      BY <2>3, <3>1, <3>2 DEF Events!Edit
  <2>4. ASSUME NEW r \in Three, Events!Comment(r) PROVE \E e \in Events!Event : Events!Commit(r,
               e) /\ x1' = x1
    <3>1. [Events!NoEvent EXCEPT !.kind = "created", !.of = r] \in Events!Event
      BY NoEventIsOne DEF Events!Event
    <3> QED
      BY <2>4, <3>1 DEF Events!Comment
  <2>5. ASSUME NEW r \in Three, NEW c \in Three, Events!Uncomment(r, c)
        PROVE \E e \in Events!Event : Events!Commit(r, e) /\ x1' = x1
    <3>1. [Events!NoEvent EXCEPT !.kind = "deleted", !.of = c] \in Events!Event
      BY NoEventIsOne DEF Events!Event
    <3> QED
      BY <2>5, <3>1 DEF Events!Uncomment
  <2>6. ASSUME NEW r \in Three, Events!Emit(r)
        PROVE  /\ x3' \in [Three -> [pc : {"new", "committed", "emitted"}, event : Events!Event]]
               /\ EditsCounted'
    <3>1. /\ x3[r].pc = "committed" /\ x3' = [x3 EXCEPT ![r].pc = "emitted"] /\ x1' = x1
      BY <2>6 DEF Events!Emit
    <3>2. x3' \in [Three -> [pc : {"new", "committed", "emitted"}, event : Events!Event]]
      BY <3>1, EventsFacts
    <3>3. Unborn' = Unborn
      BY <3>1, EventsFacts DEF Unborn
    <3> QED
      BY <3>1, <3>2, <3>3 DEF EditsCounted, EventsInv
  <2>7. ASSUME UNCHANGED <<x1, x3>>
        PROVE  /\ x3' \in [Three -> [pc : {"new", "committed", "emitted"}, event : Events!Event]]
               /\ EditsCounted'
    BY <2>7, EventsFacts DEF EditsCounted, EventsInv, Unborn
  <2>8. \/ \E r \in Three : Events!Edit(r) \/ Events!Comment(r) \/ Events!Emit(r) \/ \E c \in Three : Events!Uncomment(r, c)
        \/ UNCHANGED <<x1, x3>>
    BY DEF Events!Next, Events!Apply, Events!Invalidate, Events!Reconnect, Events!Cut, Events!Joined,
       Events!Read, Events!Got, Events!server
  <2> QED
    BY <2>2, <2>3, <2>4, <2>5, <2>6, <2>7, <2>8
<1>4. x4' \in Seq(Events!Event)
  <2>1. ASSUME NEW r \in Three, Events!Emit(r) PROVE x4' \in Seq(Events!Event)
    BY <2>1, EventsEmit
  <2>2. Events!Apply \/ Events!Invalidate \/ Events!Reconnect \/ Events!Cut \/ Events!Joined => x4' \in Seq(Events!Event)
    BY EventsApply, EventsAsk
  <2>3. \/ \E r \in Three : Events!Emit(r)
        \/ Events!Apply \/ Events!Invalidate \/ Events!Reconnect \/ Events!Cut \/ Events!Joined
        \/ x4' = x4
    BY DEF Events!Next, Events!Edit, Events!Comment, Events!Uncomment, Events!Commit, Events!Read,
       Events!Got
  <2> QED
    BY <2>1, <2>2, <2>3, EventsFacts
<1>5. x5' \in Events!Revs /\ x6' \subseteq Three
  <2>1. ASSUME NEW q \in Events!Queries,
               Events!Got(q)
        PROVE  x5' \in Events!Revs /\ x6' \subseteq Three
    BY <2>1, EventsGot
  <2>2. Events!Apply => x5' \in Events!Revs /\ x6' \subseteq Three
    BY EventsApply
  <2>3. (\E q \in Events!Queries : Events!Got(q)) \/ Events!Apply \/ UNCHANGED <<x5, x6>>
    BY DEF Events!Next, Events!Edit, Events!Comment, Events!Uncomment, Events!Commit, Events!Emit,
       Events!Invalidate, Events!Reconnect, Events!Cut, Events!Joined, Events!Read, Events!cache
  <2> QED
    BY <2>1, <2>2, <2>3, EventsFacts
<1>6. x7' \in {"in", "out", "joining"}
  <2>1. Events!Invalidate \/ Events!Reconnect \/ Events!Cut \/ Events!Joined => x7' \in {"in", "out", "joining"}
    BY EventsAsk
  <2>2. Events!Reconnect \/ Events!Cut \/ Events!Joined \/ x7' = x7
    BY DEF Events!Next, Events!Edit, Events!Comment, Events!Uncomment, Events!Commit, Events!Emit,
       Events!Apply, Events!Invalidate, Events!Read, Events!Got
  <2> QED
    BY <2>1, <2>2, EventsFacts
<1>7. x8' \in [Events!Queries -> Events!Answer]
  <2>1. ASSUME NEW q \in Events!Queries,
               Events!Got(q) \/ Events!Read(q)
        PROVE  x8' \in [Events!Queries -> Events!Answer]
    BY <2>1, EventsGot, EventsRead
  <2>2. Events!Apply \/ Events!Invalidate \/ Events!Reconnect \/ Events!Cut \/ Events!Joined => x8' \in [Events!Queries -> Events!Answer]
    BY EventsApply, EventsAsk
  <2>3. ASSUME NEW r \in Three, Events!Emit(r) PROVE x8' \in [Events!Queries -> Events!Answer]
    BY <2>3, EventsEmit
  <2>4. \/ \E q \in Events!Queries : Events!Got(q) \/ Events!Read(q)
        \/ \E r \in Three : Events!Emit(r)
        \/ Events!Apply \/ Events!Invalidate \/ Events!Reconnect \/ Events!Cut \/ Events!Joined
        \/ x8' = x8
    BY DEF Events!Next, Events!Edit, Events!Comment, Events!Uncomment, Events!Commit
  <2> QED
    BY <2>1, <2>2, <2>3, <2>4, EventsFacts
<1>8. x9' \in [Events!Queries -> BOOLEAN]
  <2>1. ASSUME NEW q \in Events!Queries, Events!Got(q) PROVE x9' \in [Events!Queries -> BOOLEAN]
    BY <2>1, EventsGot
  <2>2. Events!Apply => x9' \in [Events!Queries -> BOOLEAN]
    BY EventsApply
  <2>3. \/ \E q \in Events!Queries : Events!Got(q)
        \/ Events!Apply \/ x9' = x9 \/ x9' = [q \in Events!Queries |-> TRUE]
    BY DEF Events!Next, Events!Edit, Events!Comment, Events!Uncomment, Events!Commit, Events!Emit,
       Events!Invalidate, Events!Reconnect, Events!Cut, Events!Joined, Events!Read
  <2>4. [q \in Events!Queries |-> TRUE] \in [Events!Queries -> BOOLEAN]
    OBVIOUS
  <2> QED
    BY <2>1, <2>2, <2>3, <2>4, EventsFacts
<1>9. x10' \in 0..MaxDrops /\ x11' \in 0..MaxFetches
  <2>1. x10 \in 0..MaxDrops /\ x11 \in 0..MaxFetches
    BY DEF EventsInv, Events!TypeOK
  <2>2. /\ x10' = x10 \/ (x10 < MaxDrops /\ x10' = x10 + 1)
        /\ x11' = x11 \/ (x11 < MaxFetches /\ x11' = x11 + 1)
    BY DEF Events!Next, Events!Edit, Events!Comment, Events!Uncomment, Events!Commit, Events!Emit,
       Events!Apply, Events!Invalidate, Events!Reconnect, Events!Cut, Events!Joined, Events!Read,
       Events!Got
  <2> QED
    BY <2>1, <2>2, TabBounds
<1> QED
  BY <1>0, <1>1, <1>2, <1>3, <1>4, <1>5, <1>6, <1>7, <1>8, <1>9 DEF EventsInv, Events!TypeOK

\* At rest nothing is still to come.
LEMMA EventsHolds ==
  ASSUME EventsInv
  PROVE  Events!TypeOK /\ Events!TextConverges /\ Events!ThreadConverges
<1>1. ASSUME Events!AtRest
      PROVE /\ x7 # "out" /\ \A q \in Events!Queries : x8[q].pc = "none"
            /\ \A v : ~EditComes(v) /\ ~CreationComes(v) /\ ~Events!DeletionComes(v)
  <2>1. Len(x4) = 0
    BY <1>1 DEF Events!AtRest
  <2>2. x7 # "out" /\ \A q \in Events!Queries : x8[q].pc = "none"
    BY <1>1, NoEventIsOne DEF Events!AtRest
  <2>3. \A r \in Three : x3[r].pc # "committed"
    BY <1>1 DEF Events!AtRest
  <2> QED
    BY <2>1, <2>2, <2>3 DEF EditComes, CreationComes, Events!DeletionComes
<1>2. Events!TextConverges
  BY <1>1, EventsFacts DEF Events!TextConverges, TextKept, TextCatchesUp, Events!Queries
<1>3. Events!ThreadConverges
  <2> SUFFICES ASSUME Events!AtRest, ~x9["thread"] PROVE x6 = x2
    BY DEF Events!ThreadConverges
  <2>1. ThreadCatchesUp(x6)
    BY <1>1, EventsFacts DEF ThreadKept, Events!Queries
  <2>2. \A c \in Three : c \in x6 <=> c \in x2
    BY <1>1, <2>1 DEF ThreadCatchesUp
  <2>3. x6 \subseteq Three /\ x2 \subseteq Three
    BY EventsFacts
  <2> QED
    BY <2>2, <2>3
<1> QED
  BY <1>2, <1>3 DEF EventsInv

-----------------------------------------------------------------------------
(* The cursors: x1 .. x10 are pointer, throttle, joined, wire, times,      *)
(* remote, running, even, missed and leaves.                               *)

\* What the throttle, the messages and the receiver hold.
Throttles == [since : 0..Interval, pending : Two \cup {Pointers!None}, timer : 0..Pointers!NoTimer]
Cursor == [at : Two, age : 0..Jitter]
Remotes == [at : Two \cup {Pointers!None}, age : 0..StaleTicks + 1]

\* What n sends take at least.
Gap(n) == n * Interval

\* The timer is for the last position.
TimerIsOfPointer ==
  /\ x2.timer # Pointers!NoTimer =>
       /\ x2.pending = x1 /\ x1 \in Two /\ x3
       /\ x2.since + x2.timer = Interval
  /\ x3 \/ x1 = Pointers!None

\* The last message is of the last position, and is missed until it arrives.
LastIsPointer ==
  /\ x3 /\ x1 # Pointers!None /\ x2.pending = Pointers!None /\ x4 # <<>> => x4[Len(x4)].at = x1
  /\ ~x9 => x4 = <<>>

\* The messages of a steady sender are an interval apart, on their way and when they came.
OnWire ==
  x8 =>
    /\ x4 # <<>> => x4[Len(x4)].age >= x2.since
    /\ \A i \in 1..Len(x4) - 1 : x4[i].age >= x4[i + 1].age + Interval
Came ==
  x8 =>
    /\ x5 # <<>> =>
         \/ x5[Len(x5)] >= Pointers!Window
         \/ x5[Len(x5)] + Jitter >= (IF x4 = <<>> THEN x2.since ELSE x4[1].age + Interval)
    /\ \A i \in 1..Len(x5) :
         x5[i] >= Pointers!Window \/ x5[i] >= x5[Len(x5)] + Gap(Len(x5) - i)

\* The cursor of another: its last position arrives, at a rate the server takes.
PointersInv == Pointers!TypeOK /\ TimerIsOfPointer /\ LastIsPointer /\ Pointers!StopIsShown /\ OnWire /\ Came

\* How the times between messages add up.
LEMMA Gaps == /\ Pointers!Window \in Nat /\ Gap(0) = 0
              /\ \A n \in Nat : Gap(n) \in Nat /\ Gap(n + 1) = Gap(n) + Interval
              /\ \A n \in Nat : n >= PerWindow => Gap(n) >= Pointers!Window
<1>1. Pointers!Window \in Nat
  BY Throttling DEF Pointers!Window
<1>2. Gap(0) = 0
  BY Throttling DEF Gap
<1>3. ASSUME NEW n \in Nat PROVE Gap(n) \in Nat /\ Gap(n + 1) = Gap(n) + Interval
  BY Throttling DEF Gap
<1>4. ASSUME NEW n \in Nat, n >= PerWindow PROVE Gap(n) >= Pointers!Window
  <2>1. PICK d \in Nat : n = PerWindow + d
    <3>1. n - PerWindow \in Nat /\ n = PerWindow + (n - PerWindow)
      BY <1>4, Throttling
    <3> QED
      BY <3>1
  <2>2. d * Interval \in Nat
    BY Throttling
  <2>3. (PerWindow + d) * Interval = Interval * PerWindow + d * Interval
    BY Throttling
  <2> QED
    BY <1>1, <2>1, <2>2, <2>3, Throttling DEF Gap, Pointers!Window
<1> QED
  BY <1>1, <1>2, <1>3, <1>4

\* The types, and what the invariant says, one by one.
LEMMA PointersFacts == ASSUME PointersInv
  PROVE /\ x1 \in Two \cup {Pointers!None}
        /\ x2 \in Throttles /\ x4 \in Seq(Cursor) /\ x5 \in Seq(0..Pointers!Window + 1)
        /\ Len(x5) <= PerWindow /\ x6 \in Remotes
        /\ TimerIsOfPointer /\ LastIsPointer /\ Pointers!StopIsShown /\ OnWire /\ Came
        /\ Interval \in Nat /\ Interval # 0 /\ PerWindow \in Nat /\ Pointers!Window \in Nat
        /\ Jitter \in Nat
        /\ StaleTicks \in Nat
        /\ x2.since \in 0..Interval /\ x2.timer \in 0..Pointers!NoTimer
<1>1. x2 \in Throttles
  BY DEF PointersInv, Pointers!TypeOK, Throttles
<1>2. x2.since \in 0..Interval /\ x2.timer \in 0..Pointers!NoTimer
  BY <1>1 DEF Throttles
<1> QED
  BY <1>1, <1>2, Throttling, TabBounds, Gaps DEF PointersInv, Pointers!TypeOK, Cursor, Remotes

\* At first nothing was sent.
LEMMA PointersInit == ASSUME Pointers!Init PROVE PointersInv
<1>1. Pointers!TypeOK
  <2>1. Pointers!Fresh \in Throttles /\ Pointers!Hidden \in Remotes
    BY Throttling, TabBounds DEF Pointers!Fresh, Pointers!Hidden, Throttles, Remotes, Pointers!NoTimer
  <2>2. x4 \in Seq([at : Two, age : 0..Jitter])
    BY DEF Pointers!Init
  <2>3. x5 \in Seq(0..Pointers!Window + 1) /\ Len(x5) <= PerWindow
    BY Throttling DEF Pointers!Init
  <2>4. x7 \in BOOLEAN /\ x8 \in BOOLEAN /\ x9 \in BOOLEAN
    BY DEF Pointers!Init
  <2>5. x10 \in 0..MaxLeaves
    BY TabBounds DEF Pointers!Init
  <2> QED
    BY <2>1, <2>2, <2>3, <2>4, <2>5 DEF Pointers!Init, Pointers!TypeOK, Throttles, Remotes
<1>2. TimerIsOfPointer /\ LastIsPointer /\ Pointers!StopIsShown
  BY DEF Pointers!Init, TimerIsOfPointer, LastIsPointer, Pointers!StopIsShown, Pointers!Fresh
<1>3. Len(x4) = 0 /\ Len(x5) = 0
  BY DEF Pointers!Init
<1>4. OnWire /\ Came
  BY <1>3 DEF Pointers!Init, OnWire, Came
<1> QED
  BY <1>1, <1>2, <1>4 DEF PointersInv

\* What a step has to keep, beside the types.
PointersKept ==
  TimerIsOfPointer' /\ LastIsPointer' /\ Pointers!StopIsShown' /\ OnWire' /\ Came' /\ Pointers!NothingDropped

\* A message is sent, an interval after the one before.
LEMMA PointersSend ==
  ASSUME PointersInv, NEW p \in Two,
         x3, x1' = p, x4' = Pointers!Sent(p), x2'.timer = Pointers!NoTimer, x2'.since = 0,
         x2'.pending = Pointers!None, x2.since = Interval, x9',
         UNCHANGED <<x3, x5, x6, x7, x8, x10>>
  PROVE PointersKept /\ x4' \in Seq(Cursor)
<1> DEFINE m == [at |-> p, age |-> 0]
<1>1. m \in Cursor /\ m.at = p /\ m.age = 0
  BY TabBounds DEF Cursor
<1>2. x4' = Append(x4, m)
  BY DEF Pointers!Sent
<1> HIDE DEF m
<1>3. /\ x4' \in Seq(Cursor) /\ Len(x4') = Len(x4) + 1 /\ Len(x4) \in Nat
      /\ x4'[Len(x4')] = m /\ x4' # <<>>
      /\ \A i \in 1..Len(x4) : x4'[i] = x4[i]
  <2>1. x4 \in Seq(Cursor)
    BY PointersFacts
  <2> QED
    BY <1>1, <1>2, <2>1
<1>4. TimerIsOfPointer' /\ LastIsPointer' /\ Pointers!StopIsShown'
  BY <1>1, <1>3 DEF TimerIsOfPointer, LastIsPointer, Pointers!StopIsShown
<1>5. OnWire'
  <2> SUFFICES ASSUME x8
               PROVE /\ x4'[Len(x4')].age >= x2'.since
                     /\ \A i \in 1..Len(x4') - 1 : x4'[i].age >= x4'[i + 1].age + Interval
    BY DEF OnWire
  <2>1. x4'[Len(x4')].age >= x2'.since
    BY <1>1, <1>3
  <2>2. ASSUME NEW i \in 1..Len(x4') - 1 PROVE x4'[i].age >= x4'[i + 1].age + Interval
    <3>1. CASE i = Len(x4)
      <4>1. x4 # <<>> /\ x4[Len(x4)].age >= Interval
        BY <1>3, <2>2, <3>1, PointersFacts DEF OnWire
      <4> QED
        BY <1>1, <1>3, <2>2, <3>1, <4>1, PointersFacts
    <3>2. CASE i # Len(x4)
      <4>1. i \in 1..Len(x4) - 1 /\ i + 1 \in 1..Len(x4) /\ i \in 1..Len(x4)
        BY <1>3, <2>2, <3>2
      <4> QED
        BY <1>3, <4>1, PointersFacts DEF OnWire
    <3> QED
      BY <3>1, <3>2
  <2> QED
    BY <2>1, <2>2
<1>6. Came'
  <2>1. x4 # <<>> => x4'[1] = x4[1]
    BY <1>3, PointersFacts
  <2>2. x4 = <<>> => x4'[1].age = 0
    BY <1>1, <1>3
  <2> QED
    BY <1>3, <2>1, <2>2, PointersFacts DEF Came
<1>7. Pointers!NothingDropped
  BY <1>3 DEF Pointers!NothingDropped
<1> QED
  BY <1>3, <1>4, <1>5, <1>6, <1>7 DEF PointersKept

\* What does not touch the messages.
LEMMA PointersStay ==
  ASSUME PointersInv, UNCHANGED <<x4, x5>>, x8' => x8 /\ x2'.since <= x2.since, x2'.since \in Nat
  PROVE OnWire' /\ Came' /\ Pointers!NothingDropped
<1>1. OnWire'
  <2>0. \A i \in 1..Len(x4) : x4[i] \in Cursor
    BY PointersFacts
  <2>1. \A i \in 1..Len(x4) : x4[i].age \in Nat
    BY <2>0, TabBounds DEF Cursor
  <2>2. x4 # <<>> => Len(x4) \in 1..Len(x4)
    BY PointersFacts
  <2> QED
    BY <2>1, <2>2, PointersFacts DEF OnWire
<1>2. Came'
  <2>1. x5 # <<>> => x5[Len(x5)] \in Nat
    BY PointersFacts
  <2> QED
    BY <2>1, PointersFacts DEF Came
<1>3. Pointers!NothingDropped
  BY PointersFacts DEF Pointers!NothingDropped
<1> QED
  BY <1>1, <1>2, <1>3

\* The pointer moves: its position is sent or waits.
LEMMA PointersPush ==
  ASSUME PointersInv, NEW p \in Two, Pointers!Push(p)
  PROVE  PointersKept /\ x4' \in Seq(Cursor) /\ x2' \in Throttles
<1>1. x3 /\ x1' = p /\ UNCHANGED <<x3, x5, x6, x7, x8, x10>>
  BY DEF Pointers!Push, Pointers!receiver
<1>2. CASE x2.since >= Interval
  <2>1. /\ x4' = Pointers!Sent(p)
        /\ x2' = [x2 EXCEPT !.since = 0, !.pending = Pointers!None, !.timer = Pointers!NoTimer]
        /\ x9' = TRUE
    BY <1>2 DEF Pointers!Push
  <2>2. Pointers!NoTimer \in 0..Pointers!NoTimer /\ 0 \in 0..Interval
    BY Throttling DEF Pointers!NoTimer
  <2>3. /\ x2' \in Throttles /\ x2'.timer = Pointers!NoTimer /\ x2'.since = 0
        /\ x2'.pending = Pointers!None
    BY <2>1, <2>2, PointersFacts DEF Throttles
  <2>4. x2.since = Interval
    BY <1>2, PointersFacts
  <2>5. PointersKept /\ x4' \in Seq(Cursor)
    BY <1>1, <2>1, <2>3, <2>4, PointersSend
  <2> QED
    BY <2>3, <2>5
<1>3. CASE ~(x2.since >= Interval)
  <2>1. x2' = Pointers!Waiting(p) /\ UNCHANGED <<x4, x9>>
    BY <1>3 DEF Pointers!Push
  <2>2. x2.since < Interval /\ Interval - x2.since \in 0..Interval
    BY <1>3, PointersFacts
  <2>3. PICK t : t = IF x2.timer = Pointers!NoTimer THEN Interval - x2.since ELSE x2.timer
    OBVIOUS
  <2>0. x2.timer # Pointers!NoTimer => x2.since + x2.timer = Interval
    BY PointersFacts DEF TimerIsOfPointer
  <2>4. t \in 0..Pointers!NoTimer /\ t # Pointers!NoTimer /\ x2.since + t = Interval
    <3>0. /\ x2.since \in 0..Interval /\ x2.timer \in 0..Pointers!NoTimer /\ Interval \in Nat
          /\ Pointers!NoTimer = Interval + 1
      BY PointersFacts DEF Pointers!NoTimer
    <3>1. CASE x2.timer = Pointers!NoTimer
      BY <2>2, <2>3, <3>0, <3>1
    <3>2. CASE x2.timer # Pointers!NoTimer
      BY <2>0, <2>3, <3>0, <3>2
    <3> QED
      BY <3>1, <3>2
  <2>5. x2' = [x2 EXCEPT !.pending = p, !.timer = t]
    BY <2>1, <2>3 DEF Pointers!Waiting
  <2>6. x2' \in Throttles /\ x2'.pending = p /\ x2'.timer = t /\ x2'.since = x2.since
    BY <2>4, <2>5, PointersFacts DEF Throttles
  <2>7. TimerIsOfPointer'
    BY <1>1, <2>4, <2>6 DEF TimerIsOfPointer
  <2>8. LastIsPointer' /\ Pointers!StopIsShown'
    BY <1>1, <2>1, <2>6, PointersFacts DEF LastIsPointer, Pointers!StopIsShown
  <2>9. OnWire' /\ Came' /\ Pointers!NothingDropped
    BY <1>1, <2>1, <2>6, PointersFacts, PointersStay
  <2> QED
    BY <2>1, <2>6, <2>7, <2>8, <2>9, PointersFacts DEF PointersKept
<1> QED
  BY <1>2, <1>3

\* The timer sends the last position.
LEMMA PointersFlush ==
  ASSUME PointersInv, Pointers!Flush
  PROVE  PointersKept /\ x4' \in Seq(Cursor) /\ x2' \in Throttles
<1>1. /\ x2.timer = 0 /\ x4' = Pointers!Sent(x2.pending) /\ x9' = TRUE
      /\ x2' = [since |-> 0, pending |-> Pointers!None, timer |-> Pointers!NoTimer]
      /\ UNCHANGED <<x1, x3, x5, x6, x7, x8, x10>>
  BY DEF Pointers!Flush, Pointers!receiver
<1>2. x2.pending = x1 /\ x1 \in Two /\ x3 /\ x2.since = Interval
  BY <1>1, PointersFacts DEF TimerIsOfPointer, Pointers!NoTimer
<1>3. x2' \in Throttles
  BY <1>1, Throttling DEF Throttles, Pointers!NoTimer
<1>4. x2'.timer = Pointers!NoTimer /\ x2'.since = 0 /\ x2'.pending = Pointers!None /\ x1' = x1
  BY <1>1
<1> QED
  BY <1>1, <1>2, <1>3, <1>4, PointersSend

\* The sender leaves the room and comes back.
LEMMA PointersLeave ==
  ASSUME PointersInv, Pointers!Leave \/ Pointers!Join
  PROVE  PointersKept /\ x2' \in Throttles /\ x1' \in Two \cup {Pointers!None}
<1>1. CASE Pointers!Leave
  <2>1. x3' = FALSE /\ x2' = Pointers!Fresh /\ x1' = Pointers!None /\ x8' = FALSE /\ UNCHANGED <<x4, x5, x6, x9>>
    BY <1>1 DEF Pointers!Leave, Pointers!receiver
  <2>2. Pointers!Fresh \in Throttles /\ Pointers!Fresh.timer = Pointers!NoTimer
    BY Throttling DEF Pointers!Fresh, Throttles, Pointers!NoTimer
  <2>3. TimerIsOfPointer' /\ LastIsPointer' /\ Pointers!StopIsShown'
    BY <2>1, <2>2, PointersFacts DEF TimerIsOfPointer, LastIsPointer, Pointers!StopIsShown
  <2>4. OnWire' /\ Came' /\ Pointers!NothingDropped
    BY <2>1 DEF OnWire, Came, Pointers!NothingDropped
  <2> QED
    BY <2>1, <2>2, <2>3, <2>4 DEF PointersKept
<1>2. CASE Pointers!Join
  <2>1. ~x3 /\ x3' = TRUE /\ UNCHANGED <<x1, x2, x4, x5, x6, x8, x9>>
    BY <1>2 DEF Pointers!Join, Pointers!receiver
  <2>2. x1 = Pointers!None /\ x2.timer = Pointers!NoTimer
    BY <2>1, PointersFacts DEF TimerIsOfPointer
  <2>3. TimerIsOfPointer' /\ LastIsPointer' /\ Pointers!StopIsShown'
    BY <2>1, <2>2, PointersFacts DEF TimerIsOfPointer, LastIsPointer, Pointers!StopIsShown
  <2>4. x2'.since <= x2.since /\ x2'.since \in Nat
    BY <2>1, PointersFacts
  <2>5. OnWire' /\ Came' /\ Pointers!NothingDropped
    BY <2>1, <2>4, PointersStay
  <2> QED
    BY <2>1, <2>3, <2>5, PointersFacts DEF PointersKept
<1> QED
  BY <1>1, <1>2

\* The receiver draws a frame.
LEMMA PointersFrame == ASSUME PointersInv, Pointers!Frame PROVE PointersKept /\ x6' \in Remotes
<1>1. /\ UNCHANGED <<x1, x2, x3, x10, x4, x5, x8, x9>>
      /\ x6' = x6 \/ x6' = Pointers!Hidden
  BY DEF Pointers!Frame, Pointers!sender
<1>2. Pointers!Hidden \in Remotes /\ Pointers!Hidden.at = Pointers!None
  BY TabBounds DEF Pointers!Hidden, Remotes
<1>3. x6' \in Remotes /\ (x6'.at = x6.at \/ x6'.at = Pointers!None)
  BY <1>1, <1>2, PointersFacts
<1>4. TimerIsOfPointer' /\ LastIsPointer' /\ Pointers!StopIsShown'
  BY <1>1, <1>3, PointersFacts DEF TimerIsOfPointer, LastIsPointer, Pointers!StopIsShown
<1>5. x2'.since <= x2.since /\ x2'.since \in Nat
  BY <1>1, PointersFacts
<1>6. OnWire' /\ Came' /\ Pointers!NothingDropped
  BY <1>1, <1>5, PointersStay
<1> QED
  BY <1>3, <1>4, <1>6 DEF PointersKept

\* A function on 1..n is a sequence.
LEMMA ASeqOf == ASSUME NEW S, NEW n \in Nat, NEW f \in [1..n -> S] PROVE f \in Seq(S) /\ Len(f) = n
<1>1. f \in Seq(S)
  BY SeqDef
<1>2. Len(f) = n
  BY <1>1, LenProperties
<1> QED
  BY <1>1, <1>2

\* Time passes.
LEMMA PointersTick ==
  ASSUME PointersInv, Pointers!Tick
  PROVE /\ PointersKept /\ x2' \in Throttles /\ x4' \in Seq(Cursor)
        /\ x5' \in Seq(0..Pointers!Window + 1) /\ Len(x5') = Len(x5) /\ x6' \in Remotes
<1>1. /\ x2.timer # 0 /\ \A i \in 1..Len(x4) : x4[i].age < Jitter
      /\ x2' = [x2 EXCEPT !.since = IF x2.since < Interval THEN x2.since + 1 ELSE x2.since,
                                      !.timer = IF x2.timer = Pointers!NoTimer THEN Pointers!NoTimer ELSE x2.timer - 1]
      /\ x4' = [i \in DOMAIN x4 |-> [x4[i] EXCEPT !.age = x4[i].age + 1]]
      /\ x5' = [i \in DOMAIN x5 |-> IF x5[i] < Pointers!Window + 1 THEN x5[i] + 1 ELSE x5[i]]
      /\ x6' = IF x6.at # Pointers!None /\ x6.age <= StaleTicks THEN [x6 EXCEPT !.age = x6.age + 1] ELSE x6
      /\ UNCHANGED <<x1, x3, x8, x9>>
  BY DEF Pointers!Tick
<1>2. PICK s : s = IF x2.since < Interval THEN x2.since + 1 ELSE x2.since
  OBVIOUS
<1>3. PICK t : t = IF x2.timer = Pointers!NoTimer THEN Pointers!NoTimer ELSE x2.timer - 1
  OBVIOUS
<1>0. /\ x2.since \in 0..Interval /\ x2.timer \in 0..Pointers!NoTimer /\ Pointers!NoTimer = Interval + 1
      /\ Interval \in Nat /\ Pointers!Window \in Nat /\ Jitter \in Nat
  BY PointersFacts DEF Pointers!NoTimer
<1>4. /\ s \in 0..Interval /\ s <= x2.since + 1
      /\ x2.since < Interval => s = x2.since + 1
  BY <1>0, <1>2
<1>5. t \in 0..Pointers!NoTimer
  <2>1. Pointers!NoTimer = Interval + 1
    BY DEF Pointers!NoTimer
  <2> QED
    BY <1>1, <1>3, <2>1, PointersFacts
<1>6. t # Pointers!NoTimer => x2.timer # Pointers!NoTimer /\ t = x2.timer - 1
  BY <1>3
<1>7. x2' = [x2 EXCEPT !.since = s, !.timer = t]
  BY <1>1, <1>2, <1>3
<1>8. x2' \in Throttles /\ x2'.since = s /\ x2'.timer = t /\ x2'.pending = x2.pending
  BY <1>4, <1>5, <1>7, PointersFacts DEF Throttles
<1>9. /\ Len(x4) \in Nat /\ DOMAIN x4 = 1..Len(x4) /\ Len(x5) \in Nat /\ DOMAIN x5 = 1..Len(x5)
      /\ \A i \in 1..Len(x4) : x4[i] \in Cursor
      /\ \A i \in 1..Len(x5) : x5[i] \in 0..Pointers!Window + 1
  BY PointersFacts
<1>10. \A i \in 1..Len(x4) : x4[i].age \in Nat
  BY <1>9, TabBounds DEF Cursor
<1>11. \A i \in 1..Len(x4) : /\ [x4[i] EXCEPT !.age = x4[i].age + 1] \in Cursor
                             /\ [x4[i] EXCEPT !.age = x4[i].age + 1].at = x4[i].at
                             /\ [x4[i] EXCEPT !.age = x4[i].age + 1].age = x4[i].age + 1
  <2> SUFFICES ASSUME NEW i \in 1..Len(x4)
               PROVE /\ [x4[i] EXCEPT !.age = x4[i].age + 1] \in Cursor
                     /\ [x4[i] EXCEPT !.age = x4[i].age + 1].at = x4[i].at
                     /\ [x4[i] EXCEPT !.age = x4[i].age + 1].age = x4[i].age + 1
    OBVIOUS
  <2>1. x4[i] \in Cursor /\ x4[i].age \in 0..Jitter /\ x4[i].age < Jitter
    BY <1>1, <1>9 DEF Cursor
  <2>2. x4[i].age + 1 \in 0..Jitter
    BY <1>0, <2>1
  <2> QED
    BY <2>1, <2>2 DEF Cursor
<1>12. x4' \in Seq(Cursor) /\ Len(x4') = Len(x4) /\ (x4' = <<>> <=> x4 = <<>>)
  <2>1. x4' \in [1..Len(x4) -> Cursor]
    BY <1>1, <1>9, <1>11
  <2>2. x4' \in Seq(Cursor) /\ Len(x4') = Len(x4)
    BY <1>9, <2>1, ASeqOf
  <2>3. x4 \in Seq(Cursor)
    BY PointersFacts
  <2> QED
    BY <2>2, <2>3
<1>13. \A i \in 1..Len(x4) : x4'[i].at = x4[i].at /\ x4'[i].age = x4[i].age + 1
  BY <1>1, <1>9, <1>11
<1>14. \A i \in 1..Len(x5) : /\ x5'[i] \in 0..Pointers!Window + 1 /\ x5'[i] <= x5[i] + 1
                             /\ x5[i] >= Pointers!Window => x5'[i] >= Pointers!Window
                             /\ x5[i] < Pointers!Window => x5'[i] = x5[i] + 1
  BY <1>1, <1>9, PointersFacts
<1>15. x5' \in Seq(0..Pointers!Window + 1) /\ Len(x5') = Len(x5) /\ (x5' = <<>> <=> x5 = <<>>)
  <2>1. x5' \in [1..Len(x5) -> 0..Pointers!Window + 1]
    BY <1>1, <1>9, <1>14
  <2>2. x5' \in Seq(0..Pointers!Window + 1) /\ Len(x5') = Len(x5)
    BY <1>9, <2>1, ASeqOf
  <2>3. x5 \in Seq(0..Pointers!Window + 1)
    BY PointersFacts
  <2> QED
    BY <2>2, <2>3
<1>16. x6' \in Remotes /\ x6'.at = x6.at
  <2>1. CASE x6.at # Pointers!None /\ x6.age <= StaleTicks
    <3>1. x6.age + 1 \in 0..StaleTicks + 1
      BY <2>1, PointersFacts DEF Remotes
    <3> QED
      BY <1>1, <2>1, <3>1, PointersFacts DEF Remotes
  <2>2. CASE ~(x6.at # Pointers!None /\ x6.age <= StaleTicks)
    BY <1>1, <2>2, PointersFacts
  <2> QED
    BY <2>1, <2>2
<1>17. TimerIsOfPointer'
  <2>1. x2.timer # Pointers!NoTimer => x2.since + x2.timer = Interval
    BY PointersFacts DEF TimerIsOfPointer
  <2>2. t # Pointers!NoTimer => s + t = Interval
    <3> SUFFICES ASSUME t # Pointers!NoTimer PROVE s + t = Interval
      OBVIOUS
    <3>1. x2.timer # 0 /\ t = x2.timer - 1 /\ x2.since + x2.timer = Interval
      BY <1>1, <1>6, <2>1
    <3>2. x2.since < Interval
      BY <1>0, <3>1
    <3> QED
      BY <1>0, <1>4, <3>1, <3>2
  <2> QED
    BY <1>1, <1>6, <1>8, <2>2, PointersFacts DEF TimerIsOfPointer
<1>18. x4 # <<>> => Len(x4) \in 1..Len(x4) /\ 1 \in 1..Len(x4)
  BY <1>9, PointersFacts
<1>19. LastIsPointer' /\ Pointers!StopIsShown'
  BY <1>1, <1>8, <1>12, <1>13, <1>16, <1>18, PointersFacts DEF LastIsPointer, Pointers!StopIsShown
<1>20. OnWire'
  <2> SUFFICES ASSUME x8
               PROVE /\ x4 # <<>> => x4'[Len(x4)].age >= s
                     /\ \A i \in 1..Len(x4) - 1 : x4'[i].age >= x4'[i + 1].age + Interval
    BY <1>1, <1>8, <1>12 DEF OnWire
  <2>1. x4 # <<>> => x4'[Len(x4)].age >= s
    <3> SUFFICES ASSUME x4 # <<>> PROVE x4'[Len(x4)].age >= s
      OBVIOUS
    <3>1. x4[Len(x4)].age >= x2.since
      BY PointersFacts DEF OnWire
    <3> QED
      BY <1>0, <1>4, <1>10, <1>13, <1>18, <3>1
  <2>2. ASSUME NEW i \in 1..Len(x4) - 1 PROVE x4'[i].age >= x4'[i + 1].age + Interval
    <3>1. i \in 1..Len(x4) /\ i + 1 \in 1..Len(x4)
      BY <1>9, <2>2
    <3>2. x4[i].age >= x4[i + 1].age + Interval
      BY <2>2, PointersFacts DEF OnWire
    <3> QED
      BY <1>0, <1>10, <1>13, <3>1, <3>2
  <2> QED
    BY <2>1, <2>2
<1>21. Came'
  <2> SUFFICES ASSUME x8, x5 # <<>>
               PROVE /\ \/ x5'[Len(x5)] >= Pointers!Window
                        \/ x5'[Len(x5)] + Jitter >= (IF x4 = <<>> THEN s ELSE x4'[1].age + Interval)
                     /\ \A i \in 1..Len(x5) :
                          x5'[i] >= Pointers!Window \/ x5'[i] >= x5'[Len(x5)] + Gap(Len(x5) - i)
    <3>1. x5 = <<>> => Len(x5) = 0
      OBVIOUS
    <3> QED
      BY <1>1, <1>8, <1>9, <1>12, <1>15, <3>1 DEF Came
  <2>1. Len(x5) \in 1..Len(x5) /\ x5[Len(x5)] \in Nat
    BY <1>9, PointersFacts
  <2>2. \/ x5'[Len(x5)] >= Pointers!Window
        \/ x5'[Len(x5)] + Jitter >= (IF x4 = <<>> THEN s ELSE x4'[1].age + Interval)
    <3>1. CASE x5[Len(x5)] >= Pointers!Window
      BY <1>14, <2>1, <3>1
    <3>2. CASE ~(x5[Len(x5)] >= Pointers!Window)
      <4>1. x5'[Len(x5)] = x5[Len(x5)] + 1
        BY <1>0, <1>14, <2>1, <3>2
      <4>2. x5[Len(x5)] + Jitter >= (IF x4 = <<>> THEN x2.since ELSE x4[1].age + Interval)
        BY <3>2, PointersFacts DEF Came
      <4>3. CASE x4 = <<>>
        BY <1>0, <1>4, <2>1, <4>1, <4>2, <4>3
      <4>4. CASE x4 # <<>>
        BY <1>0, <1>10, <1>13, <1>18, <2>1, <4>1, <4>2, <4>4
      <4> QED
        BY <4>3, <4>4
    <3> QED
      BY <3>1, <3>2
  <2>3. ASSUME NEW i \in 1..Len(x5)
        PROVE x5'[i] >= Pointers!Window \/ x5'[i] >= x5'[Len(x5)] + Gap(Len(x5) - i)
    <3>1. Gap(Len(x5) - i) \in Nat
      <4>1. Len(x5) - i \in Nat
        BY <1>9
      <4> QED
        BY <4>1, Gaps
    <3>2. x5[i] >= Pointers!Window \/ x5[i] >= x5[Len(x5)] + Gap(Len(x5) - i)
      BY PointersFacts DEF Came
    <3>3. PICK g \in Nat : g = Gap(Len(x5) - i)
      BY <3>1
    <3>4. /\ x5[i] \in Nat /\ x5'[Len(x5)] <= x5[Len(x5)] + 1
          /\ x5'[Len(x5)] \in Nat /\ x5'[i] \in Nat
          /\ x5[i] >= Pointers!Window => x5'[i] >= Pointers!Window
          /\ x5[i] < Pointers!Window => x5'[i] = x5[i] + 1
      BY <1>0, <1>9, <1>14, <2>1
    <3>5. x5[i] >= Pointers!Window \/ x5[i] >= x5[Len(x5)] + g
      BY <3>2, <3>3
    <3>6. x5'[i] >= Pointers!Window \/ x5'[i] >= x5'[Len(x5)] + g
      BY <1>0, <2>1, <3>3, <3>4, <3>5
    <3> QED
      BY <3>3, <3>6
  <2> QED
    BY <2>2, <2>3
<1>22. Pointers!NothingDropped
  BY <1>9, <1>12 DEF Pointers!NothingDropped
<1> QED
  BY <1>8, <1>12, <1>15, <1>16, <1>17, <1>19, <1>20, <1>21, <1>22 DEF PointersKept

\* The server takes a message: a steady sender is within its limit.
LEMMA PointersRelay ==
  ASSUME PointersInv, NEW received \in BOOLEAN, Pointers!Relay(received)
  PROVE /\ PointersKept /\ x4' \in Seq(Cursor)
        /\ x5' \in Seq(0..Pointers!Window + 1) /\ Len(x5') <= PerWindow /\ x6' \in Remotes
<1>1. /\ x4 # <<>> /\ x4' = Tail(x4) /\ UNCHANGED <<x1, x2, x3, x10>>
      /\ x8' => x8 /\ x4[1].age = Jitter
  BY DEF Pointers!Relay, Pointers!sender
<1>2. PICK k \in 0..Len(x5) :
        /\ Pointers!Shifted(k)
        /\ x5' = IF Len(SubSeq(x5, k + 1, Len(x5))) >= PerWindow
                      THEN SubSeq(x5, k + 1, Len(x5))
                      ELSE Append(SubSeq(x5, k + 1, Len(x5)), 0)
        /\ IF received /\ ~(Len(SubSeq(x5, k + 1, Len(x5))) >= PerWindow)
             THEN x6' = [at |-> x4[1].at, age |-> 0] /\ x9' = (Len(x4) > 1)
             ELSE UNCHANGED <<x6, x9>>
  BY DEF Pointers!Relay, Pointers!receiver
<1>3. PICK recent : recent = SubSeq(x5, k + 1, Len(x5))
  OBVIOUS
<1>0. /\ Interval \in Nat /\ Interval # 0 /\ PerWindow \in Nat /\ PerWindow # 0
      /\ Pointers!Window \in Nat
      /\ Jitter \in Nat
      /\ x2.since \in 0..Interval
  BY PointersFacts, Throttling
<1>4. /\ Len(x4) \in Nat /\ Len(x5) \in Nat /\ k \in Nat /\ k <= Len(x5) /\ k \in Int
      /\ \A i \in 1..Len(x4) : x4[i] \in Cursor
      /\ \A i \in 1..Len(x5) : x5[i] \in 0..Pointers!Window + 1
  BY PointersFacts
<1>5. \A i \in 1..Len(x4) : x4[i].age \in Nat /\ x4[i].at \in Two
  BY <1>4, TabBounds DEF Cursor
<1>6. /\ x4' \in Seq(Cursor) /\ Len(x4') = Len(x4) - 1 /\ Len(x4) >= 1
      /\ \A i \in 1..Len(x4') : x4'[i] = x4[i + 1]
  <2>1. x4 \in Seq(Cursor)
    BY PointersFacts
  <2> QED
    BY <1>1, <2>1
<1>7. /\ recent \in Seq(0..Pointers!Window + 1) /\ Len(recent) = Len(x5) - k /\ Len(recent) \in Nat
      /\ \A i \in 1..Len(recent) : recent[i] = x5[k + i] /\ k + i \in 1..Len(x5)
  <2>1. \A i \in k + 1..Len(x5) : x5[i] \in 0..Pointers!Window + 1
    BY <1>4
  <2>2. k + 1 \in Int /\ Len(x5) \in Int
    BY <1>4
  <2>3. /\ recent \in Seq(0..Pointers!Window + 1)
        /\ Len(recent) = IF k + 1 <= Len(x5) THEN Len(x5) - (k + 1) + 1 ELSE 0
        /\ \A i \in 1..Len(x5) - (k + 1) + 1 : recent[i] = x5[(k + 1) + i - 1]
    BY <1>3, <2>1, <2>2, SubSeqProperties
  <2>4. Len(recent) = Len(x5) - k
    BY <1>4, <2>3
  <2>5. ASSUME NEW i \in 1..Len(recent) PROVE recent[i] = x5[k + i] /\ k + i \in 1..Len(x5)
    <3>1. i \in 1..Len(x5) - (k + 1) + 1 /\ (k + 1) + i - 1 = k + i /\ k + i \in 1..Len(x5)
      BY <1>4, <2>4, <2>5
    <3> QED
      BY <2>3, <3>1
  <2> QED
    BY <1>4, <2>3, <2>4, <2>5
\* A steady sender has sent few enough since the last window.
<1>8. ASSUME x8' PROVE /\ Len(recent) < PerWindow
                       /\ x5 # <<>> => x5[Len(x5)] >= Pointers!Window \/ x5[Len(x5)] >= Interval
  <2>1. x8 /\ x4[1].age = Jitter
    BY <1>1, <1>8
  <2>2. ASSUME x5 # <<>> PROVE x5[Len(x5)] >= Pointers!Window \/ x5[Len(x5)] >= Interval
    <3>1. x5[Len(x5)] \in Nat
      <4>1. Len(x5) \in 1..Len(x5)
        BY <2>2, PointersFacts
      <4> QED
        BY <1>0, <1>4, <4>1
    <3>2. x5[Len(x5)] >= Pointers!Window \/ x5[Len(x5)] + Jitter >= x4[1].age + Interval
      BY <1>1, <2>1, <2>2, PointersFacts DEF Came
    <3> QED
      BY <1>0, <2>1, <3>1, <3>2
  <2>3. CASE Len(recent) = 0
    BY <1>0, <2>2, <2>3
  <2>4. CASE Len(recent) # 0
    <3>1. k < Len(x5) /\ k + 1 \in 1..Len(x5) /\ Len(x5) \in 1..Len(x5)
      BY <1>4, <1>7, <2>4
    <3>2. x5 # <<>>
      BY <3>1
    <3>3. x5[k + 1] < Pointers!Window /\ x5[k + 1] \in Nat /\ x5[Len(x5)] \in Nat
      BY <1>0, <1>2, <1>4, <3>1 DEF Pointers!Shifted
    <3>4. x5[k + 1] >= x5[Len(x5)] + Gap(Len(x5) - (k + 1))
      <4>1. x5[k + 1] >= Pointers!Window \/ x5[k + 1] >= x5[Len(x5)] + Gap(Len(x5) - (k + 1))
        BY <2>1, <3>1, <3>2, PointersFacts DEF Came
      <4> QED
        BY <1>0, <3>3, <4>1
    <3>5. PICK d \in Nat : d = Len(x5) - (k + 1) /\ Len(recent) = d + 1
      <4>1. Len(x5) - (k + 1) \in Nat /\ Len(recent) = (Len(x5) - (k + 1)) + 1
        BY <1>4, <1>7, <3>1
      <4> QED
        BY <4>1
    <3>6. Gap(d) \in Nat /\ Gap(d + 1) = Gap(d) + Interval
      BY Gaps
    <3>7. x5[k + 1] >= x5[Len(x5)] + Gap(d)
      BY <3>4, <3>5
    <3>8. Gap(d + 1) < Pointers!Window
      BY <1>0, <2>2, <3>2, <3>3, <3>6, <3>7
    <3>9. ~(d + 1 >= PerWindow)
      <4>1. d + 1 \in Nat /\ Gap(d + 1) \in Nat
        BY <1>0, <3>6
      <4>2. d + 1 >= PerWindow => Gap(d + 1) >= Pointers!Window
        BY <4>1, Gaps
      <4> QED
        BY <1>0, <3>8, <4>1, <4>2
    <3> QED
      BY <1>0, <1>7, <2>2, <3>5, <3>9
  <2> QED
    BY <2>3, <2>4
<1>9. /\ x5' \in Seq(0..Pointers!Window + 1) /\ Len(x5') <= PerWindow
      /\ Len(recent) < PerWindow =>
           /\ x5' = Append(recent, 0) /\ Len(x5') = Len(recent) + 1 /\ x5' # <<>> /\ x5'[Len(x5')] = 0
           /\ \A i \in 1..Len(recent) : x5'[i] = recent[i]
  <2>1. CASE Len(recent) >= PerWindow
    <3>1. x5' = recent
      BY <1>2, <1>3, <2>1
    <3>2. Len(x5) <= PerWindow
      BY PointersFacts
    <3> QED
      BY <1>0, <1>4, <1>7, <2>1, <3>1, <3>2
  <2>2. CASE ~(Len(recent) >= PerWindow)
    <3>1. x5' = Append(recent, 0)
      BY <1>2, <1>3, <2>2
    <3>2. 0 \in 0..Pointers!Window + 1
      BY <1>0
    <3>3. /\ x5' \in Seq(0..Pointers!Window + 1) /\ Len(x5') = Len(recent) + 1 /\ x5'[Len(x5')] = 0
          /\ x5' # <<>> /\ \A i \in 1..Len(recent) : x5'[i] = recent[i]
      BY <1>7, <3>1, <3>2
    <3>4. Len(x5') <= PerWindow
      BY <1>0, <1>7, <2>2, <3>3
    <3> QED
      BY <3>1, <3>3, <3>4
  <2> QED
    BY <2>1, <2>2
<1>10. x6' \in Remotes
  <2>1. x4[1].at \in Two
    BY <1>5, <1>6
  <2>2. [at |-> x4[1].at, age |-> 0] \in Remotes
    BY <2>1, TabBounds DEF Remotes
  <2> QED
    BY <1>2, <2>2, PointersFacts
<1>11. TimerIsOfPointer'
  BY <1>1, PointersFacts DEF TimerIsOfPointer
<1>12. x4' # <<>> => Len(x4') \in 1..Len(x4') /\ 1 \in 1..Len(x4')
  BY <1>6
<1>13. x4' # <<>> => x4'[Len(x4')] = x4[Len(x4)] /\ x4'[1] = x4[2] /\ 1 \in 1..Len(x4) - 1
  <2> SUFFICES ASSUME x4' # <<>>
               PROVE x4'[Len(x4')] = x4[Len(x4)] /\ x4'[1] = x4[2] /\ 1 \in 1..Len(x4) - 1
    OBVIOUS
  <2>1. x4'[Len(x4')] = x4[Len(x4') + 1] /\ x4'[1] = x4[1 + 1] /\ Len(x4') + 1 = Len(x4)
    BY <1>4, <1>6, <1>12
  <2> QED
    BY <1>4, <1>6, <1>12, <2>1
<1>14. x4' = <<>> => Len(x4) = 1
  BY <1>4, <1>6
<1>15. x9 \/ x9' \/ x4' = <<>>
  BY <1>1, PointersFacts DEF LastIsPointer
<1>16. \/ x9' = x9 /\ x6' = x6
       \/ (~x9' => ~(Len(x4) > 1)) /\ x6' = [at |-> x4[1].at, age |-> 0]
  BY <1>2
<1>16a. ~x9' => ~(Len(x4) > 1) /\ x6' = [at |-> x4[1].at, age |-> 0]
  <2>1. x9
    BY <1>1, PointersFacts DEF LastIsPointer
  <2>2. x9' = x9 => x9'
    BY <2>1, Zenon
  <2> QED
    BY <1>16, <2>2
<1>17. LastIsPointer'
  <2>2. ~x9' => x4' = <<>>
    <3>1. ~(Len(x4) > 1) => Len(x4') = 0
      BY <1>4, <1>6
    <3>2. Len(x4') = 0 => x4' = <<>>
      BY <1>6
    <3> QED
      BY <1>16a, <3>1, <3>2
  <2> QED
    BY <1>1, <1>13, <2>2, PointersFacts DEF LastIsPointer
<1>18. Pointers!StopIsShown'
  <2>2. ~x9' => x6'.at = x4[1].at
    BY <1>16a
  <2>3. x3 /\ x1 # Pointers!None /\ x2.pending = Pointers!None => x4[Len(x4)].at = x1
    BY <1>1, PointersFacts DEF LastIsPointer
  <2> QED
    BY <1>1, <1>14, <2>2, <2>3 DEF Pointers!StopIsShown
<1>19. OnWire'
  <2> SUFFICES ASSUME x8
               PROVE /\ x4' # <<>> => x4'[Len(x4')].age >= x2.since
                     /\ \A i \in 1..Len(x4') - 1 : x4'[i].age >= x4'[i + 1].age + Interval
    BY <1>1 DEF OnWire
  <2>1. x4' # <<>> => x4'[Len(x4')].age >= x2.since
    BY <1>1, <1>13, PointersFacts DEF OnWire
  <2>2. ASSUME NEW i \in 1..Len(x4') - 1 PROVE x4'[i].age >= x4'[i + 1].age + Interval
    <3>1. i \in 1..Len(x4') /\ i + 1 \in 1..Len(x4') /\ i + 1 \in 1..Len(x4) - 1 /\ i + 1 + 1 = (i + 1) + 1
      BY <1>4, <1>6, <2>2
    <3>2. x4'[i] = x4[i + 1] /\ x4'[i + 1] = x4[(i + 1) + 1]
      BY <1>6, <3>1
    <3>3. x4[i + 1].age >= x4[(i + 1) + 1].age + Interval
      BY <3>1, PointersFacts DEF OnWire
    <3> QED
      BY <3>2, <3>3
  <2> QED
    BY <2>1, <2>2
<1>20. Came'
  <2> SUFFICES ASSUME x8'
               PROVE /\ x5' # <<>> =>
                          \/ x5'[Len(x5')] >= Pointers!Window
                          \/ x5'[Len(x5')] + Jitter >=
                               (IF x4' = <<>> THEN x2'.since ELSE x4'[1].age + Interval)
                     /\ \A i \in 1..Len(x5') :
                          x5'[i] >= Pointers!Window \/ x5'[i] >= x5'[Len(x5')] + Gap(Len(x5') - i)
    BY DEF Came
  <2>1. x8 /\ x4[1].age = Jitter
    BY <1>1
  <2>2. Len(recent) < PerWindow
    BY <1>8
  <2>3. Jitter >= (IF x4' = <<>> THEN x2.since ELSE x4'[1].age + Interval)
    <3>1. CASE x4' = <<>>
      <4>1. x4[1].age >= x2.since
        BY <1>1, <1>14, <2>1, <3>1, PointersFacts DEF OnWire
      <4> QED
        BY <2>1, <3>1, <4>1
    <3>2. CASE x4' # <<>>
      <4>1. x4[1].age >= x4[1 + 1].age + Interval
        BY <1>13, <2>1, <3>2, PointersFacts DEF OnWire
      <4> QED
        BY <1>13, <2>1, <3>2, <4>1
    <3> QED
      BY <3>1, <3>2
  <2>4. ASSUME NEW i \in 1..Len(x5') PROVE x5'[i] >= Pointers!Window \/ x5'[i] >= Gap(Len(x5') - i)
    <3>1. CASE i = Len(recent) + 1
      <4>1. x5'[i] = 0 /\ Len(x5') - i = 0
        BY <1>7, <1>9, <2>2, <3>1
      <4> QED
        BY <4>1, Gaps
    <3>2. CASE i # Len(recent) + 1
      <4>a. Len(recent) \in Nat /\ Len(x5') = Len(recent) + 1
        BY <1>7, <1>9, <2>2
      <4>0. i \in 1..Len(recent)
        BY <2>4, <3>2, <4>a
      <4>1. i \in 1..Len(recent) /\ x5'[i] = x5[k + i] /\ k + i \in 1..Len(x5)
        BY <1>7, <1>9, <2>2, <4>0
      <4>2. PICK d \in Nat : d = Len(x5) - (k + i) /\ Len(x5') - i = d + 1
        <5>1. Len(x5) - (k + i) \in Nat /\ Len(x5') - i = (Len(x5) - (k + i)) + 1
          BY <1>4, <1>7, <1>9, <2>2, <4>1
        <5> QED
          BY <5>1
      <4>3. x5 # <<>> /\ Len(x5) \in 1..Len(x5)
        BY <1>4, <4>1
      <4>4. x5[k + i] \in Nat /\ x5[Len(x5)] \in Nat
        BY <1>0, <1>4, <4>1, <4>3
      <4>5. x5[k + i] >= Pointers!Window \/ x5[k + i] >= x5[Len(x5)] + Gap(d)
        BY <2>1, <4>1, <4>2, <4>3, PointersFacts DEF Came
      <4>6. x5[Len(x5)] >= Pointers!Window \/ x5[Len(x5)] >= Interval
        BY <1>8, <4>3
      <4>7. Gap(d) \in Nat /\ Gap(d + 1) = Gap(d) + Interval
        BY Gaps
      <4>8. x5[k + i] >= Pointers!Window \/ x5[k + i] >= Gap(d + 1)
        BY <1>0, <4>4, <4>5, <4>6, <4>7
      <4> QED
        BY <4>1, <4>2, <4>8
    <3> QED
      BY <3>1, <3>2
  <2>5. x5'[Len(x5')] = 0 /\ x2'.since = x2.since
    BY <1>1, <1>9, <2>2
  <2>6. ASSUME NEW i \in 1..Len(x5') PROVE 0 + Gap(Len(x5') - i) = Gap(Len(x5') - i)
    <3>1. Len(x5') - i \in Nat
      BY <1>9, <2>6
    <3>2. Gap(Len(x5') - i) \in Nat
      BY <3>1, Gaps
    <3> QED
      BY <3>2
  <2>7. 0 + Jitter = Jitter
    BY <1>0
  <2> QED
    BY <2>3, <2>4, <2>5, <2>6, <2>7
<1>21. Pointers!NothingDropped
  BY <1>8, <1>9 DEF Pointers!NothingDropped
<1> QED
  BY <1>6, <1>9, <1>10, <1>11, <1>17, <1>18, <1>19, <1>20, <1>21 DEF PointersKept

\* Every step keeps the invariant, and drops no message of a steady sender.
LEMMA PointersSteps ==
  ASSUME PointersInv, Pointers!Next
  PROVE  PointersInv' /\ Pointers!NothingDropped
<1>1. PointersKept
  BY PointersPush, PointersFlush, PointersLeave, PointersRelay, PointersFrame, PointersTick DEF
     Pointers!Next
<1>2. x1' \in Two \cup {Pointers!None}
  BY PointersFacts DEF Pointers!Next, Pointers!Push, Pointers!Flush, Pointers!Leave, Pointers!Join,
     Pointers!Relay, Pointers!Frame, Pointers!Tick, Pointers!sender
<1>3. x2' \in Throttles
  <2>1. \/ \E p \in Two : Pointers!Push(p)
        \/ Pointers!Flush \/ Pointers!Leave \/ Pointers!Join \/ Pointers!Tick
        \/ x2' = x2
    BY DEF Pointers!Next, Pointers!Relay, Pointers!Frame, Pointers!sender
  <2> QED
    BY <2>1, PointersFacts, PointersPush, PointersFlush, PointersLeave, PointersTick
<1>4. x4' \in Seq(Cursor)
  <2>1. \/ \E p \in Two : Pointers!Push(p)
        \/ Pointers!Flush \/ Pointers!Tick
        \/ \E received \in BOOLEAN : Pointers!Relay(received)
        \/ x4' = x4
    BY DEF Pointers!Next, Pointers!Leave, Pointers!Join, Pointers!Frame
  <2> QED
    BY <2>1, PointersFacts, PointersPush, PointersFlush, PointersRelay, PointersTick
<1>5. x5' \in Seq(0..Pointers!Window + 1) /\ Len(x5') <= PerWindow
  <2>1. Pointers!Tick \/ (\E received \in BOOLEAN : Pointers!Relay(received)) \/ x5' = x5
    BY DEF Pointers!Next, Pointers!Push, Pointers!Flush, Pointers!Leave, Pointers!Join, Pointers!Frame
  <2>2. Pointers!Tick => x5' \in Seq(0..Pointers!Window + 1) /\ Len(x5') <= PerWindow
    BY PointersTick, PointersFacts
  <2> QED
    BY <2>1, <2>2, PointersFacts, PointersRelay
<1>6. x6' \in Remotes
  <2>1. Pointers!Tick \/ Pointers!Frame \/ (\E received \in BOOLEAN : Pointers!Relay(received)) \/ x6' = x6
    BY DEF Pointers!Next, Pointers!Push, Pointers!Flush, Pointers!Leave, Pointers!Join,
       Pointers!receiver
  <2> QED
    BY <2>1, PointersFacts, PointersRelay, PointersFrame, PointersTick
<1>7. x3 \in BOOLEAN /\ x7 \in BOOLEAN /\ x8 \in BOOLEAN /\ x9 \in BOOLEAN
  BY DEF PointersInv, Pointers!TypeOK
<1>8. x3' \in BOOLEAN
  BY <1>7 DEF Pointers!Next, Pointers!Push, Pointers!Flush, Pointers!Leave, Pointers!Join,
     Pointers!Relay, Pointers!Frame, Pointers!Tick, Pointers!sender
<1>9. x7' \in BOOLEAN
  BY <1>7 DEF Pointers!Next, Pointers!Push, Pointers!Flush, Pointers!Leave, Pointers!Join,
     Pointers!Relay, Pointers!Frame, Pointers!Tick, Pointers!receiver, Pointers!Again
<1>10. x8' \in BOOLEAN
  BY <1>7 DEF Pointers!Next, Pointers!Push, Pointers!Flush, Pointers!Leave, Pointers!Join,
     Pointers!Relay, Pointers!Frame, Pointers!Tick
<1>11. x9' \in BOOLEAN
  <2>1. x9' = x9 \/ x9' = TRUE \/ x9' = (Len(x4) > 1)
    BY DEF Pointers!Next, Pointers!Push, Pointers!Flush, Pointers!Leave, Pointers!Join, Pointers!Relay,
       Pointers!Frame, Pointers!Tick
  <2>2. (Len(x4) > 1) \in BOOLEAN
    OBVIOUS
  <2> QED
    BY <1>7, <2>1, <2>2
<1>12. x10' \in 0..MaxLeaves
  <2>1. x10 \in 0..MaxLeaves
    BY DEF PointersInv, Pointers!TypeOK
  <2>2. x10' = x10 \/ (x10 < MaxLeaves /\ x10' = x10 + 1)
    BY DEF Pointers!Next, Pointers!Push, Pointers!Flush, Pointers!Leave, Pointers!Join, Pointers!Relay,
       Pointers!Frame, Pointers!Tick, Pointers!sender
  <2> QED
    BY <2>1, <2>2, TabBounds
<1>13. Pointers!TypeOK'
  BY <1>2, <1>3, <1>4, <1>5, <1>6, <1>8, <1>9, <1>10, <1>11, <1>12 DEF Pointers!TypeOK, Throttles,
     Cursor, Remotes
<1> QED
  BY <1>1, <1>13 DEF PointersKept, PointersInv

-----------------------------------------------------------------------------
(* The computations: x1 is the input of each.                              *)

\* What a division says of its result.
LEMMA Divided ==
  ASSUME NEW n \in Nat, NEW d \in Nat \ {0}
  PROVE  /\ n \div d \in Nat /\ (n \div d) * d <= n /\ n < (n \div d) * d + d
         /\ n % d = n - (n \div d) * d
OBVIOUS

\* A multiple divided.
LEMMA Multiple ==
  ASSUME NEW q \in Nat, NEW d \in Nat \ {0}
  PROVE  (q * d) \div d = q /\ (q * d) % d = 0 /\ q * d \in Nat
OBVIOUS

\* Rounding errs by half a unit at most, and by half a unit upwards only to an even number.
LEMMA RoundedIsNear ==
  ASSUME NEW n \in Nat, NEW d \in Nat \ {0}
  PROVE  /\ Vision!Rounded(n, d) \in Nat
         /\ 2 * (Vision!Rounded(n, d) * d) <= 2 * n + d
         /\ 2 * n <= 2 * (Vision!Rounded(n, d) * d) + d
         /\ 2 * (Vision!Rounded(n, d) * d) = 2 * n + d => Vision!Rounded(n, d) % 2 = 0
<1>1. CASE (2 * n) % d = 0 /\ ((2 * n) \div d) % 2 = 1
  <2>1. PICK m \in Nat : m = (2 * n) \div d /\ m * d = 2 * n /\ m % 2 = 1
    BY <1>1, Divided
  <2>2. PICK j \in Nat : m = 2 * j + 1
    BY <2>1
  <2>3. m * d = 2 * (j * d) + d /\ j * d \in Nat
    BY <2>2
  <2>4. j * d <= n /\ n < j * d + d
    BY <2>1, <2>3
  <2>5. n \div d = j
    BY <2>4
  <2>6. Vision!Rounded(n, d) = IF j % 2 = 0 THEN j ELSE j + 1
    BY <1>1, <2>5 DEF Vision!Rounded
  <2>7. (j + 1) * d = j * d + d
    OBVIOUS
  <2>8. CASE j % 2 = 0
    BY <2>1, <2>3, <2>6, <2>8
  <2>9. CASE j % 2 # 0
    BY <2>1, <2>3, <2>6, <2>7, <2>9
  <2> QED
    BY <2>8, <2>9
<1>2. CASE ~((2 * n) % d = 0 /\ ((2 * n) \div d) % 2 = 1)
  <2>1. PICK r \in Nat : r = (2 * n + d) \div (2 * d) /\ r * (2 * d) <= 2 * n + d
                         /\ 2 * n + d < r * (2 * d) + 2 * d
    BY Divided
  <2>2. r * (2 * d) = 2 * (r * d) /\ r * d \in Nat
    BY <2>1
  <2>3. 2 * (r * d) # 2 * n + d
    <3> SUFFICES ASSUME 2 * (r * d) = 2 * n + d PROVE FALSE
      OBVIOUS
    <3>1. r # 0
      OBVIOUS
    <3>2. PICK k \in Nat : k = 2 * r - 1 /\ k % 2 = 1
      BY <3>1
    <3>3. k * d = 2 * n
      BY <3>2
    <3>4. (k * d) \div d = k /\ (k * d) % d = 0
      BY Multiple
    <3> QED
      BY <1>2, <3>2, <3>3, <3>4
  <2>4. Vision!Rounded(n, d) = r
    BY <1>2, <2>1 DEF Vision!Rounded, Vision!HalfUp
  <2> QED
    BY <2>1, <2>2, <2>3, <2>4
<1> QED
  BY <1>1, <1>2

\* The least of two.
LEMMA LeastOfTwo ==
  ASSUME NEW a \in Int, NEW b \in Int, a <= b
  PROVE  Vision!Min({a, b}) = a
BY DEF Vision!Min

\* The rounded box is in the image and has a width.
LEMMA BoxIsInside ==
  ASSUME x1 \in Vision!BoxInputs
  PROVE  Vision!BoxInside
<1>0. Precision \in Nat /\ Pixels \in Nat /\ Pixels <= Precision
  BY Computations
<1>1. PICK W, x, w : /\ W = x1.width /\ x = x1.x /\ w = x1.w
                     /\ W \in 1..Pixels /\ x \in 0..Pixels /\ w \in 1..Pixels /\ x + w <= W
  BY DEF Vision!BoxInputs
<1>2. Vision!Min({w, W - x}) = w
  BY <1>1, LeastOfTwo, <1>0
<1>3. PICK n, m : n = x * Precision /\ m = w * Precision /\ n \in Nat /\ m \in Nat
  <2>1. x * Precision \in Nat /\ w * Precision \in Nat
    BY <1>1, <1>0
  <2> QED
    BY <2>1
<1>4. n + m <= W * Precision /\ Precision <= m /\ W * Precision \in Nat
  <2>1. n + m = (x + w) * Precision
    BY <1>1, <1>3, <1>0
  <2>2. (x + w) * Precision <= W * Precision
    BY <1>1, <1>0
  <2>3. 1 * Precision <= w * Precision
    BY <1>1, <1>0
  <2> QED
    BY <1>1, <1>3, <2>1, <2>2, <2>3, <1>0
<1>5. PICK a, b : a = Vision!Rounded(n, W) /\ b = Vision!Rounded(m, W)
  OBVIOUS
<1>6. W \in Nat \ {0} /\ W <= Precision
  BY <1>1, <1>0
<1>7. /\ a \in Nat /\ 2 * (a * W) <= 2 * n + W /\ (2 * (a * W) = 2 * n + W => a % 2 = 0)
      /\ b \in Nat /\ 2 * (b * W) <= 2 * m + W /\ (2 * (b * W) = 2 * m + W => b % 2 = 0)
      /\ 2 * m <= 2 * (b * W) + W
  BY <1>3, <1>5, <1>6, RoundedIsNear
<1>8. b > 0
  <2> SUFFICES ASSUME b = 0 PROVE FALSE
    BY <1>7
  <2>1. 2 * m <= W
    BY <1>6, <1>7
  <2>2. W <= m
    BY <1>3, <1>4, <1>6, <1>0
  <2> QED
    BY <1>3, <1>6, <2>1, <2>2
<1>9. a + b <= Precision
  <2> SUFFICES ASSUME a + b >= Precision + 1 PROVE FALSE
    BY <1>7, <1>0
  <2>1. (a + b) * W = a * W + b * W /\ a * W \in Nat /\ b * W \in Nat
    BY <1>6, <1>7
  <2>2. (Precision + 1) * W = W * Precision + W
    BY <1>6, <1>0
  <2>3. (a + b) * W >= (Precision + 1) * W
    BY <1>6, <1>7, <1>0
  <2>4. 2 * (a * W) = 2 * n + W /\ 2 * (b * W) = 2 * m + W /\ (a + b) * W = (Precision + 1) * W
    BY <1>3, <1>4, <1>6, <1>7, <2>1, <2>2, <2>3, <1>0
  <2>5. a + b = Precision + 1
    BY <1>6, <1>7, <2>4, <1>0
  <2> QED
    BY <1>7, <2>4, <2>5, Computations
<1>10. Vision!bbox(W, x, w) = [x |-> a, w |-> b]
  BY <1>2, <1>3, <1>5 DEF Vision!bbox
<1> QED
  BY <1>1, <1>8, <1>9, <1>10 DEF Vision!BoxInside

\* A block starts at each multiple.
LEMMA RowHasBlock ==
  ASSUME NEW row \in 1..Compared
  PROVE  \E start \in 1..Compared : (start - 1) % Block = 0 /\ row \in start..start + Block - 1
<1>0. Compared \in Nat /\ Block \in Nat \ {0} /\ row - 1 \in Nat
  BY Computations
<1>1. PICK q \in Nat : q = (row - 1) \div Block /\ q * Block <= row - 1 /\ row - 1 < q * Block + Block
  BY <1>0, Divided
<1>2. (q * Block) % Block = 0 /\ q * Block \in Nat
  BY <1>0, Multiple
<1>3. PICK start \in Nat : start = q * Block + 1
  BY <1>2
<1>4. start - 1 = q * Block
  BY <1>2, <1>3
<1>5. start \in 1..Compared /\ row \in start..start + Block - 1
  BY <1>0, <1>1, <1>2, <1>3
<1> QED
  BY <1>2, <1>4, <1>5

\* Each pair alike is found in the block of its row.
LEMMA BlocksFind ==
  ASSUME x1 \in Rules!PairInputs
  PROVE  Rules!BlocksFindAll
<1>1. ASSUME NEW p \in Rules!Pairs, Rules!Above(x1, p[1], p[2]), p \notin x1.decided
      PROVE  p \in Rules!candidates(x1)
  <2>1. p[1] \in 1..Compared
    BY <1>1 DEF Rules!Pairs
  <2>2. PICK start \in 1..Compared : (start - 1) % Block = 0 /\ p[1] \in start..start + Block - 1
    BY <2>1, RowHasBlock
  <2>3. p \in Rules!OfBlock(x1, start)
    BY <1>1, <2>2 DEF Rules!OfBlock
  <2> QED
    BY <2>2, <2>3 DEF Rules!candidates
<1>2. ASSUME NEW p \in Rules!candidates(x1)
      PROVE  p \in Rules!Pairs /\ Rules!Above(x1, p[1], p[2]) /\ p \notin x1.decided
  BY DEF Rules!candidates, Rules!OfBlock
<1> QED
  BY <1>1, <1>2 DEF Rules!BlocksFindAll

\* A rule is left out for a simpler one that is found; with three items at most, that one has
\* one condition, and nothing is simpler than it.  It is shown, or those shown are not behind it.
LEMMA DroppedHasCover == Rules!DroppedIsCovered
<1> SUFFICES ASSUME NEW S \in Rules!Shown(x1.times, Rules!kept(x1.times)),
                    NEW r \in Rules!found(x1.times), r \notin Rules!kept(x1.times)
             PROVE  \E s \in Rules!kept(x1.times) :
                      /\ s.ante \subseteq r.ante /\ s.cons = r.cons /\ Rules!NotWorse(x1.times, s, r)
                      /\ \/ s \in S
                         \/ Rules!Cardinality(S) = MAX_RULES /\ \A t \in S : ~Rules!Ahead(x1.times, s, t)
  BY DEF Rules!DroppedIsCovered
<1>1. PICK s \in Rules!found(x1.times) :
        s.ante \subseteq r.ante /\ s.ante # r.ante /\ s.cons = r.cons /\ Rules!NotWorse(x1.times, s, r)
  BY DEF Rules!kept, Rules!redundant
<1>2. s \in Rules!kept(x1.times)
  <2> SUFFICES ASSUME NEW t \in Rules!found(x1.times), t.ante \subseteq s.ante, t.ante # s.ante
               PROVE  FALSE
    BY DEF Rules!kept, Rules!redundant
  <2>1. /\ r.ante \subseteq Items /\ r.cons \subseteq Items /\ r.cons # {} /\ r.ante \cap r.cons = {}
        /\ Rules!Cardinality(r.ante \cup r.cons) <= 3 /\ t.ante # {}
    BY DEF Rules!found, Rules!MAX_LEN
  <2>2. IsFiniteSet(r.ante) /\ IsFiniteSet(r.cons) /\ IsFiniteSet(s.ante) /\ IsFiniteSet(t.ante)
    BY <1>1, <2>1, Computations, FS_Subset
  <2>3. /\ Cardinality(t.ante) < Cardinality(s.ante) /\ Cardinality(s.ante) < Cardinality(r.ante)
        /\ Cardinality(t.ante) \in Nat /\ Cardinality(s.ante) \in Nat /\ Cardinality(r.ante) \in Nat
        /\ Cardinality(r.cons) \in Nat
    BY <1>1, <2>2, FS_Subset, FS_CardinalityType
  <2>4. Cardinality(t.ante) # 0 /\ Cardinality(r.cons) # 0
    BY <2>1, <2>2, FS_EmptySet
  <2>5. Cardinality(r.ante \cup r.cons) = Cardinality(r.ante) + Cardinality(r.cons) - Cardinality(r.ante \cap r.cons)
    BY <2>2, FS_Union
  <2>6. Cardinality(r.ante \cap r.cons) = 0
    BY <2>1, FS_EmptySet
  <2>7. Rules!Cardinality(r.ante \cup r.cons) = Cardinality(r.ante \cup r.cons)
    BY DEF Rules!Cardinality, Cardinality
  <2> QED
    BY <2>1, <2>3, <2>4, <2>5, <2>6, <2>7
<1>3. \/ s \in S
      \/ Rules!Cardinality(S) = MAX_RULES /\ \A t \in S : ~Rules!Ahead(x1.times, s, t)
  BY <1>2 DEF Rules!Shown
<1> QED
  BY <1>1, <1>2, <1>3

\* With two shapes, only the best head counts.
LEMMA OneHead == x1 \in Vision!LineInputs => Vision!OneDirection
<1> SUFFICES ASSUME x1 \in Vision!LineInputs, Vision!Cardinality(x1.touched) = 2
             PROVE  Vision!Cardinality(Vision!arrows(x1)) <= 1
  BY DEF Vision!OneDirection
<1>1. \E c : Vision!Best(x1) \subseteq {c}
  <2>1. CASE x1.heads = <<>>
    <3>1. Vision!Best(x1) = 1..Len(x1.heads)
      BY <2>1, Zenon DEF Vision!Best
    <3>2. 1..Len(x1.heads) = {}
      BY <2>1
    <3> QED
      BY <3>1, <3>2
  <2>2. CASE x1.heads # <<>>
    BY <2>2, Zenon DEF Vision!Best
  <2> QED
    BY <2>1, <2>2
<1>2. PICK a : Vision!arrows(x1) \subseteq {a}
  <2>1. PICK c : Vision!Best(x1) \subseteq {c}
    BY <1>1
  <2> QED
    BY <2>1, Zenon DEF Vision!arrows
<1>3. Vision!arrows(x1) = {} \/ Vision!arrows(x1) = {a}
  BY <1>2
<1>4. Vision!Cardinality(Vision!arrows(x1)) = Cardinality(Vision!arrows(x1))
  BY DEF Vision!Cardinality, Cardinality
<1>5. Cardinality({a}) = 1 /\ Cardinality({}) = 0
  BY FS_EmptySet, FS_Singleton
<1>6. Cardinality(Vision!arrows(x1)) \in {0, 1}
  BY <1>3, <1>5
<1> QED
  BY <1>4, <1>6

\* A filter that adds the duplicates counts the same, which a duplicate is never among.
LEMMA SameCounts ==
  ASSUME x1 \in Dates!Content
  PROVE  Dates!CountsAgree
<1> SUFFICES ASSUME NEW key \in {k1, k2}, NEW statuses \in {Dates!Defaults, Dates!Defaults \cup {"duplicate"}}
             PROVE  Dates!byActivity(x1.details, statuses, key) = Dates!total(x1.details, key)
  BY DEF Dates!CountsAgree
<1>1. \A r \in 1..Listed : x1.details[r].status \in {"pending", "duplicate", "discarded"}
  BY DEF Dates!Content, Dates!Details
<1>2. \A r \in 1..Listed :
        x1.details[r].status \in Dates!Selected(statuses) <=> Dates!counts(x1.details[r])
  BY <1>1 DEF Dates!Selected, Dates!counts, Dates!Defaults
<1>3. {r \in 1..Listed : x1.details[r].activity = key /\ x1.details[r].status \in Dates!Selected(statuses)}
        = Dates!living(x1.details, key)
  BY <1>2 DEF Dates!living
<1> QED
  BY <1>3 DEF Dates!byActivity, Dates!total

\* The least of two numbers.
LEMMA LeastOfNumbers ==
  ASSUME NEW a \in Int, NEW b \in Int
  PROVE  Rules!Min({a, b}) = IF a <= b THEN a ELSE b
BY DEF Rules!Min

\* Each field takes what is left of the 45 points, at most.
LEMMA TermsAreCapped ==
  ASSUME x1 \in Rules!TermInputs
  PROVE  Rules!AmbiguousIsCapped
<1>1. ASSUME NEW sum \in 0..45, NEW terms \in Nat
      PROVE  Rules!Field(sum, terms) \in 0..45
  <2>1. PICK left \in 0..45 : left = 45 - sum
    OBVIOUS
  <2>2. PICK points \in Nat : points = 15 * terms
    OBVIOUS
  <2>3. Rules!Field(sum, terms) = sum + Rules!Min({points, left})
    BY <2>1, <2>2 DEF Rules!Field, Rules!AMBIGUOUS_PENALTY, Rules!AMBIGUOUS_MAX
  <2>4. Rules!Min({points, left}) = IF points <= left THEN points ELSE left
    BY LeastOfNumbers
  <2> QED
    BY <2>1, <2>3, <2>4
<1>2. x1.found[1] \in Nat /\ x1.found[2] \in Nat /\ x1.found[3] \in Nat
  BY Computations DEF Rules!TermInputs
<1>3. Rules!ambiguous(x1.found) \in 0..45
  <2>1. PICK one \in 0..45 : one = Rules!Field(0, x1.found[1])
    BY <1>1, <1>2
  <2>2. PICK two \in 0..45 : two = Rules!Field(one, x1.found[2])
    BY <1>1, <1>2
  <2>3. Rules!Field(two, x1.found[3]) \in 0..45
    BY <1>1, <1>2
  <2> QED
    BY <2>1, <2>2, <2>3 DEF Rules!ambiguous
<1>4. Rules!Min({Rules!ambiguous(x1.found), 15})
        = IF Rules!ambiguous(x1.found) <= 15 THEN Rules!ambiguous(x1.found) ELSE 15
  BY <1>3, LeastOfNumbers
<1>5. Rules!OTHERS = 85 /\ Rules!AMBIGUOUS_MAX = 45
  BY DEF Rules!OTHERS, Rules!AMBIGUOUS_MAX
<1>6. Rules!score(x1.found, 0) >= 55
  BY <1>3 DEF Rules!score
<1>7. Rules!score(x1.found, 85) = 15 - Rules!Min({Rules!ambiguous(x1.found), 15})
  BY <1>3, <1>4 DEF Rules!score
<1>8. 100 - Rules!OTHERS = 15
  BY <1>5
<1> QED
  BY <1>3, <1>5, <1>6, <1>7, <1>8 DEF Rules!AmbiguousIsCapped

-----------------------------------------------------------------------------
(* What is read of a photo (Reading): x1 is the input.                       *)

\* The least of some numbers is one of them.
LEMMA LeastIsOne ==
  ASSUME NEW S \in SUBSET Nat, S # {}
  PROVE  Vision!Min(S) \in S
<1>1. IsWellFoundedOn(OpToRel(<, Nat), Nat)
  BY NatLessThanWellFounded
<1>2. PICK x \in S : \A y \in S : ~ (<<y, x>> \in OpToRel(<, Nat))
  BY <1>1, WFMin
<1>3. ASSUME NEW y \in S PROVE x <= y
  <2> SUFFICES ASSUME ~(x <= y) PROVE FALSE
    OBVIOUS
  <2>1. y < x /\ x \in Nat /\ y \in Nat
    OBVIOUS
  <2>2. <<y, x>> \in OpToRel(<, Nat)
    BY <2>1 DEF OpToRel
  <2> QED
    BY <1>2, <2>2
<1> QED
  BY <1>3, Zenon DEF Vision!Min

\* Shapes found so far, of D discs: those that are a ring's or a start's.
Found(D) == [used : SUBSET (1..D),
             shapes : Seq([type : {"decision", "action", "end", "start"}, box : Vision!Boxes, disc : 0..D])]

\* What a list of shapes is after a round.
LEMMA HoleAdds ==
  ASSUME NEW in, NEW D \in Nat, Len(in.discs) = D, NEW s \in Found(D), NEW hole \in Vision!Holes
  PROVE  \/ Vision!FromHole(in, s, hole) = s
         \/ /\ hole.looks # "ring"
            /\ Vision!FromHole(in, s, hole) =
                 [used |-> s.used, shapes |-> Append(s.shapes, [type |-> hole.looks, box |-> hole.box, disc |-> 0])]
         \/ \E i \in (1..D) \ s.used :
              Vision!FromHole(in, s, hole) =
                 [used |-> s.used \cup {i}, shapes |-> Append(s.shapes, [type |-> "end", box |-> hole.box, disc |-> i])]
<1>1. s = [used |-> s.used, shapes |-> s.shapes]
  BY DEF Found
<1>2. CASE hole.looks # "ring"
  BY <1>1, <1>2 DEF Vision!FromHole, Found
<1>3. CASE hole.looks = "ring"
  <2>1. PICK own : own = Vision!DiscsOf(in.discs, s.used, hole.box)
    OBVIOUS
  <2>2. own \subseteq (1..D) \ s.used
    BY <2>1 DEF Vision!DiscsOf
  <2>3. CASE own = {}
    BY <1>3, <2>1, <2>3 DEF Vision!FromHole
  <2>4. CASE own # {}
    <3>1. PICK i : i = Vision!Min(own) /\ i \in own
      <4>1. own \in SUBSET Nat
        BY <2>2
      <4> QED
        BY <4>1, <2>4, LeastIsOne
    <3>2. Vision!FromHole(in, s, hole) =
            [used |-> s.used \cup {i}, shapes |-> Append(s.shapes, [type |-> "end", box |-> hole.box, disc |-> i])]
      BY <1>3, <2>1, <2>4, <3>1 DEF Vision!FromHole
    <3> QED
      BY <2>2, <3>1, <3>2
  <2> QED
    BY <2>3, <2>4
<1> QED
  BY <1>2, <1>3

\* A hole gives one shape at most.
LEMMA HoleTyped ==
  ASSUME NEW in, NEW D \in Nat, Len(in.discs) = D, NEW s \in Found(D), NEW hole \in Vision!Holes
  PROVE  Vision!FromHole(in, s, hole) \in Found(D)
<1>1. hole.box \in Vision!Boxes /\ (hole.looks # "ring" => hole.looks \in {"decision", "action"})
  BY DEF Vision!Holes
<1>2. s.used \in SUBSET (1..D)
      /\ s.shapes \in Seq([type : {"decision", "action", "end", "start"}, box : Vision!Boxes, disc : 0..D])
  BY DEF Found
<1>3. ASSUME hole.looks # "ring",
        Vision!FromHole(in, s, hole) =
          [used |-> s.used, shapes |-> Append(s.shapes, [type |-> hole.looks, box |-> hole.box, disc |-> 0])]
      PROVE Vision!FromHole(in, s, hole) \in Found(D)
  BY <1>1, <1>2, <1>3 DEF Found
<1>4. ASSUME NEW i \in (1..D) \ s.used, Vision!FromHole(in, s, hole) =
          [used |-> s.used \cup {i}, shapes |-> Append(s.shapes, [type |-> "end", box |-> hole.box, disc |-> i])]
      PROVE Vision!FromHole(in, s, hole) \in Found(D)
  BY <1>1, <1>2, <1>4 DEF Found
<1> QED
  BY <1>3, <1>4, HoleAdds

\* A disc changes nothing or gives a shape of its own.
LEMMA DiscAdds ==
  ASSUME NEW in, NEW D \in Nat, Len(in.discs) = D, NEW s \in Found(D), NEW i \in 1..D
  PROVE  \/ Vision!FromDisc(in, s, i) = s
         \/ /\ i \notin s.used
            /\ \A k \in 1..Len(s.shapes) : ~Vision!contains(s.shapes[k].box, Vision!center2(in.discs[i]))
            /\ Vision!FromDisc(in, s, i) =
                 [used |-> s.used, shapes |-> Append(s.shapes, [type |-> "start", box |-> in.discs[i], disc |-> i])]
<1>1. s = [used |-> s.used, shapes |-> s.shapes]
  BY DEF Found
<1>2. CASE i \in s.used \/ \E k \in 1..Len(s.shapes) : Vision!contains(s.shapes[k].box, Vision!center2(in.discs[i]))
  BY <1>2, Zenon DEF Vision!FromDisc
<1>3. CASE ~(i \in s.used \/ \E k \in 1..Len(s.shapes) : Vision!contains(s.shapes[k].box, Vision!center2(in.discs[i])))
  <2>1. Vision!FromDisc(in, s, i) =
          [s EXCEPT !.shapes = Append(@, [type |-> "start", box |-> in.discs[i], disc |-> i])]
    BY <1>3, Zenon DEF Vision!FromDisc
  <2>2. Vision!FromDisc(in, s, i) =
          [used |-> s.used, shapes |-> Append(s.shapes, [type |-> "start", box |-> in.discs[i], disc |-> i])]
    BY <1>1, <2>1
  <2> QED
    BY <1>3, <2>2, Zenon
<1> QED
  BY <1>2, <1>3

\* The shapes after a disc are shapes, and its number is used.
LEMMA DiscTyped ==
  ASSUME NEW in, NEW D \in Nat, Len(in.discs) = D, NEW s \in Found(D), NEW i \in 1..D, in.discs[i] \in Vision!Boxes
  PROVE  Vision!FromDisc(in, s, i) \in Found(D)
<1>2. s.used \in SUBSET (1..D)
      /\ s.shapes \in Seq([type : {"decision", "action", "end", "start"}, box : Vision!Boxes, disc : 0..D])
  BY DEF Found
<1>3. ASSUME Vision!FromDisc(in, s, i) =
                 [used |-> s.used, shapes |-> Append(s.shapes, [type |-> "start", box |-> in.discs[i], disc |-> i])]
      PROVE Vision!FromDisc(in, s, i) \in Found(D)
  BY <1>2, <1>3 DEF Found
<1> QED
  BY <1>3, DiscAdds

\* A disc is of one of the shapes found, and those so far used are marked.
Apart(s) ==
  \A i, j \in 1..Len(s.shapes) :
    i < j /\ s.shapes[i].disc # 0 => s.shapes[i].disc # s.shapes[j].disc
Marked(s) ==
  \A i \in 1..Len(s.shapes) :
    s.shapes[i].type # "start" /\ (s.shapes[i].disc # 0 => s.shapes[i].disc \in s.used)

\* What is added to a list is its last.
LEMMA Added ==
  ASSUME NEW T, NEW s \in Seq(T), NEW e \in T
  PROVE  /\ Append(s, e) \in Seq(T) /\ Len(Append(s, e)) = Len(s) + 1 /\ Len(s) \in Nat
         /\ Append(s, e)[Len(s) + 1] = e
         /\ \A i \in 1..Len(s) : Append(s, e)[i] = s[i]
OBVIOUS

\* A round over a hole keeps the discs apart.
LEMMA HoleKeeps ==
  ASSUME NEW in, NEW D \in Nat, Len(in.discs) = D, NEW s \in Found(D), NEW hole \in Vision!Holes,
         Apart(s), Marked(s)
  PROVE  Apart(Vision!FromHole(in, s, hole)) /\ Marked(Vision!FromHole(in, s, hole))
<1>0. PICK t : t = Vision!FromHole(in, s, hole)
  OBVIOUS
<1>1. CASE t = s
  BY <1>0, <1>1
<1>2. ASSUME NEW e, NEW u, e.disc = 0 \/ e.disc \notin s.used, u = s.used \cup {e.disc} \/ (e.disc = 0 /\ u = s.used),
             e.type # "start",
             e \in [type : {"decision", "action", "end", "start"}, box : Vision!Boxes, disc : 0..D],
             t = [used |-> u, shapes |-> Append(s.shapes, e)]
      PROVE  Apart(t) /\ Marked(t)
  <2> DEFINE T == [type : {"decision", "action", "end", "start"}, box : Vision!Boxes, disc : 0..D]
  <2>1. PICK l, m, n : l = s.shapes /\ m = t.shapes /\ l \in Seq(T) /\ n = Len(l) /\ n \in Nat
    BY DEF Found
  <2>2. m = Append(l, e) /\ Len(m) = n + 1 /\ m[n + 1] = e /\ \A i \in 1..n : m[i] = l[i]
    <3> HIDE DEF T
    <3>1. e \in T
      BY <1>2 DEF T
    <3>2. m = Append(l, e)
      BY <1>2, <2>1
    <3> QED
      BY <2>1, <3>1, <3>2, Added
  <2>3. \A i \in 1..n : l[i].type # "start" /\ (l[i].disc # 0 => l[i].disc \in s.used)
    BY <2>1 DEF Marked
  <2>4. \A i, j \in 1..n : i < j /\ l[i].disc # 0 => l[i].disc # l[j].disc
    BY <2>1 DEF Apart
  <2>5. \A i \in 1..n + 1 : i \in 1..n \/ i = n + 1
    BY <2>1
  <2>6. t.used = u /\ (s.used \subseteq u) /\ (e.disc # 0 => e.disc \in u)
    BY <1>2
  <2> HIDE DEF T
  <2>7. \A i \in 1..n + 1 : m[i].type # "start" /\ (m[i].disc # 0 => m[i].disc \in u)
    BY <1>2, <2>2, <2>3, <2>5, <2>6
  <2>8. \A i, j \in 1..n + 1 : i < j /\ m[i].disc # 0 => m[i].disc # m[j].disc
    <3> SUFFICES ASSUME NEW i \in 1..n + 1, NEW j \in 1..n + 1, i < j, m[i].disc # 0 PROVE m[i].disc # m[j].disc
      OBVIOUS
    <3>1. i \in 1..n
      BY <2>1
    <3>2. CASE j \in 1..n
      BY <2>2, <2>4, <3>1, <3>2
    <3>3. CASE j = n + 1
      <4>1. l[i].disc \in s.used /\ m[i].disc = l[i].disc /\ m[j] = e
        BY <2>2, <2>3, <3>1, <3>3
      <4> QED
        BY <1>2, <4>1
    <3> QED
      BY <2>5, <3>2, <3>3
  <2>9. t.shapes = m /\ Len(m) = n + 1 /\ t.used = u
    BY <2>1, <2>2, <2>6
  <2>10. Apart(t)
    BY <2>8, <2>9 DEF Apart
  <2>11. Marked(t)
    BY <2>7, <2>9 DEF Marked
  <2> QED
    BY <2>10, <2>11
<1>3. ASSUME hole.looks # "ring", t =
        [used |-> s.used, shapes |-> Append(s.shapes, [type |-> hole.looks, box |-> hole.box, disc |-> 0])]
      PROVE  Apart(t) /\ Marked(t)
  <2>1. PICK e, u : e = [type |-> hole.looks, box |-> hole.box, disc |-> 0] /\ u = s.used
    OBVIOUS
  <2>2. e.disc = 0 /\ e.type # "start"
        /\ e \in [type : {"decision", "action", "end", "start"}, box : Vision!Boxes, disc : 0..D]
    BY <1>3, <2>1 DEF Vision!Holes
  <2> QED
    BY <1>2, <1>3, <2>1, <2>2
<1>4. ASSUME NEW i \in (1..D) \ s.used, t =
        [used |-> s.used \cup {i}, shapes |-> Append(s.shapes, [type |-> "end", box |-> hole.box, disc |-> i])]
      PROVE  Apart(t) /\ Marked(t)
  <2>1. PICK e, u : e = [type |-> "end", box |-> hole.box, disc |-> i] /\ u = s.used \cup {i}
    OBVIOUS
  <2>2. e.disc = i /\ e.type # "start" /\ i \notin s.used
        /\ e \in [type : {"decision", "action", "end", "start"}, box : Vision!Boxes, disc : 0..D]
    BY <2>1 DEF Vision!Holes
  <2> QED
    BY <1>2, <1>4, <2>1, <2>2
<1> QED
  BY <1>0, <1>1, <1>3, <1>4, HoleAdds

\* A start is not drawn inside a shape.
Clear(s) ==
  \A i, j \in 1..Len(s.shapes) : i < j /\ s.shapes[j].type = "start" =>
    ~Vision!contains(s.shapes[i].box, Vision!center2(s.shapes[j].box))

\* After n discs, that of a shape is marked or is one of these.
Seen(s, n) == \A i \in 1..Len(s.shapes) : s.shapes[i].disc # 0 => s.shapes[i].disc \in s.used \cup 1..n

\* A disc near no shape of a hole, and near no disc before it, becomes a shape; another does not.
LEMMA DiscKeeps ==
  ASSUME NEW in, NEW D \in Nat, Len(in.discs) = D, NEW s \in Found(D), NEW i \in 1..D, in.discs[i] \in Vision!Boxes,
         Apart(s), Clear(s), Seen(s, i - 1)
  PROVE  /\ Apart(Vision!FromDisc(in, s, i)) /\ Clear(Vision!FromDisc(in, s, i))
         /\ Seen(Vision!FromDisc(in, s, i), i)
<1>0. PICK t : t = Vision!FromDisc(in, s, i)
  OBVIOUS
<1>1. CASE t = s
  <2>1. 1..i - 1 \subseteq 1..i
    OBVIOUS
  <2>2. Seen(s, i)
    BY <2>1, Zenon DEF Seen
  <2> QED
    BY <1>0, <1>1, <2>2
<1>2. ASSUME i \notin s.used,
             \A k \in 1..Len(s.shapes) : ~Vision!contains(s.shapes[k].box, Vision!center2(in.discs[i])),
             t = [used |-> s.used, shapes |-> Append(s.shapes, [type |-> "start", box |-> in.discs[i], disc |-> i])]
      PROVE  Apart(t) /\ Clear(t) /\ Seen(t, i)
  <2> DEFINE T == [type : {"decision", "action", "end", "start"}, box : Vision!Boxes, disc : 0..D]
  <2>1. PICK l, m, n, e : /\ l = s.shapes /\ m = t.shapes /\ l \in Seq(T) /\ n = Len(l) /\ n \in Nat
                          /\ e = [type |-> "start", box |-> in.discs[i], disc |-> i]
    <3>1. s.shapes \in Seq(T) /\ Len(s.shapes) \in Nat
      BY DEF Found
    <3> HIDE DEF T
    <3> QED
      BY <3>1
  <2>2. m = Append(l, e) /\ Len(m) = n + 1 /\ m[n + 1] = e /\ \A k \in 1..n : m[k] = l[k]
    <3>1. e \in T
      BY <2>1
    <3> HIDE DEF T
    <3>2. m = Append(l, e)
      BY <1>2, <2>1
    <3> QED
      BY <2>1, <3>1, <3>2, Added
  <2> HIDE DEF T
  <2>3. \A k \in 1..n : l[k].disc # 0 => l[k].disc \in s.used \cup 1..i - 1
    BY <2>1 DEF Seen
  <2>4. \A k, j \in 1..n : k < j /\ l[k].disc # 0 => l[k].disc # l[j].disc
    BY <2>1 DEF Apart
  <2>5. \A k \in 1..n + 1 : k \in 1..n \/ k = n + 1
    BY <2>1
  <2>6. t.used = s.used /\ e.disc = i /\ e.box = in.discs[i] /\ e.type = "start"
    BY <1>2, <2>1
  <2>7. \A k \in 1..n + 1 : m[k].disc # 0 => m[k].disc \in t.used \cup 1..i
    <3>1. 1..i - 1 \subseteq 1..i /\ i \in 1..i
      OBVIOUS
    <3> QED
      BY <2>2, <2>3, <2>5, <2>6, <3>1
  <2>8. ASSUME NEW k \in 1..n + 1, NEW j \in 1..n + 1, k < j PROVE k \in 1..n /\ (j \in 1..n \/ j = n + 1)
    BY <2>1, <2>8
  <2>9. \A k, j \in 1..n + 1 : k < j /\ m[k].disc # 0 => m[k].disc # m[j].disc
    <3> SUFFICES ASSUME NEW k \in 1..n + 1, NEW j \in 1..n + 1, k < j, m[k].disc # 0 PROVE m[k].disc # m[j].disc
      OBVIOUS
    <3>1. k \in 1..n /\ (j \in 1..n \/ j = n + 1)
      BY <2>8
    <3>2. CASE j \in 1..n
      BY <2>2, <2>4, <3>1, <3>2
    <3>3. CASE j = n + 1
      <4>1. l[k].disc \in s.used \cup 1..i - 1 /\ m[k].disc = l[k].disc /\ m[j] = e
        BY <2>2, <2>3, <3>1, <3>3
      <4>2. i \notin 1..i - 1
        OBVIOUS
      <4> QED
        BY <1>2, <2>6, <4>1, <4>2
    <3> QED
      BY <3>1, <3>2, <3>3
  <2>10. \A k, j \in 1..n + 1 : k < j /\ m[j].type = "start" =>
            ~Vision!contains(m[k].box, Vision!center2(m[j].box))
    <3> SUFFICES ASSUME NEW k \in 1..n + 1, NEW j \in 1..n + 1, k < j, m[j].type = "start"
                 PROVE  ~Vision!contains(m[k].box, Vision!center2(m[j].box))
      OBVIOUS
    <3>1. k \in 1..n /\ (j \in 1..n \/ j = n + 1)
      BY <2>8
    <3>2. CASE j \in 1..n
      BY <2>1, <2>2, <3>1, <3>2 DEF Clear
    <3>3. CASE j = n + 1
      <4>1. m[k] = l[k] /\ m[j] = e
        BY <2>2, <3>1, <3>3
      <4>2. ~Vision!contains(l[k].box, Vision!center2(in.discs[i]))
        BY <1>2, <2>1, <3>1
      <4> QED
        BY <2>6, <4>1, <4>2
    <3> QED
      BY <3>1, <3>2, <3>3
  <2>11. Apart(t)
    <3>1. t.shapes = m /\ Len(t.shapes) = n + 1
      BY <2>1, <2>2
    <3> SUFFICES ASSUME NEW k \in 1..n + 1, NEW j \in 1..n + 1, k < j, m[k].disc # 0 PROVE m[k].disc # m[j].disc
      BY <3>1 DEF Apart
    <3> QED
      BY <2>9
  <2>12. Clear(t)
    BY <2>1, <2>2, <2>10 DEF Clear
  <2>13. Seen(t, i)
    BY <2>1, <2>2, <2>7 DEF Seen
  <2> QED
    BY <2>11, <2>12, <2>13
<1> QED
  BY <1>0, <1>1, <1>2, DiscAdds

\* The shapes of the holes: a disc is of one of them, and is marked.
LEMMA HolesApart ==
  ASSUME NEW in, NEW D \in Nat, Len(in.discs) = D, in.holes \in Seq(Vision!Holes)
  PROVE  Vision!FromHoles(in) \in Found(D) /\ Apart(Vision!FromHoles(in)) /\ Marked(Vision!FromHoles(in))
<1> DEFINE b == [used |-> {}, shapes |-> <<>>]
           F == CHOOSE f : f = [n \in 0..Len(in.holes) |-> IF n = 0 THEN b ELSE Vision!FromHole(in, f[n - 1], in.holes[n])]
<1>1. PICK N \in Nat : N = Len(in.holes)
  OBVIOUS
<1>2. PICK V : V = Found(D)
  OBVIOUS
<1>3. b \in V /\ Apart(b) /\ Marked(b)
  <2>1. b \in Found(D)
    BY DEF Found
  <2>2. Apart(b) /\ Marked(b)
    BY DEF Apart, Marked
  <2> QED
    BY <1>2, <2>1, <2>2
<1>4. \A n \in 1..N : in.holes[n] \in Vision!Holes
  BY <1>1
<1> HIDE DEF b
<1>5. PICK g : g = [p \in (1..N) \X V |-> Vision!FromHole(in, p[2], in.holes[p[1]])]
  OBVIOUS
<1>6. IsRound(g, N, V)
  <2>1. ASSUME NEW n \in 1..N, NEW s \in V PROVE Vision!FromHole(in, s, in.holes[n]) \in V
    BY <1>2, <1>4, HoleTyped
  <2> QED
    BY <1>5, <2>1 DEF IsRound
<1>7. PICK f : IsLoop(f, N, V, b, g)
  BY <1>3, <1>6, Loop
<1>8. f = [n \in 0..N |-> IF n = 0 THEN b ELSE Vision!FromHole(in, f[n - 1], in.holes[n])]
  <2>1. f \in [0..N -> V] /\ f[0] = b
    BY <1>7 DEF IsLoop
  <2>2. ASSUME NEW n \in 1..N PROVE f[n] = Vision!FromHole(in, f[n - 1], in.holes[n])
    <3>1. f[n] = g[<<n, f[n - 1]>>]
      BY <1>7 DEF IsLoop
    <3>2. f[n - 1] \in V
      BY <2>1
    <3> QED
      BY <1>5, <3>1, <3>2
  <2>3. \A n \in 0..N : n = 0 \/ n \in 1..N
    OBVIOUS
  <2>4. \A n \in 0..N : f[n] = IF n = 0 THEN b ELSE Vision!FromHole(in, f[n - 1], in.holes[n])
    BY <2>1, <2>2, <2>3, Zenon
  <2> QED
    BY <2>1, <2>4
<1>9. F = [n \in 0..N |-> IF n = 0 THEN b ELSE Vision!FromHole(in, F[n - 1], in.holes[n])]
  BY <1>1, <1>8
<1>10. Vision!FromHoles(in) = F[N]
  BY <1>1 DEF Vision!FromHoles, b
<1> HIDE DEF F
<1>11. F[0] = b /\ \A n \in 1..N : F[n] = Vision!FromHole(in, F[n - 1], in.holes[n])
  <2>1. \A n \in 1..N : n # 0 /\ n \in 0..N
    OBVIOUS
  <2>2. 0 \in 0..N
    OBVIOUS
  <2>3. \A n \in 0..N : F[n] = IF n = 0 THEN b ELSE Vision!FromHole(in, F[n - 1], in.holes[n])
    BY <1>9, Zenon
  <2> QED
    BY <2>1, <2>2, <2>3, Zenon
<1> DEFINE I == {n \in 0..N : F[n] \in V /\ Apart(F[n]) /\ Marked(F[n])}
<1>12. 0 \in I
  BY <1>3, <1>11
<1>13. ASSUME NEW n \in 1..N, n - 1 \in I PROVE n \in I
  <2>1. F[n - 1] \in Found(D) /\ Apart(F[n - 1]) /\ Marked(F[n - 1])
    BY <1>2, <1>13
  <2>2. F[n] \in Found(D) /\ Apart(F[n]) /\ Marked(F[n])
    BY <1>4, <1>11, <2>1, HoleTyped, HoleKeeps
  <2> QED
    BY <1>2, <2>2
<1>14. I = 0..N
  <2>1. I \in SUBSET (0..N)
    OBVIOUS
  <2> HIDE DEF I
  <2> QED
    BY <1>12, <1>13, <2>1, LoopKeeps
<1> QED
  BY <1>2, <1>10, <1>14

\* The shapes of an image: a disc is of one of them, and a start is drawn inside none before it.
LEMMA ShapesApart ==
  ASSUME NEW in, NEW D \in Nat, Len(in.discs) = D, in.holes \in Seq(Vision!Holes), in.discs \in Seq(Vision!Boxes)
  PROVE  \E s : Vision!detect_shapes(in) = s.shapes /\ Apart(s) /\ Clear(s)
<1>1. PICK b, V : b = Vision!FromHoles(in) /\ V = Found(D)
  OBVIOUS
<1> DEFINE F == CHOOSE f : f = [n \in 0..Len(in.discs) |-> IF n = 0 THEN b ELSE Vision!FromDisc(in, f[n - 1], n)]
<1>2. b \in V /\ Apart(b) /\ Marked(b)
  BY <1>1, HolesApart
<1>3. Clear(b) /\ Seen(b, 0)
  BY <1>2, Zenon DEF Clear, Seen, Marked
<1>4. \A n \in 1..D : in.discs[n] \in Vision!Boxes
  OBVIOUS
<1>5. PICK g : g = [p \in (1..D) \X V |-> Vision!FromDisc(in, p[2], p[1])]
  OBVIOUS
<1>6. IsRound(g, D, V)
  <2>1. ASSUME NEW n \in 1..D, NEW s \in V PROVE Vision!FromDisc(in, s, n) \in V
    BY <1>1, <1>4, DiscTyped
  <2> QED
    BY <1>5, <2>1 DEF IsRound
<1>7. PICK f : IsLoop(f, D, V, b, g)
  BY <1>2, <1>6, Loop
<1>8. f = [n \in 0..D |-> IF n = 0 THEN b ELSE Vision!FromDisc(in, f[n - 1], n)]
  <2>1. f \in [0..D -> V] /\ f[0] = b
    BY <1>7 DEF IsLoop
  <2>2. ASSUME NEW n \in 1..D PROVE f[n] = Vision!FromDisc(in, f[n - 1], n)
    <3>1. f[n] = g[<<n, f[n - 1]>>]
      BY <1>7 DEF IsLoop
    <3>2. f[n - 1] \in V
      BY <2>1
    <3> QED
      BY <1>5, <3>1, <3>2
  <2>3. \A n \in 0..D : n = 0 \/ n \in 1..D
    OBVIOUS
  <2>4. \A n \in 0..D : f[n] = IF n = 0 THEN b ELSE Vision!FromDisc(in, f[n - 1], n)
    BY <2>1, <2>2, <2>3, Zenon
  <2> QED
    BY <2>1, <2>4
<1>9. F = [n \in 0..D |-> IF n = 0 THEN b ELSE Vision!FromDisc(in, F[n - 1], n)]
  BY <1>8
<1>10. Vision!detect_shapes(in) = F[D].shapes
  BY <1>1 DEF Vision!detect_shapes
<1> HIDE DEF F
<1>11. F[0] = b /\ \A n \in 1..D : F[n] = Vision!FromDisc(in, F[n - 1], n)
  <2>1. \A n \in 1..D : n # 0 /\ n \in 0..D
    OBVIOUS
  <2>2. 0 \in 0..D
    OBVIOUS
  <2>3. \A n \in 0..D : F[n] = IF n = 0 THEN b ELSE Vision!FromDisc(in, F[n - 1], n)
    BY <1>9, Zenon
  <2> QED
    BY <2>1, <2>2, <2>3, Zenon
<1> DEFINE I == {n \in 0..D : F[n] \in V /\ Apart(F[n]) /\ Clear(F[n]) /\ Seen(F[n], n)}
<1>12. 0 \in I
  BY <1>2, <1>3, <1>11
<1>13. ASSUME NEW n \in 1..D, n - 1 \in I PROVE n \in I
  <2>1. F[n - 1] \in Found(D) /\ Apart(F[n - 1]) /\ Clear(F[n - 1]) /\ Seen(F[n - 1], n - 1)
    BY <1>1, <1>13
  <2>2. F[n] = Vision!FromDisc(in, F[n - 1], n) /\ in.discs[n] \in Vision!Boxes
    BY <1>4, <1>11
  <2>3. F[n] \in Found(D) /\ Apart(F[n]) /\ Clear(F[n]) /\ Seen(F[n], n)
    BY <2>1, <2>2, DiscTyped, DiscKeeps
  <2> QED
    BY <1>1, <2>3
<1>14. I = 0..D
  <2>1. I \in SUBSET (0..D)
    OBVIOUS
  <2> HIDE DEF I
  <2> QED
    BY <1>12, <1>13, <2>1, LoopKeeps
<1>15. D \in I
  BY <1>14
<1> QED
  BY <1>10, <1>15

\* However many holes and discs, of those that show one figure one shape is made.
LEMMA DiscsAreOneHolds ==
  ASSUME x1 \in Vision!ShapeInputs
  PROVE  Vision!DiscsAreOne
<1>1. x1.holes \in Vision!Lists(Vision!Holes, 2)
      /\ x1.discs \in Vision!Lists({b \in Vision!Boxes : b.hi - b.lo < 3}, 2)
  BY DEF Vision!ShapeInputs
<1>2. PICK m \in 0..2 : x1.holes \in [1..m -> Vision!Holes]
  BY <1>1 DEF Vision!Lists
<1>3. PICK n \in 0..2 : x1.discs \in [1..n -> {b \in Vision!Boxes : b.hi - b.lo < 3}]
  BY <1>1 DEF Vision!Lists
<1>4. x1.holes \in Seq(Vision!Holes) /\ x1.discs \in Seq(Vision!Boxes) /\ Len(x1.discs) = n /\ n \in Nat
  <2>1. x1.discs \in [1..n -> Vision!Boxes]
    BY <1>3
  <2>2. PICK d : d = x1.discs
    OBVIOUS
  <2>3. d \in Seq(Vision!Boxes) /\ Len(d) = n
    BY <2>1, <2>2
  <2> QED
    BY <1>2, <2>2, <2>3
<1>5. PICK s : Vision!detect_shapes(x1) = s.shapes /\ Apart(s) /\ Clear(s)
  BY <1>4, ShapesApart
<1> QED
  BY <1>5 DEF Vision!DiscsAreOne, Apart, Clear

\* What the reading keeps of a list is read member by member.
LEMMA VisionWhere ==
  ASSUME NEW T, NEW s \in Seq(T), NEW K
  PROVE  \E f : IsFilter(f, s, K) /\ Vision!Where(s, K) = f[Len(s)]
<1> DEFINE F == CHOOSE f : IsFilter(f, s, K)
<1>1. IsFilter(F, s, K)
  BY FilterExists
<1>2. Vision!Where(s, K) = F[Len(s)]
  BY DEF Vision!Where, IsFilter
<1> QED
  BY <1>1, <1>2

\* A zone that was read is flagged when it has no name, and keeps the one it had.
LEMMA FixedIsFlagged ==
  ASSUME NEW in, NEW i \in {1, 2}, in.read \in [1..2 -> [type : Vision!Kinds, label : Vision!Labels]],
         NEW z, z = Vision!Fixed(in, i)
  PROVE  /\ ("empty_label" \in z.flags) <=> (z.type = "action" /\ z.label = "")
         /\ z.label # in.read[i].label => in.read[i].label = ""
<1>1. PICK r : r = Vision!Read(in.read[i])
  OBVIOUS
<1>2. r.label = in.read[i].label /\ (("empty_label" \in r.flags) <=> (r.type = "action" /\ r.label = ""))
  BY <1>1 DEF Vision!Read
<1>3. PICK F : F = {k \in 1..Len(in.fixes) : in.fixes[k].id = i}
  OBVIOUS
<1>4. PICK fix : fix = in.fixes[Vision!Max(F)]
  OBVIOUS
<1>5. CASE F # {} /\ Vision!Valid(r, fix)
  <2>1. z = [type |-> fix.type, label |-> fix.label, flags |-> Vision!Corrected(r)]
    BY <1>1, <1>3, <1>4, <1>5, Zenon DEF Vision!Fixed
  <2>2. "empty_label" \notin z.flags /\ z.label = fix.label
    BY <2>1 DEF Vision!Corrected
  <2>3. fix.label # "" /\ (r.label = "" \/ r.label = fix.label)
    BY <1>5 DEF Vision!Valid, Vision!Similar
  <2> QED
    BY <1>2, <2>2, <2>3
<1>6. CASE ~(F # {} /\ Vision!Valid(r, fix))
  <2>1. z = r
    BY <1>1, <1>3, <1>4, <1>6, Zenon DEF Vision!Fixed
  <2> QED
    BY <1>2, <2>1
<1> QED
  BY <1>5, <1>6

\* z is a, of two zones, and then b, of n.
AreJoined(z, a, b, n) ==
  /\ Len(z) = 2 + n /\ \A i \in 1..2 : z[i] = a[i]
  /\ \A i \in 3..2 + n : z[i] = b[i - 2]

\* Two lists, one after the other.
LEMMA Joined ==
  ASSUME NEW U, NEW a \in Seq(U), NEW b \in Seq(U), Len(a) = 2, NEW n \in Nat, Len(b) = n
  PROVE  AreJoined(a \o b, a, b, n)
<1>1. /\ Len(a \o b) = Len(a) + Len(b)
      /\ \A i \in 1..Len(a) + Len(b) : (a \o b)[i] = IF i <= Len(a) THEN a[i] ELSE b[i - Len(a)]
  BY ConcatProperties
<1>2. \A i \in 1..2 : i \in 1..Len(a) + Len(b) /\ i <= Len(a)
  OBVIOUS
<1>3. \A i \in 3..2 + n : i \in 1..Len(a) + Len(b) /\ ~(i <= Len(a))
  OBVIOUS
<1> QED
  BY <1>1, <1>2, <1>3 DEF AreJoined

\* Who reviews is warned of each nameless zone that is added.
LEMMA WarnedHolds ==
  ASSUME x1 \in Vision!ReviewInputs
  PROVE  Vision!WarnedOfNameless
<1> DEFINE T == [label : Vision!Labels, type : Vision!Kinds]
           K == {zone \in T : ~(zone.label = "" /\ zone.type = "action")}
<1>1. x1.read \in [1..2 -> [type : Vision!Kinds, label : Vision!Labels]] /\ x1.added \in Vision!Lists(T, 2)
  BY DEF Vision!ReviewInputs
<1>2. x1.added \in Seq(T)
  <2>1. PICK m \in 0..2 : x1.added \in [1..m -> T]
    BY <1>1 DEF Vision!Lists
  <2> HIDE DEF T
  <2> QED
    BY <2>1
<1>3. PICK k : k = Vision!Kept(x1) /\ k \in Seq(T) /\ \A i \in 1..Len(k) : k[i] \in K
  <2>1. PICK f : IsFilter(f, x1.added, K) /\ Vision!Where(x1.added, K) = f[Len(x1.added)]
    <3> HIDE DEF T, K
    <3> QED
      BY <1>2, VisionWhere
  <2>2. Vision!Kept(x1) = f[Len(x1.added)]
    BY <2>1 DEF Vision!Kept
  <2> HIDE DEF T, K
  <2>3. Len(x1.added) \in 0..Len(x1.added)
    BY <1>2
  <2> QED
    BY <1>2, <2>1, <2>2, <2>3, FilterFacts
<1>4. \A z \in K : ~(z.label = "" /\ z.type = "action")
  OBVIOUS
<1> HIDE DEF T, K
<1>5. PICK a, b, n : /\ a = [i \in DOMAIN x1.read |-> Vision!Fixed(x1, i)]
                     /\ b = [j \in DOMAIN k |-> [type |-> k[j].type, label |-> k[j].label, flags |-> {"llm_added"}]]
                     /\ n = Len(k) /\ n \in Nat
  <2>1. Len(k) \in Nat
    BY <1>3
  <2> QED
    BY <2>1, Zenon
<1>6. DOMAIN a = 1..2 /\ DOMAIN b = 1..n
  BY <1>1, <1>3, <1>5
<1>7. PICK zones : zones = a \o b
  OBVIOUS
<1>8. zones = Vision!apply(x1)
  BY <1>3, <1>5, <1>7 DEF Vision!apply
<1>9. /\ Len(zones) = 2 + n /\ \A i \in 1..2 : zones[i] = a[i]
      /\ \A i \in 3..2 + n : zones[i] = b[i - 2]
  <2>1. PICK U : a \in Seq(U) /\ b \in Seq(U)
    <3>1. PICK U : U = {a[i] : i \in 1..2} \cup {b[i] : i \in 1..n}
      OBVIOUS
    <3>2. a = [i \in 1..2 |-> a[i]] /\ b = [i \in 1..n |-> b[i]]
      BY <1>5, <1>6
    <3>3. a \in [1..2 -> U] /\ b \in [1..n -> U]
      BY <3>1, <3>2
    <3>4. n \in Nat
      BY <1>5
    <3>5. \A m \in Nat : [1..m -> U] \subseteq Seq(U)
      OBVIOUS
    <3>6. 2 \in Nat
      OBVIOUS
    <3> QED
      BY <3>3, <3>4, <3>5, <3>6
  <2>2. Len(a) = 2 /\ Len(b) = n
    BY <1>5, <1>6, <2>1
  <2>3. n \in Nat
    BY <1>5
  <2>4. AreJoined(a \o b, a, b, n)
    BY <2>1, <2>2, <2>3, Joined
  <2>5. AreJoined(zones, a, b, n)
    BY <1>7, <2>4
  <2> QED
    BY <2>5 DEF AreJoined
<1>10. ASSUME NEW i \in 1..Len(zones)
       PROVE  ("empty_label" \in zones[i].flags) <=> (zones[i].type = "action" /\ zones[i].label = "")
  <2>1. CASE i \in 1..2
    <3>1. zones[i] = Vision!Fixed(x1, i)
      BY <1>5, <1>6, <1>9, <2>1
    <3>2. i \in {1, 2}
      BY <2>1
    <3> QED
      BY <1>1, <3>1, <3>2, FixedIsFlagged
  <2>2. CASE i \in 3..2 + n
    <3>1. i - 2 \in 1..n
      BY <1>5, <2>2
    <3>2. zones[i] = [type |-> k[i - 2].type, label |-> k[i - 2].label, flags |-> {"llm_added"}]
      BY <1>3, <1>5, <1>6, <1>9, <2>2, <3>1
    <3>3. k[i - 2] \in K
      BY <1>3, <1>5, <3>1
    <3>4. "empty_label" \notin zones[i].flags /\ zones[i].type = k[i - 2].type /\ zones[i].label = k[i - 2].label
      BY <3>2
    <3> QED
      BY <1>4, <3>3, <3>4
  <2>3. n \in Nat
    BY <1>5
  <2>4. i \in 1..2 \/ i \in 3..2 + n
    BY <1>9, <2>3
  <2> QED
    BY <2>1, <2>2, <2>4
<1>11. ASSUME NEW i \in DOMAIN x1.read
       PROVE  zones[i].label # x1.read[i].label => x1.read[i].label = ""
  <2>1. i \in {1, 2} /\ i \in 1..2
    BY <1>1
  <2>2. zones[i] = Vision!Fixed(x1, i)
    BY <1>5, <1>6, <1>9, <2>1
  <2> QED
    BY <1>1, <2>1, <2>2, FixedIsFlagged
<1> QED
  BY <1>8, <1>10, <1>11 DEF Vision!WarnedOfNameless

-----------------------------------------------------------------------------
(* The dashboard and the lists (Dashboard): x1 is the input.                 *)

\* A sum over a part of a set.
LEMMA SumIs ==
  ASSUME NEW S, IsFiniteSet(S), NEW f, \A x \in S : f[x] \in Nat, NEW h, IsSum(h, f, S), NEW R \in SUBSET S,
         NEW e, \A x \in R : e[x] = f[x]
  PROVE  Dates!sum(e, R) = h[R]
<1>1. PICK k : IsSum(k, e, R)
  <2>1. IsFiniteSet(R) /\ \A x \in R : e[x] \in Nat
    BY FS_Subset
  <2> QED
    BY <2>1, SumExists
<1> DEFINE F == CHOOSE g : IsSum(g, e, R)
<1>2. IsSum(F, e, R)
  BY <1>1
<1>3. Dates!sum(e, R) = F[R]
  BY Zenon DEF IsSum, Dates!sum, Dates!MapThenSumSet, Dates!MapThenFoldSet
<1> HIDE DEF F
<1> QED
  BY <1>2, <1>3, SumsAgree

\* The votes of a list of requirements, with those of their duplicates, are those of the
\* requirements that are theirs, each once.
LEMMA VotesOnce ==
  ASSUME NEW d \in Dates!Details, Dates!IsConsistent(d),
         NEW L \in SUBSET (1..Listed), \A r \in L : Dates!counts(d[r]), Listed \in Nat
  PROVE  Dates!sum([r \in 1..Listed |-> Dates!effective(d, r)], L)
           = Dates!sum(Dates!own(d), {r \in 1..Listed : Dates!Owner(d, r) \in L})
<1>0. PICK R : R = 1..Listed /\ IsFiniteSet(R)
  BY FS_Interval
<1>1. PICK v, own : own = Dates!own(d) /\ v = [r \in R |-> Dates!effective(d, r)]
  OBVIOUS
<1>2. \A r \in R : d[r].votes \in Nat /\ d[r].of \in R /\ (d[r].status = "duplicate" <=> d[r].of # r)
  <2>1. \A r \in R : d[r].votes \in Nat /\ d[r].of \in R
    BY <1>0 DEF Dates!Details
  <2>2. \A r \in R : d[r].status = "duplicate" <=> d[r].of # r
    BY <1>0, Zenon DEF Dates!IsConsistent
  <2> QED
    BY <2>1, <2>2
<1>finite. IsFiniteSet(R)
  BY <1>0
<1>3. \A r \in R : own[r] \in Nat
  BY <1>0, <1>1, <1>2 DEF Dates!own
<1>4. PICK h : IsSum(h, own, R)
  BY <1>finite, <1>3, SumExists
<1>typed. \A T \in SUBSET R : h[T] \in Nat
  BY <1>finite, <1>3, <1>4, SumType
<1>5. ASSUME NEW T \in SUBSET R PROVE Dates!sum(own, T) = h[T]
  <2>1. \A x \in T : own[x] = own[x]
    OBVIOUS
  <2> QED
    BY <1>finite, <1>3, <1>4, <2>1, SumIs
<1>6. \A r \in R : v[r] = own[r] + h[Dates!Duplicates(d, r)] /\ v[r] \in Nat
  <2> SUFFICES ASSUME NEW r \in R PROVE v[r] = own[r] + h[Dates!Duplicates(d, r)] /\ v[r] \in Nat
    OBVIOUS
  <2>1. Dates!Duplicates(d, r) \in SUBSET R
    BY <1>0 DEF Dates!Duplicates
  <2>2. v[r] = d[r].votes + Dates!sum(own, Dates!Duplicates(d, r)) /\ own[r] = d[r].votes
    BY <1>0, <1>1 DEF Dates!effective, Dates!own
  <2> QED
    BY <1>3, <1>5, <1>typed, <2>1, <2>2
<1>natural. \A r \in R : v[r] \in Nat
  BY <1>6
<1>7. PICK w : IsSum(w, v, R)
  BY <1>finite, <1>natural, SumExists
<1>8. ASSUME NEW T \in SUBSET R PROVE Dates!sum(v, T) = w[T]
  <2>1. \A x \in T : v[x] = v[x]
    OBVIOUS
  <2> QED
    BY <1>finite, <1>natural, <1>7, <2>1, SumIs
<1>ones. ASSUME NEW Y \in SUBSET R, NEW y \in Y PROVE w[Y] = v[y] + w[Y \ {y}]
  BY <1>finite, <1>natural, <1>7, SumOne
<1> DEFINE O(T) == {r \in R : Dates!Owner(d, r) \in T}
           Q == {T \in SUBSET L : w[T] = h[O(T)]}
<1>9. ASSUME NEW T \in SUBSET L, \A x \in T : T \ {x} \in Q
      PROVE  T \in Q
  <2>1. CASE T = {}
    <3>1. O(T) = {} /\ w[T] = 0 /\ h[{}] = 0
      BY <1>4, <1>7, <2>1, SumSteps
    <3> QED
      BY <3>1
  <2>2. CASE T # {}
    <3>1. PICK x \in T : x \in R /\ Dates!counts(d[x])
      BY <1>0, <2>2
    <3>2. PICK U, D, A : U = T \ {x} /\ D = Dates!Duplicates(d, x) /\ A = O(U)
      OBVIOUS
    <3>3. w[T] = v[x] + w[U]
      <4>1. T \in SUBSET R
        BY <1>0
      <4> QED
        <5>2. x \in T /\ U = T \ {x}
          BY <3>2
        <5> QED
          BY <1>ones, <4>1, <5>2
    <3>4. w[U] = h[A]
      BY <1>9, <3>2
    <3>5. O(T) = A \cup ({x} \cup D) /\ A \cap ({x} \cup D) = {} /\ x \notin D
      <4>1. d[x].status # "duplicate" /\ d[x].of = x
        BY <1>2, <3>1 DEF Dates!counts
      <4>2. \A r \in R : Dates!Owner(d, r) = IF d[r].status = "duplicate" THEN d[r].of ELSE r
        BY DEF Dates!Owner
      <4>3. D = {r \in R : d[r].status = "duplicate" /\ d[r].of = x}
        BY <1>0, <3>2 DEF Dates!Duplicates
      <4>4. \A r \in R : Dates!Owner(d, r) = x <=> r \in {x} \cup D
        BY <1>2, <3>1, <4>1, <4>2, <4>3
      <4>5. {x} \cup D \subseteq R /\ x \notin D
        BY <3>1, <4>1, <4>3
      <4> QED
        BY <3>2, <4>4, <4>5
    <3>6. h[O(T)] = h[A] + (own[x] + h[D])
      <4>1. A \in SUBSET R /\ D \in SUBSET R /\ {x} \cup D \in SUBSET R
        BY <1>0, <3>1, <3>2 DEF Dates!Duplicates
      <4>2. h[O(T)] = h[A] + h[{x} \cup D]
        <5>1. A \cap ({x} \cup D) = {} /\ O(T) = A \cup ({x} \cup D)
          BY <3>5
        <5>2. PICK B \in SUBSET R : B = {x} \cup D
          BY <4>1
        <5>3. A \cap B = {}
          BY <5>1, <5>2
        <5>4. h[A \cup B] = h[A] + h[B]
          BY <1>finite, <1>3, <1>4, <4>1, <5>3, SumUnion
        <5> QED
          BY <5>1, <5>2, <5>4
      <4>3. ({x} \cup D) \ {x} = D
        BY <3>5
      <4>4. h[{x} \cup D] = own[x] + h[D]
        BY <1>finite, <1>3, <1>4, <4>1, <4>3, SumOne
      <4> QED
        BY <4>2, <4>4
    <3>7. PICK a, o, e : a = h[A] /\ o = own[x] /\ e = h[D] /\ a \in Nat /\ o \in Nat /\ e \in Nat
      <4>1. A \in SUBSET R /\ D \in SUBSET R
        BY <1>0, <3>2 DEF Dates!Duplicates
      <4> QED
        BY <1>3, <1>typed, <3>1, <4>1
    <3>8. w[T] = (o + e) + a /\ h[O(T)] = a + (o + e)
      BY <1>6, <3>1, <3>2, <3>3, <3>4, <3>6, <3>7
    <3>9. (o + e) + a = a + (o + e)
      BY <3>7
    <3>10. w[T] = h[O(T)]
      BY <3>8, <3>9
    <3> QED
      BY <3>10
  <2> QED
    BY <2>1, <2>2
<1>10. Q = SUBSET L
  <2>1. Q \in SUBSET (SUBSET L) /\ IsFiniteSet(L)
    BY <1>0, FS_Subset
  <2> HIDE DEF Q
  <2> QED
    BY <1>9, <2>1, SubsetInduction
<1>11. w[L] = h[O(L)]
  BY <1>10
<1>12. O(L) \in SUBSET R /\ L \in SUBSET R
  BY <1>0
<1> QED
  BY <1>0, <1>1, <1>5, <1>8, <1>11, <1>12

\* The votes of the activities are those of the living requirements and of their duplicates.
LEMMA ActivityVotesHold ==
  ASSUME x1 \in Dates!Content, Listed \in Nat
  PROVE  Dates!VotesCountOnce
<1>1. PICK d \in Dates!Details : d = x1.details /\ Dates!IsConsistent(d)
  BY DEF Dates!Content
<1>2. PICK R : R = 1..Listed /\ IsFiniteSet(R)
  BY FS_Interval
<1>finite. IsFiniteSet(R)
  BY <1>2
<1>3. PICK own : own = Dates!own(d)
  OBVIOUS
<1>4. \A r \in R : own[r] \in Nat
  <2>1. \A r \in R : d[r].votes \in Nat
    BY <1>2 DEF Dates!Details
  <2> QED
    BY <1>2, <1>3, <2>1 DEF Dates!own
<1>5. PICK h : IsSum(h, own, R)
  BY <1>finite, <1>4, SumExists
<1>6. \A T \in SUBSET R : h[T] \in Nat
  BY <1>finite, <1>4, <1>5, SumType
<1>7. ASSUME NEW T \in SUBSET R PROVE Dates!sum(own, T) = h[T]
  <2>1. \A x \in T : own[x] = own[x]
    OBVIOUS
  <2> QED
    BY <1>finite, <1>4, <1>5, <2>1, SumIs
<1> DEFINE O(key) == {r \in R : Dates!Owner(d, r) \in Dates!living(d, key)}
<1>8. ASSUME NEW key PROVE Dates!effectiveVotes(d, key) = h[O(key)]
  <2>1. PICK L \in SUBSET (1..Listed) : L = Dates!living(d, key)
    BY DEF Dates!living
  <2>2. \A r \in L : Dates!counts(d[r])
    BY <2>1 DEF Dates!living
  <2>3. Dates!sum([r \in 1..Listed |-> Dates!effective(d, r)], L)
          = Dates!sum(Dates!own(d), {r \in 1..Listed : Dates!Owner(d, r) \in L})
    BY <1>1, <2>2, VotesOnce
  <2>4. Dates!effectiveVotes(d, key) = Dates!sum([r \in 1..Listed |-> Dates!effective(d, r)], L)
    BY <2>1 DEF Dates!effectiveVotes
  <2>5. O(key) = {r \in 1..Listed : Dates!Owner(d, r) \in L}
    BY <1>2, <2>1
  <2> QED
    BY <1>3, <1>7, <2>3, <2>4, <2>5
<1>9. PICK e, K : e = [key \in {k1, k2} |-> Dates!effectiveVotes(d, key)] /\ K = {k1, k2}
  OBVIOUS
<1>10. \A key \in K : O(key) \in SUBSET R /\ e[key] = h[O(key)]
  BY <1>8, <1>9
<1>11. \A key \in K : e[key] \in Nat
  BY <1>6, <1>10
<1>12. IsFiniteSet(K)
  <2>1. IsFiniteSet({k2})
    BY FS_Singleton
  <2>2. K = {k2} \cup {k1}
    BY <1>9
  <2> QED
    BY <2>1, <2>2, FS_AddElement
<1>13. PICK g : IsSum(g, e, K)
  BY <1>11, <1>12, SumExists
<1>14. Dates!sum(e, K) = g[K]
  <2>1. \A x \in K : e[x] = e[x]
    OBVIOUS
  <2> QED
    BY <1>11, <1>12, <1>13, <2>1, SumIs
<1>15. ASSUME NEW Y \in SUBSET K, NEW y \in Y PROVE g[Y] = e[y] + g[Y \ {y}]
  BY <1>11, <1>12, <1>13, SumOne
<1>16. g[{}] = 0
  BY <1>13, SumSteps
<1>17. PICK owned \in SUBSET R :
         owned = {r \in R : \E key \in K : Dates!Owner(d, r) \in Dates!living(d, key)}
  OBVIOUS
<1>18. g[K] = h[owned]
  <2>1. g[{k2}] = e[k2]
    <3>1. g[{k2}] = e[k2] + g[{k2} \ {k2}] /\ e[k2] \in Nat
      BY <1>9, <1>11, <1>15
    <3>2. {k2} \ {k2} = {}
      OBVIOUS
    <3> QED
      BY <1>16, <3>1, <3>2
  <2>2. CASE k1 = k2
    <3>1. K = {k2} /\ owned = O(k2)
      BY <1>9, <1>17, <2>2
    <3> QED
      BY <1>9, <1>10, <2>1, <3>1
  <2>3. CASE k1 # k2
    <3>1. K \ {k1} = {k2}
      BY <1>9, <2>3
    <3>2. g[K] = e[k1] + e[k2]
      <4>1. K \in SUBSET K /\ k1 \in K
        BY <1>9
      <4>2. g[K] = e[k1] + g[K \ {k1}]
        BY <1>15, <4>1
      <4> QED
        BY <2>1, <3>1, <4>2
    <3>3. PICK A, B : A = O(k1) /\ B = O(k2) /\ A \in SUBSET R /\ B \in SUBSET R
      OBVIOUS
    <3>4. A \cap B = {}
      BY <2>3, <3>3 DEF Dates!living
    <3>5. owned = A \cup B
      BY <1>9, <1>17, <3>3
    <3>6. A \in SUBSET R /\ B \in SUBSET R
      BY <3>3
    <3>7. h[A \cup B] = h[A] + h[B]
      BY <1>finite, <1>4, <1>5, <3>4, <3>6, SumUnion
    <3>8. e[k1] = h[A] /\ e[k2] = h[B]
      BY <1>9, <1>10, <3>3
    <3> QED
      BY <3>2, <3>5, <3>7, <3>8
  <2> QED
    BY <2>2, <2>3
<1>19. Dates!sum(e, K) = Dates!sum(own, owned)
  BY <1>7, <1>14, <1>18
<1>20. Dates!sum([key \in {k1, k2} |-> Dates!effectiveVotes(d, key)], {k1, k2})
         = Dates!sum(Dates!own(d), {r \in 1..Listed : \E key \in {k1, k2} :
                                      Dates!Owner(d, r) \in Dates!living(d, key)})
  BY <1>2, <1>3, <1>9, <1>17, <1>19
<1> QED
  BY <1>1, <1>20 DEF Dates!VotesCountOnce

\* A midnight the clocks neither skip nor repeat is the instant found for it: before it are
\* the days before, from it on the day and those after.
LEMMA DayStarts ==
  ASSUME NEW zone \in Dates!Zones, NEW day \in 1..3, Dates!ReadOnce(zone, day), NEW t \in Int
  PROVE  Dates!zonedDayStart(zone, day) <= t <=> day * 6 <= Dates!local(zone, t)
<1>1. PICK b, a, c, M \in Int : b = zone.before /\ a = zone.after /\ c = zone.at /\ M = day * 6
  BY DEF Dates!Zones, Dates!DAY
<1>2. b \in -2..2 /\ a \in -2..2 /\ (a = b + 1 \/ a = b - 1) /\ M \in 6..18
  BY <1>1 DEF Dates!Zones
<1>3. \A u \in Int : Dates!local(zone, u) = IF u < c THEN u + b ELSE u + a
  BY <1>1, <1>2 DEF Dates!local, Dates!offset
<1>4. PICK s \in Int : s = Dates!zonedDayStart(zone, day) /\
        s = (IF (IF M < c THEN M - b ELSE M - a) < c THEN M - b ELSE M - a)
  BY <1>1, <1>2 DEF Dates!zonedDayStart, Dates!OnePass, Dates!offset, Dates!DAY
<1>5. PICK u \in -6..30 : Dates!local(zone, u) = M /\ \A w \in -6..30 : Dates!local(zone, w) = M => w = u
  <2>1. PICK S : S = {w \in -6..30 : Dates!local(zone, w) = M}
    OBVIOUS
  <2>2. Cardinality(S) = 1
    <3>1. Dates!Cardinality(S) = 1
      <4>1. {w \in -Dates!DAY..5 * Dates!DAY : Dates!local(zone, w) = day * Dates!DAY} = S
        BY <1>1, <2>1 DEF Dates!DAY
      <4>2. Dates!Cardinality({w \in -Dates!DAY..5 * Dates!DAY : Dates!local(zone, w) = day * Dates!DAY}) = 1
        BY Zenon DEF Dates!ReadOnce
      <4> QED
        BY <4>1, <4>2
    <3>2. Dates!Cardinality(S) = Cardinality(S)
      BY Zenon DEF Dates!Cardinality, Cardinality
    <3> QED
      BY <3>1, <3>2
  <2>3. IsFiniteSet(S)
    <3>1. PICK lo, hi \in Int : lo = -6 /\ hi = 30
      OBVIOUS
    <3>2. IsFiniteSet(lo..hi) /\ S \subseteq lo..hi
      BY <2>1, <3>1, FS_Interval
    <3> QED
      BY <3>2, FS_Subset
  <2>4. PICK u : S = {u}
    BY <2>2, <2>3, FS_Singleton
  <2> QED
    BY <2>1, <2>4
<1>6. (M - b < c) \in BOOLEAN
  OBVIOUS
<1>7. M - b \in -6..30 /\ M - a \in -6..30
  BY <1>2
<1>8. (M - b < c) # (M - a >= c)  \/ TRUE
  OBVIOUS
<1>9. Dates!local(zone, M - b) = (IF M - b < c THEN M ELSE M - b + a)
  BY <1>2, <1>3
<1>10. Dates!local(zone, M - a) = (IF M - a < c THEN M - a + b ELSE M)
  BY <1>2, <1>3
<1>11. ~ (M - b < c /\ M - a >= c)
  BY <1>2, <1>5, <1>7, <1>9, <1>10
<1>12. u = (IF u < c THEN M - b ELSE M - a)
  BY <1>2, <1>3, <1>5
<1>13. M - b < c \/ M - a >= c
  BY <1>2, <1>12
<1>14. s = (IF M - b < c THEN M - b ELSE M - a)
  BY <1>2, <1>4, <1>11, <1>13
<1>15. Dates!local(zone, t) = IF t < c THEN t + b ELSE t + a
  BY <1>3
<1>16. s <= t <=> M <= Dates!local(zone, t)
  BY <1>2, <1>11, <1>13, <1>14, <1>15
<1> QED
  BY <1>1, <1>4, <1>16

\* The range of the filter is that of the labels.
LEMMA RangeHolds ==
  ASSUME x1 \in Dates!Clock
  PROVE  Dates!RangeIsOfDays
<1> SUFFICES ASSUME Dates!ReadOnce(x1.zone, x1.from), Dates!ReadOnce(x1.zone, x1.to + 1),
                    NEW t \in Dates!Instants
             PROVE  Dates!inRange(x1.zone, x1.from, x1.to, t)
                      <=> Dates!dayOf(x1.zone, t) \in x1.from..x1.to
  BY DEF Dates!RangeIsOfDays
<1>1. PICK zone \in Dates!Zones : zone = x1.zone
  BY DEF Dates!Clock
<1>2. PICK from, to \in Int : from = x1.from /\ to = x1.to /\ from \in 1..2 /\ to \in 1..2 /\ from \in 1..3 /\ to + 1 \in 1..3
  BY DEF Dates!Clock
<1>3. t \in Int
  BY DEF Dates!Instants, Dates!DAY
<1>4. PICK p, q \in Int : p = Dates!local(zone, t) /\ q = Dates!dayOf(zone, t) /\ q = p \div 6
  BY <1>3 DEF Dates!local, Dates!offset, Dates!dayOf, Dates!DAY, Dates!Zones
<1>5. Dates!zonedDayStart(zone, from) <= t <=> from * 6 <= p
  BY <1>1, <1>2, <1>3, <1>4, DayStarts
<1>6. Dates!zonedDayStart(zone, to + 1) <= t <=> (to + 1) * 6 <= p
  BY <1>1, <1>2, <1>3, <1>4, DayStarts
<1>7. PICK e \in Int : e = Dates!zonedDayStart(zone, to + 1)
  BY <1>2 DEF Dates!zonedDayStart, Dates!OnePass, Dates!offset, Dates!DAY, Dates!Zones
<1>8. t < e <=> p < (to + 1) * 6
  BY <1>2, <1>3, <1>4, <1>6, <1>7
<1>9. from * 6 <= p /\ p < (to + 1) * 6 <=> from <= q /\ q <= to
  BY <1>2, <1>4
<1>10. Dates!inRange(zone, from, to, t) <=> q \in from..to
  BY <1>2, <1>4, <1>5, <1>7, <1>8, <1>9 DEF Dates!inRange
<1> QED
  BY <1>1, <1>2, <1>4, <1>10

\* What the page shows of a list is read member by member.
LEMMA DatesWhere ==
  ASSUME NEW T, NEW s \in Seq(T), NEW K
  PROVE  \E f : IsFilter(f, s, K) /\ Dates!Where(s, K) = f[Len(s)]
<1> DEFINE F == CHOOSE f : IsFilter(f, s, K)
<1>1. IsFilter(F, s, K)
  BY FilterExists
<1>2. Dates!Where(s, K) = F[Len(s)]
  BY DEF Dates!Where, IsFilter
<1> QED
  BY <1>1, <1>2

IsBefore(P, d, S) == P = [r \in S |-> {x \in S : Dates!Before(d, x, r)}]

\* Requirements are ordered by their effective votes, then by their dates.
LEMMA ByVotes ==
  ASSUME NEW d, NEW S \in SUBSET (1..Listed), Listed \in Nat,
         \A r \in 1..Listed : Dates!effective(d, r) \in Nat,
         NEW P, IsBefore(P, d, S), NEW p, IsRank(p, P, S)
  PROVE  IsFiniteSet(S) /\ IsOrder(P, S) /\ IsByPlace(Dates!Sorted(d, S), S, p)
<1>1. IsFiniteSet(S) /\ \A r \in S : r \in Nat
  <2>1. PICK R : R = 1..Listed /\ IsFiniteSet(R)
    BY FS_Interval
  <2>2. IsFiniteSet(S)
    BY <2>1, FS_Subset
  <2> QED
    BY <2>2
<1>2. PICK e : e = [r \in 1..Listed |-> Dates!effective(d, r)]
  OBVIOUS
<1>3. \A r \in S : e[r] \in Nat
  BY <1>2
<1>4. \A x, r \in S : Dates!Before(d, x, r) <=> e[x] > e[r] \/ (e[x] = e[r] /\ x > r)
  BY <1>2 DEF Dates!Before
<1>5. \A r \in S : P[r] = {x \in S : e[x] > e[r] \/ (e[x] = e[r] /\ x > r)}
  BY <1>4 DEF IsBefore
<1>6. IsOrder(P, S)
  <2>1. P \in [S -> SUBSET S]
    BY DEF IsBefore
  <2>2. \A r \in S : r \notin P[r]
    BY <1>1, <1>3, <1>5
  <2>3. \A x, r \in S : x = r \/ x \in P[r] \/ r \in P[x]
    BY <1>1, <1>3, <1>5
  <2>4. ASSUME NEW r \in S, NEW x \in P[r], NEW y \in P[x] PROVE y \in P[r]
    <3>1. x \in S /\ y \in S
      BY <1>5
    <3>2. (e[x] > e[r] \/ (e[x] = e[r] /\ x > r)) /\ (e[y] > e[x] \/ (e[y] = e[x] /\ y > x))
      BY <1>5, <3>1
    <3>3. e[y] > e[r] \/ (e[y] = e[r] /\ y > r)
      BY <1>1, <1>3, <3>1, <3>2
    <3> QED
      BY <1>5, <3>1, <3>3
  <2> QED
    BY <2>1, <2>2, <2>3, <2>4 DEF IsOrder
<1>7. PICK N : N = Cardinality(S) /\ N \in Nat
  BY <1>1, FS_CardinalityType
<1>8. /\ \A x, r \in S : p[x] = p[r] => x = r
      /\ \A i \in 0..N - 1 : \E r \in S : p[r] = i
  <2>1. IsFiniteSet(S)
    BY <1>1
  <2>2. N = Cardinality(S)
    BY <1>7
  <2>3. PICK Z : Z = S
    OBVIOUS
  <2>4. IsFiniteSet(Z) /\ N = Cardinality(Z) /\ IsOrder(P, Z) /\ IsRank(p, P, Z)
    BY <1>6, <2>1, <2>2, <2>3
  <2>5. /\ \A x, r \in Z : p[x] = p[r] => x = r
        /\ \A i \in 0..N - 1 : \E r \in Z : p[r] = i
    BY <2>4, RankFacts
  <2> QED
    BY <2>3, <2>5
<1>9. \A r \in S : Dates!Place(d, S, r) = p[r]
  <2>1. \A r \in S : p[r] = Cardinality(P[r])
    BY DEF IsRank
  <2>2. \A T : Dates!Cardinality(T) = Cardinality(T)
    BY Zenon DEF Dates!Cardinality, Cardinality
  <2>3. \A r \in S : P[r] = {x \in S : Dates!Before(d, x, r)}
    BY DEF IsBefore
  <2>4. ASSUME NEW r \in S PROVE Dates!Place(d, S, r) = p[r]
    <3>1. Dates!Place(d, S, r) = Dates!Cardinality({x \in S : Dates!Before(d, x, r)})
      BY Zenon DEF Dates!Place
    <3> QED
      BY <2>1, <2>2, <2>3, <3>1
  <2> QED
    BY <2>4
<1>10. PICK s : s = Dates!Sorted(d, S) /\ s = [i \in 1..N |-> CHOOSE r \in S : Dates!Place(d, S, r) = i - 1]
  <2>1. Dates!Cardinality(S) = N
    BY <1>7, Zenon DEF Dates!Cardinality, Cardinality
  <2> QED
    BY <2>1 DEF Dates!Sorted
<1>11. ASSUME NEW i \in 1..N PROVE s[i] \in S /\ p[s[i]] = i - 1
  <2>1. i - 1 \in 0..N - 1
    BY <1>7
  <2>2. PICK r \in S : Dates!Place(d, S, r) = i - 1
    BY <1>8, <1>9, <2>1
  <2>3. s[i] = CHOOSE x \in S : Dates!Place(d, S, x) = i - 1
    BY <1>10
  <2>4. s[i] \in S /\ Dates!Place(d, S, s[i]) = i - 1
    BY <2>2, <2>3, Zenon
  <2> QED
    BY <1>9, <2>4
<1>12. s \in [1..N -> S]
  BY <1>10, <1>11
<1> QED
  BY <1>1, <1>6, <1>7, <1>10, <1>11, <1>12 DEF IsByPlace

\* The notes show the first of the list.
LEMMA TopHolds ==
  ASSUME NEW d, Listed \in Nat, \A r \in 1..Listed : Dates!effective(d, r) \in Nat, NEW key
  PROVE  Dates!Where(Dates!list(d, key), {r \in 1..Listed : Dates!counts(d[r])})
           = Dates!Sorted(d, Dates!living(d, key))
<1>1. PICK A \in SUBSET (1..Listed) : A = Dates!Written(d, key)
  BY DEF Dates!Written
<1>2. PICK K : K = {r \in 1..Listed : Dates!counts(d[r])}
  OBVIOUS
<1>3. PICK L \in SUBSET (1..Listed) : L = Dates!living(d, key) /\ L = A \cap K
  BY <1>1, <1>2 DEF Dates!living, Dates!Written
<1>4. PICK P : P = [r \in A |-> {x \in A : Dates!Before(d, x, r)}]
  OBVIOUS
<1>5. PICK Q : Q = [r \in L |-> {x \in L : Dates!Before(d, x, r)}]
  OBVIOUS
<1>6. PICK p : IsRank(p, P, A)
  BY DEF IsRank
<1>7. PICK q : IsRank(q, Q, L)
  BY DEF IsRank
<1>8. PICK s : s = Dates!Sorted(d, A)
  OBVIOUS
<1>9. IsFiniteSet(A) /\ IsOrder(P, A) /\ IsByPlace(s, A, p)
  <2>1. IsBefore(P, d, A)
    BY <1>4 DEF IsBefore
  <2> QED
    BY <1>6, <1>8, <2>1, ByVotes
<1>10. IsFiniteSet(L) /\ IsOrder(Q, L) /\ IsByPlace(Dates!Sorted(d, L), L, q)
  <2>1. IsBefore(Q, d, L)
    BY <1>5 DEF IsBefore
  <2> QED
    BY <1>7, <2>1, ByVotes
<1>11. s \in Seq(A)
  <2>1. Cardinality(A) \in Nat
    BY <1>9, FS_CardinalityType
  <2>2. s \in [1..Cardinality(A) -> A]
    BY <1>9 DEF IsByPlace
  <2> QED
    BY <2>1, <2>2
<1>12. PICK f : IsFilter(f, s, K) /\ Dates!Where(s, K) = f[Len(s)]
  BY <1>11, DatesWhere
<1>13. Q = [r \in L |-> P[r] \cap L]
  <2>1. ASSUME NEW r \in L PROVE {x \in L : Dates!Before(d, x, r)} = P[r] \cap L
    BY <1>3, <1>4
  <2> QED
    BY <1>5, <2>1
<1>14. IsByPlace(f[Len(s)], L, q)
  <2>1. IsFiniteSet(A) 
    BY <1>9
  <2>2. IsOrder(P, A)
    BY <1>9
  <2>3. IsByPlace(s, A, p)
    BY <1>9
  <2>4. IsFilter(f, s, K)
    BY <1>12
  <2>5. L = A \cap K
    BY <1>3
  <2> QED
    BY <1>6, <1>7, <1>13, <2>1, <2>2, <2>3, <2>4, <2>5, FilterKeepsPlace
<1>15. \A x, r \in L : q[x] = q[r] => x = r
  <2>1. IsFiniteSet(L) /\ IsOrder(Q, L)
    BY <1>10
  <2>2. PICK N : N = Cardinality(L)
    OBVIOUS
  <2> QED
    BY <1>7, <2>1, <2>2, RankFacts
<1>16. f[Len(s)] = Dates!Sorted(d, L)
  BY <1>10, <1>14, <1>15, OneByPlace
<1> QED
  BY <1>1, <1>2, <1>3, <1>8, <1>12, <1>16 DEF Dates!list

\* The effective votes are a number.
LEMMA EffectiveVotes ==
  ASSUME NEW d \in Dates!Details, Listed \in Nat, NEW r \in 1..Listed
  PROVE  Dates!effective(d, r) \in Nat
<1>1. PICK R : R = 1..Listed /\ IsFiniteSet(R)
  BY FS_Interval
<1>finite. IsFiniteSet(R)
  BY <1>1
<1>2. PICK own : own = Dates!own(d)
  OBVIOUS
<1>3. \A x \in R : own[x] \in Nat
  <2>1. \A x \in R : d[x].votes \in Nat
    BY <1>1 DEF Dates!Details
  <2> QED
    BY <1>1, <1>2, <2>1 DEF Dates!own
<1>4. PICK h : IsSum(h, own, R)
  BY <1>finite, <1>3, SumExists
<1>5. \A T \in SUBSET R : h[T] \in Nat
  BY <1>finite, <1>3, <1>4, SumType
<1>6. PICK T \in SUBSET R : T = Dates!Duplicates(d, r)
  BY <1>1 DEF Dates!Duplicates
<1>7. Dates!sum(own, T) = h[T]
  <2>1. \A x \in T : own[x] = own[x]
    OBVIOUS
  <2> QED
    BY <1>finite, <1>3, <1>4, <2>1, SumIs
<1>8. d[r].votes \in Nat
  <2>1. \A x \in R : d[x].votes \in Nat
    BY <1>1 DEF Dates!Details
  <2> QED
    BY <1>1, <2>1
<1>9. Dates!effective(d, r) = d[r].votes + h[T]
  BY <1>2, <1>6, <1>7 DEF Dates!effective
<1> QED
  BY <1>5, <1>8, <1>9

\* The first of the dashboard are the first the list of the activity shows.
LEMMA TopsHold ==
  ASSUME x1 \in Dates!Content, Listed \in Nat
  PROVE  Dates!TopIsOfList
<1>1. PICK d \in Dates!Details : d = x1.details
  BY DEF Dates!Content
<1>2. ASSUME NEW key PROVE Dates!Where(Dates!list(d, key), {r \in 1..Listed : Dates!counts(d[r])})
                             = Dates!Sorted(d, Dates!living(d, key))
  <2>1. \A r \in 1..Listed : Dates!effective(d, r) \in Nat
    BY EffectiveVotes
  <2> QED
    BY <2>1, TopHolds
<1> QED
  BY <1>1, <1>2, Zenon DEF Dates!TopIsOfList, Dates!top

-----------------------------------------------------------------------------
(* What the pages offer (Offers): x1 is what a page shows.                   *)

\* A requirement, its votes, its comments and its moderation.
LEMMA DetailPages ==
  ASSUME NEW s \in Pages!Details
  PROVE  /\ Pages!Offered(s) \ Pages!Explained(s) \subseteq Pages!Accepted(s)
         /\ Pages!Accepted(s) \ Pages!Elsewhere(s) \subseteq Pages!Offered(s)
<1>1. /\ s.kind = "detail" /\ s.role \in {"admin", "participant"} /\ s.project \in {"draft", "open", "closed"}
      /\ s.status \in {"pending", "validated", "duplicate", "discarded"}
      /\ s.mine \in BOOLEAN /\ s.voted \in BOOLEAN /\ s.orphan \in BOOLEAN /\ s.mineToo \in BOOLEAN
      /\ s.other.here \in BOOLEAN /\ ~(s.mine /\ s.voted)
  BY DEF Pages!Details, Pages!Roles, Pages!ProjectStatuses, Pages!Statuses
<1>2. Pages!DetailCard(s) = Pages!update(s)
  BY DEF Pages!DetailCard, Pages!update
<1>3. Pages!VoteButton(s) = Pages!vote(s)
  <2>1. Pages!detailPermissions(s).vote <=> (s.project = "open" /\ ~s.mine /\ s.status \in {"pending", "validated"})
    BY DEF Pages!detailPermissions
  <2>2. Pages!VoteButton(s) =
          {op \in {"vote", "unvote"} :
             (Pages!detailPermissions(s).vote \/ (s.project = "open" /\ s.voted)) /\ s.voted = (op = "unvote")}
    BY DEF Pages!VoteButton
  <2>3. Pages!vote(s) =
          {op \in {"vote", "unvote"} :
             s.project = "open" /\ (\/ op = "unvote" /\ s.voted
                                    \/ op = "vote" /\ ~s.voted /\ ~s.mine /\ s.status \in {"pending", "validated"})}
    BY DEF Pages!vote, Pages!requireProjectStatus
  <2> QED
    BY <1>1, <2>1, <2>2, <2>3
<1>4. /\ Pages!ModerationMenu(s) \subseteq Pages!moderate(s)
      /\ \A to \in Pages!moderate(s) : ~(to = "duplicate" /\ ~s.other.here) => to \in Pages!ModerationMenu(s)
  <2>1. Pages!detailPermissions(s).moderate <=> (s.project = "open" /\ s.role = "admin")
    BY DEF Pages!detailPermissions
  <2>2. \A to : to \in Pages!ModerationMenu(s) <=>
          /\ to \in {"pending", "validated", "duplicate", "discarded"}
          /\ s.project = "open" /\ s.role = "admin"
          /\ \/ to = "validated" /\ s.status = "pending"
             \/ to = "pending" /\ s.status # "pending"
             \/ to = "discarded" /\ s.status \in {"pending", "validated"}
             \/ /\ to = "duplicate" /\ s.status \in {"pending", "validated"}
                /\ s.other.here /\ s.other.status # "duplicate"
    BY <2>1 DEF Pages!ModerationMenu, Pages!Statuses
  <2>3. \A to : to \in Pages!moderate(s) <=>
          /\ to \in Pages!TRANSITIONS[s.status]
          /\ s.role = "admin" /\ s.project = "open" /\ (to = "duplicate" => s.other.status # "duplicate")
    BY DEF Pages!moderate, Pages!requireProjectRole, Pages!requireProjectStatus
  <2>4. \A to : to \in Pages!TRANSITIONS[s.status] <=>
          \/ s.status = "pending" /\ to \in {"validated", "duplicate", "discarded"}
          \/ s.status = "validated" /\ to \in {"pending", "duplicate", "discarded"}
          \/ s.status = "duplicate" /\ to = "pending"
          \/ s.status = "discarded" /\ to = "pending"
    BY <1>1 DEF Pages!TRANSITIONS
  <2> QED
    BY <1>1, <2>2, <2>3, <2>4
<1>5. Pages!Comments(s) = Pages!comment(s)
  BY <1>1 DEF Pages!Comments, Pages!comment, Pages!requireProjectStatus
<1>6. s.orphan => Pages!OrphansPage(s) = Pages!reassign(s)
  BY <1>1 DEF Pages!OrphansPage, Pages!reassign, Pages!requireProjectRole, Pages!requireProjectStatus
<1>7. ~s.orphan => Pages!reassign(s) = {}
  BY DEF Pages!reassign
<1>8. Pages!Offered(s) = IF s.orphan THEN Pages!OrphansPage(s)
        ELSE Pages!DetailCard(s) \cup Pages!VoteButton(s) \cup Pages!ModerationMenu(s) \cup Pages!Comments(s)
  BY <1>1, Zenon DEF Pages!Offered
<1>9. Pages!Accepted(s) = Pages!update(s) \cup Pages!vote(s) \cup Pages!moderate(s) \cup Pages!comment(s)
        \cup Pages!reassign(s)
  BY <1>1 DEF Pages!Accepted
<1>10. \A op : op \in Pages!reassign(s) => op = "reassign"
  BY DEF Pages!reassign
<1>11. Pages!Elsewhere(s) = IF s.orphan THEN Pages!Accepted(s) \ {"reassign"}
                            ELSE {op \in {"duplicate"} : ~s.other.here}
  BY <1>1 DEF Pages!Elsewhere
<1>12. Pages!Accepted(s) \ Pages!Elsewhere(s) \subseteq Pages!Offered(s)
  <2>1. "reassign" \in Pages!Accepted(s) => "reassign" \in Pages!reassign(s)
    <3>1. "reassign" \notin Pages!update(s) /\ "reassign" \notin Pages!vote(s) /\ "reassign" \notin Pages!comment(s)
      BY DEF Pages!update, Pages!vote, Pages!comment
    <3>2. "reassign" \notin Pages!TRANSITIONS[s.status]
      BY <1>1 DEF Pages!TRANSITIONS
    <3>3. "reassign" \notin Pages!moderate(s)
      BY <3>2 DEF Pages!moderate
    <3> QED
      BY <1>9, <3>1, <3>3
  <2>2. CASE s.orphan
    BY <1>6, <1>8, <1>11, <2>1, <2>2
  <2>3. CASE ~s.orphan
    BY <1>2, <1>3, <1>4, <1>5, <1>7, <1>8, <1>9, <1>11, <2>3
  <2> QED
    BY <2>2, <2>3
<1>13. Pages!Offered(s) \subseteq Pages!Accepted(s)
  BY <1>2, <1>3, <1>4, <1>5, <1>6, <1>8, <1>9
<1> QED
  BY <1>12, <1>13

\* A diagram, its versions and its detection.
LEMMA DiagramPages ==
  ASSUME NEW s \in Pages!Diagrams
  PROVE  /\ Pages!Offered(s) \ Pages!Explained(s) \subseteq Pages!Accepted(s)
         /\ Pages!Accepted(s) \ Pages!Elsewhere(s) \subseteq Pages!Offered(s)
<1>1. /\ s.kind = "diagram" /\ s.role \in {"admin", "participant"} /\ s.project \in {"draft", "open", "closed"}
      /\ s.hasDraft \in BOOLEAN /\ s.hasPublished \in BOOLEAN /\ s.prefer \in BOOLEAN /\ s.marked \in BOOLEAN
      /\ s.proposals \in BOOLEAN /\ s.detecting \in BOOLEAN /\ s.wide \in BOOLEAN
      /\ IF s.role = "admin" THEN s.hasDraft \/ s.hasPublished ELSE s.hasPublished /\ ~s.prefer
  BY DEF Pages!Diagrams, Pages!Roles, Pages!ProjectStatuses
<1> DEFINE draft == s.hasDraft /\ s.role = "admin" /\ ~(s.prefer /\ s.hasPublished)
           can == s.role = "admin" /\ s.project # "closed"
<1>2. (Pages!Shown(s) = "draft" <=> draft) /\ (Pages!Shown(s) = "published" <=> ~draft)
  BY <1>1 DEF Pages!Shown
<1>3. (Pages!writable(s) <=> can) /\ (Pages!editing(s) <=> can /\ draft /\ s.wide)
  BY <1>2 DEF Pages!writable, Pages!editing
<1>4. \A op : op \in Pages!Offered(s) <=>
        /\ op \in {"publish", "newVersion", "editActivity", "detect", "review", "create", "newDiagram"}
        /\ \/ op = "newDiagram" /\ can
           \/ op = "publish" /\ can /\ draft /\ s.marked
           \/ op = "newVersion" /\ can /\ ~s.hasDraft
           \/ op = "editActivity" /\ can /\ draft /\ s.wide
           \/ op = "detect" /\ can /\ draft /\ s.wide /\ ~s.detecting
           \/ op = "review" /\ can /\ draft /\ s.wide /\ s.proposals
           \/ op = "create" /\ ~(can /\ draft /\ s.wide) /\ ~draft /\ s.project = "open"
  <2>1. Pages!Offered(s) = Pages!WorkspacePage(s) \cup Pages!DiagramListPage(s)
    BY <1>1 DEF Pages!Offered
  <2> HIDE DEF draft, can
  <2> QED
    BY <1>2, <1>3, <2>1
    DEF Pages!WorkspacePage, Pages!DiagramListPage, Pages!PublishButton, Pages!DetailsPanel
<1>5. \A op : op \in Pages!Accepted(s) <=>
        \/ /\ op \in {"publish", "newVersion", "editActivity", "detect", "review", "newDiagram"}
           /\ can
           /\ op = "publish" => s.hasDraft /\ s.marked /\ ~s.proposals
           /\ op = "newVersion" => ~s.hasDraft
           /\ op = "editActivity" => s.hasDraft
           /\ op = "detect" => s.hasDraft /\ ~s.detecting
           /\ op = "review" => s.hasDraft /\ s.proposals
        \/ op = "create" /\ s.project = "open" /\ s.hasPublished
  <2>1. Pages!Accepted(s) = Pages!diagrams(s) \cup Pages!create(s)
    BY <1>1 DEF Pages!Accepted
  <2>2. can <=> Pages!requireProjectRole(s, "admin") /\ Pages!requireProjectStatus(s, Pages!WRITABLE)
    BY <1>1 DEF Pages!requireProjectRole, Pages!requireProjectStatus, Pages!WRITABLE
  <2>3. s.project = "open" <=> Pages!requireProjectStatus(s, {"open"})
    BY DEF Pages!requireProjectStatus
  <2> HIDE DEF can
  <2> QED
    BY <2>1, <2>2, <2>3 DEF Pages!diagrams, Pages!create
<1>6. \A op : op \in Pages!Explained(s) <=> op = "publish" /\ s.proposals
  BY <1>1 DEF Pages!Explained
<1>7. \A op : op \in Pages!Elsewhere(s) <=>
        \/ draft /\ op = "create"
        \/ ~draft /\ op \in {"publish", "editActivity", "detect", "review"}
        \/ ~s.wide /\ op \in {"editActivity", "detect", "review"}
  BY <1>1, <1>2 DEF Pages!Elsewhere
<1>8. ASSUME NEW op, op \in Pages!Offered(s), op \notin Pages!Explained(s) PROVE op \in Pages!Accepted(s)
  BY <1>1, <1>4, <1>5, <1>6, <1>8
<1>9. ASSUME NEW op, op \in Pages!Accepted(s), op \notin Pages!Elsewhere(s) PROVE op \in Pages!Offered(s)
  BY <1>1, <1>4, <1>5, <1>7, <1>9
<1> QED
  BY <1>8, <1>9

\* A member of the project.
LEMMA MemberPages ==
  ASSUME NEW s \in Pages!Members
  PROVE  /\ Pages!Offered(s) \ Pages!Explained(s) \subseteq Pages!Accepted(s)
         /\ Pages!Accepted(s) \ Pages!Elsewhere(s) \subseteq Pages!Offered(s)
<1>1. /\ s.kind = "member" /\ s.role \in {"admin", "participant"} /\ s.project \in {"draft", "open", "closed"}
      /\ s.target \in {"me", "admin", "participant"} /\ s.another \in BOOLEAN
      /\ s.role = "admin" /\ s.target # "me" => s.another
  BY DEF Pages!Members, Pages!Roles, Pages!ProjectStatuses
<1>2. Pages!InvitationsSection(s) \cup Pages!ProjectSettingsPage(s) = Pages!projects(s)
  <2>1. Pages!nextStatus[s.project] = {Pages!STATUS_ACTION[s.project]}
    BY <1>1 DEF Pages!nextStatus, Pages!STATUS_ACTION
  <2>2. s.role = "admin" <=> Pages!requireProjectRole(s, "admin")
    BY DEF Pages!requireProjectRole
  <2>3. Pages!ProjectSettingsPage(s)
          = {op \in {"update", "deleteProject"} \cup {Pages!STATUS_ACTION[s.project]} : s.role = "admin"}
    BY Zenon DEF Pages!ProjectSettingsPage
  <2>4. Pages!projects(s)
          = {op \in {"invite", "update", "deleteProject"} \cup Pages!nextStatus[s.project] :
               Pages!requireProjectRole(s, "admin")}
    BY Zenon DEF Pages!projects
  <2>5. Pages!InvitationsSection(s) = {op \in {"invite"} : s.role = "admin"}
    BY Zenon DEF Pages!InvitationsSection
  <2> QED
    BY <2>1, <2>2, <2>3, <2>4, <2>5
<1>3. \A op : op \in Pages!MemberRow(s) <=>
        \/ op = "leave" /\ s.target = "me"
        \/ op = "remove" /\ s.target # "me" /\ s.role = "admin"
        \/ op = "demote" /\ s.role = "admin" /\ s.target \in {"me", "admin"}
        \/ op = "promote" /\ s.role = "admin" /\ s.target = "participant"
  BY <1>1 DEF Pages!MemberRow
<1>4. \A op : op \in Pages!members(s) <=>
        LET isAdmin == s.target = "admin" \/ (s.target = "me" /\ s.role = "admin")
        IN  /\ \/ op = "leave" /\ s.target = "me"
               \/ op = "remove" /\ s.target # "me" /\ s.role = "admin"
               \/ op = "promote" /\ ~isAdmin /\ s.role = "admin"
               \/ op = "demote" /\ isAdmin /\ s.role = "admin"
            /\ op # "promote" /\ isAdmin => s.another
  BY <1>1 DEF Pages!members, Pages!requireProjectRole
<1>5. Pages!Offered(s)
        = Pages!MemberRow(s) \cup (Pages!InvitationsSection(s) \cup Pages!ProjectSettingsPage(s))
  BY <1>1, Zenon DEF Pages!Offered
<1>6. Pages!Accepted(s) = Pages!members(s) \cup Pages!projects(s)
  BY <1>1 DEF Pages!Accepted
<1>7. \A op : op \in Pages!Explained(s) <=> op \in {"leave", "demote"} /\ ~s.another
  BY <1>1 DEF Pages!Explained
<1>8. ASSUME NEW op, op \in Pages!MemberRow(s), op \notin Pages!Explained(s) PROVE op \in Pages!members(s)
  BY <1>1, <1>3, <1>4, <1>7, <1>8
<1>9. ASSUME NEW op, op \in Pages!members(s) PROVE op \in Pages!MemberRow(s)
  BY <1>1, <1>3, <1>4, <1>9
<1> QED
  BY <1>2, <1>5, <1>6, <1>8, <1>9

\* A proposal and an arrow of the detection.
LEMMA ProposalPages ==
  ASSUME NEW s \in Pages!Proposals \cup Pages!Arrows
  PROVE  /\ Pages!Offered(s) \ Pages!Explained(s) \subseteq Pages!Accepted(s)
         /\ Pages!Accepted(s) \ Pages!Elsewhere(s) \subseteq Pages!Offered(s)
<1>1. CASE s \in Pages!Proposals
  <2>1. /\ s.kind = "proposal" /\ s.high \in BOOLEAN /\ s.duplicate \in BOOLEAN /\ s.named \in BOOLEAN
        /\ s.type \in {"action", "decision"} /\ s.toType \in {"action", "decision"}
        /\ s.form \in {"untouched", "renamed", "cleared"} /\ (s.form = "cleared" => s.named)
    BY <1>1 DEF Pages!Proposals, Pages!Types
  <2>2. \A op : op \in Pages!Offered(s) <=>
          \/ op = "accept" /\ ~(s.toType = "action" /\ (s.form = "cleared" \/ (s.form = "untouched" /\ ~s.named)))
          \/ op = "discard"
          \/ op = "acceptHigh" /\ s.high /\ ~s.duplicate /\ (s.type # "action" \/ s.named)
    <3>1. Pages!Offered(s) = Pages!ProposalItem(s)
      BY <2>1, Zenon DEF Pages!Offered
    <3> QED
      BY <3>1 DEF Pages!ProposalItem, Pages!needsName, Pages!acceptableInBulk
  <2>3. \A op : op \in Pages!Accepted(s) <=>
          \/ op = "accept" /\ s.form # "cleared" /\ (s.named \/ s.form = "renamed" \/ s.toType # "action")
          \/ op = "discard"
          \/ op = "acceptHigh" /\ s.high /\ ~s.duplicate /\ ~(s.type = "action" /\ ~s.named)
    <3>1. Pages!Accepted(s) = Pages!acceptOne(s) \cup Pages!acceptHigh(s) \cup Pages!discard(s)
      BY <2>1, Zenon DEF Pages!Accepted
    <3> QED
      BY <2>1, <3>1 DEF Pages!acceptOne, Pages!acceptHigh, Pages!discard, Pages!LabelSchema
  <2>4. \A op : op \in Pages!Explained(s) <=> op = "accept" /\ s.form = "cleared"
    BY <2>1 DEF Pages!Explained
  <2> QED
    BY <2>1, <2>2, <2>3, <2>4
<1>2. CASE s \in Pages!Arrows
  <2>1. /\ s.kind = "arrow" /\ s.from \in {"pending", "accepted", "removed"}
        /\ s.to \in {"pending", "accepted", "removed"}
    BY <1>2 DEF Pages!Arrows
  <2>2. \A op : op \in Pages!Offered(s) <=>
          \/ op = "acceptArrow" /\ s.from # "pending" /\ s.to # "pending"
          \/ op = "discardArrow"
    <3>1. Pages!Offered(s) = Pages!TransitionItem(s)
      BY <2>1, Zenon DEF Pages!Offered
    <3> QED
      BY <3>1 DEF Pages!TransitionItem
  <2>3. \A op : op \in Pages!Accepted(s) <=>
          \/ op = "acceptArrow" /\ s.from = "accepted" /\ s.to = "accepted"
          \/ op = "discardArrow"
    <3>1. Pages!Accepted(s) = Pages!acceptTransition(s) \cup Pages!discard(s)
      BY <2>1, Zenon DEF Pages!Accepted
    <3> QED
      BY <2>1, <3>1 DEF Pages!acceptTransition, Pages!discard
  <2>4. \A op : op \in Pages!Explained(s) <=> op = "acceptArrow" /\ (s.from = "removed" \/ s.to = "removed")
    BY <2>1 DEF Pages!Explained
  <2> QED
    BY <2>1, <2>2, <2>3, <2>4
<1> QED
  BY <1>1, <1>2

-----------------------------------------------------------------------------
(* The specification *)

\* The invariant of each part, where that part runs.
PartsInv ==
  /\ part = "schedule" => ScheduleInv
  /\ part = "decisions" => DecisionsInv
  /\ part = "accounts" => AccountsInv
  /\ part = "health" => HealthInv
  /\ part = "deploy" => DeployInv
  /\ part = "images" => StorageInv
  /\ part = "mining" => MiningInv
  /\ part = "exports" => ExportsInv
  /\ part = "analysis" => AnalysisInv
  /\ part = "votes" => VotesInv
  /\ part = "socket" => SocketInv
  /\ part = "watch" => Watch!TypeOK
  /\ part = "zones" => ZonesInv
  /\ part = "camera" => View!TypeOK
  /\ part = "form" => FormInv
  /\ part = "editor" => EditorInv
  /\ part = "cache" => EventsInv
  /\ part = "pointers" => PointersInv

\* A behaviour starts as its part does.
LEMMA PartsInit == Init => PartsInv
<1> SUFFICES ASSUME Init PROVE PartsInv
  OBVIOUS
<1>1. part = "schedule" => Schedule!Init
  BY DEF Init
<1>2. part = "decisions" => Duplicates!Init
  BY DEF Init
<1>3. part = "accounts" => Login!Init
  BY DEF Init
<1>4. part = "health" => Heartbeat!Init
  BY DEF Init
<1>5. part = "deploy" => Operations!Init
  BY DEF Init
<1>6. part = "images" => Storage!Init
  BY DEF Init
<1>7. part = "mining" => Worker!Init
  BY DEF Init
<1>8. part = "exports" => Files!Init
  BY DEF Init
<1>9. part = "analysis" => Analysis!Init
  BY DEF Init
<1>10. part = "votes" => Button!Init
  BY DEF Init
<1>11. part = "socket" => Socket!Init
  BY DEF Init
<1>12. part = "watch" => Watch!Init
  BY DEF Init
<1>13. part = "zones" => Drawing!Init
  BY DEF Init
<1>14. part = "camera" => View!Init
  BY DEF Init
<1>15. part = "form" => Form!Init
  BY DEF Init
<1>16. part = "editor" => Editor!Init
  BY DEF Init
<1>17. part = "cache" => Events!Init
  BY DEF Init
<1>18. part = "pointers" => Pointers!Init
  BY DEF Init
<1>s. /\ part = "schedule" => ScheduleInv
      /\ part = "decisions" => DecisionsInv
      /\ part = "accounts" => AccountsInv
      /\ part = "health" => HealthInv
      /\ part = "deploy" => DeployInv
      /\ part = "images" => StorageInv
      /\ part = "mining" => MiningInv
      /\ part = "exports" => ExportsInv
      /\ part = "analysis" => AnalysisInv
  BY <1>1, <1>2, <1>3, <1>4, <1>5, <1>6, <1>7, <1>8, <1>9,
     ScheduleInit, DecisionsInit, AccountsInit, HealthInit, DeployInit, StorageInit, MiningInit, ExportsInit,
     AnalysisInit
<1>20. part = "votes" => VotesInv
  BY <1>10, VotesInit
<1>21. part = "socket" => SocketInv
  BY <1>11, SocketInit
<1>22. part = "watch" => Watch!TypeOK
  BY <1>12, WatchInit
<1>23. part = "zones" => ZonesInv
  BY <1>13, ZonesInit
<1>24. part = "camera" => View!TypeOK
  BY <1>14, CameraInit
<1>25. part = "form" => FormInv
  BY <1>15, FormInit
<1>26. part = "editor" => EditorInv
  BY <1>16, EditorInit
<1>27. part = "cache" => EventsInv
  BY <1>17, EventsInit
<1>28. part = "pointers" => PointersInv
  BY <1>18, PointersInit
<1> QED
  BY <1>s, <1>20, <1>21, <1>22, <1>23, <1>24, <1>25, <1>26, <1>27, <1>28 DEF PartsInv

\* The part stays, and its steps are the ones of the component.
LEMMA PartsMove ==
  ASSUME Next
  PROVE  /\ part' = part
         /\ part = "schedule" => Schedule!Next
         /\ part = "decisions" => Duplicates!Next
         /\ part = "accounts" => Login!Next
         /\ part = "health" => Heartbeat!Next
         /\ part = "deploy" => Operations!Next
         /\ part = "images" => Storage!Next
         /\ part = "mining" => Worker!Next
         /\ part = "exports" => Files!Next
         /\ part = "analysis" => Analysis!Next
         /\ part = "votes" => Button!Next
         /\ part = "socket" => Socket!Next
         /\ part = "watch" => Watch!Next
         /\ part = "zones" => Drawing!Next
         /\ part = "camera" => View!Next
         /\ part = "form" => Form!Next
         /\ part = "editor" => Editor!Next
         /\ part = "cache" => Events!Next
         /\ part = "pointers" => Pointers!Next
BY DEF Next, AnalysisNext, FilesNext, LoginNext, WorkerNext, HeartbeatNext, ScheduleNext, DuplicatesNext,
    StorageNext, OperationsNext, EventsNext, FormNext, ButtonNext, EditorNext, SocketNext, WatchNext,
    PointersNext, DrawingNext, ViewNext, DatesNext, ContentNext, VisionNext, RulesNext, PagesNext

\* A step that changes nothing keeps every invariant.
LEMMA PartsStutter ==
  ASSUME UNCHANGED all
  PROVE  /\ part' = part
         /\ ScheduleInv => ScheduleInv'
         /\ DecisionsInv => DecisionsInv'
         /\ AccountsInv => AccountsInv'
         /\ HealthInv => HealthInv'
         /\ DeployInv => DeployInv'
         /\ StorageInv => StorageInv'
         /\ MiningInv => MiningInv'
         /\ ExportsInv => ExportsInv'
         /\ AnalysisInv => AnalysisInv'
         /\ VotesInv => VotesInv'
         /\ SocketInv => SocketInv'
         /\ Watch!TypeOK => Watch!TypeOK'
         /\ ZonesInv => ZonesInv'
         /\ View!TypeOK => View!TypeOK'
         /\ FormInv => FormInv'
         /\ EditorInv => EditorInv'
         /\ EventsInv => EventsInv'
         /\ PointersInv => PointersInv'
<1>1. /\ part' = part /\ x1' = x1 /\ x2' = x2 /\ x3' = x3 /\ x4' = x4 /\ x5' = x5
      /\ x6' = x6 /\ x7' = x7 /\ x8' = x8 /\ x9' = x9 /\ x10' = x10
      /\ x11' = x11 /\ x12' = x12 /\ x13' = x13 /\ x14' = x14 /\ x15' = x15 /\ x16' = x16
  BY DEF all, from2, from3, from4, from5, from6, from7, from8, from9, from10, from11, from12, from16
<1>2. ScheduleInv => ScheduleInv'
  BY <1>1 DEF ScheduleInv, Schedule!TypeOK, Schedule!Schedules, Schedule!Off, Schedule!None,
     ReadsAreCurrent,
     Schedule!IsReading, Schedule!InStep
<1>3. DecisionsInv => DecisionsInv'
  BY <1>1 DEF DecisionsInv, Duplicates!TypeOK, Duplicates!Pair, Decides, Duplicates!ConfirmedIsApplied
<1>4. AccountsInv => AccountsInv'
  BY <1>1 DEF AccountsInv, Login!TypeOK, Login!Keys, CountsHold, Coming
<1>5. HealthInv => HealthInv'
  BY <1>1 DEF HealthInv, Heartbeat!TypeOK, Heartbeat!Ttl, HeartbeatLasts, HeartbeatsEnd
<1>6. DeployInv => DeployInv'
  BY <1>1 DEF DeployInv, Operations!TypeOK, Operations!Copy, Operations!Keys, Operations!Actions,
     Operations!Up, Operations!None, Operations!Migrations, RunsFit, OneCopyEach, Past, LockCounts,
     AliveRuns, RestoresHold, CopiesHold, Operations!DestroyedIsStored, Stored
<1>7. StorageInv => StorageInv'
  <2>1. Storage!TypeOK => Storage!TypeOK'
    BY <1>1 DEF Storage!TypeOK, Storage!KeysOf, Storage!First, Storage!Steps, Storage!Ended, Storage!Job,
       Storage!JobSteps, Storage!Whys
  <2>2. ASSUME NEW u \in Uploads PROVE UploadSteps(u) => UploadSteps(u)'
    BY <1>1 DEF UploadSteps, Ids, Storage!At, Storage!Slipped, Storage!First, Storage!IsNew, Storage!KeysOf,
       Before, Landed
  <2>3. ASSUME NEW u \in Uploads PROVE UploadObjects(u) => UploadObjects(u)'
    BY <1>1 DEF UploadObjects, Ids, Storage!Slipped, Storage!KeysOf, Storage!At, Before, Pending
  <2>4. ASSUME NEW u \in Uploads PROVE UploadDocuments(u) => UploadDocuments(u)'
    BY <1>1 DEF UploadDocuments, Ids, Storage!IsNew, Storage!At, Storage!Slipped
  <2>5. FirstHolds => FirstHolds'
    BY <1>1 DEF FirstHolds, Storage!First, Storage!KeysOf
  <2>6. DeletionHolds => DeletionHolds'
    BY <1>1 DEF DeletionHolds, Storage!Job, Overlaps, Storage!Slipped, IsOver, Storage!Ended,
       Storage!KeysOf,
       IsLate, Pending, Ids
  <2> QED
    BY <1>1, <2>1, <2>2, <2>3, <2>4, <2>5, <2>6 DEF StorageInv, UploadHolds, Storage!KeysOf
<1>8. MiningInv => MiningInv'
  BY <1>1 DEF MiningInv, MiningTypes, MiningJobs, Summaries, Outcomes, Techniques, Results, Sections,
     MiningAttempts, Matched, Works
<1>9. ExportsInv => ExportsInv'
  BY <1>1 DEF ExportsInv, Files!TypeOK, Files!Exports, Files!Export, Files!Active, Files!Finished,
     Files!Unborn, Files!Generating, Files!Free, ExportHolds, Files!Is, Files!IsFinished,
     Files!IsActive, WorkersHold
<1>10. AnalysisInv => AnalysisInv'
  <2>1. Analysis!TypeOK => Analysis!TypeOK'
    BY <1>1 DEF Analysis!TypeOK, Analysis!DataVersion, Analysis!Runs, Analysis!Run, Analysis!Active,
       Analysis!Finished, Analysis!Unborn, Analysis!Deleted, Analysis!Pruning, Analysis!Request,
       Analysis!Idle
  <2>2. ASSUME NEW i \in Analysis!Runs PROVE RunHolds(i) => RunHolds(i)'
    BY <1>1 DEF RunHolds, Analysis!Unborn, Analysis!IsActive, Analysis!Active, Analysis!Readable, Pruned,
       Analysis!Runs, Analysis!Finished
  <2>3. Analysis!Old' = Analysis!Old
    BY <1>1 DEF Analysis!Old, Analysis!Runs, Analysis!IsFinished, Analysis!Finished
  <2>4. \A i : Passed(i)' <=> Passed(i)
    BY <2>3 DEF Passed
  <2>5. ASSUME NEW i \in Analysis!Runs PROVE PruneHolds(i) => PruneHolds(i)'
    BY <1>1, <2>4 DEF PruneHolds, Analysis!Finished, Analysis!Runs, Doomed, Analysis!Deleted
  <2>6. ASSUME NEW r \in Two PROVE RequestHolds(x6[r]) => RequestHolds(x6[r])'
    BY <1>1 DEF RequestHolds, Analysis!Unborn
  <2> QED
    BY <2>1, <2>2, <2>5, <2>6 DEF AnalysisInv, Analysis!Runs
<1>11. VotesInv => VotesInv'
  BY <1>1 DEF VotesInv, Button!TypeOK, Button!States
<1>12. SocketInv => SocketInv'
  BY <1>1 DEF SocketInv, Socket!TypeOK, Socket!Ages, Socket!Valid, Socket!Due, Socket!Shared,
     Socket!Online, Socket!Expired
<1>13. Watch!TypeOK => Watch!TypeOK'
  BY <1>1 DEF Watch!TypeOK, Watch!Statuses
<1>14. ZonesInv => ZonesInv'
  BY <1>1 DEF ZonesInv, Drawing!TypeOK, Drawing!Edges, Drawing!Points, FitsImage, IsInside,
     Drawing!BBoxSchema, Drawing!width
<1>15. View!TypeOK => View!TypeOK'
  BY <1>1 DEF View!TypeOK, View!Zooms
<1>16. FormInv => FormInv'
  BY <1>1 DEF FormInv, Form!TypeOK, Form!Copies, Form!Revs, Form!Texts, Form!First, RevsCounted, RevsShown,
     TextsWritten, WrittenTexts, Form!Foreign, FormClosed, TypedHolds
<1>17. EditorInv => EditorInv'
  BY <1>1 DEF EditorInv, Editor!TypeOK, Editor!Copies, Editor!Revs, Editor!Values, Editor!Nothing,
     Editor!Entries, SendsCounted, Unsent, Unsure, PatchesHeld, Editor!NoPatch, Editor!NoAnswer,
     Editor!Junk, TabKnows
<1>18. EventsInv => EventsInv'
  BY <1>1 DEF EventsInv, Events!TypeOK, Events!Revs, Events!Event, Events!None, Events!Queries, Events!Answer,
     EditsCounted, Unborn, EventsTell, Tells, OldRevs, TextKept, TextCatchesUp, EditComes, ThreadKept,
     ThreadCatchesUp, CreationComes, Events!DeletionComes
<1>19. PointersInv => PointersInv'
  BY <1>1 DEF PointersInv, Pointers!TypeOK, Pointers!None, TimerIsOfPointer, Pointers!NoTimer, LastIsPointer,
     Pointers!StopIsShown, OnWire, Came, Pointers!Window, Gap
<1>s. /\ ScheduleInv => ScheduleInv'
      /\ DecisionsInv => DecisionsInv'
      /\ AccountsInv => AccountsInv'
      /\ HealthInv => HealthInv'
      /\ DeployInv => DeployInv'
      /\ StorageInv => StorageInv'
      /\ MiningInv => MiningInv'
      /\ ExportsInv => ExportsInv'
      /\ AnalysisInv => AnalysisInv'
  BY <1>2, <1>3, <1>4, <1>5, <1>6, <1>7, <1>8, <1>9, <1>10
<1> QED
  BY <1>1, <1>s, <1>11, <1>12, <1>13, <1>14, <1>15, <1>16, <1>17, <1>18, <1>19

\* The invariant is kept, by the steps of each part.
LEMMA PartsSteps == PartsInv /\ [Next]_all => PartsInv'
<1> SUFFICES ASSUME PartsInv, [Next]_all PROVE PartsInv'
  OBVIOUS
<1>1. CASE Next
  <2>1. part' = part
    BY <1>1, PartsMove
  <2>2. /\ part = "schedule" => ScheduleInv'
        /\ part = "decisions" => DecisionsInv'
        /\ part = "accounts" => AccountsInv'
        /\ part = "health" => HealthInv'
        /\ part = "deploy" => DeployInv'
        /\ part = "images" => StorageInv'
        /\ part = "mining" => MiningInv'
        /\ part = "exports" => ExportsInv'
        /\ part = "analysis" => AnalysisInv'
    BY <1>1, PartsMove, ScheduleSteps, DecisionsSteps, AccountsSteps, HealthSteps, DeploySteps,
       StorageSteps, MiningSteps, ExportsSteps, AnalysisSteps
    DEF PartsInv
  <2>3. part = "votes" => VotesInv'
    BY <1>1, PartsMove, VotesSteps DEF PartsInv
  <2>4. part = "socket" => SocketInv'
    BY <1>1, PartsMove, SocketSteps DEF PartsInv
  <2>5. part = "watch" => Watch!TypeOK'
    BY <1>1, PartsMove, WatchSteps DEF PartsInv
  <2>6. part = "zones" => ZonesInv'
    BY <1>1, PartsMove, ZonesSteps DEF PartsInv
  <2>7. part = "camera" => View!TypeOK'
    BY <1>1, PartsMove, CameraSteps DEF PartsInv
  <2>8. part = "form" => FormInv'
    BY <1>1, PartsMove, FormSteps DEF PartsInv
  <2>9. part = "editor" => EditorInv'
    BY <1>1, PartsMove, EditorSteps DEF PartsInv
  <2>10. part = "cache" => EventsInv'
    BY <1>1, PartsMove, EventsSteps DEF PartsInv
  <2>11. part = "pointers" => PointersInv'
    BY <1>1, PartsMove, PointersSteps DEF PartsInv
  <2> QED
    BY <2>1, <2>2, <2>3, <2>4, <2>5, <2>6, <2>7, <2>8, <2>9, <2>10, <2>11 DEF PartsInv
<1>2. CASE UNCHANGED all
  BY <1>2, PartsStutter DEF PartsInv
<1> QED
  BY <1>1, <1>2

\* Each part keeps its invariant for ever.
THEOREM SpecParts == Spec => []PartsInv
<1> QED
  BY PartsInit, PartsSteps, PTL DEF Spec

\* The results that ended well are there: those of an analysis that is done, a live file, the
\* input of a job, the stages of a mining and its summary; and a file export is blocked only
\* after a death, a failed enqueueing, or a worker that could not write how it ended
\* (export-files.ts:82, export-files.ts:110, routes.ts:133).
THEOREM SpecResults == Spec => []ResultsAreThere
<1>1. PartsInv => ResultsAreThere
  BY AnalysisHolds, ExportsHold, MiningHolds DEF PartsInv, ResultsAreThere
<1> QED
  BY SpecParts, <1>1, PTL

\* Two stores that no transaction joins agree, but for the exceptions each module names.
THEOREM SpecStores == Spec => []StoresAgree
<1>1. PartsInv => StoresAgree
  <2>1. ScheduleInv => Schedule!InStep
    BY DEF ScheduleInv
  <2>2. DecisionsInv => Duplicates!ConfirmedIsApplied
    BY DEF DecisionsInv
  <2> QED
    BY <2>1, <2>2, AccountsHold, HealthHolds, StorageAgrees DEF PartsInv, StoresAgree
<1> QED
  BY SpecParts, <1>1, PTL

\* Whatever deployments overlap when their lock expires, no more of them migrate at once than
\* locks expired, a copy is restored once unless it was cut, and what is destroyed was stored.
THEOREM SpecDeployments == Spec => []DeploymentsHold
<1>1. PartsInv => DeploymentsHold
  BY DeployHolds DEF PartsInv, DeploymentsHold
<1> QED
  BY SpecParts, <1>1, PTL

\* What ended stays as it ended, whoever reports again, and pruning deletes only what is older
\* than the last KeepRuns finished runs.
THEOREM SpecFinishedStays == Spec => FinishedStays
<1> DEFINE Stays == /\ part = "analysis" => Analysis!FinishedStays /\ Analysis!KeepsRecent
                    /\ part = "exports" => Files!FinishedStays
<1>1. PartsInv /\ [Next]_all => [Stays]_all
  <2> SUFFICES ASSUME PartsInv, Next PROVE Stays
    OBVIOUS
  <2>1. part = "analysis" => Analysis!FinishedStays /\ Analysis!KeepsRecent
    BY PartsMove, AnalysisSteps DEF PartsInv
  <2>2. part = "exports" => Files!FinishedStays
    BY PartsMove, ExportsSteps DEF PartsInv, Files!FinishedStays
  <2> QED
    BY <2>1, <2>2
<1> HIDE DEF Stays
<1>2. Spec => [][Stays]_all
  BY SpecParts, <1>1, PTL DEF Spec
<1> QED
  BY <1>2 DEF Stays, FinishedStays

\* The types of each component, whose steps never leave them.
THEOREM SpecTypes == Spec => []TypeOK
<1>1. ASSUME PartsInv PROVE TypeOK
  <2>1. part = "analysis" => Analysis!TypeOK
    BY <1>1 DEF PartsInv, AnalysisInv
  <2>2. part = "exports" => Files!TypeOK
    BY <1>1 DEF PartsInv, ExportsInv
  <2>3. part = "accounts" => Login!TypeOK
    BY <1>1 DEF PartsInv, AccountsInv
  <2>4. part = "mining" => Worker!TypeOK
    BY <1>1, MiningHolds DEF PartsInv
  <2>5. part = "health" => Heartbeat!TypeOK
    BY <1>1 DEF PartsInv, HealthInv
  <2>6. part = "schedule" => Schedule!TypeOK
    BY <1>1 DEF PartsInv, ScheduleInv
  <2>7. part = "decisions" => Duplicates!TypeOK
    BY <1>1 DEF PartsInv, DecisionsInv
  <2>8. part = "images" => Storage!TypeOK
    BY <1>1 DEF PartsInv, StorageInv
  <2>9. part = "deploy" => Operations!TypeOK
    BY <1>1 DEF PartsInv, DeployInv
  <2>10. part = "cache" => Events!TypeOK
    BY <1>1 DEF PartsInv, EventsInv
  <2>11. part = "form" => Form!TypeOK
    BY <1>1 DEF PartsInv, FormInv
  <2>12. part = "votes" => Button!TypeOK
    BY <1>1 DEF PartsInv, VotesInv
  <2>13. part = "editor" => Editor!TypeOK
    BY <1>1 DEF PartsInv, EditorInv
  <2>14. part = "socket" => Socket!TypeOK
    BY <1>1 DEF PartsInv, SocketInv
  <2>15. part = "watch" => Watch!TypeOK
    BY <1>1 DEF PartsInv
  <2>16. part = "pointers" => Pointers!TypeOK
    BY <1>1 DEF PartsInv, PointersInv
  <2>17. part = "zones" => Drawing!TypeOK
    BY <1>1 DEF PartsInv, ZonesInv
  <2>18. part = "camera" => View!TypeOK
    BY <1>1 DEF PartsInv
  <2> QED
    BY <2>1, <2>2, <2>3, <2>4, <2>5, <2>6, <2>7, <2>8, <2>9, <2>10, <2>11, <2>12, <2>13, <2>14, <2>15,
       <2>16, <2>17, <2>18 DEF TypeOK
<1> QED
  BY SpecParts, <1>1, PTL

\* What a tab shows, once nothing is on its way, is what the server has or what its user
\* typed, but for the body of an error in the editor of activities, whatever events are lost
\* or late, readings cross them and PATCHes fail; a zone and the camera stay in the image, and
\* a cursor is where it stopped.
THEOREM SpecTabs == Spec => []TabsConverge
<1>1. ASSUME PartsInv PROVE TabsConverge
  <2>1. part = "cache" => Events!TextConverges /\ Events!ThreadConverges
    BY <1>1, EventsHolds DEF PartsInv
  <2>2. part = "form" => Form!NothingReplacedUnseen /\ Form!TypedIsKept
    BY <1>1, FormHolds DEF PartsInv
  <2>3. part = "votes" => Button!ShowsVotes
    BY <1>1, VotesHold DEF PartsInv
  <2>4. part = "editor" => Editor!TypedIsShown
    BY <1>1, EditorHolds DEF PartsInv
  <2>5. part = "pointers" => Pointers!StopIsShown
    BY <1>1 DEF PartsInv, PointersInv
  <2>6. part = "zones" => Drawing!ZoneIsInside
    BY <1>1, ZonesHold DEF PartsInv
  <2>7. part = "camera" => View!SomethingShows
    BY <1>1, CameraHolds DEF PartsInv
  <2> QED
    BY <2>1, <2>2, <2>3, <2>4, <2>5, <2>6, <2>7 DEF TabsConverge
<1> QED
  BY SpecParts, <1>1, PTL

\* No step blames another administrator of a stale edit who saved nothing, closes the socket
\* of a tab that keeps its session unless a renewal ended during its handshake, drops a
\* cursor of a steady sender, or moves the point under the pointer.
THEOREM SpecFair == Spec => TabsAreFair
<1> DEFINE Fair == /\ part = "editor" => Editor!ConflictIsReal
                   /\ part = "socket" => Socket!SignedIsNotDropped
                   /\ part = "pointers" => Pointers!NothingDropped
                   /\ part = "camera" => View!AnchorStays
<1>1. PartsInv /\ [Next]_all => [Fair]_all
  <2> SUFFICES ASSUME PartsInv, Next PROVE Fair
    OBVIOUS
  <2>1. part = "editor" => Editor!ConflictIsReal
    BY PartsMove, EditorSteps DEF PartsInv
  <2>2. part = "socket" => Socket!SignedIsNotDropped
    BY PartsMove, SocketSteps DEF PartsInv
  <2>3. part = "pointers" => Pointers!NothingDropped
    BY PartsMove, PointersSteps DEF PartsInv
  <2>4. part = "camera" => View!AnchorStays
    BY PartsMove, CameraSteps DEF PartsInv
  <2> QED
    BY <2>1, <2>2, <2>3, <2>4
<1> HIDE DEF Fair
<1>2. Spec => [][Fair]_all
  BY SpecParts, <1>1, PTL DEF Spec
<1> QED
  BY <1>2 DEF Fair, TabsAreFair

\* The input of a computation is one of its inputs, and stays.
InputsRead ==
  /\ part = "dashboard" => x1 \in Dates!Clock \cup Dates!Content
  /\ part = "content" => x1 \in Content!Inputs
  /\ part = "reading" =>
       x1 \in Vision!BoxInputs \cup Vision!ShapeInputs \cup Vision!LineInputs \cup Vision!ReviewInputs
  /\ part = "rules" =>
       x1 \in Rules!RuleInputs \cup Rules!PairInputs \cup Rules!TermInputs \cup Rules!InsightInputs
  /\ part = "offers" =>
       x1 \in Pages!Details \cup Pages!Diagrams \cup Pages!Proposals \cup Pages!Arrows \cup Pages!Members

\* A clock or the requirements of a project: what is computed of them agrees.
LEMMA DashboardAgrees ==
  ASSUME x1 \in Dates!Clock \cup Dates!Content
  PROVE  Dates!RangeIsOfDays /\ Dates!VotesCountOnce /\ Dates!TopIsOfList /\ Dates!CountsAgree
<1>1. CASE x1 \in Dates!Clock
  <2>1. x1.kind = "clock"
    BY <1>1 DEF Dates!Clock
  <2>2. Dates!VotesCountOnce /\ Dates!TopIsOfList /\ Dates!CountsAgree
    BY <2>1, Zenon DEF Dates!VotesCountOnce, Dates!TopIsOfList, Dates!CountsAgree
  <2> QED
    BY <1>1, <2>2, RangeHolds
<1>2. CASE x1 \in Dates!Content
  <2>1. x1.kind = "content" /\ Listed \in Nat
    BY <1>2, Computations DEF Dates!Content
  <2>2. Dates!RangeIsOfDays
    BY <2>1, Zenon DEF Dates!RangeIsOfDays
  <2> QED
    BY <1>2, <2>1, <2>2, ActivityVotesHold, TopsHold, SameCounts
<1> QED
  BY <1>1, <1>2

\* What was read of a photo, and of the answer of the model about it.
LEMMA ReadingAgrees ==
  ASSUME x1 \in Vision!BoxInputs \cup Vision!ShapeInputs \cup Vision!LineInputs \cup Vision!ReviewInputs
  PROVE  Vision!BoxInside /\ Vision!DiscsAreOne /\ Vision!OneDirection /\ Vision!WarnedOfNameless
<1>1. /\ x1 \in Vision!BoxInputs => x1.kind = "box"
      /\ x1 \in Vision!ShapeInputs => x1.kind = "shapes"
      /\ x1 \in Vision!LineInputs => x1.kind = "line"
      /\ x1 \in Vision!ReviewInputs => x1.kind = "review"
  BY DEF Vision!BoxInputs, Vision!ShapeInputs, Vision!LineInputs, Vision!ReviewInputs
<1>2. /\ x1.kind # "box" => Vision!BoxInside
      /\ x1.kind # "shapes" => Vision!DiscsAreOne
      /\ x1.kind # "line" => Vision!OneDirection
      /\ x1.kind # "review" => Vision!WarnedOfNameless
  BY Zenon DEF Vision!BoxInside, Vision!DiscsAreOne, Vision!OneDirection, Vision!WarnedOfNameless
<1> QED
  BY <1>1, <1>2, BoxIsInside, DiscsAreOneHolds, OneHead, WarnedHolds

\* Rules, pairs, terms and insights.
LEMMA RulesKeep ==
  ASSUME x1 \in Rules!RuleInputs \cup Rules!PairInputs \cup Rules!TermInputs \cup Rules!InsightInputs
  PROVE  /\ Rules!DroppedIsCovered /\ Rules!BlocksFindAll
         /\ Rules!AmbiguousIsCapped /\ Rules!InsightsAreSupported
<1>1. /\ x1 \in Rules!RuleInputs => x1.kind = "rules"
      /\ x1 \in Rules!PairInputs => x1.kind = "pairs"
      /\ x1 \in Rules!TermInputs => x1.kind = "terms"
      /\ x1 \in Rules!InsightInputs => x1.kind = "insights"
  BY DEF Rules!RuleInputs, Rules!PairInputs, Rules!TermInputs, Rules!InsightInputs
<1>2. /\ x1.kind # "pairs" => Rules!BlocksFindAll
      /\ x1.kind # "terms" => Rules!AmbiguousIsCapped
      /\ x1.kind # "insights" => Rules!InsightsAreSupported
  BY Zenon DEF Rules!BlocksFindAll, Rules!AmbiguousIsCapped, Rules!InsightsAreSupported
<1> QED
  BY <1>1, <1>2, DroppedHasCover, BlocksFind, TermsAreCapped, InsightsHold

\* What a page shows, of whatever kind.
LEMMA PagesAgree ==
  ASSUME x1 \in Pages!Details \cup Pages!Diagrams \cup Pages!Proposals \cup Pages!Arrows \cup Pages!Members
  PROVE  Pages!OfferedIsAccepted /\ Pages!AcceptedIsOffered
<1>1. /\ Pages!Offered(x1) \ Pages!Explained(x1) \subseteq Pages!Accepted(x1)
      /\ Pages!Accepted(x1) \ Pages!Elsewhere(x1) \subseteq Pages!Offered(x1)
  BY DetailPages, DiagramPages, ProposalPages, MemberPages
<1> QED
  BY <1>1, Zenon DEF Pages!OfferedIsAccepted, Pages!AcceptedIsOffered

\* What two places compute apart agrees: the range of days and their labels, the votes, the
\* list and the counts of a dashboard of any number of requirements, the files of an archive
\* and their paths, the boxes of an image of any width, the discs, lines and warnings read of
\* it, the rules, duplicates, scores and insights that mining finds, and the buttons of the
\* pages with what the API accepts.
THEOREM SpecRules == Spec => []RulesAgree
<1>1. Init => InputsRead
  BY DEF Init, InputsRead, Dates!Init, Content!Init, Vision!Init, Rules!Init, Pages!Init
<1>2. InputsRead /\ [Next]_all => InputsRead'
  <2> SUFFICES ASSUME InputsRead, [Next]_all PROVE InputsRead'
    OBVIOUS
  <2>1. part' = part /\ (part \in {"dashboard", "content", "reading", "rules", "offers"} => x1' = x1)
    <3>1. CASE UNCHANGED all
      BY <3>1 DEF all, from2
    <3>2. CASE Next
      BY <3>2 DEF Next, AnalysisNext, FilesNext, LoginNext, WorkerNext, HeartbeatNext, ScheduleNext,
         DuplicatesNext, StorageNext, OperationsNext, EventsNext, FormNext, ButtonNext, EditorNext,
         SocketNext, WatchNext, PointersNext, DrawingNext, ViewNext, DatesNext, ContentNext, VisionNext,
         RulesNext, PagesNext, Dates!Next, Content!Next, Vision!Next, Rules!Next, Pages!Next
    <3> QED
      BY <3>1, <3>2
  <2> QED
    BY <2>1 DEF InputsRead
<1>3. ASSUME InputsRead PROVE RulesAgree
  <2>1. part = "content" => Content!PathsDiffer /\ Content!FilesAreActivities
    BY <1>3, PathsHold, FilesHold DEF InputsRead
  <2> QED
    BY <1>3, <2>1, DashboardAgrees, ReadingAgrees, RulesKeep, PagesAgree DEF InputsRead, RulesAgree
<1> QED
  BY <1>1, <1>2, <1>3, PTL DEF Spec
=============================================================================
