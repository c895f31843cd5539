--------------------------- MODULE Realtime_proofs ---------------------------
(***************************************************************************)
(* Proofs about the rooms and the presence of a project, for any users,    *)
(* sockets, versions and bounds.                                           *)
(***************************************************************************)
EXTENDS Realtime, TLAPS

\* A socket that is closed is in no room and records none; only its disconnect handler
\* still has fields to remove.
Closed ==
  \A s \in Sockets :
    /\ conn[s] = "closed" => inRoom[s] = {} /\ joined[s] = {}
    /\ conn[s] = "open" => quitting[s] = {}

\* The rooms of a socket are among those it recorded.
Recorded == \A s \in Sockets : inRoom[s] \subseteq joined[s]

\* What a sweep deletes went without heartbeat.
Aged ==
  /\ \A p \in Pairs : entry[p] = "stale" => p \in lapsed
  /\ sweep \subseteq lapsed

\* An eviction is of sockets of its user or of the project, and is over before the next.
Evictions ==
  /\ \A t \in Targets :
       /\ evicting[t].stage # "busy" => evicting[t].sockets = {} /\ evicting[t].pairs = {}
       /\ \A s \in evicting[t].sockets : t \in {Owner[s], Project}
       /\ \A s \in Sockets, v \in Versions :
            <<s, v>> \in evicting[t].pairs => t \in {Owner[s], Project}
  /\ alive => evicting[Project].stage = "none"

\* A socket in a diagram room hears the project, or is leaving the room.
Heard ==
  \A s \in Sockets : \A v \in inRoom[s] :
    s \in inProject \/ \E t \in Targets : <<s, v>> \in evicting[t].pairs

\* A join allowed to who has no access any more is remembered.
Allowed ==
  \A s \in Sockets, v \in Versions :
    joining[<<s, v>>] = "allowed" /\ conn[s] = "open" =>
      HasAccess(Owner[s]) \/ <<s, v>> \in late

Eviction ==
  [stage : {"none", "due", "busy"}, sockets : SUBSET Sockets, pairs : SUBSET Pairs]

\* The inductive invariant.
IInv ==
  /\ TypeOK /\ Closed /\ Recorded /\ Aged /\ Evictions /\ Heard /\ Allowed
  /\ OutsidersAreEvicted /\ InRoomIsShown

-----------------------------------------------------------------------------
(* The steps *)

\* A join is allowed to who has access.
LEMMA AuthorizeKeeps ==
    ASSUME IInv, NEW s \in Sockets, NEW v \in Versions, Authorize(s, v)
    PROVE  IInv'
<1>0. /\ TypeOK /\ Closed /\ Recorded /\ Aged /\ Evictions /\ Heard /\ Allowed
      /\ OutsidersAreEvicted /\ InRoomIsShown
  BY DEF IInv
<1>t. /\ Project \in Targets /\ \A z \in Sockets : Owner[z] \in Targets
      /\ \A z \in Sockets : \A w \in inRoom[z] : w \in Versions /\ <<z, w>> \in Pairs
  BY <1>0, RealtimeAssumption DEF TypeOK, Targets, Pairs
<1>1. /\ role' = role /\ alive' = alive /\ changes' = changes /\ shows' = shows
      /\ conn' = conn /\ inRoom' = inRoom /\ inProject' = inProject /\ joined' = joined
      /\ leaving' = leaving /\ quitting' = quitting /\ entry' = entry /\ beating' = beating
      /\ sweep' = sweep /\ evicting' = evicting /\ lapsed' = lapsed /\ late' = late
  BY DEF Authorize, members, rooms, hash
<1>2. /\ \A p \in Pairs : joining'[p] = IF p = <<s, v>> THEN "allowed" ELSE joining[p]
      /\ HasAccess(Owner[s])
  BY <1>0 DEF Authorize, CanSee, HasAccess, TypeOK, Pairs
<1>3. TypeOK'
  BY <1>0, <1>1 DEF TypeOK, Authorize, Without, With, Field, Pairs
<1>4. Allowed'
  BY <1>0, <1>1, <1>2 DEF Allowed, HasAccess, Pairs
<1>5. InRoomIsShown'
  BY <1>0, <1>t, <1>1, <1>2 DEF InRoomIsShown, Field, Pairs
<1>6. Closed' /\ Recorded' /\ Aged' /\ Evictions'
      /\ Heard' /\ OutsidersAreEvicted'
  BY <1>0, <1>1
     DEF Closed, Recorded, Aged, Evictions, Heard, OutsidersAreEvicted, HasAccess,
         BeingEvicted
<1>7. QED
  BY <1>3, <1>4, <1>5, <1>6 DEF IInv

\* The socket enters: it was allowed with access, or is remembered.
LEMMA EnterKeeps ==
    ASSUME IInv, NEW s \in Sockets, NEW v \in Versions, Enter(s, v)
    PROVE  IInv'
<1>0. /\ TypeOK /\ Closed /\ Recorded /\ Aged /\ Evictions /\ Heard /\ Allowed
      /\ OutsidersAreEvicted /\ InRoomIsShown
  BY DEF IInv
<1>t. /\ Project \in Targets /\ \A z \in Sockets : Owner[z] \in Targets
      /\ \A z \in Sockets : \A w \in inRoom[z] : w \in Versions /\ <<z, w>> \in Pairs
  BY <1>0, RealtimeAssumption DEF TypeOK, Targets, Pairs
<1>1. /\ role' = role /\ alive' = alive /\ changes' = changes /\ shows' = shows
      /\ conn' = conn /\ leaving' = leaving /\ quitting' = quitting /\ entry' = entry
      /\ beating' = beating /\ sweep' = sweep /\ evicting' = evicting /\ lapsed' = lapsed
      /\ late' = late
  BY DEF Enter, members, rooms, hash
<1>2. /\ \A p \in Pairs : joining'[p] = IF p = <<s, v>> THEN "entered" ELSE joining[p]
      /\ \A z \in Sockets : z # s \/ conn[s] = "closed" =>
           inRoom'[z] = inRoom[z] /\ joined'[z] = joined[z]
      /\ conn[s] = "open" => /\ inRoom'[s] = inRoom[s] \cup {v}
                             /\ joined'[s] = joined[s] \cup {v}
                             /\ inProject' = inProject \cup {s}
      /\ conn[s] = "closed" => inProject' = inProject
      /\ conn[s] \in {"open", "closed"} /\ joining[<<s, v>>] = "allowed"
  BY <1>0 DEF Enter, rooms, TypeOK, Pairs
<1>3. TypeOK'
  <2>1. joining' \in [Pairs -> {"no", "allowed", "entered"}]
    BY <1>0 DEF Enter, TypeOK
  <2>2. /\ inRoom' \in [Sockets -> SUBSET Versions] /\ joined' \in [Sockets -> SUBSET Versions]
        /\ inProject' \subseteq Sockets
    BY <1>0 DEF Enter, TypeOK, rooms
  <2>3. QED
    BY <1>0, <1>1, <2>1, <2>2 DEF TypeOK
<1>4. Closed'
  BY <1>0, <1>t, <1>1, <1>2 DEF Closed
<1>5. Recorded'
  BY <1>0, <1>t, <1>1, <1>2 DEF Recorded
<1>6. Heard'
  BY <1>0, <1>t, <1>1, <1>2 DEF Heard
<1>7. Allowed'
  BY <1>0, <1>1, <1>2 DEF Allowed, HasAccess, Pairs
<1>8. OutsidersAreEvicted'
  <2> SUFFICES ASSUME NEW z \in Sockets, NEW w \in inRoom'[z], ~HasAccess(Owner[z])
               PROVE  BeingEvicted(z, w) \/ <<z, w>> \in late
    BY <1>1 DEF OutsidersAreEvicted, HasAccess, BeingEvicted
  <2>1. CASE w \in inRoom[z]
    BY <1>0, <2>1 DEF OutsidersAreEvicted
  <2>2. CASE w \notin inRoom[z]
    <3>1. z = s /\ w = v /\ conn[s] = "open"
      BY <1>2, <2>2
    <3>2. QED
      BY <1>0, <1>2, <3>1 DEF Allowed, HasAccess
  <2>3. QED
    BY <2>1, <2>2
<1>9. InRoomIsShown'
  BY <1>0, <1>t, <1>1, <1>2 DEF InRoomIsShown, Field, Pairs
<1>10. Aged' /\ Evictions'
  BY <1>0, <1>1 DEF Aged, Evictions
<1>11. QED
  BY <1>3, <1>4, <1>5, <1>6, <1>7, <1>8, <1>9, <1>10 DEF IInv

\* The field is written when the join ends.
LEMMA ShowKeeps ==
    ASSUME IInv, NEW s \in Sockets, NEW v \in Versions, Show(s, v)
    PROVE  IInv'
<1>0. /\ TypeOK /\ Closed /\ Recorded /\ Aged /\ Evictions /\ Heard /\ Allowed
      /\ OutsidersAreEvicted /\ InRoomIsShown
  BY DEF IInv
<1>t. /\ Project \in Targets /\ \A z \in Sockets : Owner[z] \in Targets
      /\ \A z \in Sockets : \A w \in inRoom[z] : w \in Versions /\ <<z, w>> \in Pairs
  BY <1>0, RealtimeAssumption DEF TypeOK, Targets, Pairs
<1>1. /\ role' = role /\ alive' = alive /\ changes' = changes /\ shows' = shows
      /\ conn' = conn /\ inRoom' = inRoom /\ inProject' = inProject /\ joined' = joined
      /\ leaving' = leaving /\ quitting' = quitting /\ beating' = beating /\ sweep' = sweep
      /\ evicting' = evicting /\ lapsed' = lapsed /\ late' = late
  BY DEF Show, members, rooms, hash
<1>2. /\ \A p \in Pairs : joining'[p] = IF p = <<s, v>> THEN "no" ELSE joining[p]
      /\ \A p \in Pairs : entry'[p] = IF p = <<s, v>> THEN "fresh" ELSE entry[p]
  BY <1>0 DEF Show, With, Field, TypeOK, Pairs
<1>3. TypeOK'
  BY <1>0, <1>1 DEF TypeOK, Show, Without, With, Field, Pairs
<1>4. Aged'
  BY <1>0, <1>t, <1>1, <1>2 DEF Aged
<1>5. Allowed'
  BY <1>0, <1>1, <1>2 DEF Allowed, HasAccess, Pairs
<1>6. InRoomIsShown'
  BY <1>0, <1>t, <1>1, <1>2 DEF InRoomIsShown, Field, Pairs
<1>7. Closed' /\ Recorded' /\ Evictions' /\ Heard'
      /\ OutsidersAreEvicted'
  BY <1>0, <1>1
     DEF Closed, Recorded, Evictions, Heard, OutsidersAreEvicted, HasAccess,
         BeingEvicted
<1>8. QED
  BY <1>3, <1>4, <1>5, <1>6, <1>7 DEF IInv

\* The room, the record and the field go together.
LEMMA LeaveKeeps ==
    ASSUME IInv, NEW s \in Sockets, NEW v \in Versions, Leave(s, v)
    PROVE  IInv'
<1>0. /\ TypeOK /\ Closed /\ Recorded /\ Aged /\ Evictions /\ Heard /\ Allowed
      /\ OutsidersAreEvicted /\ InRoomIsShown
  BY DEF IInv
<1>t. /\ Project \in Targets /\ \A z \in Sockets : Owner[z] \in Targets
      /\ \A z \in Sockets : \A w \in inRoom[z] : w \in Versions /\ <<z, w>> \in Pairs
  BY <1>0, RealtimeAssumption DEF TypeOK, Targets, Pairs
<1>1. /\ role' = role /\ alive' = alive /\ changes' = changes /\ shows' = shows
      /\ conn' = conn /\ joining' = joining /\ inProject' = inProject /\ quitting' = quitting
      /\ beating' = beating /\ sweep' = sweep /\ evicting' = evicting /\ lapsed' = lapsed
  BY DEF Leave, members, rooms, hash
<1>2. /\ \A z \in Sockets : z # s => inRoom'[z] = inRoom[z] /\ joined'[z] = joined[z]
      /\ inRoom'[s] = inRoom[s] \ {v} /\ joined'[s] = joined[s] \ {v}
      /\ \A p \in Pairs : entry'[p] = IF p = <<s, v>> THEN "none" ELSE entry[p]
      /\ \A p \in late : p # <<s, v>> => p \in late'
      /\ joining[<<s, v>>] = "allowed" => late' = late
  BY <1>0 DEF Leave, Without, Field, LateWithout, TypeOK, Pairs
<1>3. TypeOK'
  BY <1>0, <1>1 DEF TypeOK, Leave, LateWithout, Without, Field, Pairs
<1>4. Closed'
  BY <1>0, <1>t, <1>1, <1>2 DEF Closed
<1>5. Recorded'
  BY <1>0, <1>t, <1>1, <1>2 DEF Recorded
<1>6. Aged'
  BY <1>0, <1>t, <1>1, <1>2 DEF Aged
<1>7. Heard'
  BY <1>0, <1>t, <1>1, <1>2 DEF Heard
<1>8. Allowed'
  BY <1>0, <1>t, <1>1, <1>2 DEF Allowed, HasAccess
<1>9. OutsidersAreEvicted'
  BY <1>0, <1>t, <1>1, <1>2 DEF OutsidersAreEvicted, HasAccess, BeingEvicted
<1>10. InRoomIsShown'
  BY <1>0, <1>t, <1>1, <1>2 DEF InRoomIsShown, Field, Pairs
<1>11. Evictions'
  BY <1>0, <1>1 DEF Evictions
<1>12. QED
  BY <1>3, <1>4, <1>5, <1>6, <1>7, <1>8, <1>9, <1>10, <1>11 DEF IInv

\* The room of the project is left with the last diagram.
LEMMA LeaveProjectKeeps ==
    ASSUME IInv, NEW s \in Sockets, NEW v \in Versions, LeaveProject(s, v)
    PROVE  IInv'
<1>0. /\ TypeOK /\ Closed /\ Recorded /\ Aged /\ Evictions /\ Heard /\ Allowed
      /\ OutsidersAreEvicted /\ InRoomIsShown
  BY DEF IInv
<1>t. /\ Project \in Targets /\ \A z \in Sockets : Owner[z] \in Targets
      /\ \A z \in Sockets : \A w \in inRoom[z] : w \in Versions /\ <<z, w>> \in Pairs
  BY <1>0, RealtimeAssumption DEF TypeOK, Targets, Pairs
<1>1. /\ role' = role /\ alive' = alive /\ changes' = changes /\ shows' = shows
      /\ conn' = conn /\ joining' = joining /\ inRoom' = inRoom /\ joined' = joined
      /\ quitting' = quitting /\ entry' = entry /\ beating' = beating /\ sweep' = sweep
      /\ evicting' = evicting /\ lapsed' = lapsed /\ late' = late
  BY DEF LeaveProject, members, rooms, hash
<1>2. \A z \in Sockets : z \in inProject /\ z \notin inProject' => joined[z] = {}
  BY DEF LeaveProject, WatchesAnother
<1>3. TypeOK'
  BY <1>0, <1>1 DEF TypeOK, LeaveProject, Without, With, Field, Pairs
<1>4. Heard'
  BY <1>0, <1>1, <1>2 DEF Heard, Recorded
<1>5. Closed' /\ Recorded' /\ Aged' /\ Evictions'
      /\ Allowed' /\ OutsidersAreEvicted' /\ InRoomIsShown'
  BY <1>0, <1>1
     DEF Closed, Recorded, Aged, Evictions, Allowed, HasAccess, OutsidersAreEvicted,
         BeingEvicted, InRoomIsShown, Field
<1>6. QED
  BY <1>3, <1>4, <1>5 DEF IInv

\* The socket is out of every room.
LEMMA DisconnectKeeps ==
    ASSUME IInv, NEW s \in Sockets, Disconnect(s)
    PROVE  IInv'
<1>0. /\ TypeOK /\ Closed /\ Recorded /\ Aged /\ Evictions /\ Heard /\ Allowed
      /\ OutsidersAreEvicted /\ InRoomIsShown
  BY DEF IInv
<1>t. /\ Project \in Targets /\ \A z \in Sockets : Owner[z] \in Targets
      /\ \A z \in Sockets : \A w \in inRoom[z] : w \in Versions /\ <<z, w>> \in Pairs
  BY <1>0, RealtimeAssumption DEF TypeOK, Targets, Pairs
<1>1. /\ role' = role /\ alive' = alive /\ changes' = changes /\ shows' = shows
      /\ joining' = joining /\ entry' = entry /\ beating' = beating /\ sweep' = sweep
      /\ evicting' = evicting /\ lapsed' = lapsed
  BY DEF Disconnect, members, rooms, hash
<1>2. /\ \A z \in Sockets : z # s =>
           /\ conn'[z] = conn[z] /\ inRoom'[z] = inRoom[z]
           /\ quitting'[z] = quitting[z] /\ joined'[z] = joined[z]
           /\ (z \in inProject => z \in inProject')
      /\ conn'[s] = "closed" /\ inRoom'[s] = {} /\ joined'[s] = {}
      /\ \A p \in late : p[1] # s => p \in late'
  BY <1>0 DEF Disconnect, TypeOK
<1>3. TypeOK'
  BY <1>0, <1>1 DEF TypeOK, Disconnect, Without, With, Field, Pairs
<1>4. Closed'
  BY <1>0, <1>t, <1>1, <1>2 DEF Closed
<1>5. Recorded'
  BY <1>0, <1>t, <1>1, <1>2 DEF Recorded
<1>6. Heard'
  BY <1>0, <1>t, <1>1, <1>2 DEF Heard
<1>7. Allowed'
  BY <1>0, <1>t, <1>1, <1>2 DEF Allowed, HasAccess
<1>8. OutsidersAreEvicted'
  BY <1>0, <1>t, <1>1, <1>2 DEF OutsidersAreEvicted, HasAccess, BeingEvicted
<1>9. InRoomIsShown'
  BY <1>0, <1>t, <1>1, <1>2 DEF InRoomIsShown, Field
<1>10. Aged' /\ Evictions'
  BY <1>0, <1>1 DEF Aged, Evictions
<1>11. QED
  BY <1>3, <1>4, <1>5, <1>6, <1>7, <1>8, <1>9, <1>10 DEF IInv

\* A disconnect handler removes fields of a closed socket.
LEMMA QuitKeeps ==
    ASSUME IInv, NEW s \in Sockets, NEW v \in Versions, Quit(s, v)
    PROVE  IInv'
<1>0. /\ TypeOK /\ Closed /\ Recorded /\ Aged /\ Evictions /\ Heard /\ Allowed
      /\ OutsidersAreEvicted /\ InRoomIsShown
  BY DEF IInv
<1>t. /\ Project \in Targets /\ \A z \in Sockets : Owner[z] \in Targets
      /\ \A z \in Sockets : \A w \in inRoom[z] : w \in Versions /\ <<z, w>> \in Pairs
  BY <1>0, RealtimeAssumption DEF TypeOK, Targets, Pairs
<1>1. /\ role' = role /\ alive' = alive /\ changes' = changes /\ shows' = shows
      /\ conn' = conn /\ joining' = joining /\ inRoom' = inRoom /\ inProject' = inProject
      /\ joined' = joined /\ leaving' = leaving /\ beating' = beating /\ sweep' = sweep
      /\ evicting' = evicting /\ lapsed' = lapsed /\ late' = late
  BY DEF Quit, members, rooms, hash
<1>2. /\ \A z \in Sockets : z # s => quitting'[z] = quitting[z]
      /\ quitting'[s] = quitting[s] \ {v} /\ v \in quitting[s]
      /\ \A p \in Pairs : entry'[p] = IF p = <<s, v>> THEN "none" ELSE entry[p]
  BY <1>0 DEF Quit, Without, Field, TypeOK
<1>3. TypeOK'
  BY <1>0, <1>1 DEF TypeOK, Quit, Without, With, Field, Pairs
<1>4. Closed'
  BY <1>0, <1>t, <1>1, <1>2 DEF Closed
<1>5. Aged'
  BY <1>0, <1>t, <1>1, <1>2 DEF Aged
<1>6. InRoomIsShown'
  <2>1. inRoom[s] = {}
    BY <1>0, <1>2 DEF Closed, TypeOK
  <2>2. QED
    BY <1>0, <1>t, <1>1, <1>2, <2>1 DEF InRoomIsShown, Field, Pairs
<1>7. Recorded' /\ Evictions' /\ Heard' /\ Allowed'
      /\ OutsidersAreEvicted'
  BY <1>0, <1>1
     DEF Recorded, Evictions, Heard, Allowed, HasAccess, OutsidersAreEvicted,
         BeingEvicted
<1>8. QED
  BY <1>3, <1>4, <1>5, <1>6, <1>7 DEF IInv

\* The field is read.
LEMMA BeatKeeps ==
    ASSUME IInv, NEW s \in Sockets, NEW v \in Versions, Beat(s, v)
    PROVE  IInv'
<1>0. /\ TypeOK /\ Closed /\ Recorded /\ Aged /\ Evictions /\ Heard /\ Allowed
      /\ OutsidersAreEvicted /\ InRoomIsShown
  BY DEF IInv
<1>t. /\ Project \in Targets /\ \A z \in Sockets : Owner[z] \in Targets
      /\ \A z \in Sockets : \A w \in inRoom[z] : w \in Versions /\ <<z, w>> \in Pairs
  BY <1>0, RealtimeAssumption DEF TypeOK, Targets, Pairs
<1>1. /\ role' = role /\ alive' = alive /\ changes' = changes /\ shows' = shows
      /\ conn' = conn /\ joining' = joining /\ inRoom' = inRoom /\ inProject' = inProject
      /\ joined' = joined /\ leaving' = leaving /\ quitting' = quitting /\ entry' = entry
      /\ sweep' = sweep /\ evicting' = evicting /\ lapsed' = lapsed /\ late' = late
  BY DEF Beat, members, rooms, hash
<1>2. TRUE
  OBVIOUS
<1>3. TypeOK'
  BY <1>0, <1>1 DEF TypeOK, Beat, Without, With, Field, Pairs
<1>4. Closed' /\ Recorded' /\ Aged' /\ Evictions'
      /\ Heard' /\ Allowed' /\ OutsidersAreEvicted' /\ InRoomIsShown'
  BY <1>0, <1>1
     DEF Closed, Recorded, Aged, Evictions, Heard, Allowed, HasAccess,
         OutsidersAreEvicted, BeingEvicted, InRoomIsShown, Field
<1>5. QED
  BY <1>3, <1>4 DEF IInv

\* The field is written again, also after it was removed.
LEMMA WriteBeatKeeps ==
    ASSUME IInv, NEW s \in Sockets, NEW v \in Versions, WriteBeat(s, v)
    PROVE  IInv'
<1>0. /\ TypeOK /\ Closed /\ Recorded /\ Aged /\ Evictions /\ Heard /\ Allowed
      /\ OutsidersAreEvicted /\ InRoomIsShown
  BY DEF IInv
<1>t. /\ Project \in Targets /\ \A z \in Sockets : Owner[z] \in Targets
      /\ \A z \in Sockets : \A w \in inRoom[z] : w \in Versions /\ <<z, w>> \in Pairs
  BY <1>0, RealtimeAssumption DEF TypeOK, Targets, Pairs
<1>1. /\ role' = role /\ alive' = alive /\ changes' = changes /\ shows' = shows
      /\ conn' = conn /\ joining' = joining /\ inRoom' = inRoom /\ inProject' = inProject
      /\ joined' = joined /\ leaving' = leaving /\ quitting' = quitting /\ sweep' = sweep
      /\ evicting' = evicting /\ lapsed' = lapsed /\ late' = late
  BY DEF WriteBeat, members, rooms, hash
<1>2. \A p \in Pairs : entry'[p] = IF p = <<s, v>> THEN "fresh" ELSE entry[p]
  BY <1>0 DEF WriteBeat, With, Field, TypeOK
<1>3. TypeOK'
  BY <1>0, <1>1 DEF TypeOK, WriteBeat, Without, With, Field, Pairs
<1>4. Aged'
  BY <1>0, <1>t, <1>1, <1>2 DEF Aged
<1>5. InRoomIsShown'
  BY <1>0, <1>t, <1>1, <1>2 DEF InRoomIsShown, Field, Pairs
<1>6. Closed' /\ Recorded' /\ Evictions' /\ Heard'
      /\ Allowed' /\ OutsidersAreEvicted'
  BY <1>0, <1>1
     DEF Closed, Recorded, Evictions, Heard, Allowed, HasAccess, OutsidersAreEvicted,
         BeingEvicted
<1>7. QED
  BY <1>3, <1>4, <1>5, <1>6 DEF IInv

\* A field grows old.
LEMMA AgeKeeps ==
    ASSUME IInv, NEW p \in Pairs, Age(p)
    PROVE  IInv'
<1>0. /\ TypeOK /\ Closed /\ Recorded /\ Aged /\ Evictions /\ Heard /\ Allowed
      /\ OutsidersAreEvicted /\ InRoomIsShown
  BY DEF IInv
<1>t. /\ Project \in Targets /\ \A z \in Sockets : Owner[z] \in Targets
      /\ \A z \in Sockets : \A w \in inRoom[z] : w \in Versions /\ <<z, w>> \in Pairs
  BY <1>0, RealtimeAssumption DEF TypeOK, Targets, Pairs
<1>1. /\ role' = role /\ alive' = alive /\ changes' = changes /\ shows' = shows
      /\ conn' = conn /\ joining' = joining /\ inRoom' = inRoom /\ inProject' = inProject
      /\ joined' = joined /\ leaving' = leaving /\ quitting' = quitting /\ beating' = beating
      /\ sweep' = sweep /\ evicting' = evicting /\ late' = late
  BY DEF Age, members, rooms, hash
<1>2. /\ \A q \in Pairs : entry'[q] = IF q = p THEN "stale" ELSE entry[q]
      /\ lapsed' = lapsed \cup {p}
  BY <1>0 DEF Age, TypeOK
<1>3. TypeOK'
  BY <1>0, <1>1 DEF TypeOK, Age, Without, With, Field, Pairs
<1>4. Aged'
  BY <1>0, <1>t, <1>1, <1>2 DEF Aged
<1>5. InRoomIsShown'
  BY <1>0, <1>t, <1>1, <1>2 DEF InRoomIsShown, Field, Pairs
<1>6. Closed' /\ Recorded' /\ Evictions' /\ Heard'
      /\ Allowed' /\ OutsidersAreEvicted'
  BY <1>0, <1>1
     DEF Closed, Recorded, Evictions, Heard, Allowed, HasAccess, OutsidersAreEvicted,
         BeingEvicted
<1>7. QED
  BY <1>3, <1>4, <1>5, <1>6 DEF IInv

\* Only old fields are found.
LEMMA SweepReadKeeps ==
    ASSUME IInv, SweepRead
    PROVE  IInv'
<1>0. /\ TypeOK /\ Closed /\ Recorded /\ Aged /\ Evictions /\ Heard /\ Allowed
      /\ OutsidersAreEvicted /\ InRoomIsShown
  BY DEF IInv
<1>t. /\ Project \in Targets /\ \A z \in Sockets : Owner[z] \in Targets
      /\ \A z \in Sockets : \A w \in inRoom[z] : w \in Versions /\ <<z, w>> \in Pairs
  BY <1>0, RealtimeAssumption DEF TypeOK, Targets, Pairs
<1>1. /\ role' = role /\ alive' = alive /\ changes' = changes /\ shows' = shows
      /\ conn' = conn /\ joining' = joining /\ inRoom' = inRoom /\ inProject' = inProject
      /\ joined' = joined /\ leaving' = leaving /\ quitting' = quitting /\ entry' = entry
      /\ beating' = beating /\ evicting' = evicting /\ lapsed' = lapsed /\ late' = late
  BY DEF SweepRead, members, rooms, hash
<1>2. sweep' \subseteq {p \in Pairs : entry[p] = "stale"}
  BY DEF SweepRead, IsStale
<1>3. TypeOK'
  BY <1>0, <1>1, <1>2 DEF TypeOK
<1>4. Aged'
  BY <1>0, <1>t, <1>1, <1>2 DEF Aged
<1>5. Closed' /\ Recorded' /\ Evictions' /\ Heard'
      /\ Allowed' /\ OutsidersAreEvicted' /\ InRoomIsShown'
  BY <1>0, <1>1
     DEF Closed, Recorded, Evictions, Heard, Allowed, HasAccess, OutsidersAreEvicted,
         BeingEvicted, InRoomIsShown, Field
<1>6. QED
  BY <1>3, <1>4, <1>5 DEF IInv

\* What is deleted was old when it was read.
LEMMA SweepDeleteKeeps ==
    ASSUME IInv, SweepDelete
    PROVE  IInv'
<1>0. /\ TypeOK /\ Closed /\ Recorded /\ Aged /\ Evictions /\ Heard /\ Allowed
      /\ OutsidersAreEvicted /\ InRoomIsShown
  BY DEF IInv
<1>t. /\ Project \in Targets /\ \A z \in Sockets : Owner[z] \in Targets
      /\ \A z \in Sockets : \A w \in inRoom[z] : w \in Versions /\ <<z, w>> \in Pairs
  BY <1>0, RealtimeAssumption DEF TypeOK, Targets, Pairs
<1>1. /\ role' = role /\ alive' = alive /\ changes' = changes /\ shows' = shows
      /\ conn' = conn /\ joining' = joining /\ inRoom' = inRoom /\ inProject' = inProject
      /\ joined' = joined /\ leaving' = leaving /\ quitting' = quitting /\ beating' = beating
      /\ evicting' = evicting /\ lapsed' = lapsed /\ late' = late
  BY DEF SweepDelete, members, rooms, hash
<1>2. /\ \A p \in Pairs : entry'[p] = IF p \in sweep THEN "none" ELSE entry[p]
      /\ sweep' = {}
  BY DEF SweepDelete, Without
<1>3. TypeOK'
  BY <1>0, <1>1 DEF TypeOK, SweepDelete, Without, With, Field, Pairs
<1>4. Aged'
  BY <1>0, <1>t, <1>1, <1>2 DEF Aged
<1>5. InRoomIsShown'
  BY <1>0, <1>1, <1>2 DEF InRoomIsShown, Aged, Field, Pairs, TypeOK
<1>6. Closed' /\ Recorded' /\ Evictions' /\ Heard'
      /\ Allowed' /\ OutsidersAreEvicted'
  BY <1>0, <1>1
     DEF Closed, Recorded, Evictions, Heard, Allowed, HasAccess, OutsidersAreEvicted,
         BeingEvicted
<1>7. QED
  BY <1>3, <1>4, <1>5, <1>6 DEF IInv

\* Who loses the access is to be evicted, and joins under way remembered.
LEMMA RemoveMemberKeeps ==
    ASSUME IInv, NEW u \in Users, RemoveMember(u)
    PROVE  IInv'
<1>0. /\ TypeOK /\ Closed /\ Recorded /\ Aged /\ Evictions /\ Heard /\ Allowed
      /\ OutsidersAreEvicted /\ InRoomIsShown
  BY DEF IInv
<1>t. /\ Project \in Targets /\ \A z \in Sockets : Owner[z] \in Targets
      /\ \A z \in Sockets : \A w \in inRoom[z] : w \in Versions /\ <<z, w>> \in Pairs
  BY <1>0, RealtimeAssumption DEF TypeOK, Targets, Pairs
<1>1. /\ alive' = alive /\ shows' = shows /\ conn' = conn /\ joining' = joining
      /\ inRoom' = inRoom /\ inProject' = inProject /\ joined' = joined /\ leaving' = leaving
      /\ quitting' = quitting /\ entry' = entry /\ beating' = beating /\ sweep' = sweep
      /\ lapsed' = lapsed
  BY DEF RemoveMember, members, rooms, hash
<1>2. /\ \A w \in Users : role'[w] = IF w = u THEN "none" ELSE role[w]
      /\ \A r \in Targets : /\ r # u => evicting'[r] = evicting[r]
                          /\ evicting'[r].sockets = evicting[r].sockets
                          /\ evicting'[r].pairs = evicting[r].pairs
      /\ evicting'[u].stage = "due" /\ evicting[u].stage = "none"
      /\ late \subseteq late'
      /\ \A p \in Pairs :
           joining[p] = "allowed" /\ conn[p[1]] = "open" /\ Owner[p[1]] = u => p \in late'
      /\ u \in Targets /\ u # Project /\ alive
      /\ \A s \in Sockets : Owner[s] \in Users
  <2>1. u \in Targets /\ u # Project /\ \A s \in Sockets : Owner[s] \in Users
    BY RealtimeAssumption DEF Targets
  <2>2. evicting[u] \in [stage : {"none", "due", "busy"}, sockets : SUBSET Sockets,
                        pairs : SUBSET Pairs]
    BY <1>0, <2>1 DEF TypeOK
  <2>3. /\ \A r \in Targets : r # u => evicting'[r] = evicting[r]
        /\ evicting'[u] = [evicting[u] EXCEPT !.stage = "due"]
    BY <1>0, <2>1 DEF RemoveMember, TypeOK
  <2>4. QED
    BY <1>0, <2>1, <2>2, <2>3 DEF RemoveMember, Straddling, TypeOK
<1>3. TypeOK'
  <2>1. evicting' \in [Targets -> [stage : {"none", "due", "busy"}, sockets : SUBSET Sockets,
                                  pairs : SUBSET Pairs]]
    BY <1>0, <1>2 DEF TypeOK, RemoveMember
  <2>2. late' \subseteq Pairs
    BY <1>0 DEF TypeOK, RemoveMember, Straddling
  <2>3. changes' \in 0 .. MaxChanges /\ role' \in [Users -> {"admin", "other", "none"}]
    BY <1>0, <1>2, RealtimeAssumption DEF TypeOK, RemoveMember
  <2>4. QED
    BY <1>0, <1>1, <2>1, <2>2, <2>3 DEF TypeOK
<1>4. Evictions'
  BY <1>0, <1>t, <1>1, <1>2 DEF Evictions
<1>5. Heard'
  BY <1>0, <1>t, <1>1, <1>2 DEF Heard
<1>6. Allowed'
  BY <1>0, <1>1, <1>2 DEF Allowed, HasAccess, Pairs
<1>7. OutsidersAreEvicted'
  <2> SUFFICES ASSUME NEW s \in Sockets, NEW v \in inRoom[s], ~HasAccess(Owner[s])',
                      <<s, v>> \notin late'
               PROVE  BeingEvicted(s, v)'
    BY <1>1 DEF OutsidersAreEvicted
  <2>1. CASE Owner[s] = u
    BY <1>1, <1>2, <2>1 DEF BeingEvicted
  <2>2. CASE Owner[s] # u
    <3>1. ~HasAccess(Owner[s]) /\ <<s, v>> \notin late
      BY <1>1, <1>2, <2>2 DEF HasAccess
    <3>2. BeingEvicted(s, v)
      BY <1>0, <3>1 DEF OutsidersAreEvicted
    <3>3. QED
      BY <1>t, <1>1, <1>2, <2>2, <3>2 DEF BeingEvicted
  <2>3. QED
    BY <2>1, <2>2
<1>8. Closed' /\ Recorded' /\ Aged' /\ InRoomIsShown'
  BY <1>0, <1>1 DEF Closed, Recorded, Aged, InRoomIsShown, Field
<1>9. QED
  BY <1>3, <1>4, <1>5, <1>6, <1>7, <1>8 DEF IInv

\* Nobody loses the access.
LEMMA SetRoleKeeps ==
    ASSUME IInv, NEW u \in Users, NEW r \in {"admin", "other"}, SetRole(u, r)
    PROVE  IInv'
<1>0. /\ TypeOK /\ Closed /\ Recorded /\ Aged /\ Evictions /\ Heard /\ Allowed
      /\ OutsidersAreEvicted /\ InRoomIsShown
  BY DEF IInv
<1>t. /\ Project \in Targets /\ \A z \in Sockets : Owner[z] \in Targets
      /\ \A z \in Sockets : \A w \in inRoom[z] : w \in Versions /\ <<z, w>> \in Pairs
  BY <1>0, RealtimeAssumption DEF TypeOK, Targets, Pairs
<1>1. /\ alive' = alive /\ shows' = shows /\ conn' = conn /\ joining' = joining
      /\ inRoom' = inRoom /\ inProject' = inProject /\ joined' = joined /\ leaving' = leaving
      /\ quitting' = quitting /\ entry' = entry /\ beating' = beating /\ sweep' = sweep
      /\ evicting' = evicting /\ lapsed' = lapsed /\ late' = late
  BY DEF SetRole, members, rooms, hash
<1>2. \A w \in Users : role'[w] = IF w = u THEN r ELSE role[w]
  BY <1>0 DEF SetRole, TypeOK
<1>3. TypeOK'
  BY <1>0, <1>1, RealtimeAssumption DEF TypeOK, SetRole
<1>4. Allowed'
  BY <1>0, <1>1, <1>2, RealtimeAssumption DEF Allowed, HasAccess
<1>5. OutsidersAreEvicted'
  BY <1>0, <1>1, <1>2, RealtimeAssumption
     DEF OutsidersAreEvicted, HasAccess, BeingEvicted
<1>6. Closed' /\ Recorded' /\ Aged' /\ Evictions'
      /\ Heard' /\ InRoomIsShown'
  BY <1>0, <1>1 DEF Closed, Recorded, Aged, Evictions, Heard, InRoomIsShown, Field
<1>7. QED
  BY <1>3, <1>4, <1>5, <1>6 DEF IInv

\* Everybody is to be evicted, and joins under way remembered.
LEMMA DeleteProjectKeeps ==
    ASSUME IInv, DeleteProject
    PROVE  IInv'
<1>0. /\ TypeOK /\ Closed /\ Recorded /\ Aged /\ Evictions /\ Heard /\ Allowed
      /\ OutsidersAreEvicted /\ InRoomIsShown
  BY DEF IInv
<1>t. /\ Project \in Targets /\ \A z \in Sockets : Owner[z] \in Targets
      /\ \A z \in Sockets : \A w \in inRoom[z] : w \in Versions /\ <<z, w>> \in Pairs
  BY <1>0, RealtimeAssumption DEF TypeOK, Targets, Pairs
<1>1. /\ role' = role /\ shows' = shows /\ conn' = conn /\ joining' = joining
      /\ inRoom' = inRoom /\ inProject' = inProject /\ joined' = joined /\ leaving' = leaving
      /\ quitting' = quitting /\ entry' = entry /\ beating' = beating /\ sweep' = sweep
      /\ lapsed' = lapsed
  BY DEF DeleteProject, members, rooms, hash
<1>2. /\ \A r \in Targets : /\ r # Project => evicting'[r] = evicting[r]
                          /\ evicting'[r].sockets = evicting[r].sockets
                          /\ evicting'[r].pairs = evicting[r].pairs
      /\ evicting'[Project].stage = "due" /\ evicting[Project].stage = "none"
      /\ late \subseteq late' /\ ~alive'
      /\ \A p \in Pairs : joining[p] = "allowed" /\ conn[p[1]] = "open" => p \in late'
      /\ Project \in Targets
  <2>1. Project \in Targets /\ \A s \in Sockets : Owner[s] \in Users
    BY RealtimeAssumption DEF Targets
  <2>2. evicting[Project] \in [stage : {"none", "due", "busy"}, sockets : SUBSET Sockets,
                              pairs : SUBSET Pairs]
    BY <1>0, <2>1 DEF TypeOK
  <2>3. /\ \A r \in Targets : r # Project => evicting'[r] = evicting[r]
        /\ evicting'[Project] = [evicting[Project] EXCEPT !.stage = "due"]
    BY <1>0, <2>1 DEF DeleteProject, TypeOK
  <2>4. \A p \in Pairs : p[1] \in Sockets
    BY DEF Pairs
  <2>5. QED
    BY <1>0, <2>1, <2>2, <2>3, <2>4 DEF DeleteProject, Straddling, Evictions
<1>3. TypeOK'
  <2>1. evicting' \in [Targets -> [stage : {"none", "due", "busy"}, sockets : SUBSET Sockets,
                                  pairs : SUBSET Pairs]]
    BY <1>0, <1>2 DEF TypeOK, DeleteProject
  <2>2. late' \subseteq Pairs
    BY <1>0 DEF TypeOK, DeleteProject, Straddling
  <2>3. changes' \in 0 .. MaxChanges /\ alive' \in BOOLEAN
    <3>1. changes' \in 0 .. MaxChanges
      BY <1>0, RealtimeAssumption DEF TypeOK, DeleteProject
    <3>2. alive' \in BOOLEAN
      BY DEF DeleteProject
    <3>3. QED
      BY <3>1, <3>2
  <2>4. QED
    BY <1>0, <1>1, <2>1, <2>2, <2>3 DEF TypeOK
<1>4. Evictions'
  BY <1>0, <1>t, <1>1, <1>2 DEF Evictions
<1>5. Heard'
  BY <1>0, <1>t, <1>1, <1>2 DEF Heard
<1>6. Allowed'
  BY <1>0, <1>1, <1>2 DEF Allowed, HasAccess, Pairs
<1>7. OutsidersAreEvicted'
  BY <1>0, <1>t, <1>1, <1>2 DEF OutsidersAreEvicted, HasAccess, BeingEvicted
<1>8. Closed' /\ Recorded' /\ Aged' /\ InRoomIsShown'
  BY <1>0, <1>1 DEF Closed, Recorded, Aged, InRoomIsShown, Field
<1>9. QED
  BY <1>3, <1>4, <1>5, <1>6, <1>7, <1>8 DEF IInv

\* The sockets in the rooms concerned are found: the others are being evicted already.
LEMMA FetchKeeps ==
    ASSUME IInv, NEW t \in Targets, Fetch(t)
    PROVE  IInv'
<1>0. /\ TypeOK /\ Closed /\ Recorded /\ Aged /\ Evictions /\ Heard /\ Allowed
      /\ OutsidersAreEvicted /\ InRoomIsShown
  BY DEF IInv
<1>t. /\ Project \in Targets /\ \A z \in Sockets : Owner[z] \in Targets
      /\ \A z \in Sockets : \A w \in inRoom[z] : w \in Versions /\ <<z, w>> \in Pairs
  BY <1>0, RealtimeAssumption DEF TypeOK, Targets, Pairs
<1>1. /\ role' = role /\ alive' = alive /\ changes' = changes /\ shows' = shows
      /\ conn' = conn /\ joining' = joining /\ inRoom' = inRoom /\ inProject' = inProject
      /\ joined' = joined /\ leaving' = leaving /\ quitting' = quitting /\ entry' = entry
      /\ beating' = beating /\ sweep' = sweep /\ lapsed' = lapsed /\ late' = late
  BY DEF Fetch, members, rooms, hash
<1>2. /\ \A r \in Targets : r # t => evicting'[r] = evicting[r]
      /\ evicting'[t].stage = "busy" /\ evicting'[t].pairs = {}
      /\ evicting'[t].sockets =
           IF t = Project THEN inProject ELSE {s \in Sockets : conn[s] = "open" /\ Owner[s] = t}
      /\ evicting[t].stage = "due" /\ evicting[t].pairs = {}
  BY <1>0 DEF Fetch, TypeOK, Evictions
<1>3. TypeOK'
  BY <1>0, <1>1 DEF TypeOK, Fetch
<1>4. Evictions'
  BY <1>0, <1>t, <1>1, <1>2 DEF Evictions, TypeOK
<1>5. Heard'
  BY <1>0, <1>1, <1>2 DEF Heard
<1>6. OutsidersAreEvicted'
  <2> SUFFICES ASSUME NEW s \in Sockets, NEW v \in inRoom[s], ~HasAccess(Owner[s]),
                      <<s, v>> \notin late
               PROVE  BeingEvicted(s, v)'
    BY <1>1 DEF OutsidersAreEvicted, HasAccess
  <2>1. PICK r \in {Owner[s], Project} :
          evicting[r].stage = "due" \/ s \in evicting[r].sockets \/ <<s, v>> \in evicting[r].pairs
    BY <1>0 DEF OutsidersAreEvicted, BeingEvicted
  <2>2. r \in Targets /\ Owner[s] \in Targets /\ Project \in Targets
    BY RealtimeAssumption DEF Targets
  <2>3. CASE r # t
    BY <1>2, <2>1, <2>2, <2>3 DEF BeingEvicted
  <2>4. CASE r = t /\ t # Project
    <3>1. conn[s] = "open"
      BY <1>0 DEF Closed, TypeOK
    <3>2. s \in evicting'[t].sockets
      BY <1>2, <2>1, <2>4, <3>1
    <3>3. QED
      BY <2>1, <2>4, <3>2 DEF BeingEvicted
  <2>5. CASE r = t /\ t = Project
    <3>1. CASE s \in inProject
      BY <1>2, <2>1, <2>5, <3>1 DEF BeingEvicted
    <3>2. CASE s \notin inProject
      <4>1. PICK q \in Targets : <<s, v>> \in evicting[q].pairs
        BY <1>0, <3>2 DEF Heard
      <4>2. q # t /\ v \in Versions
        BY <1>0, <1>2, <4>1 DEF TypeOK
      <4>3. q \in {Owner[s], Project}
        BY <1>0, <4>1, <4>2 DEF Evictions
      <4>4. QED
        BY <1>2, <4>1, <4>2, <4>3 DEF BeingEvicted
    <3>3. QED
      BY <3>1, <3>2
  <2>6. QED
    BY <2>3, <2>4, <2>5
<1>7. Closed' /\ Recorded' /\ Aged' /\ Allowed'
      /\ InRoomIsShown'
  BY <1>0, <1>1 DEF Closed, Recorded, Aged, Allowed, HasAccess, InRoomIsShown, Field
<1>8. QED
  BY <1>3, <1>4, <1>5, <1>6, <1>7 DEF IInv

\* A socket that recorded no room only leaves the project.
LEMMA LastEvicted ==
    ASSUME IInv, NEW t \in Targets, NEW s \in Sockets, EvictSocket(t, s),
           joined[s] = {}, UNCHANGED <<inRoom, entry, late>>,
           evicting' = [evicting EXCEPT ![t].sockets = @ \ {s}]
    PROVE  IInv'
<1>0. /\ TypeOK /\ Closed /\ Recorded /\ Aged /\ Evictions /\ Heard /\ Allowed
      /\ OutsidersAreEvicted /\ InRoomIsShown
  BY DEF IInv
<1>t. /\ Project \in Targets /\ \A z \in Sockets : Owner[z] \in Targets
      /\ \A z \in Sockets : \A w \in inRoom[z] : w \in Versions /\ <<z, w>> \in Pairs
  BY <1>0, RealtimeAssumption DEF TypeOK, Targets, Pairs
<1>1. /\ role' = role /\ alive' = alive /\ changes' = changes /\ shows' = shows
      /\ conn' = conn /\ joining' = joining /\ joined' = joined /\ leaving' = leaving
      /\ quitting' = quitting /\ beating' = beating /\ sweep' = sweep /\ lapsed' = lapsed
  BY DEF EvictSocket, members, rooms, hash
<1>2. /\ \A r \in Targets : r # t => evicting'[r] = evicting[r]
      /\ evicting'[t].stage = "busy" /\ evicting'[t].sockets = evicting[t].sockets \ {s}
      /\ evicting'[t].pairs = {} /\ evicting'[t] \in Eviction /\ evicting[t].pairs = {}
      /\ evicting[t].stage = "busy"
      /\ inProject' = inProject \ {s} /\ inRoom[s] = {}
      /\ inRoom' = inRoom /\ entry' = entry /\ late' = late
  <2>1. evicting[t] \in Eviction
    BY <1>0 DEF TypeOK, Eviction
  <2>2. inRoom[s] = {}
    BY <1>0 DEF Recorded
  <2>3. /\ \A r \in Targets : r # t => evicting'[r] = evicting[r]
        /\ evicting'[t] = [evicting[t] EXCEPT !.sockets = @ \ {s}]
    BY <1>0 DEF EvictSocket, TypeOK
  <2>4. QED
    BY <2>1, <2>2, <2>3 DEF EvictSocket, Eviction
<1>3. TypeOK'
  <2>1. evicting' \in [Targets -> Eviction]
    BY <1>0, <1>2 DEF TypeOK, Eviction, EvictSocket
  <2>2. QED
    BY <1>0, <1>1, <1>2, <2>1 DEF TypeOK, Eviction
<1>4. Closed'
  BY <1>0, <1>t, <1>1, <1>2 DEF Closed
<1>5. Recorded'
  BY <1>0, <1>t, <1>1, <1>2 DEF Recorded
<1>6. Aged'
  BY <1>0, <1>t, <1>1, <1>2 DEF Aged
<1>7. Evictions'
  BY <1>0, <1>t, <1>1, <1>2 DEF Evictions
<1>8. Heard'
  BY <1>0, <1>t, <1>1, <1>2 DEF Heard
<1>9. Allowed'
  BY <1>0, <1>t, <1>1, <1>2 DEF Allowed, HasAccess
<1>10. OutsidersAreEvicted'
  <2> SUFFICES ASSUME NEW z \in Sockets, NEW w \in inRoom[z], ~HasAccess(Owner[z]),
                      <<z, w>> \notin late
               PROVE  BeingEvicted(z, w)'
    BY <1>1, <1>2 DEF OutsidersAreEvicted, HasAccess
  <2>1. z # s
    BY <1>2
  <2>2. PICK r \in {Owner[z], Project} :
          evicting[r].stage = "due" \/ z \in evicting[r].sockets \/ <<z, w>> \in evicting[r].pairs
    BY <1>0 DEF OutsidersAreEvicted, BeingEvicted
  <2>3. r \in Targets
    BY <1>t, <2>2
  <2>4. CASE r # t
    BY <1>2, <2>2, <2>3, <2>4 DEF BeingEvicted
  <2>5. CASE r = t
    BY <1>2, <2>1, <2>2, <2>5 DEF BeingEvicted
  <2>6. QED
    BY <2>4, <2>5
<1>11. InRoomIsShown'
  BY <1>0, <1>t, <1>1, <1>2 DEF InRoomIsShown, Field
<1>12. QED
  BY <1>3, <1>4, <1>5, <1>6, <1>7, <1>8, <1>9, <1>10, <1>11 DEF IInv

\* The rooms the socket is still in are to be left one by one.
LEMMA FirstEvicted ==
    ASSUME IInv, NEW t \in Targets, NEW s \in Sockets, EvictSocket(t, s),
           NEW v \in joined[s], Evict(s, v),
           NEW others, others = {s} \X (joined[s] \ {v}),
           evicting' = [r \in Targets |-> evicting'[r]],
           \A r \in Targets : r # t => evicting'[r] = evicting[r],
           evicting'[t] = [stage |-> evicting[t].stage, sockets |-> evicting[t].sockets \ {s},
                           pairs |-> others]
    PROVE  IInv'
<1>0. /\ TypeOK /\ Closed /\ Recorded /\ Aged /\ Evictions /\ Heard /\ Allowed
      /\ OutsidersAreEvicted /\ InRoomIsShown
  BY DEF IInv
<1>t. /\ Project \in Targets /\ \A z \in Sockets : Owner[z] \in Targets
      /\ \A z \in Sockets : \A w \in inRoom[z] : w \in Versions /\ <<z, w>> \in Pairs
  BY <1>0, RealtimeAssumption DEF TypeOK, Targets, Pairs
<1>1. /\ role' = role /\ alive' = alive /\ changes' = changes /\ shows' = shows
      /\ conn' = conn /\ joining' = joining /\ joined' = joined /\ leaving' = leaving
      /\ quitting' = quitting /\ beating' = beating /\ sweep' = sweep /\ lapsed' = lapsed
  BY DEF EvictSocket, members, rooms, hash
<1>2. /\ \A r \in Targets : r # t => evicting'[r] = evicting[r]
      /\ evicting'[t].stage = "busy" /\ evicting'[t].sockets = evicting[t].sockets \ {s}
      /\ evicting'[t].pairs = {s} \X (joined[s] \ {v}) /\ evicting'[t] \in Eviction
      /\ evicting[t].pairs = {} /\ s \in evicting[t].sockets /\ evicting[t].stage = "busy"
      /\ inProject' = inProject \ {s}
      /\ v \in Versions /\ inRoom[s] \subseteq joined[s] /\ joined[s] \subseteq Versions
      /\ inRoom'[s] = inRoom[s] \ {v}
      /\ \A z \in Sockets : z # s => inRoom'[z] = inRoom[z]
      /\ \A p \in Pairs : entry'[p] = IF p = <<s, v>> THEN "none" ELSE entry[p]
      /\ \A p \in late : p \notin late' => p = <<s, v>> /\ joining[p] # "allowed"
  <2>1. evicting[t] \in Eviction
    BY <1>0 DEF TypeOK, Eviction
  <2>2. /\ \A r \in Targets : r # t => evicting'[r] = evicting[r]
        /\ evicting'[t] = [stage |-> evicting[t].stage, sockets |-> evicting[t].sockets \ {s},
                           pairs |-> others]
    OBVIOUS
  <2>3. v \in Versions /\ inRoom[s] \subseteq joined[s] /\ joined[s] \subseteq Versions
    BY <1>0 DEF TypeOK, Recorded
  <2>4. others \in SUBSET Pairs
    BY <2>3 DEF Pairs
  <2>5. /\ evicting'[t].stage = evicting[t].stage
        /\ evicting'[t].sockets = evicting[t].sockets \ {s}
        /\ evicting'[t].pairs = others /\ evicting'[t] \in Eviction
    BY <2>1, <2>2, <2>4 DEF Eviction
  <2>6. /\ inRoom'[s] = inRoom[s] \ {v}
        /\ \A z \in Sockets : z # s => inRoom'[z] = inRoom[z]
    BY <1>0 DEF TypeOK, Evict
  <2>7. /\ \A p \in Pairs : entry'[p] = IF p = <<s, v>> THEN "none" ELSE entry[p]
        /\ \A p \in late : p \notin late' => p = <<s, v>> /\ joining[p] # "allowed"
    BY DEF Evict, Without, Field, LateWithout
  <2>8. QED
    BY <2>2, <2>3, <2>5, <2>6, <2>7 DEF EvictSocket
<1>3. TypeOK'
  <2>1. evicting' \in [Targets -> Eviction]
    BY <1>0, <1>2 DEF TypeOK, Eviction
  <2>2. inRoom' \in [Sockets -> SUBSET Versions]
    BY <1>0 DEF TypeOK, Evict
  <2>3. entry' \in [Pairs -> {"none", "fresh", "stale"}]
    BY <1>0 DEF TypeOK, Evict, Without
  <2>4. late' \subseteq Pairs
    BY <1>0 DEF TypeOK, Evict, LateWithout
  <2>5. inProject' \subseteq Sockets
    BY <1>0, <1>2 DEF TypeOK
  <2>6. QED
    BY <1>0, <1>1, <2>1, <2>2, <2>3, <2>4, <2>5 DEF TypeOK, Eviction
<1>4. Closed'
  BY <1>0, <1>t, <1>1, <1>2 DEF Closed
<1>5. Recorded'
  BY <1>0, <1>t, <1>1, <1>2 DEF Recorded
<1>6. Aged'
  BY <1>0, <1>t, <1>1, <1>2 DEF Aged
<1>7. Evictions'
  <2>1. /\ t \in {Owner[s], Project}
        /\ \A z \in Sockets, w \in Versions : <<z, w>> \in evicting'[t].pairs => z = s
    BY <1>0, <1>2 DEF Evictions
  <2>2. /\ evicting'[t].stage = "busy"
        /\ \A z \in evicting'[t].sockets : t \in {Owner[z], Project}
        /\ \A z \in Sockets, w \in Versions :
             <<z, w>> \in evicting'[t].pairs => t \in {Owner[z], Project}
    BY <1>0, <1>2, <2>1 DEF Evictions
  <2>3. alive' => evicting'[Project].stage = "none"
    BY <1>0, <1>t, <1>1, <1>2 DEF Evictions
  <2>4. \A r \in Targets : r # t => evicting'[r] = evicting[r]
    BY <1>2
  <2>5. QED
    BY <1>0, <2>2, <2>3, <2>4 DEF Evictions
<1>8. Heard'
  <2> SUFFICES ASSUME NEW z \in Sockets, NEW w \in inRoom'[z], z \notin inProject'
               PROVE  \E r \in Targets : <<z, w>> \in evicting'[r].pairs
    BY DEF Heard
  <2>1. w \in inRoom[z] /\ <<z, w>> # <<s, v>>
    BY <1>2
  <2>2. CASE z = s /\ s \in inProject
    BY <1>2, <2>1, <2>2
  <2>3. CASE ~(z = s /\ s \in inProject)
    <3>1. PICK r \in Targets : <<z, w>> \in evicting[r].pairs
      BY <1>0, <1>1, <1>2, <2>1, <2>3 DEF Heard
    <3>2. CASE r # t
      BY <1>2, <3>1, <3>2
    <3>3. CASE r = t
      BY <1>2, <2>1, <3>1, <3>3
    <3>4. QED
      BY <3>2, <3>3
  <2>4. QED
    BY <2>2, <2>3
<1>9. Allowed'
  BY <1>0, <1>t, <1>1, <1>2 DEF Allowed, HasAccess
<1>10. OutsidersAreEvicted'
  <2> SUFFICES ASSUME NEW z \in Sockets, NEW w \in inRoom'[z], ~HasAccess(Owner[z]),
                      <<z, w>> \notin late'
               PROVE  BeingEvicted(z, w)'
    BY <1>1 DEF OutsidersAreEvicted, HasAccess
  <2>1. w \in inRoom[z] /\ <<z, w>> # <<s, v>> /\ <<z, w>> \notin late
    BY <1>2
  <2>2. PICK r \in {Owner[z], Project} :
          evicting[r].stage = "due" \/ z \in evicting[r].sockets \/ <<z, w>> \in evicting[r].pairs
    BY <1>0, <2>1 DEF OutsidersAreEvicted, BeingEvicted
  <2>3. r \in Targets
    BY <1>t, <2>2
  <2>7. CASE z = s
    <3>1. <<s, w>> \in evicting'[t].pairs /\ t \in {Owner[s], Project}
      BY <1>0, <1>2, <2>1, <2>7 DEF Evictions
    <3>2. QED
      BY <1>1, <2>7, <3>1 DEF BeingEvicted
  <2>4. CASE r # t
    BY <1>1, <1>2, <2>2, <2>3, <2>4 DEF BeingEvicted
  <2>5. CASE r = t /\ z # s
    BY <1>1, <1>2, <2>1, <2>2, <2>5 DEF BeingEvicted
  <2>6. QED
    BY <2>4, <2>5, <2>7
<1>11. InRoomIsShown'
  <2>1. ASSUME NEW z \in Sockets, NEW w \in inRoom'[z]
        PROVE  w \in inRoom[z] /\ <<z, w>> \in Pairs /\ entry'[<<z, w>>] = entry[<<z, w>>]
    BY <1>t, <1>2, <2>1
  <2>2. QED
    BY <1>0, <1>1, <2>1 DEF InRoomIsShown, Field
<1>12. QED
  BY <1>3, <1>4, <1>5, <1>6, <1>7, <1>8, <1>9, <1>10, <1>11 DEF IInv

LEMMA EvictSocketKeeps ==
    ASSUME IInv, NEW t \in Targets, NEW s \in Sockets, EvictSocket(t, s)
    PROVE  IInv'
<1>1. CASE joined[s] = {} /\ evicting' = [evicting EXCEPT ![t].sockets = @ \ {s}]
           /\ UNCHANGED <<inRoom, entry, late>>
  BY <1>1, LastEvicted
<1>2. ASSUME NEW v \in joined[s], Evict(s, v),
             evicting' = [evicting EXCEPT ![t].sockets = @ \ {s},
                                          ![t].pairs = {s} \X (joined[s] \ {v})]
      PROVE  IInv'
  <2>1. evicting[t] = [stage |-> evicting[t].stage, sockets |-> evicting[t].sockets,
                       pairs |-> evicting[t].pairs]
    BY DEF IInv, TypeOK
  <2> DEFINE others == {s} \X (joined[s] \ {v})
  <2>2. /\ evicting' = [r \in Targets |-> evicting'[r]]
        /\ \A r \in Targets : r # t => evicting'[r] = evicting[r]
        /\ evicting'[t] = [evicting[t] EXCEPT !.sockets = @ \ {s}, !.pairs = others]
    BY <1>2 DEF IInv, TypeOK
  <2>3. evicting'[t] = [stage |-> evicting[t].stage, sockets |-> evicting[t].sockets \ {s},
                        pairs |-> others]
    <3> HIDE DEF others
    <3>1. QED
      BY <2>1, <2>2
  <2>4. QED
    BY <1>2, <2>2, <2>3, FirstEvicted
<1>3. QED
  BY <1>1, <1>2 DEF EvictSocket

\* A room is left.
LEMMA EvictVersionKeeps ==
    ASSUME IInv, NEW t \in Targets, NEW s \in Sockets, NEW v \in Versions, EvictVersion(t, s, v)
    PROVE  IInv'
<1>0. /\ TypeOK /\ Closed /\ Recorded /\ Aged /\ Evictions /\ Heard /\ Allowed
      /\ OutsidersAreEvicted /\ InRoomIsShown
  BY DEF IInv
<1>t. /\ Project \in Targets /\ \A z \in Sockets : Owner[z] \in Targets
      /\ \A z \in Sockets : \A w \in inRoom[z] : w \in Versions /\ <<z, w>> \in Pairs
  BY <1>0, RealtimeAssumption DEF TypeOK, Targets, Pairs
<1>1. /\ role' = role /\ alive' = alive /\ changes' = changes /\ shows' = shows
      /\ conn' = conn /\ joining' = joining /\ inProject' = inProject /\ joined' = joined
      /\ leaving' = leaving /\ quitting' = quitting /\ beating' = beating /\ sweep' = sweep
      /\ lapsed' = lapsed
  BY DEF EvictVersion, members, rooms, hash
<1>2. /\ \A r \in Targets : r # t => evicting'[r] = evicting[r]
      /\ evicting'[t].stage = "busy" /\ evicting'[t].sockets \subseteq evicting[t].sockets
      /\ evicting'[t].pairs = evicting[t].pairs \ {<<s, v>>} /\ evicting'[t] \in Eviction
      /\ evicting'[t].sockets = evicting[t].sockets /\ <<s, v>> \in evicting[t].pairs
      /\ evicting[t].stage = "busy"
      /\ \A z \in Sockets : z # s => inRoom'[z] = inRoom[z]
      /\ inRoom'[s] = inRoom[s] \ {v}
      /\ \A p \in Pairs : entry'[p] = IF p = <<s, v>> THEN "none" ELSE entry[p]
      /\ \A p \in late : p \notin late' => p = <<s, v>> /\ joining[p] # "allowed"
  <2>1. evicting[t] \in Eviction
    BY <1>0 DEF TypeOK, Eviction
  <2>2. /\ \A r \in Targets : r # t => evicting'[r] = evicting[r]
        /\ evicting'[t] = [evicting[t] EXCEPT !.pairs = @ \ {<<s, v>>}]
    BY <1>0 DEF TypeOK, EvictVersion
  <2>3. <<s, v>> \in evicting[t].pairs /\ evicting[t].stage = "busy"
    BY <1>0 DEF EvictVersion, Evictions
  <2>4. /\ evicting'[t].pairs = evicting[t].pairs \ {<<s, v>>} /\ evicting'[t] \in Eviction
        /\ evicting'[t].stage = "busy" /\ evicting'[t].sockets = evicting[t].sockets
    BY <2>1, <2>2, <2>3 DEF Eviction
  <2>5. /\ inRoom'[s] = inRoom[s] \ {v}
        /\ \A z \in Sockets : z # s => inRoom'[z] = inRoom[z]
    BY <1>0 DEF TypeOK, EvictVersion, Evict
  <2>6. /\ \A p \in Pairs : entry'[p] = IF p = <<s, v>> THEN "none" ELSE entry[p]
        /\ \A p \in late : p \notin late' => p = <<s, v>> /\ joining[p] # "allowed"
    BY DEF EvictVersion, Evict, Without, Field, LateWithout
  <2>7. QED
    BY <2>2, <2>3, <2>4, <2>5, <2>6
<1>3. TypeOK'
  <2>1. evicting' \in [Targets -> Eviction]
    BY <1>0, <1>2 DEF TypeOK, Eviction, EvictVersion
  <2>2. inRoom' \in [Sockets -> SUBSET Versions]
    BY <1>0 DEF TypeOK, EvictVersion, Evict
  <2>3. entry' \in [Pairs -> {"none", "fresh", "stale"}]
    BY <1>0 DEF TypeOK, EvictVersion, Evict, Without
  <2>4. late' \subseteq Pairs
    BY <1>0 DEF TypeOK, EvictVersion, Evict, LateWithout
  <2>5. inProject' \subseteq Sockets
    BY <1>0, <1>2 DEF TypeOK, EvictVersion
  <2>6. QED
    BY <1>0, <1>1, <2>1, <2>2, <2>3, <2>4, <2>5 DEF TypeOK, Eviction
<1>4. Closed'
  BY <1>0, <1>t, <1>1, <1>2 DEF Closed
<1>5. Recorded'
  BY <1>0, <1>t, <1>1, <1>2 DEF Recorded
<1>6. Aged'
  BY <1>0, <1>t, <1>1, <1>2 DEF Aged
<1>7. Evictions'
  BY <1>0, <1>t, <1>1, <1>2 DEF Evictions
<1>8. Heard'
  <2> SUFFICES ASSUME NEW z \in Sockets, NEW w \in inRoom'[z], z \notin inProject'
               PROVE  \E r \in Targets : <<z, w>> \in evicting'[r].pairs
    BY DEF Heard
  <2>1. w \in inRoom[z] /\ <<z, w>> # <<s, v>>
    BY <1>2
  <2>3. CASE z \notin inProject
    <3>1. PICK r \in Targets : <<z, w>> \in evicting[r].pairs
      BY <1>0, <1>1, <1>2, <2>1, <2>3 DEF Heard
    <3>2. CASE r # t
      BY <1>2, <3>1, <3>2
    <3>3. CASE r = t
      BY <1>2, <2>1, <3>1, <3>3
    <3>4. QED
      BY <3>2, <3>3
  <2>4. QED
    BY <1>1, <2>3
<1>9. Allowed'
  BY <1>0, <1>t, <1>1, <1>2 DEF Allowed, HasAccess
<1>10. OutsidersAreEvicted'
  <2> SUFFICES ASSUME NEW z \in Sockets, NEW w \in inRoom'[z], ~HasAccess(Owner[z]),
                      <<z, w>> \notin late'
               PROVE  BeingEvicted(z, w)'
    BY <1>1 DEF OutsidersAreEvicted, HasAccess
  <2>1. w \in inRoom[z] /\ <<z, w>> # <<s, v>> /\ <<z, w>> \notin late
    BY <1>2
  <2>2. PICK r \in {Owner[z], Project} :
          evicting[r].stage = "due" \/ z \in evicting[r].sockets \/ <<z, w>> \in evicting[r].pairs
    BY <1>0, <2>1 DEF OutsidersAreEvicted, BeingEvicted
  <2>3. r \in Targets
    BY <1>t, <2>2
  <2>4. CASE r # t
    BY <1>1, <1>2, <2>2, <2>3, <2>4 DEF BeingEvicted
  <2>5. CASE r = t
    BY <1>1, <1>2, <2>1, <2>2, <2>5 DEF BeingEvicted
  <2>6. QED
    BY <2>4, <2>5
<1>11. InRoomIsShown'
  BY <1>0, <1>t, <1>1, <1>2 DEF InRoomIsShown, Field, Pairs
<1>12. QED
  BY <1>3, <1>4, <1>5, <1>6, <1>7, <1>8, <1>9, <1>10, <1>11 DEF IInv

\* Nothing is left to do.
LEMMA EvictEndKeeps ==
    ASSUME IInv, NEW t \in Targets, EvictEnd(t)
    PROVE  IInv'
<1>0. /\ TypeOK /\ Closed /\ Recorded /\ Aged /\ Evictions /\ Heard /\ Allowed
      /\ OutsidersAreEvicted /\ InRoomIsShown
  BY DEF IInv
<1>t. /\ Project \in Targets /\ \A z \in Sockets : Owner[z] \in Targets
      /\ \A z \in Sockets : \A w \in inRoom[z] : w \in Versions /\ <<z, w>> \in Pairs
  BY <1>0, RealtimeAssumption DEF TypeOK, Targets, Pairs
<1>1. /\ role' = role /\ alive' = alive /\ changes' = changes /\ shows' = shows
      /\ conn' = conn /\ joining' = joining /\ inRoom' = inRoom /\ inProject' = inProject
      /\ joined' = joined /\ leaving' = leaving /\ quitting' = quitting /\ entry' = entry
      /\ beating' = beating /\ sweep' = sweep /\ lapsed' = lapsed /\ late' = late
  BY DEF EvictEnd, members, rooms, hash
<1>2. /\ \A r \in Targets : r # t => evicting'[r] = evicting[r]
      /\ evicting[t].sockets = {} /\ evicting[t].pairs = {} /\ evicting[t].stage = "busy"
      /\ evicting'[t] = NoEviction
      /\ evicting'[t].stage = "none" /\ evicting'[t].sockets = {} /\ evicting'[t].pairs = {}
  BY <1>0 DEF EvictEnd, NoEviction, TypeOK
<1>3. TypeOK'
  BY <1>0, <1>1 DEF TypeOK, EvictEnd, NoEviction
<1>4. Evictions'
  BY <1>0, <1>t, <1>1, <1>2 DEF Evictions
<1>5. Heard'
  BY <1>0, <1>t, <1>1, <1>2 DEF Heard
<1>6. OutsidersAreEvicted'
  BY <1>0, <1>t, <1>1, <1>2 DEF OutsidersAreEvicted, HasAccess, BeingEvicted
<1>7. Closed' /\ Recorded' /\ Aged' /\ Allowed'
      /\ InRoomIsShown'
  BY <1>0, <1>1 DEF Closed, Recorded, Aged, Allowed, HasAccess, InRoomIsShown, Field
<1>8. QED
  BY <1>3, <1>4, <1>5, <1>6, <1>7 DEF IInv

-----------------------------------------------------------------------------

LEMMA Initially == Init => IInv
<1> SUFFICES ASSUME Init
             PROVE  IInv
  OBVIOUS
<1>1. /\ \A s \in Sockets : /\ conn[s] = "open" /\ inRoom[s] = {} /\ joined[s] = {}
                            /\ quitting[s] = {}
      /\ \A p \in Pairs : entry[p] = "none" /\ joining[p] = "no"
      /\ \A t \in Targets : /\ evicting[t].stage = "none" /\ evicting[t].sockets = {}
                            /\ evicting[t].pairs = {}
      /\ Project \in Targets /\ sweep = {}
  BY DEF Init, NoEviction, Targets
<1>2. TypeOK
  BY RealtimeAssumption DEF Init, TypeOK, NoEviction
<1>3. Closed /\ Recorded /\ Aged /\ Evictions /\ Heard
  BY <1>1 DEF Closed, Recorded, Aged, Evictions, Heard
<1>4. Allowed /\ OutsidersAreEvicted /\ InRoomIsShown
  BY <1>1 DEF Allowed, OutsidersAreEvicted, InRoomIsShown, Pairs
<1>5. QED
  BY <1>2, <1>3, <1>4 DEF IInv

LEMMA Inductive == IInv /\ [Next]_vars => IInv'
<1> SUFFICES ASSUME IInv, [Next]_vars
             PROVE  IInv'
  OBVIOUS
<1>1. ASSUME NEW s \in Sockets, NEW v \in Versions,
             \/ Enter(s, v) \/ Show(s, v) \/ LeaveProject(s, v) \/ Quit(s, v)
             \/ WriteBeat(s, v) \/ Authorize(s, v) \/ Leave(s, v) \/ Beat(s, v)
      PROVE  IInv'
  <2>1. CASE Enter(s, v)  BY <2>1, EnterKeeps
  <2>2. CASE Show(s, v)  BY <2>2, ShowKeeps
  <2>3. CASE LeaveProject(s, v)  BY <2>3, LeaveProjectKeeps
  <2>4. CASE Quit(s, v)  BY <2>4, QuitKeeps
  <2>5. CASE WriteBeat(s, v)  BY <2>5, WriteBeatKeeps
  <2>6. CASE Authorize(s, v)  BY <2>6, AuthorizeKeeps
  <2>7. CASE Leave(s, v)  BY <2>7, LeaveKeeps
  <2>8. CASE Beat(s, v)  BY <2>8, BeatKeeps
  <2>9. QED
    BY <1>1, <2>1, <2>2, <2>3, <2>4, <2>5, <2>6, <2>7, <2>8
<1>2. ASSUME NEW t \in Targets, Fetch(t) \/ EvictEnd(t)
      PROVE  IInv'
  BY <1>2, FetchKeeps, EvictEndKeeps
<1>3. ASSUME NEW t \in Targets, NEW s \in Sockets, EvictSocket(t, s)
      PROVE  IInv'
  BY <1>3, EvictSocketKeeps
<1>4. ASSUME NEW t \in Targets, NEW s \in Sockets, NEW v \in Versions, EvictVersion(t, s, v)
      PROVE  IInv'
  BY <1>4, EvictVersionKeeps
<1>5. ASSUME SweepRead \/ SweepDelete \/ DeleteProject
      PROVE  IInv'
  BY <1>5, SweepReadKeeps, SweepDeleteKeeps, DeleteProjectKeeps
<1>6. ASSUME NEW p \in Pairs, Age(p)
      PROVE  IInv'
  BY <1>6, AgeKeeps
<1>7. ASSUME NEW s \in Sockets, Disconnect(s)
      PROVE  IInv'
  BY <1>7, DisconnectKeeps
<1>8. ASSUME NEW u \in Users, RemoveMember(u)
      PROVE  IInv'
  BY <1>8, RemoveMemberKeeps
<1>9. ASSUME NEW u \in Users, NEW r \in {"admin", "other"}, SetRole(u, r)
      PROVE  IInv'
  BY <1>9, SetRoleKeeps
<1>10. CASE UNCHANGED vars
  <2>1. TypeOK' /\ Closed' /\ Recorded' /\ Aged' /\ Evictions'
    BY <1>10
       DEF vars, members, rooms, hash, IInv, TypeOK, Closed, Recorded, Aged,
           Evictions
  <2>2. Heard' /\ Allowed' /\ OutsidersAreEvicted' /\ InRoomIsShown'
    BY <1>10
       DEF vars, members, rooms, hash, IInv, Heard, Allowed, OutsidersAreEvicted,
           InRoomIsShown, HasAccess, BeingEvicted
  <2>3. QED
    BY <2>1, <2>2 DEF IInv
<1>11. CASE Handler
  BY <1>1, <1>2, <1>3, <1>4, <1>11 DEF Handler
<1>12. QED
  BY <1>1, <1>5, <1>6, <1>7, <1>8, <1>9, <1>10, <1>11 DEF Next

LEMMA Invariant == Spec => []IInv
BY Initially, Inductive, PTL DEF Spec

-----------------------------------------------------------------------------
(* The results *)

\* Every reachable state has its type, for any sockets, versions and bounds.
THEOREM RealtimeTyped == Spec => []TypeOK
<1>1. IInv => TypeOK
  BY DEF IInv
<1>2. QED
  BY <1>1, Invariant, PTL

\* OutsidersAreEvicted: a socket whose user lost the access is in a diagram room only
\* while it is being evicted, or by a join allowed before (revocation.ts, rooms.ts).
THEOREM RevocationReachesAll == Spec => []OutsidersAreEvicted
<1>1. IInv => OutsidersAreEvicted
  BY DEF IInv
<1>2. QED
  BY <1>1, Invariant, PTL

\* InRoomIsShown: whoever is in the room of a diagram is seen there, unless its
\* heartbeats failed for the whole TTL (presence.ts).
THEOREM PresenceShowsAll == Spec => []InRoomIsShown
<1>1. IInv => InRoomIsShown
  BY DEF IInv
<1>2. QED
  BY <1>1, Invariant, PTL

\* HearsProject: a socket in the room of a diagram hears its project, or is being
\* taken out of that room (rooms.ts room:leave).
THEOREM ShowingIsHearing == Spec => []HearsProject
<1>1. ASSUME IInv
      PROVE  HearsProject
  <2> SUFFICES ASSUME NEW s \in Sockets, inRoom[s] # {}, s \notin inProject
               PROVE  \E v \in inRoom[s] : BeingEvicted(s, v)
    BY DEF HearsProject
  <2>1. PICK v \in inRoom[s] : TRUE
    OBVIOUS
  <2>2. PICK t \in Targets : <<s, v>> \in evicting[t].pairs
    BY <1>1, <2>1 DEF IInv, Heard
  <2>3. t \in {Owner[s], Project}
    BY <1>1, <2>1, <2>2 DEF IInv, Evictions, TypeOK
  <2>4. QED
    BY <2>1, <2>2, <2>3 DEF BeingEvicted
<1>2. QED
  BY <1>1, Invariant, PTL
=============================================================================
