------------------------------ MODULE EventCache ------------------------------
(***************************************************************************)
(* What a tab keeps in its cache and the events that bring it up to date   *)
(* (web useRealtimeSync.ts), for one requirement: its text in the lists,   *)
(* which carries a rev, and its thread of comments.                        *)
(*                                                                         *)
(* A request of the server commits and then emits; the events of two       *)
(* requests may come out the other way round.  The tab gets the events of  *)
(* the room in the order they are emitted, while it is in the room.  It    *)
(* fetches list and thread again when it reconnects, at the same time as   *)
(* it joins, and whenever it has written something itself.                 *)
(***************************************************************************)
EXTENDS Naturals, FiniteSets, Sequences

CONSTANTS Requests,   \* the requests that write, each once
          MaxCuts,    \* bound: disconnections of the tab
          MaxFetches  \* bound: fetches, besides those of reconnecting

VARIABLES
  rev, comments,  \* the requirement in the database; a comment is named by its request
  request,        \* the stage of each request, with the event it will emit
  channel,        \* the events on their way to the tab
  text, thread,   \* the cache: the rev of the text shown, the comments shown
  room,           \* whether the tab is in the room
  answer,         \* the answers on their way, of the list and of the thread
  astray,         \* history: what an event was lost or undone for, see Astray
  cuts, fetches

server == <<rev, comments, request>>
cache == <<text, thread>>
vars == <<server, channel, cache, room, answer, astray, cuts, fetches>>

Queries == {"list", "thread"}
Revs == 0..Cardinality(Requests)
None == "none"
Event == [kind : {"none", "updated", "created", "deleted"}, rev : Revs,
          of : Requests \cup {None}]
NoEvent == [kind |-> "none", rev |-> 0, of |-> None]
Answer == [pc : {"none", "asked", "read"}, rev : Revs, set : SUBSET Requests,
           crossed : BOOLEAN]
NoAnswer == [pc |-> "none", rev |-> 0, set |-> {}, crossed |-> FALSE]

TypeOK ==
  /\ rev \in Revs /\ comments \subseteq Requests
  /\ request \in [Requests -> [pc : {"new", "committed", "emitted"}, event : Event]]
  /\ channel \in Seq(Event)
  /\ text \in Revs /\ thread \subseteq Requests
  /\ room \in {"in", "out", "joining"}
  /\ answer \in [Queries -> Answer]
  /\ astray \in [Queries -> BOOLEAN]
  /\ cuts \in 0..MaxCuts /\ fetches \in 0..MaxFetches

Init ==
  /\ rev = 0 /\ comments = {}
  /\ request = [r \in Requests |-> [pc |-> "new", event |-> NoEvent]]
  /\ channel = <<>>
  /\ text = 0 /\ thread = {}
  /\ room = "in"
  /\ answer = [q \in Queries |-> NoAnswer]
  /\ astray = [q \in Queries |-> FALSE]
  /\ cuts = 0 /\ fetches = 0

-----------------------------------------------------------------------------
(* The server. *)

Commit(r, event) ==
  /\ request[r].pc = "new"
  /\ request' = [request EXCEPT ![r] = [pc |-> "committed", event |-> event]]
  /\ UNCHANGED <<channel, cache, room, answer, astray, cuts, fetches>>

Edit(r) ==
  /\ rev' = rev + 1
  /\ UNCHANGED comments
  /\ Commit(r, [NoEvent EXCEPT !.kind = "updated", !.rev = rev'])

Comment(r) ==
  /\ comments' = comments \cup {r}
  /\ UNCHANGED rev
  /\ Commit(r, [NoEvent EXCEPT !.kind = "created", !.of = r])

Uncomment(r, c) ==
  /\ c \in comments
  /\ comments' = comments \ {c}
  /\ UNCHANGED rev
  /\ Commit(r, [NoEvent EXCEPT !.kind = "deleted", !.of = c])

\* The event is sent to the room.  One that comes while the tab is joining again
\* is lost for what the tab fetched before.
Emit(r) ==
  /\ request[r].pc = "committed"
  /\ request' = [request EXCEPT ![r].pc = "emitted"]
  /\ channel' = IF room = "in" THEN Append(channel, request[r].event) ELSE channel
  /\ IF room = "joining"
     THEN /\ astray' = [q \in Queries |-> TRUE]
          /\ answer' = [q \in Queries |->
                         [answer[q] EXCEPT !.crossed = answer[q].pc = "read"]]
     ELSE UNCHANGED <<astray, answer>>
  /\ UNCHANGED <<rev, comments, cache, room, cuts, fetches>>

-----------------------------------------------------------------------------
(* The events. *)

\* Slip: the event replaces whatever the list has.
IsAnyRev(event) == TRUE

IsNewer(event) == event.rev > text

Updated(event) ==
  /\ event.kind = "updated"
  /\ text' = IF IsNewer(event) THEN event.rev ELSE text
  /\ UNCHANGED thread

\* The thread has each comment once; the events that repeat one change nothing.
Created(event) ==
  /\ event.kind = "created"
  /\ thread' = thread \cup {event.of}
  /\ UNCHANGED text

Deleted(event) ==
  /\ event.kind = "deleted"
  /\ thread' = thread \ {event.of}
  /\ UNCHANGED text

\* The deletion of comment c is still to come to the tab.
DeletionComes(c) ==
  \/ \E r \in Requests : request[r].pc = "committed"
                         /\ request[r].event.kind = "deleted"
                         /\ request[r].event.of = c
  \/ \E i \in 1..Len(channel) : channel[i].kind = "deleted" /\ channel[i].of = c

Overtaken(event) ==
  event.kind = "created" /\ event.of \notin comments /\ ~DeletionComes(event.of)

Apply ==
  /\ channel # <<>>
  /\ channel' = Tail(channel)
  /\ LET event == Head(channel)
     IN /\ Updated(event) \/ Created(event) \/ Deleted(event)
        /\ astray' = [astray EXCEPT !["thread"] = @ \/ Overtaken(event)]
  /\ answer' = [q \in Queries |-> [answer[q] EXCEPT !.crossed = answer[q].pc = "read"]]
  /\ UNCHANGED <<server, room, cuts, fetches>>

-----------------------------------------------------------------------------
(* Fetching again, and the connection. *)

\* What was on its way is given up.
AskAgain == answer' = [q \in Queries |-> [NoAnswer EXCEPT !.pc = "asked"]]

Invalidate ==
  /\ fetches < MaxFetches
  /\ fetches' = fetches + 1
  /\ AskAgain
  /\ UNCHANGED <<server, channel, cache, room, astray, cuts>>

Read(q) ==
  /\ answer[q].pc = "asked"
  /\ answer' = [answer EXCEPT ![q] = [pc |-> "read", rev |-> rev, set |-> comments,
                                      crossed |-> FALSE]]
  /\ UNCHANGED <<server, channel, cache, room, astray, cuts, fetches>>

\* The answer replaces the entry of the cache, also when an event came after it.
Got(q) ==
  /\ answer[q].pc = "read"
  /\ IF q = "list" THEN text' = answer[q].rev /\ UNCHANGED thread
                   ELSE thread' = answer[q].set /\ UNCHANGED text
  /\ astray' = [astray EXCEPT ![q] = answer[q].crossed]
  /\ answer' = [answer EXCEPT ![q] = NoAnswer]
  /\ UNCHANGED <<server, channel, room, cuts, fetches>>

Cut ==
  /\ room # "out"
  /\ cuts < MaxCuts
  /\ cuts' = cuts + 1
  /\ room' = "out"
  /\ channel' = <<>>
  /\ UNCHANGED <<server, cache, answer, astray, fetches>>

\* Slip: only the room is joined again.
JoinOnly == UNCHANGED answer

\* onReconnect: everything is fetched, at the same time as the room is joined.
Resync == AskAgain

Reconnect ==
  /\ room = "out"
  /\ room' = "joining"
  /\ Resync
  /\ UNCHANGED <<server, channel, cache, astray, cuts, fetches>>

Joined ==
  /\ room = "joining"
  /\ room' = "in"
  /\ UNCHANGED <<server, channel, cache, answer, astray, cuts, fetches>>

Next ==
  \/ \E r \in Requests :
       \/ Edit(r) \/ Comment(r) \/ Emit(r)
       \/ \E c \in Requests : Uncomment(r, c)
  \/ \E q \in Queries : Read(q) \/ Got(q)
  \/ Apply \/ Invalidate \/ Cut \/ Reconnect \/ Joined

-----------------------------------------------------------------------------
(* Properties. *)

AtRest ==
  /\ \A r \in Requests : request[r].pc # "committed"
  /\ channel = <<>> /\ room = "in"
  /\ \A q \in Queries : answer[q] = NoAnswer

\* Whatever the order of the events and whatever was missed while the tab was
\* disconnected, at rest the tab shows the latest text, except when an event was
\* applied while a list read before it was on its way, or was emitted between the
\* list of the reconnection and the join.  (useRealtimeSync.ts detail.updated and
\* useRealtimeLifecycle: "lo ocurrido mientras tanto se vuelve a pedir")
TextConverges == AtRest => text = rev \/ astray["list"]

\* At rest the tab shows exactly the comments there are, with the same exceptions
\* and that of a comment whose deletion was emitted before its creation.
\* (useRealtimeSync.ts comment.created, comment.deleted and useRealtimeLifecycle)
ThreadConverges == AtRest => thread = comments \/ astray["thread"]

=============================================================================
