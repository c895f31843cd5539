------------------------------- MODULE Autosave -------------------------------
(***************************************************************************)
(* The autosave of the activities editor (web useAutosave.tsx, with the    *)
(* cache of editor/api.ts) for one activity and one field of it: what the  *)
(* user types goes to the cache at once, is held for 500 ms and is sent    *)
(* with If-Match and the rev of the cache, one PATCH at a time.            *)
(*                                                                         *)
(* Meanwhile another administrator saves the same activity, the cache is   *)
(* fetched again whenever something else of the version changes, an answer *)
(* may be lost, and deleting the activity discards what is pending.  The   *)
(* entry of the map that is discarded lives on in its PATCH, if it has     *)
(* one: entries are numbered.  The server may also come to refuse: with a  *)
(* 409 of another kind, whose body the editor takes for the activity, or   *)
(* with an error that it retries for as long as it lasts.                  *)
(***************************************************************************)
EXTENDS Naturals

CONSTANTS MaxEdits,    \* bound: edits of the user
          MaxOthers,   \* bound: saves of the other administrator
          MaxFetches,  \* bound: times the cache is fetched again
          MaxErrors,   \* bound: PATCHes without an answer
          MaxDiscards, \* bound: times the activity is about to be deleted
          MaxPulls,    \* bound: activities deleted that this one leads to
          Refusals     \* how the server may come to refuse: "closed", "never"

Entries == 0..MaxDiscards
Nothing == 0
Edits == 1..MaxEdits
Foreign == MaxEdits + 1       \* what the other administrator writes
Junk == MaxEdits + 2          \* the body of an error in the place of the activity
Values == Nothing..Junk
\* Each edit is sent once, and once more after each PATCH without an answer.
Revs == 0..(MaxEdits + MaxErrors + MaxOthers + MaxPulls)
Copies == [rev : Revs, value : Values]

VARIABLES
  server,    \* the activity in the database
  cache,     \* the activity in the cache of the tab
  entry,     \* the entries of pending
  current,   \* the entry the map holds now
  answer,    \* the PATCH of each entry, on its way or answered
  fetch,     \* the answer of a fetch on its way
  edits, others, fetches, errors, pulls,
  conflict,  \* the tab shows that another administrator changed the activity
  real,      \* history: the other administrator saved what the tab has not got
  confused,  \* history: a PATCH without answer, a fetch, a discarded PATCH or the
             \* deletion of an activity has left a rev of another time in the cache
  page,      \* the editor is on screen, was left, or its page was closed
  takes      \* what the server does with a PATCH: "open", it looks at its rev; "closed",
             \* a 409 (the project was closed, the version published); "never", another
             \* 4xx (the role was lost, the activity deleted, the patch is not valid)

count == <<edits, others, fetches, errors, pulls>>
vars == <<server, cache, entry, current, answer, fetch, count, conflict, real,
          confused, page, takes>>

NoPatch == [patch |-> Nothing, timer |-> FALSE, saving |-> FALSE]
NoAnswer == [pc |-> "none", patch |-> Nothing, rev |-> 0, value |-> Nothing]
NoFetch == [pc |-> "none", rev |-> 0, value |-> Nothing]

TypeOK ==
  /\ server \in Copies /\ cache \in Copies
  /\ entry \in [Entries -> [patch : Values, timer : BOOLEAN, saving : BOOLEAN]]
  /\ current \in Entries
  /\ answer \in [Entries -> [pc : {"none", "sent", "ok", "conflict", "error"},
                             patch : Values, rev : Revs, value : Values]]
  /\ fetch \in [pc : {"none", "read"}, rev : Revs, value : Values]
  /\ edits \in 0..MaxEdits /\ others \in 0..MaxOthers
  /\ fetches \in 0..MaxFetches /\ errors \in 0..MaxErrors /\ pulls \in 0..MaxPulls
  /\ conflict \in BOOLEAN /\ real \in BOOLEAN /\ confused \in BOOLEAN
  /\ page \in {"editor", "left", "closed"}
  /\ takes \in {"open", "closed", "never"}

Init ==
  /\ server = [rev |-> 0, value |-> Nothing]
  /\ cache = server
  /\ entry = [e \in Entries |-> NoPatch]
  /\ current = 0
  /\ answer = [e \in Entries |-> NoAnswer]
  /\ fetch = NoFetch
  /\ edits = 0 /\ others = 0 /\ fetches = 0 /\ errors = 0 /\ pulls = 0
  /\ conflict = FALSE /\ real = FALSE /\ confused = FALSE
  /\ page = "editor" /\ takes = "open"

\* schedule(id) sets the timer of the entry the map holds.
Scheduled(entries) == [entries EXCEPT ![current].timer = TRUE]

\* Slip: what was typed during a save waits for the next edit.
FreedOnly(e, patch) == [entry EXCEPT ![e].patch = patch, ![e].saving = FALSE]

\* What finally does: the entry is free, and what is still pending is scheduled.
Freed(e, patch) ==
  LET entries == [entry EXCEPT ![e].patch = patch, ![e].saving = FALSE] IN
  IF patch # Nothing THEN Scheduled(entries) ELSE entries

Or(patch, value) == IF patch # Nothing THEN patch ELSE value

\* activityCache.update(id, ...): the body of an error has no id to find it by.
Cached(copy) == cache' = IF cache.value = Junk THEN cache ELSE copy

\* The user edits the field.
Save ==
  /\ page = "editor"
  /\ edits < MaxEdits
  /\ edits' = edits + 1
  /\ Cached([cache EXCEPT !.value = edits'])
  /\ entry' = Scheduled([entry EXCEPT ![current].patch = edits'])
  /\ conflict' = FALSE
  /\ UNCHANGED <<server, current, answer, fetch, others, fetches, errors, pulls,
                 real, confused, page, takes>>

\* Slip: a PATCH does not wait for the one before.
MaySendAgain(e) == entry[e].patch # Nothing /\ cache.value # Junk

MaySend(e) == ~entry[e].saving /\ entry[e].patch # Nothing /\ cache.value # Junk

\* What flush(id) does to the current entry.
Send ==
  IF MaySend(current)
  THEN /\ entry' = [entry EXCEPT ![current] =
                      [patch |-> Nothing, timer |-> FALSE, saving |-> TRUE]]
       /\ answer' = [answer EXCEPT ![current] =
                       [pc |-> "sent", patch |-> entry[current].patch,
                        rev |-> cache.rev, value |-> Nothing]]
  ELSE entry' = [entry EXCEPT ![current].timer = FALSE] /\ UNCHANGED answer

\* The 500 ms are over.
Flush ==
  /\ page # "closed"
  /\ entry[current].timer
  /\ Send
  /\ UNCHANGED <<server, cache, current, fetch, count, conflict, real, confused,
                 page, takes>>

\* The editor is left: what is pending is sent and the timers are cleared.  What is
\* typed behind a PATCH on its way waits for its answer, if the page lives.
Unmount ==
  /\ page = "editor"
  /\ page' = "left"
  /\ Send
  /\ UNCHANGED <<server, cache, current, fetch, count, conflict, real, confused, takes>>

\* The page is closed or reloaded: pagehide sends what is pending, if the editor is
\* on screen.  The PATCHes on their way reach the server all the same (keepalive).
Close ==
  /\ page # "closed"
  /\ page' = "closed"
  /\ IF page = "editor" THEN Send ELSE UNCHANGED <<entry, answer>>
  /\ UNCHANGED <<server, cache, current, fetch, count, conflict, real, confused, takes>>

-----------------------------------------------------------------------------
(* The server. *)

IsCurrent(rev) == rev = server.rev

Stored(value) == [rev |-> server.rev + 1, value |-> value]

Reply(e, pc, copy) ==
  answer' = [answer EXCEPT ![e].pc = pc, ![e].rev = copy.rev, ![e].value = copy.value]

\* The server refuses: 409 with {code, message}, or another error.
Refused(e) ==
  /\ takes # "open"
  /\ IF takes = "closed" THEN Reply(e, "conflict", [rev |-> 0, value |-> Junk])
                        ELSE answer' = [answer EXCEPT ![e].pc = "error"]
  /\ UNCHANGED <<server, real>>

Patched(e) ==
  /\ answer[e].pc = "sent"
  /\ \/ /\ takes = "open" /\ IsCurrent(answer[e].rev)
        /\ server' = Stored(answer[e].patch)
        /\ Reply(e, "ok", server')
        /\ real' = FALSE
     \/ /\ takes = "open" /\ ~IsCurrent(answer[e].rev)
        /\ Reply(e, "conflict", server)
        /\ UNCHANGED <<server, real>>
     \/ Refused(e)
  /\ UNCHANGED <<cache, entry, current, fetch, count, conflict, confused, page, takes>>

\* The project is closed or opened again, the version is published, the role is lost.
Turn ==
  /\ takes' \in (Refusals \cup {"open"}) \ {takes}
  /\ UNCHANGED <<server, cache, entry, current, answer, fetch, count, conflict, real,
                 confused, page>>

\* The PATCH or its answer is lost, or the server fails (5xx).
Lost(e) ==
  /\ answer[e].pc \in {"sent", "ok", "conflict"}
  /\ errors < MaxErrors
  /\ errors' = errors + 1
  /\ answer' = [answer EXCEPT ![e].pc = "error"]
  /\ confused' = (confused \/ answer[e].pc = "ok")
  /\ UNCHANGED <<server, cache, entry, current, fetch, edits, others, fetches,
                 pulls, conflict, real, page, takes>>

Other ==
  /\ others < MaxOthers
  /\ others' = others + 1
  /\ server' = Stored(Foreign)
  /\ real' = TRUE
  /\ UNCHANGED <<cache, entry, current, answer, fetch, edits, fetches, errors,
                 pulls, conflict, confused, page, takes>>

\* The user deletes an activity this one leads to: the server takes it out of
\* next and counts a change, the cache of the tab keeps the rev it has.
Pull ==
  /\ page = "editor" /\ takes = "open"
  /\ pulls < MaxPulls
  /\ pulls' = pulls + 1
  /\ server' = Stored(server.value)
  /\ confused' = TRUE
  /\ UNCHANGED <<cache, entry, current, answer, fetch, edits, others, fetches,
                 errors, conflict, real, page, takes>>

-----------------------------------------------------------------------------
(* The answers. *)

\* Slip: the answer replaces what was typed meanwhile.
Answered(e) == [rev |-> answer[e].rev, value |-> answer[e].value]

\* What was typed meanwhile stays on screen.
Merged(e) == [rev |-> answer[e].rev, value |-> Or(entry[e].patch, answer[e].value)]

Done(e) == answer' = [answer EXCEPT ![e] = NoAnswer]

Ok(e) ==
  /\ page # "closed"
  /\ answer[e].pc = "ok"
  /\ Cached(Merged(e))
  /\ entry' = Freed(e, entry[e].patch)
  /\ Done(e)
  /\ confused' = (confused \/ e # current \/ fetch # NoFetch)
  /\ UNCHANGED <<server, current, fetch, count, conflict, real, page, takes>>

\* Any 409 is taken for the save of another administrator, and its body for the
\* activity: one of another kind leaves no activity in the cache.
Conflict(e) ==
  /\ page # "closed"
  /\ answer[e].pc = "conflict"
  /\ Cached([rev |-> answer[e].rev, value |-> answer[e].value])
  /\ entry' = Freed(e, Nothing)
  /\ Done(e)
  /\ conflict' = TRUE
  /\ real' = IF answer[e].value = Junk THEN real ELSE answer[e].rev # server.rev
  /\ confused' = (confused \/ e # current \/ fetch # NoFetch)
  /\ UNCHANGED <<server, current, fetch, count, page, takes>>

\* What was sent is pending again, under what was typed meanwhile, and is scheduled
\* at once: an error that lasts is retried every 500 ms for as long as it does.
Failed(e) ==
  /\ page # "closed"
  /\ answer[e].pc = "error"
  /\ entry' = Freed(e, Or(entry[e].patch, answer[e].patch))
  /\ Done(e)
  /\ UNCHANGED <<server, cache, current, fetch, count, conflict, real, confused,
                 page, takes>>

\* The version is invalidated by something else and fetched again.
Fetch ==
  /\ page # "closed"
  /\ fetch = NoFetch
  /\ fetches < MaxFetches
  /\ fetches' = fetches + 1
  /\ fetch' = [pc |-> "read", rev |-> server.rev, value |-> server.value]
  /\ UNCHANGED <<server, cache, entry, current, answer, edits, others, errors,
                 pulls, conflict, real, confused, page, takes>>

Fetched ==
  /\ page # "closed"
  /\ fetch # NoFetch
  /\ cache' = [rev |-> fetch.rev, value |-> fetch.value]
  /\ fetch' = NoFetch
  /\ real' = (fetch.rev # server.rev)
  /\ confused' = (confused \/ \E e \in Entries : entry[e] # NoPatch)
  /\ UNCHANGED <<server, entry, current, answer, count, conflict, page, takes>>

\* The activity is about to be deleted, and the server may refuse: what is
\* pending is discarded all the same, and the next edit makes a new entry.
Discard ==
  /\ page = "editor"
  /\ current < MaxDiscards
  /\ current' = current + 1
  /\ entry' = [entry EXCEPT ![current].timer = FALSE]
  /\ confused' = (confused \/ entry[current].saving)
  /\ UNCHANGED <<server, cache, answer, fetch, count, conflict, real, page, takes>>

Next ==
  \/ Save \/ Flush \/ Unmount \/ Close \/ Other \/ Pull \/ Turn \/ Fetch \/ Fetched
  \/ Discard
  \/ \E e \in Entries : Patched(e) \/ Lost(e) \/ Ok(e) \/ Conflict(e) \/ Failed(e)

\* The browser runs the timers and gets the answers.
Fairness ==
  /\ WF_vars(Flush) /\ WF_vars(Fetched)
  /\ \A e \in Entries :
       WF_vars(Patched(e)) /\ WF_vars(Ok(e)) /\ WF_vars(Conflict(e)) /\ WF_vars(Failed(e))

Spec == Init /\ [][Next]_vars /\ Fairness

-----------------------------------------------------------------------------
(* Properties. *)

\* Another administrator is blamed only when there was one: a conflict is not
\* with the tab's own saves, except after a lost answer, a discarded PATCH, a
\* fetch that crossed a save or the deletion of an activity this one leads to, and
\* except for a 409 of another kind, which leaves no activity in the cache.
\* (useAutosave.tsx flush: "Un solo PATCH por actividad a la vez")
ConflictIsReal == ~conflict /\ conflict' => real \/ confused \/ cache'.value = Junk

\* What useAutosave.tsx says of a conflict: "Un 409 (otro administrador guardó antes)
\* recarga la actividad y avisa".  It also comes to an administrator alone.
ConflictNeedsAnother == [][~conflict /\ conflict' => others > 0]_vars

\* What was typed during a save stays on screen, unless the body of an error has
\* taken the place of the activity.  (useAutosave.tsx flush: "se conserva en pantalla")
TypedIsShown ==
  entry[current].patch # Nothing =>
    cache.value = entry[current].patch \/ confused \/ cache.value = Junk

\* Every edit ends while the page lives: it is sent until it is stored or a conflict
\* takes it back, also after lost answers and after the editor was left.  The server
\* may refuse it for ever, and then it is retried for ever; and with the body of an
\* error in the place of the activity nothing is sent, until the version is fetched
\* again and the next edit comes.
EditsEnd ==
  [](cache.value # Junk) =>
    []<>(entry[current] = NoPatch \/ takes = "never" \/ page = "closed")

=============================================================================
