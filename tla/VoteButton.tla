------------------------------ MODULE VoteButton ------------------------------
(***************************************************************************)
(* The vote of one requirement as one tab shows it (web VoteButton.tsx):   *)
(* the button has a state of its own, changed at once and taken back when  *)
(* the server refuses, and replaced whenever the requirement in the cache  *)
(* changes, by an event or by a list fetched again.                        *)
(***************************************************************************)
EXTENDS Naturals

CONSTANTS MaxOthers,   \* bound: votes of other people
          MaxClicks    \* bound: clicks of the user

VARIABLES
  votes,   \* the requirement on the server: how many votes others gave, and one's own
  prop,    \* the requirement in the cache
  shown,   \* the state of the button
  before,  \* the state a failure goes back to
  click,   \* the stage of the request, with its answer
  stale,   \* history: an answer or a failure replaced a newer state
  clicks

vars == <<votes, prop, shown, before, click, stale, clicks>>

States == [others : 0..MaxOthers, mine : BOOLEAN]
None == [others |-> 0, mine |-> FALSE]
Idle == [pc |-> "idle", answer |-> None]

TypeOK ==
  /\ votes \in States /\ prop \in States /\ shown \in States /\ before \in States
  /\ click \in [pc : {"idle", "sent", "answered", "refused", "refreshing"},
                answer : States]
  /\ stale \in BOOLEAN
  /\ clicks \in 0..MaxClicks

Init ==
  /\ votes = None /\ prop = None /\ shown = None /\ before = None
  /\ click = Idle
  /\ stale = FALSE
  /\ clicks = 0

OtherVotes ==
  /\ votes.others < MaxOthers
  /\ votes' = [votes EXCEPT !.others = @ + 1]
  /\ UNCHANGED <<prop, shown, before, click, stale, clicks>>

\* The effect runs when the requirement in the cache is another.
Follow ==
  /\ prop' = votes
  /\ IF votes # prop THEN shown' = votes /\ stale' = FALSE
                     ELSE UNCHANGED <<shown, stale>>

\* vote.changed, or a list fetched for another reason.
CacheFollows ==
  /\ prop # votes
  /\ Follow
  /\ UNCHANGED <<votes, before, click, clicks>>

Toggle ==
  /\ click.pc = "idle"
  /\ clicks < MaxClicks
  /\ clicks' = clicks + 1
  /\ before' = shown
  /\ shown' = [shown EXCEPT !.mine = ~@]
  /\ click' = [Idle EXCEPT !.pc = "sent", !.answer.mine = ~shown.mine]
  /\ UNCHANGED <<votes, prop, stale>>

Voted ==
  /\ click.pc = "sent"
  /\ votes' = [votes EXCEPT !.mine = click.answer.mine]
  /\ click' = [pc |-> "answered", answer |-> votes']
  /\ UNCHANGED <<prop, shown, before, stale, clicks>>

\* Refused, or without an answer after all.
Refuse ==
  /\ click.pc \in {"sent", "answered"}
  /\ click' = [Idle EXCEPT !.pc = "refused"]
  /\ UNCHANGED <<votes, prop, shown, before, stale, clicks>>

Answered ==
  /\ click.pc = "answered"
  /\ shown' = click.answer
  /\ stale' = (prop = votes /\ click.answer # votes)
  /\ click' = [Idle EXCEPT !.pc = "refreshing"]
  /\ UNCHANGED <<votes, prop, before, clicks>>

\* Slip: the vote stays shown.
StaysShown == UNCHANGED shown

RolledBack == shown' = before

Refused ==
  /\ click.pc = "refused"
  /\ RolledBack
  /\ stale' = (prop = votes /\ before # votes)
  /\ click' = Idle
  /\ UNCHANGED <<votes, prop, before, clicks>>

\* invalidateQueries.
Refreshed ==
  /\ click.pc = "refreshing"
  /\ Follow
  /\ click' = Idle
  /\ UNCHANGED <<votes, before, clicks>>

Next ==
  \/ OtherVotes \/ CacheFollows
  \/ Toggle \/ Voted \/ Refuse \/ Answered \/ Refused \/ Refreshed

-----------------------------------------------------------------------------
(* Properties. *)

\* When nothing is on its way the button shows the votes there are, except after an
\* answer or a failure that came later than a newer state of the cache.
\* (VoteButton.tsx: "el contador cambia al pulsar y vuelve atrás si la API lo rechaza")
ShowsVotes == click.pc = "idle" /\ prop = votes => shown = votes \/ stale

=============================================================================
