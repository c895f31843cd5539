------------------------------- MODULE Dashboard -------------------------------
(***************************************************************************)
(* The pure part of the descriptive dashboard and of the coverage layer:   *)
(* which requirements a range of days selects in the time zone of the      *)
(* project (dashboard/filters.ts), the counts by activity and by day       *)
(* (descriptive.service.ts), and the effective votes and top summaries of  *)
(* an activity, computed once for the notes (details/coverage.ts) and once *)
(* for the list (details/service.ts).  One initial state per input.        *)
(***************************************************************************)
EXTENDS Integers, Sequences, FiniteSets, FiniteSetsExt

CONSTANTS Keys,     \* activities of the published version
          Removed,  \* an activity that is no longer in it
          Rows,     \* the requirements, numbered by their date
          Votes     \* how many votes one may have

VARIABLE input
vars == <<input>>

\* Time is counted in hours of a day of six; a zone changes its offset once.
DAY == 6
Instants == 0..4 * DAY - 1
Zones == {z \in [before : -2..2, after : -2..2, at : DAY - 3..3 * DAY + 3] :
            z.after - z.before \in {-1, 1}}
Statuses == {"pending", "validated", "duplicate", "discarded"}
Defaults == {"pending", "validated"}

\* A requirement: nobody is its own duplicate; that the original is not a
\* duplicate was checked only when the duplicate was marked.
Details == [Rows -> [activity : Keys \cup {Removed}, status : {"pending", "duplicate", "discarded"},
                     of : Rows, votes : Votes]]
IsConsistent(details) ==
  \A r \in Rows : (details[r].status = "duplicate") = (details[r].of # r)

Clock == [kind : {"clock"}, zone : Zones, from : 1..2, to : 1..2]
Content == [kind : {"content"}, details : {d \in Details : IsConsistent(d)}]

-----------------------------------------------------------------------------
offset(zone, t) == IF t < zone.at THEN zone.before ELSE zone.after
local(zone, t) == t + offset(zone, t)
dayOf(zone, t) == local(zone, t) \div DAY

\* The slip takes the first estimate.
OnePass(zone, day) == day * DAY - offset(zone, day * DAY)
zonedDayStart(zone, day) == day * DAY - offset(zone, OnePass(zone, day))

inRange(zone, from, to, t) ==
  zonedDayStart(zone, from) <= t /\ t < zonedDayStart(zone, to + 1)

-----------------------------------------------------------------------------
\* The slip forgets that an original already stands for its duplicates.
SelectedAll(statuses) == statuses
Selected(statuses) == statuses \ {"duplicate"}

byActivity(details, statuses, key) ==
  Cardinality({r \in Rows : details[r].activity = key /\ details[r].status \in Selected(statuses)})

counts(detail) == detail.status \notin {"discarded", "duplicate"}

\* The votes of a requirement and of its duplicates, wherever they are; the
\* slip looks for duplicates in the same activity.
OwnActivity(details, r) == {d \in Rows : details[d].status = "duplicate" /\ details[d].of = r
                                         /\ details[d].activity = details[r].activity}
Duplicates(details, r) == {d \in Rows : details[d].status = "duplicate" /\ details[d].of = r}
sum(f, S) == MapThenSumSet(LAMBDA x : f[x], S)
own(details) == [r \in Rows |-> details[r].votes]
effective(details, r) == details[r].votes + sum(own(details), Duplicates(details, r))

\* By effective votes, then the newest first: the place of each is the number
\* of those before it.
Before(details, a, b) ==
  \/ effective(details, a) > effective(details, b)
  \/ effective(details, a) = effective(details, b) /\ a > b
Place(details, S, r) == Cardinality({q \in S : Before(details, q, r)})
Sorted(details, S) == [i \in 1..Cardinality(S) |-> CHOOSE r \in S : Place(details, S, r) = i - 1]
Written(details, key) == {r \in Rows : details[r].activity = key}
list(details, key) == Sorted(details, Written(details, key))

living(details, key) == {r \in Rows : details[r].activity = key /\ counts(details[r])}
total(details, key) == Cardinality(living(details, key))
effectiveVotes(details, key) == sum([r \in Rows |-> effective(details, r)], living(details, key))

\* The first of the living by votes; the slip orders by their own votes.
TOP == 2
TopOfOwn(details, key) ==
  LET first(a, b) == \/ details[a].votes > details[b].votes
                     \/ details[a].votes = details[b].votes /\ a > b
      alone == CHOOSE s \in [1..Cardinality(living(details, key)) -> living(details, key)] :
                 \A i, j \in DOMAIN s : i < j => first(s[i], s[j])
  IN  SubSeq(alone, 1, Min({TOP, Len(alone)}))
top(details, key) == LET all == Sorted(details, living(details, key)) IN SubSeq(all, 1, Min({TOP, Len(all)}))

-----------------------------------------------------------------------------
Init == input \in Clock \cup Content
Next == UNCHANGED input

\* A requirement is in the range asked exactly when the day the series shows
\* it under is one of those asked: the bounds (filters.ts) and the labels
\* (descriptive.service.ts:66) are computed apart, across a change of the
\* clocks too.  The days whose midnight the clocks skip or repeat are left
\* out: there zonedDayStart returns an hour of the day before, or the second
\* of the two midnights.
ReadOnce(zone, day) == Cardinality({t \in -DAY..5 * DAY : local(zone, t) = day * DAY}) = 1
RangeIsOfDays ==
  input.kind = "clock" /\ ReadOnce(input.zone, input.from) /\ ReadOnce(input.zone, input.to + 1) =>
    \A t \in Instants :
      inRange(input.zone, input.from, input.to, t)
        <=> dayOf(input.zone, t) \in input.from..input.to

\* Every vote of the project is in the effective votes of the activities
\* exactly once when it belongs to a living requirement of theirs or to a
\* duplicate of one, in whatever activity the duplicate was written: none is
\* lost with the activity and none counts twice.
Owner(details, r) == IF details[r].status = "duplicate" THEN details[r].of ELSE r
VotesCountOnce ==
  input.kind = "content" =>
    LET details == input.details
        owned == {r \in Rows : \E key \in Keys : Owner(details, r) \in living(details, key)}
    IN  sum([key \in Keys |-> effectiveVotes(details, key)], Keys) = sum(own(details), owned)

\* The members of a list that are in S, in their order.
Where(rows, S) ==
  LET upto[n \in 0..Len(rows)] ==
        IF n = 0 THEN <<>> ELSE IF rows[n] \in S THEN Append(upto[n - 1], rows[n]) ELSE upto[n - 1]
  IN  upto[Len(rows)]

\* The notes of an activity show the first living requirements of its list,
\* in the order of the list, though two pieces of code rank them.
TopIsOfList ==
  input.kind = "content" =>
    \A key \in Keys :
      LET shown == Where(list(input.details, key), {r \in Rows : counts(input.details[r])})
      IN  top(input.details, key) = SubSeq(shown, 1, Min({TOP, Len(shown)}))

\* The dashboard and the layer agree on how many requirements an activity
\* has, whether the reader of the dashboard adds the duplicates to the
\* statuses of the filter or not.
CountsAgree ==
  input.kind = "content" =>
    \A key \in Keys, statuses \in {Defaults, Defaults \cup {"duplicate"}} :
      byActivity(input.details, statuses, key) = total(input.details, key)
=============================================================================
