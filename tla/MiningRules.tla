------------------------------ MODULE MiningRules ------------------------------
(***************************************************************************)
(* The pure part of four techniques of the analysis (apps/analytics        *)
(* mining): which association rules are kept (association.py), which pairs *)
(* are candidates to duplicates (duplicates.py), the penalties of a        *)
(* requirement (quality.py) and which insights survive the check of their  *)
(* evidence (insights.py).  One initial state per input.                   *)
(***************************************************************************)
EXTENDS Naturals, Sequences, FiniteSets, FiniteSetsExt

CONSTANTS Items,   \* tags, types, priorities and activities
          Times,   \* bound: how many requirements have the same items
          Count,   \* requirements compared for duplicates
          Block,   \* rows compared at a time (_BLOCK)
          Terms,   \* bound: ambiguous terms of a field
          MAX_RULES,      \* rules shown: 30 in association.py
          MIN_INSIGHTS,   \* insights enough not to ask again: 3 in insights.py
          MAX_INSIGHTS    \* insights kept of an answer: 10 in insights.py

VARIABLE input
vars == <<input>>

Transactions == (SUBSET Items) \ {{}}
RuleInputs == [kind : {"rules"}, times : [Transactions -> Times]]

\* How like two requirements are: below both thresholds, above that of one
\* activity, above both.
Pairs == {p \in (1..Count) \X (1..Count) : p[1] < p[2]}
PairInputs == [kind : {"pairs"}, alike : [Pairs -> {"low", "same", "across"}],
               activity : [1..Count -> {"k", "l"}], decided : {{}, {<<1, 2>>}}]

\* The ambiguous terms of each of the three fields.
TermInputs == [kind : {"terms"}, found : [1..3 -> 0..Terms]]

\* Insights: one evidence and one figure each, its own or that of another evidence.
\* A call that raises is a refusal, no answer in time, or one that is not understood.
Drafts == [id : {"real", "invented"}, figure : {"none", "real", "other"}]
Answers(most) == UNION {[1..n -> Drafts] : n \in 0..most}
InsightInputs == [kind : {"insights"}, raises : {"none", "first", "again"},
                  first : Answers(MAX_INSIGHTS + 1), again : Answers(MAX_INSIGHTS)]

-----------------------------------------------------------------------------
\* Requirements that have the items of X.
covering(times, X) == MapThenSumSet(LAMBDA t : times[t], {t \in Transactions : X \subseteq t})
everything(times) == covering(times, {})
MIN_COUNT == 3

\* Rules with at most three items, support at least 1/20, confidence at least
\* 6/10 and lift above 12/10, compared without division.
MAX_LEN == 3
found(times) ==
  {r \in [ante : (SUBSET Items) \ {{}}, cons : (SUBSET Items) \ {{}}] :
     LET both == covering(times, r.ante \cup r.cons)
     IN  /\ r.ante \cap r.cons = {} /\ Cardinality(r.ante \cup r.cons) <= MAX_LEN
         /\ both >= MIN_COUNT /\ 20 * both >= everything(times)
         /\ 10 * both >= 6 * covering(times, r.ante)
         /\ 10 * both * everything(times) > 12 * covering(times, r.ante) * covering(times, r.cons)}

\* Confidence of `simple` at least that of r less 5/100.
NotWorse(times, simple, r) ==
  LET s == covering(times, simple.ante \cup simple.cons)  sa == covering(times, simple.ante)
      c == covering(times, r.ante \cup r.cons)  ca == covering(times, r.ante)
  IN  100 * s * ca + 5 * sa * ca >= 100 * c * sa

\* The slip compares a rule with itself too.
ItselfToo(times, r) == \E s \in found(times) : s.ante \subseteq r.ante /\ s.cons = r.cons /\ NotWorse(times, s, r)
redundant(times, r) ==
  \E s \in found(times) : s.ante \subseteq r.ante /\ s.ante # r.ante /\ s.cons = r.cons /\ NotWorse(times, s, r)
kept(times) == {r \in found(times) : ~redundant(times, r)}

\* By lift, and then by confidence.
Ahead(times, s, r) ==
  LET s2 == covering(times, s.ante \cup s.cons)  r2 == covering(times, r.ante \cup r.cons)
      sa == covering(times, s.ante)  ra == covering(times, r.ante)
      lift(x, xa, cons) == x * xa * covering(times, cons)
  IN  \/ lift(s2, ra, r.cons) > lift(r2, sa, s.cons)
      \/ lift(s2, ra, r.cons) = lift(r2, sa, s.cons) /\ s2 * ra > r2 * sa

\* Which rules may be shown of those kept: all, or the first MAX_RULES, where
\* their names decide between equals.
Shown(times, all) ==
  {S \in SUBSET all :
     /\ S = all \/ Cardinality(S) = MAX_RULES
     /\ Cardinality(S) <= MAX_RULES
     /\ \A s \in S, t \in all \ S : ~Ahead(times, t, s)}

-----------------------------------------------------------------------------
\* Rows start..start+Block-1 of the block against every column; the slip
\* forgets that rows of a block are numbered from its start.
Above(in, row, column) ==
  LET alike == in.alike[<<row, column>>]
  IN  alike = "across" \/ (alike = "same" /\ in.activity[row] = in.activity[column])
BlockOfFirst(in, start) ==
  {p \in Pairs : p[1] \in 1..Block /\ Above(in, p[1], p[2]) /\ p \notin in.decided}
OfBlock(in, start) ==
  {p \in Pairs : p[1] \in start..start + Block - 1 /\ Above(in, p[1], p[2]) /\ p \notin in.decided}
candidates(in) ==
  UNION {OfBlock(in, start) : start \in {s \in 1..Count : (s - 1) % Block = 0}}

-----------------------------------------------------------------------------
AMBIGUOUS_PENALTY == 15
AMBIGUOUS_MAX == 45

\* The terms of one field: the loop stops when there is no penalty left.  The
\* slip starts again in each field.
PerField(sum, terms) == sum + Min({AMBIGUOUS_PENALTY * terms, AMBIGUOUS_MAX})
Field(sum, terms) == sum + Min({AMBIGUOUS_PENALTY * terms, AMBIGUOUS_MAX - sum})
ambiguous(fields) == Field(Field(Field(0, fields[1]), fields[2]), fields[3])

\* The other issues of the three fields: missing verbs, too few words, vague
\* references and a requirement that is not measurable.
OTHERS == (15 + 10) + 3 * 10 + 3 * 5 + 15
score(fields, others) == IF others + ambiguous(fields) > 100 THEN 0 ELSE 100 - (others + ambiguous(fields))

-----------------------------------------------------------------------------
\* The members of a list that are in S, in their order.
Where(list, S) ==
  LET upto[n \in 0..Len(list)] ==
        IF n = 0 THEN <<>> ELSE IF list[n] \in S THEN Append(upto[n - 1], list[n]) ELSE upto[n - 1]
  IN  upto[Len(list)]

\* A figure counts when an evidence the draft itself cites has it; the slip
\* accepts the figure of any evidence.
Valid == {"real", "other"}
AnyFigure(draft) == draft.id \in Valid /\ draft.figure \in {"none"} \cup Valid
Holds(draft) == draft.id \in Valid /\ draft.figure \in {"none", draft.id}
first(list) == SubSeq(list, 1, Min({Len(list), MAX_INSIGHTS}))
verify(drafts) == first(Where(drafts, {d \in Drafts : Holds(d)}))

\* One retry when too few survive; the second answer counts when it is longer.
\* A call that raises fails the stage, with what the first answer had.
Failed == [status |-> "failed", shown |-> <<>>]
Done(list) == [status |-> "done", shown |-> list]

\* Slip: the second answer counts, be it shorter.
Later(one, two) == two

Better(one, two) == IF Len(two) > Len(one) THEN two ELSE one
Retried(one, two, raised) ==
  IF Len(one) >= MIN_INSIGHTS THEN Done(one)
  ELSE IF raised THEN Failed ELSE Done(Better(one, two))
insights(in) ==
  IF in.raises = "first" THEN Failed
  ELSE Retried(verify(in.first), verify(in.again), in.raises = "again")

-----------------------------------------------------------------------------
Init == input \in RuleInputs \cup PairInputs \cup TermInputs \cup InsightInputs
Next == UNCHANGED input

\* A rule is left out only for a simpler one that is kept and is nearly as
\* sure: with up to three items no chain of rules, each 5 points from the next,
\* leaves out its own beginning.  The simpler rule is shown, unless MAX_RULES
\* others are, none of them behind it.
DroppedIsCovered == input.kind = "rules" =>
  LET all == kept(input.times)
  IN  \A S \in Shown(input.times, all), r \in found(input.times) \ all :
        \E s \in all :
          /\ s.ante \subseteq r.ante /\ s.cons = r.cons /\ NotWorse(input.times, s, r)
          /\ \/ s \in S
             \/ Cardinality(S) = MAX_RULES /\ \A t \in S : ~Ahead(input.times, s, t)

\* Comparing by blocks finds the pairs that comparing everything finds, each
\* once, whatever the last block holds.
BlocksFindAll == input.kind = "pairs" =>
  candidates(input) = {p \in Pairs : Above(input, p[1], p[2])} \ input.decided

\* Ambiguous terms take at most 45 points of a requirement together, over its
\* three fields, so that a requirement with only them keeps 55.
AmbiguousIsCapped == input.kind = "terms" =>
  /\ ambiguous(input.found) <= AMBIGUOUS_MAX
  /\ score(input.found, 0) >= 100 - AMBIGUOUS_MAX
  /\ score(input.found, OTHERS) = 100 - OTHERS - Min({ambiguous(input.found), 100 - OTHERS})

Supported(draft) == draft.id # "invented" /\ draft.figure \in {"none", draft.id}

\* No insight is shown whose figure belongs to other evidence than it cites.  A
\* retry that is answered never leaves fewer insights than the first answer had;
\* one that raises loses them, and they were fewer than MIN_INSIGHTS.
InsightsAreSupported == input.kind = "insights" =>
  LET outcome == insights(input)
      had == Min({Len(Where(input.first, {d \in Drafts : Supported(d)})), MAX_INSIGHTS})
  IN  /\ \A i \in 1..Len(outcome.shown) : Supported(outcome.shown[i])
      /\ outcome.status = "done" => Len(outcome.shown) >= had
      /\ outcome.status = "failed" /\ input.raises # "first" => had < MIN_INSIGHTS
=============================================================================
