----------------------------- MODULE MCDetails -----------------------------
(***************************************************************************)
(* Instances of Details for TLC.  Slots of requests, details and comments  *)
(* are interchangeable, and so are the participants.                       *)
(***************************************************************************)
EXTENDS Details, TLC

Symmetry ==
    Permutations(Requests) \cup Permutations(DetailIds)
      \cup Permutations(CommentIds) \cup Permutations(Users \ Admins)

\* The handlers that change a detail, file its history or remove it, without
\* votes and comments.
ChangeNext ==
    \/ \E r \in Requests :
         \/ LoadCreate(r) \/ View(r) \/ LoadEdit(r) \/ LoadModerate(r) \/ LoadOriginal(r)
         \/ LoadReassign(r) \/ LoadOwnKeys(r) \/ LoadTargetKeys(r) \/ LoadRemove(r)
         \/ WriteDetail(r) \/ RecordHistory(r)
         \/ \E part \in Parts : DeletePart(r, part)
    \/ Publish

ChangeSpec == Init /\ [][ChangeNext]_vars

\* The handlers of votes and comments, with creation and removal.
InteractionNext ==
    \/ \E r \in Requests :
         \/ LoadCreate(r) \/ Create(r) \/ LoadRemove(r) \/ DeleteDetail(r)
         \/ LoadVote(r) \/ LoadUnvote(r) \/ LoadComment(r) \/ LoadUncomment(r)
         \/ WriteRest(r)
    \/ ToggleOpen

InteractionSpec == Init /\ [][InteractionNext]_vars
=============================================================================
