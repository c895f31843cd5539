--------------------------------- MODULE Offers ---------------------------------
(***************************************************************************)
(* What the web offers a member and what the API accepts from that member: *)
(* two pieces of code written apart, compared over every situation.  Only  *)
(* the permissions of a requirement are shared (shared/details.ts); the    *)
(* rest of each rule is written once in a component and once in a route    *)
(* and its service.  One initial state per situation: a requirement with a *)
(* comment, a diagram, or a member of a project.  The page is up to date:  *)
(* what happens while it is not is in EventCache, DetailEdit, Autosave.    *)
(***************************************************************************)
EXTENDS Integers

VARIABLE input

Roles == {"admin", "participant"}
ProjectStatuses == {"draft", "open", "closed"}
Statuses == {"pending", "validated", "duplicate", "discarded"}

\* A requirement seen by a member, with a comment and another requirement of
\* the project, in the same activity (here) or not; nobody votes their own.
Details ==
  {s \in [kind : {"detail"}, role : Roles, project : ProjectStatuses, status : Statuses,
          mine : BOOLEAN, voted : BOOLEAN, orphan : BOOLEAN, mineToo : BOOLEAN,
          other : [here : BOOLEAN, status : Statuses]] : ~(s.mine /\ s.voted)}

\* A diagram: a participant sees it once it has been published.
Diagrams ==
  {s \in [kind : {"diagram"}, role : Roles, project : ProjectStatuses, hasDraft : BOOLEAN,
          hasPublished : BOOLEAN, prefer : BOOLEAN, marked : BOOLEAN, proposals : BOOLEAN,
          detecting : BOOLEAN, wide : BOOLEAN] :
     IF s.role = "admin" THEN s.hasDraft \/ s.hasPublished ELSE s.hasPublished /\ ~s.prefer}

\* A row of the members; there may be an administrator other than its member.
Members ==
  {s \in [kind : {"member"}, role : Roles, project : ProjectStatuses,
          target : {"me"} \cup Roles, another : BOOLEAN] :
     s.role = "admin" /\ s.target # "me" => s.another}

\* A proposal of the detection, and what its form holds when "Accept" is
\* pressed; a start or an end is named by default like a decision is.
Types == {"action", "decision"}
Proposals ==
  {s \in [kind : {"proposal"}, high : BOOLEAN, duplicate : BOOLEAN, named : BOOLEAN, type : Types,
          toType : Types, form : {"untouched", "renamed", "cleared"}] :
     s.form = "cleared" => s.named}

\* A proposed arrow: its ends, accepted ones perhaps removed afterwards.
Arrows == [kind : {"arrow"}, from : {"pending", "accepted", "removed"},
           to : {"pending", "accepted", "removed"}]

-----------------------------------------------------------------------------
\* Shared by the two sides.
detailPermissions(s) ==
  LET open == s.project = "open"
      editable == IF s.role = "admin" THEN s.status \in {"pending", "validated"}
                  ELSE s.mine /\ s.status = "pending"
  IN  [edit |-> open /\ editable, delete |-> open /\ editable,
       vote |-> open /\ ~s.mine /\ s.status \in {"pending", "validated"},
       moderate |-> open /\ s.role = "admin"]

-----------------------------------------------------------------------------
\* The web.
DetailCard(s) == {op \in {"edit", "delete"} : detailPermissions(s)[op]}

\* The slip forgets the votes of what can no longer be voted.
VoteByPermission(s) ==
  {op \in {"vote", "unvote"} : detailPermissions(s).vote /\ s.voted = (op = "unvote")}
VoteButton(s) ==
  {op \in {"vote", "unvote"} : /\ detailPermissions(s).vote \/ (s.project = "open" /\ s.voted)
                               /\ s.voted = (op = "unvote")}

\* The moves of the menu, named by the status they lead to.  The slip
\* offers to validate whatever is not validated.
ValidatesAny(s) ==
  {to \in Statuses :
     /\ detailPermissions(s).moderate
     /\ \/ to = "validated" /\ s.status # "validated"
        \/ to = "pending" /\ s.status # "pending"
        \/ to = "discarded" /\ s.status \in {"pending", "validated"}}
ModerationMenu(s) ==
  {to \in Statuses :
     /\ detailPermissions(s).moderate
     /\ \/ to = "validated" /\ s.status = "pending"
        \/ to = "pending" /\ s.status # "pending"
        \/ to = "discarded" /\ s.status \in {"pending", "validated"}
        \/ /\ to = "duplicate" /\ s.status \in {"pending", "validated"}
           /\ s.other.here /\ s.other.status # "duplicate"}

Comments(s) ==
  {op \in {"comment", "editComment", "deleteComment"} :
     /\ s.project = "open"
     /\ \/ op = "comment" \/ s.mineToo
        \/ op = "deleteComment" /\ s.role = "admin"}

OrphansPage(s) == {op \in {"reassign"} : s.role = "admin" /\ s.project = "open"}

\* The version that the page opens, and whether it opens it to edit it.
Shown(s) == IF s.hasDraft /\ s.role = "admin" /\ ~(s.prefer /\ s.hasPublished)
            THEN "draft" ELSE "published"
writable(s) == s.role = "admin" /\ s.project # "closed"
editing(s) == writable(s) /\ Shown(s) = "draft" /\ s.wide

\* What is offered inside a page, where the page shows it.
PublishButton(s) == {op \in {"publish"} : s.marked}
DetailsPanel(s) == {op \in {"create"} : Shown(s) = "published" /\ s.project = "open"}

WorkspacePage(s) ==
  {op \in {"newVersion", "editActivity", "detect", "review"} :
     \/ op = "newVersion" /\ writable(s) /\ ~s.hasDraft
     \/ op = "editActivity" /\ editing(s)
     \/ op = "detect" /\ editing(s) /\ ~s.detecting
     \/ op = "review" /\ editing(s) /\ s.proposals}
  \cup {op \in PublishButton(s) : writable(s) /\ Shown(s) = "draft"}
  \cup {op \in DetailsPanel(s) : ~editing(s)}

DiagramListPage(s) == {op \in {"newDiagram"} : writable(s)}

needsName(s) == s.toType = "action" /\ (s.form = "cleared" \/ (s.form = "untouched" /\ ~s.named))
acceptableInBulk(s) == s.high /\ ~s.duplicate /\ (s.type # "action" \/ s.named)
ProposalItem(s) ==
  {op \in {"accept", "discard", "acceptHigh"} : /\ op = "accept" => ~needsName(s)
                                                /\ op = "acceptHigh" => acceptableInBulk(s)}
TransitionItem(s) == {op \in {"acceptArrow", "discardArrow"} :
                        op = "acceptArrow" => "pending" \notin {s.from, s.to}}

MemberRow(s) ==
  {op \in {"remove", "leave", "promote", "demote"} :
     \/ op = "leave" /\ s.target = "me"
     \/ op = "remove" /\ s.target # "me" /\ s.role = "admin"
     \/ op = "demote" /\ s.role = "admin" /\ s.target \in {"me", "admin"}
     \/ op = "promote" /\ s.role = "admin" /\ s.target = "participant"}

STATUS_ACTION == [draft |-> "open", open |-> "close", closed |-> "reopen"]
InvitationsSection(s) == {op \in {"invite"} : s.role = "admin"}

ProjectSettingsPage(s) ==
  {op \in {"update", "deleteProject"} \cup {STATUS_ACTION[s.project]} : s.role = "admin"}

Offered(s) ==
  CASE s.kind = "detail" /\ s.orphan -> OrphansPage(s)
    [] s.kind = "detail" /\ ~s.orphan -> DetailCard(s) \cup VoteButton(s) \cup ModerationMenu(s) \cup Comments(s)
    [] s.kind = "diagram" -> WorkspacePage(s) \cup DiagramListPage(s)
    [] s.kind = "proposal" -> ProposalItem(s)
    [] s.kind = "arrow" -> TransitionItem(s)
    [] s.kind = "member" -> MemberRow(s) \cup InvitationsSection(s) \cup ProjectSettingsPage(s)

-----------------------------------------------------------------------------
\* The API: the roles and statuses its routes require, then its services.
requireProjectRole(s, role) == role = "member" \/ s.role = "admin"
requireProjectStatus(s, allowed) == s.project \in allowed

update(s) == {op \in {"edit", "delete"} : detailPermissions(s)[op]}

vote(s) ==
  {op \in {"vote", "unvote"} :
     /\ requireProjectStatus(s, {"open"})
     /\ \/ op = "unvote" /\ s.voted
        \/ op = "vote" /\ ~s.voted /\ ~s.mine /\ s.status \in {"pending", "validated"}}

TRANSITIONS == [pending |-> {"validated", "duplicate", "discarded"},
                validated |-> {"pending", "duplicate", "discarded"},
                duplicate |-> {"pending"}, discarded |-> {"pending"}]
moderate(s) ==
  {to \in TRANSITIONS[s.status] :
     /\ requireProjectRole(s, "admin") /\ requireProjectStatus(s, {"open"})
     /\ to = "duplicate" => s.other.status # "duplicate"}

comment(s) ==
  {op \in {"comment", "editComment", "deleteComment"} :
     /\ requireProjectStatus(s, {"open"})
     /\ op = "editComment" => s.mineToo
     /\ op = "deleteComment" => s.mineToo \/ s.role = "admin"}

reassign(s) == {op \in {"reassign"} : /\ requireProjectRole(s, "admin")
                                      /\ requireProjectStatus(s, {"open"}) /\ s.orphan}

WRITABLE == {"draft", "open"}
diagrams(s) ==
  {op \in {"publish", "newVersion", "editActivity", "detect", "review", "newDiagram"} :
     /\ requireProjectRole(s, "admin") /\ requireProjectStatus(s, WRITABLE)
     /\ op = "publish" => s.hasDraft /\ s.marked /\ ~s.proposals
     /\ op = "newVersion" => ~s.hasDraft
     /\ op = "editActivity" => s.hasDraft
     /\ op = "detect" => s.hasDraft /\ ~s.detecting
     /\ op = "review" => s.hasDraft /\ s.proposals}

create(s) == {op \in {"create"} : requireProjectStatus(s, {"open"}) /\ s.hasPublished}

\* The form sends the name only when it changed it, and the schema refuses
\* an empty one; a proposal without a name takes the one of its type.
LabelSchema(s) == s.form # "cleared"
acceptOne(s) == {op \in {"accept"} : LabelSchema(s) /\ (s.named \/ s.form = "renamed" \/ s.toType # "action")}
acceptHigh(s) == {op \in {"acceptHigh"} : s.high /\ ~s.duplicate /\ ~(s.type = "action" /\ ~s.named)}
acceptTransition(s) == {op \in {"acceptArrow"} : s.from = "accepted" /\ s.to = "accepted"}
discard(s) == {IF s.kind = "arrow" THEN "discardArrow" ELSE "discard"}

members(s) ==
  {op \in {"remove", "leave", "promote", "demote"} :
     LET isAdmin == s.target = "admin" \/ (s.target = "me" /\ s.role = "admin")
     IN  /\ \/ op = "leave" /\ s.target = "me"
            \/ op = "remove" /\ s.target # "me" /\ requireProjectRole(s, "admin")
            \/ op = "promote" /\ ~isAdmin /\ requireProjectRole(s, "admin")
            \/ op = "demote" /\ isAdmin /\ requireProjectRole(s, "admin")
         /\ op # "promote" /\ isAdmin => s.another}

nextStatus == [draft |-> {"open"}, open |-> {"close"}, closed |-> {"reopen"}]
projects(s) == {op \in {"invite", "update", "deleteProject"} \cup nextStatus[s.project] :
                  requireProjectRole(s, "admin")}

Accepted(s) ==
  CASE s.kind = "detail" -> update(s) \cup vote(s) \cup moderate(s) \cup comment(s) \cup reassign(s)
    [] s.kind = "diagram" -> diagrams(s) \cup create(s)
    [] s.kind = "proposal" -> acceptOne(s) \cup acceptHigh(s) \cup discard(s)
    [] s.kind = "arrow" -> acceptTransition(s) \cup discard(s)
    [] s.kind = "member" -> members(s) \cup projects(s)

-----------------------------------------------------------------------------
Init == input \in Details \cup Diagrams \cup Proposals \cup Arrows \cup Members
Next == UNCHANGED input

\* No page offers what the API refuses.  Some buttons are offered to be
\* refused with an explanation: publishing with proposals to review
\* (PENDING_PROPOSALS), the last administrator who leaves or is demoted
\* (LAST_ADMIN), an arrow one of whose activities was removed
\* (ENDS_NOT_ACCEPTED) and a proposal whose name was cleared, unless it is of
\* an action: only then does the form ask for it.
Explained(s) ==
  CASE s.kind = "diagram" -> {op \in {"publish"} : s.proposals}
    [] s.kind = "member" -> {op \in {"leave", "demote"} : ~s.another}
    [] s.kind = "proposal" -> {op \in {"accept"} : s.form = "cleared"}
    [] s.kind = "arrow" -> {op \in {"acceptArrow"} : "removed" \in {s.from, s.to}}
    [] s.kind = "detail" -> {}
OfferedIsAccepted == Offered(input) \ Explained(input) \subseteq Accepted(input)

\* What the API accepts can be done from the page: nothing that a member may
\* do is out of reach, the vote given to what was moderated later included.
\* Left out: an orphan is only reassigned; an original in another activity;
\* and what is done on the page of the other version or in a wide window.
Elsewhere(s) ==
  CASE s.kind = "detail" -> IF s.orphan THEN Accepted(s) \ {"reassign"}
                            ELSE {op \in {"duplicate"} : ~s.other.here}
    [] s.kind = "diagram" ->
         (IF Shown(s) = "draft" THEN {"create"} ELSE {"publish", "editActivity", "detect", "review"})
           \cup (IF s.wide THEN {} ELSE {"editActivity", "detect", "review"})
    [] s.kind \in {"proposal", "arrow", "member"} -> {}
AcceptedIsOffered == Accepted(input) \ Elsewhere(input) \subseteq Offered(input)
=============================================================================
