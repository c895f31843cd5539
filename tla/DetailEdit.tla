------------------------------ MODULE DetailEdit ------------------------------
(***************************************************************************)
(* The form that edits a requirement in one tab (web DetailForm.tsx,       *)
(* ConflictDialog.tsx, realtime/drafts.ts): what is typed goes to a draft  *)
(* of the browser a moment later, saving carries the rev the form was      *)
(* opened with, and a conflict shows the text of the other person to       *)
(* choose from.                                                            *)
(*                                                                         *)
(* A text is who wrote it: 0 is the first one, the user types others in    *)
(* order, Foreign is what the other people write.                          *)
(***************************************************************************)
EXTENDS Naturals

CONSTANTS MaxTyped,    \* bound: texts the user types
          MaxOthers,   \* bound: saves of other people
          MaxSaves,    \* bound: PATCHes
          MaxFaults    \* bound: PATCHes that fail or lose their answer, reloads

First == 0
Typed == 1..MaxTyped
Foreign == MaxTyped + 1
Texts == First..Foreign
Revs == 0..(MaxSaves + MaxOthers)
Copies == [rev : Revs, text : Texts]

VARIABLES
  server,    \* the requirement in the database
  cache,     \* the requirement in the lists of the tab
  form,      \* the form, when it is open: its text and the rev it was opened with
  draft,     \* the draft in the browser
  timer,     \* the text is about to be kept as a draft
  save,      \* the PATCH on its way
  dialog,    \* the conflict on screen
  typed,     \* the last text typed, First when it was saved or given up
  unsaved,   \* history: typed while a save was on its way, or just before a reload
  shown,     \* history: the revs whose text was on screen in the form or the dialog
  blind,     \* history: a save replaced a text that was never on screen
  count, others, saves, faults

vars == <<server, cache, form, draft, timer, save, dialog, typed, unsaved, shown,
          blind, count, others, saves, faults>>

Closed == [open |-> FALSE, rev |-> 0, base |-> First, text |-> First]
NoDraft == [kept |-> FALSE, rev |-> 0, text |-> First]
Idle == [pc |-> "idle", rev |-> 0, text |-> First, answer |-> "none"]
NoDialog == [on |-> FALSE, mine |-> First, rev |-> 0]

TypeOK ==
  /\ server \in Copies /\ cache \in Copies
  /\ form \in [open : BOOLEAN, rev : Revs, base : Texts, text : Texts]
  /\ draft \in [kept : BOOLEAN, rev : Revs, text : Texts]
  /\ timer \in BOOLEAN
  /\ save \in [pc : {"idle", "sent", "answered", "refreshing"}, rev : Revs, text : Texts,
               answer : {"none", "ok", "conflict", "error"}]
  /\ dialog \in [on : BOOLEAN, mine : Texts, rev : Revs]
  /\ typed \in Texts /\ unsaved \in BOOLEAN /\ blind \in BOOLEAN
  /\ shown \subseteq Revs
  /\ count \in 0..MaxTyped /\ others \in 0..MaxOthers /\ saves \in 0..MaxSaves /\ faults \in 0..MaxFaults

Init ==
  /\ server = [rev |-> 0, text |-> First] /\ cache = server
  /\ form = Closed /\ draft = NoDraft /\ timer = FALSE
  /\ save = Idle /\ dialog = NoDialog
  /\ typed = First /\ unsaved = FALSE /\ shown = {} /\ blind = FALSE
  /\ count = 0 /\ others = 0 /\ saves = 0 /\ faults = 0

screen == <<form, draft, timer, dialog>>
history == <<typed, unsaved, shown, blind>>
bounds == <<count, others, saves, faults>>

-----------------------------------------------------------------------------
(* The other people, and their events. *)

OtherSaves ==
  /\ others < MaxOthers
  /\ others' = others + 1
  /\ server' = [rev |-> server.rev + 1, text |-> Foreign]
  /\ UNCHANGED <<cache, screen, save, history, count, saves, faults>>

\* An event, or a list fetched again: the detail the form was given changes under it.
CacheFollows ==
  /\ cache # server
  /\ cache' = server
  /\ UNCHANGED <<server, screen, save, history, bounds>>

-----------------------------------------------------------------------------
(* The form. *)

\* With a draft, its text over the detail of now and the rev it was begun with.
Open ==
  /\ ~form.open
  /\ form' = [open |-> TRUE, base |-> cache.text,
              rev |-> IF draft.kept THEN draft.rev ELSE cache.rev,
              text |-> IF draft.kept THEN draft.text ELSE cache.text]
  /\ shown' = IF draft.kept THEN shown ELSE shown \cup {cache.rev}
  /\ UNCHANGED <<server, cache, draft, timer, save, dialog, typed, unsaved, blind, bounds>>

Type ==
  /\ form.open /\ ~dialog.on
  /\ count < MaxTyped
  /\ count' = count + 1
  /\ form' = [form EXCEPT !.text = count']
  /\ timer' = TRUE
  /\ typed' = count'
  /\ unsaved' = (save.pc # "idle")
  /\ UNCHANGED <<server, cache, draft, save, dialog, shown, blind, others, saves, faults>>

\* Undoing every change.
TypeBack ==
  /\ form.open /\ ~dialog.on /\ form.text # form.base
  /\ form' = [form EXCEPT !.text = form.base]
  /\ timer' = TRUE
  /\ typed' = First
  /\ UNCHANGED <<server, cache, draft, save, dialog, unsaved, shown, blind, bounds>>

\* Without changes there is no draft to keep.
KeepDraft ==
  /\ timer
  /\ timer' = FALSE
  /\ draft' = IF form.text = form.base THEN NoDraft
              ELSE [kept |-> TRUE, rev |-> form.rev, text |-> form.text]
  /\ UNCHANGED <<server, cache, form, save, dialog, history, bounds>>

\* The form goes, and its timer with it.
Unmounted == form' = Closed /\ timer' = FALSE /\ dialog' = NoDialog

\* The save on its way goes on.
Cancel ==
  /\ form.open /\ ~dialog.on
  /\ draft' = NoDraft
  /\ Unmounted
  /\ typed' = First
  /\ UNCHANGED <<server, cache, save, unsaved, shown, blind, bounds>>

\* The page is loaded again: only the draft is left.
Reload ==
  /\ faults < MaxFaults
  /\ faults' = faults + 1
  /\ Unmounted
  /\ save' = Idle
  /\ cache' = server
  /\ unsaved' = (unsaved \/ timer)
  /\ UNCHANGED <<server, draft, typed, shown, blind, count, others, saves>>

-----------------------------------------------------------------------------
(* Saving. *)

\* Slip: the rev of the detail of now.
RevOfNow == cache.rev

RevToSave == form.rev

Submit ==
  /\ form.open /\ ~dialog.on /\ save.pc = "idle"
  /\ saves < MaxSaves
  /\ saves' = saves + 1
  /\ save' = [Idle EXCEPT !.pc = "sent", !.rev = RevToSave, !.text = form.text]
  /\ UNCHANGED <<server, cache, screen, history, count, others, faults>>

\* Keep mine: over the text the dialog shows.
KeepMine ==
  /\ dialog.on /\ save.pc = "idle"
  /\ saves < MaxSaves
  /\ saves' = saves + 1
  /\ save' = [Idle EXCEPT !.pc = "sent", !.rev = dialog.rev, !.text = dialog.mine]
  /\ UNCHANGED <<server, cache, screen, history, count, others, faults>>

UseCurrent ==
  /\ dialog.on
  /\ draft' = NoDraft
  /\ Unmounted
  /\ typed' = First
  /\ UNCHANGED <<server, cache, save, unsaved, shown, blind, bounds>>

\* If-Match: the server saves over that rev only.
Patched ==
  /\ save.pc = "sent"
  /\ IF save.rev = server.rev
     THEN /\ server' = [rev |-> server.rev + 1, text |-> save.text]
          /\ save' = [save EXCEPT !.pc = "answered", !.answer = "ok"]
          /\ blind' = (blind \/ server.rev \notin shown)
          /\ typed' = IF typed = save.text THEN First ELSE typed
     ELSE /\ save' = [save EXCEPT !.pc = "answered", !.answer = "conflict",
                                  !.rev = server.rev]
          /\ UNCHANGED <<server, blind, typed>>
  /\ UNCHANGED <<cache, screen, unsaved, shown, bounds>>

\* Refused for another reason, or the answer is lost.
Lost ==
  /\ save.pc \in {"sent", "answered"}
  /\ faults < MaxFaults
  /\ faults' = faults + 1
  /\ save' = [save EXCEPT !.pc = "answered", !.answer = "error"]
  /\ UNCHANGED <<server, cache, screen, history, count, others, saves>>

\* onSuccess, also when the form of that save is gone: the draft goes, and the
\* details are fetched again.
Saved ==
  /\ save.pc = "answered" /\ save.answer = "ok"
  /\ draft' = NoDraft
  /\ dialog' = NoDialog
  /\ save' = [save EXCEPT !.pc = "refreshing"]
  /\ UNCHANGED <<server, cache, form, timer, history, bounds>>

\* Once they have been fetched, onDone closes whatever form there is.
Done ==
  /\ save.pc = "refreshing"
  /\ cache' = server
  /\ Unmounted
  /\ save' = Idle
  /\ UNCHANGED <<server, draft, history, bounds>>

\* The conflict shows the text of now; a form that is gone shows nothing.
Conflict ==
  /\ save.pc = "answered" /\ save.answer = "conflict"
  /\ IF form.open
     THEN /\ dialog' = [on |-> TRUE, mine |-> save.text, rev |-> save.rev]
          /\ shown' = shown \cup {save.rev}
     ELSE UNCHANGED <<dialog, shown>>
  /\ save' = Idle
  /\ UNCHANGED <<server, cache, form, draft, timer, typed, unsaved, blind, bounds>>

\* Slip: the draft goes with the failed save.
ForgetDraft == draft' = NoDraft

\* The text stays in the form and in the draft.
StaysTyped == UNCHANGED draft

Failed ==
  /\ save.pc = "answered" /\ save.answer = "error"
  /\ StaysTyped
  /\ save' = Idle
  /\ UNCHANGED <<server, cache, form, timer, dialog, history, bounds>>

Next ==
  \/ OtherSaves \/ CacheFollows
  \/ Open \/ Type \/ TypeBack \/ KeepDraft \/ Cancel \/ Reload
  \/ Submit \/ KeepMine \/ UseCurrent \/ Patched \/ Lost
  \/ Saved \/ Done \/ Conflict \/ Failed

-----------------------------------------------------------------------------
(* Properties. *)

\* A save never replaces a text of another person that was not on screen, whatever
\* events, drafts, reloads and conflicts came in between.  (DetailForm.tsx openedRev:
\* "guardar con él da 409 y la comparación, en lugar de pisarlo")
NothingReplacedUnseen == ~blind

\* What was typed and neither saved nor given up is in the form, in the draft, in the
\* dialog or in the PATCH on its way, except what was typed while a save was on its way or a moment before
\* a reload.  (DetailForm.tsx: "lo escrito sobrevive a una desconexión o a una
\* recarga"; ConflictDialog.tsx: "nada se pierde en silencio")
TypedIsKept ==
  \/ typed = First
  \/ form.open /\ form.text = typed
  \/ draft.kept /\ draft.text = typed
  \/ dialog.on /\ dialog.mine = typed
  \/ save.pc # "idle" /\ save.text = typed
  \/ unsaved

=============================================================================
