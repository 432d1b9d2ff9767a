----------------------------- MODULE ConfigEditor -----------------------------
(***************************************************************************)
(* The configuration page (web/src/server/config): a structured editor and  *)
(* a TOML editor over the same Telemt configuration, which other           *)
(* administrators change too. Telemt accepts a PATCH only for the revision *)
(* in If-Match, and an answer may be lost after the write has landed.      *)
(*                                                                         *)
(* A document gives a value to each leaf of the configuration; what        *)
(* nesting, tables and arrays add is left out. A request that is awaited   *)
(* is a phase of its mutation, so late input can fall in between.          *)
(***************************************************************************)
EXTENDS Naturals, Sequences, FiniteSets, DraftSession

CONSTANTS
    Keys,       \* leaves of the configuration, "section.key"
    Vals,       \* their values
    MaxWrites,  \* bound: writes by other administrators
    MaxClicks   \* bound: inputs and clicks of this one, and lost answers

ASSUME ConfigEditorAssumption ==
    {MaxWrites, MaxClicks} \subseteq Nat

VARIABLES
    telemt,   \* the stored configuration and its revision
    ed,       \* useConfigEditor and the page's own state
    tm,       \* useTomlSettingsSession
    left      \* what the bounds still allow

configVars == <<telemt, ed, tm, left>>

Docs == [Keys -> Vals]

-----------------------------------------------------------------------------
(* configObjectDiff.ts, configPatch.helpers.ts, configConflict.helpers.ts,  *)
(* rebaseEdits.ts, configSave.helpers.ts                                   *)

\* The leaves whose value differs.
DiffChangedSectionKeys(before, after) == {k \in Keys : before[k] # after[k]}

BuildConfigPatch(original, edited) ==
    [k \in DiffChangedSectionKeys(original, edited) |-> edited[k]]

DeepMerge(base, patch) ==
    [k \in Keys |-> IF k \in DOMAIN patch THEN patch[k] ELSE base[k]]

RebaseEdits(fresh, patch, serverChanged) ==
    [edited |-> DeepMerge(fresh, patch),
     overlapping |-> DOMAIN patch \intersect serverChanged]

PreserveLateConfigEdits(fresh, submitted, latest) ==
    RebaseEdits(fresh, BuildConfigPatch(submitted, latest), {}).edited

-----------------------------------------------------------------------------
(* useConfigEditor.ts and what ConfigPage derives on every render          *)

Seed(e, fresh, working) == [e EXCEPT !.base = fresh, !.edited = working]

Patch(e) == BuildConfigPatch(e.base.doc, e.edited)
HasChanges(e) == DOMAIN Patch(e) # {}

Overlap(e) ==
    RebaseEdits(e.conflict.doc, Patch(e),
        DiffChangedSectionKeys(e.base.doc, e.conflict.doc)).overlapping

\* The PATCH and whatever its callbacks await.
PatchPending(e) == e.phase # "idle"

\* useTomlSettingsSession's own derivations.
Dirty(t) == t.session.draft # t.session.baseline.doc
PreviewCurrent(t) ==
    t.validated = [rev |-> t.session.baseline.rev, doc |-> t.session.draft]

Blocked(t) ==
    \/ Dirty(t) \/ Some(t.session.remote) \/ t.conflict \/ t.unknown
    \/ Some(t.preview) \/ t.phase # "idle"

\* Mutant: the tab is open while the structured PATCH is still in flight.
TomlTabOpenWhileSaving(e) == ~HasChanges(e)

\* The TOML tab is disabled by a structured draft or PATCH.
TomlTabEnabled(e) == ~HasChanges(e) /\ ~PatchPending(e)

\* Where the structured form and its save bar are on screen.
StructuredShown(e, t) == e.tab # "toml" /\ ~Blocked(t)

-----------------------------------------------------------------------------

ConfigInit ==
    /\ telemt \in [rev : {1}, doc : Docs, by : {"other"}]
    /\ ed = [tab |-> "normal", base |-> [rev |-> 1, doc |-> telemt.doc],
             edited |-> telemt.doc, conflict |-> Nothing, error |-> "none",
             result |-> FALSE, preview |-> FALSE, phase |-> "idle",
             sent |-> Nothing, check |-> Nothing]
    /\ LET empty == [rev |-> 0, doc |-> << >>]
       IN  tm = [session |-> [baseline |-> empty, draft |-> << >>,
                              remote |-> Nothing],
                 cache |-> Nothing, get |-> Nothing, phase |-> "idle",
                 sent |-> Nothing, preview |-> Nothing, validated |-> Nothing,
                 conflict |-> FALSE, unknown |-> FALSE, result |-> FALSE]
    /\ left = [writes |-> MaxWrites, clicks |-> MaxClicks]

Click == left.clicks > 0 /\ left' = [left EXCEPT !.clicks = @ - 1]
Free == UNCHANGED left

Snapshot == [rev |-> telemt.rev, doc |-> telemt.doc]

Write(doc, who) == [rev |-> telemt.rev + 1, doc |-> doc, by |-> who]

\* External: another administrator's PATCH.
OtherWrites(k, v) ==
    /\ left.writes > 0 /\ v # telemt.doc[k]
    /\ left' = [left EXCEPT !.writes = @ - 1]
    /\ telemt' = Write([telemt.doc EXCEPT ![k] = v], "other")
    /\ UNCHANGED <<ed, tm>>

\* --- the structured editor ------------------------------------------------

EditField(k, v) ==
    /\ StructuredShown(ed, tm) /\ v # ed.edited[k] /\ Click
    /\ ed' = [ed EXCEPT !.edited[k] = v, !.result = FALSE,
                !.error = IF @ = "unknown" THEN @ ELSE "none"]
    /\ UNCHANGED <<telemt, tm>>

SetTab(tab) ==
    /\ tab # ed.tab /\ (tab = "toml" => TomlTabEnabled(ed)) /\ Click
    /\ ed' = [ed EXCEPT !.tab = tab]
    /\ tm' = IF tab = "toml" /\ ~Some(tm.get) THEN [tm EXCEPT !.get = Snapshot] ELSE tm
    /\ UNCHANGED telemt

DiscardDraft ==
    /\ StructuredShown(ed, tm) /\ HasChanges(ed) /\ Click
    /\ ed' = [Seed(ed, ed.base, ed.base.doc) EXCEPT !.result = FALSE, !.error = "none"]
    /\ UNCHANGED <<telemt, tm>>

OpenSavePreview ==
    /\ StructuredShown(ed, tm) /\ HasChanges(ed) /\ ~PatchPending(ed)
    /\ ~ed.preview /\ Click
    /\ ed' = [ed EXCEPT !.preview = TRUE]
    /\ UNCHANGED <<telemt, tm>>

CloseSavePreview ==
    /\ ed.preview /\ ~PatchPending(ed) /\ Click
    /\ ed' = [ed EXCEPT !.preview = FALSE]
    /\ UNCHANGED <<telemt, tm>>

SubmitPatch(e, rev, draft, patch) ==
    [e EXCEPT !.phase = "sent", !.sent = [rev |-> rev, doc |-> draft, patch |-> patch]]

ApplyPreviewedChanges ==
    /\ ed.preview /\ HasChanges(ed) /\ ~PatchPending(ed) /\ Click
    /\ ed' = SubmitPatch([ed EXCEPT !.error = "none", !.result = FALSE],
                         ed.base.rev, ed.edited, Patch(ed))
    /\ UNCHANGED <<telemt, tm>>

\* onSuccess: the TOML cache is refetched, then the page awaits a fresh GET.
PatchSucceeds ==
    /\ ed.phase = "sent" /\ ed.sent.rev = telemt.rev
    /\ telemt' = Write(DeepMerge(telemt.doc, ed.sent.patch), "me")
    /\ ed' = [ed EXCEPT !.phase = "reseed", !.preview = FALSE, !.result = TRUE,
                !.conflict = Nothing, !.error = "none",
                !.sent.rev = telemt.rev + 1]
    /\ tm' = IF ed.tab = "toml"
             THEN [tm EXCEPT !.get = [rev |-> telemt'.rev, doc |-> telemt'.doc]]
             ELSE tm
    /\ Free

Reseeded(arrives) ==
    /\ ed.phase = "reseed"
    /\ IF arrives THEN Free ELSE Click
    /\ ed' = [IF arrives
              THEN Seed(ed, Snapshot, PreserveLateConfigEdits(
                                        Snapshot.doc, ed.sent.doc, ed.edited))
              ELSE Seed(ed, [rev |-> ed.sent.rev, doc |-> ed.sent.doc], ed.edited)
              EXCEPT !.phase = "idle", !.sent = Nothing]
    /\ UNCHANGED <<telemt, tm>>

PatchConflicts ==
    /\ ed.phase = "sent" /\ ed.sent.rev # telemt.rev
    /\ ed' = [ed EXCEPT !.phase = "inspect", !.preview = FALSE]
    /\ Free /\ UNCHANGED <<telemt, tm>>

Inspected(arrives) ==
    /\ ed.phase = "inspect"
    /\ IF arrives THEN Free ELSE Click
    /\ ed' = [ed EXCEPT !.phase = "idle", !.sent = Nothing,
                !.conflict = IF arrives THEN Snapshot ELSE @]
    /\ UNCHANGED <<telemt, tm>>

\* Telemt refuses the patch, or no answer comes; the write may have landed.
PatchFails(code, landed) ==
    /\ ed.phase = "sent" /\ Click
    /\ landed => code = "unknown" /\ ed.sent.rev = telemt.rev
    /\ telemt' = IF landed THEN Write(DeepMerge(telemt.doc, ed.sent.patch), "me")
                 ELSE telemt
    /\ ed' = [ed EXCEPT !.phase = "idle", !.sent = Nothing, !.preview = FALSE,
                        !.error = code]
    /\ UNCHANGED tm

\* The notice's "check" button: its answer may be overtaken by anything.
CheckWrite ==
    /\ ed.error = "unknown" /\ ~Some(ed.check) /\ Click
    /\ ed' = [ed EXCEPT !.check = Snapshot]
    /\ UNCHANGED <<telemt, tm>>

CheckAnswers ==
    /\ Some(ed.check) /\ Free
    /\ ed' = [ed EXCEPT !.conflict = ed.check, !.check = Nothing]
    /\ UNCHANGED <<telemt, tm>>

\* ConflictBanner: rebase the draft on the fresh revision and retry at once.
ReapplyDraft ==
    /\ Some(ed.conflict) /\ ~PatchPending(ed) /\ Click
    /\ LET fresh == ed.conflict
           edited == DeepMerge(fresh.doc, Patch(ed))
           retry == BuildConfigPatch(fresh.doc, edited)
           seeded == [Seed(ed, fresh, edited) EXCEPT !.conflict = Nothing,
                                                     !.error = "none"]
       IN  ed' = IF DOMAIN retry = {} THEN seeded
                 ELSE SubmitPatch(seeded, fresh.rev, edited, retry)
    /\ UNCHANGED <<telemt, tm>>

DiscardMine ==
    /\ Some(ed.conflict) /\ ~PatchPending(ed) /\ Overlap(ed) # {} /\ Click
    /\ ed' = [Seed(ed, ed.conflict, ed.conflict.doc) EXCEPT
                !.conflict = Nothing, !.error = "none"]
    /\ UNCHANGED <<telemt, tm>>

\* --- the TOML editor ------------------------------------------------------

\* A read of the projection: on the tab, after a focus or an invalidation.
TomlRefetch ==
    /\ ed.tab = "toml" /\ ~Some(tm.get) /\ Click
    /\ tm' = [tm EXCEPT !.get = Snapshot]
    /\ UNCHANGED <<telemt, ed>>

\* useDraftSession's effect: only a changed read reaches the session.
TomlArrives ==
    /\ Some(tm.get) /\ Free
    /\ tm' = [tm EXCEPT !.get = Nothing, !.cache = tm.get,
                !.session = IF tm.cache = tm.get THEN @
                            ELSE ReceiveRemote(@, tm.get,
                                               tm.phase = "sent" \/ tm.unknown)]
    /\ UNCHANGED <<telemt, ed>>

UpdateDraft(doc) ==
    /\ ed.tab = "toml" /\ Some(tm.cache) /\ doc # tm.session.draft /\ Click
    /\ tm' = [tm EXCEPT !.session.draft = doc, !.validated = Nothing,
                !.result = FALSE,
                !.conflict = IF doc = tm.session.baseline.doc
                                /\ ~Some(tm.session.remote) THEN FALSE ELSE @]
    /\ UNCHANGED <<telemt, ed>>

Validate ==
    /\ ed.tab = "toml" /\ Some(tm.session.baseline) /\ Dirty(tm)
    /\ ~Some(tm.preview) /\ tm.phase = "idle" /\ Click
    /\ tm' = [tm EXCEPT !.preview = [rev |-> tm.session.baseline.rev,
                                     doc |-> tm.session.draft]]
    /\ UNCHANGED <<telemt, ed>>

\* The preview of the text that was sent; a newer draft makes it stale.
PreviewSucceeds ==
    /\ Some(tm.preview) /\ tm.preview.rev = telemt.rev /\ Free
    /\ tm' = [tm EXCEPT !.preview = Nothing, !.validated = tm.preview,
                        !.result = FALSE]
    /\ UNCHANGED <<telemt, ed>>

PreviewFails(code) ==
    /\ Some(tm.preview)
    /\ IF code = "conflict" THEN tm.preview.rev # telemt.rev /\ Free ELSE Click
    /\ tm' = [tm EXCEPT !.preview = Nothing, !.validated = Nothing,
                !.conflict = IF code = "conflict" THEN Dirty(tm) ELSE @,
                !.get = IF code = "conflict" THEN Snapshot ELSE @]
    /\ UNCHANGED <<telemt, ed>>

SaveToml ==
    /\ ed.tab = "toml" /\ PreviewCurrent(tm) /\ Dirty(tm) /\ tm.phase = "idle" /\ Click
    /\ tm' = [tm EXCEPT !.phase = "sent", !.sent =
                [rev |-> tm.session.baseline.rev, doc |-> tm.session.draft]]
    /\ UNCHANGED <<telemt, ed>>

\* onSuccess: the session is acknowledged and both caches are invalidated,
\* then the structured editor awaits a fresh GET (onApplied).
TomlSucceeds ==
    /\ tm.phase = "sent" /\ tm.sent.rev = telemt.rev /\ Free
    /\ telemt' = Write(tm.sent.doc, "me")
    /\ LET confirmed == [rev |-> telemt.rev + 1, doc |-> tm.sent.doc]
           session == AcknowledgeSubmitted(tm.session, tm.sent, confirmed)
       IN  tm' = [tm EXCEPT !.session = session, !.phase = "applied",
                    !.sent = Nothing, !.validated = Nothing, !.conflict = FALSE,
                    !.unknown = FALSE,
                    !.result = session.draft = session.baseline.doc
                               /\ ~Some(session.remote),
                    !.get = IF ed.tab = "toml" THEN confirmed ELSE @]
    /\ UNCHANGED ed

TomlApplied(arrives) ==
    /\ tm.phase = "applied"
    /\ IF arrives THEN Free ELSE Click
    /\ tm' = [tm EXCEPT !.phase = "idle"]
    /\ ed' = IF arrives THEN [Seed(ed, Snapshot, telemt.doc) EXCEPT !.result = TRUE]
             ELSE [ed EXCEPT !.result = TRUE]
    /\ UNCHANGED telemt

\* A rejected write releases the read a clean session held back.
TomlConflicts ==
    /\ tm.phase = "sent" /\ tm.sent.rev # telemt.rev /\ Free
    /\ tm' = [tm EXCEPT !.phase = "idle", !.sent = Nothing, !.unknown = FALSE,
                !.session = IF ~Dirty(tm) /\ Some(@.remote) THEN DiscardToRemote(@)
                            ELSE @,
                !.conflict = Dirty(tm), !.get = Snapshot]
    /\ UNCHANGED <<telemt, ed>>

TomlFails(code, landed) ==
    /\ tm.phase = "sent" /\ Click
    /\ landed => code = "unknown" /\ tm.sent.rev = telemt.rev
    /\ telemt' = IF landed THEN Write(tm.sent.doc, "me") ELSE telemt
    /\ tm' = [tm EXCEPT !.phase = "idle", !.sent = Nothing,
                !.unknown = @ \/ code = "unknown",
                !.validated = IF code = "unknown" THEN Nothing ELSE @]
    /\ UNCHANGED ed

\* DraftSessionActions, on the TOML tab or over the blocked forms.
DiscardToml ==
    /\ Dirty(tm) \/ Some(tm.session.remote) \/ tm.conflict
    /\ tm.phase = "idle" /\ ~(tm.conflict /\ ~Some(tm.session.remote)) /\ Click
    /\ tm' = [tm EXCEPT !.session = DiscardToRemote(@), !.conflict = FALSE,
                !.unknown = FALSE, !.preview = Nothing, !.validated = Nothing,
                !.result = FALSE,
                !.get = IF Some(tm.preview) THEN Snapshot ELSE @]
    /\ UNCHANGED <<telemt, ed>>

ConfigNext ==
    \/ \E k \in Keys, v \in Vals : OtherWrites(k, v) \/ EditField(k, v)
    \/ \E tab \in {"normal", "toml"} : SetTab(tab)
    \/ DiscardDraft \/ OpenSavePreview \/ CloseSavePreview \/ ApplyPreviewedChanges
    \/ PatchSucceeds \/ PatchConflicts \/ CheckWrite \/ CheckAnswers
    \/ \E arrives \in BOOLEAN : Reseeded(arrives) \/ Inspected(arrives) \/ TomlApplied(arrives)
    \/ \E code \in {"unknown", "refused"}, landed \in BOOLEAN :
          PatchFails(code, landed) \/ TomlFails(code, landed)
    \/ ReapplyDraft \/ DiscardMine
    \/ TomlRefetch \/ TomlArrives \/ Validate \/ PreviewSucceeds \/ SaveToml
    \/ TomlSucceeds \/ TomlConflicts \/ DiscardToml
    \/ \E doc \in Docs : UpdateDraft(doc)
    \/ \E code \in {"conflict", "other"} : PreviewFails(code)

-----------------------------------------------------------------------------

\* The two editors never hold unsaved work at the same time, whatever answers
\* arrive late: saving one would silently drop the other (the tab and
\* `blocked` guards of ConfigPage).
OneDraftAtATime == ~(HasChanges(ed) /\ Dirty(tm) /\ Some(tm.session.baseline))

\* No answer takes away what the admin typed. A leaf of the structured draft
\* that differs from the stored value and was not part of the PATCH in flight
\* keeps its value in every step but the admin's own discards, and so does a
\* TOML draft that differs from its baseline and from what is being saved
\* (onSuccess, rebaseEdits, receiveRemote, acknowledgeSubmitted).
TypedIsKept ==
    /\ \A k \in Keys :
         \/ ed'.edited[k] = ed.edited[k]
         \/ EditField(k, ed'.edited[k]) \/ DiscardDraft \/ DiscardMine
         \/ ed.edited[k] = ed.base.doc[k]
         \/ PatchPending(ed) /\ ed.edited[k] = ed.sent.doc[k]
    /\ \/ tm'.session.draft = tm.session.draft
       \/ UpdateDraft(tm'.session.draft) \/ DiscardToml
       \/ ~Dirty(tm)
       \/ tm.phase = "sent" /\ tm.session.draft = tm.sent.doc

=============================================================================
