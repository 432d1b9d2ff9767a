---------------------------- MODULE DraftProofs ----------------------------
(***************************************************************************)
(* What the draft sessions, the configuration editors, the update policy,  *)
(* the forms of a user and the updates page keep true in every step, for    *)
(* every number of documents, answers, runs, ticks and clicks: the lemmas   *)
(* behind OneEditorDraft, DraftsKept, the restart watch and the run on      *)
(* screen of Console.                                                       *)
(***************************************************************************)
EXTENDS ConfigEditor, AutoUpdate, PersonEditor, UpdatesPage, TLAPS

(***************************************************************************)
(* The configuration editors: while the TOML editor is open, dirty or       *)
(* saving, the structured one has neither changes nor a PATCH in flight.    *)
(***************************************************************************)
Quiet(e) == ~HasChanges(e) /\ e.phase = "idle"
TomlBusy(t, e) == Dirty(t) \/ t.phase # "idle" \/ e.tab = "toml"

\* The fields of the two editors, whatever their values.
EditorShape(e) ==
    e = [tab |-> e.tab, base |-> e.base, edited |-> e.edited, conflict |-> e.conflict,
         error |-> e.error, result |-> e.result, preview |-> e.preview,
         phase |-> e.phase, sent |-> e.sent, check |-> e.check]
SessionShape(s) == s = [baseline |-> s.baseline, draft |-> s.draft, remote |-> s.remote]
TomlShape(t) ==
    /\ t = [session |-> t.session, cache |-> t.cache, get |-> t.get, phase |-> t.phase,
            sent |-> t.sent, preview |-> t.preview, validated |-> t.validated,
            conflict |-> t.conflict, unknown |-> t.unknown, result |-> t.result]
    /\ SessionShape(t.session)

\* The inductive invariant of the configuration page.
EditorInv ==
    /\ EditorShape(ed) /\ TomlShape(tm)
    /\ TomlBusy(tm, ed) => Quiet(ed)

\* Changes are the leaves that differ.
LEMMA NoChanges ==
    ASSUME NEW e
    PROVE  HasChanges(e) <=> \E k \in Keys : e.base.doc[k] # e.edited[k]
BY DEF HasChanges, Patch, BuildConfigPatch, DiffChangedSectionKeys

\* A received read never makes a clean session dirty.
LEMMA ReceivedStaysClean ==
    ASSUME NEW s, SessionShape(s), NEW fresh, NEW preserve, NEW y,
           y = ReceiveRemote(s, fresh, preserve)
    PROVE  SessionShape(y) /\ (s.draft = s.baseline.doc => y.draft = y.baseline.doc)
<1> DEFINE d == IF s.draft = s.baseline.doc THEN fresh.doc ELSE s.draft
           r == IF s.remote.rev = fresh.rev THEN Nothing ELSE s.remote
<1>1. \/ y = s \/ y = [s EXCEPT !.remote = fresh]
      \/ y = [s EXCEPT !.baseline = fresh, !.draft = d, !.remote = r]
      \/ y = [s EXCEPT !.baseline = fresh, !.draft = fresh.doc]
  BY DEF ReceiveRemote
<1>2. s.draft = s.baseline.doc => d = fresh.doc
  OBVIOUS
<1> HIDE DEF d, r
<1> QED
  BY <1>1, <1>2 DEF SessionShape

\* The acknowledged and the discarded session.
LEMMA SessionsKeepShape ==
    ASSUME NEW s, SessionShape(s)
    PROVE  /\ \A x, c : SessionShape(AcknowledgeSubmitted(s, x, c))
           /\ SessionShape(DiscardToRemote(s))
           /\ DiscardToRemote(s).draft = DiscardToRemote(s).baseline.doc
<1>1. ASSUME NEW x, NEW c PROVE SessionShape(AcknowledgeSubmitted(s, x, c))
  <2> DEFINE b == IF s.remote.rev > 0 /\ s.remote.rev = c.rev THEN s.remote ELSE c
             d == IF s.draft = x.doc THEN b.doc ELSE s.draft
             r == IF s.remote = b THEN Nothing ELSE s.remote
  <2>1. AcknowledgeSubmitted(s, x, c) = [s EXCEPT !.baseline = b, !.draft = d, !.remote = r]
    BY DEF AcknowledgeSubmitted
  <2> HIDE DEF b, d, r
  <2> QED
    BY <2>1 DEF SessionShape
<1>2. SessionShape(DiscardToRemote(s))
  BY DEF DiscardToRemote, DraftSessionOf, SessionShape
<1>3. DiscardToRemote(s).draft = DiscardToRemote(s).baseline.doc
  BY DEF DiscardToRemote, DraftSessionOf
<1> QED
  BY <1>1, <1>2, <1>3

\* What a step does to the structured editor: nothing that a busy TOML editor
\* could see, or it makes it quiet, or it needs the TOML editor at rest.
LEMMA EditorSteps ==
    ASSUME EditorShape(ed), ConfigNext
    PROVE  /\ EditorShape(ed')
           /\ \/ ed'.tab = ed.tab /\ (Quiet(ed) => Quiet(ed'))
              \/ ed'.tab = "toml" /\ Quiet(ed) /\ Quiet(ed')
              \/ ed'.tab # "toml" /\ (Quiet(ed) => Quiet(ed'))
              \/ ed'.tab = ed.tab /\ ed.tab # "toml" /\ ~Blocked(tm) /\ UNCHANGED tm
<1> DEFINE Goal ==
           /\ EditorShape(ed')
           /\ \/ ed'.tab = ed.tab /\ (Quiet(ed) => Quiet(ed'))
              \/ ed'.tab = "toml" /\ Quiet(ed) /\ Quiet(ed')
              \/ ed'.tab # "toml" /\ (Quiet(ed) => Quiet(ed'))
              \/ ed'.tab = ed.tab /\ ed.tab # "toml" /\ ~Blocked(tm) /\ UNCHANGED tm
<1>1. ASSUME UNCHANGED ed PROVE Goal
  BY <1>1
\* A step that leaves the documents and the phase alone.
<1>2. ASSUME EditorShape(ed'), ed'.tab = ed.tab, ed'.base = ed.base, ed'.edited = ed.edited,
             ed'.phase = ed.phase \/ ed.phase # "idle" \/ HasChanges(ed)
      PROVE  Goal
  BY <1>2, NoChanges DEF Quiet
<1>3. ASSUME EditorShape(ed'), ed'.tab = ed.tab, ed.phase # "idle" \/ HasChanges(ed)
      PROVE  Goal
  BY <1>3 DEF Quiet
<1>4. ASSUME EditorShape(ed'), ed'.tab = ed.tab, ed'.phase = ed.phase,
             ed'.edited = ed'.base.doc
      PROVE  Goal
  BY <1>4, NoChanges DEF Quiet
<1>5. CASE \E k \in Keys, v \in Vals : EditField(k, v)
  <2>1. PICK k \in Keys, v \in Vals : EditField(k, v)
    BY <1>5
  <2> DEFINE f == [ed.edited EXCEPT ![k] = v]
             x == IF ed.error = "unknown" THEN ed.error ELSE "none"
  <2>2. ed' = [ed EXCEPT !.edited = f, !.result = FALSE, !.error = x]
    BY <2>1 DEF EditField
  <2>3. ed.tab # "toml" /\ ~Blocked(tm) /\ UNCHANGED tm
    BY <2>1 DEF EditField, StructuredShown
  <2> HIDE DEF f, x
  <2>4. EditorShape(ed') /\ ed'.tab = ed.tab
    BY <2>2 DEF EditorShape
  <2> QED
    BY <2>3, <2>4
<1>6. CASE \E tab \in {"normal", "toml"} : SetTab(tab)
  <2>1. PICK tab \in {"normal", "toml"} : SetTab(tab)
    BY <1>6
  <2>2. ed' = [ed EXCEPT !.tab = tab] /\ (tab = "toml" => Quiet(ed))
    BY <2>1 DEF SetTab, TomlTabEnabled, PatchPending, Quiet
  <2>3. /\ EditorShape(ed') /\ ed'.tab = tab /\ ed'.base = ed.base
        /\ ed'.edited = ed.edited /\ ed'.phase = ed.phase
    BY <2>2 DEF EditorShape
  <2>4. Quiet(ed) => Quiet(ed')
    BY <2>3, NoChanges DEF Quiet
  <2> QED
    BY <2>1, <2>2, <2>3, <2>4
<1>7. CASE DiscardDraft
  <2>1. ed' = [Seed(ed, ed.base, ed.base.doc) EXCEPT !.result = FALSE, !.error = "none"]
    BY <1>7 DEF DiscardDraft
  <2>2. /\ EditorShape(ed') /\ ed'.tab = ed.tab /\ ed'.phase = ed.phase
        /\ ed'.edited = ed'.base.doc
    BY <2>1 DEF Seed, EditorShape
  <2> QED
    BY <2>2, <1>4
<1>8. CASE OpenSavePreview \/ CloseSavePreview \/ CheckWrite \/ CheckAnswers
  <2>1. \/ \E x : ed' = [ed EXCEPT !.preview = x]
        \/ \E x : ed' = [ed EXCEPT !.check = x]
        \/ \E x, y : ed' = [ed EXCEPT !.conflict = x, !.check = y]
    BY <1>8 DEF OpenSavePreview, CloseSavePreview, CheckWrite, CheckAnswers
  <2>2. /\ EditorShape(ed') /\ ed'.tab = ed.tab /\ ed'.base = ed.base
        /\ ed'.edited = ed.edited /\ ed'.phase = ed.phase
    BY <2>1 DEF EditorShape
  <2> QED
    BY <2>2, <1>2
<1>9. CASE ApplyPreviewedChanges
  <2>1. /\ \E x : ed' = [[ed EXCEPT !.error = "none", !.result = FALSE] EXCEPT
                           !.phase = "sent", !.sent = x]
        /\ HasChanges(ed)
    BY <1>9 DEF ApplyPreviewedChanges, SubmitPatch
  <2>2. EditorShape(ed') /\ ed'.tab = ed.tab
    BY <2>1 DEF EditorShape
  <2> QED
    BY <2>1, <2>2, <1>3
<1>10. CASE PatchSucceeds
  <2> DEFINE x == [ed.sent EXCEPT !.rev = telemt.rev + 1]
  <2>1. /\ ed' = [ed EXCEPT !.phase = "reseed", !.preview = FALSE, !.result = TRUE,
                    !.conflict = Nothing, !.error = "none", !.sent = x]
        /\ ed.phase # "idle"
    BY <1>10 DEF PatchSucceeds
  <2> HIDE DEF x
  <2>2. EditorShape(ed') /\ ed'.tab = ed.tab
    BY <2>1 DEF EditorShape
  <2> QED
    BY <2>1, <2>2, <1>3
<1>11. CASE \E arrives \in BOOLEAN : Reseeded(arrives)
  <2>1. /\ \E b, w : ed' = [Seed(ed, b, w) EXCEPT !.phase = "idle", !.sent = Nothing]
        /\ ed.phase # "idle"
    BY <1>11 DEF Reseeded
  <2>2. EditorShape(ed') /\ ed'.tab = ed.tab
    BY <2>1 DEF EditorShape, Seed
  <2> QED
    BY <2>1, <2>2, <1>3
<1>12. CASE PatchConflicts \/ (\E arrives \in BOOLEAN : Inspected(arrives))
            \/ (\E code \in {"unknown", "refused"}, landed \in BOOLEAN :
                  PatchFails(code, landed))
  <2>1. /\ \/ ed' = [ed EXCEPT !.phase = "inspect", !.preview = FALSE]
           \/ \E x : ed' = [ed EXCEPT !.phase = "idle", !.sent = Nothing, !.conflict = x]
           \/ \E x : ed' = [ed EXCEPT !.phase = "idle", !.sent = Nothing,
                                      !.preview = FALSE, !.error = x]
        /\ ed.phase # "idle"
    BY <1>12 DEF PatchConflicts, Inspected, PatchFails
  <2>2. EditorShape(ed') /\ ed'.tab = ed.tab
    BY <2>1 DEF EditorShape
  <2> QED
    BY <2>1, <2>2, <1>3
<1>13. CASE ReapplyDraft
  <2> DEFINE fresh == ed.conflict
             edited == DeepMerge(fresh.doc, Patch(ed))
             retry == BuildConfigPatch(fresh.doc, edited)
             seeded == [Seed(ed, fresh, edited) EXCEPT !.conflict = Nothing,
                                                       !.error = "none"]
  <2>1. ed' = IF DOMAIN retry = {} THEN seeded
              ELSE SubmitPatch(seeded, fresh.rev, edited, retry)
    BY <1>13 DEF ReapplyDraft
  <2>2. DOMAIN retry = {k \in Keys : fresh.doc[k] # edited[k]}
    BY DEF BuildConfigPatch, DiffChangedSectionKeys
  <2>3. ~HasChanges(ed) => DOMAIN retry = {}
    <3> SUFFICES ASSUME ~HasChanges(ed), NEW k \in Keys PROVE fresh.doc[k] = edited[k]
      BY <2>2
    <3>1. k \notin DOMAIN Patch(ed)
      BY DEF HasChanges
    <3> QED
      BY <3>1 DEF DeepMerge
  <2> HIDE DEF fresh, edited, retry
  <2>4. /\ EditorShape(seeded) /\ seeded.tab = ed.tab /\ seeded.phase = ed.phase
        /\ seeded.base = fresh /\ seeded.edited = edited
    <3>1. seeded = [ed EXCEPT !.base = fresh, !.edited = edited, !.conflict = Nothing,
                              !.error = "none"]
      BY DEF Seed, EditorShape
    <3> HIDE DEF seeded
    <3> QED
      BY <3>1 DEF EditorShape
  <2>5. DOMAIN retry = {} => ~HasChanges(seeded)
    BY <2>2, <2>4, NoChanges
  <2> HIDE DEF seeded
  <2>6. CASE DOMAIN retry = {}
    BY <2>1, <2>4, <2>5, <2>6 DEF Quiet
  <2>7. CASE DOMAIN retry # {}
    <3>1. \E x : ed' = [seeded EXCEPT !.phase = "sent", !.sent = x]
      BY <2>1, <2>7 DEF SubmitPatch
    <3>2. EditorShape(ed') /\ ed'.tab = ed.tab
      BY <2>4, <3>1 DEF EditorShape
    <3> QED
      BY <2>3, <2>7, <3>2, <1>3
  <2> QED
    BY <2>6, <2>7
<1>14. CASE DiscardMine
  <2>1. ed' = [Seed(ed, ed.conflict, ed.conflict.doc) EXCEPT
                 !.conflict = Nothing, !.error = "none"]
    BY <1>14 DEF DiscardMine
  <2>2. /\ EditorShape(ed') /\ ed'.tab = ed.tab /\ ed'.phase = ed.phase
        /\ ed'.edited = ed'.base.doc
    BY <2>1 DEF Seed, EditorShape
  <2> QED
    BY <2>2, <1>4
<1>15. CASE \E arrives \in BOOLEAN : TomlApplied(arrives)
  <2>1. \/ ed' = [Seed(ed, Snapshot, telemt.doc) EXCEPT !.result = TRUE]
        \/ ed' = [ed EXCEPT !.result = TRUE]
    BY <1>15 DEF TomlApplied
  <2>2. CASE ed' = [ed EXCEPT !.result = TRUE]
    <3>1. /\ EditorShape(ed') /\ ed'.tab = ed.tab /\ ed'.base = ed.base
          /\ ed'.edited = ed.edited /\ ed'.phase = ed.phase
      BY <2>2 DEF EditorShape
    <3> QED
      BY <3>1, <1>2
  <2>3. CASE ed' = [Seed(ed, Snapshot, telemt.doc) EXCEPT !.result = TRUE]
    <3>1. Snapshot.doc = telemt.doc
      BY DEF Snapshot
    <3>2. /\ EditorShape(ed') /\ ed'.tab = ed.tab /\ ed'.phase = ed.phase
          /\ ed'.base = Snapshot /\ ed'.edited = telemt.doc
      BY <2>3 DEF Seed, EditorShape
    <3> QED
      BY <3>1, <3>2, <1>4
  <2> QED
    BY <2>1, <2>2, <2>3
<1>16. \/ UNCHANGED ed \/ \E k \in Keys, v \in Vals : EditField(k, v)
       \/ \E tab \in {"normal", "toml"} : SetTab(tab)
       \/ DiscardDraft \/ OpenSavePreview \/ CloseSavePreview \/ CheckWrite
       \/ CheckAnswers \/ ApplyPreviewedChanges \/ PatchSucceeds \/ PatchConflicts
       \/ \E arrives \in BOOLEAN : Reseeded(arrives) \/ Inspected(arrives)
                                   \/ TomlApplied(arrives)
       \/ \E code \in {"unknown", "refused"}, landed \in BOOLEAN : PatchFails(code, landed)
       \/ ReapplyDraft \/ DiscardMine
  BY DEF ConfigNext, OtherWrites, TomlFails, TomlRefetch, TomlArrives, Validate,
         PreviewSucceeds, SaveToml, TomlSucceeds, TomlConflicts, DiscardToml,
         UpdateDraft, PreviewFails
<1> QED
  <2> HIDE DEF Goal
  <2>1. Goal
    BY <1>1, <1>5, <1>6, <1>7, <1>8, <1>9, <1>10, <1>11, <1>12, <1>13, <1>14, <1>15,
       <1>16 DEF Goal
  <2> QED
    BY <2>1 DEF Goal

\* The TOML editor becomes dirty, or saves, only from its own tab or from a
\* save of its own.
LEMMA TomlSteps ==
    ASSUME TomlShape(tm), ConfigNext
    PROVE  TomlShape(tm') /\ (Dirty(tm') \/ tm'.phase # "idle" => TomlBusy(tm, ed))
<1> DEFINE Goal == /\ TomlShape(tm')
                   /\ Dirty(tm') \/ tm'.phase # "idle" => TomlBusy(tm, ed)
<1>1. SessionShape(tm.session)
  BY DEF TomlShape
<1>2. ASSUME TomlShape(tm'), tm'.phase = tm.phase \/ TomlBusy(tm, ed),
             Dirty(tm') => TomlBusy(tm, ed)
      PROVE  Goal
  BY <1>2 DEF TomlBusy
<1>3. ASSUME TomlShape(tm'), tm'.session = tm.session,
             tm'.phase = tm.phase \/ TomlBusy(tm, ed)
      PROVE  Goal
  <2>1. Dirty(tm') => TomlBusy(tm, ed)
    BY <1>3 DEF TomlBusy, Dirty
  <2> QED
    BY <2>1, <1>2, <1>3
<1>4. CASE UNCHANGED tm
  BY <1>3, <1>4
\* Steps that leave the session and the phase alone.
<1>5. CASE \/ \E tab \in {"normal", "toml"} : SetTab(tab)
           \/ PatchSucceeds \/ TomlRefetch \/ Validate \/ PreviewSucceeds
           \/ \E code \in {"conflict", "other"} : PreviewFails(code)
  <2>1. \/ tm' = tm
        \/ \E x : tm' = [tm EXCEPT !.get = x]
        \/ \E x : tm' = [tm EXCEPT !.preview = x]
        \/ \E x : tm' = [tm EXCEPT !.preview = Nothing, !.validated = x, !.result = FALSE]
        \/ \E x, y : tm' = [tm EXCEPT !.preview = Nothing, !.validated = Nothing,
                                      !.conflict = x, !.get = y]
    BY <1>5 DEF SetTab, PatchSucceeds, TomlRefetch, Validate, PreviewSucceeds, PreviewFails
  <2>2. TomlShape(tm') /\ tm'.session = tm.session /\ tm'.phase = tm.phase
    BY <1>1, <2>1 DEF TomlShape
  <2> QED
    BY <2>2, <1>3
<1>6. CASE TomlArrives
  <2> DEFINE s == ReceiveRemote(tm.session, tm.get, tm.phase = "sent" \/ tm.unknown)
             z == IF tm.cache = tm.get THEN tm.session ELSE s
  <2>1. tm' = [tm EXCEPT !.get = Nothing, !.cache = tm.get, !.session = z]
    BY <1>6 DEF TomlArrives
  <2>2. /\ SessionShape(s)
        /\ tm.session.draft = tm.session.baseline.doc => s.draft = s.baseline.doc
    BY <1>1, ReceivedStaysClean
  <2> HIDE DEF s
  <2>3. /\ SessionShape(z)
        /\ tm.session.draft = tm.session.baseline.doc => z.draft = z.baseline.doc
    BY <1>1, <2>2
  <2> HIDE DEF z
  <2>4. TomlShape(tm') /\ tm'.session = z /\ tm'.phase = tm.phase
    BY <2>1, <2>3 DEF TomlShape
  <2>5. Dirty(tm') => TomlBusy(tm, ed)
    BY <2>3, <2>4 DEF Dirty, TomlBusy
  <2> QED
    BY <2>4, <2>5, <1>2
<1>7. CASE \E doc \in Docs : UpdateDraft(doc)
  <2>1. PICK doc \in Docs : UpdateDraft(doc)
    BY <1>7
  <2> DEFINE z == [tm.session EXCEPT !.draft = doc]
             c == IF doc = tm.session.baseline.doc /\ ~Some(tm.session.remote)
                  THEN FALSE ELSE tm.conflict
  <2>2. /\ tm' = [tm EXCEPT !.session = z, !.validated = Nothing, !.result = FALSE,
                            !.conflict = c]
        /\ ed.tab = "toml"
    BY <2>1 DEF UpdateDraft
  <2>3. SessionShape(z)
    BY <1>1 DEF SessionShape
  <2> HIDE DEF z, c
  <2>4. TomlShape(tm') /\ tm'.phase = tm.phase
    BY <2>2, <2>3 DEF TomlShape
  <2> QED
    BY <2>2, <2>4, <1>2 DEF TomlBusy
<1>8. CASE SaveToml
  <2>1. (\E x : tm' = [tm EXCEPT !.phase = "sent", !.sent = x]) /\ ed.tab = "toml"
    BY <1>8 DEF SaveToml
  <2>2. TomlShape(tm') /\ tm'.session = tm.session
    BY <1>1, <2>1 DEF TomlShape
  <2> QED
    BY <2>1, <2>2, <1>3 DEF TomlBusy
<1>9. CASE TomlSucceeds
  <2> DEFINE c == [rev |-> telemt.rev + 1, doc |-> tm.sent.doc]
             z == AcknowledgeSubmitted(tm.session, tm.sent, c)
             r == z.draft = z.baseline.doc /\ ~Some(z.remote)
             g == IF ed.tab = "toml" THEN c ELSE tm.get
  <2>1. /\ tm' = [tm EXCEPT !.session = z, !.phase = "applied", !.sent = Nothing,
                    !.validated = Nothing, !.conflict = FALSE, !.unknown = FALSE,
                    !.result = r, !.get = g]
        /\ tm.phase # "idle"
    BY <1>9 DEF TomlSucceeds
  <2>2. SessionShape(z)
    BY <1>1, SessionsKeepShape
  <2> HIDE DEF c, z, r, g
  <2>3. TomlShape(tm')
    BY <2>1, <2>2 DEF TomlShape
  <2> QED
    BY <2>1, <2>3, <1>2 DEF TomlBusy
<1>10. CASE \E arrives \in BOOLEAN : TomlApplied(arrives)
  <2>1. tm' = [tm EXCEPT !.phase = "idle"] /\ tm.phase # "idle"
    BY <1>10 DEF TomlApplied
  <2>2. TomlShape(tm') /\ tm'.session = tm.session
    BY <1>1, <2>1 DEF TomlShape
  <2> QED
    BY <2>1, <2>2, <1>3 DEF TomlBusy
<1>11. CASE TomlConflicts
  <2> DEFINE z == IF ~Dirty(tm) /\ Some(tm.session.remote)
                  THEN DiscardToRemote(tm.session) ELSE tm.session
             c == Dirty(tm)
  <2>1. /\ tm' = [tm EXCEPT !.phase = "idle", !.sent = Nothing, !.unknown = FALSE,
                    !.session = z, !.conflict = c, !.get = Snapshot]
        /\ tm.phase # "idle"
    BY <1>11 DEF TomlConflicts
  <2>2. SessionShape(z)
    BY <1>1, SessionsKeepShape
  <2> HIDE DEF z, c
  <2>3. TomlShape(tm')
    BY <2>1, <2>2 DEF TomlShape
  <2> QED
    BY <2>1, <2>3, <1>2 DEF TomlBusy
<1>12. CASE \E code \in {"unknown", "refused"}, landed \in BOOLEAN : TomlFails(code, landed)
  <2>1. /\ \E x, y : tm' = [tm EXCEPT !.phase = "idle", !.sent = Nothing, !.unknown = x,
                                      !.validated = y]
        /\ tm.phase # "idle"
    BY <1>12 DEF TomlFails
  <2>2. TomlShape(tm') /\ tm'.session = tm.session
    BY <1>1, <2>1 DEF TomlShape
  <2> QED
    BY <2>1, <2>2, <1>3 DEF TomlBusy
<1>13. CASE DiscardToml
  <2> DEFINE z == DiscardToRemote(tm.session)
             g == IF Some(tm.preview) THEN Snapshot ELSE tm.get
  <2>1. tm' = [tm EXCEPT !.session = z, !.conflict = FALSE, !.unknown = FALSE,
                 !.preview = Nothing, !.validated = Nothing, !.result = FALSE, !.get = g]
    BY <1>13 DEF DiscardToml
  <2>2. SessionShape(z) /\ z.draft = z.baseline.doc
    BY <1>1, SessionsKeepShape
  <2> HIDE DEF z, g
  <2>3. TomlShape(tm') /\ tm'.session = z /\ tm'.phase = tm.phase
    BY <2>1, <2>2 DEF TomlShape
  <2>4. ~Dirty(tm')
    BY <2>2, <2>3 DEF Dirty
  <2> QED
    BY <2>3, <2>4, <1>2
<1>14. \/ UNCHANGED tm \/ \E tab \in {"normal", "toml"} : SetTab(tab)
       \/ PatchSucceeds \/ TomlRefetch \/ Validate \/ PreviewSucceeds
       \/ \E code \in {"conflict", "other"} : PreviewFails(code)
       \/ TomlArrives \/ \E doc \in Docs : UpdateDraft(doc)
       \/ SaveToml \/ TomlSucceeds \/ \E arrives \in BOOLEAN : TomlApplied(arrives)
       \/ TomlConflicts
       \/ \E code \in {"unknown", "refused"}, landed \in BOOLEAN : TomlFails(code, landed)
       \/ DiscardToml
  BY DEF ConfigNext, OtherWrites, EditField, DiscardDraft, OpenSavePreview,
         CloseSavePreview, ApplyPreviewedChanges, PatchConflicts, CheckWrite,
         CheckAnswers, Reseeded, Inspected, PatchFails, ReapplyDraft, DiscardMine
<1> QED
  <2> HIDE DEF Goal
  <2>1. Goal
    BY <1>4, <1>5, <1>6, <1>7, <1>8, <1>9, <1>10, <1>11, <1>12, <1>13, <1>14 DEF Goal
  <2> QED
    BY <2>1 DEF Goal

\* The two together.
LEMMA EditorInvStep == EditorInv /\ ConfigNext => EditorInv'
<1> SUFFICES ASSUME EditorInv, ConfigNext PROVE EditorInv'
  OBVIOUS
<1>1. EditorShape(ed) /\ TomlShape(tm) /\ (TomlBusy(tm, ed) => Quiet(ed))
  BY DEF EditorInv
<1>2. /\ EditorShape(ed')
      /\ \/ ed'.tab = ed.tab /\ (Quiet(ed) => Quiet(ed'))
         \/ ed'.tab = "toml" /\ Quiet(ed) /\ Quiet(ed')
         \/ ed'.tab # "toml" /\ (Quiet(ed) => Quiet(ed'))
         \/ ed'.tab = ed.tab /\ ed.tab # "toml" /\ ~Blocked(tm) /\ UNCHANGED tm
  BY <1>1, EditorSteps
<1>3. TomlShape(tm') /\ (Dirty(tm') \/ tm'.phase # "idle" => TomlBusy(tm, ed))
  BY <1>1, TomlSteps
<1>4. ASSUME ~Blocked(tm), UNCHANGED tm PROVE ~Dirty(tm') /\ tm'.phase = "idle"
  BY <1>4 DEF Blocked
<1>5. TomlBusy(tm', ed') => Quiet(ed')
  <2> SUFFICES ASSUME TomlBusy(tm', ed') PROVE Quiet(ed')
    OBVIOUS
  <2>1. Dirty(tm') \/ tm'.phase # "idle" \/ ed'.tab = "toml"
    BY DEF TomlBusy
  <2>2. ed.tab = "toml" => TomlBusy(tm, ed)
    BY DEF TomlBusy
  <2> QED
    BY <1>1, <1>2, <1>3, <1>4, <2>1, <2>2
<1> QED
  BY <1>2, <1>3, <1>5 DEF EditorInv

\* The page opens with the stored configuration and no TOML session.
LEMMA EditorInvInit == ConfigInit => EditorInv
<1> SUFFICES ASSUME ConfigInit PROVE EditorInv
  OBVIOUS
<1> DEFINE e == << >>
           empty == [rev |-> 0, doc |-> e]
           b == [rev |-> 1, doc |-> telemt.doc]
           s == [baseline |-> empty, draft |-> e, remote |-> Nothing]
<1>1. ed = [tab |-> "normal", base |-> b, edited |-> telemt.doc, conflict |-> Nothing,
            error |-> "none", result |-> FALSE, preview |-> FALSE, phase |-> "idle",
            sent |-> Nothing, check |-> Nothing]
  BY DEF ConfigInit
<1>2. tm = [session |-> s, cache |-> Nothing, get |-> Nothing, phase |-> "idle",
            sent |-> Nothing, preview |-> Nothing, validated |-> Nothing,
            conflict |-> FALSE, unknown |-> FALSE, result |-> FALSE]
  BY DEF ConfigInit
<1> HIDE DEF e
<1>3. SessionShape(s) /\ s.draft = e /\ s.baseline.doc = e /\ b.doc = telemt.doc
  BY DEF SessionShape
<1> HIDE DEF b, s
<1>4. EditorShape(ed) /\ ed.base = b /\ ed.edited = telemt.doc /\ ed.phase = "idle"
  BY <1>1 DEF EditorShape
<1>5. TomlShape(tm)
  BY <1>2, <1>3 DEF TomlShape
<1>6. Quiet(ed)
  BY <1>3, <1>4, NoChanges DEF Quiet
<1> QED
  BY <1>4, <1>5, <1>6 DEF EditorInv

-----------------------------------------------------------------------------
(***************************************************************************)
(* Sessions: a read and an answer replace only a draft that nobody typed.  *)
(***************************************************************************)

\* The fields of a session.
LEMMA SessionFields ==
    ASSUME NEW p, NEW q, NEW r, NEW y, y = [baseline |-> p, draft |-> q, remote |-> r]
    PROVE  SessionShape(y) /\ y.baseline = p /\ y.draft = q /\ y.remote = r
BY DEF SessionShape

\* A session with its draft replaced.
LEMMA SessionTyped ==
    ASSUME NEW s, SessionShape(s), NEW q, NEW y, y = [s EXCEPT !.draft = q]
    PROVE  SessionShape(y) /\ y.baseline = s.baseline /\ y.draft = q /\ y.remote = s.remote
<1> DEFINE b == s.baseline
           d == s.draft
           m == s.remote
<1>1. s = [baseline |-> b, draft |-> d, remote |-> m]
  BY DEF SessionShape
<1> HIDE DEF b, d, m
<1>2. y = [baseline |-> b, draft |-> q, remote |-> m]
  BY <1>1
<1> QED
  BY <1>2 DEF SessionShape, b, d, m

\* receiveRemote replaces only a draft that equals its baseline.
LEMMA ReceiveKeeps ==
    ASSUME NEW s, SessionShape(s), NEW fresh, NEW preserve \in BOOLEAN, NEW y,
           y = ReceiveRemote(s, fresh, preserve)
    PROVE  /\ SessionShape(y)
           /\ y.draft = s.draft \/ s.draft = s.baseline.doc
           /\ y.draft \in {s.draft, fresh.doc}
           /\ y.baseline \in {s.baseline, fresh}
           /\ y.remote \in {s.remote, fresh, Nothing}
           /\ fresh = s.baseline => y = s
<1> DEFINE f == fresh.doc
           d == IF s.draft = s.baseline.doc THEN f ELSE s.draft
           r == IF s.remote.rev = fresh.rev THEN Nothing ELSE s.remote
<1>1. \/ y = s
      \/ y = [s EXCEPT !.remote = fresh]
      \/ y = [s EXCEPT !.baseline = fresh, !.draft = d, !.remote = r]
      \/ y = [s EXCEPT !.baseline = fresh, !.draft = f] /\ s.draft = s.baseline.doc
  BY DEF ReceiveRemote
<1>2. fresh = s.baseline => y = s
  BY DEF ReceiveRemote
<1>3. /\ d \in {s.draft, f} /\ r \in {s.remote, Nothing}
      /\ d = s.draft \/ s.draft = s.baseline.doc
  OBVIOUS
<1> HIDE DEF f, d, r
<1> DEFINE b == s.baseline
           e == s.draft
           m == s.remote
<1>0. s = [baseline |-> b, draft |-> e, remote |-> m]
  BY DEF SessionShape
<1> HIDE DEF b, e, m
<1>4. CASE y = s
  BY <1>2, <1>4 DEF f
<1>5. CASE y = [s EXCEPT !.remote = fresh]
  <2>1. y = [baseline |-> b, draft |-> e, remote |-> fresh]
    BY <1>0, <1>5
  <2>2. SessionShape(y) /\ y.baseline = b /\ y.draft = e /\ y.remote = fresh
    BY <2>1, SessionFields
  <2> QED
    BY <1>2, <2>2 DEF f, b, e
<1>6. CASE y = [s EXCEPT !.baseline = fresh, !.draft = d, !.remote = r]
  <2>1. y = [baseline |-> fresh, draft |-> d, remote |-> r]
    BY <1>0, <1>6
  <2>2. SessionShape(y) /\ y.baseline = fresh /\ y.draft = d /\ y.remote = r
    BY <2>1, SessionFields
  <2> QED
    BY <1>2, <1>3, <2>2 DEF f
<1>7. CASE /\ y = [s EXCEPT !.baseline = fresh, !.draft = f]
           /\ s.draft = s.baseline.doc
  <2>1. y = [baseline |-> fresh, draft |-> f, remote |-> m]
    BY <1>0, <1>7
  <2>2. SessionShape(y) /\ y.baseline = fresh /\ y.draft = f /\ y.remote = m
    BY <2>1, SessionFields
  <2> QED
    BY <1>2, <1>7, <2>2 DEF f, m
<1> QED
  BY <1>1, <1>4, <1>5, <1>6, <1>7

\* acknowledgeSubmitted replaces only the draft that was submitted.
LEMMA AcknowledgeKeeps ==
    ASSUME NEW s, SessionShape(s), NEW submitted, NEW confirmed, NEW y,
           y = AcknowledgeSubmitted(s, submitted, confirmed)
    PROVE  /\ SessionShape(y)
           /\ y.draft = s.draft \/ s.draft = submitted.doc
           /\ y.draft \in {s.draft, y.baseline.doc}
           /\ y.baseline \in {s.remote, confirmed}
           /\ y.baseline = s.remote => s.remote.rev > 0 \/ s.remote = confirmed
           /\ y.remote \in {s.remote, Nothing}
<1> DEFINE canonical == IF s.remote.rev > 0 /\ s.remote.rev = confirmed.rev
                        THEN s.remote ELSE confirmed
           d == IF s.draft = submitted.doc THEN canonical.doc ELSE s.draft
           r == IF s.remote = canonical THEN Nothing ELSE s.remote
<1>1. y = [s EXCEPT !.baseline = canonical, !.draft = d, !.remote = r]
  BY DEF AcknowledgeSubmitted
<1>2. canonical \in {s.remote, confirmed}
      /\ (canonical = s.remote => s.remote.rev > 0 \/ s.remote = confirmed)
  OBVIOUS
<1> HIDE DEF canonical
<1>3. d \in {s.draft, canonical.doc} /\ (d = s.draft \/ s.draft = submitted.doc)
  OBVIOUS
<1>4. r \in {s.remote, Nothing}
  OBVIOUS
<1> HIDE DEF d, r
<1>5. SessionShape(y) /\ y.baseline = canonical /\ y.draft = d /\ y.remote = r
  <2> DEFINE b == s.baseline
             e == s.draft
             m == s.remote
  <2>1. s = [baseline |-> b, draft |-> e, remote |-> m]
    BY DEF SessionShape
  <2> HIDE DEF b, e, m
  <2>2. y = [baseline |-> canonical, draft |-> d, remote |-> r]
    BY <1>1, <2>1
  <2> QED
    BY <2>2, SessionFields
<1> QED
  BY <1>2, <1>3, <1>4, <1>5

-----------------------------------------------------------------------------
(***************************************************************************)
(* The configuration: documents have every leaf, so a leaf that was typed  *)
(* can be told from one that was not.                                      *)
(***************************************************************************)

\* A document has the configuration's leaves.
IsDoc(d) == DOMAIN d = Keys
EditorDocs(e) ==
    /\ IsDoc(e.base.doc) /\ IsDoc(e.edited)
    /\ Some(e.conflict) => IsDoc(e.conflict.doc)
    /\ Some(e.check) => IsDoc(e.check.doc)
    /\ e.phase # "idle" => "doc" \in DOMAIN e.sent /\ IsDoc(e.sent.doc)
\* The TOML draft is a document unless nothing was read or typed yet.
TomlDocs(t) ==
    /\ IsDoc(t.session.draft) \/ ~Dirty(t)
    /\ Some(t.get) => IsDoc(t.get.doc)
    /\ t.phase = "sent" => IsDoc(t.session.draft) /\ IsDoc(t.sent.doc)
DocsInv == IsDoc(telemt.doc) /\ EditorDocs(ed) /\ TomlDocs(tm)

\* The page opens on a document that was read.
LEMMA DocsInvInit == ConfigInit => DocsInv
<1> SUFFICES ASSUME ConfigInit PROVE DocsInv
  OBVIOUS
<1>1. telemt.doc \in Docs
  BY DEF ConfigInit
<1>2. IsDoc(telemt.doc)
  BY <1>1 DEF IsDoc, Docs
<1>3. ~Some(Nothing)
  BY DEF Some, Nothing
<1>4. EditorDocs(ed)
  <2> DEFINE d == telemt.doc
             b == [rev |-> 1, doc |-> d]
  <2>1. ed = [tab |-> "normal", base |-> b, edited |-> d, conflict |-> Nothing, error |-> "none",
              result |-> FALSE, preview |-> FALSE, phase |-> "idle", sent |-> Nothing,
              check |-> Nothing]
    BY DEF ConfigInit
  <2>2. b.doc = d
    OBVIOUS
  <2> HIDE DEF d, b
  <2>3. ed.base = b /\ ed.edited = d /\ ed.conflict = Nothing /\ ed.phase = "idle" /\ ed.check = Nothing
    BY <2>1
  <2> QED
    BY <1>2, <1>3, <2>2, <2>3 DEF EditorDocs, d
<1>5. TomlDocs(tm)
  <2> DEFINE o == << >>
             b == [rev |-> 0, doc |-> o]
             s == [baseline |-> b, draft |-> o, remote |-> Nothing]
  <2>1. tm = [session |-> s, cache |-> Nothing, get |-> Nothing, phase |-> "idle", sent |-> Nothing,
              preview |-> Nothing, validated |-> Nothing, conflict |-> FALSE, unknown |-> FALSE,
              result |-> FALSE]
    BY DEF ConfigInit
  <2>2. s.draft = s.baseline.doc
    <3> HIDE DEF o
    <3> QED
      OBVIOUS
  <2> HIDE DEF s
  <2>3. tm.session = s /\ tm.get = Nothing /\ tm.phase = "idle"
    BY <2>1
  <2> QED
    BY <1>3, <2>2, <2>3 DEF TomlDocs, Dirty
<1> QED
  BY <1>2, <1>4, <1>5 DEF DocsInv

\* A merge has the leaves of the configuration, and what the patch gives them.
LEMMA MergedDocs ==
    ASSUME NEW base, NEW before, NEW after, NEW y,
           y = DeepMerge(base, BuildConfigPatch(before, after))
    PROVE  /\ IsDoc(y)
           /\ \A k \in Keys : y[k] = after[k] \/ before[k] = after[k]
<1> DEFINE D == DiffChangedSectionKeys(before, after)
           p == [k \in D |-> after[k]]
<1>1. y = DeepMerge(base, p)
  BY DEF BuildConfigPatch
<1>2. \A k \in Keys : k \in D <=> before[k] # after[k]
  BY DEF DiffChangedSectionKeys
<1> HIDE DEF D
<1>3. DOMAIN p = D /\ \A k \in D : p[k] = after[k]
  OBVIOUS
<1> HIDE DEF p
<1> QED
  BY <1>1, <1>2, <1>3 DEF DeepMerge, IsDoc

\* The structured editor.
LEMMA EditorKeeps ==
    ASSUME EditorInv, DocsInv, ConfigNext
    PROVE  /\ EditorDocs(ed')
           /\ \A k \in Keys :
                \/ ed'.edited[k] = ed.edited[k]
                \/ EditField(k, ed'.edited[k]) \/ DiscardDraft \/ DiscardMine
                \/ ed.edited[k] = ed.base.doc[k]
                \/ PatchPending(ed) /\ ed.edited[k] = ed.sent.doc[k]
<1> DEFINE Kept ==
      \A k \in Keys :
        \/ ed'.edited[k] = ed.edited[k]
        \/ EditField(k, ed'.edited[k]) \/ DiscardDraft \/ DiscardMine
        \/ ed.edited[k] = ed.base.doc[k]
        \/ PatchPending(ed) /\ ed.edited[k] = ed.sent.doc[k]
<1> SUFFICES EditorDocs(ed') /\ Kept
  OBVIOUS
<1>0. /\ EditorShape(ed) /\ EditorDocs(ed) /\ IsDoc(telemt.doc) /\ ~Some(Nothing)
      /\ Snapshot.doc = telemt.doc
  BY DEF EditorInv, DocsInv, Some, Nothing, Snapshot
<1>1. ASSUME ed' = ed PROVE EditorDocs(ed') /\ Kept
  BY <1>0, <1>1
\* Steps that leave the documents alone.
<1>2. ASSUME ed'.base = ed.base, ed'.edited = ed.edited, ed'.conflict = ed.conflict,
             ed'.check = ed.check,
             ed'.phase = "idle" \/ (ed'.phase = ed.phase /\ ed'.sent = ed.sent)
               \/ (ed.phase # "idle" /\ ed'.sent = ed.sent)
      PROVE  EditorDocs(ed') /\ Kept
  BY <1>0, <1>2 DEF EditorDocs
<1>3. ASSUME NEW k \in Keys, NEW v \in Vals, EditField(k, v) PROVE EditorDocs(ed') /\ Kept
  <2> DEFINE f == [ed.edited EXCEPT ![k] = v]
             x == IF ed.error = "unknown" THEN ed.error ELSE "none"
  <2>1. ed' = [ed EXCEPT !.edited = f, !.result = FALSE, !.error = x]
    BY <1>3 DEF EditField
  <2>2. IsDoc(f) /\ f[k] = v /\ \A j \in Keys : j # k => f[j] = ed.edited[j]
    BY <1>0 DEF EditorDocs, IsDoc
  <2> HIDE DEF f, x
  <2>3. /\ ed'.edited = f /\ ed'.base = ed.base /\ ed'.conflict = ed.conflict /\ ed'.check = ed.check
        /\ ed'.phase = ed.phase /\ ed'.sent = ed.sent
    BY <1>0, <2>1 DEF EditorShape
  <2>4. EditorDocs(ed')
    BY <1>0, <2>2, <2>3 DEF EditorDocs
  <2> QED
    BY <1>3, <2>2, <2>3, <2>4
<1>4. ASSUME NEW tab \in {"normal", "toml"}, SetTab(tab) PROVE EditorDocs(ed') /\ Kept
  <2>1. ed' = [ed EXCEPT !.tab = tab]
    BY <1>4 DEF SetTab
  <2>2. /\ ed'.base = ed.base /\ ed'.edited = ed.edited /\ ed'.conflict = ed.conflict
        /\ ed'.check = ed.check /\ ed'.phase = ed.phase /\ ed'.sent = ed.sent
    BY <1>0, <2>1 DEF EditorShape
  <2> QED
    BY <1>2, <2>2
<1>5. CASE DiscardDraft
  <2> DEFINE b == ed.base
             d == b.doc
  <2>1. ed' = [[ed EXCEPT !.base = b, !.edited = d] EXCEPT !.result = FALSE, !.error = "none"]
    BY <1>5 DEF DiscardDraft, Seed
  <2>2. IsDoc(d)
    BY <1>0 DEF EditorDocs
  <2> HIDE DEF b, d
  <2>3. /\ ed'.base = b /\ ed'.edited = d /\ ed'.conflict = ed.conflict
        /\ ed'.check = ed.check /\ ed'.phase = ed.phase /\ ed'.sent = ed.sent
    BY <1>0, <2>1 DEF EditorShape
  <2>4. EditorDocs(ed')
    BY <1>0, <2>2, <2>3 DEF EditorDocs, b, d
  <2> QED
    BY <1>5, <2>4
<1>6. CASE OpenSavePreview \/ CloseSavePreview
  <2>1. \E x \in BOOLEAN : ed' = [ed EXCEPT !.preview = x]
    BY <1>6 DEF OpenSavePreview, CloseSavePreview
  <2>2. /\ ed'.base = ed.base /\ ed'.edited = ed.edited /\ ed'.conflict = ed.conflict
        /\ ed'.check = ed.check /\ ed'.phase = ed.phase /\ ed'.sent = ed.sent
    BY <1>0, <2>1 DEF EditorShape
  <2> QED
    BY <1>2, <2>2
<1>7. CASE ApplyPreviewedChanges
  <2> DEFINE x == [rev |-> ed.base.rev, doc |-> ed.edited, patch |-> Patch(ed)]
  <2>1. ed' = [[ed EXCEPT !.error = "none", !.result = FALSE] EXCEPT !.phase = "sent", !.sent = x]
    BY <1>7 DEF ApplyPreviewedChanges, SubmitPatch
  <2>2. "doc" \in DOMAIN x /\ x.doc = ed.edited
    OBVIOUS
  <2> HIDE DEF x
  <2>3. /\ ed'.base = ed.base /\ ed'.edited = ed.edited /\ ed'.conflict = ed.conflict
        /\ ed'.check = ed.check /\ ed'.sent = x
    BY <1>0, <2>1 DEF EditorShape
  <2>4. EditorDocs(ed')
    BY <1>0, <2>2, <2>3 DEF EditorDocs
  <2> QED
    BY <2>3, <2>4
<1>8. CASE PatchSucceeds
  <2> DEFINE r == telemt.rev + 1
             x == [ed.sent EXCEPT !.rev = r]
  <2>1. /\ ed' = [ed EXCEPT !.phase = "reseed", !.preview = FALSE, !.result = TRUE,
                    !.conflict = Nothing, !.error = "none", !.sent = x]
        /\ ed.phase # "idle"
    BY <1>8 DEF PatchSucceeds
  <2>2. "doc" \in DOMAIN x /\ x.doc = ed.sent.doc
    <3> HIDE DEF r
    <3> QED
      BY <1>0, <2>1 DEF EditorDocs
  <2> HIDE DEF x
  <2>3. /\ ed'.base = ed.base /\ ed'.edited = ed.edited /\ ed'.conflict = Nothing
        /\ ed'.check = ed.check /\ ed'.sent = x
    BY <1>0, <2>1 DEF EditorShape
  <2>4. EditorDocs(ed')
    BY <1>0, <2>1, <2>2, <2>3 DEF EditorDocs
  <2> QED
    BY <2>3, <2>4
<1>9. ASSUME NEW arrives \in BOOLEAN, Reseeded(arrives) PROVE EditorDocs(ed') /\ Kept
  <2> DEFINE w == DeepMerge(telemt.doc, BuildConfigPatch(ed.sent.doc, ed.edited))
             q == [rev |-> ed.sent.rev, doc |-> ed.sent.doc]
             e == ed.edited
             n == Snapshot
  <2>1. /\ ed.phase # "idle"
        /\ \/ ed' = [[ed EXCEPT !.base = n, !.edited = w] EXCEPT !.phase = "idle", !.sent = Nothing]
           \/ ed' = [[ed EXCEPT !.base = q, !.edited = e] EXCEPT !.phase = "idle", !.sent = Nothing]
    BY <1>0, <1>9 DEF Reseeded, Seed, PreserveLateConfigEdits, RebaseEdits
  <2>2. IsDoc(w) /\ \A k \in Keys : w[k] = ed.edited[k] \/ ed.sent.doc[k] = ed.edited[k]
    BY MergedDocs
  <2>3. q.doc = ed.sent.doc /\ IsDoc(q.doc) /\ IsDoc(e) /\ IsDoc(n.doc)
    BY <1>0, <2>1 DEF EditorDocs
  <2> HIDE DEF w, q, e, n
  <2>4. /\ \/ ed'.base = n /\ ed'.edited = w
           \/ ed'.base = q /\ ed'.edited = e
        /\ ed'.conflict = ed.conflict /\ ed'.check = ed.check /\ ed'.phase = "idle"
    BY <1>0, <2>1 DEF EditorShape
  <2>5. EditorDocs(ed')
    BY <1>0, <2>2, <2>3, <2>4 DEF EditorDocs
  <2>6. Kept
    BY <2>1, <2>2, <2>4 DEF PatchPending, e
  <2> QED
    BY <2>5, <2>6
<1>10. CASE PatchConflicts
  <2>1. ed' = [ed EXCEPT !.phase = "inspect", !.preview = FALSE] /\ ed.phase # "idle"
    BY <1>10 DEF PatchConflicts
  <2>2. /\ ed'.base = ed.base /\ ed'.edited = ed.edited /\ ed'.conflict = ed.conflict
        /\ ed'.check = ed.check /\ ed'.sent = ed.sent
    BY <1>0, <2>1 DEF EditorShape
  <2> QED
    BY <1>2, <2>1, <2>2
<1>11. ASSUME NEW arrives \in BOOLEAN, Inspected(arrives) PROVE EditorDocs(ed') /\ Kept
  <2> DEFINE c == IF arrives THEN Snapshot ELSE ed.conflict
  <2>1. ed' = [ed EXCEPT !.phase = "idle", !.sent = Nothing, !.conflict = c]
    BY <1>11 DEF Inspected
  <2>2. Some(c) => IsDoc(c.doc)
    BY <1>0 DEF EditorDocs
  <2> HIDE DEF c
  <2>3. /\ ed'.base = ed.base /\ ed'.edited = ed.edited /\ ed'.conflict = c
        /\ ed'.check = ed.check /\ ed'.phase = "idle"
    BY <1>0, <2>1 DEF EditorShape
  <2>4. EditorDocs(ed')
    BY <1>0, <2>2, <2>3 DEF EditorDocs
  <2> QED
    BY <2>3, <2>4
<1>12. ASSUME NEW code \in {"unknown", "refused"}, NEW landed \in BOOLEAN, PatchFails(code, landed)
       PROVE  EditorDocs(ed') /\ Kept
  <2>1. ed' = [ed EXCEPT !.phase = "idle", !.sent = Nothing, !.preview = FALSE, !.error = code]
    BY <1>12 DEF PatchFails
  <2>2. /\ ed'.base = ed.base /\ ed'.edited = ed.edited /\ ed'.conflict = ed.conflict
        /\ ed'.check = ed.check /\ ed'.phase = "idle"
    BY <1>0, <2>1 DEF EditorShape
  <2> QED
    BY <1>2, <2>2
<1>13. CASE CheckWrite \/ CheckAnswers
  <2> DEFINE n == Snapshot
             c == ed.check
  <2>1. \/ ed' = [ed EXCEPT !.check = n]
        \/ ed' = [ed EXCEPT !.conflict = c, !.check = Nothing]
    BY <1>13 DEF CheckWrite, CheckAnswers
  <2>2. IsDoc(n.doc) /\ (Some(c) => IsDoc(c.doc))
    BY <1>0 DEF EditorDocs
  <2> HIDE DEF n, c
  <2>3. /\ \/ ed'.check = n /\ ed'.conflict = ed.conflict
           \/ ed'.check = Nothing /\ ed'.conflict = c
        /\ ed'.base = ed.base /\ ed'.edited = ed.edited /\ ed'.phase = ed.phase /\ ed'.sent = ed.sent
    BY <1>0, <2>1 DEF EditorShape
  <2>4. EditorDocs(ed')
    BY <1>0, <2>2, <2>3 DEF EditorDocs
  <2> QED
    BY <2>3, <2>4
<1>14. CASE ReapplyDraft
  <2> DEFINE c == ed.conflict
             w == DeepMerge(c.doc, Patch(ed))
             x == [rev |-> c.rev, doc |-> w, patch |-> BuildConfigPatch(c.doc, w)]
             z == [[ed EXCEPT !.base = c, !.edited = w] EXCEPT !.conflict = Nothing, !.error = "none"]
  <2>1. /\ Some(c) /\ ed.phase = "idle"
        /\ ed' = z \/ ed' = [z EXCEPT !.phase = "sent", !.sent = x]
    BY <1>14 DEF ReapplyDraft, Seed, SubmitPatch, PatchPending
  <2>2. IsDoc(w) /\ \A k \in Keys : w[k] = ed.edited[k] \/ ed.base.doc[k] = ed.edited[k]
    BY MergedDocs DEF Patch
  <2>3. IsDoc(c.doc) /\ "doc" \in DOMAIN x /\ x.doc = w
    BY <1>0, <2>1 DEF EditorDocs
  <2> HIDE DEF c, w, x
  <2>4. /\ ed'.base = c /\ ed'.edited = w /\ ed'.conflict = Nothing /\ ed'.check = ed.check
        /\ ed'.phase = "idle" \/ ed'.sent = x
    BY <1>0, <2>1 DEF EditorShape
  <2>5. EditorDocs(ed')
    BY <1>0, <2>2, <2>3, <2>4 DEF EditorDocs
  <2>6. Kept
    BY <2>2, <2>4
  <2> QED
    BY <2>5, <2>6
<1>15. CASE DiscardMine
  <2> DEFINE c == ed.conflict
             d == c.doc
  <2>1. /\ Some(c)
        /\ ed' = [[ed EXCEPT !.base = c, !.edited = d] EXCEPT !.conflict = Nothing, !.error = "none"]
    BY <1>15 DEF DiscardMine, Seed
  <2>2. IsDoc(d)
    BY <1>0, <2>1 DEF EditorDocs
  <2> HIDE DEF c, d
  <2>3. /\ ed'.base = c /\ ed'.edited = d /\ ed'.conflict = Nothing /\ ed'.check = ed.check
        /\ ed'.phase = ed.phase /\ ed'.sent = ed.sent
    BY <1>0, <2>1 DEF EditorShape
  <2>4. EditorDocs(ed')
    BY <1>0, <2>2, <2>3 DEF EditorDocs, c, d
  <2> QED
    BY <1>15, <2>4
<1>16. ASSUME NEW arrives \in BOOLEAN, TomlApplied(arrives) PROVE EditorDocs(ed') /\ Kept
  <2> DEFINE n == Snapshot
             d == telemt.doc
  <2>1. /\ tm.phase = "applied"
        /\ \/ ed' = [[ed EXCEPT !.base = n, !.edited = d] EXCEPT !.result = TRUE]
           \/ ed' = [ed EXCEPT !.result = TRUE]
    BY <1>16 DEF TomlApplied, Seed
  <2>2. ~HasChanges(ed)
    BY <2>1 DEF EditorInv, TomlBusy, Quiet
  <2>3. \A k \in Keys : ed.edited[k] = ed.base.doc[k]
    BY <2>2, NoChanges
  <2>4. IsDoc(d) /\ IsDoc(n.doc)
    BY <1>0
  <2> HIDE DEF n, d
  <2>5. /\ \/ ed'.base = n /\ ed'.edited = d
           \/ ed'.base = ed.base /\ ed'.edited = ed.edited
        /\ ed'.conflict = ed.conflict /\ ed'.check = ed.check
        /\ ed'.phase = ed.phase /\ ed'.sent = ed.sent
    BY <1>0, <2>1 DEF EditorShape
  <2>6. EditorDocs(ed')
    BY <1>0, <2>4, <2>5 DEF EditorDocs
  <2> QED
    BY <2>3, <2>6
\* The other steps are not the structured editor's.
<1>17. CASE \/ \E k \in Keys, v \in Vals : OtherWrites(k, v)
            \/ \E code \in {"unknown", "refused"}, landed \in BOOLEAN : TomlFails(code, landed)
            \/ TomlRefetch \/ TomlArrives \/ Validate \/ PreviewSucceeds \/ SaveToml
            \/ TomlSucceeds \/ TomlConflicts \/ DiscardToml
            \/ \E doc \in Docs : UpdateDraft(doc)
            \/ \E code \in {"conflict", "other"} : PreviewFails(code)
  <2>1. ed' = ed
    BY <1>17 DEF OtherWrites, TomlFails, TomlRefetch, TomlArrives, Validate, PreviewSucceeds, SaveToml,
         TomlSucceeds, TomlConflicts, DiscardToml, UpdateDraft, PreviewFails
  <2> QED
    BY <1>1, <2>1
<1> HIDE DEF Kept
<1> QED
  BY <1>3, <1>4, <1>5, <1>6, <1>7, <1>8, <1>9, <1>10, <1>11, <1>12, <1>13, <1>14, <1>15, <1>16, <1>17
  DEF ConfigNext

\* Telemt's document has every leaf, whoever wrote it last.
LEMMA StoredIsDoc ==
    ASSUME DocsInv, ConfigNext
    PROVE  IsDoc(telemt'.doc)
<1>0. IsDoc(telemt.doc) /\ TomlDocs(tm)
  BY DEF DocsInv
<1>1. ASSUME NEW d, NEW who, IsDoc(d), telemt' = Write(d, who) PROVE IsDoc(telemt'.doc)
  BY <1>1 DEF Write
<1>2. ASSUME NEW k \in Keys, NEW v \in Vals, OtherWrites(k, v) PROVE IsDoc(telemt'.doc)
  <2> DEFINE d == [telemt.doc EXCEPT ![k] = v]
  <2>1. telemt' = Write(d, "other")
    BY <1>2 DEF OtherWrites
  <2>2. IsDoc(d)
    BY <1>0 DEF IsDoc
  <2> HIDE DEF d
  <2> QED
    BY <1>1, <2>1, <2>2
<1>3. \A p : IsDoc(DeepMerge(telemt.doc, p))
  BY DEF IsDoc, DeepMerge
<1>4. CASE PatchSucceeds
  BY <1>1, <1>3, <1>4 DEF PatchSucceeds
<1>5. ASSUME NEW code \in {"unknown", "refused"}, NEW landed \in BOOLEAN, PatchFails(code, landed)
      PROVE  IsDoc(telemt'.doc)
  BY <1>0, <1>1, <1>3, <1>5 DEF PatchFails
<1>6. CASE TomlSucceeds
  BY <1>0, <1>1, <1>6 DEF TomlSucceeds, TomlDocs
<1>7. ASSUME NEW code \in {"unknown", "refused"}, NEW landed \in BOOLEAN, TomlFails(code, landed)
      PROVE  IsDoc(telemt'.doc)
  BY <1>0, <1>1, <1>7 DEF TomlFails, TomlDocs
<1>8. CASE telemt' = telemt
  BY <1>0, <1>8
<1>9. \/ telemt' = telemt \/ PatchSucceeds \/ TomlSucceeds
      \/ \E k \in Keys, v \in Vals : OtherWrites(k, v)
      \/ \E code \in {"unknown", "refused"}, landed \in BOOLEAN :
            PatchFails(code, landed) \/ TomlFails(code, landed)
  BY DEF ConfigNext, EditField, SetTab, DiscardDraft, OpenSavePreview, CloseSavePreview,
         ApplyPreviewedChanges, PatchConflicts, CheckWrite, CheckAnswers, Reseeded, Inspected,
         TomlApplied, ReapplyDraft, DiscardMine, TomlRefetch, TomlArrives, Validate,
         PreviewSucceeds, SaveToml, TomlConflicts, DiscardToml, UpdateDraft, PreviewFails
<1> QED
  BY <1>2, <1>4, <1>5, <1>6, <1>7, <1>8, <1>9

\* The TOML editor.
LEMMA TomlKeeps ==
    ASSUME TomlShape(tm), DocsInv, ConfigNext
    PROVE  /\ TomlDocs(tm')
           /\ \/ tm'.session.draft = tm.session.draft
              \/ UpdateDraft(tm'.session.draft) \/ DiscardToml
              \/ ~Dirty(tm)
              \/ tm.phase = "sent" /\ tm.session.draft = tm.sent.doc
<1> DEFINE Kept ==
      \/ tm'.session.draft = tm.session.draft
      \/ UpdateDraft(tm'.session.draft) \/ DiscardToml
      \/ ~Dirty(tm)
      \/ tm.phase = "sent" /\ tm.session.draft = tm.sent.doc
<1> SUFFICES TomlDocs(tm') /\ Kept
  OBVIOUS
<1>0. /\ TomlDocs(tm) /\ SessionShape(tm.session) /\ ~Some(Nothing)
      /\ IsDoc(Snapshot.doc) /\ IsDoc(telemt'.doc)
  BY StoredIsDoc DEF DocsInv, TomlShape, Some, Nothing, Snapshot
\* Steps that leave the session alone.
<1>1. ASSUME tm'.session = tm.session, Some(tm'.get) => IsDoc(tm'.get.doc),
             tm'.phase = "sent" => tm.phase = "sent" /\ tm'.sent = tm.sent
      PROVE  TomlDocs(tm') /\ Kept
  BY <1>0, <1>1 DEF TomlDocs, Dirty
<1>2. CASE UNCHANGED tm
  BY <1>0, <1>1, <1>2 DEF TomlDocs
<1>3. CASE (\E tab \in {"normal", "toml"} : SetTab(tab)) \/ PatchSucceeds \/ TomlRefetch
  <2> DEFINE n == Snapshot
             m == [rev |-> telemt'.rev, doc |-> telemt'.doc]
  <2>1. tm' = tm \/ tm' = [tm EXCEPT !.get = n] \/ tm' = [tm EXCEPT !.get = m]
    BY <1>3 DEF SetTab, PatchSucceeds, TomlRefetch
  <2>2. IsDoc(n.doc) /\ IsDoc(m.doc)
    BY <1>0
  <2> HIDE DEF n, m
  <2>3. /\ tm'.session = tm.session /\ tm'.phase = tm.phase /\ tm'.sent = tm.sent
        /\ tm'.get \in {tm.get, n, m}
    BY <2>1 DEF TomlShape
  <2> QED
    BY <1>0, <1>1, <2>2, <2>3 DEF TomlDocs
<1>4. CASE Validate \/ PreviewSucceeds
  <2> DEFINE q == [rev |-> tm.session.baseline.rev, doc |-> tm.session.draft]
             p == tm.preview
  <2>1. \/ tm' = [tm EXCEPT !.preview = q]
        \/ tm' = [tm EXCEPT !.preview = Nothing, !.validated = p, !.result = FALSE]
    BY <1>4 DEF Validate, PreviewSucceeds
  <2> HIDE DEF q, p
  <2>2. /\ tm'.session = tm.session /\ tm'.phase = tm.phase /\ tm'.sent = tm.sent
        /\ tm'.get = tm.get
    BY <2>1 DEF TomlShape
  <2> QED
    BY <1>0, <1>1, <2>2 DEF TomlDocs
<1>5. ASSUME NEW code \in {"conflict", "other"}, PreviewFails(code) PROVE TomlDocs(tm') /\ Kept
  <2> DEFINE c == IF code = "conflict" THEN Dirty(tm) ELSE tm.conflict
             g == IF code = "conflict" THEN Snapshot ELSE tm.get
  <2>1. tm' = [tm EXCEPT !.preview = Nothing, !.validated = Nothing, !.conflict = c, !.get = g]
    BY <1>5 DEF PreviewFails
  <2>2. Some(g) => IsDoc(g.doc)
    BY <1>0 DEF TomlDocs
  <2> HIDE DEF c, g
  <2>3. /\ tm'.session = tm.session /\ tm'.phase = tm.phase /\ tm'.sent = tm.sent
        /\ tm'.get = g
    BY <2>1 DEF TomlShape
  <2> QED
    BY <1>0, <1>1, <2>2, <2>3 DEF TomlDocs
<1>6. CASE TomlArrives
  <2> DEFINE p == (tm.phase = "sent" \/ tm.unknown)
             s == ReceiveRemote(tm.session, tm.get, p)
             z == IF tm.cache = tm.get THEN tm.session ELSE s
             f == tm.get
  <2>1. tm' = [tm EXCEPT !.get = Nothing, !.cache = f, !.session = z] /\ Some(f)
    BY <1>6 DEF TomlArrives
  <2>2. ASSUME tm'.session = tm.session PROVE TomlDocs(tm') /\ Kept
    <3> HIDE DEF p, s, z, f
    <3>1. tm'.get = Nothing /\ tm'.phase = tm.phase /\ tm'.sent = tm.sent
      BY <2>1 DEF TomlShape
    <3> QED
      BY <1>0, <1>1, <2>2, <3>1
  <2>3. p \in BOOLEAN
    OBVIOUS
  <2>4. /\ s.draft = tm.session.draft \/ tm.session.draft = tm.session.baseline.doc
        /\ s.draft \in {tm.session.draft, f.doc}
    <3> HIDE DEF p
    <3> QED
      BY <1>0, <2>3, ReceiveKeeps
  <2>5. tm.session.draft = tm.session.baseline.doc => s.draft = s.baseline.doc
    BY <1>0, ReceivedStaysClean
  <2> HIDE DEF s
  <2>6. z = tm.session \/ z = s
    OBVIOUS
  <2> HIDE DEF p, z
  <2>7. IsDoc(f.doc)
    BY <1>0, <2>1 DEF TomlDocs
  <2> HIDE DEF f
  <2>8. /\ tm'.session = z /\ tm'.get = Nothing /\ tm'.phase = tm.phase /\ tm'.sent = tm.sent
    BY <2>1 DEF TomlShape
  <2>9. TomlDocs(tm') /\ Kept
    <3>1. CASE z = tm.session
      BY <2>2, <2>8, <3>1
    <3>2. CASE z = s
      <4>1. IsDoc(s.draft) \/ s.draft = s.baseline.doc
        BY <1>0, <2>4, <2>5, <2>7 DEF TomlDocs, Dirty
      <4>2. tm.phase = "sent" => IsDoc(s.draft) /\ IsDoc(tm.sent.doc)
        BY <1>0, <2>4, <2>7 DEF TomlDocs
      <4>3. TomlDocs(tm')
        BY <1>0, <2>8, <3>2, <4>1, <4>2 DEF TomlDocs, Dirty
      <4>4. Kept
        BY <2>4, <2>8, <3>2 DEF Dirty
      <4> QED
        BY <4>3, <4>4
    <3> QED
      BY <2>6, <3>1, <3>2
  <2> QED
    BY <2>9
<1>7. ASSUME NEW doc \in Docs, UpdateDraft(doc) PROVE TomlDocs(tm') /\ Kept
  <2> DEFINE z == [tm.session EXCEPT !.draft = doc]
             c == IF doc = tm.session.baseline.doc /\ ~Some(tm.session.remote)
                  THEN FALSE ELSE tm.conflict
  <2>1. tm' = [tm EXCEPT !.session = z, !.validated = Nothing, !.result = FALSE, !.conflict = c]
    BY <1>7 DEF UpdateDraft
  <2>2. z.draft = doc
    BY <1>0, SessionTyped
  <2>3. IsDoc(doc)
    BY DEF IsDoc, Docs
  <2> HIDE DEF z, c
  <2>4. /\ tm'.session = z /\ tm'.get = tm.get /\ tm'.phase = tm.phase /\ tm'.sent = tm.sent
    BY <2>1 DEF TomlShape
  <2>5. TomlDocs(tm')
    BY <1>0, <2>2, <2>3, <2>4 DEF TomlDocs
  <2>6. Kept
    BY <1>7, <2>2, <2>4
  <2> QED
    BY <2>5, <2>6
<1>8. CASE SaveToml
  <2> DEFINE q == [rev |-> tm.session.baseline.rev, doc |-> tm.session.draft]
  <2>1. tm' = [tm EXCEPT !.phase = "sent", !.sent = q] /\ Dirty(tm)
    BY <1>8 DEF SaveToml
  <2>2. q.doc = tm.session.draft
    OBVIOUS
  <2> HIDE DEF q
  <2>3. tm'.session = tm.session /\ tm'.get = tm.get /\ tm'.sent = q
    BY <2>1 DEF TomlShape
  <2>4. TomlDocs(tm')
    BY <1>0, <2>1, <2>2, <2>3 DEF TomlDocs
  <2> QED
    BY <2>3, <2>4
<1>9. CASE TomlSucceeds
  <2> DEFINE c == [rev |-> telemt.rev + 1, doc |-> tm.sent.doc]
             z == AcknowledgeSubmitted(tm.session, tm.sent, c)
             r == z.draft = z.baseline.doc /\ ~Some(z.remote)
             g == IF ed.tab = "toml" THEN c ELSE tm.get
  <2>1. /\ tm' = [tm EXCEPT !.session = z, !.phase = "applied", !.sent = Nothing,
                    !.validated = Nothing, !.conflict = FALSE, !.unknown = FALSE,
                    !.result = r, !.get = g]
        /\ tm.phase = "sent"
    BY <1>9 DEF TomlSucceeds
  <2>2. /\ z.draft = tm.session.draft \/ tm.session.draft = tm.sent.doc
        /\ z.draft \in {tm.session.draft, z.baseline.doc}
    <3> HIDE DEF c
    <3> QED
      BY <1>0, AcknowledgeKeeps
  <2>3. c.doc = tm.sent.doc
    OBVIOUS
  <2>4. IsDoc(tm.session.draft) /\ IsDoc(tm.sent.doc)
    BY <1>0, <2>1 DEF TomlDocs
  <2> HIDE DEF c
  <2>5. Some(g) => IsDoc(g.doc)
    BY <1>0, <2>3, <2>4 DEF TomlDocs
  <2> HIDE DEF z, r, g
  <2>6. tm'.session = z /\ tm'.phase = "applied" /\ tm'.get = g
    BY <2>1 DEF TomlShape
  <2>7. TomlDocs(tm')
    BY <2>2, <2>4, <2>5, <2>6 DEF TomlDocs, Dirty
  <2>8. Kept
    BY <2>1, <2>2, <2>6
  <2> QED
    BY <2>7, <2>8
<1>10. CASE \E arrives \in BOOLEAN : TomlApplied(arrives)
  <2>1. tm' = [tm EXCEPT !.phase = "idle"]
    BY <1>10 DEF TomlApplied
  <2>2. tm'.session = tm.session /\ tm'.get = tm.get /\ tm'.phase = "idle"
    BY <2>1 DEF TomlShape
  <2> QED
    BY <1>0, <1>1, <2>2 DEF TomlDocs
<1>11. CASE TomlConflicts
  <2> DEFINE y == DiscardToRemote(tm.session)
             z == IF ~Dirty(tm) /\ Some(tm.session.remote) THEN y ELSE tm.session
             c == Dirty(tm)
             n == Snapshot
  <2>1. tm' = [tm EXCEPT !.phase = "idle", !.sent = Nothing, !.unknown = FALSE,
                 !.session = z, !.conflict = c, !.get = n]
    BY <1>11 DEF TomlConflicts
  <2>2. y.draft = y.baseline.doc
    BY <1>0, SessionsKeepShape
  <2> HIDE DEF y
  <2>3. z = tm.session \/ (z = y /\ ~Dirty(tm))
    OBVIOUS
  <2>4. IsDoc(n.doc)
    BY <1>0
  <2> HIDE DEF z, c, n
  <2>5. tm'.session = z /\ tm'.get = n /\ tm'.phase = "idle"
    BY <2>1 DEF TomlShape
  <2>6. TomlDocs(tm')
    BY <1>0, <2>2, <2>3, <2>4, <2>5 DEF TomlDocs, Dirty
  <2>7. Kept
    BY <2>3, <2>5
  <2> QED
    BY <2>6, <2>7
<1>12. ASSUME NEW code \in {"unknown", "refused"}, NEW landed \in BOOLEAN, TomlFails(code, landed)
       PROVE  TomlDocs(tm') /\ Kept
  <2> DEFINE u == (tm.unknown \/ code = "unknown")
             v == IF code = "unknown" THEN Nothing ELSE tm.validated
  <2>1. tm' = [tm EXCEPT !.phase = "idle", !.sent = Nothing, !.unknown = u, !.validated = v]
    BY <1>12 DEF TomlFails
  <2> HIDE DEF u, v
  <2>2. tm'.session = tm.session /\ tm'.get = tm.get /\ tm'.phase = "idle"
    BY <2>1 DEF TomlShape
  <2> QED
    BY <1>0, <1>1, <2>2 DEF TomlDocs
<1>13. CASE DiscardToml
  <2> DEFINE z == DiscardToRemote(tm.session)
             g == IF Some(tm.preview) THEN Snapshot ELSE tm.get
  <2>1. /\ tm' = [tm EXCEPT !.session = z, !.conflict = FALSE, !.unknown = FALSE,
                 !.preview = Nothing, !.validated = Nothing, !.result = FALSE, !.get = g]
        /\ tm.phase = "idle"
    BY <1>13 DEF DiscardToml
  <2>2. z.draft = z.baseline.doc
    BY <1>0, SessionsKeepShape
  <2>3. Some(g) => IsDoc(g.doc)
    BY <1>0 DEF TomlDocs
  <2> HIDE DEF z, g
  <2>4. tm'.session = z /\ tm'.get = g /\ tm'.phase = "idle"
    BY <2>1 DEF TomlShape
  <2>5. TomlDocs(tm')
    BY <2>2, <2>3, <2>4 DEF TomlDocs, Dirty
  <2> QED
    BY <1>13, <2>5
<1>14. \/ UNCHANGED tm \/ (\E tab \in {"normal", "toml"} : SetTab(tab))
       \/ PatchSucceeds \/ TomlRefetch \/ Validate \/ PreviewSucceeds
       \/ \E code \in {"conflict", "other"} : PreviewFails(code)
       \/ TomlArrives \/ \E doc \in Docs : UpdateDraft(doc)
       \/ SaveToml \/ TomlSucceeds \/ \E arrives \in BOOLEAN : TomlApplied(arrives)
       \/ TomlConflicts
       \/ \E code \in {"unknown", "refused"}, landed \in BOOLEAN : TomlFails(code, landed)
       \/ DiscardToml
  BY DEF ConfigNext, OtherWrites, EditField, DiscardDraft, OpenSavePreview,
         CloseSavePreview, ApplyPreviewedChanges, PatchConflicts, CheckWrite,
         CheckAnswers, Reseeded, Inspected, PatchFails, ReapplyDraft, DiscardMine
<1> HIDE DEF Kept
<1> QED
  BY <1>2, <1>3, <1>4, <1>5, <1>6, <1>7, <1>8, <1>9, <1>10, <1>11, <1>12, <1>13, <1>14

\* Both editors keep what was typed in every step.
LEMMA ConfigSteps == EditorInv /\ DocsInv /\ ConfigNext => DocsInv' /\ TypedIsKept
<1> SUFFICES ASSUME EditorInv, DocsInv, ConfigNext PROVE DocsInv' /\ TypedIsKept
  OBVIOUS
<1>1. TomlShape(tm)
  BY DEF EditorInv
<1>2. DocsInv'
  BY <1>1, StoredIsDoc, EditorKeeps, TomlKeeps DEF DocsInv
<1>3. TypedIsKept
  BY <1>1, EditorKeeps, TomlKeeps DEF TypedIsKept
<1> QED
  BY <1>2, <1>3

-----------------------------------------------------------------------------
(***************************************************************************)
(* The update policy.                                                      *)
(***************************************************************************)

\* The form of the policy; what is received or sent has no revision.
AutoShape(a) ==
    /\ a = [sess |-> a.sess, seen |-> a.seen, cache |-> a.cache, bg |-> a.bg,
            save |-> a.save, sent |-> a.sent, before |-> a.before,
            changed |-> a.changed, fresh |-> a.fresh]
    /\ SessionShape(a.sess)
    /\ a.sess.remote.rev \in {-1, 0}
AutoInv == AutoShape(auto)

\* The card opens on the policy that was read.
LEMMA AutoInvInit == AutoInit => AutoInv
<1> SUFFICES ASSUME AutoInit PROVE AutoInv
  OBVIOUS
<1> DEFINE s == [baseline |-> Bare(policy), draft |-> Bare(policy).doc, remote |-> Nothing]
<1>1. SessionShape(s) /\ s.remote.rev = -1
  BY DEF SessionShape, Nothing
<1>2. auto = [sess |-> s, seen |-> policy, cache |-> policy, bg |-> << >>,
              save |-> "idle", sent |-> Nothing, before |-> Nothing, changed |-> FALSE,
              fresh |-> << >>]
  BY DEF AutoInit, AutoMounted, DraftSessionOf
<1> HIDE DEF s
<1> QED
  BY <1>1, <1>2 DEF AutoInv, AutoShape

\* A read that reaches the form.
LEMMA PolicyReceived ==
    ASSUME NEW a, AutoShape(a), NEW y, y = Received(a)
    PROVE  /\ AutoShape(y)
           /\ y.sess.draft = a.sess.draft \/ a.sess.draft = a.sess.baseline.doc
           /\ a.sess.baseline = Bare(a.cache) => y.sess = a.sess
<1>1. CASE a.cache = a.seen
  BY <1>1 DEF Received
<1>2. CASE a.cache # a.seen
  <2> DEFINE s == ReceiveRemote(a.sess, Bare(a.cache), FALSE)
  <2>1. y = [a EXCEPT !.seen = a.cache, !.sess = s]
    BY <1>2 DEF Received
  <2>2. SessionShape(a.sess) /\ a.sess.remote.rev \in {-1, 0}
    BY DEF AutoShape
  <2>3. /\ SessionShape(s)
        /\ s.draft = a.sess.draft \/ a.sess.draft = a.sess.baseline.doc
        /\ s.remote \in {a.sess.remote, Bare(a.cache), Nothing}
        /\ Bare(a.cache) = a.sess.baseline => s = a.sess
    <3> DEFINE o == a.sess
               n == Bare(a.cache)
               p == FALSE
    <3>1. SessionShape(o) /\ s = ReceiveRemote(o, n, p) /\ p \in BOOLEAN
      BY <2>2
    <3> HIDE DEF o, n, s, p
    <3>2. /\ SessionShape(s)
          /\ s.draft = o.draft \/ o.draft = o.baseline.doc
          /\ s.remote \in {o.remote, n, Nothing}
          /\ n = o.baseline => s = o
      BY <3>1, ReceiveKeeps
    <3> QED
      BY <3>2 DEF o, n
  <2>4. Bare(a.cache).rev = 0 /\ Nothing.rev = -1
    BY DEF Bare, Nothing
  <2>5. s.remote.rev \in {-1, 0}
    BY <2>2, <2>3, <2>4
  <2> HIDE DEF s
  <2> QED
    BY <2>1, <2>3, <2>5 DEF AutoShape
<1> QED
  BY <1>1, <1>2

\* A save that is over.
LEMMA PolicySaveEnds ==
    ASSUME NEW a, AutoShape(a), NEW y, y = SaveEnds(a)
    PROVE  AutoShape(y) /\ y.sess = a.sess
<1> DEFINE e == << >>
<1>1. y = [a EXCEPT !.save = "idle", !.sent = Nothing, !.before = Nothing, !.changed = FALSE,
                    !.fresh = e]
  BY DEF SaveEnds
<1> HIDE DEF e
<1> QED
  BY <1>1 DEF AutoShape

\* Every step keeps the form's shape and what the admin chose.
LEMMA PolicySteps == AutoInv /\ AutoNext => AutoInv' /\ PolicyDraftKept
<1> SUFFICES ASSUME AutoInv, AutoNext PROVE AutoInv' /\ PolicyDraftKept
  OBVIOUS
<1> USE DEF AutoInv
<1>1. ASSUME NEW p \in Policies, OtherSetsPolicy(p) PROVE AutoInv' /\ PolicyDraftKept
  BY <1>1 DEF OtherSetsPolicy, PolicyDraftKept, AutoShape
<1>2. ASSUME NEW p \in Policies, SetForm(p) PROVE AutoInv' /\ PolicyDraftKept
  <2> DEFINE s == [auto.sess EXCEPT !.draft = p]
  <2>1. SessionShape(s) /\ s.draft = p /\ s.remote = auto.sess.remote
    <3>1. SessionShape(auto.sess)
      BY DEF AutoShape
    <3> QED
      BY <3>1, SessionTyped
  <2>2. auto' = [auto EXCEPT !.sess = s]
    BY <1>2 DEF SetForm
  <2> HIDE DEF s
  <2>3. AutoShape(auto') /\ auto'.sess.draft = p
    BY <2>1, <2>2 DEF AutoShape
  <2> QED
    BY <1>2, <2>3 DEF PolicyDraftKept
<1>3. CASE PolicyAsked
  <2> DEFINE b == <<policy>>
  <2>1. auto' = [auto EXCEPT !.bg = b]
    BY <1>3 DEF PolicyAsked
  <2> HIDE DEF b
  <2> QED
    BY <2>1 DEF AutoShape, PolicyDraftKept
<1>4. CASE PolicyArrives
  <2> DEFINE e == << >>
             q == auto.bg[1]
             z == [auto EXCEPT !.cache = q, !.bg = e, !.changed = TRUE]
  <2>1. auto' = Received(z)
    BY <1>4 DEF PolicyArrives
  <2> HIDE DEF e, q
  <2>2. AutoShape(z) /\ z.sess = auto.sess
    <3>1. ASSUME NEW y, y = [auto EXCEPT !.cache = q, !.bg = e, !.changed = TRUE]
          PROVE  AutoShape(y) /\ y.sess = auto.sess
      BY <3>1 DEF AutoShape
    <3> QED
      BY <3>1
  <2> HIDE DEF z
  <2> QED
    BY <2>1, <2>2, PolicyReceived DEF PolicyDraftKept, AutoDirty
<1>5. CASE DiscardPolicy
  <2> DEFINE s == DiscardToRemote(auto.sess)
  <2>1. auto' = [auto EXCEPT !.sess = s]
    BY <1>5 DEF DiscardPolicy
  <2>2. SessionShape(s) /\ s.remote.rev = -1
    BY DEF DiscardToRemote, DraftSessionOf, SessionShape, Nothing
  <2> HIDE DEF s
  <2> QED
    BY <1>5, <2>1, <2>2 DEF AutoShape, PolicyDraftKept
<1>6. CASE SavePolicy
  <2> DEFINE b == Bare(auto.sess.draft)
  <2>1. auto' = [auto EXCEPT !.save = "put", !.sent = b]
    BY <1>6 DEF SavePolicy
  <2> HIDE DEF b
  <2> QED
    BY <2>1 DEF AutoShape, PolicyDraftKept
<1>7. CASE PutLands
  BY <1>7 DEF PutLands, AutoShape, PolicyDraftKept
<1>8. CASE PutAnswered
  <2> DEFINE e == << >>
             s == AcknowledgeSubmitted(auto.sess, auto.sent, auto.sent)
             r == s.remote
  <2>1. auto.save = "landed"
        /\ auto' = [auto EXCEPT !.sess = s, !.before = r, !.changed = FALSE,
                                !.bg = e, !.save = "read"]
    BY <1>8 DEF PutAnswered
  <2>2. /\ SessionShape(s) /\ s.remote \in {auto.sess.remote, Nothing}
        /\ s.draft = auto.sess.draft \/ auto.sess.draft = auto.sent.doc
    BY AcknowledgeKeeps DEF AutoShape
  <2>3. s.remote.rev \in {-1, 0}
    BY <2>2 DEF AutoShape, Nothing
  <2> HIDE DEF e, s, r
  <2> QED
    BY <2>1, <2>2, <2>3 DEF AutoShape, PolicyDraftKept
<1>9. CASE FreshAsked
  <2> DEFINE b == <<policy>>
  <2>1. auto' = [auto EXCEPT !.save = "reading", !.fresh = b]
    BY <1>9 DEF FreshAsked
  <2> HIDE DEF b
  <2> QED
    BY <2>1 DEF AutoShape, PolicyDraftKept
<1>10. CASE FreshAnswered
  <2> DEFINE fresh == auto.fresh[1]
             confirmed == AcknowledgeSubmitted(auto.sess, auto.sent, Bare(fresh))
             kept == IF auto.sess.remote = auto.before
                     THEN [confirmed EXCEPT !.remote = Nothing] ELSE confirmed
             z == [auto EXCEPT !.sess = kept, !.cache = fresh]
  <2>1. /\ auto.save = "reading"
        /\ auto' = SaveEnds(auto) \/ auto' = SaveEnds(Received(z))
    BY <1>10 DEF FreshAnswered
  <2> HIDE DEF fresh
  <2>2. /\ SessionShape(confirmed) /\ confirmed.remote \in {auto.sess.remote, Nothing}
        /\ confirmed.draft = auto.sess.draft \/ auto.sess.draft = auto.sent.doc
        /\ confirmed.baseline = Bare(fresh)
    <3>1. ~(auto.sess.remote.rev > 0)
      BY DEF AutoShape
    <3> QED
      BY <3>1, AcknowledgeKeeps DEF AutoShape
  <2>3. confirmed.remote.rev \in {-1, 0}
    BY <2>2 DEF AutoShape, Nothing
  <2> HIDE DEF confirmed
  <2>4. /\ SessionShape(kept) /\ kept.remote.rev \in {-1, 0}
        /\ kept.draft = confirmed.draft /\ kept.baseline = confirmed.baseline
    BY <2>2, <2>3 DEF SessionShape, Nothing
  <2> HIDE DEF kept
  <2>5. AutoShape(z) /\ z.sess = kept /\ z.cache = fresh
    <3>1. ASSUME NEW y, y = [auto EXCEPT !.sess = kept, !.cache = fresh]
          PROVE  AutoShape(y) /\ y.sess = kept /\ y.cache = fresh
      BY <2>4, <3>1 DEF AutoShape
    <3> QED
      BY <3>1
  <2> HIDE DEF z
  <2>6. CASE auto' = SaveEnds(auto)
    BY <2>6, PolicySaveEnds DEF PolicyDraftKept
  <2>7. CASE auto' = SaveEnds(Received(z))
    <3>1. AutoShape(Received(z)) /\ Received(z).sess = kept
      BY <2>2, <2>4, <2>5, PolicyReceived
    <3> QED
      BY <2>1, <2>2, <2>4, <2>7, <3>1, PolicySaveEnds DEF PolicyDraftKept
  <2> QED
    BY <2>1, <2>6, <2>7
<1>11. CASE SaveFails
  BY <1>11, PolicySaveEnds DEF SaveFails, PolicyDraftKept
<1>12. CASE PageFails
  <2> DEFINE c == auto.cache
             s == DraftSessionOf(Bare(c))
             b == auto.bg
  <2>1. auto' = [sess |-> s, seen |-> c, cache |-> c, bg |-> b, save |-> "idle", sent |-> Nothing,
                 before |-> Nothing, changed |-> FALSE, fresh |-> << >>]
    BY <1>12 DEF PageFails, AutoMounted
  <2>2. SessionShape(s) /\ s.remote.rev = -1
    BY DEF DraftSessionOf, SessionShape, Nothing
  <2> HIDE DEF c, s, b
  <2>3. AutoShape(auto')
    BY <2>1, <2>2 DEF AutoShape
  <2> QED
    BY <1>12, <2>3 DEF PolicyDraftKept
<1> QED
  BY <1>1, <1>2, <1>3, <1>4, <1>5, <1>6, <1>7, <1>8, <1>9, <1>10, <1>11, <1>12 DEF AutoNext

-----------------------------------------------------------------------------
(***************************************************************************)
(* The form of a user: every field that nobody typed is the record's.      *)
(***************************************************************************)

\* The user's form, with the fields of its states.
StateShape(s) ==
    s = [enabled |-> s.enabled, limit |-> s.limit, amount |-> s.amount, unit |-> s.unit,
         edited |-> s.edited]
\* A field the admin left alone is as it was read.
Untyped(touched, s, base) ==
    /\ "enabled" \notin touched => s.enabled = base.enabled
    /\ "limit" \notin touched => s.limit = base.limit
    /\ "quota" \notin touched => QuotaOf(s) = QuotaOf(base)

\* The form: what is sent, and what the body holds, differs from the record
\* only where the admin typed.
UserFormOK(f) ==
    /\ f = [open |-> f.open, state |-> f.state, baseline |-> f.baseline, baseUser |-> f.baseUser,
            sent |-> f.sent, body |-> f.body, answer |-> f.answer, touched |-> f.touched]
    /\ StateShape(f.state)
    /\ f.baseline = InitialEditState(f.baseUser)
    /\ Untyped(f.touched, f.state, f.baseline)
    /\ f.sent # << >> => f.open /\ Untyped(f.touched, f.sent[1], f.baseline)
    /\ f.answer # << >> => f.sent # << >>
    /\ \A i \in DOMAIN f.body : f.body[i][1] \in f.touched

\* The fields of a form's state.
LEMMA StateFields ==
    ASSUME NEW e, NEW l, NEW a, NEW n, NEW t, NEW y,
           y = [enabled |-> e, limit |-> l, amount |-> a, unit |-> n, edited |-> t]
    PROVE  /\ StateShape(y) /\ y.enabled = e /\ y.limit = l /\ y.amount = a /\ y.unit = n
           /\ y.edited = t /\ QuotaOf(y) = <<a, n, t>>
  BY DEF StateShape, QuotaOf

\* Typing a quota leaves the other fields alone.
LEMMA AmountTyped ==
    ASSUME NEW s, StateShape(s), NEW a, NEW n, NEW y,
           \/ y = [s EXCEPT !.amount = a, !.edited = TRUE]
           \/ y = [s EXCEPT !.unit = n, !.edited = TRUE]
    PROVE  StateShape(y) /\ y.enabled = s.enabled /\ y.limit = s.limit
<1> DEFINE e_ == s.enabled
           l_ == s.limit
           a_ == s.amount
           n_ == s.unit
           t_ == s.edited
<1>1. s = [enabled |-> e_, limit |-> l_, amount |-> a_, unit |-> n_, edited |-> t_]
  BY DEF StateShape
<1> HIDE DEF e_, l_, a_, n_, t_
<1>2. \/ y = [enabled |-> e_, limit |-> l_, amount |-> a, unit |-> n_, edited |-> TRUE]
      \/ y = [enabled |-> e_, limit |-> l_, amount |-> a_, unit |-> n, edited |-> TRUE]
  BY <1>1
<1>3. StateShape(y) /\ y.enabled = e_ /\ y.limit = l_
  BY <1>2, StateFields
<1> QED
  BY <1>3 DEF e_, l_

\* The fields of the form's first state.
LEMMA InitialFields ==
    ASSUME NEW u, NEW y, y = InitialEditState(u)
    PROVE  /\ StateShape(y) /\ y.enabled = u.enabled
           /\ y.limit = FieldOf(IF u.limit = 0 THEN 4 ELSE u.limit, u.limit # 0)
           /\ y.amount.set = (u.quota # 0) /\ y.edited = FALSE
<1> DEFINE a == FieldOf(BytesToQuotaDisplay(u.quota).amount, u.quota # 0)
           l == FieldOf(IF u.limit = 0 THEN 4 ELSE u.limit, u.limit # 0)
           n == IF u.quota = 0 THEN "GB" ELSE BytesToQuotaDisplay(u.quota).unit
           e == u.enabled
<1>1. y = [enabled |-> e, limit |-> l, amount |-> a, unit |-> n, edited |-> FALSE]
  BY DEF InitialEditState
<1>2. a.set = (u.quota # 0)
  BY DEF FieldOf
<1> HIDE DEF a, l, n, e
<1>3. StateShape(y) /\ y.enabled = e /\ y.limit = l /\ y.amount = a /\ y.edited = FALSE
  BY <1>1 DEF StateShape
<1> QED
  BY <1>2, <1>3 DEF e, l

\* A patch of what the admin touched has no other key.
LEMMA PatchKeys ==
    ASSUME NEW s, NEW u, NEW touched, Untyped(touched, s, InitialEditState(u)),
           NEW body, body = BuildUserPatch(s, u)
    PROVE  \A i \in DOMAIN body : body[i][1] \in touched
<1> DEFINE bytes == QuotaBytesForFormSubmit(s, u.quota)
           e == <<"enabled", s.enabled>>
           l == <<"limit", IF s.limit.set THEN s.limit.value ELSE 0>>
           q == <<"quota", IF s.amount.set THEN bytes ELSE 0>>
           S == {p \in {e, l, q} : p[1] \in touched}
           A == IF s.enabled = u.enabled THEN << >> ELSE <<e>>
           B == DiffLimitField("limit", s.limit.set, s.limit.value, u.limit)
           C == DiffLimitField("quota", s.amount.set, bytes, u.quota)
<1>1. body = A \o B \o C
  BY DEF BuildUserPatch
<1> DEFINE b == InitialEditState(u)
<1>2. /\ b.enabled = u.enabled
      /\ b.limit = FieldOf(IF u.limit = 0 THEN 4 ELSE u.limit, u.limit # 0)
      /\ b.amount.set = (u.quota # 0) /\ b.edited = FALSE
  BY InitialFields
<1>3. Untyped(touched, s, b)
  OBVIOUS
<1> HIDE DEF b
<1>4. A = << >> \/ (A = <<e>> /\ e \in S)
  BY <1>2, <1>3 DEF Untyped
<1>5. B = << >> \/ (B = <<l>> /\ l \in S)
  <2>1. CASE "limit" \in touched
    BY <2>1 DEF DiffLimitField
  <2>2. CASE "limit" \notin touched
    <3>1. s.limit = FieldOf(IF u.limit = 0 THEN 4 ELSE u.limit, u.limit # 0)
      BY <1>2, <1>3, <2>2 DEF Untyped
    <3>2. /\ s.limit.set = (u.limit # 0)
          /\ s.limit.value = (IF u.limit = 0 THEN 4 ELSE u.limit)
      BY <3>1 DEF FieldOf
    <3> QED
      BY <3>2 DEF DiffLimitField
  <2> QED
    BY <2>1, <2>2
<1>6. C = << >> \/ (C = <<q>> /\ q \in S)
  <2>1. CASE "quota" \in touched
    BY <2>1 DEF DiffLimitField
  <2>2. CASE "quota" \notin touched
    <3>1. s.amount = b.amount /\ s.edited = FALSE
      BY <1>2, <1>3, <2>2 DEF Untyped, QuotaOf
    <3>2. s.amount.set = (u.quota # 0)
      BY <1>2, <3>1
    <3>3. u.quota # 0 => bytes = u.quota
      BY <3>1 DEF QuotaBytesForFormSubmit
    <3> HIDE DEF bytes
    <3> QED
      BY <3>2, <3>3 DEF DiffLimitField
  <2> QED
    BY <2>1, <2>2
<1> HIDE DEF A, B, C, e, l, q
<1>7. A \in Seq(S) /\ B \in Seq(S) /\ C \in Seq(S)
  <2>1. ASSUME NEW X, NEW x \in X PROVE <<x>> \in Seq(X)
    OBVIOUS
  <2>2. ASSUME NEW X PROVE << >> \in Seq(X)
    OBVIOUS
  <2> HIDE DEF S
  <2> QED
    BY <1>4, <1>5, <1>6, <2>1, <2>2
<1>8. \A p \in S : p[1] \in touched
  OBVIOUS
<1> HIDE DEF S
<1>9. body \in Seq(S)
  BY <1>1, <1>7
<1> QED
  BY <1>8, <1>9

\* The rebase keeps what was typed since the submission, field by field.
LEMMA RebaseKeeps ==
    ASSUME NEW sent, NEW d, NEW c, NEW y, y = RebaseUserForm(sent, d, c)
    PROVE  /\ StateShape(y)
           /\ y.enabled = IF d.enabled # sent.enabled THEN d.enabled ELSE c.enabled
           /\ y.limit = IF d.limit # sent.limit THEN d.limit ELSE c.limit
           /\ QuotaOf(y) = IF QuotaOf(d) # QuotaOf(sent) THEN QuotaOf(d) ELSE QuotaOf(c)
<1> DEFINE q == IF QuotaOf(d) # QuotaOf(sent) THEN d ELSE c
           e == IF d.enabled # sent.enabled THEN d.enabled ELSE c.enabled
           l == IF d.limit # sent.limit THEN d.limit ELSE c.limit
           a == q.amount
           n == q.unit
           t == q.edited
<1>1. y = [enabled |-> e, limit |-> l, amount |-> a, unit |-> n, edited |-> t]
  BY DEF RebaseUserForm
<1>2. <<a, n, t>> = IF QuotaOf(d) # QuotaOf(sent) THEN QuotaOf(d) ELSE QuotaOf(c)
  BY DEF QuotaOf
<1> HIDE DEF q, e, l, a, n, t
<1>3. StateShape(y) /\ y.enabled = e /\ y.limit = l /\ QuotaOf(y) = <<a, n, t>>
  BY <1>1 DEF StateShape, QuotaOf
<1> QED
  BY <1>2, <1>3 DEF e, l

\* A form that was just opened.
LEMMA OpenedIsOK == ASSUME NEW u, NEW f, f = FormOpened(u) PROVE UserFormOK(f)
<1> DEFINE s == InitialEditState(u)
           e == << >>
           n == {}
<1>1. StateShape(s)
  BY InitialFields
<1>2. f = [open |-> TRUE, state |-> s, baseline |-> s, baseUser |-> u, sent |-> e,
           body |-> e, answer |-> e, touched |-> n]
  BY DEF FormOpened
<1>3. e = << >> /\ DOMAIN e = {}
  OBVIOUS
<1> HIDE DEF e, n
<1>4. /\ f = [open |-> f.open, state |-> f.state, baseline |-> f.baseline, baseUser |-> f.baseUser,
              sent |-> f.sent, body |-> f.body, answer |-> f.answer, touched |-> f.touched]
      /\ f.state = s /\ f.baseline = s /\ f.baseUser = u /\ f.sent = e /\ f.body = e /\ f.answer = e
  <2> HIDE DEF s
  <2> QED
    BY <1>2
<1> QED
  BY <1>1, <1>3, <1>4 DEF UserFormOK, Untyped

\* The form after an input.
TypedInto(f, s, t) == [f EXCEPT !.state = s, !.touched = t]

\* What is typed is in the fields that were touched.
LEMMA TypingIsOK ==
    ASSUME NEW f, UserFormOK(f), NEW s, StateShape(s), NEW t, f.touched \subseteq t,
           Untyped(t, s, f.state), NEW y, y = TypedInto(f, s, t)
    PROVE  UserFormOK(y) /\ y.answer = f.answer
<1>1. /\ y.state = s /\ y.touched = t /\ y.open = f.open /\ y.baseline = f.baseline
      /\ y.baseUser = f.baseUser /\ y.sent = f.sent /\ y.body = f.body /\ y.answer = f.answer
      /\ y = [open |-> y.open, state |-> y.state, baseline |-> y.baseline, baseUser |-> y.baseUser,
              sent |-> y.sent, body |-> y.body, answer |-> y.answer, touched |-> y.touched]
  BY DEF UserFormOK, TypedInto
<1>2. Untyped(t, s, f.baseline)
  BY DEF UserFormOK, Untyped
<1>3. f.sent # << >> => Untyped(t, f.sent[1], f.baseline)
  BY DEF UserFormOK, Untyped
<1>4. \A i \in DOMAIN f.body : f.body[i][1] \in t
  BY DEF UserFormOK
<1> QED
  BY <1>1, <1>2, <1>3, <1>4 DEF UserFormOK

\* Every step of the form.
LEMMA UserFormSteps ==
    ASSUME pane = "form", UserFormOK(ppl), UserFormNext
    PROVE  /\ pane' = "form" /\ UserFormOK(ppl')
           /\ ppl.answer # << >> /\ ppl'.answer = << >> /\ ~UserPatchFails =>
                LET old == ppl.state  sent == ppl.sent[1]  new == ppl'.state
                IN  /\ old.enabled # sent.enabled => new.enabled = old.enabled
                    /\ old.limit # sent.limit => new.limit = old.limit
                    /\ QuotaOf(old) # QuotaOf(sent) => QuotaOf(new) = QuotaOf(old)
<1> DEFINE Kept ==
      LET old == ppl.state  sent == ppl.sent[1]  new == ppl'.state
      IN  /\ old.enabled # sent.enabled => new.enabled = old.enabled
          /\ old.limit # sent.limit => new.limit = old.limit
          /\ QuotaOf(old) # QuotaOf(sent) => QuotaOf(new) = QuotaOf(old)
<1>0. pane' = "form"
  BY DEF UserFormNext, OtherPatches, TypeLimit, TypeAmount, SelectUnit, ToggleEnabled, ClearLimit,
         ClearAmount, TypeField, ApplyPreset, HandleSubmit, PatchLands, PatchAnswered,
         UserPatchFails, CloseForm, OpenForm, PplSpent, PplFree
<1> SUFFICES UserFormOK(ppl') /\ (ppl'.answer # ppl.answer => UserPatchFails \/ ppl.answer = << >> \/ Kept)
  BY <1>0
<1> DEFINE p == ppl
           o == p.open
           s == p.state
           b == p.baseline
           u == p.baseUser
           m == p.sent
           d == p.body
           a == p.answer
           t == p.touched
<1>a. /\ p = [open |-> o, state |-> s, baseline |-> b, baseUser |-> u, sent |-> m, body |-> d,
              answer |-> a, touched |-> t]
      /\ StateShape(s) /\ b = InitialEditState(u) /\ Untyped(t, s, b)
      /\ m # << >> => o /\ Untyped(t, m[1], b)
      /\ a # << >> => m # << >>
      /\ \A i \in DOMAIN d : d[i][1] \in t
  BY DEF UserFormOK
<1>1. CASE \E n \in Limits, q \in QuotaBytes :
             OtherPatches([enabled |-> FALSE, limit |-> n, quota |-> q])
  BY <1>1 DEF OtherPatches
<1> HIDE DEF o, s, b, u, m, d, a, t
\* Typing.
<1>2. ASSUME NEW z, NEW K, StateShape(z), Untyped(K, z, ppl.state),
             ppl' = [ppl EXCEPT !.state = z, !.touched = @ \union K]
      PROVE  UserFormOK(ppl') /\ ppl'.answer = ppl.answer
  <2> DEFINE g == ppl.touched \union K
  <2>1. Untyped(g, z, ppl.state) /\ ppl.touched \subseteq g
    BY <1>2 DEF Untyped
  <2>2. ppl' = TypedInto(ppl, z, g)
    BY <1>2 DEF TypedInto
  <2>3. StateShape(z) /\ UserFormOK(ppl)
    BY <1>2
  <2> HIDE DEF g
  <2> QED
    BY <2>1, <2>2, <2>3, TypingIsOK
<1>3. ASSUME NEW z, NEW k, StateShape(z), Untyped({k}, z, ppl.state), TypeField(z, k)
      PROVE  UserFormOK(ppl') /\ ppl'.answer = ppl.answer
  BY <1>2, <1>3 DEF TypeField
<1> DEFINE e_ == s.enabled
           l_ == s.limit
           a_ == s.amount
           n_ == s.unit
           t_ == s.edited
<1>b. s = [enabled |-> e_, limit |-> l_, amount |-> a_, unit |-> n_, edited |-> t_]
  BY <1>a DEF StateShape
<1>f. /\ s.enabled = e_ /\ s.limit = l_ /\ QuotaOf(s) = <<a_, n_, t_>>
  BY DEF e_, l_, a_, n_, t_, QuotaOf
<1>c. ppl.state = s
  BY DEF s, p
<1> HIDE DEF e_, l_, a_, n_, t_
<1>d. ASSUME NEW l PROVE StateShape([s EXCEPT !.limit = l]) /\ Untyped({"limit"}, [s EXCEPT !.limit = l], s)
  <2> DEFINE z == [s EXCEPT !.limit = l]
  <2>1. z = [enabled |-> e_, limit |-> l, amount |-> a_, unit |-> n_, edited |-> t_]
    BY <1>b
  <2> HIDE DEF z
  <2>2. StateShape(z) /\ z.enabled = e_ /\ QuotaOf(z) = <<a_, n_, t_>>
    BY <2>1, StateFields
  <2>3. StateShape(z) /\ Untyped({"limit"}, z, s)
    BY <1>f, <2>2 DEF Untyped
  <2> QED
    BY <2>3 DEF z
<1>e. ASSUME NEW x
      PROVE  /\ StateShape([s EXCEPT !.amount = x, !.edited = TRUE])
             /\ Untyped({"quota"}, [s EXCEPT !.amount = x, !.edited = TRUE], s)
  <2> DEFINE z == [s EXCEPT !.amount = x, !.edited = TRUE]
  <2>1. StateShape(z) /\ z.enabled = s.enabled /\ z.limit = s.limit
    BY <1>a, AmountTyped
  <2> HIDE DEF z
  <2>2. StateShape(z) /\ Untyped({"quota"}, z, s)
    BY <2>1 DEF Untyped
  <2> QED
    BY <2>2 DEF z
<1>4. ASSUME NEW n \in Limits, TypeLimit(n) PROVE UserFormOK(ppl') /\ ppl'.answer = ppl.answer
  BY <1>3, <1>4, <1>c, <1>d DEF TypeLimit
<1>5. ASSUME NEW n \in Limits, TypeAmount(n) PROVE UserFormOK(ppl') /\ ppl'.answer = ppl.answer
  BY <1>3, <1>5, <1>c, <1>e DEF TypeAmount
<1>6. ASSUME NEW unit \in DOMAIN Units, SelectUnit(unit)
      PROVE  UserFormOK(ppl') /\ ppl'.answer = ppl.answer
  <2> DEFINE z == [s EXCEPT !.unit = unit, !.edited = TRUE]
  <2>0. StateShape(z) /\ z.enabled = s.enabled /\ z.limit = s.limit
    BY <1>a, AmountTyped
  <2> HIDE DEF z
  <2>1. StateShape(z) /\ Untyped({"quota"}, z, s)
    BY <2>0 DEF Untyped
  <2> QED
    BY <1>3, <1>6, <1>c, <2>1 DEF SelectUnit, z
<1>7. CASE ToggleEnabled
  <2> DEFINE v == ~e_
             z == [s EXCEPT !.enabled = v]
  <2>1. z = [s EXCEPT !.enabled = ~@]
    BY DEF e_
  <2> HIDE DEF v
  <2>0. z = [enabled |-> v, limit |-> l_, amount |-> a_, unit |-> n_, edited |-> t_]
    BY <1>b
  <2>2. StateShape(z) /\ Untyped({"enabled"}, z, s)
    BY <1>b, <2>0, StateFields DEF Untyped
  <2> HIDE DEF z
  <2>3. UserFormOK(ppl') /\ ppl'.answer = ppl.answer
    BY <1>3, <1>7, <1>c, <2>1, <2>2 DEF ToggleEnabled
  <2> QED
    BY <2>3
<1>8. CASE ClearLimit
  <2> DEFINE l == [s.limit EXCEPT !.set = FALSE]
  <2>1. [s EXCEPT !.limit.set = FALSE] = [s EXCEPT !.limit = l]
    OBVIOUS
  <2> HIDE DEF l
  <2>2. UserFormOK(ppl') /\ ppl'.answer = ppl.answer
    BY <1>3, <1>8, <1>c, <1>d, <2>1 DEF ClearLimit
  <2> QED
    BY <2>2
<1>9. CASE ClearAmount
  <2> DEFINE x == [s.amount EXCEPT !.set = FALSE]
  <2>1. [s EXCEPT !.amount.set = FALSE, !.edited = TRUE] = [s EXCEPT !.amount = x, !.edited = TRUE]
    OBVIOUS
  <2> HIDE DEF x
  <2>2. UserFormOK(ppl') /\ ppl'.answer = ppl.answer
    BY <1>3, <1>9, <1>c, <1>e, <2>1 DEF ClearAmount
  <2> QED
    BY <2>2
<1>10. ASSUME NEW unlimited \in BOOLEAN, ApplyPreset(unlimited)
       PROVE  UserFormOK(ppl') /\ ppl'.answer = ppl.answer
  <2> DEFINE K == {"limit", "quota"}
  <2>1. ASSUME NEW l, NEW x, NEW n, NEW z,
               z = [enabled |-> e_, limit |-> l, amount |-> x, unit |-> n, edited |-> TRUE]
        PROVE  StateShape(z) /\ Untyped(K, z, s)
    BY <1>b, <2>1 DEF StateShape, Untyped
  <2>2. PICK z : /\ z = IF unlimited
                        THEN [s EXCEPT !.limit.set = FALSE, !.amount.set = FALSE, !.edited = TRUE]
                        ELSE [s EXCEPT !.limit = FieldOf(2, TRUE), !.amount = FieldOf(1, TRUE),
                                       !.unit = "GB", !.edited = TRUE]
                 /\ ppl' = [ppl EXCEPT !.state = z, !.touched = @ \union K]
    BY <1>10, <1>c DEF ApplyPreset
  <2>3. \E l, x, n : z = [enabled |-> e_, limit |-> l, amount |-> x, unit |-> n, edited |-> TRUE]
    <3>1. CASE unlimited
      <4> DEFINE l == [l_ EXCEPT !.set = FALSE]
                 x == [a_ EXCEPT !.set = FALSE]
      <4>1. z = [s EXCEPT !.limit = l, !.amount = x, !.edited = TRUE]
        BY <1>b, <2>2, <3>1 DEF l_, a_
      <4> HIDE DEF l, x
      <4>2. z = [enabled |-> e_, limit |-> l, amount |-> x, unit |-> n_, edited |-> TRUE]
        BY <1>b, <4>1
      <4> QED
        BY <4>2
    <3>2. CASE ~unlimited
      <4> DEFINE l == FieldOf(2, TRUE)
                 x == FieldOf(1, TRUE)
      <4>1. z = [s EXCEPT !.limit = l, !.amount = x, !.unit = "GB", !.edited = TRUE]
        BY <2>2, <3>2
      <4> HIDE DEF l, x
      <4>2. z = [enabled |-> e_, limit |-> l, amount |-> x, unit |-> "GB", edited |-> TRUE]
        BY <1>b, <4>1
      <4> QED
        BY <4>2
    <3> QED
      BY <3>1, <3>2
  <2>4. StateShape(z) /\ Untyped(K, z, s)
    BY <2>1, <2>3
  <2> QED
    BY <1>2, <1>c, <2>2, <2>4
\* Sending, landing and answering.
<1>11. CASE HandleSubmit
  <2> DEFINE c == <<s>>
             k == BuildUserPatch(s, u)
  <2>1. m = << >> /\ o /\ ppl' = [p EXCEPT !.sent = c, !.body = k]
    BY <1>11 DEF HandleSubmit, s, u, m, o
  <2>2. \A i \in DOMAIN k : k[i][1] \in t
    BY <1>a, PatchKeys
  <2>3. c # << >> /\ c[1] = s
    OBVIOUS
  <2> HIDE DEF c, k
  <2>4. ppl' = [open |-> o, state |-> s, baseline |-> b, baseUser |-> u, sent |-> c, body |-> k,
                answer |-> a, touched |-> t]
    <3> HIDE DEF p
    <3> QED
      BY <1>a, <2>1
  <2>5. /\ ppl'.open = o /\ ppl'.state = s /\ ppl'.baseline = b /\ ppl'.baseUser = u /\ ppl'.sent = c
        /\ ppl'.body = k /\ ppl'.answer = a /\ ppl'.touched = t
    BY <2>4
  <2>6. UserFormOK(ppl')
    BY <1>a, <2>1, <2>2, <2>3, <2>4, <2>5 DEF UserFormOK
  <2> QED
    BY <2>5, <2>6 DEF a
<1>12. CASE PatchLands
  <2> DEFINE c == <<srv'>>
  <2>1. m # << >> /\ a = << >> /\ ppl' = [p EXCEPT !.answer = c]
    BY <1>12 DEF PatchLands, m, a
  <2> HIDE DEF c
  <2>2. ppl' = [open |-> o, state |-> s, baseline |-> b, baseUser |-> u, sent |-> m, body |-> d,
                answer |-> c, touched |-> t]
    <3> HIDE DEF p
    <3> QED
      BY <1>a, <2>1
  <2>3. /\ ppl'.open = o /\ ppl'.state = s /\ ppl'.baseline = b /\ ppl'.baseUser = u /\ ppl'.sent = m
        /\ ppl'.body = d /\ ppl'.answer = c /\ ppl'.touched = t
    BY <2>2
  <2>4. UserFormOK(ppl')
    BY <1>a, <2>1, <2>2, <2>3 DEF UserFormOK
  <2> QED
    BY <2>1, <2>4 DEF a
<1>13. CASE PatchAnswered
  <2> DEFINE c == InitialEditState(a[1])
             x == RebaseUserForm(m[1], s, c)
             w == a[1]
             late == {k \in t : CASE k = "quota" -> QuotaOf(s) # QuotaOf(m[1])
                                  [] OTHER -> s[k] # m[1][k]}
             e == << >>
             h == x # c
  <2>1. a # << >> /\ ppl' = [p EXCEPT !.baseUser = w, !.baseline = c, !.state = x, !.sent = e, !.body = e,
                                      !.answer = e, !.open = h, !.touched = late]
    BY <1>13 DEF PatchAnswered, a, s, m, t
  <2>2. /\ StateShape(x)
        /\ x.enabled = IF s.enabled # m[1].enabled THEN s.enabled ELSE c.enabled
        /\ x.limit = IF s.limit # m[1].limit THEN s.limit ELSE c.limit
        /\ QuotaOf(x) = IF QuotaOf(s) # QuotaOf(m[1]) THEN QuotaOf(s) ELSE QuotaOf(c)
    BY RebaseKeeps
  <2>3. c = InitialEditState(w) /\ e = << >> /\ DOMAIN e = {}
    OBVIOUS
  <2>4. /\ "enabled" \in t /\ s.enabled # m[1].enabled => "enabled" \in late
        /\ "limit" \in t /\ s.limit # m[1].limit => "limit" \in late
        /\ "quota" \in t /\ QuotaOf(s) # QuotaOf(m[1]) => "quota" \in late
    OBVIOUS
  <2>5. Untyped(late, x, c)
    <3>1. Untyped(t, s, b) /\ Untyped(t, m[1], b)
      BY <1>a, <2>1
    <3> HIDE DEF late, x, c
    <3> QED
      BY <2>2, <2>4, <3>1 DEF Untyped
  <2> HIDE DEF c, x, w, late, e, h
  <2>6. ppl' = [open |-> h, state |-> x, baseline |-> c, baseUser |-> w, sent |-> e, body |-> e,
                answer |-> e, touched |-> late]
    <3> HIDE DEF p
    <3> QED
      BY <1>a, <2>1
  <2>7. /\ ppl'.open = h /\ ppl'.state = x /\ ppl'.baseline = c /\ ppl'.baseUser = w /\ ppl'.sent = e
        /\ ppl'.body = e /\ ppl'.answer = e /\ ppl'.touched = late
    BY <2>6
  <2>8. UserFormOK(ppl')
    BY <2>2, <2>3, <2>5, <2>6, <2>7 DEF UserFormOK
  <2>9. Kept
    BY <2>2, <2>7 DEF s, m
  <2> QED
    BY <2>8, <2>9
<1>14. CASE UserPatchFails
  <2> DEFINE e == << >>
  <2>1. ppl' = [p EXCEPT !.sent = e, !.body = e, !.answer = e]
    BY <1>14 DEF UserPatchFails
  <2>2. e = << >> /\ DOMAIN e = {}
    OBVIOUS
  <2> HIDE DEF e
  <2>3. ppl' = [open |-> o, state |-> s, baseline |-> b, baseUser |-> u, sent |-> e, body |-> e,
                answer |-> e, touched |-> t]
    <3> HIDE DEF p
    <3> QED
      BY <1>a, <2>1
  <2>4. /\ ppl'.open = o /\ ppl'.state = s /\ ppl'.baseline = b /\ ppl'.baseUser = u /\ ppl'.sent = e
        /\ ppl'.body = e /\ ppl'.answer = e /\ ppl'.touched = t
    BY <2>3
  <2>5. UserFormOK(ppl')
    BY <1>a, <2>2, <2>3, <2>4 DEF UserFormOK
  <2> QED
    BY <1>14, <2>5
<1>15. CASE CloseForm
  <2>1. m = << >> /\ ppl' = [p EXCEPT !.open = FALSE]
    BY <1>15 DEF CloseForm, m
  <2>2. ppl' = [open |-> FALSE, state |-> s, baseline |-> b, baseUser |-> u, sent |-> m, body |-> d,
                answer |-> a, touched |-> t]
    <3> HIDE DEF p
    <3> QED
      BY <1>a, <2>1
  <2>3. /\ ppl'.state = s /\ ppl'.baseline = b /\ ppl'.baseUser = u /\ ppl'.sent = m
        /\ ppl'.body = d /\ ppl'.answer = a /\ ppl'.touched = t
    BY <2>2
  <2>4. UserFormOK(ppl')
    BY <1>a, <2>1, <2>2, <2>3 DEF UserFormOK
  <2> QED
    BY <2>3, <2>4 DEF a
<1>16. CASE OpenForm
  <2>1. ~o /\ ppl' = FormOpened(srv)
    BY <1>16 DEF OpenForm, o
  <2>2. UserFormOK(ppl')
    BY <2>1, OpenedIsOK
  <2>3. ppl.answer = << >>
    BY <1>a, <2>1 DEF a
  <2> QED
    BY <2>2, <2>3
<1> HIDE DEF Kept
<1> QED
  BY <1>1, <1>4, <1>5, <1>6, <1>7, <1>8, <1>9, <1>10, <1>11, <1>12, <1>13, <1>14, <1>15, <1>16
  DEF UserFormNext

-----------------------------------------------------------------------------
(***************************************************************************)
(* The sheet of a user: the question asked, the WEB account and the quota  *)
(* schedule.                                                               *)
(***************************************************************************)

\* The WEB profiles: every version in the editor has a revision.
Revisions == Nat \cup {-1}
WebAccountOK(d, w) ==
    /\ d.rev \in Nat
    /\ w = [sess |-> w.sess, save |-> w.save, sent |-> w.sent, got |-> w.got,
            conflict |-> w.conflict]
    /\ SessionShape(w.sess) /\ w.sess.baseline.rev \in Nat /\ w.sess.remote.rev \in Revisions
    /\ w.got \in Nat
    /\ w.save \in {"sent", "saved"} => Some(w.sent)

\* The schedule: a preview on screen is that of the rule it was asked for, the
\* server holds a valid rule, and an answer on its way has what was sent.
DocShape(d) == d = [mode |-> d.mode, rule |-> d.rule]
ScheduleOK(v, p) ==
    /\ DocShape(v.doc) /\ RuleOK(v.doc.rule)
    /\ p = [base |-> p.base, draft |-> p.draft, asked |-> p.asked, preview |-> p.preview,
            save |-> p.save, got |-> p.got, error |-> p.error, reload |-> p.reload]
    /\ DocShape(p.draft)
    /\ p.preview \in {"fetching", "ok", "error"}
    /\ p.preview = "ok" => RuleOK(p.asked)
    /\ p.save = "sent" /\ MustValidate(p.draft.mode) => RuleOK(p.draft.rule)
    /\ p.save = "saved" => p.got.doc = Normal(p.draft)

\* The inductive invariant of a user's editors.
PersonInv ==
    /\ pane \in PersonPanes
    /\ pane = "form" => UserFormOK(ppl)
    /\ pane = "web" => WebAccountOK(srv, ppl)
    /\ pane = "schedule" => ScheduleOK(srv, ppl)

\* The server's form of a schedule keeps the mode; the common rule is valid.
LEMMA NormalDoc ==
    ASSUME NEW d, DocShape(d)
    PROVE  /\ DocShape(Normal(d)) /\ Normal(d).mode = d.mode
           /\ MustValidate(d.mode) => Normal(d) = d
           /\ (MustValidate(d.mode) => RuleOK(d.rule)) => RuleOK(Normal(d).rule)
<1>1. CASE MustValidate(d.mode)
  <2>1. Normal(d) = d
    BY <1>1 DEF Normal
  <2> QED
    BY <1>1, <2>1
<1>2. CASE ~MustValidate(d.mode)
  <2> DEFINE c == CommonRule
             m == d.mode
  <2>1. Normal(d) = [d EXCEPT !.rule = c] /\ d = [mode |-> m, rule |-> d.rule]
    BY <1>2 DEF Normal, DocShape
  <2>2. RuleOK(c)
    BY PersonEditorAssumption DEF RuleOK, CommonRule
  <2> HIDE DEF c, m
  <2>3. Normal(d) = [mode |-> m, rule |-> c]
    BY <2>1
  <2> QED
    BY <1>2, <2>2, <2>3 DEF DocShape, m
<1> QED
  BY <1>1, <1>2

\* A schedule that was just opened.
LEMMA ScheduleOpens ==
    ASSUME NEW v, DocShape(v.doc), RuleOK(v.doc.rule), NEW y, y = ScheduleOpened(v)
    PROVE  ScheduleOK(v, y)
<1> DEFINE d == v.doc
           r == d.rule
<1>1. y = [base |-> v, draft |-> d, asked |-> r, preview |-> "fetching", save |-> "idle",
           got |-> Nothing, error |-> "no", reload |-> FALSE]
  BY DEF ScheduleOpened
<1>2. DocShape(d) /\ RuleOK(r)
  OBVIOUS
<1> HIDE DEF r
<1>3. /\ y.draft = d /\ y.preview = "fetching" /\ y.save = "idle"
      /\ y = [base |-> y.base, draft |-> y.draft, asked |-> y.asked, preview |-> y.preview,
              save |-> y.save, got |-> y.got, error |-> y.error, reload |-> y.reload]
  <2> HIDE DEF d
  <2> QED
    BY <1>1
<1> QED
  BY <1>2, <1>3 DEF ScheduleOK

\* WEB profiles that were just opened.
LEMMA WebOpens ==
    ASSUME NEW v, v.rev \in Nat, NEW y, y = WebOpened(v)
    PROVE  WebAccountOK(v, y)
<1> DEFINE s == DraftSessionOf(v)
<1>1. SessionShape(s) /\ s.baseline = v /\ s.remote.rev = -1
  BY DEF DraftSessionOf, SessionShape, Nothing
<1>2. y = [sess |-> s, save |-> "idle", sent |-> Nothing, got |-> 0, conflict |-> FALSE]
  BY DEF WebOpened
<1> HIDE DEF s
<1>3. /\ y.sess = s /\ y.save = "idle" /\ y.got = 0
      /\ y = [sess |-> y.sess, save |-> y.save, sent |-> y.sent, got |-> y.got,
              conflict |-> y.conflict]
  BY <1>2
<1> QED
  BY <1>1, <1>3 DEF WebAccountOK, Revisions

\* Every editor of a user opens with nothing typed.
LEMMA PersonInvInit == PersonInit => PersonInv
<1> SUFFICES ASSUME PersonInit PROVE PersonInv
  OBVIOUS
<1>1. /\ pane \in {"form", "sheet", "web", "schedule"}
  BY DEF PersonInit, PersonPanes
<1>0. PICK mode \in {"common", "inherit"} :
        srv = PersonStart(pane, mode).srv /\ ppl = PersonStart(pane, mode).ppl
  BY DEF PersonInit
<1>2. CASE pane = "form"
  <2>1. ppl = FormOpened(FirstUser)
    BY <1>0, <1>2 DEF PersonStart
  <2> QED
    BY <1>2, <2>1, OpenedIsOK DEF PersonInv, PersonPanes
<1>3. CASE pane = "sheet"
  BY <1>3 DEF PersonInv, PersonPanes
<1>4. CASE pane = "web"
  <2> DEFINE d == FirstDocument
  <2>1. srv = d /\ ppl = WebOpened(d)
    BY <1>0, <1>4 DEF PersonStart
  <2>2. d.rev \in Nat
    BY DEF FirstDocument
  <2> HIDE DEF d
  <2>3. WebAccountOK(srv, ppl)
    BY <2>1, <2>2, WebOpens
  <2> QED
    BY <1>4, <2>3 DEF PersonInv, PersonPanes
<1>5. CASE pane = "schedule"
  <2> DEFINE v == FirstSchedule(mode)
  <2>1. srv = v /\ ppl = ScheduleOpened(v)
    BY <1>0, <1>5 DEF PersonStart
  <2>2. DocShape(v.doc) /\ RuleOK(v.doc.rule)
    BY PersonEditorAssumption DEF FirstSchedule, DocShape, RuleOK, CommonRule
  <2> HIDE DEF v
  <2>3. ScheduleOK(srv, ppl)
    BY <2>1, <2>2, ScheduleOpens
  <2> QED
    BY <1>5, <2>3 DEF PersonInv, PersonPanes
<1> QED
  BY <1>1, <1>2, <1>3, <1>4, <1>5

\* Every step of the action sheet: the question is in the view alone.
LEMMA SheetSteps ==
    AskedIsConfirmed /\ (pane = "sheet" /\ SheetNext => pane' = "sheet")
  BY DEF AskedIsConfirmed, Confirmation, SheetNext, UserFrame, Ask, CancelAsk, Confirm, ConfirmLands,
         ConfirmAnswered, ConfirmFails, PplSpent, PplFree

\* A session that received, acknowledged or discarded.
LEMMA SessionRevisions ==
    ASSUME NEW s, SessionShape(s), s.baseline.rev \in Nat, s.remote.rev \in Revisions
    PROVE  /\ \A fresh : fresh.rev \in Nat =>
                LET y == ReceiveRemote(s, fresh, FALSE)
                IN  /\ SessionShape(y) /\ y.baseline.rev \in Nat /\ y.remote.rev \in Revisions
                    /\ y.draft = s.draft \/ s.draft = s.baseline.doc
           /\ \A x, c : c.rev \in Nat =>
                LET y == AcknowledgeSubmitted(s, x, c)
                IN  /\ SessionShape(y) /\ y.baseline.rev \in Nat /\ y.remote.rev \in Revisions
                    /\ y.draft = s.draft \/ s.draft = x.doc
           /\ LET y == DiscardToRemote(s)
              IN  SessionShape(y) /\ y.baseline.rev \in Nat /\ y.remote.rev \in Revisions
<1>0. Nothing.rev = -1 /\ -1 \in Revisions /\ Nat \subseteq Revisions
  BY DEF Nothing, Revisions
<1>1. ASSUME NEW fresh, fresh.rev \in Nat, NEW y, y = ReceiveRemote(s, fresh, FALSE)
      PROVE  /\ SessionShape(y) /\ y.baseline.rev \in Nat /\ y.remote.rev \in Revisions
             /\ y.draft = s.draft \/ s.draft = s.baseline.doc
  <2> DEFINE preserve == FALSE
  <2>0. preserve \in BOOLEAN /\ y = ReceiveRemote(s, fresh, preserve)
    BY <1>1
  <2> HIDE DEF preserve
  <2>1. /\ SessionShape(y) /\ (y.draft = s.draft \/ s.draft = s.baseline.doc)
        /\ y.baseline \in {s.baseline, fresh} /\ y.remote \in {s.remote, fresh, Nothing}
    BY <2>0, ReceiveKeeps
  <2> QED
    BY <1>0, <1>1, <2>1
<1>2. ASSUME NEW x, NEW c, c.rev \in Nat, NEW y, y = AcknowledgeSubmitted(s, x, c)
      PROVE  /\ SessionShape(y) /\ y.baseline.rev \in Nat /\ y.remote.rev \in Revisions
             /\ y.draft = s.draft \/ s.draft = x.doc
  <2>1. /\ SessionShape(y) /\ (y.draft = s.draft \/ s.draft = x.doc)
        /\ y.baseline \in {s.remote, c} /\ y.remote \in {s.remote, Nothing}
        /\ y.baseline = s.remote => s.remote.rev > 0 \/ s.remote = c
    BY <1>2, AcknowledgeKeeps
  <2>2. y.baseline.rev \in Nat
    BY <1>2, <2>1 DEF Revisions
  <2> QED
    BY <1>0, <2>1, <2>2
<1>3. ASSUME NEW y, y = DiscardToRemote(s)
      PROVE  SessionShape(y) /\ y.baseline.rev \in Nat /\ y.remote.rev \in Revisions
  <2> DEFINE b == IF Some(s.remote) THEN s.remote ELSE s.baseline
             d == b.doc
  <2>1. b.rev \in Nat
    BY DEF Some, Revisions
  <2>2. y = [baseline |-> b, draft |-> d, remote |-> Nothing]
    BY <1>3 DEF DiscardToRemote, DraftSessionOf
  <2> HIDE DEF b, d
  <2> QED
    BY <1>0, <2>1, <2>2, SessionFields
<1> QED
  BY <1>1, <1>2, <1>3

\* Every step of the WEB profiles.
LEMMA WebAccountSteps ==
    ASSUME pane = "web", WebAccountOK(srv, ppl), WebAccountNext
    PROVE  /\ pane' = "web" /\ WebAccountOK(srv', ppl')
           /\ ppl'.sess.draft # ppl.sess.draft =>
                \/ EditProfiles(ppl'.sess.draft) \/ DiscardProfiles
                \/ ppl.sess.draft = ppl.sess.baseline.doc
                \/ Some(ppl.sent) /\ ppl.sess.draft = ppl.sent.doc
<1>0. pane' = "web"
  BY DEF WebAccountNext, OtherSavesProfiles, EditProfiles, ProfilesArrive, SaveProfiles, ProfilesLand,
         ProfilesSaved, ProfilesRead, ProfilesRefused, ProfilesLost, DiscardProfiles, PplSpent, PplFree
<1> DEFINE Kept ==
      ppl'.sess.draft # ppl.sess.draft =>
        \/ EditProfiles(ppl'.sess.draft) \/ DiscardProfiles
        \/ ppl.sess.draft = ppl.sess.baseline.doc
        \/ Some(ppl.sent) /\ ppl.sess.draft = ppl.sent.doc
<1> SUFFICES WebAccountOK(srv', ppl') /\ Kept
  BY <1>0
<1> DEFINE s == ppl.sess
           v == ppl.save
           m == ppl.sent
           g == ppl.got
           c == ppl.conflict
<1>a. /\ ppl = [sess |-> s, save |-> v, sent |-> m, got |-> g, conflict |-> c]
      /\ srv.rev \in Nat /\ SessionShape(s) /\ s.baseline.rev \in Nat /\ s.remote.rev \in Revisions
      /\ g \in Nat /\ (v \in {"sent", "saved"} => Some(m))
  BY DEF WebAccountOK
<1> HIDE DEF s, v, m, g, c
\* What has to be shown of the new state.
<1>b. ASSUME NEW z, NEW w, NEW n, NEW h, NEW q,
             ppl' = [sess |-> z, save |-> w, sent |-> n, got |-> h, conflict |-> q],
             SessionShape(z), z.baseline.rev \in Nat, z.remote.rev \in Revisions, h \in Nat,
             w \in {"sent", "saved"} => Some(n), srv'.rev \in Nat
      PROVE  WebAccountOK(srv', ppl') /\ ppl'.sess = z
  <2>1. ppl'.sess = z /\ ppl'.save = w /\ ppl'.sent = n /\ ppl'.got = h /\ ppl'.conflict = q
    BY <1>b
  <2> QED
    BY <1>b, <2>1 DEF WebAccountOK
<1>c. ppl.sess = s /\ ppl.sent = m /\ ppl.save = v
  BY DEF s, m, v
<1>1. ASSUME NEW p \in 1..2, OtherSavesProfiles(p) PROVE WebAccountOK(srv', ppl') /\ Kept
  <2>1. ppl' = ppl /\ srv'.rev = srv.rev + 1
    BY <1>1 DEF OtherSavesProfiles
  <2> QED
    BY <1>a, <2>1 DEF WebAccountOK
<1>2. ASSUME NEW p \in 1..2, EditProfiles(p) PROVE WebAccountOK(srv', ppl') /\ Kept
  <2> DEFINE z == [s EXCEPT !.draft = p]
  <2>1. ppl' = [sess |-> z, save |-> v, sent |-> m, got |-> g, conflict |-> c] /\ srv' = srv
    BY <1>2, <1>a DEF EditProfiles
  <2>2. /\ SessionShape(z) /\ z.baseline = s.baseline /\ z.draft = p /\ z.remote = s.remote
    BY <1>a, SessionTyped
  <2> HIDE DEF z
  <2>3. WebAccountOK(srv', ppl') /\ ppl'.sess = z
    BY <1>a, <1>b, <2>1, <2>2
  <2> QED
    BY <1>2, <2>2, <2>3
<1>3. CASE ProfilesArrive
  <2> DEFINE z == ReceiveRemote(s, srv, FALSE)
  <2>1. ppl' = [sess |-> z, save |-> v, sent |-> m, got |-> g, conflict |-> c] /\ srv' = srv
    <3>1. ppl' = [ppl EXCEPT !.sess = z] /\ srv' = srv
      BY <1>3, <1>c DEF ProfilesArrive
    <3> HIDE DEF z
    <3> QED
      BY <1>a, <3>1
  <2>2. /\ SessionShape(z) /\ z.baseline.rev \in Nat /\ z.remote.rev \in Revisions
        /\ z.draft = s.draft \/ s.draft = s.baseline.doc
    BY <1>a, SessionRevisions
  <2> HIDE DEF z
  <2>3. WebAccountOK(srv', ppl') /\ ppl'.sess = z
    BY <1>a, <1>b, <2>1, <2>2
  <2> QED
    BY <1>c, <2>2, <2>3
<1>4. CASE SaveProfiles
  <2> DEFINE n == [rev |-> s.baseline.rev, doc |-> s.draft]
  <2>1. ppl' = [sess |-> s, save |-> "sent", sent |-> n, got |-> g, conflict |-> c] /\ srv' = srv
    <3>1. ppl' = [ppl EXCEPT !.save = "sent", !.sent = n] /\ srv' = srv
      BY <1>4, <1>c DEF SaveProfiles
    <3> HIDE DEF n
    <3> QED
      BY <1>a, <3>1
  <2>2. Some(n)
    BY <1>a DEF Some
  <2> HIDE DEF n
  <2>3. WebAccountOK(srv', ppl') /\ ppl'.sess = s
    BY <1>a, <1>b, <2>1, <2>2
  <2> QED
    BY <1>c, <2>3
<1>5. CASE ProfilesLand
  <2>1. CASE ppl.sent.rev = srv.rev
    <3> DEFINE r == srv.rev + 1
    <3>1. srv' = [rev |-> r, doc |-> ppl.sent.doc] /\ ppl' = [ppl EXCEPT !.save = "saved", !.got = srv'.rev]
          /\ v = "sent"
      BY <1>5, <1>c, <2>1 DEF ProfilesLand
    <3>2. r \in Nat
      BY <1>a
    <3> HIDE DEF r
    <3>3. srv'.rev = r
      BY <3>1
    <3>4. ppl' = [sess |-> s, save |-> "saved", sent |-> m, got |-> r, conflict |-> c]
      BY <1>a, <3>1, <3>3
    <3>5. WebAccountOK(srv', ppl') /\ ppl'.sess = s
      BY <1>a, <1>b, <3>1, <3>2, <3>3, <3>4
    <3> QED
      BY <1>c, <3>5
  <2>2. CASE ppl.sent.rev # srv.rev
    <3>1. srv' = srv /\ ppl' = [sess |-> s, save |-> "refused", sent |-> m, got |-> g, conflict |-> c]
      BY <1>5, <1>a, <2>2 DEF ProfilesLand
    <3>2. WebAccountOK(srv', ppl') /\ ppl'.sess = s
      BY <1>a, <1>b, <3>1
    <3> QED
      BY <1>c, <3>2
  <2> QED
    BY <2>1, <2>2
<1>6. CASE ProfilesSaved
  <2> DEFINE n == [rev |-> g, doc |-> m.doc]
             z == AcknowledgeSubmitted(s, m, n)
  <2>1. v = "saved" /\ ppl' = [sess |-> z, save |-> "refetch", sent |-> m, got |-> g, conflict |-> FALSE]
        /\ srv' = srv
    <3>1. v = "saved" /\ ppl' = [ppl EXCEPT !.conflict = FALSE, !.save = "refetch", !.sess = z] /\ srv' = srv
      BY <1>6, <1>c DEF ProfilesSaved, g
    <3> HIDE DEF z
    <3> QED
      BY <1>a, <3>1
  <2>2. n.rev \in Nat
    BY <1>a
  <2> HIDE DEF n
  <2>3. /\ SessionShape(z) /\ z.baseline.rev \in Nat /\ z.remote.rev \in Revisions
        /\ z.draft = s.draft \/ s.draft = m.doc
    BY <1>a, <2>2, SessionRevisions
  <2> HIDE DEF z
  <2>4. WebAccountOK(srv', ppl') /\ ppl'.sess = z
    BY <1>a, <1>b, <2>1, <2>3
  <2> QED
    BY <1>a, <1>c, <2>1, <2>3, <2>4
<1>7. CASE ProfilesRead \/ ProfilesRefused
  <2> DEFINE z == ReceiveRemote(s, srv, FALSE)
             o == 0
  <2>1. /\ srv' = srv
        /\ \/ ppl' = [sess |-> z, save |-> "idle", sent |-> Nothing, got |-> o, conflict |-> c]
           \/ ppl' = [sess |-> z, save |-> "idle", sent |-> Nothing, got |-> g, conflict |-> TRUE]
    <3>1. /\ srv' = srv
          /\ \/ ppl' = [ppl EXCEPT !.save = "idle", !.sent = Nothing, !.got = o, !.sess = z]
             \/ ppl' = [ppl EXCEPT !.save = "idle", !.sent = Nothing, !.conflict = TRUE, !.sess = z]
      BY <1>7, <1>c DEF ProfilesRead, ProfilesRefused
    <3> HIDE DEF z, o
    <3> QED
      BY <1>a, <3>1
  <2>2. o \in Nat
    OBVIOUS
  <2>3. /\ SessionShape(z) /\ z.baseline.rev \in Nat /\ z.remote.rev \in Revisions
        /\ z.draft = s.draft \/ s.draft = s.baseline.doc
    BY <1>a, SessionRevisions
  <2> HIDE DEF z, o
  <2>4. WebAccountOK(srv', ppl') /\ ppl'.sess = z
    BY <1>a, <1>b, <2>1, <2>2, <2>3
  <2> QED
    BY <1>c, <2>3, <2>4
<1>8. CASE ProfilesLost
  <2> DEFINE o == 0
  <2>1. srv' = srv /\ ppl' = [ppl EXCEPT !.save = "idle", !.sent = Nothing, !.got = o] /\ o \in Nat
    BY <1>8 DEF ProfilesLost
  <2> HIDE DEF o
  <2>2. ppl' = [sess |-> s, save |-> "idle", sent |-> Nothing, got |-> o, conflict |-> c]
    BY <1>a, <2>1
  <2>3. WebAccountOK(srv', ppl') /\ ppl'.sess = s
    BY <1>a, <1>b, <2>1, <2>2
  <2> QED
    BY <1>c, <2>3
<1>9. CASE DiscardProfiles
  <2> DEFINE z == DiscardToRemote(s)
  <2>1. srv' = srv /\ ppl' = [sess |-> z, save |-> v, sent |-> m, got |-> g, conflict |-> FALSE]
    <3>1. srv' = srv /\ ppl' = [ppl EXCEPT !.sess = z, !.conflict = FALSE]
      BY <1>9, <1>c DEF DiscardProfiles
    <3> HIDE DEF z
    <3> QED
      BY <1>a, <3>1
  <2>2. SessionShape(z) /\ z.baseline.rev \in Nat /\ z.remote.rev \in Revisions
    BY <1>a, SessionRevisions
  <2> HIDE DEF z
  <2>3. WebAccountOK(srv', ppl')
    BY <1>a, <1>b, <2>1, <2>2
  <2> QED
    BY <1>9, <2>3
<1> HIDE DEF Kept
<1> QED
  BY <1>1, <1>2, <1>3, <1>4, <1>5, <1>6, <1>7, <1>8, <1>9 DEF WebAccountNext

\* Every step of the schedule.
LEMMA ScheduleSteps ==
    ASSUME pane = "schedule", ScheduleOK(srv, ppl), ScheduleNext
    PROVE  /\ pane' = "schedule" /\ ScheduleOK(srv', ppl')
           /\ ppl'.draft # ppl.draft =>
                \/ EditRule(ppl'.draft.rule) \/ PickMode(ppl'.draft.mode)
                \/ ppl.save = "saved" /\ ppl'.draft = Normal(ppl.draft)
                \/ RuleReloaded \/ SchedulePollFails
<1>0. pane' = "schedule"
  BY DEF ScheduleNext, OtherSavesRule, EditRule, PickMode, Debounced, Previewed, RulePreviewFails,
         SaveRule, RuleLands, RuleSaved, RuleRefused, RuleLost, ReloadRule, RuleReloaded,
         RuleReloadFails, SchedulePollFails, PplSpent, PplFree
<1> DEFINE Kept ==
      ppl'.draft # ppl.draft =>
        \/ EditRule(ppl'.draft.rule) \/ PickMode(ppl'.draft.mode)
        \/ ppl.save = "saved" /\ ppl'.draft = Normal(ppl.draft)
        \/ RuleReloaded \/ SchedulePollFails
<1> SUFFICES ScheduleOK(srv', ppl') /\ Kept
  BY <1>0
<1>1. ASSUME NEW doc \in [mode : UserModes \union {"common"}, rule : 1..MaxRule], OtherSavesRule(doc)
      PROVE  ScheduleOK(srv', ppl') /\ Kept
  <2> DEFINE n == srv.rev + 1
  <2>1. srv' = [rev |-> n, doc |-> doc] /\ ppl' = ppl /\ RuleOK(doc.rule)
    BY <1>1 DEF OtherSavesRule
  <2>2. DocShape(doc)
    BY <1>1 DEF DocShape
  <2> HIDE DEF n
  <2>3. srv'.doc = doc
    BY <2>1
  <2> QED
    BY <2>1, <2>2, <2>3 DEF ScheduleOK
<1>2. ASSUME NEW r \in 1..MaxRule, EditRule(r) PROVE ScheduleOK(srv', ppl') /\ Kept
  <2>1. ppl' = [ppl EXCEPT !.draft.rule = r] /\ srv' = srv /\ ppl.save = "idle"
    BY <1>2 DEF EditRule, ScheduleBlocked
  <2> DEFINE m == ppl.draft.mode
  <2>2. ppl' = [ppl EXCEPT !.draft = [mode |-> m, rule |-> r]]
    BY <2>1 DEF ScheduleOK, DocShape
  <2> HIDE DEF m
  <2>3. ppl'.draft = [mode |-> m, rule |-> r]
    BY <2>2 DEF ScheduleOK
  <2>4. DocShape(ppl'.draft) /\ ppl'.draft.rule = r
    BY <2>3 DEF DocShape
  <2>5. ScheduleOK(srv', ppl')
    BY <2>1, <2>2, <2>4 DEF ScheduleOK
  <2> QED
    BY <1>2, <2>4, <2>5
<1>3. ASSUME NEW mode \in UserModes, PickMode(mode) PROVE ScheduleOK(srv', ppl') /\ Kept
  <2>1. ppl' = [ppl EXCEPT !.draft.mode = mode] /\ srv' = srv /\ ppl.save = "idle"
    BY <1>3 DEF PickMode, ScheduleBlocked
  <2> DEFINE r == ppl.draft.rule
  <2>2. ppl' = [ppl EXCEPT !.draft = [mode |-> mode, rule |-> r]]
    BY <2>1 DEF ScheduleOK, DocShape
  <2> HIDE DEF r
  <2>3. ppl'.draft = [mode |-> mode, rule |-> r]
    BY <2>2 DEF ScheduleOK
  <2>4. DocShape(ppl'.draft) /\ ppl'.draft.mode = mode
    BY <2>3 DEF DocShape
  <2>5. ScheduleOK(srv', ppl')
    BY <2>1, <2>2, <2>4 DEF ScheduleOK
  <2> QED
    BY <1>3, <2>4, <2>5
<1>4. CASE Debounced
  <2> DEFINE r == PreviewedRule(ppl)
  <2>1. ppl' = [ppl EXCEPT !.asked = r, !.preview = "fetching"] /\ srv' = srv
    BY <1>4 DEF Debounced
  <2> HIDE DEF r
  <2> QED
    BY <2>1 DEF ScheduleOK
<1>5. CASE Previewed \/ RulePreviewFails
  <2> DEFINE w == IF RuleOK(ppl.asked) THEN "ok" ELSE "error"
  <2>1. srv' = srv /\ (ppl' = [ppl EXCEPT !.preview = w] \/ ppl' = [ppl EXCEPT !.preview = "error"])
    BY <1>5 DEF Previewed, RulePreviewFails
  <2>2. w \in {"ok", "error"} /\ (w = "ok" => RuleOK(ppl.asked))
    OBVIOUS
  <2> HIDE DEF w
  <2> QED
    BY <2>1, <2>2 DEF ScheduleOK
<1>6. CASE SaveRule
  <2>1. /\ ppl' = [ppl EXCEPT !.save = "sent", !.error = "no"] /\ srv' = srv
        /\ MustValidate(ppl.draft.mode) =>
             Normal(ppl.draft).rule = ppl.asked /\ ppl.preview # "fetching" /\ ppl.preview # "error"
    BY <1>6 DEF SaveRule, Waiting, PreviewedRule
  <2>2. MustValidate(ppl.draft.mode) => RuleOK(ppl.draft.rule)
    BY <2>1, NormalDoc DEF ScheduleOK
  <2> QED
    BY <2>1, <2>2 DEF ScheduleOK
<1>7. CASE RuleLands
  <2> DEFINE d == Normal(ppl.draft)
             n == srv.rev + 1
  <2>1. CASE srv' = srv /\ (ppl' = [ppl EXCEPT !.save = "conflict"] \/ ppl' = [ppl EXCEPT !.save = "refused"])
    BY <2>1 DEF ScheduleOK
  <2>2. CASE /\ RuleOK(PreviewedRule(ppl)) /\ srv' = [rev |-> n, doc |-> d]
             /\ ppl' = [ppl EXCEPT !.save = "saved", !.got = srv']
    <3>1. DocShape(d) /\ RuleOK(d.rule)
      BY <2>2, NormalDoc DEF ScheduleOK, PreviewedRule
    <3> DEFINE g == srv'
    <3>2. g = [rev |-> n, doc |-> d] /\ ppl' = [ppl EXCEPT !.save = "saved", !.got = g]
      BY <2>2
    <3>3. g.doc = d
      <4> HIDE DEF g, d, n
      <4> QED
        BY <3>2
    <3> HIDE DEF g
    <3>4. ppl'.got = g /\ ppl'.draft = ppl.draft /\ ppl'.save = "saved"
      BY <3>2 DEF ScheduleOK
    <3> HIDE DEF d
    <3>5. ScheduleOK(g, ppl')
      BY <3>1, <3>2, <3>3, <3>4 DEF ScheduleOK, d
    <3> QED
      BY <3>4, <3>5 DEF g
  <2> QED
    BY <1>7, <2>1, <2>2 DEF RuleLands
<1>8. CASE RuleSaved
  <2> DEFINE b == ppl.got
             d == b.doc
  <2>1. /\ ppl' = [ppl EXCEPT !.save = "idle", !.base = b, !.draft = d, !.got = Nothing]
        /\ srv' = srv /\ ppl.save = "saved"
    BY <1>8 DEF RuleSaved
  <2>2. d = Normal(ppl.draft) /\ DocShape(d)
    BY <2>1, NormalDoc DEF ScheduleOK
  <2> HIDE DEF b, d
  <2>3. ppl'.draft = d
    BY <2>1 DEF ScheduleOK
  <2>4. ScheduleOK(srv', ppl')
    BY <2>1, <2>2, <2>3 DEF ScheduleOK
  <2> QED
    BY <2>1, <2>2, <2>3, <2>4
<1>9. CASE RuleRefused \/ RuleLost \/ ReloadRule \/ RuleReloadFails
  <2> DEFINE e == ppl.save
  <2>1. /\ srv' = srv
        /\ \/ ppl' = [ppl EXCEPT !.save = "idle", !.error = e]
           \/ ppl' = [ppl EXCEPT !.save = "idle", !.error = "network", !.got = Nothing]
           \/ ppl' = [ppl EXCEPT !.reload = TRUE]
           \/ ppl' = [ppl EXCEPT !.reload = FALSE]
    BY <1>9 DEF RuleRefused, RuleLost, ReloadRule, RuleReloadFails
  <2> HIDE DEF e
  <2> QED
    BY <2>1 DEF ScheduleOK
<1>10. CASE RuleReloaded
  <2> DEFINE b == srv
             d == b.doc
  <2>1. /\ ppl' = [ppl EXCEPT !.reload = FALSE, !.base = b, !.draft = d, !.error = "no",
                             !.save = "idle", !.got = Nothing]
        /\ srv' = b
    BY <1>10 DEF RuleReloaded
  <2>2. DocShape(d) /\ RuleOK(d.rule) /\ b.doc = d
    BY DEF ScheduleOK
  <2> HIDE DEF b, d
  <2>3. ScheduleOK(b, ppl')
    BY <2>1, <2>2 DEF ScheduleOK
  <2> QED
    BY <1>10, <2>1, <2>3
<1>11. CASE SchedulePollFails
  <2>1. ppl' = ScheduleOpened(srv) /\ srv' = srv
    BY <1>11 DEF SchedulePollFails
  <2>2. ScheduleOK(srv, ppl')
    BY <2>1, ScheduleOpens DEF ScheduleOK
  <2> QED
    BY <1>11, <2>1, <2>2
<1> HIDE DEF Kept
<1> QED
  BY <1>1, <1>2, <1>3, <1>4, <1>5, <1>6, <1>7, <1>8, <1>9, <1>10, <1>11 DEF ScheduleNext

\* The form closes by itself only when all of it is saved.
LEMMA FormCloses ==
    ASSUME pane = "form", UserFormOK(ppl), UserFormNext, ppl.open, ~ppl'.open
    PROVE  CloseForm \/ ppl'.state = ppl'.baseline
<1> SUFFICES ASSUME ~CloseForm PROVE ppl'.state = ppl'.baseline
  OBVIOUS
<1>1. CASE PatchAnswered
  <2> DEFINE c == InitialEditState(ppl.answer[1])
             n == RebaseUserForm(ppl.sent[1], ppl.state, c)
             l == {k \in ppl.touched :
                      CASE k = "quota" -> QuotaOf(ppl.state) # QuotaOf(ppl.sent[1])
                        [] OTHER -> ppl.state[k] # ppl.sent[1][k]}
             u == ppl.answer[1]
             o == n # c
  <2>1. ppl' = [ppl EXCEPT !.baseUser = u, !.baseline = c, !.state = n, !.sent = << >>, !.body = << >>,
                           !.answer = << >>, !.open = o, !.touched = l]
    BY <1>1 DEF PatchAnswered
  <2>2. o \/ n = c
    OBVIOUS
  <2> HIDE DEF c, n, l, u, o
  <2>3. ppl'.state = n /\ ppl'.baseline = c /\ ppl'.open = o
    BY <2>1 DEF UserFormOK
  <2> QED
    BY <2>2, <2>3
<1>2. ASSUME NEW st, NEW k, ppl' = [ppl EXCEPT !.state = st, !.touched = k] PROVE FALSE
  BY <1>2 DEF UserFormOK
<1>3. ASSUME NEW st, NEW k, TypeField(st, k) PROVE FALSE
  <2> DEFINE l == ppl.touched \union {k}
  <2>1. ppl' = [ppl EXCEPT !.state = st, !.touched = l]
    BY <1>3 DEF TypeField
  <2> HIDE DEF l
  <2> QED
    BY <1>2, <2>1
<1>4. ASSUME NEW b \in BOOLEAN, ApplyPreset(b) PROVE FALSE
  <2> DEFINE l == ppl.touched \union {"limit", "quota"}
  <2>1. \E st : ppl' = [ppl EXCEPT !.state = st, !.touched = l]
    BY <1>4 DEF ApplyPreset
  <2> HIDE DEF l
  <2> QED
    BY <1>2, <2>1
<1>5. CASE HandleSubmit
  <2> DEFINE m == <<ppl.state>>
             d == BuildUserPatch(ppl.state, ppl.baseUser)
  <2>1. ppl' = [ppl EXCEPT !.sent = m, !.body = d]
    BY <1>5 DEF HandleSubmit
  <2> HIDE DEF m, d
  <2> QED
    BY <2>1 DEF UserFormOK
<1>6. CASE PatchLands \/ UserPatchFails
  <2> DEFINE a == <<srv'>>
  <2>1. \/ ppl' = [ppl EXCEPT !.answer = a]
        \/ ppl' = [ppl EXCEPT !.sent = << >>, !.body = << >>, !.answer = << >>]
    BY <1>6 DEF PatchLands, UserPatchFails
  <2> HIDE DEF a
  <2> QED
    BY <2>1 DEF UserFormOK
<1>7. CASE OpenForm \/ \E n \in Limits, q \in QuotaBytes :
                          OtherPatches([enabled |-> FALSE, limit |-> n, quota |-> q])
  BY <1>7 DEF OpenForm, OtherPatches
<1> QED
  BY <1>1, <1>3, <1>4, <1>5, <1>6, <1>7
  DEF UserFormNext, ToggleEnabled, TypeLimit, ClearLimit, TypeAmount, ClearAmount, SelectUnit

\* The user leaves: every editor is closed or opened anew.
LEMMA LeavingSteps ==
    ASSUME PersonInv, UserLeaves
    PROVE  PersonInv' /\ (pane = "form" => ppl'.state = ppl.state)
<1>0. pane' = pane /\ srv' = srv /\ pane \in PersonPanes
  BY DEF UserLeaves, PplSpent, PersonInv
<1>1. CASE pane = "form"
  <2>1. ppl' = [ppl EXCEPT !.open = FALSE, !.sent = << >>, !.body = << >>, !.answer = << >>]
    BY <1>1 DEF UserLeaves
  <2>2. UserFormOK(ppl)
    BY <1>1 DEF PersonInv
  <2>3. /\ ppl'.state = ppl.state /\ ppl'.baseline = ppl.baseline /\ ppl'.baseUser = ppl.baseUser
        /\ ppl'.touched = ppl.touched /\ ppl'.sent = << >> /\ ppl'.body = << >> /\ ppl'.answer = << >>
        /\ ppl' = [open |-> ppl'.open, state |-> ppl'.state, baseline |-> ppl'.baseline,
                    baseUser |-> ppl'.baseUser, sent |-> ppl'.sent, body |-> ppl'.body,
                    answer |-> ppl'.answer, touched |-> ppl'.touched]
    BY <2>1, <2>2 DEF UserFormOK
  <2>4. UserFormOK(ppl')
    BY <2>2, <2>3 DEF UserFormOK
  <2> QED
    BY <1>0, <1>1, <2>3, <2>4 DEF PersonInv, PersonPanes
<1>2. CASE pane = "sheet"
  BY <1>0, <1>2 DEF PersonInv, PersonPanes
<1>3. CASE pane = "web"
  <2>1. ppl' = WebOpened(srv) /\ WebAccountOK(srv, ppl)
    BY <1>3 DEF UserLeaves, PersonInv
  <2>2. WebAccountOK(srv, ppl')
    BY <2>1, WebOpens DEF WebAccountOK
  <2> QED
    BY <1>0, <1>3, <2>2 DEF PersonInv, PersonPanes
<1>4. CASE pane = "schedule"
  <2>1. ppl' = ScheduleOpened(srv) /\ ScheduleOK(srv, ppl)
    BY <1>4 DEF UserLeaves, PersonInv
  <2>2. ScheduleOK(srv, ppl')
    BY <2>1, ScheduleOpens DEF ScheduleOK
  <2> QED
    BY <1>0, <1>4, <2>2 DEF PersonInv, PersonPanes
<1> QED
  BY <1>0, <1>1, <1>2, <1>3, <1>4 DEF PersonPanes

\* Every step on the person keeps the invariant and what the admin has typed.
LEMMA PersonSteps == PersonInv /\ PersonNext => PersonInv' /\ LateEditsKept /\ AskedIsConfirmed
<1> SUFFICES ASSUME PersonInv, PersonNext PROVE PersonInv' /\ LateEditsKept
  BY SheetSteps
<1>1. CASE UserFormNext
  <2>1. pane = "form"
    BY <1>1 DEF UserFormNext, OtherPatches, TypeLimit, TypeAmount, SelectUnit, ToggleEnabled, ClearLimit,
         ClearAmount, TypeField, ApplyPreset, HandleSubmit, PatchLands, PatchAnswered,
         UserPatchFails, CloseForm, OpenForm
  <2> QED
    BY <1>1, <2>1, UserFormSteps, FormCloses DEF PersonInv, LateEditsKept, PersonPanes
<1>2. CASE SheetNext
  <2>1. pane = "sheet"
    BY <1>2 DEF SheetNext, UserFrame, Ask, CancelAsk, Confirm, ConfirmLands, ConfirmAnswered, ConfirmFails
  <2> QED
    BY <1>2, <2>1, SheetSteps DEF PersonInv, LateEditsKept, PersonPanes
<1>3. CASE WebAccountNext
  <2>1. pane = "web"
    BY <1>3 DEF WebAccountNext, OtherSavesProfiles, EditProfiles, ProfilesArrive, SaveProfiles,
         ProfilesLand, ProfilesSaved, ProfilesRead, ProfilesRefused, ProfilesLost, DiscardProfiles
  <2> QED
    BY <1>3, <2>1, WebAccountSteps DEF PersonInv, LateEditsKept, PersonPanes
<1>4. CASE ScheduleNext
  <2>1. pane = "schedule"
    BY <1>4 DEF ScheduleNext, OtherSavesRule, EditRule, PickMode, Debounced, Previewed,
         RulePreviewFails, SaveRule, RuleLands, RuleSaved, RuleRefused, RuleLost, ReloadRule,
         RuleReloaded, RuleReloadFails, SchedulePollFails
  <2> QED
    BY <1>4, <2>1, ScheduleSteps DEF PersonInv, LateEditsKept, PersonPanes
<1>5. CASE UserLeaves
  <2>1. PersonInv' /\ (pane = "form" => ppl'.state = ppl.state)
    BY <1>5, LeavingSteps
  <2> QED
    BY <1>5, <2>1 DEF LateEditsKept
<1> QED
  BY <1>1, <1>2, <1>3, <1>4, <1>5 DEF PersonNext

\* What is sent is what the admin touched, and a rule that was previewed.
LEMMA PersonRequests == PersonInv => PatchIsTheAdmins /\ SentRuleWasPreviewed
  BY DEF PersonInv, PatchIsTheAdmins, SentRuleWasPreviewed, UserFormOK, ScheduleOK


(***************************************************************************)
(* The updates page: everything the page holds is a report that the worker  *)
(* made, of its present run or an earlier one, and the worker has only gone *)
(* on since.                                                                *)
(***************************************************************************)
Phases == {"installing", "restarting", "health", "done", "rolling_back",
           "rolled_back", "failed"}
UpdReports == [run : Nat, phase : Phases \cup {"none"}, to : Nat]
UpdFrames == [mine : BOOLEAN, notice : BOOLEAN, report : UpdReports]
UpdStatuses == [active : UpdReports, head : UpdReports, lock : BOOLEAN, current : Nat,
                others : BOOLEAN]
UpdProbes == [health : Nat, data : UpdStatuses]
Watches == [run : Nat, to : Nat, ticks : Nat, health : Nat, journal : UpdReports]
Picks == [to : Nat, from : Nat]
UpdPages ==
    [target : {"panel", "telemt"}, conn : {"down", "open"}, event : UpdFrames,
     data : UpdStatuses, get : Seq(UpdStatuses), panelRun : Nat, watch : Watches,
     probing : Seq(UpdProbes), picked : Picks, confirming : Picks, apply : Nat,
     orphans : SUBSET Nat, error : BOOLEAN, reloads : Nat, broken : BOOLEAN]
Workers ==
    [run : Nat, phase : Phases \cup {"idle"}, to : Nat, from : Nat, process : Nat,
     up : BOOLEAN, served : Nat, head : UpdReports, lock : BOOLEAN,
     other : BOOLEAN, hub : UpdFrames]

\* The process is the one the run found, unless the run's version has been
\* served; the process is down only in the middle of a restart; a run is
\* under way only under the lock, and not beside one of the other target; and
\* a report in the topic's slot is the last of this target's.
WorkerInv(w) ==
    /\ w \in Workers
    /\ w.run = 0 => w.phase = "idle" /\ w.head = NoRun
    /\ w.run # 0 => /\ w.phase \in Phases /\ w.to # 0
                    /\ w.head = [run |-> w.run, phase |-> w.phase, to |-> w.to]
                    /\ w.served < w.run => w.from # w.to
    /\ w.served <= w.run
    /\ w.up => w.process = w.from \/ w.served = w.run
    /\ ~w.up => w.phase \in {"restarting", "rolling_back"}
    /\ w.other => w.lock
    /\ ~w.lock \/ w.other => w.phase \in {"idle", "done", "rolled_back", "failed"}
    /\ OwnReport(w.hub) = NoRun \/ OwnReport(w.hub) = w.head
    /\ w.hub.mine /\ ~w.hub.notice => OwnReport(w.hub) = w.head

\* A run that has not been served left a process other than its version.
RunOf(run, to, w) ==
    /\ run <= w.run /\ to # 0
    /\ run = w.run => to = w.to
    /\ w.served < run => w.from # to

\* A report is of a run, is not ahead of the worker, and a final one is final.
Reported(r, w) ==
    /\ r \in UpdReports
    /\ r.run = 0 => r = NoRun
    /\ r.run # 0 => /\ RunOf(r.run, r.to, w) /\ r.phase \in Phases
                    /\ r.run = w.run => Rank(r.phase) <= Rank(w.phase)
                    /\ r.run = w.run /\ r.phase \in Terminal => w.phase = r.phase
ListedBy(d, w) ==
    d \in UpdStatuses /\ Reported(d.head, w) /\ (d.active = NoRun \/ d.active = d.head)

\* What the watch holds was asked for since the watch began.
PageInv(u, w) ==
    /\ u \in UpdPages
    /\ Reported(OwnReport(u.event), w) /\ ListedBy(u.data, w)
    /\ u.get # << >> => ListedBy(u.get[1], w)
    /\ u.probing # << >> => ListedBy(u.probing[1].data, w)
    /\ Reported(u.watch.journal, w)
    /\ u.watch.run # 0 =>
         /\ RunOf(u.watch.run, u.watch.to, w)
         /\ u.watch.health = u.watch.to => u.watch.run <= w.served
         /\ u.probing # << >> /\ u.probing[1].health = u.watch.to =>
              u.watch.run <= w.served

\* The inductive invariant of the updates page.
UpdInv == WorkerInv(worker) /\ PageInv(upd, worker)

\* The order of the phases that the page goes by.
LEMMA Ranks ==
    /\ UpdatePhaseStep("installing").stepIndex = 1
    /\ UpdatePhaseStep("restarting").stepIndex = 2
    /\ UpdatePhaseStep("health").stepIndex = 3
    /\ UpdatePhaseStep("done").stepIndex = 4
    /\ Rank("none") = 0 /\ Rank("installing") = 1 /\ Rank("restarting") = 2
    /\ Rank("health") = 3 /\ Rank("rolling_back") = 6 /\ Rank("done") = 7
    /\ Rank("rolled_back") = 7 /\ Rank("failed") = 7
<1> DEFINE At(p) == CHOOSE i \in DOMAIN HappyPath : HappyPath[i] = p
<1>1. /\ DOMAIN HappyPath = 1..4
      /\ HappyPath[1] = "installing" /\ HappyPath[2] = "restarting"
      /\ HappyPath[3] = "health" /\ HappyPath[4] = "done"
  BY DEF HappyPath
<1>2. \A i \in DOMAIN HappyPath :
        /\ HappyPath[i] = "installing" <=> i = 1
        /\ HappyPath[i] = "restarting" <=> i = 2
        /\ HappyPath[i] = "health" <=> i = 3
        /\ HappyPath[i] = "done" <=> i = 4
  BY <1>1
<1>3. At("installing") = 1
  BY <1>1, <1>2
<1>4. At("restarting") = 2
  BY <1>1, <1>2
<1>5. At("health") = 3
  BY <1>1, <1>2
<1>6. At("done") = 4
  BY <1>1, <1>2
<1>7. /\ UpdatePhaseStep("installing").stepIndex = At("installing")
      /\ UpdatePhaseStep("restarting").stepIndex = At("restarting")
      /\ UpdatePhaseStep("health").stepIndex = At("health")
      /\ UpdatePhaseStep("done").stepIndex = At("done")
  BY DEF UpdatePhaseStep
<1> HIDE DEF At
<1> QED
  BY <1>3, <1>4, <1>5, <1>6, <1>7 DEF Rank, Terminal

\* Of two reports one is taken, the one that is further on.
LEMMA LaterIsOne ==
    ASSUME NEW latest \in UpdReports, NEW candidate \in UpdReports
    PROVE  LaterReport(latest, candidate) \in {latest, candidate}
BY DEF LaterReport

\* The run on screen is one of the reports at hand.
LEMMA ShownIsReported ==
    ASSUME NEW u \in UpdPages
    PROVE  RunShown(u) \in {NoRun, OwnReport(u.event), u.data.active, u.data.head}
<1> DEFINE o == OwnReport(u.event)
<1>1. /\ NoRun \in UpdReports /\ o \in UpdReports
      /\ u.data.active \in UpdReports /\ u.data.head \in UpdReports
  <2>1. NoRun \in UpdReports
    BY DEF NoRun, UpdReports, Phases
  <2>2. /\ u.event.report \in UpdReports
        /\ u.data.active \in UpdReports /\ u.data.head \in UpdReports
    BY DEF UpdPages, UpdStatuses, UpdFrames
  <2> QED
    BY <2>1, <2>2 DEF OwnReport
<1> HIDE DEF o
<1> DEFINE a == LaterReport(NoRun, o)
           b == LaterReport(a, u.data.active)
<1>2. a \in {NoRun, o} /\ a \in UpdReports
  BY <1>1, LaterIsOne
<1> HIDE DEF a
<1>3. b \in {a, u.data.active} /\ b \in UpdReports
  BY <1>1, <1>2, LaterIsOne
<1> HIDE DEF b
<1>4. LaterReport(b, u.data.head) \in {b, u.data.head}
  BY <1>1, <1>3, LaterIsOne
<1>5. RunShown(u) = NoRun \/ RunShown(u) = LaterReport(b, u.data.head)
  BY DEF RunShown, SelectUpdateRun, a, b, o
<1> QED
  BY <1>2, <1>3, <1>4, <1>5 DEF o

\* NoRun is a report of no run.
LEMMA NoRunReported == ASSUME NEW w PROVE Reported(NoRun, w)
BY DEF NoRun, Reported, UpdReports, Phases

\* A render keeps what is known, and a watch that starts over knows nothing.
LEMMA RenderKeeps ==
    ASSUME NEW w, WorkerInv(w), NEW u, PageInv(u, w), NEW y, y = Rendered(u)
    PROVE  /\ PageInv(y, w)
           /\ y.event = u.event /\ y.data = u.data /\ y.reloads = u.reloads
<1>0. CASE u.broken
  BY <1>0 DEF Rendered
<1> DEFINE r == RunShown(u)
           v == IF u.target = "panel" /\ RunIsActive(u)
                THEN [u EXCEPT !.panelRun = r.run] ELSE u
           k == WatchKey(v)
           f == WatchFor(k)
           e == << >>
<1>1. u \in UpdPages
  BY DEF PageInv
<1>2. Reported(r, w)
  BY <1>1, ShownIsReported, NoRunReported DEF PageInv, ListedBy
<1>3. r.run \in Nat /\ r.to \in Nat
  BY <1>2 DEF Reported, UpdReports
<1>4. /\ v \in UpdPages /\ v.event = u.event /\ v.data = u.data /\ v.get = u.get
      /\ v.watch = u.watch /\ v.probing = u.probing /\ v.reloads = u.reloads
  <2> HIDE DEF r
  <2> QED
    BY <1>1, <1>3 DEF UpdPages
<1>5. PageInv(v, w)
  <2> HIDE DEF v
  <2> QED
    BY <1>4 DEF PageInv
<1>6. RunShown(v) = r
  <2> HIDE DEF v
  <2> QED
    BY <1>4 DEF RunShown
<1>7. ~u.broken => y = IF KeyHolds(v, k) THEN v ELSE [v EXCEPT !.watch = f, !.probing = e]
  BY DEF Rendered, Settled, Rewatched
<1>8. k.run = 0 \/ (k.run = r.run /\ k.to = r.to)
  <2> HIDE DEF v, r
  <2> QED
    BY <1>6 DEF WatchKey
<1> HIDE DEF v, r
<1>9. /\ f \in Watches /\ f.journal = NoRun /\ f.health = 0
      /\ f.run # 0 => f.run = r.run /\ f.to = r.to
  <2>1. NoWatch \in Watches
    BY NoRunReported DEF NoWatch, Watches, NoRun, UpdReports, Phases
  <2>2. CASE k.run = 0
    BY <2>1, <2>2 DEF WatchFor, NoWatch
  <2>3. CASE k.run # 0
    <3> HIDE DEF k
    <3>1. f = [NoWatch EXCEPT !.run = k.run, !.to = k.to]
      BY <2>3 DEF WatchFor, NewWatch
    <3> HIDE DEF f
    <3>2. k.run = r.run /\ k.to = r.to
      BY <2>3, <1>8
    <3> QED
      BY <3>1, <3>2, <2>1, <1>3 DEF NoWatch, Watches
  <2> QED
    BY <2>2, <2>3
<1>10. CASE ~u.broken /\ KeyHolds(v, k)
  BY <1>4, <1>5, <1>7, <1>10
<1>11. CASE ~u.broken /\ ~KeyHolds(v, k)
  <2>1. y = [v EXCEPT !.watch = f, !.probing = e]
    BY <1>7, <1>11
  <2>2. e \in Seq(UpdProbes)
    OBVIOUS
  <2> HIDE DEF k, f, e
  <2>3. /\ y \in UpdPages /\ y.event = v.event /\ y.data = v.data /\ y.get = v.get
        /\ y.watch = f /\ y.probing = e /\ y.reloads = v.reloads
    BY <2>1, <2>2, <1>4, <1>9 DEF UpdPages
  <2>4. e = << >>
    BY DEF e
  <2>5. f.run # 0 => RunOf(f.run, f.to, w) /\ f.to # 0
    BY <1>2, <1>9 DEF Reported, RunOf
  <2>6. f.run # 0 => f.health # f.to
    BY <2>5, <1>9
  <2>7. Reported(f.journal, w)
    BY <1>9, NoRunReported
  <2>8. PageInv(y, w)
    BY <2>3, <2>4, <2>5, <2>6, <2>7, <1>5 DEF PageInv
  <2> QED
    BY <2>3, <2>8, <1>4
<1> QED
  BY <1>0, <1>10, <1>11

\* The worker goes on with its run, or begins the next one.
GoesOn(w, x) ==
    \/ /\ x.run = w.run /\ x.to = w.to /\ x.from = w.from /\ w.served <= x.served
       /\ w.run # 0 => Rank(w.phase) <= Rank(x.phase)
       /\ w.phase \in Terminal => x.phase = w.phase
    \/ /\ x.run = w.run + 1 /\ w.up /\ x.from = w.process /\ w.served <= x.served

\* What was reported stays true of the worker.
LEMMA ReportsLast ==
    ASSUME NEW w, NEW x, WorkerInv(w), WorkerInv(x), GoesOn(w, x)
    PROVE  /\ \A run, to \in Nat : run # 0 /\ RunOf(run, to, w) => RunOf(run, to, x)
           /\ \A r : Reported(r, w) => Reported(r, x)
           /\ w.served <= x.served /\ w.served \in Nat /\ x.served \in Nat
<1>1. /\ w.run \in Nat /\ x.run \in Nat /\ w.served \in Nat /\ x.served \in Nat
      /\ w.process = w.from \/ w.served = w.run \/ ~w.up
  BY DEF WorkerInv, Workers
<1>2. w.served <= x.served
  BY DEF GoesOn
<1>3. ASSUME NEW run \in Nat, NEW to \in Nat, run # 0, RunOf(run, to, w)
      PROVE  RunOf(run, to, x)
  BY <1>1, <1>3 DEF GoesOn, RunOf
<1>4. ASSUME NEW r, Reported(r, w) PROVE Reported(r, x)
  <2>1. r \in UpdReports /\ (r.run = 0 => r = NoRun)
    BY <1>4 DEF Reported
  <2>2. CASE r.run # 0
    <3>1. r.run \in Nat /\ r.to \in Nat /\ r.run <= w.run /\ RunOf(r.run, r.to, x)
      BY <1>3, <1>4, <2>1, <2>2 DEF Reported, UpdReports, RunOf
    <3>2. r.phase \in Phases
      BY <1>4, <2>2 DEF Reported
    <3>3. CASE r.run = x.run
      <4>1. w.run = x.run /\ w.run # 0
        BY <1>1, <3>1, <3>3, <2>2 DEF GoesOn
      <4>2. w.phase \in Phases /\ x.phase \in Phases
        BY <4>1 DEF WorkerInv
      <4>3. /\ Rank(w.phase) <= Rank(x.phase)
            /\ w.phase \in Terminal => x.phase = w.phase
        BY <1>1, <4>1 DEF GoesOn
      <4>4. /\ Rank(r.phase) <= Rank(w.phase)
            /\ r.phase \in Terminal => w.phase = r.phase
        BY <1>4, <2>2, <3>3, <4>1 DEF Reported
      <4>5. Rank(r.phase) <= Rank(x.phase)
        BY <4>2, <4>3, <4>4, <3>2, Ranks DEF Phases
      <4> QED
        BY <2>1, <3>1, <3>2, <4>3, <4>4, <4>5 DEF Reported
    <3> QED
      BY <2>1, <3>1, <3>2, <3>3 DEF Reported
  <2> QED
    BY <2>1, <2>2 DEF Reported
<1> QED
  BY <1>1, <1>2, <1>3, <1>4

\* So does what the page knows.
LEMMA PageLasts ==
    ASSUME NEW w, NEW x, WorkerInv(w), WorkerInv(x), GoesOn(w, x),
           NEW u, PageInv(u, w)
    PROVE  PageInv(u, x)
<1>1. u \in UpdPages /\ u.watch.run \in Nat /\ u.watch.to \in Nat
  BY DEF PageInv, UpdPages, Watches
<1>2. \A d : ListedBy(d, w) => ListedBy(d, x)
  BY ReportsLast DEF ListedBy
<1>3. Reported(OwnReport(u.event), x) /\ Reported(u.watch.journal, x)
  BY ReportsLast DEF PageInv
<1>4. /\ ListedBy(u.data, x)
      /\ u.get # << >> => ListedBy(u.get[1], x)
      /\ u.probing # << >> => ListedBy(u.probing[1].data, x)
  BY <1>2 DEF PageInv
<1>5. ASSUME u.watch.run # 0
      PROVE  /\ RunOf(u.watch.run, u.watch.to, x)
             /\ u.watch.health = u.watch.to => u.watch.run <= x.served
             /\ u.probing # << >> /\ u.probing[1].health = u.watch.to =>
                  u.watch.run <= x.served
  BY <1>1, <1>5, ReportsLast DEF PageInv
<1> QED
  BY <1>1, <1>3, <1>4, <1>5 DEF PageInv

\* GET /updates tells what the worker has reported.
LEMMA StatusListed ==
    ASSUME NEW w, WorkerInv(w)
    PROVE  /\ ListedBy(StatusOf(w), w) /\ StatusOf(w).head = w.head
           /\ StatusOf(w).current = w.process
           /\ Reported(w.head, w)
<1>1. w \in Workers
  BY DEF WorkerInv
<1>2. Reported(w.head, w)
  <2>1. CASE w.run = 0
    BY <2>1, NoRunReported DEF WorkerInv
  <2>2. CASE w.run # 0
    <3>1. /\ w.head = [run |-> w.run, phase |-> w.phase, to |-> w.to]
          /\ w.phase \in Phases /\ w.to # 0 /\ (w.served < w.run => w.from # w.to)
      BY <2>2 DEF WorkerInv
    <3>2. /\ w.head.run = w.run /\ w.head.phase = w.phase /\ w.head.to = w.to
          /\ w.head \in UpdReports
      BY <3>1, <1>1 DEF Workers, UpdReports
    <3>3. Rank(w.phase) <= Rank(w.phase) /\ w.run <= w.run
      BY <3>1, <1>1, Ranks DEF Phases, Workers
    <3> QED
      BY <2>2, <3>1, <3>2, <3>3 DEF Reported, RunOf
  <2> QED
    BY <2>1, <2>2
<1>3. w.run # 0 => w.head = [run |-> w.run, phase |-> w.phase, to |-> w.to]
  BY DEF WorkerInv
<1>4. /\ StatusOf(w).head = w.head /\ StatusOf(w).current = w.process
      /\ StatusOf(w).lock = w.lock
      /\ StatusOf(w).active = NoRun \/ StatusOf(w).active = w.head
  BY <1>3 DEF StatusOf
<1>5. StatusOf(w) \in UpdStatuses
  <2>1. NoRun \in UpdReports
    BY DEF NoRun, UpdReports, Phases
  <2>2. /\ w.head \in UpdReports /\ w.lock \in BOOLEAN /\ w.process \in Nat
        /\ w.other \in BOOLEAN
    BY <1>1 DEF Workers
  <2>3. StatusOf(w) = [active |-> StatusOf(w).active, head |-> w.head,
                       lock |-> w.lock, current |-> w.process, others |-> w.other]
    BY DEF StatusOf
  <2> QED
    BY <2>1, <2>2, <2>3, <1>4 DEF UpdStatuses
<1> QED
  BY <1>2, <1>3, <1>4, <1>5 DEF ListedBy

\* A run starts on a free lock, which only a finished run leaves.
LEMMA StartGoesOn ==
    ASSUME NEW w, WorkerInv(w), ~w.lock, NEW to \in Nat, to # 0,
           NEW x, x = RunStarts(w, to)
    PROVE  WorkerInv(x) /\ GoesOn(w, x)
<1> DEFINE s == IF to = w.process THEN w.run + 1 ELSE w.served
           h == [run |-> w.run + 1, phase |-> "installing", to |-> to]
           g == UpdateFrame(TRUE, FALSE, h)
<1>1. w \in Workers /\ w.up
  BY DEF WorkerInv, Workers
<1>2. s \in Nat /\ h \in UpdReports /\ w.run + 1 \in Nat
  BY <1>1 DEF Workers, UpdReports, Phases
<1>a. g \in UpdFrames /\ OwnReport(g) = h
  <2> HIDE DEF h
  <2> QED
    BY <1>2 DEF UpdateFrame, UpdFrames, OwnReport
<1>b. ~w.other
  BY DEF WorkerInv, Workers
<1>3. w.served <= s
  <2>1. w.served \in Nat /\ w.run \in Nat
    BY <1>1 DEF Workers
  <2>2. w.served <= w.run
    BY DEF WorkerInv
  <2> QED
    BY <2>1, <2>2
<1>4. x = [w EXCEPT !.run = w.run + 1, !.phase = "installing", !.to = to, !.lock = TRUE,
                    !.from = w.process, !.served = s, !.head = h, !.hub = g]
  BY DEF RunStarts
<1>5. (s < w.run + 1 => to # w.process) /\ s <= w.run + 1
  <2>1. w.served \in Nat /\ w.run \in Nat /\ w.served <= w.run
    BY <1>1 DEF Workers, WorkerInv
  <2> QED
    BY <2>1
<1> HIDE DEF s, h, g
<1>6. /\ x \in Workers /\ x.run = w.run + 1 /\ x.phase = "installing" /\ x.to = to
      /\ x.lock /\ x.from = w.process /\ x.process = w.process /\ x.served = s
      /\ x.head = h /\ x.up /\ x.hub = g /\ ~x.other
  BY <1>1, <1>2, <1>a, <1>b, <1>4, ZenonT(60) DEF Workers, Phases
<1>7. GoesOn(w, x)
  BY <1>1, <1>3, <1>6 DEF GoesOn
<1>8. x.run # 0 /\ "installing" \in Phases
  BY <1>1, <1>6 DEF Workers, Phases
<1>9. h = [run |-> x.run, phase |-> x.phase, to |-> x.to]
  BY <1>6 DEF h
<1> QED
  BY <1>a, <1>5, <1>6, <1>7, <1>8, <1>9 DEF WorkerInv

\* The worker writes its next phase into its journal.
LEMMA PhaseGoesOn ==
    ASSUME WorkerInv(worker), worker.run # 0, worker.phase \notin Terminal,
           worker.up, NEW phase \in Phases, Rank(worker.phase) <= Rank(phase)
    PROVE  WorkerInv(PhaseIs(phase)) /\ GoesOn(worker, PhaseIs(phase))
<1> DEFINE x == PhaseIs(phase)
           h == [run |-> worker.run, phase |-> phase, to |-> worker.to]
           l == phase \notin Terminal
           g == UpdateFrame(TRUE, FALSE, h)
<1>1. worker \in Workers /\ h \in UpdReports /\ l \in BOOLEAN
  BY DEF WorkerInv, Workers, UpdReports
<1>a. g \in UpdFrames /\ OwnReport(g) = h
  <2> HIDE DEF h
  <2> QED
    BY <1>1 DEF UpdateFrame, UpdFrames, OwnReport
<1>b. ~worker.other
  BY DEF WorkerInv, Phases, Terminal
<1>2. x = [worker EXCEPT !.phase = phase, !.lock = l, !.head = h, !.hub = g]
  BY DEF PhaseIs
<1>3. ~l => phase \in {"done", "rolled_back", "failed"}
  BY DEF Terminal
<1> HIDE DEF x, h, l, g
<1>4. /\ x \in Workers /\ x.run = worker.run /\ x.phase = phase /\ x.to = worker.to
      /\ x.from = worker.from /\ x.process = worker.process /\ x.up = worker.up
      /\ x.served = worker.served /\ x.head = h /\ x.lock = l /\ x.hub = g /\ ~x.other
  BY <1>1, <1>2, <1>a, <1>b DEF Workers
<1>5. h = [run |-> x.run, phase |-> x.phase, to |-> x.to]
  BY <1>4 DEF h
<1>6. WorkerInv(x)
  BY <1>a, <1>3, <1>4, <1>5 DEF WorkerInv
<1>7. worker.served \in Nat
  BY <1>1 DEF Workers
<1>8. GoesOn(worker, x)
  BY <1>4, <1>7 DEF GoesOn
<1> QED
  BY <1>6, <1>8 DEF x

\* Whatever happens, the worker goes on.
LEMMA WorkerSteps ==
    ASSUME UpdInv, UpdNext
    PROVE  WorkerInv(worker') /\ GoesOn(worker, worker')
<1>1. /\ WorkerInv(worker) /\ worker \in Workers
      /\ upd \in UpdPages /\ upd.apply \in Nat
  BY DEF UpdInv, WorkerInv, PageInv, UpdPages
<1>2. MaxVersion \in Nat
  BY UpdatesPageAssumption
<1>3. ASSUME worker' = worker PROVE WorkerInv(worker') /\ GoesOn(worker, worker')
  <2>1. worker.run # 0 => worker.phase \in Phases
    BY <1>1 DEF WorkerInv
  <2>2. worker.run # 0 => Rank(worker.phase) <= Rank(worker.phase)
    BY <2>1, Ranks DEF Phases
  <2>3. worker.served \in Nat
    BY <1>1 DEF Workers
  <2> QED
    BY <1>1, <1>3, <2>2, <2>3 DEF GoesOn
<1>4. ASSUME NEW to \in 1..MaxVersion, StartsElsewhere(to)
      PROVE  WorkerInv(worker') /\ GoesOn(worker, worker')
  BY <1>1, <1>2, <1>4, StartGoesOn DEF StartsElsewhere
<1>5. ASSUME ApplyAnswered PROVE WorkerInv(worker') /\ GoesOn(worker, worker')
  BY <1>1, <1>3, <1>5, StartGoesOn DEF ApplyAnswered
<1>5a. ASSUME NEW to \in 1..MaxVersion, LateApplyAnswered(to)
       PROVE  WorkerInv(worker') /\ GoesOn(worker, worker')
  BY <1>2, <1>1, <1>3, <1>5a, StartGoesOn DEF LateApplyAnswered
<1>6. ASSUME ServiceCommand PROVE WorkerInv(worker') /\ GoesOn(worker, worker')
  <2> DEFINE l == ~worker.lock
  <2>1. worker' = [worker EXCEPT !.lock = l] /\ l \in BOOLEAN
    BY <1>6 DEF ServiceCommand
  <2>2. worker.run = 0 \/ worker.phase \in Terminal
    BY <1>6 DEF ServiceCommand
  <2> HIDE DEF l
  <2>3. /\ worker' \in Workers /\ worker'.run = worker.run /\ worker'.phase = worker.phase
        /\ worker'.to = worker.to /\ worker'.from = worker.from
        /\ worker'.process = worker.process /\ worker'.up = worker.up
        /\ worker'.served = worker.served /\ worker'.head = worker.head
        /\ worker'.hub = worker.hub /\ ~worker'.other
    BY <1>1, <1>6, <2>1 DEF Workers, ServiceCommand
  <2>4. worker.phase \in {"idle", "done", "rolled_back", "failed"}
    BY <1>1, <2>2 DEF WorkerInv, Terminal
  <2>5. WorkerInv(worker')
    BY <1>1, <2>3, <2>4 DEF WorkerInv
  <2>6. worker.run # 0 => Rank(worker.phase) <= Rank(worker.phase)
    BY <1>1, Ranks DEF WorkerInv, Phases
  <2>7. worker.served \in Nat
    BY <1>1 DEF Workers
  <2> QED
    BY <2>3, <2>5, <2>6, <2>7 DEF GoesOn
\* A run of the other target, and a notice, change only the slot and the lock.
<1>6a. ASSUME OtherTargetRuns \/ \E mine \in BOOLEAN : CheckAndPublish(mine)
       PROVE  WorkerInv(worker') /\ GoesOn(worker, worker')
  <2>1. PICK l \in BOOLEAN, o \in BOOLEAN, g \in UpdFrames :
          /\ worker' = [worker EXCEPT !.lock = l, !.other = o, !.hub = g]
          /\ OwnReport(g) = NoRun /\ ~(g.mine /\ ~g.notice) /\ (o => l)
          /\ ~l \/ o => ~worker.lock \/ worker.other
    <3>1. CASE OtherTargetRuns
      <4> DEFINE q == [NoRun EXCEPT !.phase = IF worker.other THEN "done" ELSE "installing"]
                 g == UpdateFrame(FALSE, FALSE, q)
      <4>1. q \in UpdReports
        BY DEF NoRun, UpdReports, Phases
      <4>2. /\ worker' = [worker EXCEPT !.lock = ~worker.lock, !.other = ~worker.other,
                                         !.hub = g]
            /\ worker.lock = worker.other
        BY <3>1 DEF OtherTargetRuns
      <4> HIDE DEF q
      <4>3. g \in UpdFrames /\ OwnReport(g) = NoRun /\ ~(g.mine /\ ~g.notice)
        BY <4>1 DEF UpdateFrame, UpdFrames, OwnReport
      <4> HIDE DEF g
      <4>4. worker.lock \in BOOLEAN /\ worker.other \in BOOLEAN
        BY <1>1 DEF Workers
      <4> DEFINE l == ~worker.lock
                 o == ~worker.other
      <4>5. /\ l \in BOOLEAN /\ o \in BOOLEAN /\ (o => l)
            /\ ~l \/ o => ~worker.lock \/ worker.other
        BY <4>2, <4>4
      <4>6. worker' = [worker EXCEPT !.lock = l, !.other = o, !.hub = g]
        BY <4>2
      <4> HIDE DEF l, o
      <4> QED
        BY <4>3, <4>5, <4>6
    <3>2. ASSUME NEW mine \in BOOLEAN, CheckAndPublish(mine)
          PROVE  \E l \in BOOLEAN, o \in BOOLEAN, g \in UpdFrames :
                   /\ worker' = [worker EXCEPT !.lock = l, !.other = o, !.hub = g]
                   /\ OwnReport(g) = NoRun /\ ~(g.mine /\ ~g.notice) /\ (o => l)
                   /\ ~l \/ o => ~worker.lock \/ worker.other
      <4> DEFINE g == UpdateFrame(mine, TRUE, NoRun)
      <4>1. g \in UpdFrames /\ OwnReport(g) = NoRun /\ ~(g.mine /\ ~g.notice)
        BY DEF UpdateFrame, UpdFrames, OwnReport, NoRun, UpdReports, Phases
      <4>2. worker' = [worker EXCEPT !.hub = g]
        BY <3>2 DEF CheckAndPublish
      <4> HIDE DEF g
      <4>3. /\ worker.lock \in BOOLEAN /\ worker.other \in BOOLEAN
            /\ worker.other => worker.lock
        BY <1>1 DEF Workers, WorkerInv
      <4>4. worker' = [worker EXCEPT !.lock = worker.lock, !.other = worker.other, !.hub = g]
        BY <4>2, <1>1 DEF Workers
      <4> QED
        BY <4>1, <4>3, <4>4
    <3> QED
      BY <1>6a, <3>1, <3>2
  <2>2. /\ worker' \in Workers /\ worker'.run = worker.run /\ worker'.phase = worker.phase
        /\ worker'.to = worker.to /\ worker'.from = worker.from
        /\ worker'.process = worker.process /\ worker'.up = worker.up
        /\ worker'.served = worker.served /\ worker'.head = worker.head
        /\ worker'.hub = g /\ worker'.other = o /\ worker'.lock = l
    BY <1>1, <2>1 DEF Workers
  <2>3. WorkerInv(worker')
    BY <1>1, <2>1, <2>2 DEF WorkerInv
  <2>4. worker.run # 0 => Rank(worker.phase) <= Rank(worker.phase)
    BY <1>1, Ranks DEF WorkerInv, Phases
  <2>5. worker.served \in Nat
    BY <1>1 DEF Workers
  <2> QED
    BY <2>2, <2>3, <2>4, <2>5 DEF GoesOn
<1>7. worker.phase \in Phases => worker.run # 0
  BY <1>1 DEF WorkerInv, Phases
<1>8. ~worker.up => worker.phase \in {"restarting", "rolling_back"}
  BY <1>1 DEF WorkerInv
<1>9. ASSUME WorkerAdvances PROVE WorkerInv(worker') /\ GoesOn(worker, worker')
  <2>1. worker.phase \in {"installing", "health"} /\ worker.up
    BY <1>8, <1>9 DEF WorkerAdvances
  <2>2. worker' = PhaseIs(HappyPath[UpdatePhaseStep(worker.phase).stepIndex + 1])
    BY <1>9 DEF WorkerAdvances
  <2>3. \/ worker.phase = "installing" /\ worker' = PhaseIs("restarting")
        \/ worker.phase = "health" /\ worker' = PhaseIs("done")
    BY <2>1, <2>2, Ranks DEF HappyPath
  <2> QED
    BY <1>1, <1>7, <2>1, <2>3, PhaseGoesOn, Ranks DEF Phases, Terminal
<1>10. ASSUME RunGoesWrong PROVE WorkerInv(worker') /\ GoesOn(worker, worker')
  <2>1. /\ worker.up
        /\ \/ worker.phase = "installing" /\ worker' = PhaseIs("failed")
           \/ worker.phase \in {"restarting", "health"} /\ worker' = PhaseIs("rolling_back")
    BY <1>10 DEF RunGoesWrong
  <2> QED
    BY <1>1, <1>7, <2>1, PhaseGoesOn, Ranks DEF Phases, Terminal
<1>11. ASSUME UnitRestarts PROVE WorkerInv(worker') /\ GoesOn(worker, worker')
  <2> DEFINE next == IF worker.phase = "restarting" THEN worker.to ELSE worker.from
             s == IF worker.phase = "restarting" THEN worker.run ELSE worker.served
             g == IF worker.up THEN worker.hub ELSE UpdateFrame(TRUE, FALSE, worker.head)
  <2>1. worker.phase \in {"restarting", "rolling_back"} /\ worker.lock
    BY <1>11 DEF UnitRestarts
  <2>2. \/ worker' = [worker EXCEPT !.up = FALSE, !.process = next]
        \/ worker' = [worker EXCEPT !.up = TRUE, !.process = next, !.hub = g, !.served = s]
        \/ /\ worker.up
           /\ \/ worker.phase = "restarting" /\ worker' = PhaseIs("health")
              \/ worker.phase = "rolling_back" /\ worker' = PhaseIs("rolled_back")
    BY <1>11, <2>1 DEF UnitRestarts
  <2>3. /\ worker.run # 0 /\ worker.phase \in Phases /\ worker.phase \notin Terminal
        /\ Rank(worker.phase) <= Rank(worker.phase)
    BY <1>7, <2>1, Ranks DEF Phases, Terminal
  <2>4. worker.served <= worker.run
    BY <1>1 DEF WorkerInv
  <2>5. /\ worker.served \in Nat /\ worker.run \in Nat /\ next \in Nat /\ s \in Nat
        /\ worker.served <= s
        /\ worker.phase = "restarting" => s = worker.run
        /\ worker.phase # "restarting" => next = worker.from /\ s = worker.served
    BY <1>1, <2>4 DEF Workers
  <2>6. /\ worker.to # 0 /\ (worker.served < worker.run => worker.from # worker.to)
        /\ worker.head = [run |-> worker.run, phase |-> worker.phase, to |-> worker.to]
    BY <1>1, <2>3 DEF WorkerInv
  <2>a. /\ g \in UpdFrames
        /\ OwnReport(g) = NoRun \/ OwnReport(g) = worker.head
        /\ g.mine /\ ~g.notice => OwnReport(g) = worker.head
    BY <1>1 DEF WorkerInv, Workers, UpdateFrame, UpdFrames, OwnReport
  <2>b. ~worker.other
    BY <1>1, <2>1 DEF WorkerInv
  <2> HIDE DEF next, s, g
  <2>7. CASE worker' = [worker EXCEPT !.up = FALSE, !.process = next]
    <3>1. /\ worker' \in Workers /\ worker'.run = worker.run /\ worker'.phase = worker.phase
          /\ worker'.to = worker.to /\ worker'.from = worker.from /\ ~worker'.up
          /\ worker'.process = next /\ worker'.lock = worker.lock
          /\ worker'.served = worker.served /\ worker'.head = worker.head
          /\ worker'.hub = worker.hub /\ ~worker'.other
      BY <1>1, <2>5, <2>7, <2>b DEF Workers
    <3>2. WorkerInv(worker')
      BY <1>1, <2>1, <2>3, <2>4, <2>6, <3>1 DEF WorkerInv
    <3> QED
      BY <2>3, <2>5, <3>1, <3>2 DEF GoesOn
  <2>8. CASE worker' = [worker EXCEPT !.up = TRUE, !.process = next, !.hub = g, !.served = s]
    <3>1. /\ worker' \in Workers /\ worker'.run = worker.run /\ worker'.phase = worker.phase
          /\ worker'.to = worker.to /\ worker'.from = worker.from /\ worker'.up
          /\ worker'.process = next /\ worker'.lock = worker.lock
          /\ worker'.served = s /\ worker'.head = worker.head
          /\ worker'.hub = g /\ ~worker'.other
      BY <1>1, <2>5, <2>8, <2>a, <2>b DEF Workers
    <3>2. WorkerInv(worker')
      BY <2>a, <2>1, <2>3, <2>4, <2>5, <2>6, <3>1 DEF WorkerInv
    <3> QED
      BY <2>3, <2>5, <3>1, <3>2 DEF GoesOn
  <2>9. CASE worker.up /\ worker.phase = "restarting" /\ worker' = PhaseIs("health")
    BY <1>1, <2>3, <2>9, PhaseGoesOn, Ranks DEF Phases
  <2>10. CASE worker.up /\ worker.phase = "rolling_back" /\ worker' = PhaseIs("rolled_back")
    BY <1>1, <2>3, <2>10, PhaseGoesOn, Ranks DEF Phases
  <2> QED
    BY <2>2, <2>7, <2>8, <2>9, <2>10
<1>12. \/ worker' = worker \/ \E to \in 1..MaxVersion : StartsElsewhere(to)
       \/ ApplyAnswered \/ \E to \in 1..MaxVersion : LateApplyAnswered(to)
       \/ ServiceCommand \/ WorkerAdvances \/ UnitRestarts \/ RunGoesWrong
       \/ OtherTargetRuns \/ \E mine \in BOOLEAN : CheckAndPublish(mine)
  BY DEF UpdNext, PickRelease, UpdStreamOpens, StreamLost, FrameArrives, UpdatesAsked,
         UpdatesAnswered, UpdatesUnanswered, ContinueUpdate, CloseConfirmUpdate,
         ConfirmUpdate, ProbeAsked, HealthAnswered, JournalAnswered, ProbeFails,
         WatchTick, WatchRetried, PageReloads
<1> QED
  BY <1>3, <1>4, <1>5, <1>5a, <1>6, <1>6a, <1>9, <1>10, <1>11, <1>12

\* The page's own changes: the stream, the picker, the confirmation, and
\* a request that is given up.
LEMMA LightChange ==
    ASSUME NEW w, NEW u, PageInv(u, w), NEW z \in UpdPages,
           z.event = u.event, z.data = u.data, z.watch = u.watch,
           z.probing = u.probing, z.get = u.get \/ z.get = << >>
    PROVE  PageInv(z, w)
BY DEF PageInv

\* A probe asked now tells the truth of the run that is watched.
LEMMA ProbeIsHonest ==
    ASSUME NEW w, WorkerInv(w), w.up, NEW run \in Nat, NEW to \in Nat,
           RunOf(run, to, w), w.process = to
    PROVE  run <= w.served
<1>1. w.served \in Nat /\ w.run \in Nat /\ run <= w.run
  BY DEF WorkerInv, Workers, RunOf
<1>2. w.process = w.from \/ w.served = w.run
  BY DEF WorkerInv
<1>3. w.served < run => w.from # to
  BY DEF RunOf
<1> QED
  BY <1>1, <1>2, <1>3

\* Each step of the page leaves it knowing only what was reported; its newest
\* frame is the last one, the worker's own phase, one that a frame of the other
\* target or a notice has replaced, or forgotten by a reload.
LEMMA PageSteps ==
    ASSUME UpdInv, UpdNext
    PROVE  /\ PageInv(upd', worker')
           /\ \/ upd'.event = upd.event
              \/ OwnReport(upd'.event) = worker.head
              \/ SlotTaken \/ NoticeHolds(upd'.event)
              \/ upd'.data.head = worker.head
<1> DEFINE Goal ==
      /\ PageInv(upd', worker')
      /\ \/ upd'.event = upd.event
         \/ OwnReport(upd'.event) = worker.head
         \/ SlotTaken \/ NoticeHolds(upd'.event)
         \/ upd'.data.head = worker.head
<1>1. /\ WorkerInv(worker) /\ PageInv(upd, worker) /\ upd \in UpdPages
      /\ WorkerInv(worker') /\ PageInv(upd, worker')
  BY WorkerSteps, PageLasts DEF UpdInv, PageInv
<1>2. CASE UNCHANGED upd
  BY <1>1, <1>2
<1>3. ASSUME NEW z, PageInv(z, worker'), upd' = Rendered(z)
      PROVE  PageInv(upd', worker') /\ upd'.event = z.event /\ upd'.data = z.data
  BY <1>1, <1>3, RenderKeeps
<1>4. ASSUME NEW z, PageInv(z, worker'), upd' = Rendered(z), z.event = upd.event
      PROVE  Goal
  BY <1>3, <1>4
<1>5. ASSUME NEW z \in UpdPages, upd' = Rendered(z), z.event = upd.event,
             z.data = upd.data, z.watch = upd.watch, z.probing = upd.probing,
             z.get = upd.get \/ z.get = << >>
      PROVE  Goal
  BY <1>1, <1>4, <1>5, LightChange
<1> DEFINE e == << >>
<1>6. e \in Seq(UpdStatuses) /\ e \in Seq(UpdProbes)
  OBVIOUS
<1>7. /\ upd.data.current \in Nat /\ SelectedRelease(upd) \in Nat /\ NoPick \in Picks
      /\ MaxVersion \in Nat
  BY <1>1, UpdatesPageAssumption
     DEF UpdPages, UpdStatuses, SelectedRelease, NoPick, Picks
<1>8. CASE UpdStreamOpens
  <2> DEFINE z == [upd EXCEPT !.conn = "open"]
  <2>1. /\ z \in UpdPages /\ z.event = upd.event /\ z.data = upd.data
        /\ z.watch = upd.watch /\ z.probing = upd.probing /\ z.get = upd.get
    BY <1>1 DEF UpdPages
  <2>2. upd' = Rendered(z)
    BY <1>8 DEF UpdStreamOpens, UpdRender
  <2> HIDE DEF z, Goal
  <2> QED
    BY <2>1, <2>2, <1>5 DEF Goal
<1>9. CASE StreamLost
  <2> DEFINE z == [upd EXCEPT !.conn = "down"]
  <2>1. /\ z \in UpdPages /\ z.event = upd.event /\ z.data = upd.data
        /\ z.watch = upd.watch /\ z.probing = upd.probing /\ z.get = upd.get
    BY <1>1 DEF UpdPages
  <2>2. upd' = Rendered(z)
    BY <1>9 DEF StreamLost, UpdRender
  <2> HIDE DEF z, Goal
  <2> QED
    BY <2>1, <2>2, <1>5 DEF Goal
<1>10. CASE UpdatesUnanswered
  <2> DEFINE c == IF upd.apply = 0 THEN upd.orphans ELSE upd.orphans \union {upd.apply}
             z == [upd EXCEPT !.get = e, !.broken = TRUE, !.panelRun = 0, !.watch = NoWatch,
                              !.probing = e, !.picked = NoPick, !.confirming = NoPick,
                              !.error = FALSE, !.orphans = c, !.apply = 0]
  <2>1. upd' = Rendered(z)
    BY <1>10 DEF UpdatesUnanswered, UpdRender, RowsUnmounted
  <2>2. c \in SUBSET Nat
    BY <1>1 DEF UpdPages
  <2>3. /\ NoWatch \in Watches /\ NoWatch.run = 0 /\ NoWatch.journal = NoRun
        /\ NoPick \in Picks
    BY <1>7 DEF NoWatch, Watches, NoRun, UpdReports, Phases
  <2>4. e = << >>
    OBVIOUS
  <2> HIDE DEF e, c
  <2>5. /\ z \in UpdPages /\ z.event = upd.event /\ z.data = upd.data
        /\ z.watch = NoWatch /\ z.probing = e /\ z.get = e
    BY <1>1, <1>6, <2>2, <2>3 DEF UpdPages
  <2> HIDE DEF z, Goal
  <2>6. PageInv(z, worker')
    BY <1>1, <2>3, <2>4, <2>5, NoRunReported DEF PageInv
  <2> QED
    BY <2>1, <2>5, <2>6, <1>4 DEF Goal
<1>11. ASSUME NEW to \in 1..MaxVersion, PickRelease(to) PROVE Goal
  <2> DEFINE p == [to |-> to, from |-> upd.data.current]
             z == [upd EXCEPT !.picked = p]
  <2>1. upd' = Rendered(z) /\ p \in Picks
    BY <1>7, <1>11 DEF PickRelease, UpdRender, Picks
  <2> HIDE DEF p
  <2>2. /\ z \in UpdPages /\ z.event = upd.event /\ z.data = upd.data
        /\ z.watch = upd.watch /\ z.probing = upd.probing /\ z.get = upd.get
    BY <1>1, <2>1 DEF UpdPages
  <2> HIDE DEF z, Goal
  <2> QED
    BY <2>1, <2>2, <1>5
<1>12. CASE ContinueUpdate
  <2> DEFINE p == [to |-> SelectedRelease(upd), from |-> upd.data.current]
             z == [upd EXCEPT !.confirming = p, !.error = FALSE]
  <2>1. upd' = Rendered(z) /\ p \in Picks
    BY <1>7, <1>12 DEF ContinueUpdate, UpdRender, Picks
  <2> HIDE DEF p
  <2>2. /\ z \in UpdPages /\ z.event = upd.event /\ z.data = upd.data
        /\ z.watch = upd.watch /\ z.probing = upd.probing /\ z.get = upd.get
    BY <1>1, <2>1 DEF UpdPages
  <2> HIDE DEF z, Goal
  <2> QED
    BY <2>1, <2>2, <1>5 DEF Goal
<1>13. CASE CloseConfirmUpdate
  <2> DEFINE z == [upd EXCEPT !.confirming = NoPick]
  <2>1. upd' = Rendered(z)
    BY <1>13 DEF CloseConfirmUpdate, UpdRender
  <2>2. /\ z \in UpdPages /\ z.event = upd.event /\ z.data = upd.data
        /\ z.watch = upd.watch /\ z.probing = upd.probing /\ z.get = upd.get
    BY <1>1, <1>7 DEF UpdPages
  <2> HIDE DEF z, Goal
  <2> QED
    BY <2>1, <2>2, <1>5 DEF Goal
<1>14. CASE ConfirmUpdate
  <2> DEFINE z == [upd EXCEPT !.apply = SelectedRelease(upd)]
  <2>1. upd' = Rendered(z)
    BY <1>14 DEF ConfirmUpdate, UpdRender
  <2>2. /\ z \in UpdPages /\ z.event = upd.event /\ z.data = upd.data
        /\ z.watch = upd.watch /\ z.probing = upd.probing /\ z.get = upd.get
    BY <1>1, <1>7 DEF UpdPages
  <2> HIDE DEF z, Goal
  <2> QED
    BY <2>1, <2>2, <1>5 DEF Goal
\* An answer of GET /updates is what the panel knew when it was asked.
<1>15. CASE ApplyAnswered
  <2> DEFINE g == <<StatusOf(worker')>>
             y == [upd EXCEPT !.apply = 0, !.error = TRUE]
             z == [upd EXCEPT !.apply = 0, !.confirming = NoPick, !.picked = NoPick,
                              !.get = g]
  <2>1. upd' = Rendered(y) \/ upd' = Rendered(z)
    BY <1>15 DEF ApplyAnswered, UpdRender
  <2>2. /\ y \in UpdPages /\ y.event = upd.event /\ y.data = upd.data
        /\ y.watch = upd.watch /\ y.probing = upd.probing /\ y.get = upd.get
    BY <1>1 DEF UpdPages
  <2>3. ListedBy(StatusOf(worker'), worker') /\ StatusOf(worker') \in UpdStatuses
    BY <1>1, StatusListed DEF ListedBy
  <2>4. g \in Seq(UpdStatuses) /\ g[1] = StatusOf(worker')
    BY <2>3
  <2> HIDE DEF g
  <2>5. /\ z \in UpdPages /\ z.event = upd.event /\ z.data = upd.data
        /\ z.watch = upd.watch /\ z.probing = upd.probing /\ z.get = g
    BY <1>1, <1>7, <2>4 DEF UpdPages
  <2> HIDE DEF y, z, Goal
  <2>6. PageInv(z, worker')
    BY <1>1, <2>3, <2>4, <2>5 DEF PageInv
  <2> QED
    BY <2>1, <2>2, <2>5, <2>6, <1>4, <1>5 DEF Goal
<1>15a. ASSUME NEW to \in 1..MaxVersion, LateApplyAnswered(to) PROVE Goal
  <2> DEFINE g == <<StatusOf(worker')>>
             c == upd.orphans \ {to}
             y == [upd EXCEPT !.orphans = c]
             z == [upd EXCEPT !.orphans = c, !.get = g]
  <2>1. upd' = Rendered(y) \/ upd' = Rendered(z)
    BY <1>15a DEF LateApplyAnswered, UpdRender
  <2>2. c \in SUBSET Nat
    BY <1>1 DEF UpdPages
  <2>3. ListedBy(StatusOf(worker'), worker') /\ StatusOf(worker') \in UpdStatuses
    BY <1>1, StatusListed DEF ListedBy
  <2>4. g \in Seq(UpdStatuses) /\ g[1] = StatusOf(worker')
    BY <2>3
  <2> HIDE DEF g, c
  <2>5. /\ z \in UpdPages /\ z.event = upd.event /\ z.data = upd.data
        /\ z.watch = upd.watch /\ z.probing = upd.probing /\ z.get = g
    BY <1>1, <2>2, <2>4 DEF UpdPages
  <2>6. /\ y \in UpdPages /\ y.event = upd.event /\ y.data = upd.data
        /\ y.watch = upd.watch /\ y.probing = upd.probing /\ y.get = upd.get
    BY <1>1, <2>2 DEF UpdPages
  <2> HIDE DEF y, z, Goal
  <2>7. PageInv(z, worker')
    BY <1>1, <2>3, <2>4, <2>5 DEF PageInv
  <2> QED
    BY <2>1, <2>5, <2>6, <2>7, <1>4, <1>5
<1>16. CASE UpdatesAsked
  <2> DEFINE g == <<StatusOf(worker)>>
             z == [upd EXCEPT !.get = g]
  <2>1. upd' = Rendered(z) /\ worker' = worker
    BY <1>16 DEF UpdatesAsked, UpdRender
  <2>2. ListedBy(StatusOf(worker), worker) /\ StatusOf(worker) \in UpdStatuses
    BY <1>1, StatusListed DEF ListedBy
  <2>3. g \in Seq(UpdStatuses) /\ g[1] = StatusOf(worker)
    BY <2>2
  <2> HIDE DEF g
  <2>4. /\ z \in UpdPages /\ z.event = upd.event /\ z.data = upd.data
        /\ z.watch = upd.watch /\ z.probing = upd.probing /\ z.get = g
    BY <1>1, <2>3 DEF UpdPages
  <2> HIDE DEF z, Goal
  <2>5. PageInv(z, worker')
    BY <1>1, <2>1, <2>2, <2>3, <2>4 DEF PageInv
  <2> QED
    BY <2>1, <2>4, <2>5, <1>4 DEF Goal
<1>17. CASE UpdatesAnswered
  <2> DEFINE d == upd.get[1]
             z == [upd EXCEPT !.get = e, !.data = d, !.broken = FALSE]
  <2>1. upd' = Rendered(z) /\ upd.get # << >>
    BY <1>17 DEF UpdatesAnswered, UpdRender
  <2>2. ListedBy(d, worker') /\ d \in UpdStatuses
    BY <1>1, <2>1 DEF PageInv, ListedBy
  <2> HIDE DEF d, e
  <2>3. /\ z \in UpdPages /\ z.event = upd.event /\ z.data = d
        /\ z.watch = upd.watch /\ z.probing = upd.probing /\ z.get = e
    BY <1>1, <1>6, <2>2 DEF UpdPages
  <2> HIDE DEF z, Goal
  <2>4. e = << >>
    BY DEF e
  <2>5. PageInv(z, worker')
    BY <1>1, <2>2, <2>3, <2>4 DEF PageInv
  <2> QED
    BY <2>1, <2>3, <2>5, <1>4 DEF Goal
<1>18. CASE FrameArrives
  <2> DEFINE f == worker.hub
             g == IF IsTerminalUpdatePhase(f.report.phase) THEN <<StatusOf(worker)>> ELSE upd.get
             z == [upd EXCEPT !.event = f, !.get = g]
  <2>1. upd' = Rendered(z) /\ worker' = worker /\ f # upd.event
    BY <1>18 DEF FrameArrives, UpdRender
  <2>2. f \in UpdFrames /\ (OwnReport(f) = NoRun \/ OwnReport(f) = worker.head)
    BY <1>1 DEF WorkerInv, Workers
  <2>3. ListedBy(StatusOf(worker), worker) /\ StatusOf(worker) \in UpdStatuses
    BY <1>1, StatusListed DEF ListedBy
  <2>4. g \in Seq(UpdStatuses) /\ (g = upd.get \/ g[1] = StatusOf(worker))
    BY <1>1, <2>3 DEF UpdPages
  <2>5. Reported(OwnReport(f), worker)
    BY <1>1, <2>2, StatusListed, NoRunReported
  <2>6. f.mine /\ ~f.notice => OwnReport(f) = worker.head
    <3>1. f.mine /\ ~f.notice => OwnReport(f) = f.report
      BY DEF OwnReport
    <3> QED
      BY <1>1, <2>2, <3>1 DEF WorkerInv
  <2> HIDE DEF f, g
  <2>7. /\ z \in UpdPages /\ z.event = f /\ z.data = upd.data
        /\ z.watch = upd.watch /\ z.probing = upd.probing /\ z.get = g
    BY <1>1, <2>2, <2>4 DEF UpdPages
  <2> HIDE DEF z
  <2>8. PageInv(z, worker')
    BY <1>1, <2>1, <2>3, <2>4, <2>5, <2>7 DEF PageInv
  <2>9. PageInv(upd', worker') /\ upd'.event = f
    BY <2>1, <2>7, <2>8, <1>3
  <2>10. f.mine \in BOOLEAN /\ f.notice \in BOOLEAN
    BY <2>2 DEF UpdFrames
  <2> QED
    BY <2>1, <2>6, <2>9, <2>10 DEF SlotTaken, NoticeHolds
\* The watch: what it asks is asked under its own run.
<1>19. upd.watch \in Watches /\ upd.watch.run \in Nat /\ upd.watch.to \in Nat
  BY <1>1 DEF UpdPages, Watches
<1>20. CASE ProbeAsked
  <2> DEFINE p == [health |-> worker.process, data |-> StatusOf(worker)]
             b == <<p>>
             z == [upd EXCEPT !.probing = b]
  <2>1. upd' = Rendered(z) /\ worker' = worker /\ worker.up
    BY <1>20 DEF ProbeAsked, UpdRender
  <2>2. ListedBy(StatusOf(worker), worker) /\ StatusOf(worker) \in UpdStatuses
    BY <1>1, StatusListed DEF ListedBy
  <2>3. p \in UpdProbes
    BY <1>1, <2>2 DEF UpdProbes, WorkerInv, Workers
  <2>4. p.health = worker.process /\ p.data = StatusOf(worker)
    OBVIOUS
  <2> HIDE DEF p
  <2>5. b \in Seq(UpdProbes) /\ b[1] = p
    BY <2>3
  <2> HIDE DEF b
  <2>6. /\ z \in UpdPages /\ z.event = upd.event /\ z.data = upd.data
        /\ z.watch = upd.watch /\ z.probing = b /\ z.get = upd.get
    BY <1>1, <2>5 DEF UpdPages
  <2>7. /\ upd.watch.run # 0 => RunOf(upd.watch.run, upd.watch.to, worker)
        /\ upd.watch.run # 0 /\ p.health = upd.watch.to => upd.watch.run <= worker.served
    BY <1>1, <1>19, <2>1, <2>4, ProbeIsHonest DEF PageInv
  <2> HIDE DEF z, Goal
  <2>8. PageInv(z, worker')
    BY <1>1, <2>1, <2>2, <2>4, <2>5, <2>6, <2>7 DEF PageInv
  <2> QED
    BY <2>1, <2>6, <2>8, <1>4 DEF Goal
<1> DEFINE With(health, ticks, journal, d, b) ==
      [upd EXCEPT !.watch = [upd.watch EXCEPT !.health = health, !.ticks = ticks,
                                              !.journal = journal],
                  !.data = d, !.probing = b]
<1>21. ASSUME NEW health \in Nat, NEW ticks \in Nat, NEW journal \in UpdReports,
              NEW d \in UpdStatuses, NEW b \in Seq(UpdProbes),
              b = upd.probing \/ b = << >>,
              upd' = Rendered(With(health, ticks, journal, d, b)),
              Reported(journal, worker'), ListedBy(d, worker'),
              upd.watch.run # 0 /\ health = upd.watch.to => upd.watch.run <= worker'.served
       PROVE  Goal
  <2> DEFINE t == [upd.watch EXCEPT !.health = health, !.ticks = ticks, !.journal = journal]
             z == [upd EXCEPT !.watch = t, !.data = d, !.probing = b]
  <2>1. upd' = Rendered(z)
    BY <1>21
  <2>2. /\ t \in Watches /\ t.run = upd.watch.run /\ t.to = upd.watch.to
        /\ t.health = health /\ t.journal = journal
    BY <1>19 DEF Watches
  <2> HIDE DEF t
  <2>3. /\ z \in UpdPages /\ z.event = upd.event /\ z.data = d
        /\ z.watch = t /\ z.probing = b /\ z.get = upd.get
    BY <1>1, <2>2 DEF UpdPages
  <2> HIDE DEF z, Goal
  <2>4. PageInv(z, worker')
    BY <1>1, <1>21, <2>2, <2>3 DEF PageInv
  <2> QED
    BY <2>1, <2>3, <2>4, <1>4
<1>22. /\ upd.watch.health \in Nat /\ upd.watch.ticks \in Nat
       /\ upd.watch.journal \in UpdReports /\ Reported(upd.watch.journal, worker')
       /\ upd.data \in UpdStatuses /\ ListedBy(upd.data, worker')
       /\ upd.probing \in Seq(UpdProbes)
       /\ upd.watch.run # 0 /\ upd.watch.health = upd.watch.to =>
            upd.watch.run <= worker'.served
  BY <1>1, <1>19 DEF PageInv, UpdPages, Watches
<1>23. upd.probing # << >> =>
         /\ upd.probing[1] \in UpdProbes /\ upd.probing[1].health \in Nat
         /\ upd.probing[1].data \in UpdStatuses /\ ListedBy(upd.probing[1].data, worker')
         /\ Reported(upd.probing[1].data.head, worker')
         /\ upd.probing[1].data.head \in UpdReports
         /\ upd.watch.run # 0 /\ upd.probing[1].health = upd.watch.to =>
              upd.watch.run <= worker'.served
  <2> SUFFICES ASSUME upd.probing # << >>
               PROVE  /\ upd.probing[1] \in UpdProbes /\ upd.probing[1].health \in Nat
                      /\ upd.probing[1].data \in UpdStatuses
                      /\ ListedBy(upd.probing[1].data, worker')
                      /\ Reported(upd.probing[1].data.head, worker')
                      /\ upd.probing[1].data.head \in UpdReports
                      /\ upd.watch.run # 0 /\ upd.probing[1].health = upd.watch.to =>
                           upd.watch.run <= worker'.served
    OBVIOUS
  <2>1. upd.probing[1] \in UpdProbes
    BY <1>22
  <2>2. ListedBy(upd.probing[1].data, worker')
    BY <1>1 DEF PageInv
  <2>3. upd.watch.run # 0 /\ upd.probing[1].health = upd.watch.to =>
          upd.watch.run <= worker'.served
    BY <1>1 DEF PageInv
  <2> QED
    BY <2>1, <2>2, <2>3 DEF UpdProbes, UpdStatuses, ListedBy
<1>24. CASE HealthAnswered
  <2> DEFINE h == upd.probing[1].health
  <2>1. /\ upd.probing # << >>
        /\ upd' = Rendered([upd EXCEPT !.watch.health = h, !.probing = e])
    BY <1>24 DEF HealthAnswered, UpdRender
  <2>2. e = << >>
    OBVIOUS
  <2>3. h \in Nat /\ (upd.watch.run # 0 /\ h = upd.watch.to =>
                        upd.watch.run <= worker'.served)
    BY <1>23, <2>1
  <2> HIDE DEF h, e
  <2>4. [upd EXCEPT !.watch.health = h, !.probing = e]
          = With(h, upd.watch.ticks, upd.watch.journal, upd.data, e)
    BY <1>1, <1>19 DEF UpdPages, Watches
  <2> HIDE DEF Goal, With
  <2> QED
    BY <2>1, <2>2, <2>3, <2>4, <1>6, <1>21, <1>22 DEF Goal
<1>25. CASE JournalAnswered
  <2> DEFINE d == upd.probing[1].data
             j == d.head
  <2>1. /\ upd.probing # << >>
        /\ upd' = Rendered([upd EXCEPT !.watch.journal = j, !.data = d, !.probing = e])
    BY <1>25 DEF JournalAnswered, UpdRender
  <2>2. e = << >>
    OBVIOUS
  <2>3. /\ d \in UpdStatuses /\ j \in UpdReports
        /\ ListedBy(d, worker') /\ Reported(j, worker')
    BY <1>23, <2>1
  <2> HIDE DEF j, d, e
  <2>4. [upd EXCEPT !.watch.journal = j, !.data = d, !.probing = e]
          = With(upd.watch.health, upd.watch.ticks, j, d, e)
    BY <1>1, <1>19 DEF UpdPages, Watches
  <2> HIDE DEF Goal, With
  <2> QED
    BY <2>1, <2>2, <2>3, <2>4, <1>6, <1>21, <1>22 DEF Goal
<1>26. CASE ProbeFails
  <2>1. upd' = Rendered([upd EXCEPT !.probing = e, !.watch.health = 0]) /\ upd.watch.run # 0
    BY <1>26 DEF ProbeFails, UpdRender, Watching
  <2>2. e = << >> /\ 0 \in Nat
    OBVIOUS
  <2> HIDE DEF e
  <2>3. [upd EXCEPT !.probing = e, !.watch.health = 0]
          = With(0, upd.watch.ticks, upd.watch.journal, upd.data, e)
    BY <1>1, <1>19 DEF UpdPages, Watches
  <2>4. upd.watch.run # 0 => upd.watch.to # 0
    BY <1>1 DEF PageInv, RunOf
  <2> HIDE DEF Goal, With
  <2> QED
    BY <2>1, <2>2, <2>3, <2>4, <1>6, <1>21, <1>22 DEF Goal
<1>27. CASE WatchTick
  <2> DEFINE k == upd.watch.ticks + 1
  <2>1. upd' = Rendered([upd EXCEPT !.watch.ticks = k])
    BY <1>27 DEF WatchTick, UpdRender
  <2>2. k \in Nat
    BY <1>22
  <2> HIDE DEF k
  <2>3. [upd EXCEPT !.watch.ticks = k]
          = With(upd.watch.health, k, upd.watch.journal, upd.data, upd.probing)
    BY <1>1, <1>19 DEF UpdPages, Watches
  <2> HIDE DEF Goal, With
  <2> QED
    BY <2>1, <2>2, <2>3, <1>21, <1>22 DEF Goal
<1>28. CASE WatchRetried
  <2> DEFINE r == RunShown(upd)
             t == NewWatch(r)
             z == [upd EXCEPT !.watch = t, !.probing = e]
  <2>1. upd' = Rendered(z)
    BY <1>28 DEF WatchRetried, UpdRender
  <2>2. Reported(r, worker')
    BY <1>1, ShownIsReported, NoRunReported DEF PageInv, ListedBy
  <2> HIDE DEF r
  <2>3. r.run \in Nat /\ r.to \in Nat
    BY <2>2 DEF Reported, UpdReports
  <2>4. NoWatch \in Watches /\ NoWatch.health = 0 /\ NoWatch.journal = NoRun
    BY DEF NoWatch, Watches, NoRun, UpdReports, Phases
  <2>5. /\ t \in Watches /\ t.journal = NoRun /\ t.health = 0
        /\ t.run = r.run /\ t.to = r.to
    BY <2>3, <2>4 DEF NewWatch, Watches
  <2>6. e = << >>
    OBVIOUS
  <2> HIDE DEF t, e
  <2>7. /\ z \in UpdPages /\ z.event = upd.event /\ z.data = upd.data
        /\ z.watch = t /\ z.probing = e /\ z.get = upd.get
    BY <1>1, <1>6, <2>5 DEF UpdPages
  <2>8. t.run # 0 => RunOf(t.run, t.to, worker') /\ t.health # t.to
    BY <2>2, <2>5 DEF Reported, RunOf
  <2> HIDE DEF z, Goal
  <2>9. PageInv(z, worker')
    BY <1>1, <2>5, <2>6, <2>7, <2>8, NoRunReported DEF PageInv
  <2> QED
    BY <2>1, <2>7, <2>9, <1>4 DEF Goal
<1>29. CASE PageReloads
  <2> DEFINE d == StatusOf(worker)
             z == [PageMounted(upd.target, d) EXCEPT !.reloads = 1]
  <2>1. upd' = Rendered(z) /\ worker' = worker
    BY <1>29 DEF PageReloads
  <2>2. ListedBy(d, worker) /\ d \in UpdStatuses /\ d.head = worker.head
    BY <1>1, StatusListed DEF ListedBy
  <2> HIDE DEF d
  <2>3. NoWatch \in Watches /\ NoWatch.run = 0 /\ NoWatch.journal = NoRun
    BY DEF NoWatch, Watches, NoRun, UpdReports, Phases
  <2>4. EmptySlot \in UpdFrames /\ OwnReport(EmptySlot) = NoRun
    BY DEF EmptySlot, UpdateFrame, UpdFrames, OwnReport, NoRun, UpdReports, Phases
  <2>5. upd.target \in {"panel", "telemt"}
    BY <1>1 DEF UpdPages
  <2> DEFINE m == PageMounted(upd.target, d)
  <2>6. m = [target |-> upd.target, conn |-> "down", event |-> EmptySlot, data |-> d,
             get |-> e, panelRun |-> 0, watch |-> NoWatch, probing |-> e,
             picked |-> NoPick, confirming |-> NoPick, apply |-> 0, orphans |-> {},
             error |-> FALSE, reloads |-> 0, broken |-> FALSE]
    BY DEF PageMounted
  <2>7. e = << >> /\ z = [m EXCEPT !.reloads = 1]
    OBVIOUS
  <2> HIDE DEF z, e, m
  <2>8. z = [target |-> upd.target, conn |-> "down", event |-> EmptySlot, data |-> d,
             get |-> e, panelRun |-> 0, watch |-> NoWatch, probing |-> e,
             picked |-> NoPick, confirming |-> NoPick, apply |-> 0, orphans |-> {},
             error |-> FALSE, reloads |-> 1, broken |-> FALSE]
    BY <2>7, <2>6
  <2>9. /\ z \in UpdPages /\ z.event = EmptySlot /\ z.data = d
        /\ z.watch = NoWatch /\ z.probing = e /\ z.get = e
    BY <2>2, <2>3, <2>4, <2>5, <2>8, <1>6, <1>7 DEF UpdPages
  <2>10. PageInv(z, worker')
    BY <2>1, <2>2, <2>3, <2>4, <2>7, <2>9, NoRunReported DEF PageInv
  <2> QED
    BY <2>1, <2>2, <2>9, <2>10, <1>3
<1>30. \/ UNCHANGED upd \/ UpdStreamOpens \/ StreamLost \/ UpdatesUnanswered
       \/ \E to \in 1..MaxVersion : PickRelease(to)
       \/ ContinueUpdate \/ CloseConfirmUpdate \/ ConfirmUpdate \/ ApplyAnswered
       \/ \E to \in 1..MaxVersion : LateApplyAnswered(to)
       \/ UpdatesAsked \/ UpdatesAnswered \/ FrameArrives \/ ProbeAsked \/ HealthAnswered
       \/ JournalAnswered \/ ProbeFails \/ WatchTick \/ WatchRetried \/ PageReloads
  BY DEF UpdNext, StartsElsewhere, ServiceCommand, WorkerAdvances, UnitRestarts, RunGoesWrong,
         OtherTargetRuns, CheckAndPublish
<1> QED
  <2> HIDE DEF Goal
  <2>1. ASSUME NEW to \in 1..MaxVersion, PickRelease(to) PROVE Goal
    BY <1>11, <2>1
  <2>2. ASSUME NEW to \in 1..MaxVersion, LateApplyAnswered(to) PROVE Goal
    BY <1>15a, <2>2
  <2> QED
    BY <2>2, <1>2, <1>8, <1>9, <1>10, <1>12, <1>13, <1>14, <1>15, <1>16, <1>17, <1>18, <1>20,
       <1>24, <1>25, <1>26, <1>27, <1>28, <1>29, <1>30, <2>1 DEF Goal

\* The page opens with what GET /updates tells of an idle worker.
LEMMA UpdInvInit == UpdInit => UpdInv
<1> SUFFICES ASSUME UpdInit PROVE UpdInv
  OBVIOUS
<1> DEFINE d == StatusOf(worker)
           e == << >>
<1>1. WorkerInv(worker)
  <2>1. EmptySlot \in UpdFrames /\ OwnReport(EmptySlot) = NoRun /\ ~EmptySlot.mine
    BY DEF EmptySlot, UpdateFrame, UpdFrames, OwnReport, NoRun, UpdReports, Phases
  <2> QED
    BY <2>1 DEF UpdInit, WorkerInv, Workers, NoRun, UpdReports, Phases
<1>2. ListedBy(d, worker) /\ d \in UpdStatuses
  BY <1>1, StatusListed DEF ListedBy
<1>3. PICK t \in {"panel", "telemt"} : upd = PageMounted(t, d)
  BY DEF UpdInit
<1>4. upd = [target |-> t, conn |-> "down", event |-> EmptySlot, data |-> d,
             get |-> e, panelRun |-> 0, watch |-> NoWatch, probing |-> e,
             picked |-> NoPick, confirming |-> NoPick, apply |-> 0, orphans |-> {},
             error |-> FALSE, reloads |-> 0, broken |-> FALSE]
  BY <1>3 DEF PageMounted
<1>5. e = << >> /\ e \in Seq(UpdStatuses) /\ e \in Seq(UpdProbes)
  OBVIOUS
<1> HIDE DEF d, e
<1>6. /\ NoWatch \in Watches /\ NoWatch.run = 0 /\ NoWatch.journal = NoRun
      /\ NoPick \in Picks
  BY DEF NoWatch, Watches, NoRun, UpdReports, Phases, NoPick, Picks
<1>6a. EmptySlot \in UpdFrames /\ OwnReport(EmptySlot) = NoRun
  BY DEF EmptySlot, UpdateFrame, UpdFrames, OwnReport, NoRun, UpdReports, Phases
<1>7. /\ upd \in UpdPages /\ upd.event = EmptySlot /\ upd.data = d
      /\ upd.watch = NoWatch /\ upd.probing = e /\ upd.get = e
  BY <1>2, <1>4, <1>5, <1>6, <1>6a DEF UpdPages
<1>8. PageInv(upd, worker)
  BY <1>2, <1>5, <1>6, <1>6a, <1>7, NoRunReported DEF PageInv
<1> QED
  BY <1>1, <1>8 DEF UpdInv

\* What a watch decides from honest reports is true.
LEMMA HonestWatch == UpdInv => WatchTellsTheTruth
<1> SUFFICES ASSUME UpdInv, Watching
             PROVE  /\ RestartWatchDecision(upd.watch) = "reload" =>
                         worker.served >= upd.watch.run
                    /\ RestartWatchDecision(upd.watch) = "failed" =>
                         /\ upd.watch.run <= worker.run
                         /\ upd.watch.run = worker.run =>
                              worker.phase \in {"failed", "rolled_back"}
  BY DEF WatchTellsTheTruth
<1>1. /\ upd.watch.run # 0 /\ upd.watch.run \in Nat /\ worker.served \in Nat
      /\ RunOf(upd.watch.run, upd.watch.to, worker)
      /\ upd.watch.health = upd.watch.to => upd.watch.run <= worker.served
      /\ Reported(upd.watch.journal, worker)
  BY DEF UpdInv, PageInv, WorkerInv, Workers, UpdPages, Watches, Watching
<1>2. RestartWatchDecision(upd.watch) = "reload" => upd.watch.health = upd.watch.to
  BY DEF RestartWatchDecision
<1>3. RestartWatchDecision(upd.watch) = "failed" =>
        /\ upd.watch.journal.run = upd.watch.run
        /\ upd.watch.journal.phase \in {"rolled_back", "failed"}
  BY DEF RestartWatchDecision
<1> QED
  BY <1>1, <1>2, <1>3 DEF RunOf, Reported, Terminal

\* A report as the page holds them: none, or one of a run in a phase.
Phased(r) == r \in UpdReports /\ (r.run = 0 => r = NoRun) /\ (r.run # 0 => r.phase \in Phases)

\* Being ahead is reflexive and transitive, and everything is ahead of no run.
LEMMA AheadIsAnOrder ==
    ASSUME NEW a, NEW b, NEW d, Phased(a), Phased(b), Phased(d)
    PROVE  /\ Ahead(a, a) /\ (Ahead(a, b) /\ Ahead(b, d) => Ahead(a, d))
           /\ Ahead(a, NoRun)
<1>1. /\ a.run \in Nat /\ b.run \in Nat /\ d.run \in Nat
      /\ NoRun.run = 0 /\ NoRun.phase = "none"
  BY DEF Phased, UpdReports, NoRun
<1>2. Rank(a.phase) \in Nat /\ Rank(b.phase) \in Nat /\ Rank(d.phase) \in Nat
  BY Ranks DEF Phased, UpdReports, Phases
<1>3. Rank("none") = 0
  BY Ranks
<1> QED
  BY <1>1, <1>2, <1>3 DEF Ahead

\* The report taken is ahead of both.
LEMMA LaterIsAhead ==
    ASSUME NEW l, NEW c, Phased(l), Phased(c), NEW y, y = LaterReport(l, c)
    PROVE  Phased(y) /\ Ahead(y, l) /\ Ahead(y, c)
<1>1. l \in UpdReports /\ c \in UpdReports /\ l.run \in Nat /\ c.run \in Nat
  BY DEF Phased, UpdReports
<1>2. y \in {l, c}
  BY <1>1, LaterIsOne
<1>3. Ahead(l, l) /\ Ahead(c, c) /\ Ahead(l, NoRun)
  BY AheadIsAnOrder
<1>4. CASE c.run = 0
  BY <1>3, <1>4 DEF LaterReport, Phased
<1>5. CASE c.run # 0 /\ c.run # l.run
  BY <1>1, <1>2, <1>3, <1>5 DEF LaterReport, Ahead
<1>6. CASE c.run # 0 /\ c.run = l.run
  <2>1. l.phase \in Phases /\ c.phase \in Phases
    BY <1>6 DEF Phased
  <2>2. y = IF \/ IsTerminalUpdatePhase(l.phase) /\ ~IsTerminalUpdatePhase(c.phase)
               \/ /\ ~IsTerminalUpdatePhase(c.phase) /\ c.phase # "rolling_back"
                  /\ \/ l.phase = "rolling_back"
                     \/ UpdatePhaseStep(c.phase).stepIndex
                            < UpdatePhaseStep(l.phase).stepIndex
            THEN l ELSE c
    BY <1>6 DEF LaterReport
  <2>3. /\ y = l => Rank(l.phase) >= Rank(c.phase)
        /\ y = c => Rank(c.phase) >= Rank(l.phase)
    BY <2>1, <2>2, Ranks DEF Phases, IsTerminalUpdatePhase, Terminal
  <2> QED
    BY <1>1, <1>2, <1>3, <1>6, <2>3 DEF Ahead
<1> QED
  BY <1>2, <1>4, <1>5, <1>6

\* The run on screen is ahead of every report at hand.
LEMMA ShownIsAhead ==
    ASSUME NEW w, NEW u, PageInv(u, w)
    PROVE  /\ Phased(RunShown(u)) /\ Phased(OwnReport(u.event)) /\ Phased(u.data.head)
           /\ ~NoticeHolds(u.event) =>
                /\ Ahead(RunShown(u), OwnReport(u.event))
                /\ Ahead(RunShown(u), u.data.head)
           /\ RunShown(u) \in {NoRun, OwnReport(u.event), u.data.head}
<1> DEFINE o == OwnReport(u.event)
           a == LaterReport(NoRun, o)
           b == LaterReport(a, u.data.active)
           r == LaterReport(b, u.data.head)
<1>1. /\ Phased(NoRun) /\ Phased(o) /\ Phased(u.data.head)
      /\ u.data.active = NoRun \/ u.data.active = u.data.head
  BY NoRunReported DEF PageInv, ListedBy, Reported, Phased
<1> HIDE DEF o
<1>2. Phased(a) /\ Ahead(a, o)
  BY <1>1, LaterIsAhead
<1> HIDE DEF a
<1>3. Phased(b) /\ Ahead(b, a)
  BY <1>1, <1>2, LaterIsAhead
<1> HIDE DEF b
<1>4. Phased(r) /\ Ahead(r, b) /\ Ahead(r, u.data.head)
  BY <1>1, <1>3, LaterIsAhead
<1>5. /\ ~NoticeHolds(u.event) => RunShown(u) = r
      /\ NoticeHolds(u.event) => RunShown(u) = NoRun
  BY DEF RunShown, SelectUpdateRun, a, b, o
<1>6. u \in UpdPages
  BY DEF PageInv
<1>7. RunShown(u) \in {NoRun, o, u.data.head}
  BY <1>1, <1>6, ShownIsReported DEF o
<1> HIDE DEF r
<1>8. Ahead(r, a)
  BY <1>2, <1>3, <1>4, AheadIsAnOrder
<1>9. Ahead(r, o)
  BY <1>1, <1>2, <1>4, <1>8, AheadIsAnOrder
<1> QED
  BY <1>1, <1>4, <1>5, <1>7, <1>9 DEF o

\* The worker is ahead of every report.
LEMMA WorkerIsAhead ==
    ASSUME NEW w, WorkerInv(w), NEW r, Reported(r, w)
    PROVE  Phased(w.head) /\ Ahead(w.head, r)
<1>1. Phased(w.head) /\ Phased(r)
  <2>1. ListedBy(StatusOf(w), w) /\ StatusOf(w).head = w.head
    BY StatusListed
  <2>2. Reported(w.head, w)
    BY <2>1 DEF ListedBy
  <2> QED
    BY <2>2 DEF Reported, Phased
<1>2. CASE r.run = 0
  BY <1>1, <1>2, AheadIsAnOrder DEF Phased
<1>3. CASE r.run # 0
  <2>1. r.run \in Nat /\ w.run \in Nat /\ r.run <= w.run /\ w.run # 0
    BY <1>3 DEF Reported, RunOf, UpdReports, WorkerInv, Workers
  <2>2. w.head.run = w.run /\ w.head.phase = w.phase
    BY <2>1 DEF WorkerInv
  <2>3. r.run = w.run => Rank(r.phase) <= Rank(w.phase)
    BY <1>3 DEF Reported
  <2>4. Rank(r.phase) \in Nat /\ Rank(w.phase) \in Nat
    BY <1>3, <2>1, Ranks DEF Reported, Phases, WorkerInv
  <2>5. Ahead(w.head, r)
    BY <2>1, <2>2, <2>3, <2>4 DEF Ahead
  <2> QED
    BY <1>1, <2>5
<1> QED
  BY <1>2, <1>3

\* The run on screen only moves forward, but for an overtaken list, a notice
\* and a slot that the other target takes.
LEMMA RunMovesForward == UpdInv /\ UpdNext => RunNeverGoesBack
<1> SUFFICES ASSUME UpdInv, UpdNext, ~OvertakenList, ~NoticeHolds(upd'.event)
             PROVE  \/ Ahead(RunShown(upd'), RunShown(upd))
                    \/ SlotTaken /\ Ahead(RunShown(upd'), upd'.data.head)
  BY DEF RunNeverGoesBack
<1>1. /\ WorkerInv(worker) /\ PageInv(upd, worker) /\ PageInv(upd', worker')
      /\ Reported(OwnReport(upd.event), worker) /\ Reported(upd.data.head, worker)
      /\ Reported(NoRun, worker)
  BY PageSteps, NoRunReported DEF UpdInv, PageInv, ListedBy
<1> DEFINE x == RunShown(upd)
           y == RunShown(upd')
           o == OwnReport(upd.event)
           q == OwnReport(upd'.event)
<1>2. /\ Phased(x) /\ Phased(o) /\ Phased(upd.data.head)
      /\ x \in {NoRun, o, upd.data.head}
  BY <1>1, ShownIsAhead
<1>3. /\ Phased(y) /\ Phased(q) /\ Phased(upd'.data.head)
      /\ Ahead(y, q) /\ Ahead(y, upd'.data.head)
  BY <1>1, ShownIsAhead
<1>a. upd'.event = upd.event => q = o
  OBVIOUS
<1> HIDE DEF x, y, o, q
<1>4. Phased(worker.head) /\ Ahead(worker.head, x)
  BY <1>1, <1>2, WorkerIsAhead DEF o
\* A list that is not overtaken has a head that is ahead.
<1>5. Ahead(upd'.data.head, upd.data.head)
  <2>1. upd'.data.head.run \in Nat /\ upd.data.head.run \in Nat
    BY <1>2, <1>3 DEF Phased, UpdReports
  <2>2. Rank(upd'.data.head.phase) \in Nat /\ Rank(upd.data.head.phase) \in Nat
    BY <1>2, <1>3, Ranks DEF Phased, UpdReports, Phases
  <2> QED
    BY <2>1, <2>2 DEF OvertakenList, Ahead
<1>6. Ahead(y, upd.data.head)
  BY <1>2, <1>3, <1>5, AheadIsAnOrder
<1>7. CASE upd'.event = upd.event
  <2>1. Ahead(y, o) /\ Ahead(y, NoRun)
    BY <1>a, <1>3, <1>7, AheadIsAnOrder
  <2>2. Ahead(y, x)
    BY <1>2, <1>6, <2>1
  <2> QED
    BY <2>2 DEF x, y
<1>8. CASE q = worker.head
  <2>1. Ahead(y, x)
    BY <1>2, <1>3, <1>4, <1>8, AheadIsAnOrder
  <2> QED
    BY <2>1 DEF x, y
<1>9. CASE upd'.data.head = worker.head
  <2>1. Ahead(y, x)
    BY <1>2, <1>3, <1>4, <1>9, AheadIsAnOrder
  <2> QED
    BY <2>1 DEF x, y
<1>10. CASE SlotTaken
  BY <1>3, <1>10 DEF y
<1> QED
  BY <1>7, <1>8, <1>9, <1>10, PageSteps DEF q


=============================================================================
