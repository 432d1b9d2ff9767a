----------------------------- MODULE PersonEditor -----------------------------
(***************************************************************************)
(* What the admin edits of one person (web/src/people): the user's form,    *)
(* the action sheet with its confirmations, the person's WEB profiles and   *)
(* the quota schedule. One editor is open at a time, over a record of       *)
(* Telemt or of the panel that others change too.                           *)
(*                                                                         *)
(* A user has the switch "enabled", one limit (for the connection, address  *)
(* and rate limits, the expiration and the tag, which the form treats       *)
(* alike) and a quota in bytes; 0 stands for an absent value. A unit of the *)
(* quota is MB = 2 or GB = 8 bytes, and an amount is whole: as in the code, *)
(* what is displayed cannot always be converted back.                       *)
(***************************************************************************)
EXTENDS Naturals, Sequences, FiniteSets, DraftSession

CONSTANTS
    Limits,         \* the limits typed into the form
    QuotaBytes,     \* the quotas Telemt holds
    MaxRule,        \* the schedule rules are 1..MaxRule; the last one is invalid
    MaxPplClicks    \* bound: inputs and clicks, frames, others' writes, faults

ASSUME PersonEditorAssumption ==
    /\ Limits \subseteq Nat /\ QuotaBytes \subseteq Nat
    /\ {MaxRule, MaxPplClicks} \subseteq Nat /\ MaxRule > 1

VARIABLES
    pane,      \* the open editor
    srv,       \* external: the record behind it
    ppl,       \* the editor's state
    pplLeft

pplVars == <<pane, srv, ppl, pplLeft>>

PplSpent == pplLeft > 0 /\ pplLeft' = pplLeft - 1 /\ UNCHANGED pane
PplFree == UNCHANGED <<pplLeft, pane>>

-----------------------------------------------------------------------------
(* UserFormSheet                                                            *)

Units == [MB |-> 2, GB |-> 8]

QuotaUnitToBytes(amount, unit) == amount * Units[unit]

BytesToQuotaDisplay(bytes) ==
    LET unit == IF bytes >= Units.GB THEN "GB" ELSE "MB"
    IN  [amount |-> (bytes + Units[unit] \div 2) \div Units[unit], unit |-> unit]

\* FieldState: a cleared field keeps the value it had.
FieldOf(value, set) == [set |-> set, value |-> value]

InitialEditState(user) ==
    LET shown == BytesToQuotaDisplay(user.quota)
    IN  [enabled |-> user.enabled,
         limit |-> FieldOf(IF user.limit = 0 THEN 4 ELSE user.limit, user.limit # 0),
         amount |-> FieldOf(shown.amount, user.quota # 0),
         unit |-> IF user.quota = 0 THEN "GB" ELSE shown.unit,
         edited |-> FALSE]

\* The exact byte count is kept until the admin edits the rounded one.
QuotaBytesForFormSubmit(state, original) ==
    IF ~state.edited /\ original # 0 THEN original
    ELSE QuotaUnitToBytes(state.amount.value, state.unit)

\* diffLimitField and buildUserPatch's assign: keep (the key is left out),
\* clear (null, here 0) or set.
DiffLimitField(key, set, value, original) ==
    IF original = (IF set THEN value ELSE 0) /\ (set => original # 0) THEN << >>
    ELSE << <<key, IF set THEN value ELSE 0>> >>

BuildUserPatch(state, base) ==
    (IF state.enabled = base.enabled THEN << >> ELSE << <<"enabled", state.enabled>> >>)
        \o DiffLimitField("limit", state.limit.set, state.limit.value, base.limit)
        \o DiffLimitField("quota", state.amount.set,
                          QuotaBytesForFormSubmit(state, base.quota), base.quota)

\* external: Telemt merges the patch.
Merged(user, patch) ==
    [k \in DOMAIN user |->
        LET own == {i \in DOMAIN patch : patch[i][1] = k}
        IN  IF own = {} THEN user[k] ELSE patch[CHOOSE i \in own : TRUE][2]]

QuotaOf(state) == <<state.amount, state.unit, state.edited>>

\* Fields changed since the submission are kept; the quota moves as a unit.
RebaseUserForm(submitted, draft, confirmed) ==
    LET quota == IF QuotaOf(draft) # QuotaOf(submitted) THEN draft ELSE confirmed
    IN  [enabled |-> IF draft.enabled # submitted.enabled THEN draft.enabled
                     ELSE confirmed.enabled,
         limit |-> IF draft.limit # submitted.limit THEN draft.limit ELSE confirmed.limit,
         amount |-> quota.amount, unit |-> quota.unit, edited |-> quota.edited]

\* The reset of a newly opened form: live frames never touch it again. touched
\* (a history variable): the keys the admin changed since the last confirmation.
FormOpened(user) ==
    [open |-> TRUE, state |-> InitialEditState(user), baseline |-> InitialEditState(user),
     baseUser |-> user, sent |-> << >>, body |-> << >>, answer |-> << >>, touched |-> {}]

FormDirty == ppl.state # ppl.baseline

OtherPatches(user) ==
    /\ pane = "form" /\ user # srv /\ srv' = user /\ PplSpent /\ UNCHANGED ppl

\* The inputs stay enabled while a save is in flight.
TypeField(state, key) ==
    /\ pane = "form" /\ ppl.open /\ state # ppl.state
    /\ ppl' = [ppl EXCEPT !.state = state, !.touched = @ \union {key}]
    /\ PplSpent /\ UNCHANGED srv

ToggleEnabled == TypeField([ppl.state EXCEPT !.enabled = ~@], "enabled")
TypeLimit(n) == TypeField([ppl.state EXCEPT !.limit = FieldOf(n, TRUE)], "limit")
ClearLimit == TypeField([ppl.state EXCEPT !.limit.set = FALSE], "limit")
TypeAmount(n) ==
    TypeField([ppl.state EXCEPT !.amount = FieldOf(n, TRUE), !.edited = TRUE], "quota")
ClearAmount == TypeField([ppl.state EXCEPT !.amount.set = FALSE, !.edited = TRUE], "quota")
SelectUnit(unit) == TypeField([ppl.state EXCEPT !.unit = unit, !.edited = TRUE], "quota")

\* applyCreatePreset: unlimited clears, the others set every limit.
ApplyPreset(unlimited) ==
    LET state == IF unlimited
                 THEN [ppl.state EXCEPT !.limit.set = FALSE, !.amount.set = FALSE,
                                        !.edited = TRUE]
                 ELSE [ppl.state EXCEPT !.limit = FieldOf(2, TRUE), !.amount = FieldOf(1, TRUE),
                                        !.unit = "GB", !.edited = TRUE]
    IN  /\ pane = "form" /\ ppl.open /\ state # ppl.state
        /\ ppl' = [ppl EXCEPT !.state = state, !.touched = @ \union {"limit", "quota"}]
        /\ PplSpent /\ UNCHANGED srv

HandleSubmit ==
    /\ pane = "form" /\ ppl.open /\ ppl.sent = << >>
    /\ ppl' = [ppl EXCEPT !.sent = <<ppl.state>>,
                          !.body = BuildUserPatch(ppl.state, ppl.baseUser)]
    /\ PplSpent /\ UNCHANGED srv

PatchLands ==
    /\ pane = "form" /\ ppl.sent # << >> /\ ppl.answer = << >>
    /\ srv' = Merged(srv, ppl.body)
    /\ ppl' = [ppl EXCEPT !.answer = <<srv'>>] /\ PplFree

\* onSuccess: the form closes when nothing was typed since.
PatchAnswered ==
    /\ pane = "form" /\ ppl.answer # << >>
    /\ LET confirmed == InitialEditState(ppl.answer[1])
           next == RebaseUserForm(ppl.sent[1], ppl.state, confirmed)
           late == {k \in ppl.touched :
                      CASE k = "quota" -> QuotaOf(ppl.state) # QuotaOf(ppl.sent[1])
                        [] OTHER -> ppl.state[k] # ppl.sent[1][k]}
       IN  ppl' = [ppl EXCEPT !.baseUser = ppl.answer[1], !.baseline = confirmed,
                              !.state = next, !.sent = << >>, !.body = << >>,
                              !.answer = << >>, !.open = next # confirmed,
                              !.touched = late]
    /\ PplFree /\ UNCHANGED srv

\* onError: refused, or the answer is lost.
UserPatchFails ==
    /\ pane = "form" /\ ppl.sent # << >>
    /\ ppl' = [ppl EXCEPT !.sent = << >>, !.body = << >>, !.answer = << >>]
    /\ PplSpent /\ UNCHANGED srv

\* Not while a save is pending; useUserFormBlocker asks first.
CloseForm ==
    /\ pane = "form" /\ ppl.open /\ ppl.sent = << >>
    /\ ppl' = [ppl EXCEPT !.open = FALSE] /\ PplSpent /\ UNCHANGED srv

OpenForm ==
    /\ pane = "form" /\ ~ppl.open /\ ppl' = FormOpened(srv) /\ PplSpent /\ UNCHANGED srv

-----------------------------------------------------------------------------
(* UserActionSheet, over the live user of the page                           *)

\* The menu's entries that ask for a confirmation.
Confirmations == {"delete", "quota", "traffic", "rotate", "toggle"}

\* nextEnabled is frozen when the admin asks.
IntentToView(kind, user) ==
    [kind |-> kind, nextEnabled |-> IF kind = "toggle" THEN ~user.enabled ELSE FALSE]

Menu == [kind |-> "menu", nextEnabled |-> FALSE]

SheetOpened(user) == [user |-> user, view |-> Menu, busy |-> "no", readOnly |-> FALSE]

\* The label, the danger styling and the request of the confirmation.
Confirmation(view, user) == [kind |-> view.kind, enable |-> view.nextEnabled]

UserFrame(enabled, readOnly) ==
    /\ pane = "sheet" /\ <<enabled, readOnly>> # <<ppl.user.enabled, ppl.readOnly>>
    /\ ppl' = [ppl EXCEPT !.user.enabled = enabled, !.readOnly = readOnly]
    /\ srv' = [srv EXCEPT !.enabled = enabled] /\ PplSpent

Ask(kind) ==
    /\ pane = "sheet" /\ ppl.view = Menu /\ kind \in Confirmations
    /\ ~ppl.readOnly \/ kind = "traffic"
    /\ ppl' = [ppl EXCEPT !.view = IntentToView(kind, ppl.user)]
    /\ PplSpent /\ UNCHANGED srv

CancelAsk ==
    /\ pane = "sheet" /\ ppl.view # Menu /\ ppl.busy = "no"
    /\ ppl' = [ppl EXCEPT !.view = Menu] /\ PplSpent /\ UNCHANGED srv

Confirm ==
    /\ pane = "sheet" /\ ppl.view.kind \in Confirmations /\ ppl.busy = "no"
    /\ ~ppl.readOnly \/ ppl.view.kind = "traffic"
    /\ ppl' = [ppl EXCEPT !.busy = "sent"] /\ PplSpent /\ UNCHANGED srv

\* external: the panel performs what the confirmation said.
ConfirmLands ==
    /\ pane = "sheet" /\ ppl.busy = "sent"
    /\ LET what == Confirmation(ppl.view, ppl.user)
       IN  srv' = IF what.kind = "toggle" THEN [srv EXCEPT !.enabled = what.enable] ELSE srv
    /\ ppl' = [ppl EXCEPT !.busy = "landed"] /\ PplFree

\* A rotated secret is shown; the other actions close the sheet.
ConfirmAnswered ==
    /\ pane = "sheet" /\ ppl.busy = "landed"
    /\ ppl' = IF ppl.view.kind = "rotate"
              THEN [ppl EXCEPT !.busy = "no", !.view = [Menu EXCEPT !.kind = "new-secret"]]
              ELSE [ppl EXCEPT !.busy = "no", !.view = Menu]
    /\ PplFree /\ UNCHANGED srv

ConfirmFails ==
    /\ pane = "sheet" /\ ppl.busy # "no"
    /\ ppl' = [ppl EXCEPT !.busy = "no"] /\ PplSpent /\ UNCHANGED srv

-----------------------------------------------------------------------------
(* WebAccessEditor: the profiles of one user, a document with a revision    *)

WebOpened(doc) == [sess |-> DraftSessionOf(doc), save |-> "idle", sent |-> Nothing,
                   got |-> 0, conflict |-> FALSE]

OtherSavesProfiles(p) ==
    /\ pane = "web" /\ p # srv.doc /\ srv' = [rev |-> srv.rev + 1, doc |-> p]
    /\ PplSpent /\ UNCHANGED ppl

\* A refetch of the access view.
ProfilesArrive ==
    /\ pane = "web" /\ ppl' = [ppl EXCEPT !.sess = ReceiveRemote(@, srv, FALSE)]
    /\ PplSpent /\ UNCHANGED srv

EditProfiles(p) ==
    /\ pane = "web" /\ p # ppl.sess.draft
    /\ ppl' = [ppl EXCEPT !.sess.draft = p] /\ PplSpent /\ UNCHANGED srv

SaveProfiles ==
    /\ pane = "web" /\ ppl.save = "idle" /\ ppl.sess.draft # ppl.sess.baseline.doc
    /\ ppl' = [ppl EXCEPT !.save = "sent",
                          !.sent = [rev |-> ppl.sess.baseline.rev, doc |-> ppl.sess.draft]]
    /\ PplSpent /\ UNCHANGED srv

\* PUT with If-Match.
ProfilesLand ==
    /\ pane = "web" /\ ppl.save = "sent"
    /\ IF ppl.sent.rev = srv.rev
       THEN /\ srv' = [rev |-> srv.rev + 1, doc |-> ppl.sent.doc]
            /\ ppl' = [ppl EXCEPT !.save = "saved", !.got = srv'.rev]
       ELSE ppl' = [ppl EXCEPT !.save = "refused"] /\ UNCHANGED srv
    /\ PplFree

\* onSuccess acknowledges and waits for the refetch of the access view.
ProfilesSaved ==
    /\ pane = "web" /\ ppl.save = "saved"
    /\ ppl' = [ppl EXCEPT !.conflict = FALSE, !.save = "refetch",
                          !.sess = AcknowledgeSubmitted(@, ppl.sent,
                                       [rev |-> ppl.got, doc |-> ppl.sent.doc])]
    /\ PplFree /\ UNCHANGED srv

ProfilesRead ==
    /\ pane = "web" /\ ppl.save = "refetch"
    /\ ppl' = [ppl EXCEPT !.save = "idle", !.sent = Nothing, !.got = 0,
                          !.sess = ReceiveRemote(@, srv, FALSE)]
    /\ PplFree /\ UNCHANGED srv

\* A conflict reads the access view again.
ProfilesRefused ==
    /\ pane = "web" /\ ppl.save = "refused"
    /\ ppl' = [ppl EXCEPT !.save = "idle", !.sent = Nothing, !.conflict = TRUE,
                          !.sess = ReceiveRemote(@, srv, FALSE)]
    /\ PplFree /\ UNCHANGED srv

ProfilesLost ==
    /\ pane = "web" /\ ppl.save \in {"sent", "saved"}
    /\ ppl' = [ppl EXCEPT !.save = "idle", !.sent = Nothing, !.got = 0]
    /\ PplSpent /\ UNCHANGED srv

DiscardProfiles ==
    /\ pane = "web" /\ ppl.save = "idle" /\ Some(ppl.sess.remote)
    /\ ppl' = [ppl EXCEPT !.sess = DiscardToRemote(@), !.conflict = FALSE]
    /\ PplSpent /\ UNCHANGED srv

-----------------------------------------------------------------------------
(* QuotaSchedule's ScheduleForm. The common form edits the common rule; the   *)
(* form of a user picks a mode and, in mode custom, edits the user's own rule. *)

CommonRule == 1     \* the common rule, as the form of a user sees it

RuleOK(rule) == rule # MaxRule

MustValidate(mode) == mode \in {"common", "custom"}

\* What is stored, shown and edited: without a rule of its own, a user has the
\* common one.
Normal(doc) == IF MustValidate(doc.mode) THEN doc ELSE [doc EXCEPT !.rule = CommonRule]

\* asked: the debounced rule, whose preview is "fetching", "ok" or "error".
ScheduleOpened(view) ==
    [base |-> view, draft |-> view.doc, asked |-> view.doc.rule, preview |-> "fetching",
     save |-> "idle", got |-> Nothing, error |-> "no", reload |-> FALSE]

PreviewedRule(p) == Normal(p.draft).rule

\* Mutant: the preview on screen stands for the rule being edited.
WaitingForPreview(p) == p.preview = "fetching"

Waiting(p) == PreviewedRule(p) # p.asked \/ p.preview = "fetching"

ScheduleBlocked(p) == p.save # "idle"

OtherSavesRule(doc) ==
    /\ pane = "schedule" /\ doc # srv.doc /\ doc = Normal(doc) /\ RuleOK(doc.rule)
    /\ (doc.mode = "common") = (srv.doc.mode = "common")
    /\ srv' = [rev |-> srv.rev + 1, doc |-> doc] /\ PplSpent /\ UNCHANGED ppl

\* RuleEditor, which modes inherit and off do not show.
EditRule(r) ==
    /\ pane = "schedule" /\ ~ScheduleBlocked(ppl)
    /\ MustValidate(ppl.draft.mode) /\ r # ppl.draft.rule
    /\ ppl' = [ppl EXCEPT !.draft.rule = r] /\ PplSpent /\ UNCHANGED srv

\* The rule typed before stays in the form.
PickMode(mode) ==
    /\ pane = "schedule" /\ ~ScheduleBlocked(ppl)
    /\ ppl.draft.mode # "common" /\ mode # ppl.draft.mode
    /\ ppl' = [ppl EXCEPT !.draft.mode = mode] /\ PplSpent /\ UNCHANGED srv

\* useDebouncedValue, 300 ms later: a new key of the preview query.
Debounced ==
    /\ pane = "schedule" /\ PreviewedRule(ppl) # ppl.asked
    /\ ppl' = [ppl EXCEPT !.asked = PreviewedRule(ppl), !.preview = "fetching"]
    /\ PplFree /\ UNCHANGED srv

\* The query is off in mode off.
Previewed ==
    /\ pane = "schedule" /\ ppl.preview = "fetching" /\ ppl.draft.mode # "off"
    /\ ppl' = [ppl EXCEPT !.preview = IF RuleOK(ppl.asked) THEN "ok" ELSE "error"]
    /\ PplFree /\ UNCHANGED srv

RulePreviewFails ==
    /\ pane = "schedule" /\ ppl.preview = "fetching" /\ ppl.draft.mode # "off"
    /\ ppl' = [ppl EXCEPT !.preview = "error"] /\ PplSpent /\ UNCHANGED srv

\* Only the common form and mode custom wait for the preview.
SaveRule ==
    /\ pane = "schedule" /\ ~ScheduleBlocked(ppl) /\ ppl.draft # ppl.base.doc
    /\ MustValidate(ppl.draft.mode) => ~Waiting(ppl) /\ ppl.preview # "error"
    /\ ppl' = [ppl EXCEPT !.save = "sent", !.error = "no"] /\ PplSpent /\ UNCHANGED srv

\* SaveGlobal or SaveUser, with If-Match: a conflict, a refusal (an invalid rule, no
\* storage), or the document as the server stores it.
RuleLands ==
    /\ pane = "schedule" /\ ppl.save = "sent"
    /\ \/ /\ ppl.base.rev # srv.rev
          /\ ppl' = [ppl EXCEPT !.save = "conflict"] /\ UNCHANGED srv
       \/ /\ ppl.base.rev = srv.rev
          /\ ppl' = [ppl EXCEPT !.save = "refused"] /\ UNCHANGED srv
       \/ /\ ppl.base.rev = srv.rev /\ RuleOK(PreviewedRule(ppl))
          /\ srv' = [rev |-> srv.rev + 1, doc |-> Normal(ppl.draft)]
          /\ ppl' = [ppl EXCEPT !.save = "saved", !.got = srv']
    /\ PplFree

RuleSaved ==
    /\ pane = "schedule" /\ ppl.save = "saved"
    /\ ppl' = [ppl EXCEPT !.save = "idle", !.base = ppl.got, !.draft = ppl.got.doc,
                          !.got = Nothing]
    /\ PplFree /\ UNCHANGED srv

RuleRefused ==
    /\ pane = "schedule" /\ ppl.save \in {"conflict", "refused"}
    /\ ppl' = [ppl EXCEPT !.save = "idle", !.error = ppl.save] /\ PplFree /\ UNCHANGED srv

RuleLost ==
    /\ pane = "schedule" /\ ppl.save \in {"sent", "saved"}
    /\ ppl' = [ppl EXCEPT !.save = "idle", !.error = "network", !.got = Nothing]
    /\ PplSpent /\ UNCHANGED srv

ReloadRule ==
    /\ pane = "schedule" /\ ppl.error = "conflict" /\ ~ppl.reload
    /\ ppl' = [ppl EXCEPT !.reload = TRUE] /\ PplSpent /\ UNCHANGED srv

\* reload: what is stored replaces the form. A save repeated meanwhile has the
\* revision that was refused; mutation.reset drops its answer.
RuleReloaded ==
    /\ pane = "schedule" /\ ppl.reload
    /\ ppl' = [ppl EXCEPT !.reload = FALSE, !.base = srv, !.draft = srv.doc,
                          !.error = "no", !.save = "idle", !.got = Nothing]
    /\ PplFree /\ UNCHANGED srv

RuleReloadFails ==
    /\ pane = "schedule" /\ ppl.reload
    /\ ppl' = [ppl EXCEPT !.reload = FALSE] /\ PplSpent /\ UNCHANGED srv

\* One failed poll of the schedule, every 15 s, and QuotaScheduleEditor shows the
\* error in the form's place; the next answer mounts a new form. A save on its
\* way then lands as another's would.
SchedulePollFails ==
    /\ pane = "schedule" /\ ppl' = ScheduleOpened(srv) /\ PplSpent /\ UNCHANGED srv

-----------------------------------------------------------------------------
(* PersonDetail                                                             *)

\* A users frame without the user: the page says so and unmounts every editor
\* of the user; what is stored is all that a later one opens with.
UserLeaves ==
    /\ pane = "schedule" => ppl.draft.mode # "common"
    /\ ppl' = CASE pane = "form" -> [ppl EXCEPT !.open = FALSE, !.sent = << >>, !.body = << >>,
                                                !.answer = << >>]
                [] pane = "sheet" -> [ppl EXCEPT !.view = Menu, !.busy = "no"]
                [] pane = "web" -> WebOpened(srv)
                [] OTHER -> ScheduleOpened(srv)
    /\ PplSpent /\ UNCHANGED srv

-----------------------------------------------------------------------------

FirstUser == [enabled |-> TRUE, limit |-> 0, quota |-> 3]
FirstDocument == [rev |-> 1, doc |-> 1]
PersonPanes == {"form", "sheet", "web", "schedule"}

UserModes == {"inherit", "custom", "off"}

\* The common schedule, or that of a user without an exception.
FirstSchedule(mode) == [rev |-> 1, doc |-> [mode |-> mode, rule |-> CommonRule]]

PersonStart(p, mode) ==
    CASE p = "form" -> [srv |-> FirstUser, ppl |-> FormOpened(FirstUser)]
      [] p = "sheet" -> [srv |-> FirstUser, ppl |-> SheetOpened(FirstUser)]
      [] p = "web" -> [srv |-> FirstDocument, ppl |-> WebOpened(FirstDocument)]
      [] OTHER -> [srv |-> FirstSchedule(mode), ppl |-> ScheduleOpened(FirstSchedule(mode))]

PersonInit ==
    /\ pane \in PersonPanes
    /\ \E mode \in {"common", "inherit"} :
         srv = PersonStart(pane, mode).srv /\ ppl = PersonStart(pane, mode).ppl
    /\ pplLeft = MaxPplClicks

UserFormNext ==
    \/ \E n \in Limits, q \in QuotaBytes :
         OtherPatches([enabled |-> FALSE, limit |-> n, quota |-> q])
    \/ \E n \in Limits : TypeLimit(n) \/ TypeAmount(n)
    \/ \E unit \in DOMAIN Units : SelectUnit(unit)
    \/ \E unlimited \in BOOLEAN : ApplyPreset(unlimited)
    \/ ToggleEnabled \/ ClearLimit \/ ClearAmount \/ HandleSubmit \/ PatchLands
    \/ PatchAnswered \/ UserPatchFails \/ CloseForm \/ OpenForm

SheetNext ==
    \/ \E enabled, readOnly \in BOOLEAN : UserFrame(enabled, readOnly)
    \/ \E kind \in Confirmations : Ask(kind)
    \/ CancelAsk \/ Confirm \/ ConfirmLands \/ ConfirmAnswered \/ ConfirmFails

WebAccountNext ==
    \/ \E p \in 1..2 : OtherSavesProfiles(p) \/ EditProfiles(p)
    \/ ProfilesArrive \/ SaveProfiles \/ ProfilesLand \/ ProfilesSaved \/ ProfilesRead
    \/ ProfilesRefused \/ ProfilesLost \/ DiscardProfiles

ScheduleNext ==
    \/ \E doc \in [mode : UserModes \union {"common"}, rule : 1..MaxRule] : OtherSavesRule(doc)
    \/ \E r \in 1..MaxRule : EditRule(r)
    \/ \E mode \in UserModes : PickMode(mode)
    \/ Debounced \/ Previewed \/ RulePreviewFails \/ SaveRule \/ RuleLands \/ RuleSaved
    \/ RuleRefused \/ RuleLost \/ ReloadRule \/ RuleReloaded \/ RuleReloadFails
    \/ SchedulePollFails

PersonNext == UserFormNext \/ SheetNext \/ WebAccountNext \/ ScheduleNext \/ UserLeaves

-----------------------------------------------------------------------------

\* No answer takes away what the admin typed while the save was on its way: a
\* field that differs from what was submitted (UserFormSheet's inputs stay
\* enabled), a WEB draft that is neither saved nor confirmed, a schedule other
\* than the one the server stored. The code has two exceptions, which lose a draft
\* without asking: the user leaves the users frame, and one poll of the schedule fails.
LateEditsKept ==
    /\ pane = "form" /\ ppl.answer # << >> /\ ppl'.answer = << >> /\ ~UserPatchFails =>
         LET old == ppl.state  sent == ppl.sent[1]  new == ppl'.state
         IN  /\ old.enabled # sent.enabled => new.enabled = old.enabled
             /\ old.limit # sent.limit => new.limit = old.limit
             /\ QuotaOf(old) # QuotaOf(sent) => QuotaOf(new) = QuotaOf(old)
    /\ pane = "form" /\ ppl.open /\ ~ppl'.open =>
         CloseForm \/ UserLeaves \/ ppl'.state = ppl'.baseline
    /\ pane = "web" /\ ppl'.sess.draft # ppl.sess.draft =>
         \/ EditProfiles(ppl'.sess.draft) \/ DiscardProfiles \/ UserLeaves
         \/ ppl.sess.draft = ppl.sess.baseline.doc
         \/ Some(ppl.sent) /\ ppl.sess.draft = ppl.sent.doc
    /\ pane = "schedule" /\ ppl'.draft # ppl.draft =>
         \/ EditRule(ppl'.draft.rule) \/ PickMode(ppl'.draft.mode)
         \/ ppl.save = "saved" /\ ppl'.draft = Normal(ppl.draft)
         \/ RuleReloaded \/ SchedulePollFails \/ UserLeaves

\* A save changes what this admin changed and nothing else of the user: not the
\* fields another admin patched since the form was opened, and not the exact
\* byte count of a quota whose rounded amount was never edited (baseUser,
\* quotaBytesForFormSubmit).
PatchIsTheAdmins ==
    pane = "form" => \A i \in DOMAIN ppl.body : ppl.body[i][1] \in ppl.touched

\* A frame that lands during the decision does not change what is being
\* confirmed: label, styling and request stay those of the question asked.
AskedIsConfirmed ==
    pane = "sheet" /\ ppl.view # Menu /\ ppl'.view = ppl.view =>
      Confirmation(ppl'.view, ppl'.user) = Confirmation(ppl.view, ppl.user)

\* No rule is sent to take effect whose own preview has not validated it, however
\* the edits, the modes, the debounce and the previews' answers interleave
\* (ScheduleForm), and no invalid rule is ever stored. In modes inherit and off the
\* body does carry the rule typed before, which nothing has validated: the server
\* stores the common rule in its place (SaveUser).
SentRuleWasPreviewed ==
    pane = "schedule" =>
      /\ ppl.save = "sent" /\ MustValidate(ppl.draft.mode) => RuleOK(ppl.draft.rule)
      /\ RuleOK(srv.doc.rule)

=============================================================================
