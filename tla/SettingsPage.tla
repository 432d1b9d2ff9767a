----------------------------- MODULE SettingsPage -----------------------------
(***************************************************************************)
(* The settings page (web/src/server/settings) and Telemt's service control *)
(* (web/src/server/platform). Every section is a small form over a document *)
(* of the panel; the admin works in one section at a time.                  *)
(*                                                                         *)
(* A document is a number. In the storage section it is the retention, so a *)
(* smaller one is a reduction; in the access section it is a candidate for  *)
(* the panel's address and transport.                                      *)
(***************************************************************************)
EXTENDS Integers, FiniteSets

CONSTANTS
    MaxDoc,         \* bound: the documents are 1..MaxDoc
    MaxSetClicks    \* bound: clicks and inputs, refetches and faults

ASSUME SettingsPageAssumption == {MaxDoc, MaxSetClicks} \subseteq Nat

VARIABLES
    section,   \* the section the admin works in
    stored,    \* external: the panel's document, its TLS state, sessions
    setForm,      \* the section's own state
    setLeft

setVars == <<section, stored, setForm, setLeft>>

SetDocs == 1..MaxDoc
FormSections == {"storage", "geoip", "branding"}
Sections == FormSections \union {"access", "sessions", "service"}

\* A stored document has the number of its write. data: the query's; draft 0: the
\* form shows data; pending: waits for a confirmation; sent: the body in flight;
\* get: a refetch in flight; saved: the write this form knows of; off: the request
\* in flight is GeoIPSettings' Disable.
NoDoc == [doc |-> 0, rev |-> -1]
FirstDoc == [doc |-> 1, rev |-> 0]

FormMounted ==
    [data |-> FirstDoc, draft |-> 0, pending |-> 0, sent |-> 0, phase |-> "idle",
     get |-> NoDoc, error |-> FALSE, saved |-> 0, off |-> FALSE]

\* prep -1: not touched here, 0: cleared; kept -1: nothing saved here.
AccessMounted(tls) ==
    [data |-> tls, draft |-> 0, prep |-> -1, kept |-> -1, asked |-> FALSE,
     unconfirmed |-> FALSE, phase |-> "idle", sent |-> 0, error |-> FALSE]

TlsIdle == [active |-> 1, configured |-> 0, state |-> "idle", required |-> FALSE,
            prepared |-> 0]

SettingsStart(s) ==
    CASE s \in FormSections -> [stored |-> FirstDoc, setForm |-> FormMounted]
      [] s = "access" -> [stored |-> TlsIdle, setForm |-> AccessMounted(TlsIdle)]
      [] s = "sessions" ->
           [stored |-> {"me", "s1", "s2"},
            setForm |-> [list |-> {"me", "s1", "s2"}, selected |-> "none", confirm |-> "no",
                      phase |-> "idle", target |-> {}]]
      [] s = "service" ->
           [stored |-> [status |-> "running", busy |-> FALSE],
            setForm |-> [status |-> "running", busy |-> FALSE, stale |-> FALSE,
                      fetching |-> FALSE, action |-> "none", phase |-> "idle",
                      error |-> FALSE]]

SettingsInit ==
    /\ section \in Sections
    /\ stored = SettingsStart(section).stored /\ setForm = SettingsStart(section).setForm
    /\ setLeft = MaxSetClicks

SetSpend == setLeft > 0 /\ setLeft' = setLeft - 1 /\ UNCHANGED section
SetFree == UNCHANGED <<setLeft, section>>
In(s) == section \in s

-----------------------------------------------------------------------------
(* StorageSettings, GeoIPSettings, BrandingSettings                         *)

\* What the form shows: policies, config.
ShownDoc(f) == IF f.draft # 0 THEN f.draft ELSE f.data.doc
Changed(f) == ~f.error /\ ShownDoc(f) # f.data.doc

\* retentionReductions and ipHistoryLimitReduced.
RetentionReductions(previous, next) == next < previous

\* The fieldset is disabled while a save, and what it awaits, is pending.
FormEnabled(f) == ~f.error /\ f.phase = "idle" /\ f.pending = 0

OtherSaves(doc) ==
    /\ In(FormSections) /\ doc # stored.doc
    /\ stored' = [doc |-> doc, rev |-> stored.rev + 1]
    /\ SetSpend /\ UNCHANGED setForm

EditDoc(doc) ==
    /\ In(FormSections) /\ FormEnabled(setForm) /\ doc # ShownDoc(setForm)
    /\ setForm' = [setForm EXCEPT !.draft = doc] /\ SetSpend /\ UNCHANGED stored

\* The reset button of GeoIPSettings, the closed sheet of BrandingSettings.
ResetDoc ==
    /\ In(FormSections \ {"storage"}) /\ setForm.phase = "idle" /\ setForm.draft # 0
    /\ setForm' = [setForm EXCEPT !.draft = 0] /\ SetSpend /\ UNCHANGED stored

Send(f, doc) == [f EXCEPT !.phase = "sent", !.sent = doc]

\* A reduction of the storage policy waits for its confirmation.
SaveDoc ==
    /\ In(FormSections) /\ FormEnabled(setForm) /\ Changed(setForm)
    /\ setForm' = IF section = "storage" /\ RetentionReductions(setForm.data.doc, ShownDoc(setForm))
               THEN [setForm EXCEPT !.pending = ShownDoc(setForm)]
               ELSE Send(setForm, ShownDoc(setForm))
    /\ SetSpend /\ UNCHANGED stored

\* Disable sends the configuration in the cache, switched off, with no regard to
\* the draft; the switch itself is left out of the document.
DisableGeoip ==
    /\ In({"geoip"}) /\ setForm.phase = "idle"
    /\ setForm' = [Send(setForm, setForm.data.doc) EXCEPT !.off = TRUE]
    /\ SetSpend /\ UNCHANGED stored

ConfirmReduction ==
    /\ In({"storage"}) /\ setForm.pending # 0 /\ setForm.phase = "idle"
    /\ setForm' = Send(setForm, setForm.pending) /\ SetSpend /\ UNCHANGED stored

CancelReduction ==
    /\ In({"storage"}) /\ setForm.pending # 0 /\ setForm.phase = "idle"
    /\ setForm' = [setForm EXCEPT !.pending = 0] /\ SetSpend /\ UNCHANGED stored

SaveLands ==
    /\ In(FormSections) /\ setForm.phase = "sent"
    /\ stored' = [doc |-> setForm.sent, rev |-> stored.rev + 1]
    /\ setForm' = [setForm EXCEPT !.phase = "landed", !.saved = stored.rev + 1] /\ SetFree

\* Mutant: the draft is dropped before the list has been read again.
StorageResetsFirst(f) ==
    [f EXCEPT !.phase = "refetch", !.pending = 0, !.draft = 0]

\* StorageSettings keeps the draft until its query has been read again.
StorageSaved(f) == [f EXCEPT !.phase = "refetch", !.pending = 0]

\* GeoIPSettings' accepted and BrandingSettings put the answer in the cache.
SaveAnswered ==
    /\ In(FormSections) /\ setForm.phase = "landed"
    /\ setForm' = IF section = "storage" THEN StorageSaved(setForm)
               ELSE [setForm EXCEPT !.phase = "idle", !.draft = 0, !.sent = 0, !.off = FALSE,
                                 !.data = [doc |-> setForm.sent, rev |-> setForm.saved]]
    /\ SetFree /\ UNCHANGED stored

SaveRefused ==
    /\ In(FormSections) /\ setForm.phase \in {"sent", "landed"}
    /\ setForm' = [setForm EXCEPT !.phase = "idle", !.sent = 0, !.off = FALSE]
    /\ SetSpend /\ UNCHANGED stored

\* A refetch; the one a save awaits replaces any that is in flight.
DocAsked ==
    /\ In(FormSections) /\ setForm.get = NoDoc /\ setForm.phase # "refetching"
    /\ setForm' = [setForm EXCEPT !.get = stored] /\ SetSpend /\ UNCHANGED stored

DocInvalidated ==
    /\ In({"storage"}) /\ setForm.phase = "refetch"
    /\ setForm' = [setForm EXCEPT !.get = stored, !.phase = "refetching"]
    /\ SetFree /\ UNCHANGED stored

AfterFetch(f) ==
    IF f.phase = "refetching" THEN [f EXCEPT !.phase = "idle", !.draft = 0, !.sent = 0] ELSE f

DocArrives ==
    /\ In(FormSections) /\ setForm.get # NoDoc
    /\ setForm' = AfterFetch([setForm EXCEPT !.data = setForm.get, !.get = NoDoc, !.error = FALSE])
    /\ SetFree /\ UNCHANGED stored

\* With an error the page shows nothing of the document but a retry.
DocFails ==
    /\ In(FormSections) /\ setForm.get # NoDoc
    /\ setForm' = AfterFetch([setForm EXCEPT !.get = NoDoc, !.error = section = "storage"])
    /\ SetSpend /\ UNCHANGED stored

SetFormNext ==
    \/ \E doc \in SetDocs : OtherSaves(doc) \/ EditDoc(doc)
    \/ ResetDoc \/ SaveDoc \/ DisableGeoip \/ ConfirmReduction \/ CancelReduction
    \/ SaveLands \/ SaveAnswered \/ SaveRefused
    \/ DocAsked \/ DocInvalidated \/ DocArrives \/ DocFails

-----------------------------------------------------------------------------
(* PanelAccessForm.tsx, TransportStatus.tsx                                 *)

CreatePanelAccessDraft(tls) == IF tls.configured # 0 THEN tls.configured ELSE tls.active
AccessDraft(a) == IF a.draft # 0 THEN a.draft ELSE CreatePanelAccessDraft(a.data)
PreparedCandidate(a) == IF a.prep = -1 THEN a.data.prepared ELSE a.prep

RestartFinished(a) ==
    (a.asked \/ a.unconfirmed) /\ a.data.state = "idle" /\ ~a.data.required

\* The saved change that waits for a restart; 0 is none.
Saved(a) ==
    CASE RestartFinished(a) -> 0
      [] ~RestartFinished(a) /\ a.kept = -1 -> IF a.data.required THEN a.data.configured ELSE 0
      [] OTHER -> a.kept

LockedForRestart(a) == a.data.required \/ Saved(a) # 0
RestartFailed(a) == a.data.state = "restart_failed"
RestartRequested(a) == ~RestartFailed(a) /\ (a.asked \/ a.data.state = "restarting")

\* Which part of the sheet is on screen.
AccessView(a) ==
    CASE LockedForRestart(a) -> IF Saved(a) # 0 THEN "saved" ELSE "locked"
      [] ~LockedForRestart(a) /\ PreparedCandidate(a) # 0 -> "prepared"
      [] OTHER -> "form"

AccessEditable(a) == AccessView(a) = "form" /\ a.phase # "prepare"

Access(a) == setForm' = a
OnServer == UNCHANGED stored

EditAccess(doc) ==
    /\ In({"access"}) /\ AccessEditable(setForm) /\ doc # AccessDraft(setForm)
    /\ Access([setForm EXCEPT !.draft = doc, !.prep = 0, !.error = FALSE])
    /\ SetSpend /\ OnServer

OnPrepare ==
    /\ In({"access"}) /\ AccessEditable(setForm)
    /\ Access([setForm EXCEPT !.phase = "prepare", !.sent = AccessDraft(setForm), !.error = FALSE])
    /\ SetSpend /\ OnServer

PrepareAnswered(ok) ==
    /\ In({"access"}) /\ setForm.phase = "prepare"
    /\ stored' = IF ok THEN [stored EXCEPT !.prepared = setForm.sent] ELSE stored
    /\ Access([setForm EXCEPT !.phase = "idle", !.sent = 0, !.error = ~ok,
                           !.prep = IF ok THEN setForm.sent ELSE @])
    /\ IF ok THEN SetFree ELSE SetSpend

EditSettings ==
    /\ In({"access"}) /\ AccessView(setForm) = "prepared" /\ setForm.phase = "idle"
    /\ Access([setForm EXCEPT !.prep = 0]) /\ SetSpend /\ OnServer

OnApply ==
    /\ In({"access"}) /\ AccessView(setForm) = "prepared" /\ setForm.phase = "idle"
    /\ Access([setForm EXCEPT !.phase = "apply", !.sent = PreparedCandidate(setForm), !.error = FALSE])
    /\ SetSpend /\ OnServer

PutAccessAnswered(ok) ==
    /\ In({"access"}) /\ setForm.phase = "apply"
    /\ IF ok
       THEN LET tls == [stored EXCEPT !.configured = setForm.sent, !.state = "saved",
                                      !.required = TRUE, !.prepared = 0]
            IN  /\ stored' = tls
                /\ Access([setForm EXCEPT !.phase = "idle", !.kept = setForm.sent, !.prep = 0,
                             !.sent = 0, !.data.configured = setForm.sent,
                             !.data.state = "saved", !.data.required = TRUE])
       ELSE Access([setForm EXCEPT !.phase = "idle", !.sent = 0, !.error = TRUE]) /\ OnServer
    /\ IF ok THEN SetFree ELSE SetSpend

OnRestart ==
    /\ In({"access"}) /\ AccessView(setForm) = "saved" /\ ~RestartRequested(setForm)
    /\ setForm.phase = "idle"
    /\ Access([setForm EXCEPT !.phase = "restart", !.unconfirmed = FALSE, !.asked = FALSE,
                           !.error = FALSE])
    /\ SetSpend /\ OnServer

\* Accepted, refused with a code, or the old address is gone before it answers.
RestartAnswered(how) ==
    /\ In({"access"}) /\ setForm.phase = "restart"
    /\ how # "refused" => stored.required
    /\ stored' = IF how = "refused" THEN stored
                 ELSE [stored EXCEPT !.state = "restarting"]
    /\ Access(CASE how = "accepted" ->
                     [setForm EXCEPT !.phase = "idle", !.asked = TRUE, !.data.state = "restarting"]
                [] how = "refused" -> [setForm EXCEPT !.phase = "idle", !.error = TRUE]
                [] how = "lost" -> [setForm EXCEPT !.phase = "idle", !.unconfirmed = TRUE])
    /\ IF how = "accepted" THEN SetFree ELSE SetSpend

\* External: the panel restarts on what was saved, or fails to.
PanelRestarts(ok) ==
    /\ In({"access"}) /\ stored.state = "restarting"
    /\ stored' = IF ok THEN [stored EXCEPT !.state = "idle", !.active = stored.configured,
                                           !.required = FALSE]
                 ELSE [stored EXCEPT !.state = "restart_failed"]
    /\ IF ok THEN SetFree ELSE SetSpend
    /\ UNCHANGED setForm

\* Another administrator prepares or saves an address, or restarts the panel on it.
OtherAccess(doc) ==
    /\ In({"access"})
    /\ \/ stored' = [stored EXCEPT !.prepared = doc]
       \/ stored' = [stored EXCEPT !.configured = doc, !.state = "saved", !.required = TRUE,
                                   !.prepared = 0]
       \/ stored.required /\ stored' = [stored EXCEPT !.state = "restarting"]
    /\ SetSpend /\ UNCHANGED setForm

AccessRefetched ==
    /\ In({"access"}) /\ setForm.data # stored
    /\ Access([setForm EXCEPT !.data = stored]) /\ SetFree /\ OnServer

\* Refused while a save or a restart is pending; a preparation is aborted.
CloseAccess ==
    /\ In({"access"}) /\ setForm.phase \in {"idle", "prepare"}
    /\ Access(AccessMounted(stored)) /\ SetSpend /\ OnServer

AccessNext ==
    \/ \E doc \in SetDocs : EditAccess(doc) \/ OtherAccess(doc)
    \/ OnPrepare \/ EditSettings \/ OnApply \/ OnRestart \/ AccessRefetched \/ CloseAccess
    \/ \E ok \in BOOLEAN : PrepareAnswered(ok) \/ PutAccessAnswered(ok) \/ PanelRestarts(ok)
    \/ \E how \in {"accepted", "refused", "lost"} : RestartAnswered(how)

-----------------------------------------------------------------------------
(* SettingsPage.tsx and SessionSheet.tsx                                    *)

\* The current session cannot be revoked from the sheet.
SelectSession(x) ==
    /\ In({"sessions"}) /\ x \in setForm.list /\ setForm.selected = "none" /\ setForm.phase = "idle"
    /\ setForm' = [setForm EXCEPT !.selected = x] /\ SetSpend /\ UNCHANGED stored

CloseSessionSheet ==
    /\ In({"sessions"}) /\ setForm.selected # "none"
    /\ setForm' = [setForm EXCEPT !.selected = "none", !.confirm = "no"]
    /\ SetSpend /\ UNCHANGED stored

AskRevoke(what) ==
    /\ In({"sessions"}) /\ setForm.confirm = "no"
    /\ CASE what = "one" -> setForm.selected \notin {"none", "me"}
         [] what = "others" -> setForm.selected = "none" /\ setForm.list # {"me"}
         [] what = "logout" -> setForm.selected = "none"
    /\ setForm' = [setForm EXCEPT !.confirm = what] /\ SetSpend /\ UNCHANGED stored

RevokeSession ==
    /\ In({"sessions"}) /\ setForm.confirm # "no" /\ setForm.phase = "idle"
    /\ setForm' = [setForm EXCEPT !.phase = setForm.confirm,
                  !.target = CASE setForm.confirm = "one" -> {setForm.selected}
                               [] setForm.confirm = "others" -> stored \ {"me"}
                               [] setForm.confirm = "logout" -> {"me"}]
    /\ SetSpend /\ UNCHANGED stored

\* On success both lists are read again.
RevokeAnswered(ok) ==
    /\ In({"sessions"}) /\ setForm.phase # "idle"
    /\ stored' = IF ok THEN stored \ setForm.target ELSE stored
    /\ setForm' = IF ok
               THEN [setForm EXCEPT !.phase = "idle", !.target = {}, !.list = stored',
                       !.selected = IF setForm.phase = "one" THEN "none" ELSE @,
                       !.confirm = IF setForm.phase = "one" \/ @ = setForm.phase THEN "no" ELSE @]
               ELSE [setForm EXCEPT !.phase = "idle", !.target = {}]
    /\ IF ok THEN SetFree ELSE SetSpend

SessionsNext ==
    \/ \E x \in {"me", "s1", "s2"} : SelectSession(x)
    \/ CloseSessionSheet \/ RevokeSession
    \/ \E what \in {"one", "others", "logout"} : AskRevoke(what)
    \/ \E ok \in BOOLEAN : RevokeAnswered(ok)

-----------------------------------------------------------------------------
(* TelemtServiceControl.tsx                                                 *)

ServiceStatus(f) == IF f.stale THEN "unknown" ELSE f.status
ServiceBlocked(f) == f.phase # "idle" \/ f.fetching \/ f.stale \/ f.busy
Already(f, next) ==
    \/ next = "start" /\ ServiceStatus(f) = "running"
    \/ next = "stop" /\ ServiceStatus(f) = "stopped"

ServiceMoves(status, busy) ==
    /\ In({"service"}) /\ [status |-> status, busy |-> busy] # stored
    /\ stored' = [status |-> status, busy |-> busy] /\ SetSpend /\ UNCHANGED setForm

\* Polled, and read again by the button and after every command.
ServiceAsked ==
    /\ In({"service"}) /\ ~setForm.fetching
    /\ setForm' = [setForm EXCEPT !.fetching = TRUE] /\ SetSpend /\ UNCHANGED stored

ServiceArrives(ok) ==
    /\ In({"service"}) /\ setForm.fetching
    /\ setForm' = IF ok THEN [setForm EXCEPT !.fetching = FALSE, !.stale = FALSE,
                             !.status = stored.status, !.busy = stored.busy]
               ELSE [setForm EXCEPT !.fetching = FALSE, !.stale = TRUE]
    /\ SetFree /\ UNCHANGED stored

ChooseCommand(next) ==
    /\ In({"service"}) /\ setForm.action = "none" /\ ~ServiceBlocked(setForm) /\ ~Already(setForm, next)
    /\ setForm' = [setForm EXCEPT !.action = next, !.error = FALSE] /\ SetSpend /\ UNCHANGED stored

CancelCommand ==
    /\ In({"service"}) /\ setForm.action # "none" /\ setForm.phase = "idle"
    /\ setForm' = [setForm EXCEPT !.action = "none"] /\ SetSpend /\ UNCHANGED stored

SendCommand ==
    /\ In({"service"}) /\ setForm.action # "none" /\ ~ServiceBlocked(setForm)
    /\ setForm' = [setForm EXCEPT !.phase = "sent"] /\ SetSpend /\ UNCHANGED stored

CommandAnswered(ok) ==
    /\ In({"service"}) /\ setForm.phase = "sent"
    /\ ok => ~stored.busy
    /\ stored' = IF ok THEN [stored EXCEPT !.status =
                               IF setForm.action = "stop" THEN "stopped" ELSE "running"]
                 ELSE stored
    /\ setForm' = [setForm EXCEPT !.phase = "idle", !.fetching = TRUE, !.error = ~ok,
                            !.action = IF ok THEN "none" ELSE @]
    /\ SetFree

ServiceNext ==
    \/ \E status \in {"running", "stopped"}, busy \in BOOLEAN : ServiceMoves(status, busy)
    \/ ServiceAsked \/ CancelCommand \/ SendCommand
    \/ \E ok \in BOOLEAN : ServiceArrives(ok) \/ CommandAnswered(ok)
    \/ \E next \in {"start", "stop", "restart"} : ChooseCommand(next)

SettingsNext == SetFormNext \/ AccessNext \/ SessionsNext \/ ServiceNext

-----------------------------------------------------------------------------
(* Properties                                                               *)

\* What the admin typed into a form goes away only by their own hand or by the
\* success of the request that carried exactly that; an address that has been
\* checked and is offered for saving is the one that was typed (the disabled
\* fieldsets, edit and onPrepare of PanelAccessForm). The one exception is in the
\* code: the answer to GeoIPSettings' Disable takes an unsaved draft away.
SettingsDraftsKept ==
    /\ section \in FormSections =>
         \/ setForm'.draft = setForm.draft \/ EditDoc(setForm'.draft) \/ ResetDoc
         \/ setForm.phase # "idle" /\ (setForm.draft = setForm.sent \/ setForm.off)
    /\ section = "access" /\ setForm'.prep > 0 /\ setForm'.draft # 0 =>
         setForm'.prep = setForm'.draft

\* After a save the storage section never shows policies older than the ones
\* it saved, whatever refetch is in flight: the draft covers the old list
\* until a new one has arrived (onSuccess of StorageSettings).
SavedIsShown ==
    section = "storage" /\ setForm.phase \in {"idle", "refetch", "refetching"} /\ setForm.draft = 0
        => setForm.error \/ setForm.data.rev >= setForm.saved

=============================================================================
