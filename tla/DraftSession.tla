----------------------------- MODULE DraftSession -----------------------------
(***************************************************************************)
(* lib/draftSession.ts: a draft over a versioned document that others may   *)
(* change. A versioned document is [rev, doc]; rev 0 is the null revision   *)
(* of a document that has none. "remote" is a version that was received and *)
(* not taken, because it would have cost the draft.                         *)
(***************************************************************************)
EXTENDS Integers

Nothing == [rev |-> -1]         \* null
Some(x) == x.rev # -1

DraftSessionOf(fresh) == [baseline |-> fresh, draft |-> fresh.doc, remote |-> Nothing]

\* A fresh read: the same again, evidence next to an unconfirmed write, the
\* canonical form of the confirmed revision, or news.
ReceiveRemote(s, fresh, preserve) ==
    CASE fresh = s.baseline -> s
      [] fresh # s.baseline /\ preserve -> [s EXCEPT !.remote = fresh]
      [] fresh # s.baseline /\ ~preserve /\ fresh.rev # 0 /\ fresh.rev = s.baseline.rev ->
           [s EXCEPT !.baseline = fresh,
                     !.draft = IF @ = s.baseline.doc THEN fresh.doc ELSE @,
                     !.remote = IF @.rev = fresh.rev THEN Nothing ELSE @]
      [] OTHER ->
           IF ~Some(s.remote) /\ s.draft = s.baseline.doc
           THEN [s EXCEPT !.baseline = fresh, !.draft = fresh.doc]
           ELSE [s EXCEPT !.remote = fresh]

\* Mutant: the answer to a save replaces the draft.
AcknowledgeOver(s, submitted, confirmed) ==
    [s EXCEPT !.baseline = confirmed, !.draft = confirmed.doc, !.remote = Nothing]

AcknowledgeSubmitted(s, submitted, confirmed) ==
    LET canonical == IF s.remote.rev > 0 /\ s.remote.rev = confirmed.rev
                     THEN s.remote ELSE confirmed
    IN  [s EXCEPT !.baseline = canonical,
                  !.draft = IF @ = submitted.doc THEN canonical.doc ELSE @,
                  !.remote = IF @ = canonical THEN Nothing ELSE @]

DiscardToRemote(s) ==
    LET base == IF Some(s.remote) THEN s.remote ELSE s.baseline
    IN  DraftSessionOf(base)

=============================================================================
