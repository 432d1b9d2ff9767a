------------------------------ MODULE AutoUpdate ------------------------------
(***************************************************************************)
(* The auto-update policy form (web/src/server/updates/AutoUpdateForm.tsx). *)
(* The policy has no revision: the form saves with a PUT and then reads the *)
(* policy again, while refetches of the same query and other administrators *)
(* get in between. A policy is a number; what the admin sees of it is its   *)
(* two modes and the interval.                                              *)
(***************************************************************************)
EXTENDS Naturals, Sequences, DraftSession

CONSTANTS
    Policies,    \* the policies the form can hold
    MaxAuto      \* bound: inputs and clicks, refetches, others' writes, faults

ASSUME AutoUpdateAssumption == MaxAuto \in Nat

VARIABLES
    policy,      \* the stored policy
    auto,        \* AutoUpdateSession: the draft session, the cache, the save
    autoLeft

autoVars == <<policy, auto, autoLeft>>

\* A version of a document without revisions.
Bare(p) == [rev |-> 0, doc |-> p]

AutoMounted(p) ==
    [sess |-> DraftSessionOf(Bare(p)), seen |-> p, cache |-> p, bg |-> << >>,
     save |-> "idle", sent |-> Nothing, before |-> Nothing, changed |-> FALSE,
     fresh |-> << >>]

AutoInit ==
    /\ policy \in Policies
    /\ auto = AutoMounted(policy)
    /\ autoLeft = MaxAuto

AutoSpend == autoLeft > 0 /\ autoLeft' = autoLeft - 1

\* useDraftSession's effect: query data that differs from the last one seen.
Received(a) ==
    IF a.cache = a.seen THEN a
    ELSE [a EXCEPT !.seen = a.cache, !.sess = ReceiveRemote(@, Bare(a.cache), FALSE)]

AutoDirty(a) == a.sess.draft # a.sess.baseline.doc

OtherSetsPolicy(p) ==
    /\ p # policy /\ policy' = p /\ AutoSpend /\ UNCHANGED auto

\* A refetch of the query: on focus or on reconnection.
PolicyAsked ==
    /\ auto.bg = << >> /\ auto' = [auto EXCEPT !.bg = <<policy>>]
    /\ AutoSpend /\ UNCHANGED policy

PolicyArrives ==
    /\ auto.bg # << >>
    /\ auto' = Received([auto EXCEPT !.cache = auto.bg[1], !.bg = << >>,
                                     !.changed = TRUE])
    /\ UNCHANGED <<policy, autoLeft>>

\* ModeRow and the interval.
SetForm(p) ==
    /\ p # auto.sess.draft /\ auto' = [auto EXCEPT !.sess.draft = p]
    /\ AutoSpend /\ UNCHANGED policy

\* DraftSessionActions.
DiscardPolicy ==
    /\ Some(auto.sess.remote) /\ auto.save = "idle"
    /\ auto' = [auto EXCEPT !.sess = DiscardToRemote(@)]
    /\ AutoSpend /\ UNCHANGED policy

SavePolicy ==
    /\ AutoDirty(auto) /\ auto.save = "idle"
    /\ auto' = [auto EXCEPT !.save = "put", !.sent = Bare(auto.sess.draft)]
    /\ AutoSpend /\ UNCHANGED policy

PutLands ==
    /\ auto.save = "put" /\ policy' = auto.sent.doc
    /\ auto' = [auto EXCEPT !.save = "landed"] /\ UNCHANGED autoLeft

\* onSuccess: what was submitted is confirmed, refetches in flight are
\* cancelled, and the policy is read again.
PutAnswered ==
    /\ auto.save = "landed"
    /\ LET acked == AcknowledgeSubmitted(auto.sess, auto.sent, auto.sent)
       IN  auto' = [auto EXCEPT !.sess = acked, !.before = acked.remote, !.changed = FALSE,
                                !.bg = << >>, !.save = "read"]
    /\ UNCHANGED <<policy, autoLeft>>

FreshAsked ==
    /\ auto.save = "read" /\ auto' = [auto EXCEPT !.save = "reading", !.fresh = <<policy>>]
    /\ UNCHANGED <<policy, autoLeft>>

SaveEnds(a) ==
    [a EXCEPT !.save = "idle", !.sent = Nothing, !.before = Nothing, !.changed = FALSE,
              !.fresh = << >>]

\* The post-save GET supersedes the remote retained before it started; a
\* refetch that overtook it and disagrees makes it void.
FreshAnswered ==
    /\ auto.save = "reading"
    /\ LET fresh == auto.fresh[1]
           confirmed == AcknowledgeSubmitted(auto.sess, auto.sent, Bare(fresh))
           kept == IF auto.sess.remote = auto.before
                   THEN [confirmed EXCEPT !.remote = Nothing] ELSE confirmed
       IN  auto' = IF auto.changed /\ auto.cache # fresh THEN SaveEnds(auto)
                   ELSE SaveEnds(Received([auto EXCEPT !.sess = kept, !.cache = fresh]))
    /\ UNCHANGED <<policy, autoLeft>>

\* The PUT is refused or its answer lost, or the GET after it fails.
SaveFails ==
    /\ auto.save # "idle" /\ auto' = SaveEnds(auto)
    /\ AutoSpend /\ UNCHANGED policy

\* One failed refetch of /updates and UpdatesPage shows the error in the place of
\* the page; the retry mounts a new form on the policy in the cache. The effect of
\* unmounting forgets the save: its PUT then lands as another's would.
PageFails ==
    /\ auto' = [AutoMounted(auto.cache) EXCEPT !.bg = auto.bg]
    /\ AutoSpend /\ UNCHANGED policy

AutoNext ==
    \/ \E p \in Policies : OtherSetsPolicy(p) \/ SetForm(p)
    \/ PolicyAsked \/ PolicyArrives \/ DiscardPolicy \/ SavePolicy \/ PutLands
    \/ PutAnswered \/ FreshAsked \/ FreshAnswered \/ SaveFails \/ PageFails

-----------------------------------------------------------------------------

\* No answer takes away a policy the admin chose and has not saved: a draft
\* that differs from the confirmed policy and from what is being saved changes
\* only by the admin's own choice or discard, whichever of the PUT's answer,
\* the GET after it and the refetches arrives first (AutoUpdateSession). The one
\* exception is in the code: a failed refetch of /updates takes the form, and an
\* unsaved draft with it, off the page.
PolicyDraftKept ==
    \/ auto'.sess.draft = auto.sess.draft
    \/ SetForm(auto'.sess.draft) \/ DiscardPolicy \/ PageFails \/ ~AutoDirty(auto)
    \/ auto.save # "idle" /\ auto.sess.draft = auto.sent.doc

=============================================================================
