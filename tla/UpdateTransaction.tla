-------------------------- MODULE UpdateTransaction --------------------------
(***************************************************************************)
(* What internal/update promises about a host: an accepted update is one   *)
(* transaction. It changes the installed binary of its target (and, for    *)
(* the panel, lets the new version write the panel's data) at one instant, *)
(* or it changes nothing; and only one update is under way at a time.      *)
(***************************************************************************)
CONSTANTS Versions, Files, Targets, Panel, NoJob

VARIABLES
    host,   \* installed binaries, and per file the versions that wrote it
    job     \* the accepted update <<target, version>>, or NoJob

Init == /\ \E v \in Versions : host = [bin  |-> [t \in Targets |-> v],
                                       data |-> [f \in Files |-> {v}]]
        /\ job = NoJob

Accept(t, v) == /\ job = NoJob
                /\ job' = <<t, v>>
                /\ UNCHANGED host

\* The new version is installed and, if it is the panel, has opened the data.
Commit(t, v) ==
    /\ job = <<t, v>>
    /\ job' = NoJob
    /\ host' = [bin  |-> [host.bin EXCEPT ![t] = v],
                data |-> [f \in Files |-> IF t = Panel THEN host.data[f] \cup {v}
                                                       ELSE host.data[f]]]

Abort == /\ job # NoJob
         /\ job' = NoJob
         /\ UNCHANGED host

Next == \/ \E t \in Targets, v \in Versions : Accept(t, v) \/ Commit(t, v)
        \/ Abort

Spec == Init /\ [][Next]_<<host, job>>
=============================================================================
