---------------------------- MODULE EvidenceLog ----------------------------
(***************************************************************************)
(* What the evidence branch of one epoch promises to an auditor            *)
(* (docs/adr/0001-action-evidence.md, decision A): a log that only ever     *)
(* grows, one entry at a time, and that holds at most one entry for a       *)
(* given run_id and run_attempt.  How CI jobs get there is EvidencePush.    *)
(***************************************************************************)
EXTENDS Sequences, Naturals

CONSTANT Jobs   \* the (run_id, run_attempt) pairs that may be recorded

VARIABLE log    \* the jobs recorded so far, in the order of the log's entries

Recorded == {log[i] : i \in 1..Len(log)}

Init == log = <<>>

(***************************************************************************)
(* One entry is appended, for a job the log does not hold yet.              *)
(***************************************************************************)
Add(j) ==
    /\ j \notin Recorded
    /\ log' = Append(log, j)

Next == \E j \in Jobs : Add(j)

Spec == Init /\ [][Next]_log
=============================================================================
