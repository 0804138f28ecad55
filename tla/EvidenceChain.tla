---------------------------- MODULE EvidenceChain --------------------------
(***************************************************************************)
(* What a chain of evidence epochs promises to a verifier who follows it    *)
(* from epoch 1: every epoch's log only grows, and the genesis of an epoch  *)
(* commits, once and for all, to a state its predecessor's log really had.  *)
(* How a repository's jobs and its owner get there is EvidenceRotation.     *)
(***************************************************************************)
EXTENDS Naturals, Sequences

CONSTANTS Entries, MaxEpoch

VARIABLES
    last,    \* the newest published epoch
    logs,    \* the log of every epoch; empty before it is published
    links    \* for a published epoch, what its genesis commits to

Init ==
    /\ last = 1
    /\ logs = [e \in 1..MaxEpoch |-> <<>>]
    /\ links = [e \in 1..MaxEpoch |-> <<>>]

Add(e, entry) ==
    /\ e <= last
    /\ logs' = [logs EXCEPT ![e] = Append(@, entry)]
    /\ UNCHANGED <<last, links>>

\* The next epoch is published.  Its genesis links to a prefix of the last
\* log: all of it, or a shorter history that the owner trusts.
Link(n) ==
    /\ last < MaxEpoch
    /\ last' = last + 1
    /\ links' = [links EXCEPT ![last + 1] = SubSeq(logs[last], 1, n)]
    /\ UNCHANGED logs

Next ==
    \/ \E e \in 1..MaxEpoch, entry \in Entries : Add(e, entry)
    \/ \E n \in 0..Len(logs[last]) : Link(n)

Spec == Init /\ [][Next]_<<last, logs, links>>
=============================================================================
