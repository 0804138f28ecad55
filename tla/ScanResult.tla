------------------------------ MODULE ScanResult ----------------------------
(***************************************************************************)
(* One scan of the Action mode and the attestation made from it:            *)
(* "gatekeeper scan" (internal/engine, runScan), the code it hands to the   *)
(* record job (action.yml, gatekeeper.yml), and the verdict that            *)
(* "gatekeeper record" signs (buildEvent).                                  *)
(*                                                                         *)
(* gitleaks reports its findings in an order of its own and repeats a       *)
(* finding for every line it is on.  The result has to be the same for      *)
(* every scan of a tree, so it is sorted and repetitions are dropped, in    *)
(* place: the slice "out" shares the array of the slice it is read from.    *)
(* Names and fingerprints are numbers; only their order matters.            *)
(***************************************************************************)
EXTENDS Naturals, Sequences, Functions

CONSTANTS
    Files, RuleIDs, Fingerprints,  \* what a finding is made of
    MaxFindings,                   \* bound: how many findings gitleaks reports
    NoResult                       \* there is no result.json

Finding == [file : Files, rule : RuleIDs, fingerprint : Fingerprints]
Found == UNION {[1..m -> Finding] : m \in 0..MaxFindings}

ASSUME ConstantsAssumption ==
    /\ Files \subseteq Nat /\ RuleIDs \subseteq Nat /\ Fingerprints \subseteq Nat
    /\ MaxFindings \in Nat

ASSUME NoResultAssumption == NoResult \notin Found

VARIABLES
    event,     \* what started the workflow
    pc,        \* where the scan and the jobs are
    raw,       \* what gitleaks has reported
    array,     \* the array behind the slices "findings" and "out"
    i,         \* the position of the loop over "findings"
    kept,      \* the length of "out"
    result,    \* the findings in result.json
    code,      \* the scan step's output "code"
    attested   \* the signed test results

vars == <<event, pc, raw, array, i, kept, result, code, attested>>

Verdict == [outcome : {"PASSED", "FAILED"}, failed : SUBSET RuleIDs, findings : Found]

TypeOK ==
    /\ event \in {"push", "pull_request"}
    /\ pc \in {"detect", "sort", "dedupe", "write", "exited", "over"}
    /\ raw \in Found
    /\ array \in Found
    /\ i \in 1..(MaxFindings + 1)
    /\ kept \in 0..MaxFindings
    /\ result \in Found \cup {NoResult}
    /\ code \in {"", "0", "1", "2"}
    /\ attested \subseteq Verdict

Init ==
    /\ event \in {"push", "pull_request"}
    /\ pc = "detect"
    /\ raw = <<>>
    /\ array = <<>>
    /\ i = 1
    /\ kept = 0
    /\ result = NoResult
    /\ code = ""
    /\ attested = {}
-----------------------------------------------------------------------------
\* The order of sortAndDedupe: by file, then rule, then fingerprint.
Less(f, g) ==
    \/ f.file < g.file
    \/ f.file = g.file /\ f.rule < g.rule
    \/ f.file = g.file /\ f.rule = g.rule /\ f.fingerprint < g.fingerprint

Sorted(s) == \A k, l \in 1..Len(s) : k < l => ~Less(s[l], s[k])

\* gitleaks scans the directory and Scan copies what it reports.
DetectSecrets(found) ==
    /\ pc = "detect"
    /\ raw' = found
    /\ pc' = "sort"
    /\ UNCHANGED <<event, array, i, kept, result, code, attested>>

\* The gitleaks version is unknown, the scan fails, or a path is not relative
\* to the directory: exit code 2 and no result.json.
ScanFails ==
    /\ pc = "detect"
    /\ code' = "2"
    /\ pc' = "exited"
    /\ UNCHANGED <<event, raw, array, i, kept, result, attested>>

\* Mutant: findings of one rule in one file are left in any order.
Sort_NoFingerprint ==
    /\ pc = "sort"
    /\ \E p \in Bijection(DOMAIN raw, DOMAIN raw) :
           array' = [k \in DOMAIN raw |-> raw[p[k]]]
    /\ \A k, l \in DOMAIN array' : k < l =>
           \/ array'[k].file < array'[l].file
           \/ array'[k].file = array'[l].file /\ array'[k].rule <= array'[l].rule
    /\ pc' = "dedupe"
    /\ UNCHANGED <<event, raw, i, kept, result, code, attested>>

Sort ==
    /\ pc = "sort"
    /\ \E p \in Bijection(DOMAIN raw, DOMAIN raw) :
           array' = [k \in DOMAIN raw |-> raw[p[k]]]
    /\ Sorted(array')
    /\ pc' = "dedupe"
    /\ UNCHANGED <<event, raw, i, kept, result, code, attested>>

\* The finding at i differs from the last one kept.
IsNew == i > 1 => array[i] # array[kept]

\* Mutant: "out" starts as the whole slice instead of its empty prefix.
Keep_Appends ==
    /\ pc = "dedupe" /\ i <= Len(array)
    /\ IsNew
    /\ array' = Append(array, array[i])
    /\ kept' = kept + 1
    /\ i' = i + 1
    /\ UNCHANGED <<event, pc, raw, result, code, attested>>

Keep ==
    /\ pc = "dedupe" /\ i <= Len(array)
    /\ IsNew
    /\ array' = [array EXCEPT ![kept + 1] = array[i]]
    /\ kept' = kept + 1
    /\ i' = i + 1
    /\ UNCHANGED <<event, pc, raw, result, code, attested>>

Drop ==
    /\ pc = "dedupe" /\ i <= Len(array)
    /\ ~IsNew
    /\ i' = i + 1
    /\ UNCHANGED <<event, pc, raw, array, kept, result, code, attested>>

EndDedupe ==
    /\ pc = "dedupe" /\ i > Len(array)
    /\ pc' = "write"
    /\ UNCHANGED <<event, raw, array, i, kept, result, code, attested>>
-----------------------------------------------------------------------------
\* The slice that sortAndDedupe returns.
Findings == SubSeq(array, 1, kept)

WriteResult ==
    /\ pc = "write"
    /\ result' = Findings
    /\ code' = IF Len(Findings) > 0 THEN "1" ELSE "0"
    /\ pc' = "exited"
    /\ UNCHANGED <<event, raw, array, i, kept, attested>>

\* os.WriteFile returns an error: the file may be absent, or cut short, which
\* nobody can decode, or all of it may be there.
WriteFails ==
    /\ pc = "write"
    /\ result' \in {NoResult, Findings}
    /\ code' = "2"
    /\ pc' = "exited"
    /\ UNCHANGED <<event, raw, array, i, kept, attested>>

\* The scan job is cancelled or its runner is lost: there is no output, though
\* result.json may have been written.
ScanJobLost ==
    /\ pc \in {"detect", "sort", "dedupe", "write"}
    /\ \/ UNCHANGED result
       \/ pc = "write" /\ result' = Findings
    /\ pc' = "exited"
    /\ UNCHANGED <<event, raw, array, i, kept, code, attested>>
-----------------------------------------------------------------------------
\* Mutant: the record job only looks whether the scan step is over.
RecordJobRuns_AnyCode == code # "" /\ event = "push"

\* The "if" of the record job; the scan job's own failure does not stop it.
RecordJobRuns == code \in {"0", "1"} /\ event = "push"

\* What buildEvent makes of a result: FailedTests are its rules, each once.
VerdictOf(findings) ==
    [outcome |-> IF Len(findings) > 0 THEN "FAILED" ELSE "PASSED",
     failed |-> {findings[k].rule : k \in DOMAIN findings},
     findings |-> findings]

Record ==
    /\ pc = "exited"
    /\ RecordJobRuns
    /\ result # NoResult
    /\ attested' = attested \cup {VerdictOf(result)}
    /\ pc' = "over"
    /\ UNCHANGED <<event, raw, array, i, kept, result, code>>

\* The job is skipped, or fails before it signs anything.
NotRecorded ==
    /\ pc = "exited"
    /\ pc' = "over"
    /\ UNCHANGED <<event, raw, array, i, kept, result, code, attested>>

Next ==
    \/ \E found \in Found : DetectSecrets(found)
    \/ ScanFails \/ Sort \/ Keep \/ Drop \/ EndDedupe
    \/ WriteResult \/ WriteFails \/ ScanJobLost
    \/ Record \/ NotRecorded

Spec == Init /\ [][Next]_vars
-----------------------------------------------------------------------------
(***************************************************************************)
(* The canonical form of a set of findings: each once, in increasing order. *)
(* A set has one such form, whatever order it was reported in.              *)
(***************************************************************************)
Canonical(s, set) ==
    /\ \A k, l \in DOMAIN s : k < l => Less(s[k], s[l])
    /\ Range(s) = set

\* result.json is the canonical form of what gitleaks reported: nothing lost,
\* nothing twice, no trace of the order, although the loop overwrites the
\* array it reads (sortAndDedupe).
ResultIsCanonical == result # NoResult => Canonical(result, Range(raw))

\* A verdict is signed only for a push whose scan ran to its end (never for one
\* that broke down, even if it left an intact result.json behind), and says
\* PASSED exactly if gitleaks reported nothing; its failed tests are the rules
\* of what was reported (action.yml's code, the record job's "if", buildEvent).
VerdictIsTheScans ==
    \A v \in attested :
        /\ event = "push" /\ code \in {"0", "1"}
        /\ v.outcome = "PASSED" <=> raw = <<>>
        /\ v.failed = {raw[k].rule : k \in DOMAIN raw}
        /\ v.findings = result
=============================================================================
