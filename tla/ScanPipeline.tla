----------------------------- MODULE ScanPipeline ---------------------------
(***************************************************************************)
(* The scan pipeline of the cloud mode: the API publishes a task for every  *)
(* push it admits (cmd/api), a JetStream stream keeps it, and the scanners  *)
(* (cmd/scanner) take tasks as one queue group, scan the repository, store  *)
(* the findings, open an issue and acknowledge the task.                    *)
(*                                                                         *)
(* The stream and its consumer are NATS's.  A task that is not acknowledged *)
(* within AckWait is delivered again, to any scanner of the group, even if  *)
(* the first one still works on it or has it in its buffer.  The consumer   *)
(* belongs to the scanner whose QueueSubscribe created it: the Unsubscribe  *)
(* of that scanner deletes it, and the next one to be created starts again  *)
(* from the first task of the stream, which keeps every task.               *)
(***************************************************************************)
EXTENDS Naturals, Sequences, FiniteSets

CONSTANTS
    Pushes,         \* admitted push events
    Poison,         \* a task of an earlier version, without a repository name
    Workers,        \* scanner processes
    Kept,           \* the creator of the consumer crashed: it is never deleted
    NoConsumer,     \* there is no consumer
    Leaks,          \* how many secrets gitleaks finds in a repository with any
    Faults,         \* which faults may happen
    MaxFaults,      \* bound: how many faults happen
    MaxDeliveries,  \* bound: how often one task is delivered
    MaxTasks        \* bound: how many tasks the stream holds

FaultKinds == {"publish", "mkdir", "gone", "network", "engine", "report",
               "db", "github", "ack", "slow", "crash", "stop"}

ASSUME ConstantsAssumption ==
    /\ IsFiniteSet(Pushes) /\ IsFiniteSet(Workers)
    /\ Poison \notin Pushes
    /\ Kept \notin Workers /\ NoConsumer \notin Workers \cup {Kept}
    /\ Leaks \in Nat \ {0}
    /\ Faults \subseteq FaultKinds
    /\ MaxFaults \in Nat
    /\ MaxDeliveries \in Nat \ {0} /\ MaxTasks \in Nat \ {0}

Task == 1..MaxTasks
Finding == Task \X (1..Leaks)
Working == {"clone", "scan", "report", "issue", "ack"}
Ends == {"poison", "gone", "network", "clean", "engine", "unreadable", "reported"}

VARIABLES
    stream,      \* the tasks of the stream; a task is known by its position
    accepted,    \* pushes answered with 202
    consumer,    \* the scanner that deletes the consumer, Kept or NoConsumer
    attached,    \* scanners whose subscription the consumer delivers to
    sent,        \* tasks the consumer has delivered
    due,         \* delivered tasks it has to deliver again
    acked,       \* tasks that have been acknowledged to it
    deliveries,  \* how often each task was delivered, by any consumer
    held,        \* the tasks in each scanner's hands, the current one first
    pc,          \* where each scanner is in its handler
    next,        \* the finding of the report that the scanner stores next
    saved,       \* savedCount of parseReport
    rows,        \* how often each finding is in scan_findings
    issues,      \* how many issues were opened for each task
    outcome,     \* how the handlers have ended for each task
    unsaved,     \* findings for which SaveFinding has returned an error
    faults       \* how many faults have happened

queue == <<stream, accepted>>
broker == <<consumer, attached, sent, due, acked, deliveries>>
scanner == <<held, pc, next, saved>>
results == <<rows, issues, outcome, unsaved>>
vars == <<queue, broker, scanner, results, faults>>

Queued == 1..Len(stream)

TypeOK ==
    /\ stream \in Seq(Pushes \cup {Poison}) /\ Len(stream) <= MaxTasks
    /\ accepted \subseteq Pushes
    /\ consumer \in Workers \cup {Kept, NoConsumer}
    /\ attached \subseteq Workers
    /\ sent \subseteq Queued
    /\ due \subseteq sent
    /\ acked \subseteq sent \ due
    /\ deliveries \in [Task -> 0..MaxDeliveries]
    /\ held \in [Workers -> Seq(Queued)]
    /\ pc \in [Workers -> {"down", "idle"} \cup Working]
    /\ next \in [Workers -> 1..(Leaks + 1)]
    /\ saved \in [Workers -> 0..Leaks]
    /\ rows \in [Finding -> Nat]
    /\ issues \in [Task -> Nat]
    /\ outcome \in [Task -> SUBSET Ends]
    /\ unsaved \subseteq Finding
    /\ faults \in 0..MaxFaults

Init ==
    /\ stream \in {<<>>, <<Poison>>}
    /\ accepted = {}
    /\ consumer = NoConsumer
    /\ attached = {} /\ sent = {} /\ due = {} /\ acked = {}
    /\ deliveries = [i \in Task |-> 0]
    /\ held = [w \in Workers |-> <<>>]
    /\ pc = [w \in Workers |-> "down"]
    /\ next = [w \in Workers |-> 1]
    /\ saved = [w \in Workers |-> 0]
    /\ rows = [f \in Finding |-> 0]
    /\ issues = [i \in Task |-> 0]
    /\ outcome = [i \in Task |-> {}]
    /\ unsaved = {}
    /\ faults = 0

Fault(kind) ==
    /\ kind \in Faults
    /\ faults < MaxFaults
    /\ faults' = faults + 1

Goto(w, label) == pc' = [pc EXCEPT ![w] = label]
Current(w) == held[w][1]
-----------------------------------------------------------------------------
(***************************************************************************)
(* The end of HandleWebhook: AddStream, then Publish.  A push that was not  *)
(* answered with 202 may be sent again from GitHub's delivery log.          *)
(***************************************************************************)
Publish(p) ==
    /\ p \notin accepted
    /\ Len(stream) < MaxTasks
    /\ stream' = Append(stream, p)
    /\ \/ accepted' = accepted \cup {p} /\ UNCHANGED faults
       \/ Fault("publish") /\ UNCHANGED accepted   \* the stream's answer is lost
    /\ UNCHANGED <<broker, scanner, results>>

PublishFails(p) ==
    /\ p \notin accepted
    /\ Fault("publish")
    /\ UNCHANGED <<queue, broker, scanner, results>>
-----------------------------------------------------------------------------
(***************************************************************************)
(* A scanner starts and subscribes.  QueueSubscribe needs the stream, which *)
(* only the API creates: a scanner that is started before the first task    *)
(* exits at once.                                                           *)
(***************************************************************************)
Attach(w) ==
    /\ consumer # NoConsumer
    /\ attached' = attached \cup {w}
    /\ UNCHANGED <<consumer, sent, due, acked, deliveries>>

CreateConsumer(w) ==
    /\ consumer = NoConsumer
    /\ consumer' = w
    /\ attached' = {w}
    /\ sent' = {} /\ due' = {} /\ acked' = {}
    /\ UNCHANGED deliveries

Start(w) ==
    /\ pc[w] = "down"
    /\ stream # <<>>
    /\ Attach(w) \/ CreateConsumer(w)
    /\ Goto(w, "idle")
    /\ UNCHANGED <<queue, held, next, saved, results, faults>>

\* The process is gone, and with it the tasks it had been sent.
ProcessEnds(w) ==
    /\ pc[w] # "down"
    /\ Goto(w, "down")
    /\ held' = [held EXCEPT ![w] = <<>>]
    /\ next' = [next EXCEPT ![w] = 1]
    /\ saved' = [saved EXCEPT ![w] = 0]
    /\ UNCHANGED <<queue, sent, due, acked, deliveries, results>>

Crash(w) ==
    /\ Fault("crash")
    /\ consumer' = IF consumer = w THEN Kept ELSE consumer
    /\ attached' = attached \ {w}
    /\ ProcessEnds(w)

\* SIGTERM: main returns, and the deferred Unsubscribe runs; it does not wait
\* for the handler.
Stop(w) ==
    /\ Fault("stop")
    /\ consumer' = IF consumer = w THEN NoConsumer ELSE consumer
    /\ attached' = IF consumer = w THEN {} ELSE attached \ {w}
    /\ ProcessEnds(w)
-----------------------------------------------------------------------------
(***************************************************************************)
(* The consumer.                                                            *)
(***************************************************************************)
Deliver(i, w) ==
    /\ w \in attached
    /\ i \in Queued
    /\ i \notin sent \/ i \in due
    /\ deliveries[i] < MaxDeliveries
    /\ sent' = sent \cup {i}
    /\ due' = due \ {i}
    /\ deliveries' = [deliveries EXCEPT ![i] = @ + 1]
    /\ held' = [held EXCEPT ![w] = Append(@, i)]
    /\ UNCHANGED <<queue, consumer, attached, acked, pc, next, saved, results, faults>>

IsHeld(i) == \E w \in Workers : \E k \in 1..Len(held[w]) : held[w][k] = i

Redeliver(i) ==
    /\ i \in sent \ (acked \cup due)
    /\ due' = due \cup {i}
    /\ UNCHANGED <<queue, consumer, attached, sent, acked, deliveries, scanner, results>>

\* AckWait is over for a task that no scanner has any more.
AckWaitOver(i) ==
    /\ ~IsHeld(i)
    /\ Redeliver(i)
    /\ UNCHANGED faults

\* AckWait is over while a scanner works on the task or has it in its buffer.
AckWaitTooShort(i) ==
    /\ IsHeld(i)
    /\ Fault("slow")
    /\ Redeliver(i)
-----------------------------------------------------------------------------
(***************************************************************************)
(* The handler.  It ends by giving up the current task; m.Ack() and m.Nak() *)
(* count only for a task the present consumer has delivered.                *)
(***************************************************************************)
EndHandler(w) ==
    /\ held' = [held EXCEPT ![w] = Tail(@)]
    /\ next' = [next EXCEPT ![w] = 1]
    /\ saved' = [saved EXCEPT ![w] = 0]
    /\ Goto(w, "idle")

Ended(w, end) ==
    /\ outcome' = [outcome EXCEPT ![Current(w)] = @ \cup {end}]
    /\ UNCHANGED <<rows, issues, unsaved>>

\* Mutant: the task is acknowledged when it is taken, as without ManualAck.
Begin_AckFirst(w) ==
    /\ pc[w] = "idle" /\ held[w] # <<>>
    /\ Goto(w, "clone")
    /\ acked' = acked \cup (sent \cap {Current(w)})
    /\ due' = due \ {Current(w)}
    /\ UNCHANGED <<queue, consumer, attached, sent, deliveries, held, next, saved, results, faults>>

\* Unmarshal, the check for a poison pill, MkdirAll, and the validation,
\* which every task passes that the API of today has published.
Begin(w) ==
    /\ pc[w] = "idle" /\ held[w] # <<>>
    /\ \/ /\ stream[Current(w)] = Poison
          /\ Ended(w, "poison")
          /\ Goto(w, "ack")
       \/ /\ stream[Current(w)] # Poison
          /\ Goto(w, "clone")
          /\ UNCHANGED results
    /\ UNCHANGED <<queue, broker, held, next, saved, faults>>

MkdirFails(w) ==
    /\ pc[w] = "idle" /\ held[w] # <<>>
    /\ stream[Current(w)] # Poison
    /\ Fault("mkdir")
    /\ due' = due \cup ((sent \ acked) \cap {Current(w)})   \* m.Nak()
    /\ EndHandler(w)
    /\ UNCHANGED <<queue, consumer, attached, sent, acked, deliveries, results>>

Clone(w) ==
    /\ pc[w] = "clone"
    /\ Goto(w, "scan")
    /\ UNCHANGED <<queue, broker, held, next, saved, results, faults>>

\* git clone fails: the repository is gone, or the network or GitHub is down.
CloneFails(w, cause) ==
    /\ pc[w] = "clone"
    /\ Fault(cause)
    /\ Ended(w, cause)
    /\ Goto(w, "ack")
    /\ UNCHANGED <<queue, broker, held, next, saved>>

\* Mutant: m.Ack() only on the path of a scan that found something.
ScanClean_NotAcked(w) ==
    /\ pc[w] = "scan"
    /\ Ended(w, "clean")
    /\ EndHandler(w)
    /\ UNCHANGED <<queue, broker, faults>>

\* gitleaks exits with 0.
ScanClean(w) ==
    /\ pc[w] = "scan"
    /\ Ended(w, "clean")
    /\ Goto(w, "ack")
    /\ UNCHANGED <<queue, broker, held, next, saved, faults>>

\* It exits with 1, and parseReport reads the report.
ScanLeaks(w) ==
    /\ pc[w] = "scan"
    /\ Goto(w, "report")
    /\ UNCHANGED <<queue, broker, held, next, saved, results, faults>>

\* It exits with 1, but parseReport cannot read or decode the report; or it
\* cannot be started, or exits with another code.
ScanFails(w, kind, end) ==
    /\ pc[w] = "scan"
    /\ Fault(kind)
    /\ Ended(w, end)
    /\ Goto(w, "ack")
    /\ UNCHANGED <<queue, broker, held, next, saved>>
-----------------------------------------------------------------------------
(***************************************************************************)
(* parseReport: one SaveFinding per finding, an error is logged and the     *)
(* loop goes on; then one issue, if anything was saved.                     *)
(***************************************************************************)
FindingOf(w) == <<Current(w), next[w]>>

\* Mutant: the loop runs once too often.
SaveFinding_OneMore(w) ==
    /\ pc[w] = "report" /\ next[w] <= Leaks + 1
    /\ rows' = [rows EXCEPT ![FindingOf(w)] = @ + 1]
    /\ saved' = [saved EXCEPT ![w] = @ + 1]
    /\ next' = [next EXCEPT ![w] = @ + 1]
    /\ UNCHANGED <<queue, broker, held, pc, issues, outcome, unsaved, faults>>

SaveFinding(w) ==
    /\ pc[w] = "report" /\ next[w] <= Leaks
    /\ rows' = [rows EXCEPT ![FindingOf(w)] = @ + 1]
    /\ saved' = [saved EXCEPT ![w] = @ + 1]
    /\ next' = [next EXCEPT ![w] = @ + 1]
    /\ UNCHANGED <<queue, broker, held, pc, issues, outcome, unsaved, faults>>

\* Mutant: the loop is left at the first error.
SaveFails_Stops(w) ==
    /\ pc[w] = "report" /\ next[w] <= Leaks
    /\ Fault("db")
    /\ rows' \in {rows, [rows EXCEPT ![FindingOf(w)] = @ + 1]}
    /\ unsaved' = unsaved \cup {FindingOf(w)}
    /\ next' = [next EXCEPT ![w] = Leaks + 1]
    /\ UNCHANGED <<queue, broker, held, pc, saved, issues, outcome>>

\* Mutant: the insert is tried again.
SaveFails_Retries(w) ==
    /\ pc[w] = "report" /\ next[w] <= Leaks
    /\ Fault("db")
    /\ rows' \in {rows, [rows EXCEPT ![FindingOf(w)] = @ + 1]}
    /\ unsaved' = unsaved \cup {FindingOf(w)}
    /\ UNCHANGED <<queue, broker, held, pc, next, saved, issues, outcome>>

\* The insert fails, or its answer is lost after the row was written.
SaveFails(w) ==
    /\ pc[w] = "report" /\ next[w] <= Leaks
    /\ Fault("db")
    /\ rows' \in {rows, [rows EXCEPT ![FindingOf(w)] = @ + 1]}
    /\ unsaved' = unsaved \cup {FindingOf(w)}
    /\ next' = [next EXCEPT ![w] = @ + 1]
    /\ UNCHANGED <<queue, broker, held, pc, saved, issues, outcome>>

EndReport(w) ==
    /\ pc[w] = "report" /\ next[w] > Leaks
    /\ Ended(w, "reported")
    /\ Goto(w, IF saved[w] > 0 THEN "issue" ELSE "ack")
    /\ UNCHANGED <<queue, broker, held, next, saved, faults>>

CreateIssue(w) ==
    /\ pc[w] = "issue"
    /\ issues' = [issues EXCEPT ![Current(w)] = @ + 1]
    /\ Goto(w, "ack")
    /\ UNCHANGED <<queue, broker, held, next, saved, rows, outcome, unsaved, faults>>

\* No token, no connection, or a status other than 201.
CreateIssueFails(w) ==
    /\ pc[w] = "issue"
    /\ Fault("github")
    /\ issues' \in {issues, [issues EXCEPT ![Current(w)] = @ + 1]}
    /\ Goto(w, "ack")
    /\ UNCHANGED <<queue, broker, held, next, saved, rows, outcome, unsaved>>
-----------------------------------------------------------------------------
\* m.Ack() of the current task; its error is ignored.
Ack(w) ==
    /\ pc[w] = "ack"
    /\ acked' = acked \cup (sent \cap {Current(w)})
    /\ due' = due \ {Current(w)}
    /\ EndHandler(w)
    /\ UNCHANGED <<queue, consumer, attached, sent, deliveries, results, faults>>

AckLost(w) ==
    /\ pc[w] = "ack"
    /\ Fault("ack")
    /\ EndHandler(w)
    /\ UNCHANGED <<queue, broker, results>>

Handle(w) ==
    \/ Begin(w) \/ MkdirFails(w)
    \/ Clone(w) \/ CloneFails(w, "gone") \/ CloneFails(w, "network")
    \/ ScanClean(w) \/ ScanLeaks(w)
    \/ ScanFails(w, "report", "unreadable") \/ ScanFails(w, "engine", "engine")
    \/ SaveFinding(w) \/ SaveFails(w) \/ EndReport(w)
    \/ CreateIssue(w) \/ CreateIssueFails(w)
    \/ Ack(w) \/ AckLost(w)

Next ==
    \/ \E p \in Pushes : Publish(p) \/ PublishFails(p)
    \/ \E w \in Workers : Start(w) \/ Crash(w) \/ Stop(w) \/ Handle(w)
    \/ \E i \in Task, w \in Workers : Deliver(i, w)
    \/ \E i \in Task : AckWaitOver(i) \/ AckWaitTooShort(i)

Spec == Init /\ [][Next]_vars

(***************************************************************************)
(* A handler's calls return, and the broker delivers what is due.  Nothing  *)
(* makes anybody push, and nothing makes a scanner start: a rolling update  *)
(* attaches the replacement before it stops the old scanner, so after the   *)
(* stop of the consumer's creator there need be nobody left to start.       *)
(***************************************************************************)
FairSpec ==
    /\ Spec
    /\ \A w \in Workers : WF_vars(Handle(w))
    /\ \A i \in Task : /\ WF_vars(\E w \in Workers : Deliver(i, w))
                       /\ WF_vars(AckWaitOver(i))
-----------------------------------------------------------------------------
\* Stream, consumers and scanners together implement the abstract queue: no
\* crash, stop, lost acknowledgement or second delivery loses or reorders a
\* task, or retires one that no handler has brought to an end (manual
\* acknowledgement, m.Ack() last).
Queue == INSTANCE TaskQueue WITH
             Tasks <- Pushes, Leftovers <- {<<>>, <<Poison>>}, tasks <- stream,
             handled <- {i \in Task : outcome[i] # {}}, done <- acked

ImplementsQueue == Queue!Spec

\* A failed insert costs one finding: a handled report has a row for every
\* other one (parseReport's loop goes on after an error).
ReportIsComplete ==
    \A f \in Finding :
        ("reported" \in outcome[f[1]] /\ f \notin unsaved) => rows[f] > 0

\* A finding is stored, and an issue opened, at most once per delivery, and a
\* task is delivered more than once only after a fault.
RepeatsArePaid ==
    /\ \A f \in Finding : rows[f] <= deliveries[f[1]]
    /\ \A i \in Task : issues[i] <= deliveries[i] /\ deliveries[i] <= faults + 1

\* Every task in the stream is acknowledged in the end, whatever fails on the
\* way and however often scanners crash or are stopped, unless the consumer is
\* left without a scanner for good: the Unsubscribe of its creator detaches all
\* others, which go on running but never subscribe again (main.go:165).
EventuallyAcked ==
    []<>(attached # {}) => \A i \in Task : i \in Queued ~> i \in acked

\* A task is dropped after a failed clone only if cloning again cannot succeed
\* (comment at cmd/scanner/main.go:133).
OnlyDeterministicFailuresDropped == \A i \in acked : outcome[i] # {"network"}
=============================================================================
