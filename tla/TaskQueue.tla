------------------------------ MODULE TaskQueue -----------------------------
(***************************************************************************)
(* What the queue between the API and the scanners promises to both: tasks  *)
(* are kept in the order of their arrival and none is lost or changed; a    *)
(* task is retired only after some scanner has been through with it; and    *)
(* a new consumer may bring every task back.                                *)
(***************************************************************************)
EXTENDS Naturals, Sequences

CONSTANTS
    Tasks,      \* what can be queued
    Leftovers   \* the contents the queue may start with

VARIABLES
    tasks,      \* the queue; a task is known by its position
    handled,    \* tasks that some scanner has been through with
    done        \* tasks that are not delivered any more

vars == <<tasks, handled, done>>

Init == tasks \in Leftovers /\ handled = {} /\ done = {}

Add(t) ==
    /\ tasks' = Append(tasks, t)
    /\ UNCHANGED <<handled, done>>

Handle(i) ==
    /\ i \in 1..Len(tasks)
    /\ handled' = handled \cup {i}
    /\ UNCHANGED <<tasks, done>>

Retire(i) ==
    /\ i \in handled
    /\ done' = done \cup {i}
    /\ UNCHANGED <<tasks, handled>>

Restart ==
    /\ done' = {}
    /\ UNCHANGED <<tasks, handled>>

Next ==
    \/ \E t \in Tasks : Add(t)
    \/ \E i \in 1..Len(tasks) : Handle(i) \/ Retire(i)
    \/ Restart

Spec == Init /\ [][Next]_vars
=============================================================================
