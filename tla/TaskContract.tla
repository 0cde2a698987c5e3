---------------------------- MODULE TaskContract ----------------------------
(***************************************************************************)
(* What the scheduler promises to a task that sleeps until a condition     *)
(* holds, whatever CPUs, locks and interrupts are involved: its stack is   *)
(* in use by one CPU at a time, it runs only while it is awake, and once   *)
(* the condition is true it does not stay asleep after the last wakeup     *)
(* call has returned.  SchedSMP implements this specification.             *)
(***************************************************************************)
EXTENDS Integers

CONSTANTS CPU, Task

VARIABLES
    stack,    \* per CPU: the tasks whose kernel stack it is using
    asleep,   \* the tasks that are blocked
    cond,     \* per task: the condition it waits for
    calls     \* per task: wakeup calls that have not returned

vars == <<stack, asleep, cond, calls>>

InUse == UNION {stack[c] : c \in CPU}

Init ==
    /\ stack = [c \in CPU |-> {}]
    /\ asleep = {}
    /\ cond = [p \in Task |-> FALSE]
    /\ calls = [p \in Task |-> 0]

\* CPU c starts to run an awake task that no CPU is using; the task it ran may
\* block, unless its condition is true and nobody is going to wake it.
Switch(c) ==
    /\ \E next \in SUBSET (Task \ (asleep \cup InUse)) :
          stack' = [stack EXCEPT ![c] = @ \cup next]
    /\ \E blocked \in SUBSET stack[c] :
          /\ \A p \in blocked : cond[p] => calls[p] > 0
          /\ asleep' = asleep \cup blocked
    /\ UNCHANGED <<cond, calls>>

\* CPU c is done with tasks it ran.
Leave(c) ==
    /\ \E gone \in SUBSET stack[c] : stack' = [stack EXCEPT ![c] = @ \ gone]
    /\ UNCHANGED <<asleep, cond, calls>>

\* A running task finds its condition true.
Consume(p) ==
    /\ p \in InUse \ asleep /\ cond[p]
    /\ cond' = [cond EXCEPT ![p] = FALSE]
    /\ UNCHANGED <<stack, asleep, calls>>

Call(p) ==
    /\ cond' = [cond EXCEPT ![p] = TRUE]
    /\ calls' = [calls EXCEPT ![p] = @ + 1]
    /\ UNCHANGED <<stack, asleep>>

\* A task is made runnable only on behalf of a wakeup call.
Wake(p) ==
    /\ p \in asleep /\ calls[p] > 0
    /\ asleep' = asleep \ {p}
    /\ UNCHANGED <<stack, cond, calls>>

\* The last call returns only if p is awake or has nothing to wake up for.
Return(p) ==
    /\ calls[p] > 0
    /\ p \in asleep /\ cond[p] => calls[p] > 1
    /\ calls' = [calls EXCEPT ![p] = @ - 1]
    /\ UNCHANGED <<stack, asleep, cond>>

Next ==
    \/ \E c \in CPU : Switch(c) \/ Leave(c)
    \/ \E p \in Task : Consume(p) \/ Call(p) \/ Wake(p) \/ Return(p)

Spec == Init /\ [][Next]_vars

=============================================================================
