---------------------------- MODULE ShellStatus ----------------------------
(***************************************************************************)
(* The shell of ASS2/myshell.c and the children it starts: which child     *)
(* each of its three waits collects, and what `$?' then shows.             *)
(*                                                                         *)
(* The main loop waits for a foreground command with waitpid(child_pid)    *)
(* and for the `ps' of the jobs command with wait(NULL); the SIGCHLD       *)
(* handler collects any one child with waitpid(-1).  SIGCHLD is not        *)
(* queued: children that end while it is pending share one run of the      *)
(* handler.  A wait that sleeps in the kernel looks at the children before *)
(* it looks at signals; a signal for some other child interrupts it, the   *)
(* handler runs and the wait is restarted (signal() sets SA_RESTART).      *)
(***************************************************************************)
EXTENDS Naturals, FiniteSets

CONSTANTS
    Child,      \* processes that the shell may start
    Code,       \* exit codes
    NULL

ASSUME StatusAssumption == IsFiniteSet(Child) /\ 0 \in Code /\ Code \subseteq Nat

VARIABLES
    pc,            \* where main is
    child,         \* per process: not yet "free", "running", "zombie" or "gone"
    code,          \* per process: its exit code
    child_pid,     \* the child that main waits for
    child_status,  \* what $? shows
    pending,       \* SIGCHLD is pending
    in_handler,    \* the handler has been entered
    merged,        \* history: children that ended while SIGCHLD was pending
    early          \* history: main was not asleep in the kernel when child_pid ended

vars == <<pc, child, code, child_pid, child_status, pending, in_handler, merged, early>>

Zombies == {c \in Child : child[c] = "zombie"}
Children == {c \in Child : child[c] \in {"running", "zombie"}}

\* main runs between two system calls, or is about to enter one.
MainRuns == ~in_handler /\ pc \notin {"asleep", "waiting", "exited"}

Init ==
    /\ pc = "prompt"
    /\ child = [c \in Child |-> "free"]
    /\ code = [c \in Child |-> 0]
    /\ child_pid = NULL
    /\ child_status = 0
    /\ pending = FALSE /\ in_handler = FALSE
    /\ merged = 0 /\ early = FALSE

-----------------------------------------------------------------------------
\* A command line, after get_cmd_line and parse.  cd and exit start no child;
\* an empty line changes nothing.

\* exit leaves the children to init.
cmd_exit ==
    /\ MainRuns /\ pc = "prompt"
    /\ pc' = "exited"
    /\ UNCHANGED <<child, code, child_pid, child_status, pending, in_handler, merged, early>>

\* cd in the foreground: status stays 0.
cmd_cd ==
    /\ MainRuns /\ pc = "prompt"
    /\ child_status' = 0
    /\ UNCHANGED <<pc, child, code, child_pid, pending, in_handler, merged, early>>

\* A command, or cd, in the background: nobody waits for it.
cmd_background(c) ==
    /\ MainRuns /\ pc = "prompt" /\ child[c] = "free"
    /\ child' = [child EXCEPT ![c] = "running"]
    /\ child_status' = 0
    /\ UNCHANGED <<pc, code, child_pid, pending, in_handler, merged, early>>

\* A command in the foreground, or jobs: fork, then a wait.
cmd_fork(c, where) ==
    /\ MainRuns /\ pc = "prompt" /\ child[c] = "free"
    /\ child' = [child EXCEPT ![c] = "running"]
    /\ child_pid' = c /\ pc' = where
    /\ early' = FALSE
    /\ UNCHANGED <<code, child_status, pending, in_handler, merged>>

cmd_foreground(c) == cmd_fork(c, "waitpid")
cmd_jobs(c) == cmd_fork(c, "wait")

-----------------------------------------------------------------------------
\* Faulty variant: status is not set to 0 for every command line.
Collected_Stale(c) == IF child[c] = "zombie" THEN code[c] ELSE child_status

\* The status that waitpid(child_pid, &status) leaves: it fails if somebody
\* else has collected the child, and status keeps its 0.
Collected(c) == IF child[c] = "zombie" THEN code[c] ELSE 0

\* waitpid(child_pid, &status, 0) and child_status = status.
main_waitpid ==
    /\ ~in_handler /\ pc \in {"waitpid", "asleep"} /\ child[child_pid] # "running"
    /\ child' = [child EXCEPT ![child_pid] = "gone"]
    /\ child_status' = Collected(child_pid)
    /\ child_pid' = NULL /\ pc' = "prompt"
    /\ UNCHANGED <<code, pending, in_handler, merged, early>>

main_waitpid_sleep ==
    /\ MainRuns /\ pc = "waitpid" /\ child[child_pid] = "running"
    /\ pc' = "asleep"
    /\ UNCHANGED <<child, code, child_pid, child_status, pending, in_handler, merged, early>>

\* A signal for another child: the handler runs, and waitpid is entered again.
main_waitpid_interrupted ==
    /\ pc = "asleep" /\ pending /\ child[child_pid] = "running"
    /\ pc' = "waitpid"
    /\ UNCHANGED <<child, code, child_pid, child_status, pending, in_handler, merged, early>>

\* Faulty variant: jobs waits until there is no child left.
jobs_wait_All ==
    /\ ~in_handler /\ pc \in {"wait", "waiting"}
    /\ \/ \E c \in Zombies : child' = [child EXCEPT ![c] = "gone"] /\ pc' = "wait"
       \/ Children = {} /\ pc' = "read" /\ UNCHANGED child
    /\ UNCHANGED <<code, child_pid, child_status, pending, in_handler, merged, early>>

\* wait(NULL): whichever child has ended; fails if there is no child.
jobs_wait ==
    /\ ~in_handler /\ pc \in {"wait", "waiting"}
    /\ \/ \E c \in Zombies : child' = [child EXCEPT ![c] = "gone"]
       \/ Children = {} /\ UNCHANGED child
    /\ pc' = "read"
    /\ UNCHANGED <<code, child_pid, child_status, pending, in_handler, merged, early>>

jobs_wait_sleep ==
    /\ MainRuns /\ pc = "wait" /\ Zombies = {} /\ Children # {}
    /\ pc' = "waiting"
    /\ UNCHANGED <<child, code, child_pid, child_status, pending, in_handler, merged, early>>

\* read(fd[0]) returns once ps has written or has ended; then the listing.
jobs_read ==
    /\ MainRuns /\ pc = "read"
    /\ child_status' = 0
    /\ child_pid' = NULL /\ pc' = "prompt"
    /\ UNCHANGED <<child, code, pending, in_handler, merged, early>>

-----------------------------------------------------------------------------
\* A child ends.
child_exit(c, n) ==
    /\ child[c] = "running"
    /\ child' = [child EXCEPT ![c] = "zombie"]
    /\ code' = [code EXCEPT ![c] = n]
    /\ pending' = (pc # "exited")
    /\ merged' = IF pending THEN merged + 1 ELSE merged
    /\ early' = (early \/ (c = child_pid /\ pc \notin {"asleep", "waiting"}))
    /\ UNCHANGED <<pc, child_pid, child_status, in_handler>>

\* The handler is entered, with SIGCHLD blocked ...
handler ==
    /\ MainRuns /\ pending
    /\ pending' = FALSE /\ in_handler' = TRUE
    /\ UNCHANGED <<pc, child, code, child_pid, child_status, merged, early>>

\* ... and waitpid(-1, NULL, WNOHANG) collects one child, whichever it is.
handler_waitpid ==
    /\ in_handler
    /\ in_handler' = FALSE
    /\ \/ \E c \in Zombies : child' = [child EXCEPT ![c] = "gone"]
       \/ Zombies = {} /\ UNCHANGED child
    /\ UNCHANGED <<pc, code, child_pid, child_status, pending, merged, early>>

-----------------------------------------------------------------------------
Next ==
    \/ cmd_exit \/ cmd_cd
    \/ \E c \in Child : cmd_background(c) \/ cmd_foreground(c) \/ cmd_jobs(c)
    \/ main_waitpid \/ main_waitpid_sleep \/ main_waitpid_interrupted
    \/ jobs_wait \/ jobs_wait_sleep \/ jobs_read
    \/ \E c \in Child, n \in Code : child_exit(c, n)
    \/ handler \/ handler_waitpid

Spec == Init /\ [][Next]_vars

-----------------------------------------------------------------------------
\* "last process exit status": after a foreground command $? is its exit code.
\* The window in which it is not: the command had ended before main fell asleep
\* in waitpid, or while main was running the handler for another child; the
\* handler may then have collected it, and $? is 0 as if it had succeeded.
StatusReported ==
    [][(pc \in {"waitpid", "asleep"} /\ pc' = "prompt") =>
          (\/ child_status' = code[child_pid]
           \/ early /\ child[child_pid] = "gone" /\ child_status' = 0)]_vars

\* At rest (no handler to run), there are at most as many uncollected children
\* as signals were merged; and jobs waits for anything but its own ps only if
\* the handler has collected ps before wait(NULL) was called.
ChildrenCollected ==
    /\ ~pending /\ ~in_handler /\ pc # "exited" => Cardinality(Zombies) <= merged
    /\ pc \in {"wait", "waiting"} /\ child[child_pid] = "gone" => early
=============================================================================
