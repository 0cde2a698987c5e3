----------------------------- MODULE ShellJobs -----------------------------
(***************************************************************************)
(* The job-control shell of ASS3/myshell.c: pipelines, process groups, the *)
(* terminal's foreground group, and the shell's own file descriptors.      *)
(*                                                                         *)
(* A command line l has one or two stages, the processes <<l, 0>> and      *)
(* <<l, 1>>; <<l, 0>> leads process group l, and the shell's group is 0.   *)
(* The shell and its children run concurrently; the SIGCHLD handler runs   *)
(* between any two steps of the shell.  fds maps each open descriptor of   *)
(* the shell to the pipe end it refers to; the kernel hands out the lowest *)
(* free number.                                                            *)
(*                                                                         *)
(* process_cmd declares fd[(num_pipe - 1) * 2] and fills two entries more: *)
(* with two stages they fall into the padding of the array (its size is    *)
(* rounded up to 16 bytes), which is the case that is modelled.            *)
(***************************************************************************)
EXTENDS Integers, Sequences, FiniteSets, FiniteSetsExt

CONSTANTS
    MaxLines,   \* bound on the command lines
    Cap,        \* capacity of a pipe
    Items       \* what the first stage of a pipeline has to write

ASSUME JobsAssumption == {MaxLines, Cap, Items} \subseteq Nat \ {0}

Line == 1 .. MaxLines
Proc == Line \X {0, 1}
SHELL == 0                    \* the shell's process group, int foreground

VARIABLES
    pc,         \* where the shell is
    line,       \* the current command line
    job,        \* per line: stages, background, and whether its last stage reads all
    proc,       \* per process: state and process group
    ps,         \* the ps of the current line: "none", "running", "zombie"
    jobs,       \* the groups ps has listed as stopped
    tty,        \* the terminal's foreground group
    pending,    \* SIGCHLD is pending
    fds,        \* the shell's descriptors
    fd,         \* the array fd of process_cmd
    pipe,       \* per line: items in the pipe between its stages, and items written
    late,       \* history: a job took the terminal while the shell was at its prompt
    retaken     \* history: a handler has run since the current line's job took it

procVars == <<job, proc, ps, jobs>>
fdVars == <<fds, fd, pipe>>
vars == <<pc, line, procVars, tty, pending, fdVars, late, retaken>>

State(p) == proc[p].state
Alive(p) == State(p) \in {"forked", "grouped", "ready", "running", "stopped"}
SetState(p, s) == [proc EXCEPT ![p] = [@ EXCEPT !.state = s]]

\* A process group exists as long as one of its members has not been collected.
GroupExists(g) == \E p \in Proc : proc[p].pgid = g /\ State(p) \notin {"none", "gone"}

ShellHolds(l, end) == \E f \in DOMAIN fds : fds[f] = <<l, 0, end>>

Open(n, what) == [f \in DOMAIN fds \cup {n} |-> IF f = n THEN what ELSE fds[f]]
Close(t, s) == [f \in DOMAIN t \ s |-> t[f]]

\* pipe(): the two lowest free descriptors.
Lowest == Min((0 .. 3 * MaxLines + 9) \ DOMAIN fds)
Second == Min((0 .. 3 * MaxLines + 9) \ (DOMAIN fds \cup {Lowest}))
PipeOpen(l, x) == [f \in DOMAIN fds \cup {Lowest, Second} |->
                      IF f = Lowest THEN <<l, x, "r">> ELSE IF f = Second THEN <<l, x, "w">> ELSE fds[f]]

Init ==
    /\ pc = "top" /\ line = 0
    /\ job = [l \in Line |-> [stages |-> 0, bg |-> FALSE, reads |-> TRUE, cmd |-> "none"]]
    /\ proc = [p \in Proc |-> [state |-> "none", pgid |-> SHELL]]
    /\ ps = "none" /\ jobs = {}
    /\ tty = SHELL /\ pending = FALSE
    /\ fds = [f \in 0 .. 2 |-> <<0, 0, "tty">>]
    /\ fd = << >>
    /\ pipe = [l \in Line |-> [full |-> 0, written |-> 0]]
    /\ late = FALSE /\ retaken = FALSE

-----------------------------------------------------------------------------
\* main.

\* Faulty variant: the shell trusts the handler to have taken the terminal back.
main_top_NoTty ==
    /\ pc = "top"
    /\ pc' = "prompt"
    /\ UNCHANGED <<line, procVars, tty, pending, fdVars, late, retaken>>

\* The top of the loop: tcsetpgrp(STDIN_FILENO, foreground).
main_top ==
    /\ pc = "top"
    /\ tty' = SHELL /\ pc' = "prompt" /\ late' = FALSE
    /\ UNCHANGED <<line, procVars, pending, fdVars, retaken>>

\* get_cmd_line: a read from the terminal by a process outside the foreground
\* group stops it (SIGTTIN).
get_cmd_line ==
    /\ pc = "prompt"
    /\ pc' = IF tty = SHELL THEN "reading" ELSE "stopped"
    /\ UNCHANGED <<line, procVars, tty, pending, fdVars, late, retaken>>

\* An empty line, or end of file: around the loop.
get_cmd_line_empty ==
    /\ pc = "reading"
    /\ pc' = "top"
    /\ UNCHANGED <<line, procVars, tty, pending, fdVars, late, retaken>>

get_cmd_line_exit ==
    /\ pc = "reading"
    /\ pc' = "exited"
    /\ UNCHANGED <<line, procVars, tty, pending, fdVars, late, retaken>>

\* A line has been read: pipe, fork and the ps that lists the children.  The
\* read end stays open.
get_cmd_line_done(cmd, n, bg, reads) ==
    /\ pc = "reading" /\ line < MaxLines
    /\ cmd # "run" => n = 1 /\ ~bg /\ reads
    /\ n = 1 => reads
    /\ line' = line + 1
    /\ job' = [job EXCEPT ![line + 1] = [stages |-> n, bg |-> bg, reads |-> reads, cmd |-> cmd]]
    /\ fds' = Open(Lowest, <<0, 0, "ps">>)
    /\ ps' = "running" /\ pc' = "ps"
    /\ UNCHANGED <<proc, jobs, tty, pending, fd, pipe, late, retaken>>

\* waitpid(child_pid) for ps, and append for every line of its output.
main_ps ==
    /\ pc = "ps" /\ ps # "running"
    /\ ps' = "none"
    /\ jobs' = {l \in Line : \E p \in Proc : proc[p].pgid = l /\ State(p) = "stopped"}
    /\ pc' = IF job[line].cmd = "jobs" THEN "clear" ELSE "fork0"
    /\ UNCHANGED <<line, job, proc, tty, pending, fdVars, late, retaken>>

\* clear(jobs), and around the loop.
main_clear ==
    /\ pc = "clear"
    /\ jobs' = {} /\ fd' = << >> /\ pc' = "top" /\ retaken' = FALSE
    /\ UNCHANGED <<line, job, proc, ps, tty, pending, fds, pipe, late>>

-----------------------------------------------------------------------------
\* process_cmd.

\* pipe(fd + x * 2), only with more than one stage, and fork.
process_cmd_fork(x) ==
    /\ pc = IF x = 0 THEN "fork0" ELSE "fork1"
    /\ IF job[line].stages > 1
       THEN fds' = PipeOpen(line, x) /\ fd' = fd \o <<Lowest, Second>>
       ELSE UNCHANGED <<fds, fd>>
    /\ proc' = SetState(<<line, x>>, "forked")
    /\ pc' = IF x = 0 THEN "parent0" ELSE "parent1"
    /\ UNCHANGED <<line, job, ps, jobs, tty, pending, pipe, late, retaken>>

\* setpgid(pid, line) by either side: it fails if the group's leader has
\* already been collected, or the process itself has.
Setpgid(p) ==
    IF p[2] = 0 \/ GroupExists(p[1]) THEN p[1] ELSE proc[p].pgid

\* Faulty variant: the shell closes the wrong end.
ParentCloses_ReadEnd(x) == IF x + 1 < job[line].stages THEN {fd[x * 2 + 1]} ELSE {}

\* The parent closes the write end of every pipe but the last.
ParentCloses(x) == IF x + 1 < job[line].stages THEN {fd[x * 2 + 2]} ELSE {}

\* The parent's half of the loop.
process_cmd_parent(x) ==
    LET p == <<line, x>> IN
    /\ pc = IF x = 0 THEN "parent0" ELSE "parent1"
    /\ proc' = [proc EXCEPT ![p] = [state |-> State(p),
                                    pgid |-> IF State(p) \in {"none", "gone"} THEN proc[p].pgid ELSE Setpgid(p)]]
    /\ fds' = Close(fds, ParentCloses(x))
    /\ pc' = IF x + 1 < job[line].stages THEN "fork1" ELSE IF job[line].bg THEN "close" ELSE "wait0"
    /\ UNCHANGED <<line, job, ps, jobs, tty, pending, fd, pipe, late, retaken>>

\* waitpid(pid[x], 0, WUNTRACED): returns for a child that has ended, has
\* stopped, or has been collected by the handler.
process_cmd_wait(x) ==
    LET p == <<line, x>> IN
    /\ pc = IF x = 0 THEN "wait0" ELSE "wait1"
    /\ State(p) \in {"zombie", "stopped", "gone"}
    /\ proc' = IF State(p) = "zombie" THEN SetState(p, "gone") ELSE proc
    /\ pc' = IF x + 1 < job[line].stages THEN "wait1" ELSE "close"
    /\ UNCHANGED <<line, job, ps, jobs, tty, pending, fdVars, late, retaken>>

\* Faulty variant: only the even entries, the read ends, are closed.
ClosedAtEnd_ReadEnds == {fd[i] : i \in {j \in DOMAIN fd : j <= (job[line].stages - 1) * 2 /\ j % 2 = 1}}

\* The last loop closes the entries of the array as declared.  Number fd[1]
\* was closed before and has been handed out again, to the last pipe.
ClosedAtEnd == {fd[i] : i \in {j \in DOMAIN fd : j <= (job[line].stages - 1) * 2}}

process_cmd_close ==
    /\ pc = "close"
    /\ fds' = Close(fds, ClosedAtEnd)
    /\ pc' = "clear"
    /\ UNCHANGED <<line, procVars, tty, pending, fd, pipe, late, retaken>>

-----------------------------------------------------------------------------
\* The children.

child_setpgid(p) ==
    /\ State(p) = "forked"
    /\ proc' = [proc EXCEPT ![p] = [state |-> IF p[2] = 0 THEN "grouped" ELSE "ready", pgid |-> Setpgid(p)]]
    /\ UNCHANGED <<pc, line, job, ps, jobs, tty, pending, fdVars, late, retaken>>

\* The leader makes its group the foreground group, in the background too.
child_tcsetpgrp(p) ==
    /\ State(p) = "grouped"
    /\ tty' = p[1]
    /\ proc' = SetState(p, "ready")
    /\ late' = (late \/ pc \in {"prompt", "reading"} \/ p[1] # line)
    /\ retaken' = IF p[1] = line THEN FALSE ELSE retaken
    /\ UNCHANGED <<pc, line, job, ps, jobs, pending, fdVars>>

\* argv_cmd: the redirections, then execvp.
argv_cmd(p) ==
    /\ State(p) = "ready" /\ job[p[1]].cmd = "run"
    /\ proc' = SetState(p, "running")
    /\ UNCHANGED <<pc, line, job, ps, jobs, tty, pending, fdVars, late, retaken>>

Ends(p) == proc' = SetState(p, "zombie") /\ pending' = TRUE

\* argv_cmd for bg: a stopped job of the list (the last one, or the one that is
\* named) is continued and given the terminal; the process that did it exits.
\* SHELL stands for a job that is not found.
argv_cmd_bg(p, target) ==
    LET found == target # SHELL /\ GroupExists(target)
    IN  /\ State(p) = "ready" /\ job[p[1]].cmd = "bg"
        /\ target \in jobs \cup {SHELL}
        /\ proc' = [q \in Proc |->
              IF q = p THEN [proc[q] EXCEPT !.state = "zombie"]
              ELSE IF found /\ proc[q].pgid = target /\ State(q) = "stopped"
              THEN [proc[q] EXCEPT !.state = "running"] ELSE proc[q]]
        /\ pending' = TRUE
        /\ tty' = IF found THEN target ELSE tty
        /\ late' = (late \/ (found /\ pc \in {"prompt", "reading"}))
        /\ UNCHANGED <<pc, line, job, ps, jobs, fdVars, retaken>>

\* A single command ends when it likes; open or exec may have failed before.
stage_exit(p) ==
    /\ State(p) = "running" /\ job[p[1]].stages = 1
    /\ Ends(p)
    /\ UNCHANGED <<pc, line, job, ps, jobs, tty, fdVars, late, retaken>>

\* The first stage of a pipeline writes, and ends when it is done ...
stage_write(p) ==
    LET l == p[1] IN
    /\ State(p) = "running" /\ p[2] = 0 /\ job[l].stages = 2
    /\ pipe[l].written < Items /\ pipe[l].full < Cap
    /\ pipe' = [pipe EXCEPT ![l] = [full |-> @.full + 1, written |-> @.written + 1]]
    /\ UNCHANGED <<pc, line, procVars, tty, pending, fds, fd, late, retaken>>

\* ... or is killed by SIGPIPE when nobody holds the read end any more.
stage_write_end(p) ==
    LET l == p[1] IN
    /\ State(p) = "running" /\ p[2] = 0 /\ job[l].stages = 2
    /\ \/ pipe[l].written = Items
       \/ State(<<l, 1>>) \in {"zombie", "gone"} /\ ~ShellHolds(l, "r")
    /\ Ends(p)
    /\ UNCHANGED <<pc, line, job, ps, jobs, tty, fdVars, late, retaken>>

\* The second stage reads, and ends at end of file, which it sees when nobody
\* holds the write end any more; or, like head, before.
stage_read(p) ==
    LET l == p[1] IN
    /\ State(p) = "running" /\ p[2] = 1 /\ pipe[l].full > 0
    /\ pipe' = [pipe EXCEPT ![l] = [@ EXCEPT !.full = @ - 1]]
    /\ UNCHANGED <<pc, line, procVars, tty, pending, fds, fd, late, retaken>>

EndOfFile(l) == pipe[l].full = 0 /\ ~Alive(<<l, 0>>) /\ ~ShellHolds(l, "w")

stage_read_end(p) ==
    /\ State(p) = "running" /\ p[2] = 1
    /\ EndOfFile(p[1]) \/ ~job[p[1]].reads
    /\ Ends(p)
    /\ UNCHANGED <<pc, line, job, ps, jobs, tty, fdVars, late, retaken>>

\* A job is stopped: by the terminal, or by reading from it in the background.
job_stop(l) ==
    /\ \E p \in Proc : proc[p].pgid = l /\ State(p) = "running"
    /\ proc' = [p \in Proc |-> IF proc[p].pgid = l /\ State(p) = "running"
                               THEN [proc[p] EXCEPT !.state = "stopped"] ELSE proc[p]]
    /\ pending' = TRUE
    /\ UNCHANGED <<pc, line, job, ps, jobs, tty, fdVars, late, retaken>>

ps_exit ==
    /\ ps = "running"
    /\ ps' = "zombie" /\ pending' = TRUE
    /\ UNCHANGED <<pc, line, job, proc, jobs, tty, fdVars, late, retaken>>

\* SIGCHLD: one child is collected, and the shell takes the terminal.
handler ==
    /\ pending /\ pc \notin {"stopped", "exited"}
    /\ pending' = FALSE
    /\ \/ \E p \in Proc : State(p) = "zombie" /\ proc' = SetState(p, "gone") /\ UNCHANGED ps
       \/ ps = "zombie" /\ ps' = "gone" /\ UNCHANGED proc
       \/ ps # "zombie" /\ (\A p \in Proc : State(p) # "zombie") /\ UNCHANGED <<proc, ps>>
    /\ tty' = SHELL /\ retaken' = TRUE
    /\ UNCHANGED <<pc, line, job, jobs, fdVars, late>>

-----------------------------------------------------------------------------
ShellStep ==
    \/ main_top \/ get_cmd_line \/ get_cmd_line_empty \/ get_cmd_line_exit
    \/ \E cmd \in {"run", "bg", "jobs"}, n \in 1 .. 2, bg, reads \in BOOLEAN :
          get_cmd_line_done(cmd, n, bg, reads)
    \/ main_ps \/ main_clear
    \/ \E x \in {0, 1} : process_cmd_fork(x) \/ process_cmd_parent(x) \/ process_cmd_wait(x)
    \/ process_cmd_close
    \/ handler

ChildStep ==
    \/ \E p \in Proc : \/ child_setpgid(p) \/ child_tcsetpgrp(p) \/ argv_cmd(p)
                       \/ \E target \in Line \cup {SHELL} : argv_cmd_bg(p, target)
                       \/ stage_exit(p) \/ stage_write(p) \/ stage_write_end(p)
                       \/ stage_read(p) \/ stage_read_end(p)
    \/ \E l \in Line : job_stop(l)
    \/ ps_exit

Next == ShellStep \/ ChildStep

Spec == Init /\ [][Next]_vars

-----------------------------------------------------------------------------
Waiting == pc \in {"wait0", "wait1"}

\* "set foreground": the shell is stopped at its own prompt only if a job took
\* the terminal after the shell had taken it back (the leader of a background
\* job does, whenever it gets to run); and while the shell waits for a job that
\* has taken the terminal, the job still has it, unless the SIGCHLD handler has
\* run since (for ps, or for an older job) or another job has taken it.
TerminalAgrees ==
    /\ pc = "stopped" => late
    /\ Waiting /\ State(<<line, 0>>) \in {"ready", "running"} /\ job[line].cmd = "run" =>
          tty = line \/ retaken \/ late

\* Between two command lines the shell holds, besides its terminal, exactly one
\* descriptor for each line read (the ps pipe) and one for each pipeline: what
\* process_cmd closes twice, and what it never closes, add up to that.
DescriptorsAccounted ==
    pc = "top" =>
        Cardinality(DOMAIN fds) =
            3 + line + Cardinality({l \in 1 .. line : job[l].stages > 1})

\* A stage that has nothing to read waits for a live writer and never for the
\* shell; and a stage that has nowhere to write to waits for the shell, which
\* keeps the read end open while it waits for the stage, only after a last
\* stage that does not read all of its input.
PipelineEnds ==
    \A l \in 1 .. line : job[l].stages = 2 /\ pc \in {"wait0", "wait1", "close", "clear", "top"} =>
        /\ State(<<l, 1>>) = "running" /\ pipe[l].full = 0 /\ ~Alive(<<l, 0>>) => EndOfFile(l)
        /\ State(<<l, 0>>) = "running" /\ ~Alive(<<l, 1>>) /\ ShellHolds(l, "r") => ~job[l].reads
=============================================================================
