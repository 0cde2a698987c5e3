---------------------------- MODULE ShellProofs ----------------------------
(***************************************************************************)
(* The two shells.                                                         *)
(*                                                                         *)
(* The job-control shell of ASS3: TerminalAgrees, DescriptorsAccounted and *)
(* PipelineEnds of ShellJobs, for every number of command lines, every     *)
(* capacity of a pipe and everything a stage has to write.  The shell of   *)
(* ASS2, below: StatusReported and ChildrenCollected of ShellStatus.       *)
(***************************************************************************)
EXTENDS ShellJobs, FoldLemmas, SequenceTheorems

Pc == {"top", "prompt", "reading", "stopped", "exited", "ps", "clear", "fork0", "parent0",
       "fork1", "parent1", "wait0", "wait1", "close"}
JobRec == [stages : 0 .. 2, bg : BOOLEAN, reads : BOOLEAN, cmd : {"none", "run", "bg", "jobs"}]
ProcRec == [state : {"none", "forked", "grouped", "ready", "running", "stopped", "zombie", "gone"},
            pgid : 0 .. MaxLines]

Types ==
    /\ pc \in Pc /\ line \in 0 .. MaxLines
    /\ job \in [Line -> JobRec] /\ proc \in [Proc -> ProcRec]

Two(l) == job[l].stages = 2
Started == pc \notin {"ps", "fork0", "parent0", "fork1"}

\* The processes of a line: a second stage only of a pipeline, and bg is waited for.
Stages ==
    /\ \A l \in Line : l <= line => job[l].stages \in {1, 2} /\ (job[l].cmd # "run" => job[l].stages = 1 /\ ~job[l].bg)
    /\ pc \in {"ps", "fork0", "parent0", "fork1", "parent1", "wait0", "wait1", "close"} => line > 0
    /\ pc \in {"fork1", "parent1", "wait1"} => Two(line)
    /\ \A l \in Line : IF l <= line /\ Two(l) /\ (l < line \/ Started)
                       THEN State(<<l, 1>>) # "none" ELSE State(<<l, 1>>) = "none"
    /\ \A l \in Line : l > line => State(<<l, 0>>) = "none"
    /\ \A l \in Line : State(<<l, 1>>) # "none" => State(<<l, 0>>) # "none"
    /\ pc \in {"parent0", "fork1"} => State(<<line, 0>>) # "none"
    /\ \A l \in Line : job[l].cmd = "bg" =>
          /\ State(<<l, 0>>) \notin {"running", "stopped"}
          /\ State(<<l, 0>>) \in {"forked", "grouped", "ready"} => l = line /\ pc \in {"parent0", "wait0"}
    /\ \A l \in Line : job[l].reads /\ State(<<l, 1>>) \in {"zombie", "gone"} => State(<<l, 0>>) \in {"zombie", "gone"}

\* The terminal.
Busy == pc \in {"parent0", "fork1", "parent1", "wait0", "wait1"}
Terminal ==
    /\ pc = "prompt" => tty = SHELL \/ late
    /\ pc = "stopped" => late
    /\ Busy /\ State(<<line, 0>>) \in {"ready", "running"} /\ job[line].cmd = "run" => tty = line \/ retaken \/ late

\* The shell's descriptors, and what process_cmd remembers of them in fd.
D == DOMAIN fds
Pipelines == {l \in 1 .. line : job[l].stages > 1}
Base == 3 + line + Cardinality(Pipelines)
Forking == pc \in {"ps", "fork0"}

Descriptors ==
    /\ D \subseteq 0 .. 3 * MaxLines + 9
    /\ pc \in {"top", "prompt", "reading", "ps", "fork0"} => fd = << >>
    /\ Forking => Cardinality(D) = IF Two(line) THEN Base - 1 ELSE Base
    /\ pc \in {"top", "prompt", "reading", "stopped", "exited", "clear", "fork1"} => Cardinality(D) = Base
    /\ pc \in {"parent0", "wait0", "close"} /\ ~Two(line) => Cardinality(D) = Base /\ fd = << >>
    /\ pc = "parent0" /\ Two(line) =>
          /\ Cardinality(D) = Base + 1
          /\ fd = <<fd[1], fd[2]>> /\ fd[1] \in D /\ fd[2] \in D /\ fd[1] # fd[2] /\ 0 .. fd[2] - 1 \subseteq D
    /\ pc = "fork1" => fd = <<fd[1], fd[2]>> /\ fd[1] \in D /\ fd[2] \in Nat \ D /\ 0 .. fd[2] - 1 \subseteq D
    /\ pc \in {"parent1", "wait0", "wait1", "close"} /\ Two(line) =>
          /\ Cardinality(D) = Base + 2
          /\ fd = <<fd[1], fd[2], fd[2], fd[4]>> /\ fd[1] \in D /\ fd[2] \in D /\ fd[1] # fd[2]
    /\ \A f \in D, l \in Line : fds[f] = <<l, 0, "w">> => pc = "parent0" /\ Two(line) /\ f = fd[2]

IInv == Types /\ Stages /\ Terminal /\ Descriptors

-----------------------------------------------------------------------------
\* Processes.

Over == {"zombie", "gone"}
Young == {"forked", "grouped", "ready"}

\* What a step may do to a process that has been started.
Moves(q) ==
    /\ proc[q].state = "none" <=> proc'[q].state = "none"
    /\ proc[q].state \in Over => proc'[q].state \in Over
    /\ job[q[1]].cmd = "bg" /\ q[2] = 0 =>
          /\ proc'[q].state \in {"running", "stopped"} => proc[q].state \in {"running", "stopped"}
          /\ proc'[q].state \in Young => proc[q].state \in Young
    /\ job[q[1]].reads /\ q[2] = 1 /\ proc'[q].state \in Over =>
          proc[q].state \in Over \/ proc[<<q[1], 0>>].state \in Over

LEMMA LineTypes == MaxLines \in Nat /\ MaxLines > 0 /\ Line \subseteq Nat /\ \A l \in Line : l > 0
  BY JobsAssumption DEF JobsAssumption, Line

LEMMA ProcFacts ==
    /\ \A l \in Line : <<l, 0>> \in Proc /\ <<l, 1>> \in Proc
    /\ \A l \in Line : <<l, 0>>[1] = l /\ <<l, 0>>[2] = 0 /\ <<l, 1>>[1] = l /\ <<l, 1>>[2] = 1 /\ <<l, 0>> # <<l, 1>>
    /\ \A q \in Proc : q[1] \in Line /\ q[2] \in {0, 1} /\ q = <<q[1], q[2]>>
  BY DEF Proc

LEMMA LineInRange == ASSUME IInv, line > 0 PROVE line \in Line
<1>1. line \in 0 .. MaxLines
  BY Zenon DEF IInv, Types
<1> QED BY <1>1, LineTypes DEF Line

LEMMA StagesKept ==
    ASSUME IInv, UNCHANGED <<line, job>>, \A q \in Proc : Moves(q),
           pc' \in {"ps", "fork0", "parent0", "fork1", "parent1", "wait0", "wait1", "close"} => line > 0,
           pc' \in {"fork1", "parent1", "wait1"} => Two(line),
           Two(line) => (Started' <=> Started), pc' \in {"parent0", "fork1"} => line \in Line /\ pc \in {"parent0", "fork1"},
           \/ pc \in {"parent0", "wait0"} => pc' \in {"parent0", "wait0"}
           \/ job[line].cmd = "bg" => proc'[<<line, 0>>].state \notin Young
    PROVE  Stages'
<1>1. \A l \in Line : l <= line => job[l].stages \in {1, 2} /\ (job[l].cmd # "run" => job[l].stages = 1 /\ ~job[l].bg)
  BY Zenon DEF IInv, Stages
<1>2. \A l : Two(l)' <=> Two(l)
  BY Zenon DEF Two
<1>3. ASSUME NEW l \in Line
      PROVE  IF l <= line /\ Two(l) /\ (l < line \/ Started')
             THEN proc'[<<l, 1>>].state # "none" ELSE proc'[<<l, 1>>].state = "none"
  <2>1. IF l <= line /\ Two(l) /\ (l < line \/ Started)
        THEN proc[<<l, 1>>].state # "none" ELSE proc[<<l, 1>>].state = "none"
    BY Zenon DEF IInv, Stages, State
  <2>2. Moves(<<l, 1>>)
    BY ProcFacts, Zenon
  <2>3. proc[<<l, 1>>].state = "none" <=> proc'[<<l, 1>>].state = "none"
    BY <2>2, Zenon DEF Moves
  <2>4. l <= line /\ ~(l < line) => l = line
    <3>1. l \in Nat /\ line \in 0 .. MaxLines
      BY LineTypes, Zenon DEF IInv, Types
    <3> QED BY <3>1, LineTypes
  <2> QED BY <2>1, <2>3, <2>4, Zenon
<1>4. ASSUME NEW l \in Line, job[l].cmd = "bg"
      PROVE  /\ proc'[<<l, 0>>].state \notin {"running", "stopped"}
             /\ proc'[<<l, 0>>].state \in Young => l = line /\ pc' \in {"parent0", "wait0"}
  <2>1. /\ proc[<<l, 0>>].state \notin {"running", "stopped"}
        /\ proc[<<l, 0>>].state \in Young => l = line /\ pc \in {"parent0", "wait0"}
    BY <1>4, Zenon DEF IInv, Stages, State, Young
  <2>2. Moves(<<l, 0>>) /\ <<l, 0>>[1] = l /\ <<l, 0>>[2] = 0
    BY ProcFacts, Zenon
  <2>3. /\ proc'[<<l, 0>>].state \in {"running", "stopped"} => proc[<<l, 0>>].state \in {"running", "stopped"}
        /\ proc'[<<l, 0>>].state \in Young => proc[<<l, 0>>].state \in Young
    BY <1>4, <2>2, Zenon DEF Moves
  <2> QED BY <1>4, <2>1, <2>3, Zenon
<1>5. ASSUME NEW l \in Line, job[l].reads, proc'[<<l, 1>>].state \in Over
      PROVE  proc'[<<l, 0>>].state \in Over
  <2>1. proc[<<l, 1>>].state \in Over => proc[<<l, 0>>].state \in Over
    BY <1>5, Zenon DEF IInv, Stages, State, Over
  <2>2. Moves(<<l, 0>>) /\ Moves(<<l, 1>>) /\ <<l, 1>>[1] = l /\ <<l, 1>>[2] = 1
    BY ProcFacts, Zenon
  <2>3. proc[<<l, 1>>].state \in Over \/ proc[<<l, 0>>].state \in Over
    BY <1>5, <2>2, Zenon DEF Moves
  <2>4. proc[<<l, 0>>].state \in Over => proc'[<<l, 0>>].state \in Over
    BY <2>2, Zenon DEF Moves
  <2> QED BY <2>1, <2>3, <2>4, Zenon
<1>6. \A l \in Line : proc'[<<l, 1>>].state # "none" => proc'[<<l, 0>>].state # "none"
  <2> SUFFICES ASSUME NEW l \in Line PROVE proc'[<<l, 1>>].state # "none" => proc'[<<l, 0>>].state # "none"
    BY Zenon
  <2>1. Moves(<<l, 0>>) /\ Moves(<<l, 1>>)
    BY ProcFacts, Zenon
  <2> QED BY <2>1, Zenon DEF Moves, IInv, Stages, State
<1>7. pc' \in {"parent0", "fork1"} => proc'[<<line, 0>>].state # "none"
  <2> SUFFICES ASSUME line \in Line, pc \in {"parent0", "fork1"} PROVE proc'[<<line, 0>>].state # "none"
    BY Zenon
  <2>1. Moves(<<line, 0>>) /\ proc[<<line, 0>>].state # "none"
    BY ProcFacts, Zenon DEF IInv, Stages, State
  <2> QED BY <2>1, Zenon DEF Moves
<1>8. /\ pc' \in {"ps", "fork0", "parent0", "fork1", "parent1", "wait0", "wait1", "close"} => line' > 0
      /\ pc' \in {"fork1", "parent1", "wait1"} => Two(line)'
  BY Zenon DEF Two
<1>9. \A l \in Line : l > line => proc'[<<l, 0>>].state = "none"
  <2> SUFFICES ASSUME NEW l \in Line, l > line PROVE proc'[<<l, 0>>].state = "none"
    BY Zenon
  <2>1. Moves(<<l, 0>>) /\ proc[<<l, 0>>].state = "none"
    BY ProcFacts, Zenon DEF IInv, Stages, State
  <2> QED BY <2>1, Zenon DEF Moves
<1> QED BY <1>1, <1>2, <1>3, <1>4, <1>5, <1>6, <1>7, <1>8, <1>9, Zenon DEF Stages, State, Young, Over

\* One process moves to state s.
LEMMA OneMoves ==
    ASSUME Types, NEW p \in Proc, NEW s \in {"ready", "grouped", "running", "zombie", "gone"},
           proc' \in [Proc -> ProcRec], proc'[p].state = s, \A q \in Proc : q # p => proc'[q].state = proc[q].state,
           proc[p].state # "none", proc[p].state \in Over => s \in Over,
           job[p[1]].cmd = "bg" /\ p[2] = 0 => s # "running" /\ (s \in Young => proc[p].state \in Young),
           job[p[1]].reads /\ p[2] = 1 /\ s \in Over => proc[p].state \in Over \/ proc[<<p[1], 0>>].state \in Over
    PROVE  \A q \in Proc : Moves(q)
<1> SUFFICES ASSUME NEW q \in Proc PROVE Moves(q)
  OBVIOUS
<1>1. CASE q = p
  BY <1>1 DEF Moves, Over, Young
<1>2. CASE q # p
  BY <1>2, Zenon DEF Moves
<1> QED BY <1>1, <1>2

LEMMA SetStateFacts ==
    ASSUME Types, NEW p \in Proc, NEW s \in {"forked", "ready", "running", "zombie", "gone"}, proc' = SetState(p, s)
    PROVE  /\ proc' \in [Proc -> ProcRec] /\ proc'[p].state = s
           /\ \A q \in Proc : q # p => proc'[q].state = proc[q].state
<1> DEFINE r == [proc[p] EXCEPT !.state = s]
<1>1. proc' = [proc EXCEPT ![p] = r]
  BY DEF SetState
<1>2. r \in ProcRec /\ r.state = s
  <2>1. proc[p] \in ProcRec
    BY Zenon DEF Types
  <2> QED BY <2>1 DEF ProcRec
<1> HIDE DEF r
<1> QED BY <1>1, <1>2, Zenon DEF Types

LEMMA DescriptorsKept == ASSUME Descriptors, UNCHANGED <<pc, line, job, fds, fd>> PROVE Descriptors'
<1>1. D' = D /\ Base' = Base /\ (Two(line)' <=> Two(line)) /\ (Forking' <=> Forking)
  BY Zenon DEF D, Base, Pipelines, Two, Forking
<1> QED BY <1>1, Zenon DEF Descriptors

LEMMA TerminalKept ==
    ASSUME Terminal, UNCHANGED <<pc, line, job, tty, late, retaken>>,
           proc'[<<line, 0>>].state \in {"ready", "running"} => proc[<<line, 0>>].state \in {"ready", "running"}
    PROVE  Terminal'
  BY Zenon DEF Terminal, Busy, State

\* A step of a child that does not take the current line's leader to its command.
LEMMA TerminalAside ==
    ASSUME IInv, NEW p \in Proc, \A q \in Proc : q # p => proc'[q].state = proc[q].state,
           UNCHANGED <<pc, line, job, tty, late, retaken>>,
           p[2] = 0 /\ proc'[p].state \in {"ready", "running"} => proc[p].state \in {"ready", "running"}
    PROVE  Terminal'
<1>1. CASE p = <<line, 0>>
  <2>1. p[2] = 0
    BY <1>1
  <2> QED BY <1>1, <2>1, TerminalKept, Zenon DEF IInv
<1>2. CASE <<line, 0>> \in Proc /\ p # <<line, 0>>
  BY <1>2, TerminalKept, Zenon DEF IInv
<1>3. CASE <<line, 0>> \notin Proc
  <2>1. ~Busy
    BY <1>3, LineInRange, ProcFacts, Zenon DEF IInv, Stages, Busy
  <2> QED BY <2>1, Zenon DEF IInv, Terminal, Busy
<1> QED BY <1>1, <1>2, <1>3, Zenon

\* A step of one child, or the collection of one by the handler.
LEMMA ChildMoves ==
    ASSUME IInv, NEW p \in Proc, NEW s \in {"ready", "grouped", "running", "zombie", "gone"},
           proc' \in [Proc -> ProcRec], proc'[p].state = s, \A q \in Proc : q # p => proc'[q].state = proc[q].state,
           proc[p].state # "none", proc[p].state \in Over => s \in Over,
           job[p[1]].cmd = "bg" /\ p[2] = 0 => s # "running" /\ (s \in Young => proc[p].state \in Young),
           job[p[1]].reads /\ p[2] = 1 /\ s \in Over => proc[p].state \in Over \/ proc[<<p[1], 0>>].state \in Over,
           UNCHANGED <<pc, line, job, fds, fd>>
    PROVE  Types' /\ Stages' /\ Descriptors'
<1>1. Types' /\ Descriptors'
  BY DescriptorsKept, Zenon DEF IInv, Types
<1>2. \A q \in Proc : Moves(q)
  <2>1. Types
    BY Zenon DEF IInv
  <2> QED BY <2>1, OneMoves
<1>3. Started' <=> Started
  BY Zenon DEF Started
<1>4. /\ pc' \in {"ps", "fork0", "parent0", "fork1", "parent1", "wait0", "wait1", "close"} => line > 0
      /\ pc' \in {"fork1", "parent1", "wait1"} => Two(line)
      /\ pc' \in {"parent0", "fork1"} => line \in Line /\ pc \in {"parent0", "fork1"}
  BY LineInRange, Zenon DEF IInv, Stages
<1>5. Stages'
  BY <1>2, <1>3, <1>4, StagesKept, Zenon DEF IInv
<1> QED BY <1>1, <1>5, Zenon

-----------------------------------------------------------------------------
\* The children.

LEMMA SetpgidInv == ASSUME IInv, NEW p \in Proc, child_setpgid(p) PROVE IInv'
<1> DEFINE s == IF p[2] = 0 THEN "grouped" ELSE "ready"
           r == [state |-> s, pgid |-> Setpgid(p)]
<1>1. /\ proc[p].state = "forked" /\ proc' = [proc EXCEPT ![p] = r]
      /\ UNCHANGED <<pc, line, job, fds, fd, tty, late, retaken>>
  BY Zenon DEF child_setpgid, State, fdVars
<1>2. s \in {"grouped", "ready"} /\ p[1] \in Line /\ (p[2] = 0 => s = "grouped")
  BY ProcFacts, Zenon
<1>3. r \in ProcRec /\ r.state = s
  <2>1. proc[p].pgid \in 0 .. MaxLines
    BY DEF IInv, Types, ProcRec
  <2>2. p[1] \in 0 .. MaxLines
    BY <1>2, LineTypes DEF Line
  <2>3. Setpgid(p) \in 0 .. MaxLines
    BY <2>1, <2>2, Zenon DEF Setpgid
  <2> HIDE DEF s
  <2> QED BY <1>2, <2>3 DEF ProcRec
<1> HIDE DEF r, s
<1>4. proc' \in [Proc -> ProcRec] /\ proc'[p].state = s /\ \A q \in Proc : q # p => proc'[q].state = proc[q].state
  BY <1>1, <1>3, Zenon DEF IInv, Types
<1>5. Types' /\ Stages' /\ Descriptors'
  <2>1. "forked" \notin Over /\ "forked" \in Young /\ s # "running" /\ s \notin Over /\ "forked" # "none"
    BY <1>2 DEF Over, Young
  <2> QED BY <1>1, <1>2, <1>4, <2>1, ChildMoves
<1>6. Terminal'
  <2>1. s = "grouped" \/ p[2] # 0
    BY <1>2, Zenon
  <2> QED BY <1>1, <1>4, <2>1, TerminalAside
<1> QED BY <1>5, <1>6, Zenon DEF IInv

LEMMA TcsetpgrpInv == ASSUME IInv, NEW p \in Proc, child_tcsetpgrp(p) PROVE IInv'
<1>1. /\ proc[p].state = "grouped" /\ proc' = SetState(p, "ready") /\ tty' = p[1]
      /\ late' = (late \/ pc \in {"prompt", "reading"} \/ p[1] # line)
      /\ UNCHANGED <<pc, line, job, fds, fd>>
  BY Zenon DEF child_tcsetpgrp, State, fdVars
<1>2. proc' \in [Proc -> ProcRec] /\ proc'[p].state = "ready" /\ \A q \in Proc : q # p => proc'[q].state = proc[q].state
  BY <1>1, SetStateFacts, Zenon DEF IInv
<1>3. Types' /\ Stages' /\ Descriptors'
  <2>1. "grouped" \notin Over /\ "grouped" \in Young /\ "ready" \notin Over /\ "grouped" # "none" /\ "ready" # "running"
    BY DEF Over, Young
  <2> QED BY <1>1, <1>2, <2>1, ChildMoves
<1>4. Terminal'
  BY <1>1, Zenon DEF IInv, Terminal, Busy
<1> QED BY <1>3, <1>4, Zenon DEF IInv

LEMMA ArgvInv == ASSUME IInv, NEW p \in Proc, argv_cmd(p) PROVE IInv'
<1>1. /\ proc[p].state = "ready" /\ job[p[1]].cmd = "run" /\ proc' = SetState(p, "running")
      /\ UNCHANGED <<pc, line, job, fds, fd, tty, late, retaken>>
  BY Zenon DEF argv_cmd, State, fdVars
<1>2. proc' \in [Proc -> ProcRec] /\ proc'[p].state = "running" /\ \A q \in Proc : q # p => proc'[q].state = proc[q].state
  BY <1>1, SetStateFacts, Zenon DEF IInv
<1>3. Types' /\ Stages' /\ Descriptors'
  <2>1. "ready" \notin Over /\ "running" \notin Over /\ "ready" # "none" /\ job[p[1]].cmd # "bg"
    BY <1>1 DEF Over
  <2> QED BY <1>1, <1>2, <2>1, ChildMoves
<1>4. Terminal'
  BY <1>1, <1>2, TerminalAside, Zenon
<1> QED BY <1>3, <1>4, Zenon DEF IInv

\* A child ends, or is collected.
LEMMA EndInv ==
    ASSUME IInv, NEW p \in Proc, NEW s \in Over, proc' = SetState(p, s), proc[p].state # "none",
           job[p[1]].reads /\ p[2] = 1 => proc[p].state \in Over \/ proc[<<p[1], 0>>].state \in Over,
           UNCHANGED <<pc, line, job, fds, fd>>
    PROVE  /\ Types' /\ Stages' /\ Descriptors'
           /\ UNCHANGED <<tty, late, retaken>> => Terminal'
<1>1. s \in {"zombie", "gone"} /\ s \notin Young /\ s \notin {"ready", "running"}
  BY DEF Over, Young
<1>2. proc' \in [Proc -> ProcRec] /\ proc'[p].state = s /\ \A q \in Proc : q # p => proc'[q].state = proc[q].state
  <2>1. s \in {"forked", "ready", "running", "zombie", "gone"}
    BY <1>1, Zenon
  <2> QED BY <2>1, SetStateFacts, Zenon DEF IInv
<1>3. Types' /\ Stages' /\ Descriptors'
  <2>1. s \in {"ready", "grouped", "running", "zombie", "gone"} /\ s # "running"
    BY <1>1
  <2> QED BY <1>1, <1>2, <2>1, ChildMoves
<1>4. UNCHANGED <<tty, late, retaken>> => Terminal'
  BY <1>1, <1>2, TerminalAside, Zenon
<1> QED BY <1>3, <1>4, Zenon

LEMMA StageEndsInv ==
    ASSUME IInv, NEW p \in Proc, stage_exit(p) \/ stage_write_end(p) \/ stage_read_end(p) PROVE IInv'
<1>1. /\ proc[p].state = "running" /\ proc' = SetState(p, "zombie")
      /\ UNCHANGED <<pc, line, job, fds, fd, tty, late, retaken>>
  BY Zenon DEF stage_exit, stage_write_end, stage_read_end, State, Ends, fdVars
<1>2. "zombie" \in Over /\ "running" # "none"
  BY DEF Over
<1>3. p[1] \in Line /\ p[2] \in {0, 1} /\ p = <<p[1], p[2]>> /\ <<p[1], 0>> \in Proc
  BY ProcFacts, Zenon
<1>4. job[p[1]].reads /\ p[2] = 1 => proc[<<p[1], 0>>].state \in Over
  <2> SUFFICES ASSUME job[p[1]].reads, p[2] = 1 PROVE proc[<<p[1], 0>>].state \in Over
    OBVIOUS
  <2>1. Two(p[1]) /\ p[1] <= line /\ (p[1] < line \/ Started)
    <3>1. proc[<<p[1], 1>>].state # "none"
      BY <1>1, <1>3
    <3> QED BY <1>3, <3>1, Zenon DEF IInv, Stages, State
  <2>2. ~stage_exit(p) /\ ~stage_write_end(p)
    <3>1. job[p[1]].stages = 2
      BY <2>1 DEF Two
    <3> QED BY <3>1 DEF stage_exit, stage_write_end
  <2>3. EndOfFile(p[1])
    BY <2>2, Zenon DEF stage_read_end
  <2>4. proc[<<p[1], 0>>].state \notin {"forked", "grouped", "ready", "running", "stopped"}
    BY <2>3, Zenon DEF EndOfFile, Alive, State
  <2>5. proc[<<p[1], 0>>].state # "none"
    BY <1>3, <2>1, Zenon DEF IInv, Stages, State
  <2>6. proc[<<p[1], 0>>] \in ProcRec
    BY <1>3, Zenon DEF IInv, Types
  <2> QED BY <2>4, <2>5, <2>6 DEF ProcRec, Over
<1> QED BY <1>1, <1>2, <1>4, EndInv, Zenon DEF IInv

\* A step that starts, moves and ends no process, and opens and closes nothing.
LEMMA QuietInv ==
    ASSUME IInv, UNCHANGED <<pc, line, job, proc, fds, fd>>
    PROVE  /\ Types' /\ Stages' /\ Descriptors'
           /\ UNCHANGED <<tty, late, retaken>> => Terminal'
<1>1. Types' /\ Descriptors'
  BY DescriptorsKept, Zenon DEF IInv, Types
<1>2. Stages'
  BY Zenon DEF IInv, Stages, Two, Started, State
<1> QED BY <1>1, <1>2, TerminalKept, Zenon DEF IInv

LEMMA PipeInv == ASSUME IInv, NEW p \in Proc, stage_write(p) \/ stage_read(p) PROVE IInv'
<1>1. UNCHANGED <<pc, line, job, proc, fds, fd, tty, late, retaken>>
  BY Zenon DEF stage_write, stage_read, procVars
<1> QED BY <1>1, QuietInv, Zenon DEF IInv

LEMMA PsExitInv == ASSUME IInv, ps_exit PROVE IInv'
<1>1. UNCHANGED <<pc, line, job, proc, fds, fd, tty, late, retaken>>
  BY Zenon DEF ps_exit, fdVars
<1> QED BY <1>1, QuietInv, Zenon DEF IInv

\* Several processes of a group move between running and stopped.
LEMMA GroupMoves ==
    ASSUME IInv, \A q \in Proc : Moves(q), proc' \in [Proc -> ProcRec], UNCHANGED <<pc, line, job, fds, fd>>
    PROVE  Types' /\ Stages' /\ Descriptors'
<1>1. Types' /\ Descriptors'
  BY DescriptorsKept, Zenon DEF IInv, Types
<1>2. Started' <=> Started
  BY Zenon DEF Started
<1>3. /\ pc' \in {"ps", "fork0", "parent0", "fork1", "parent1", "wait0", "wait1", "close"} => line > 0
      /\ pc' \in {"fork1", "parent1", "wait1"} => Two(line)
      /\ pc' \in {"parent0", "fork1"} => line \in Line /\ pc \in {"parent0", "fork1"}
  BY LineInRange, Zenon DEF IInv, Stages
<1>4. Stages'
  BY <1>2, <1>3, StagesKept, Zenon DEF IInv
<1> QED BY <1>1, <1>4, Zenon

LEMMA SetRecState ==
    ASSUME NEW r \in ProcRec, NEW s \in {"running", "stopped", "zombie"}
    PROVE  [r EXCEPT !.state = s] \in ProcRec /\ [r EXCEPT !.state = s].state = s
  BY DEF ProcRec

LEMMA JobStopInv == ASSUME IInv, NEW l \in Line, job_stop(l) PROVE IInv'
<1>1. /\ proc' = [p \in Proc |-> IF proc[p].pgid = l /\ proc[p].state = "running"
                                 THEN [proc[p] EXCEPT !.state = "stopped"] ELSE proc[p]]
      /\ UNCHANGED <<pc, line, job, fds, fd, tty, late, retaken>>
  BY Zenon DEF job_stop, State, fdVars
<1>2. \A q \in Proc : /\ proc'[q] \in ProcRec
                      /\ proc'[q].state = proc[q].state \/ (proc[q].state = "running" /\ proc'[q].state = "stopped")
  <2> SUFFICES ASSUME NEW q \in Proc
               PROVE  /\ proc'[q] \in ProcRec
                      /\ proc'[q].state = proc[q].state \/ (proc[q].state = "running" /\ proc'[q].state = "stopped")
    BY Zenon
  <2>1. proc[q] \in ProcRec
    BY Zenon DEF IInv, Types
  <2>2. [proc[q] EXCEPT !.state = "stopped"] \in ProcRec /\ [proc[q] EXCEPT !.state = "stopped"].state = "stopped"
    BY <2>1, SetRecState, Zenon
  <2>3. proc'[q] = IF proc[q].pgid = l /\ proc[q].state = "running"
                   THEN [proc[q] EXCEPT !.state = "stopped"] ELSE proc[q]
    BY <1>1, Zenon
  <2> QED BY <2>1, <2>2, <2>3, Zenon
<1>3. proc' \in [Proc -> ProcRec]
  BY <1>1, <1>2, Zenon
<1>4. \A q \in Proc : Moves(q)
  <2> SUFFICES ASSUME NEW q \in Proc PROVE Moves(q)
    BY Zenon
  <2>1. CASE proc'[q].state = proc[q].state
    BY <2>1, Zenon DEF Moves
  <2>2. CASE proc[q].state = "running" /\ proc'[q].state = "stopped"
    BY <2>2 DEF Moves, Over, Young
  <2> QED BY <1>2, <2>1, <2>2, Zenon
<1>5. Terminal'
  <2>1. CASE line \in Line
    <3>1. proc'[<<line, 0>>].state \in {"ready", "running"} => proc[<<line, 0>>].state \in {"ready", "running"}
      BY <1>2, <2>1, ProcFacts
    <3> QED BY <1>1, <3>1, TerminalKept, Zenon DEF IInv
  <2>2. CASE line \notin Line
    <3>1. ~Busy
      BY <2>2, LineInRange, Zenon DEF IInv, Stages, Busy
    <3> QED BY <1>1, <3>1, Zenon DEF IInv, Terminal, Busy
  <2> QED BY <2>1, <2>2, Zenon
<1> QED BY <1>1, <1>3, <1>4, <1>5, GroupMoves, Zenon DEF IInv

LEMMA ArgvBgInv == ASSUME IInv, NEW p \in Proc, NEW target, argv_cmd_bg(p, target) PROVE IInv'
<1> DEFINE found == target # SHELL /\ GroupExists(target)
           wakes(q) == found /\ proc[q].pgid = target /\ proc[q].state = "stopped"
<1>1. /\ proc[p].state = "ready" /\ job[p[1]].cmd = "bg"
      /\ proc' = [q \in Proc |-> IF q = p THEN [proc[q] EXCEPT !.state = "zombie"]
                                 ELSE IF wakes(q) THEN [proc[q] EXCEPT !.state = "running"] ELSE proc[q]]
      /\ UNCHANGED <<pc, line, job, fds, fd>>
  BY Zenon DEF argv_cmd_bg, State, fdVars
<1> HIDE DEF found
<1>2. p[1] \in Line /\ p[2] = 0 /\ p[1] = line /\ pc \in {"parent0", "wait0"}
  <2>1. p[1] \in Line /\ p[2] \in {0, 1} /\ p = <<p[1], p[2]>>
    BY ProcFacts, Zenon
  <2>2. p[2] = 0
    <3> SUFFICES ASSUME p[2] = 1 PROVE FALSE
      BY <2>1
    <3>1. proc[<<p[1], 1>>].state # "none"
      BY <1>1, <2>1
    <3>2. p[1] <= line /\ Two(p[1])
      BY <2>1, <3>1, Zenon DEF IInv, Stages, State
    <3>3. job[p[1]].stages = 1
      <4>1. job[p[1]].cmd # "run"
        BY <1>1
      <4> QED BY <2>1, <3>2, <4>1, Zenon DEF IInv, Stages
    <3> QED BY <3>2, <3>3 DEF Two
  <2>3. proc[<<p[1], 0>>].state \in {"forked", "grouped", "ready"}
    BY <1>1, <2>1, <2>2
  <2> QED BY <1>1, <2>1, <2>2, <2>3, Zenon DEF IInv, Stages, State
<1>3. \A q \in Proc : /\ proc'[q] \in ProcRec
                      /\ q = p => proc'[q].state = "zombie"
                      /\ q # p => \/ proc'[q].state = proc[q].state
                                  \/ proc[q].state = "stopped" /\ proc'[q].state = "running"
  <2> SUFFICES ASSUME NEW q \in Proc
               PROVE  /\ proc'[q] \in ProcRec
                      /\ q = p => proc'[q].state = "zombie"
                      /\ q # p => \/ proc'[q].state = proc[q].state
                                  \/ proc[q].state = "stopped" /\ proc'[q].state = "running"
    BY Zenon
  <2>1. proc[q] \in ProcRec
    BY Zenon DEF IInv, Types
  <2>2. /\ [proc[q] EXCEPT !.state = "running"] \in ProcRec /\ [proc[q] EXCEPT !.state = "running"].state = "running"
        /\ [proc[q] EXCEPT !.state = "zombie"] \in ProcRec /\ [proc[q] EXCEPT !.state = "zombie"].state = "zombie"
    BY <2>1, SetRecState, Zenon
  <2>3. proc'[q] = IF q = p THEN [proc[q] EXCEPT !.state = "zombie"]
                   ELSE IF wakes(q) THEN [proc[q] EXCEPT !.state = "running"] ELSE proc[q]
    BY <1>1, Zenon
  <2> QED BY <2>1, <2>2, <2>3, Zenon
<1>4. proc' \in [Proc -> ProcRec]
  BY <1>1, <1>3, Zenon
<1>5. \A q \in Proc : Moves(q)
  <2> SUFFICES ASSUME NEW q \in Proc PROVE Moves(q)
    BY Zenon
  <2>1. CASE q = p
    <3>1. proc'[q].state = "zombie" /\ proc[q].state = "ready" /\ q[2] = 0
      BY <1>1, <1>2, <1>3, <2>1, Zenon
    <3> QED BY <3>1 DEF Moves, Over, Young
  <2>2. CASE proc'[q].state = proc[q].state
    BY <2>2, Zenon DEF Moves
  <2>3. CASE proc[q].state = "stopped" /\ proc'[q].state = "running"
    BY <2>3 DEF Moves, Over, Young
  <2> QED BY <1>3, <2>1, <2>2, <2>3, Zenon
<1>6. Terminal'
  <2>1. job[line].cmd # "run" /\ pc \notin {"prompt", "stopped"}
    BY <1>1, <1>2
  <2> QED BY <1>1, <2>1, Zenon DEF Terminal
<1> QED BY <1>1, <1>4, <1>5, <1>6, GroupMoves, Zenon DEF IInv

\* SIGCHLD.
LEMMA HandlerInv == ASSUME IInv, handler PROVE IInv'
<1>1. /\ \/ \E p \in Proc : proc[p].state = "zombie" /\ proc' = SetState(p, "gone")
         \/ UNCHANGED proc
      /\ tty' = SHELL /\ retaken' = TRUE /\ pc # "stopped"
      /\ UNCHANGED <<pc, line, job, fds, fd, late>>
  BY Zenon DEF handler, State, fdVars
<1>2. Types' /\ Stages' /\ Descriptors'
  <2>1. ASSUME NEW p \in Proc, proc[p].state = "zombie", proc' = SetState(p, "gone")
        PROVE  Types' /\ Stages' /\ Descriptors'
    <3>1. "gone" \in Over /\ proc[p].state \in Over /\ proc[p].state # "none"
      BY <2>1 DEF Over
    <3> QED BY <1>1, <2>1, <3>1, EndInv, Zenon
  <2>2. CASE UNCHANGED proc
    BY <1>1, <2>2, QuietInv, Zenon
  <2> QED BY <1>1, <2>1, <2>2, Zenon
<1>3. Terminal'
  BY <1>1, Zenon DEF Terminal
<1> QED BY <1>2, <1>3, Zenon DEF IInv

-----------------------------------------------------------------------------
\* The shell's loop.

\* The shell moves between two places of its loop at which no line is being worked on.
LEMMA LoopInv ==
    ASSUME IInv, UNCHANGED <<line, job, proc, fds>>,
           \/ /\ pc \in {"top", "prompt", "reading"} /\ fd' = fd
              /\ pc' \in {"top", "prompt", "reading", "stopped", "exited"}
           \/ pc = "clear" /\ pc' = "top" /\ fd' = << >>
    PROVE  Types' /\ Stages' /\ Descriptors'
<1>1. /\ pc \in {"top", "prompt", "reading", "clear"}
      /\ pc' \in {"top", "prompt", "reading", "stopped", "exited"} /\ fd' \in {fd, << >>}
      /\ pc' \in {"top", "prompt", "reading"} => fd' = << >>
  <2>1. pc \in {"top", "prompt", "reading"} => fd = << >>
    BY Zenon DEF IInv, Descriptors
  <2> QED BY <2>1, Zenon
<1>2. Types'
  <2>1. pc' \in Pc
    BY <1>1 DEF Pc
  <2> QED BY <2>1, Zenon DEF IInv, Types
<1>3. /\ pc' \notin {"ps", "fork0", "parent0", "fork1", "parent1", "wait0", "wait1", "close"}
      /\ pc \notin {"parent0", "wait0"} /\ Started /\ Started' /\ ~Forking' /\ pc' \notin {"clear", "fork1"}
  BY <1>1 DEF Started, Forking
<1>4. Stages'
  <2>1. \A q \in Proc : Moves(q)
    BY Zenon DEF Moves
  <2>2. pc' \notin {"fork1", "parent1", "wait1"} /\ pc' \notin {"parent0", "fork1"}
    BY <1>3, Zenon
  <2> QED BY <1>3, <2>1, <2>2, StagesKept, Zenon DEF IInv
<1>5. D' = D /\ Base' = Base
  BY Zenon DEF D, Base, Pipelines
<1>6. Cardinality(D) = Base
  BY <1>1, Zenon DEF IInv, Descriptors
<1>7. Descriptors'
  <2>1. \A f \in D, l \in Line : fds[f] # <<l, 0, "w">>
    <3>1. pc # "parent0"
      BY <1>3, Zenon
    <3> QED BY <3>1, Zenon DEF IInv, Descriptors
  <2>2. D \subseteq 0 .. 3 * MaxLines + 9
    BY Zenon DEF IInv, Descriptors
  <2>3. pc' \notin {"parent0", "wait0", "close"} /\ pc' # "parent0" /\ pc' # "fork1"
        /\ pc' \notin {"parent1", "wait0", "wait1", "close"} /\ pc' \notin {"ps", "fork0"}
    BY <1>3, Zenon
  <2>4. pc' \in {"top", "prompt", "reading", "ps", "fork0"} => fd' = << >>
    BY <1>1, <2>3, Zenon
  <2> QED BY <1>3, <1>5, <1>6, <2>1, <2>2, <2>3, <2>4, Zenon DEF Descriptors
<1> QED BY <1>2, <1>4, <1>7, Zenon

LEMMA TopInv == ASSUME IInv, main_top PROVE IInv'
<1>1. pc = "top" /\ pc' = "prompt" /\ tty' = SHELL /\ UNCHANGED <<line, job, proc, fds, fd>>
  BY Zenon DEF main_top, procVars, fdVars
<1>2. Terminal'
  BY <1>1 DEF Terminal, Busy
<1> QED BY <1>1, <1>2, LoopInv, Zenon DEF IInv

LEMMA PromptInv ==
    ASSUME IInv, get_cmd_line \/ get_cmd_line_empty \/ get_cmd_line_exit \/ main_clear
    PROVE  IInv'
<1>1. /\ UNCHANGED <<line, job, proc, fds, tty, late>>
      /\ \/ pc = "prompt" /\ pc' = (IF tty = SHELL THEN "reading" ELSE "stopped") /\ fd' = fd
         \/ pc = "reading" /\ pc' \in {"top", "exited"} /\ fd' = fd
         \/ pc = "clear" /\ pc' = "top" /\ fd' = << >>
  BY Zenon DEF get_cmd_line, get_cmd_line_empty, get_cmd_line_exit, main_clear, procVars, fdVars
<1>2. Types' /\ Stages' /\ Descriptors'
  BY <1>1, LoopInv, Zenon
<1>3. pc' \in {"top", "reading", "stopped", "exited"} /\ (pc' = "stopped" => late)
  BY <1>1, Zenon DEF IInv, Terminal
<1>4. Terminal'
  BY <1>1, <1>3 DEF Terminal, Busy
<1> QED BY <1>2, <1>4, Zenon DEF IInv

LEMMA PsInv == ASSUME IInv, main_ps PROVE IInv'
<1>1. /\ UNCHANGED <<line, job, proc, fds, fd, tty, late, retaken>>
      /\ pc = "ps" /\ pc' = IF job[line].cmd = "jobs" THEN "clear" ELSE "fork0"
  BY Zenon DEF main_ps, procVars, fdVars
<1>2. pc' \in {"clear", "fork0"} /\ (pc' = "clear" => job[line].cmd = "jobs") /\ line \in Line /\ line > 0 /\ line <= line
  <2>1. line > 0
    BY <1>1, Zenon DEF IInv, Stages
  <2>2. line \in Line
    BY <2>1, LineInRange
  <2>3. line <= line
    BY <2>2, LineTypes
  <2> QED BY <1>1, <2>1, <2>2, <2>3, Zenon
<1>3. pc' = "clear" => ~Two(line)
  <2>1. pc' = "clear" => job[line].cmd # "run"
    BY <1>2
  <2>2. pc' = "clear" => job[line].stages = 1
    BY <1>2, <2>1, Zenon DEF IInv, Stages
  <2> QED BY <2>2 DEF Two
<1>4. Types' /\ Terminal'
  BY <1>1, <1>2 DEF IInv, Types, Pc, Terminal, Busy
<1>5. Stages'
  <2>1. /\ ~Started /\ (Started' => ~Two(line)) /\ pc' \notin {"fork1", "parent1", "wait1"}
        /\ pc' \notin {"parent0", "fork1"} /\ pc \notin {"parent0", "wait0"}
    BY <1>1, <1>2, <1>3 DEF Started
  <2>2. (\A q \in Proc : Moves(q)) /\ line > 0
    BY <1>1, <1>2, Zenon DEF Moves
  <2>3. Two(line) => (Started' <=> Started)
    BY <2>1, Zenon
  <2> QED BY <1>1, <2>1, <2>2, <2>3, StagesKept, Zenon
<1>6. Descriptors'
  <2>1. D' = D /\ Base' = Base /\ (Two(line)' <=> Two(line)) /\ Forking /\ (Forking' => pc' = "fork0")
    BY <1>1, <1>2 DEF D, Base, Pipelines, Two, Forking
  <2>2. /\ \A f \in D, l \in Line : fds[f] # <<l, 0, "w">>
        /\ Cardinality(D) = (IF Two(line) THEN Base - 1 ELSE Base) /\ fd = << >> /\ D \subseteq 0 .. 3 * MaxLines + 9
    <3>1. pc # "parent0"
      BY <1>1
    <3> QED BY <1>1, <2>1, <3>1, Zenon DEF IInv, Descriptors
  <2>3. /\ pc' \notin {"parent0", "wait0", "close"} /\ pc' # "parent0" /\ pc' # "fork1"
        /\ pc' \notin {"parent1", "wait0", "wait1", "close"}
        /\ pc' \in {"top", "prompt", "reading", "stopped", "exited", "clear", "fork1"} => pc' = "clear"
    BY <1>2
  <2>4. pc' = "clear" => Cardinality(D) = Base
    BY <1>3, <2>2, Zenon
  <2> QED BY <1>1, <2>1, <2>2, <2>3, <2>4, Zenon DEF Descriptors
<1> QED BY <1>4, <1>5, <1>6, Zenon DEF IInv

-----------------------------------------------------------------------------
\* The kernel hands out the lowest free descriptor.

LEMMA FreeNumber ==
    ASSUME NEW n \in Nat, NEW S \in SUBSET (0 .. n), Cardinality(S) <= n
    PROVE  /\ IsFiniteSet(S) /\ Cardinality(S) \in Nat
           /\ Min((0 .. n) \ S) \in (0 .. n) \ S
           /\ 0 .. Min((0 .. n) \ S) - 1 \subseteq S
<1> DEFINE T == (0 .. n) \ S
<1>1. IsFiniteSet(0 .. n) /\ Cardinality(0 .. n) = n + 1
  BY FS_Interval
<1>2. IsFiniteSet(S) /\ Cardinality(S) \in Nat
  BY <1>1, FS_Subset, FS_CardinalityType, Zenon
<1>3. T # {}
  <2> SUFFICES ASSUME T = {} PROVE FALSE
    OBVIOUS
  <2>1. S = 0 .. n
    BY Zenon
  <2> QED BY <1>1, <1>2, <2>1
<1>4. T \in SUBSET Nat
  BY SMT
<1>5. \E m \in T : \A y \in T : m <= y
  BY <1>3, <1>4, LeastNatural, Zenon
<1>6. Min(T) \in T /\ \A y \in T : Min(T) <= y
  BY <1>5, Zenon DEF Min
<1>7. 0 .. Min(T) - 1 \subseteq S
  <2> SUFFICES ASSUME NEW y \in 0 .. Min(T) - 1, y \notin S PROVE FALSE
    BY Zenon
  <2>1. Min(T) \in 0 .. n
    BY <1>6, Zenon
  <2>2. y \in 0 .. n /\ y < Min(T) /\ Min(T) \in Nat /\ y \in Nat
    <3> HIDE DEF T
    <3> QED BY <2>1
  <2>3. Min(T) <= y
    BY <1>6, <2>2, Zenon
  <2> HIDE DEF T
  <2> QED BY <2>2, <2>3
<1> QED BY <1>2, <1>6, <1>7, Zenon

LEMMA FewDescriptors == ASSUME D \subseteq 0 .. 3 * MaxLines + 9 PROVE IsFiniteSet(D)
<1>1. 0 \in Int /\ 3 * MaxLines + 9 \in Int
  BY LineTypes
<1>2. IsFiniteSet(0 .. 3 * MaxLines + 9)
  BY <1>1, FS_Interval, Zenon
<1> QED BY <1>2, FS_Subset, Zenon

LEMMA LowestFacts ==
    ASSUME D \subseteq 0 .. 3 * MaxLines + 9, Cardinality(D) <= 2 * MaxLines + 3
    PROVE  /\ IsFiniteSet(D) /\ Cardinality(D) \in Nat
           /\ Lowest \in (0 .. 3 * MaxLines + 9) \ D /\ 0 .. Lowest - 1 \subseteq D
           /\ Second \in (0 .. 3 * MaxLines + 9) \ D /\ Second # Lowest /\ 0 .. Second - 1 \subseteq D \cup {Lowest}
           /\ Cardinality(D \cup {Lowest}) = Cardinality(D) + 1
           /\ Cardinality(D \cup {Lowest, Second}) = Cardinality(D) + 2
<1> DEFINE n == 3 * MaxLines + 9
<1>1. n \in Nat /\ MaxLines \in Nat
  BY LineTypes
<1>2. IsFiniteSet(0 .. n)
  BY <1>1, FS_Interval
<1>3. IsFiniteSet(D) /\ Cardinality(D) \in Nat
  BY <1>2, FS_Subset, FS_CardinalityType, Zenon
<1>4. Cardinality(D) <= n /\ Cardinality(D) + 1 <= n
  BY <1>1, <1>3
<1> HIDE DEF n
<1>5. Lowest = Min((0 .. n) \ D) /\ Second = Min((0 .. n) \ (D \cup {Lowest}))
  BY Zenon DEF n, Lowest, Second, D
<1>6. Lowest \in (0 .. n) \ D /\ 0 .. Lowest - 1 \subseteq D
  <2>1. D \in SUBSET (0 .. n)
    BY Zenon DEF n
  <2> QED BY <1>1, <1>4, <1>5, <2>1, FreeNumber, Zenon
<1>7. IsFiniteSet(D \cup {Lowest}) /\ Cardinality(D \cup {Lowest}) = Cardinality(D) + 1
  BY <1>3, <1>6, FS_AddElement, Zenon
<1>8. Second \in (0 .. n) \ (D \cup {Lowest}) /\ 0 .. Second - 1 \subseteq D \cup {Lowest}
  <2>1. D \cup {Lowest} \in SUBSET (0 .. n)
    BY <1>6, Zenon DEF n
  <2>2. Cardinality(D \cup {Lowest}) <= n
    BY <1>4, <1>7, Zenon
  <2> QED BY <1>1, <1>5, <2>1, <2>2, FreeNumber, Zenon
<1>9. Cardinality(D \cup {Lowest, Second}) = Cardinality(D) + 2
  <2>1. D \cup {Lowest, Second} = (D \cup {Lowest}) \cup {Second}
    BY Zenon
  <2>2. Cardinality((D \cup {Lowest}) \cup {Second}) = Cardinality(D \cup {Lowest}) + 1
    BY <1>7, <1>8, FS_AddElement, Zenon
  <2> QED BY <1>3, <1>7, <2>1, <2>2
<1> QED BY <1>3, <1>6, <1>7, <1>8, <1>9, Zenon DEF n

\* One descriptor for each line read and one for each pipeline stay open.
LEMMA BaseFacts ==
    ASSUME IInv
    PROVE  /\ IsFiniteSet(Pipelines) /\ Cardinality(Pipelines) \in Nat /\ line \in Nat /\ line <= MaxLines
           /\ Base \in Nat /\ Base <= 3 + 2 * line
<1>1. line \in Nat /\ line <= MaxLines /\ MaxLines \in Nat
  BY LineTypes DEF IInv, Types
<1>2. IsFiniteSet(1 .. line) /\ Cardinality(1 .. line) <= line
  BY <1>1, FS_Interval
<1>3. Pipelines \in SUBSET (1 .. line)
  BY Zenon DEF Pipelines
<1>4. IsFiniteSet(Pipelines) /\ Cardinality(Pipelines) <= Cardinality(1 .. line)
  BY <1>2, <1>3, FS_Subset, Zenon
<1>5. Cardinality(Pipelines) \in Nat /\ Cardinality(1 .. line) \in Nat
  BY <1>2, <1>4, FS_CardinalityType, Zenon
<1> QED BY <1>1, <1>2, <1>4, <1>5 DEF Base

\* The next line.
LEMMA PipelinesGrow ==
    ASSUME IInv, NEW n \in 1 .. 2, line' = line + 1, line + 1 \in Line, \A l \in Line : l # line + 1 => job'[l] = job[l],
           job'[line + 1].stages = n
    PROVE  Base' = IF n = 2 THEN Base + 2 ELSE Base + 1
<1>1. /\ IsFiniteSet(Pipelines) /\ Cardinality(Pipelines) \in Nat /\ line \in Nat /\ line <= MaxLines
  BY BaseFacts, Zenon
<1>2. \A l \in 1 .. line : l \in Line /\ l # line + 1
  BY <1>1, LineTypes DEF Line
<1>3. /\ \A l \in 1 .. line : l \in 1 .. line + 1
      /\ \A l \in 1 .. line + 1 : l \in 1 .. line \/ l = line + 1
      /\ line + 1 \in 1 .. line + 1 /\ line + 1 \notin 1 .. line
  BY <1>1
<1>4. Pipelines' = {l \in 1 .. line + 1 : job'[l].stages > 1}
  BY Zenon DEF Pipelines
<1>5. \A l \in 1 .. line : job'[l].stages = job[l].stages
  BY <1>2, Zenon
<1>6. CASE n = 2
  <2>1. job'[line + 1].stages > 1
    BY <1>6
  <2>2. Pipelines' = Pipelines \cup {line + 1}
    BY <1>3, <1>4, <1>5, <2>1, Zenon DEF Pipelines
  <2>3. line + 1 \notin Pipelines
    BY <1>3, Zenon DEF Pipelines
  <2>4. Cardinality(Pipelines') = Cardinality(Pipelines) + 1
    BY <1>1, <2>2, <2>3, FS_AddElement, Zenon
  <2> QED BY <1>1, <1>6, <2>4 DEF Base
<1>7. CASE n = 1
  <2>1. ~(job'[line + 1].stages > 1)
    BY <1>7
  <2>2. Pipelines' = Pipelines
    BY <1>3, <1>4, <1>5, <2>1, Zenon DEF Pipelines
  <2> QED BY <1>1, <1>7, <2>2 DEF Base
<1> QED BY <1>6, <1>7

LEMMA LineInv ==
    ASSUME IInv, NEW cmd \in {"run", "bg", "jobs"}, NEW n \in 1 .. 2, NEW bg \in BOOLEAN, NEW reads \in BOOLEAN,
           get_cmd_line_done(cmd, n, bg, reads)
    PROVE  IInv'
<1> DEFINE k == line + 1
           r == [stages |-> n, bg |-> bg, reads |-> reads, cmd |-> cmd]
<1>1. /\ pc = "reading" /\ line < MaxLines /\ (cmd # "run" => n = 1 /\ ~bg) /\ (n = 1 => reads)
      /\ line' = k /\ job' = [job EXCEPT ![k] = r] /\ fds' = Open(Lowest, <<0, 0, "ps">>) /\ pc' = "ps"
      /\ UNCHANGED <<proc, fd, tty, late, retaken>>
  BY Zenon DEF get_cmd_line_done
<1>2. line \in Nat /\ line <= MaxLines /\ Base \in Nat /\ Base <= 3 + 2 * line
  BY BaseFacts, Zenon
<1>3. k \in Line /\ k \in 0 .. MaxLines /\ k > 0 /\ k <= k /\ ~(k < k)
  BY <1>1, <1>2, LineTypes DEF Line
<1>4. r \in JobRec /\ r.stages = n /\ r.cmd = cmd /\ r.bg = bg /\ r.reads = reads
  BY DEF JobRec
<1> HIDE DEF r
<1>5. job' \in [Line -> JobRec] /\ job'[k] = r /\ \A l \in Line : l # k => job'[l] = job[l]
  BY <1>1, <1>3, <1>4, Zenon DEF IInv, Types
<1>6. \A l \in Line : /\ l <= k => l <= line \/ l = k
                      /\ l < k => l <= line
                      /\ l <= line => l < k /\ l <= k /\ l # k
                      /\ l > k => l > line
  BY <1>2, LineTypes
<1>7. k > line /\ ~(k <= line)
  BY <1>2
<1> HIDE DEF k
<1>8. Types'
  <2>1. pc' \in Pc
    BY <1>1 DEF Pc
  <2> QED BY <1>1, <1>3, <1>5, <2>1, Zenon DEF IInv, Types
<1>9. Terminal'
  BY <1>1 DEF Terminal, Busy
<1>10. ~Started' /\ Started /\ pc \notin {"parent0", "wait0"} /\ pc' \notin {"fork1", "parent1", "wait1"} /\ pc' \notin {"parent0", "fork1"}
  BY <1>1 DEF Started
<1>11. Stages'
  <2>1. \A q : State(q)' = State(q)
    BY <1>1, Zenon DEF State
  <2>2. State(<<k, 0>>) = "none" /\ State(<<k, 1>>) = "none"
    BY <1>3, <1>7, Zenon DEF IInv, Stages
  <2>3. "none" \notin {"forked", "grouped", "ready"} /\ "none" \notin {"running", "stopped"} /\ "none" \notin {"zombie", "gone"}
    BY SMT
  <2>4. \A l \in Line : l <= k => job'[l].stages \in {1, 2} /\ (job'[l].cmd # "run" => job'[l].stages = 1 /\ ~job'[l].bg)
    <3>1. n \in {1, 2}
      BY SMT
    <3> QED BY <1>1, <1>4, <1>5, <1>6, <3>1, Zenon DEF IInv, Stages
  <2>5. ASSUME NEW l \in Line
        PROVE  IF l <= k /\ Two(l)' /\ (l < k \/ Started') THEN State(<<l, 1>>) # "none" ELSE State(<<l, 1>>) = "none"
    <3>1. IF l <= line /\ Two(l) /\ (l < line \/ Started) THEN State(<<l, 1>>) # "none" ELSE State(<<l, 1>>) = "none"
      BY Zenon DEF IInv, Stages
    <3>2. CASE l = k
      BY <1>3, <1>10, <2>2, <3>2, Zenon
    <3>3. CASE l # k
      <4>1. Two(l)' <=> Two(l)
        BY <1>5, <3>3, Zenon DEF Two
      <4> QED BY <1>6, <1>10, <3>1, <3>3, <4>1, Zenon
    <3> QED BY <3>2, <3>3
  <2>6. ASSUME NEW l \in Line, job'[l].cmd = "bg" PROVE State(<<l, 0>>) \notin {"running", "stopped"} \cup Young
    <3>1. CASE l = k
      BY <2>2, <3>1 DEF Young
    <3>2. CASE l # k
      <4>1. State(<<l, 0>>) \notin {"running", "stopped"} /\ State(<<l, 0>>) \notin {"forked", "grouped", "ready"}
        BY <1>5, <1>10, <2>6, <3>2, Zenon DEF IInv, Stages
      <4> QED BY <4>1, Zenon DEF Young
    <3> QED BY <3>1, <3>2
  <2>7. ASSUME NEW l \in Line, job'[l].reads, State(<<l, 1>>) \in {"zombie", "gone"}
        PROVE  State(<<l, 0>>) \in {"zombie", "gone"}
    BY <1>5, <2>2, <2>3, <2>7, Zenon DEF IInv, Stages
  <2>8. /\ \A l \in Line : l > k => State(<<l, 0>>) = "none"
        /\ \A l \in Line : State(<<l, 1>>) # "none" => State(<<l, 0>>) # "none"
    BY <1>6, Zenon DEF IInv, Stages
  <2> QED BY <1>1, <1>3, <1>10, <2>1, <2>4, <2>5, <2>6, <2>7, <2>8, Zenon DEF Stages, Young
<1>12. Descriptors'
  <2>1. /\ Cardinality(D) = Base /\ fd = << >> /\ D \subseteq 0 .. 3 * MaxLines + 9
        /\ \A f \in D, l \in Line : fds[f] # <<l, 0, "w">>
    <3>1. pc # "parent0"
      BY <1>1
    <3> QED BY <1>1, <3>1, Zenon DEF IInv, Descriptors
  <2>2. Cardinality(D) <= 2 * MaxLines + 3
    BY <1>1, <1>2, <2>1, LineTypes
  <2>3. Lowest \in (0 .. 3 * MaxLines + 9) \ D /\ Cardinality(D \cup {Lowest}) = Cardinality(D) + 1
    BY <2>1, <2>2, LowestFacts, Zenon
  <2>4. D' = D \cup {Lowest} /\ \A f \in D \cup {Lowest} : fds'[f] = IF f = Lowest THEN <<0, 0, "ps">> ELSE fds[f]
    BY <1>1, Zenon DEF D, Open
  <2>5. Base' = IF n = 2 THEN Base + 2 ELSE Base + 1
    <3>1. job'[k].stages = n
      BY <1>4, <1>5, Zenon
    <3> QED BY <1>1, <1>3, <1>5, <3>1, PipelinesGrow, Zenon DEF k
  <2>6. Two(line)' <=> n = 2
    BY <1>1, <1>4, <1>5, Zenon DEF Two
  <2>7. Cardinality(D') = IF Two(line)' THEN Base' - 1 ELSE Base'
    BY <1>2, <2>1, <2>3, <2>4, <2>5, <2>6
  <2>8. \A f \in D', l \in Line : fds'[f] # <<l, 0, "w">>
    <3>1. \A l \in Line : <<0, 0, "ps">> # <<l, 0, "w">>
      BY SMT
    <3> QED BY <2>1, <2>4, <3>1, Zenon
  <2>9. D' \subseteq 0 .. 3 * MaxLines + 9
    BY <2>1, <2>3, <2>4, Zenon
  <2>10. /\ pc' \notin {"top", "prompt", "reading", "stopped", "exited", "clear", "fork1"}
         /\ pc' \notin {"parent0", "wait0", "close"} /\ pc' # "parent0" /\ pc' # "fork1"
         /\ pc' \notin {"parent1", "wait0", "wait1", "close"}
    BY <1>1
  <2> QED BY <1>1, <2>1, <2>7, <2>8, <2>9, <2>10, Zenon DEF Descriptors
<1> QED BY <1>8, <1>9, <1>11, <1>12, Zenon DEF IInv

-----------------------------------------------------------------------------
\* process_cmd.

\* A process of the current line is forked: the leader, or the second stage after it.
LEMMA ForkStages ==
    ASSUME IInv, NEW x \in {0, 1}, x = 0 => pc = "fork0" /\ pc' = "parent0", x = 1 => pc = "fork1" /\ pc' = "parent1",
           proc' = SetState(<<line, x>>, "forked"), UNCHANGED <<line, job>>
    PROVE  /\ Types' /\ Stages' /\ line \in Line
           /\ \A q \in Proc : q # <<line, x>> => proc'[q].state = proc[q].state
           /\ proc'[<<line, x>>].state = "forked"
<1>0. line > 0 /\ (x = 1 => Two(line)) /\ (x = 1 => State(<<line, 0>>) # "none")
  BY DEF IInv, Stages
<1>1. line \in Line /\ line \in Nat /\ line <= line /\ ~(line < line) /\ ~(line > line)
  <2>1. line \in Line /\ line \in Nat
    BY <1>0, LineInRange, LineTypes, Zenon
  <2> QED BY <2>1
<1>2. <<line, x>> \in Proc
  BY <1>1, ProcFacts
<1>3. /\ proc' \in [Proc -> ProcRec] /\ proc'[<<line, x>>].state = "forked"
      /\ \A q \in Proc : q # <<line, x>> => proc'[q].state = proc[q].state
  BY <1>2, SetStateFacts, Zenon DEF IInv
<1>4. Types'
  <2>1. pc' \in Pc
    BY DEF Pc
  <2> QED BY <1>3, <2>1, Zenon DEF IInv, Types
<1>5. /\ \A l \in Line : l # line \/ x = 1 => proc'[<<l, 0>>].state = proc[<<l, 0>>].state
      /\ \A l \in Line : l # line \/ x = 0 => proc'[<<l, 1>>].state = proc[<<l, 1>>].state
  BY <1>1, <1>3, ProcFacts
<1>6. Stages'
  <2>1. /\ x = 0 => ~Started /\ ~Started' /\ pc' = "parent0" /\ pc' \notin {"fork1", "parent1", "wait1"}
        /\ x = 1 => ~Started /\ Started' /\ pc' = "parent1" /\ pc' \notin {"parent0", "fork1"}
        /\ "forked" # "none" /\ "forked" \notin {"running", "stopped"} /\ "forked" \notin {"zombie", "gone"}
        /\ pc \notin {"parent0", "wait0"} /\ "none" \notin {"zombie", "gone"}
    BY DEF Started
  <2>2. \A l : Two(l)' <=> Two(l)
    BY Zenon DEF Two
  <2>3. ASSUME NEW l \in Line
        PROVE  IF l <= line /\ Two(l) /\ (l < line \/ Started')
               THEN proc'[<<l, 1>>].state # "none" ELSE proc'[<<l, 1>>].state = "none"
    <3>1. IF l <= line /\ Two(l) /\ (l < line \/ Started) THEN proc[<<l, 1>>].state # "none" ELSE proc[<<l, 1>>].state = "none"
      BY Zenon DEF IInv, Stages, State
    <3>2. CASE l = line /\ x = 1
      BY <1>0, <1>1, <1>3, <2>1, <3>2, Zenon
    <3>3. CASE l = line /\ x = 0
      BY <1>5, <2>1, <3>1, <3>3, Zenon
    <3>4. CASE l # line
      <4>1. l <= line <=> l < line
        <5>1. l \in Nat
          BY LineTypes, Zenon
        <5> QED BY <1>1, <3>4, <5>1
      <4> QED BY <1>5, <3>1, <3>4, <4>1, Zenon
    <3> QED BY <3>2, <3>3, <3>4, Zenon
  <2>4. ASSUME NEW l \in Line
        PROVE  /\ l > line => proc'[<<l, 0>>].state = "none"
               /\ proc'[<<l, 1>>].state # "none" => proc'[<<l, 0>>].state # "none"
    <3>1. /\ l > line => proc[<<l, 0>>].state = "none"
          /\ proc[<<l, 1>>].state # "none" => proc[<<l, 0>>].state # "none"
      BY Zenon DEF IInv, Stages, State
    <3>2. CASE l = line /\ x = 0
      BY <1>1, <1>3, <2>1, <3>2, Zenon
    <3>3. CASE l = line /\ x = 1
      BY <1>0, <1>1, <1>5, <3>3, Zenon DEF State
    <3> QED BY <1>5, <3>1, <3>2, <3>3, Zenon
  <2>5. ASSUME NEW l \in Line, job[l].cmd = "bg"
        PROVE  /\ proc'[<<l, 0>>].state \notin {"running", "stopped"}
               /\ proc'[<<l, 0>>].state \in {"forked", "grouped", "ready"} => l = line /\ pc' \in {"parent0", "wait0"}
    <3>1. proc[<<l, 0>>].state \notin {"running", "stopped"} /\ proc[<<l, 0>>].state \notin {"forked", "grouped", "ready"}
      BY <2>1, <2>5, Zenon DEF IInv, Stages, State
    <3>2. CASE l = line /\ x = 0
      BY <1>3, <2>1, <3>2, Zenon
    <3> QED BY <1>5, <3>1, <3>2, Zenon
  <2>6. ASSUME NEW l \in Line, job[l].reads, proc'[<<l, 1>>].state \in {"zombie", "gone"}
        PROVE  proc'[<<l, 0>>].state \in {"zombie", "gone"}
    <3>1. ~(l = line /\ x = 1)
      BY <1>3, <2>1, <2>6, Zenon
    <3>2. proc[<<l, 1>>].state \in {"zombie", "gone"}
      BY <1>5, <2>6, <3>1, Zenon
    <3>3. proc[<<l, 0>>].state \in {"zombie", "gone"}
      BY <2>6, <3>2, Zenon DEF IInv, Stages, State
    <3>4. l # line
      BY <1>1, <2>1, <3>1, <3>2, Zenon DEF IInv, Stages, State
    <3> QED BY <1>5, <3>3, <3>4, Zenon
  <2>7. /\ pc' \in {"parent0", "fork1"} => proc'[<<line, 0>>].state # "none"
        /\ pc' \in {"fork1", "parent1", "wait1"} => Two(line)
    BY <1>0, <1>3, <2>1, Zenon
  <2>8. \A l \in Line : l <= line => job[l].stages \in {1, 2} /\ (job[l].cmd # "run" => job[l].stages = 1 /\ ~job[l].bg)
    BY Zenon DEF IInv, Stages
  <2> QED BY <1>0, <2>2, <2>3, <2>4, <2>5, <2>6, <2>7, <2>8, Zenon DEF Stages, State
<1> QED BY <1>1, <1>3, <1>4, <1>6, Zenon

LEMMA SecondStage == ASSUME IInv, line \in Line PROVE Two(line) <=> job[line].stages > 1
<1>1. line <= line
  BY LineTypes
<1>2. job[line].stages \in {1, 2}
  BY <1>1, Zenon DEF IInv, Stages
<1> QED BY <1>2 DEF Two

\* The first fork.
LEMMA Fork0Inv == ASSUME IInv, process_cmd_fork(0) PROVE IInv'
<1>1. /\ pc = "fork0" /\ pc' = "parent0" /\ proc' = SetState(<<line, 0>>, "forked")
      /\ IF job[line].stages > 1 THEN fds' = PipeOpen(line, 0) /\ fd' = fd \o <<Lowest, Second>> ELSE UNCHANGED <<fds, fd>>
      /\ UNCHANGED <<line, job, tty, late, retaken>>
  BY Zenon DEF process_cmd_fork
<1>2. Types' /\ Stages' /\ line \in Line /\ proc'[<<line, 0>>].state = "forked"
  <2>1. 0 \in {0, 1} /\ (0 = 0 => pc = "fork0" /\ pc' = "parent0") /\ (0 = 1 => pc = "fork1" /\ pc' = "parent1")
    BY <1>1
  <2> QED BY <1>1, <2>1, ForkStages, Zenon
<1>3. Terminal'
  BY <1>1, <1>2 DEF Terminal, State
<1>4. (Two(line)' <=> Two(line)) /\ (Two(line) <=> job[line].stages > 1) /\ Base' = Base /\ ~Forking' /\ Forking
  <2>1. Base' = Base /\ (Two(line)' <=> Two(line))
    BY <1>1, Zenon DEF Base, Pipelines, Two
  <2>2. ~Forking' /\ Forking
    BY <1>1 DEF Forking
  <2> QED BY <1>2, <2>1, <2>2, SecondStage, Zenon
<1>5. /\ D \subseteq 0 .. 3 * MaxLines + 9 /\ fd = << >> /\ Cardinality(D) = (IF Two(line) THEN Base - 1 ELSE Base)
      /\ \A f \in D, l \in Line : fds[f] # <<l, 0, "w">>
  <2>1. pc # "parent0"
    BY <1>1
  <2> QED BY <1>1, <1>4, <2>1, Zenon DEF IInv, Descriptors
<1>6. /\ pc' \notin {"top", "prompt", "reading", "ps", "fork0"} /\ pc' # "fork1"
      /\ pc' \notin {"top", "prompt", "reading", "stopped", "exited", "clear", "fork1"}
      /\ pc' \notin {"parent1", "wait0", "wait1", "close"}
  BY <1>1
<1>7. CASE ~Two(line)
  <2>1. D' = D /\ fds' = fds /\ fd' = << >>
    BY <1>1, <1>4, <1>5, <1>7, Zenon DEF D
  <2>2. Descriptors'
    BY <1>4, <1>5, <1>6, <1>7, <2>1, Zenon DEF Descriptors
  <2> QED BY <1>2, <1>3, <2>2, Zenon DEF IInv
<1>8. CASE Two(line)
  <2>1. Base \in Nat /\ Base <= 3 + 2 * line /\ line \in Nat /\ line <= MaxLines
    BY BaseFacts, Zenon
  <2>2. Cardinality(D) = Base - 1 /\ Cardinality(D) <= 2 * MaxLines + 3
    BY <1>5, <1>8, <2>1, LineTypes
  <2>3. /\ Lowest \in (0 .. 3 * MaxLines + 9) \ D
        /\ Second \in (0 .. 3 * MaxLines + 9) \ D /\ Second # Lowest /\ 0 .. Second - 1 \subseteq D \cup {Lowest}
        /\ Cardinality(D \cup {Lowest, Second}) = Cardinality(D) + 2
    BY <1>5, <2>2, LowestFacts, Zenon
  <2>4. /\ D' = D \cup {Lowest, Second}
        /\ \A f \in D' : fds'[f] = IF f = Lowest THEN <<line, 0, "r">> ELSE IF f = Second THEN <<line, 0, "w">> ELSE fds[f]
    BY <1>1, <1>4, <1>8, Zenon DEF D, PipeOpen
  <2>5. fd' = <<Lowest, Second>> /\ fd'[1] = Lowest /\ fd'[2] = Second
    BY <1>1, <1>4, <1>5, <1>8
  <2>6. Cardinality(D') = Base + 1
    BY <2>1, <2>2, <2>3, <2>4
  <2>7. ASSUME NEW f \in D', NEW l \in Line, fds'[f] = <<l, 0, "w">> PROVE f = Second
    <3>1. <<line, 0, "r">> # <<l, 0, "w">>
      BY SMT
    <3> QED BY <1>5, <2>4, <2>7, <3>1, Zenon
  <2>8. D' \subseteq 0 .. 3 * MaxLines + 9 /\ 0 .. Second - 1 \subseteq D' /\ Lowest \in D' /\ Second \in D'
    BY <1>5, <2>3, <2>4, Zenon
  <2>9. Descriptors'
    BY <1>1, <1>4, <1>6, <1>8, <2>3, <2>5, <2>6, <2>7, <2>8, Zenon DEF Descriptors
  <2> QED BY <1>2, <1>3, <2>9, Zenon DEF IInv
<1> QED BY <1>7, <1>8

LEMMA FourEntries ==
    ASSUME NEW S, NEW a \in S, NEW b \in S, NEW c \in S, NEW d \in S PROVE <<a, b>> \o <<c, d>> = <<a, b, c, d>>
<1> DEFINE s == <<a, b>> \o <<c, d>>
<1>1. s \in Seq(S) /\ Len(s) = 4 /\ s[1] = a /\ s[2] = b /\ s[3] = c /\ s[4] = d
  OBVIOUS
<1>2. <<a, b, c, d>> \in Seq(S) /\ Len(<<a, b, c, d>>) = 4
  OBVIOUS
<1> HIDE DEF s
<1>3. \A i \in 1 .. 4 : s[i] = <<a, b, c, d>>[i]
  BY <1>1
<1>4. s = <<a, b, c, d>>
  BY <1>1, <1>2, <1>3, SeqEqual
<1> QED BY <1>4 DEF s

\* The second fork: the number that the shell has just closed is handed out again.
LEMMA Fork1Inv == ASSUME IInv, process_cmd_fork(1) PROVE IInv'
<1>1. /\ pc = "fork1" /\ pc' = "parent1" /\ proc' = SetState(<<line, 1>>, "forked")
      /\ IF job[line].stages > 1 THEN fds' = PipeOpen(line, 1) /\ fd' = fd \o <<Lowest, Second>> ELSE UNCHANGED <<fds, fd>>
      /\ UNCHANGED <<line, job, tty, late, retaken>>
  BY SMT DEF process_cmd_fork
<1>2. /\ Types' /\ Stages' /\ line \in Line
      /\ \A q \in Proc : q # <<line, 1>> => proc'[q].state = proc[q].state
  <2>1. 1 \in {0, 1} /\ 1 # 0
    BY SMT
  <2> QED BY <1>1, <2>1, ForkStages, Zenon
<1>3. Terminal'
  <2>1. proc'[<<line, 0>>].state = proc[<<line, 0>>].state
    BY <1>2, ProcFacts, Zenon
  <2>2. Busy /\ pc' # "prompt" /\ pc' # "stopped"
    BY <1>1 DEF Busy
  <2> QED BY <1>1, <2>1, <2>2, Zenon DEF IInv, Terminal, State
<1>4. /\ Two(line) /\ (Two(line)' <=> Two(line)) /\ (Two(line) <=> job[line].stages > 1) /\ Base' = Base /\ ~Forking'
  <2>1. Base' = Base /\ (Two(line)' <=> Two(line))
    BY <1>1, Zenon DEF Base, Pipelines, Two
  <2>2. ~Forking'
    BY <1>1 DEF Forking
  <2> QED BY <1>1, <1>2, <2>1, <2>2, SecondStage, Zenon DEF IInv, Stages
<1>5. /\ D \subseteq 0 .. 3 * MaxLines + 9 /\ Cardinality(D) = Base
      /\ fd = <<fd[1], fd[2]>> /\ fd[1] \in D /\ fd[2] \in Nat \ D /\ 0 .. fd[2] - 1 \subseteq D
      /\ \A f \in D, l \in Line : fds[f] # <<l, 0, "w">>
  <2>1. pc # "parent0"
    BY <1>1
  <2> QED BY <1>1, <2>1, Zenon DEF IInv, Descriptors
<1>6. /\ pc' \notin {"top", "prompt", "reading", "ps", "fork0"} /\ pc' # "fork1" /\ pc' # "parent0"
      /\ pc' \notin {"top", "prompt", "reading", "stopped", "exited", "clear", "fork1"}
      /\ pc' \notin {"parent0", "wait0", "close"}
  BY <1>1
<1>7. Base \in Nat /\ Cardinality(D) <= 2 * MaxLines + 3
  <2>1. Base \in Nat /\ Base <= 3 + 2 * line /\ line \in Nat /\ line <= MaxLines
    BY BaseFacts, Zenon
  <2> QED BY <1>5, <2>1, LineTypes
<1>8. /\ Lowest \in (0 .. 3 * MaxLines + 9) \ D /\ 0 .. Lowest - 1 \subseteq D
      /\ Second \in (0 .. 3 * MaxLines + 9) \ D /\ Second # Lowest
      /\ Cardinality(D \cup {Lowest, Second}) = Cardinality(D) + 2
  BY <1>5, <1>7, LowestFacts, Zenon
<1>9. Lowest = fd[2]
  <2>1. Lowest \in Nat
    BY <1>8
  <2>2. Lowest \in 0 .. fd[2] - 1 \/ fd[2] \in 0 .. Lowest - 1 \/ Lowest = fd[2]
    BY <1>5, <2>1
  <2> QED BY <1>5, <1>8, <2>2, Zenon
<1>10. /\ D' = D \cup {Lowest, Second}
       /\ \A f \in D' : fds'[f] = IF f = Lowest THEN <<line, 1, "r">> ELSE IF f = Second THEN <<line, 1, "w">> ELSE fds[f]
  BY <1>1, <1>4, Zenon DEF D, PipeOpen
<1>11. fd' = <<fd'[1], fd'[2], fd'[2], fd'[4]>> /\ fd'[1] = fd[1] /\ fd'[2] = Lowest
  <2>1. fd' = <<fd[1], fd[2]>> \o <<Lowest, Second>>
    BY <1>1, <1>4, <1>5, Zenon
  <2>2. fd[1] \in Nat /\ fd[2] \in Nat /\ Lowest \in Nat /\ Second \in Nat
    BY <1>5, <1>8
  <2>3. fd' = <<fd[1], fd[2], Lowest, Second>>
    BY <2>1, <2>2, FourEntries, Zenon
  <2> QED BY <1>9, <2>3
<1>12. Cardinality(D') = Base + 2
  BY <1>5, <1>7, <1>8, <1>10
<1>13. ASSUME NEW f \in D', NEW l \in Line, fds'[f] = <<l, 0, "w">> PROVE FALSE
  <2>1. <<line, 1, "r">> # <<l, 0, "w">> /\ <<line, 1, "w">> # <<l, 0, "w">>
    BY SMT
  <2> QED BY <1>5, <1>10, <1>13, <2>1, Zenon
<1>14. D' \subseteq 0 .. 3 * MaxLines + 9 /\ fd'[1] \in D' /\ fd'[2] \in D' /\ fd'[1] # fd'[2]
  BY <1>5, <1>8, <1>10, <1>11, Zenon
<1>15. Descriptors'
  BY <1>4, <1>6, <1>11, <1>12, <1>13, <1>14, Zenon DEF Descriptors
<1> QED BY <1>2, <1>3, <1>15, Zenon DEF IInv

\* The parent's half of the loop: the process keeps its state.
LEMMA ParentStages ==
    ASSUME IInv, NEW x \in {0, 1}, process_cmd_parent(x)
    PROVE  /\ Types' /\ Stages' /\ Terminal' /\ line \in Line
           /\ x = 0 => pc = "parent0"
           /\ x = 1 => pc = "parent1" /\ Two(line)
           /\ pc' \in {"fork1", "wait0", "close"}
           /\ pc' = "fork1" <=> x = 0 /\ Two(line)
<1> DEFINE p == <<line, x>>
           r == [state |-> State(p), pgid |-> IF State(p) \in {"none", "gone"} THEN proc[p].pgid ELSE Setpgid(p)]
<1>1. /\ pc = IF x = 0 THEN "parent0" ELSE "parent1"
      /\ proc' = [proc EXCEPT ![p] = r]
      /\ pc' = IF x + 1 < job[line].stages THEN "fork1" ELSE IF job[line].bg THEN "close" ELSE "wait0"
      /\ UNCHANGED <<line, job, tty, late, retaken>>
  BY Zenon DEF process_cmd_parent
<1>2. /\ x = 0 => pc = "parent0"
      /\ x = 1 => pc = "parent1" /\ Two(line)
  BY <1>1 DEF IInv, Stages
<1>3. line > 0 /\ line \in Line
  <2>1. line > 0
    BY <1>2, Zenon DEF IInv, Stages
  <2> QED BY <2>1, LineInRange
<1>4. job[line].stages \in {1, 2} /\ (job[line].cmd # "run" => job[line].stages = 1 /\ ~job[line].bg)
  <2>1. line <= line
    BY <1>3, LineTypes
  <2> QED BY <1>3, <2>1, Zenon DEF IInv, Stages
<1>5. x + 1 < job[line].stages <=> x = 0 /\ Two(line)
  BY <1>4 DEF Two
<1>6. /\ pc' \in {"fork1", "wait0", "close"}
      /\ pc' = "fork1" <=> x = 0 /\ Two(line)
      /\ pc' = "close" => job[line].bg
  BY <1>1, <1>5
<1>7. p \in Proc /\ proc[p] \in ProcRec /\ p[1] = line
  <2>1. p \in Proc /\ p[1] = line
    BY <1>3, ProcFacts
  <2> QED BY <2>1, Zenon DEF IInv, Types
<1>8. r \in ProcRec /\ r.state = proc[p].state
  <2> DEFINE g == IF State(p) \in {"none", "gone"} THEN proc[p].pgid ELSE Setpgid(p)
  <2>1. proc[p].pgid \in 0 .. MaxLines /\ State(p) = proc[p].state
    BY <1>7 DEF ProcRec, State
  <2>2. line \in 0 .. MaxLines
    BY <1>3, LineTypes DEF Line
  <2>3. g \in 0 .. MaxLines
    BY <1>7, <2>1, <2>2, Zenon DEF Setpgid
  <2> HIDE DEF g, p
  <2>4. [state |-> State(p), pgid |-> g] \in ProcRec /\ [state |-> State(p), pgid |-> g].state = proc[p].state
    BY <1>7, <2>1, <2>3 DEF ProcRec
  <2> QED BY <2>4, Zenon DEF g
<1> HIDE DEF r, p
<1>9. proc' \in [Proc -> ProcRec] /\ \A q \in Proc : proc'[q].state = proc[q].state
  BY <1>1, <1>7, <1>8, Zenon DEF IInv, Types
<1>10. Types'
  <2>1. pc' \in Pc
    BY <1>6 DEF Pc
  <2> QED BY <1>1, <1>9, <2>1, Zenon DEF IInv, Types
<1>11. Stages'
  <2>1. \A q \in Proc : Moves(q)
    <3>1. \A q \in Proc : <<q[1], 0>> \in Proc
      BY ProcFacts, Zenon
    <3> QED BY <1>9, <3>1, Zenon DEF Moves
  <2>2. Two(line) => (Started' <=> Started)
    BY <1>2, <1>6 DEF Started
  <2>3. /\ pc' \in {"fork1", "parent1", "wait1"} => Two(line)
        /\ pc' \in {"parent0", "fork1"} => line \in Line /\ pc \in {"parent0", "fork1"}
    BY <1>2, <1>3, <1>6
  <2>4. job[line].cmd = "bg" => ~Two(line) /\ ~job[line].bg
    BY <1>4 DEF Two
  <2>5. job[line].cmd = "bg" => pc' = "wait0"
    BY <1>6, <2>4, Zenon
  <2>6. \/ pc \in {"parent0", "wait0"} => pc' \in {"parent0", "wait0"}
        \/ job[line].cmd = "bg" => proc'[<<line, 0>>].state \notin Young
    BY <2>5, Zenon
  <2> QED BY <1>1, <1>3, <2>1, <2>2, <2>3, <2>6, StagesKept, Zenon
<1>12. Terminal'
  <2>1. proc'[<<line, 0>>].state = proc[<<line, 0>>].state
    BY <1>3, <1>9, ProcFacts, Zenon
  <2>2. Busy /\ pc' # "prompt" /\ pc' # "stopped"
    BY <1>2, <1>6 DEF Busy
  <2> QED BY <1>1, <2>1, <2>2, Zenon DEF IInv, Terminal, State
<1> QED BY <1>2, <1>3, <1>6, <1>10, <1>11, <1>12, Zenon

\* The descriptors behind fork1, and behind the loop.
LEMMA ParentInv == ASSUME IInv, NEW x \in {0, 1}, process_cmd_parent(x) PROVE IInv'
<1>1. /\ fds' = Close(fds, ParentCloses(x)) /\ UNCHANGED <<line, job, fd>>
      /\ Types' /\ Stages' /\ Terminal' /\ line \in Line
      /\ x = 0 => pc = "parent0"
      /\ x = 1 => pc = "parent1" /\ Two(line)
      /\ pc' \in {"fork1", "wait0", "close"}
      /\ pc' = "fork1" <=> x = 0 /\ Two(line)
  BY ParentStages, Zenon DEF process_cmd_parent
<1>2. Base' = Base /\ (Two(line)' <=> Two(line)) /\ ~Forking' /\ Base \in Nat
  <2>1. Base' = Base /\ (Two(line)' <=> Two(line)) /\ Base \in Nat
    BY <1>1, BaseFacts, Zenon DEF Base, Pipelines, Two
  <2> QED BY <1>1, <2>1 DEF Forking
<1>3. job[line].stages \in {1, 2}
  <2>1. line <= line
    BY <1>1, LineTypes
  <2> QED BY <1>1, <2>1, Zenon DEF IInv, Stages
<1>4. x + 1 < job[line].stages <=> x = 0 /\ Two(line)
  BY <1>3 DEF Two
<1>5. D' = D \ ParentCloses(x) /\ \A f \in D' : fds'[f] = fds[f]
  BY <1>1, Zenon DEF D, Close
<1>6. D \subseteq 0 .. 3 * MaxLines + 9
  BY Zenon DEF IInv, Descriptors
<1>7. /\ pc' \notin {"top", "prompt", "reading", "ps", "fork0"} /\ pc' # "parent0" /\ pc' \notin {"parent1", "wait1"}
      /\ pc' \in {"top", "prompt", "reading", "stopped", "exited", "clear", "fork1"} => pc' = "fork1"
  BY <1>1
<1>8. CASE x = 0 /\ Two(line)
  <2>1. ParentCloses(x) = {fd[2]} /\ pc' = "fork1" /\ pc = "parent0"
    BY <1>1, <1>4, <1>8 DEF ParentCloses
  <2>2. /\ Cardinality(D) = Base + 1
        /\ fd = <<fd[1], fd[2]>> /\ fd[1] \in D /\ fd[2] \in D /\ fd[1] # fd[2] /\ 0 .. fd[2] - 1 \subseteq D
        /\ \A f \in D, l \in Line : fds[f] = <<l, 0, "w">> => f = fd[2]
    BY <1>8, <2>1, Zenon DEF IInv, Descriptors
  <2>3. IsFiniteSet(D)
    BY <1>6, FewDescriptors
  <2>4. Cardinality(D') = Base
    <3>1. Cardinality(D \ {fd[2]}) = Cardinality(D) - 1
      BY <2>2, <2>3, FS_RemoveElement, Zenon
    <3> QED BY <1>2, <1>5, <2>1, <2>2, <3>1
  <2>5. fd[2] \in Nat \ D' /\ 0 .. fd[2] - 1 \subseteq D' /\ fd[1] \in D'
    <3>1. fd[2] \in Nat
      BY <1>6, <2>2, LineTypes
    <3>2. fd[2] \notin 0 .. fd[2] - 1
      BY <3>1
    <3> QED BY <1>5, <2>1, <2>2, <3>1, <3>2, Zenon
  <2>6. \A f \in D', l \in Line : fds'[f] # <<l, 0, "w">>
    BY <1>5, <2>1, <2>2, Zenon
  <2>7. pc' \notin {"parent0", "wait0", "close"} /\ pc' \notin {"parent1", "wait0", "wait1", "close"}
    BY <2>1
  <2>8. D' \subseteq 0 .. 3 * MaxLines + 9
    BY <1>5, <1>6, Zenon
  <2>9. Descriptors'
    BY <1>1, <1>2, <1>7, <2>2, <2>4, <2>5, <2>6, <2>7, <2>8, Zenon DEF Descriptors
  <2> QED BY <1>1, <2>9, Zenon DEF IInv
<1>9. CASE ~(x = 0 /\ Two(line))
  <2>1. ParentCloses(x) = {} /\ pc' \in {"wait0", "close"} /\ pc' # "fork1" /\ (Two(line) => pc = "parent1") /\ (~Two(line) => pc = "parent0")
    BY <1>1, <1>4, <1>9 DEF ParentCloses
  <2>2. D' = D
    BY <1>5, <2>1, Zenon
  <2>3. \A f \in D, l \in Line : fds[f] # <<l, 0, "w">>
    <3>1. ~(pc = "parent0" /\ Two(line))
      BY <2>1
    <3> QED BY <3>1, Zenon DEF IInv, Descriptors
  <2>4. ~Two(line) => Cardinality(D) = Base /\ fd = << >>
    BY <2>1, Zenon DEF IInv, Descriptors
  <2>5. Two(line) => /\ Cardinality(D) = Base + 2
                     /\ fd = <<fd[1], fd[2], fd[2], fd[4]>> /\ fd[1] \in D /\ fd[2] \in D /\ fd[1] # fd[2]
    BY <2>1, Zenon DEF IInv, Descriptors
  <2>6. \A f \in D', l \in Line : fds'[f] # <<l, 0, "w">>
    BY <1>5, <2>2, <2>3, Zenon
  <2>7. Descriptors'
    BY <1>1, <1>2, <1>6, <1>7, <2>1, <2>2, <2>4, <2>5, <2>6, Zenon DEF Descriptors
  <2> QED BY <1>1, <2>7, Zenon DEF IInv
<1> QED BY <1>8, <1>9

\* waitpid: at most one process that has ended is collected.
LEMMA WaitInv == ASSUME IInv, NEW x \in {0, 1}, process_cmd_wait(x) PROVE IInv'
<1> DEFINE p == <<line, x>>
<1>1. /\ pc = IF x = 0 THEN "wait0" ELSE "wait1"
      /\ proc[p].state \in {"zombie", "stopped", "gone"}
      /\ proc' = IF proc[p].state = "zombie" THEN SetState(p, "gone") ELSE proc
      /\ pc' = IF x + 1 < job[line].stages THEN "wait1" ELSE "close"
      /\ UNCHANGED <<line, job, tty, fds, fd, late, retaken>>
  BY Zenon DEF process_cmd_wait, State, fdVars
<1>2. /\ x = 0 => pc = "wait0"
      /\ x = 1 => pc = "wait1" /\ Two(line)
  BY <1>1 DEF IInv, Stages
<1>3. line > 0 /\ line \in Line
  <2>1. line > 0
    BY <1>2, Zenon DEF IInv, Stages
  <2> QED BY <2>1, LineInRange
<1>4. job[line].stages \in {1, 2}
  <2>1. line <= line
    BY <1>3, LineTypes
  <2> QED BY <1>3, <2>1, Zenon DEF IInv, Stages
<1>5. pc' \in {"wait1", "close"} /\ (pc' = "wait1" <=> x = 0 /\ Two(line))
  BY <1>1, <1>4 DEF Two
<1>6. p \in Proc /\ p[1] = line /\ p[2] = x
  BY <1>3, ProcFacts
<1>7. /\ proc' \in [Proc -> ProcRec] /\ \A q \in Proc : q # p => proc'[q].state = proc[q].state
      /\ proc'[p].state \in {"stopped", "gone"} /\ (proc'[p].state = "stopped" => proc[p].state = "stopped")
      /\ proc[p].state = "stopped" => proc'[p].state = "stopped"
  <2>1. CASE proc[p].state = "zombie"
    <3> HIDE DEF p
    <3>1. proc' \in [Proc -> ProcRec] /\ proc'[p].state = "gone" /\ \A q \in Proc : q # p => proc'[q].state = proc[q].state
      BY <1>1, <1>6, <2>1, SetStateFacts, Zenon DEF IInv
    <3> QED BY <2>1, <3>1
  <2>2. CASE proc[p].state # "zombie"
    <3>1. proc' = proc
      BY <1>1, <2>2, Zenon
    <3>2. proc[p].state \in {"stopped", "gone"}
      BY <1>1, <2>2, Zenon
    <3> QED BY <3>1, <3>2, Zenon DEF IInv, Types
  <2> QED BY <2>1, <2>2
<1>8. Types'
  <2>1. pc' \in Pc
    BY <1>5 DEF Pc
  <2> QED BY <1>1, <1>7, <2>1, Zenon DEF IInv, Types
<1>9. Stages'
  <2>1. \A q \in Proc : Moves(q)
    <3> SUFFICES ASSUME NEW q \in Proc PROVE Moves(q)
      BY Zenon
    <3>1. CASE q # p
      BY <1>7, <3>1, Zenon DEF Moves
    <3>2. CASE q = p
      <4>1. \/ proc[q].state \in Over /\ proc'[q].state \in Over
            \/ proc[q].state = "stopped" /\ proc'[q].state = "stopped"
        BY <1>1, <1>7, <3>2 DEF Over
      <4>2. CASE proc[q].state = "stopped" /\ proc'[q].state = "stopped"
        BY <4>2 DEF Moves, Over
      <4>3. CASE proc[q].state \in Over /\ proc'[q].state \in Over
        BY <4>3 DEF Moves, Over, Young
      <4> QED BY <4>1, <4>2, <4>3
    <3> QED BY <3>1, <3>2
  <2>2. /\ Started' <=> Started
        /\ pc' \in {"fork1", "parent1", "wait1"} => Two(line)
        /\ pc' \notin {"parent0", "fork1"}
    BY <1>2, <1>5 DEF Started
  <2>3. \/ pc \in {"parent0", "wait0"} => pc' \in {"parent0", "wait0"}
        \/ job[line].cmd = "bg" => proc'[<<line, 0>>].state \notin Young
    <3>1. CASE x = 0
      <4>1. proc'[<<line, 0>>].state \notin Young
        BY <1>7, <3>1 DEF Young
      <4> QED BY <4>1
    <3>2. CASE x = 1
      BY <1>2, <3>2
    <3> QED BY <3>1, <3>2
  <2> QED BY <1>1, <1>3, <2>1, <2>2, <2>3, StagesKept, Zenon
<1>10. Terminal'
  <2>1. proc'[<<line, 0>>].state \in {"ready", "running"} => proc[<<line, 0>>].state \in {"ready", "running"}
    <3>1. CASE p = <<line, 0>>
      BY <1>7, <3>1
    <3>2. CASE p # <<line, 0>>
      BY <1>3, <1>7, <3>2, ProcFacts, Zenon
    <3> QED BY <3>1, <3>2
  <2>2. Busy /\ pc' # "prompt" /\ pc' # "stopped"
    BY <1>2, <1>5 DEF Busy
  <2> QED BY <1>1, <2>1, <2>2, Zenon DEF IInv, Terminal, State
<1>11. Descriptors'
  <2>1. D' = D /\ Base' = Base /\ (Two(line)' <=> Two(line))
    BY <1>1, Zenon DEF D, Base, Pipelines, Two
  <2>2. ~Forking' /\ pc \in {"wait0", "wait1"} /\ pc # "parent0" /\ (~Two(line) => pc = "wait0")
    BY <1>2, <1>5 DEF Forking
  <2>3. /\ pc' \notin {"top", "prompt", "reading", "ps", "fork0"} /\ pc' # "parent0" /\ pc' # "fork1"
        /\ pc' \notin {"top", "prompt", "reading", "stopped", "exited", "clear", "fork1"}
        /\ pc' \in {"parent1", "wait0", "wait1", "close"}
    BY <1>5
  <2>4. ~Two(line) => Cardinality(D) = Base /\ fd = << >>
    BY <2>2, Zenon DEF IInv, Descriptors
  <2>5. Two(line) => /\ Cardinality(D) = Base + 2
                     /\ fd = <<fd[1], fd[2], fd[2], fd[4]>> /\ fd[1] \in D /\ fd[2] \in D /\ fd[1] # fd[2]
    BY <2>2, Zenon DEF IInv, Descriptors
  <2>6. /\ \A f \in D, l \in Line : fds[f] # <<l, 0, "w">>
        /\ D \subseteq 0 .. 3 * MaxLines + 9
    BY <2>2, Zenon DEF IInv, Descriptors
  <2> QED BY <1>1, <2>1, <2>2, <2>3, <2>4, <2>5, <2>6, Zenon DEF Descriptors
<1> QED BY <1>8, <1>9, <1>10, <1>11, Zenon DEF IInv

\* The last loop closes both ends of the first pipe's numbers, and nothing after a single command.
LEMMA CloseInv == ASSUME IInv, process_cmd_close PROVE IInv'
<1>1. /\ pc = "close" /\ pc' = "clear" /\ fds' = Close(fds, ClosedAtEnd)
      /\ UNCHANGED <<line, job, proc, tty, fd, late, retaken>>
  BY Zenon DEF process_cmd_close, procVars
<1>2. line > 0 /\ line \in Line
  <2>1. line > 0
    BY <1>1, Zenon DEF IInv, Stages
  <2> QED BY <2>1, LineInRange
<1>3. job[line].stages \in {1, 2}
  <2>1. line <= line
    BY <1>2, LineTypes
  <2> QED BY <1>2, <2>1, Zenon DEF IInv, Stages
<1>4. Types' /\ Terminal'
  BY <1>1 DEF IInv, Types, Pc, Terminal, Busy
<1>5. Stages'
  <2>1. (\A q \in Proc : Moves(q)) /\ pc' \notin {"parent0", "fork1"} /\ pc' \notin {"fork1", "parent1", "wait1"}
    BY <1>1 DEF Moves
  <2>2. (Started' <=> Started) /\ pc \notin {"parent0", "wait0"}
    BY <1>1 DEF Started
  <2> QED BY <1>1, <1>2, <2>1, <2>2, StagesKept, Zenon
<1>6. Descriptors'
  <2>1. D' = D \ ClosedAtEnd /\ \A f \in D' : fds'[f] = fds[f]
    BY <1>1, Zenon DEF D, Close
  <2>2. Base' = Base /\ Base \in Nat
    BY <1>1, BaseFacts, Zenon DEF Base, Pipelines
  <2>3. /\ \A f \in D, l \in Line : fds[f] # <<l, 0, "w">>
        /\ D \subseteq 0 .. 3 * MaxLines + 9
    <3>1. pc # "parent0"
      BY <1>1
    <3> QED BY <3>1, Zenon DEF IInv, Descriptors
  <2>4. IsFiniteSet(D) /\ Cardinality(D) \in Nat
    BY <2>3, FewDescriptors, FS_CardinalityType, Zenon
  <2>5. Cardinality(D') = Base
    <3>1. CASE ~Two(line)
      <4>1. Cardinality(D) = Base /\ fd = << >>
        BY <1>1, <3>1, Zenon DEF IInv, Descriptors
      <4>2. DOMAIN fd = {}
        BY <4>1
      <4>3. ClosedAtEnd = {}
        BY <4>2, Zenon DEF ClosedAtEnd
      <4>4. D' = D
        BY <2>1, <4>3, Zenon
      <4> QED BY <4>1, <4>4, Zenon
    <3>2. CASE Two(line)
      <4>1. /\ Cardinality(D) = Base + 2
            /\ fd = <<fd[1], fd[2], fd[2], fd[4]>> /\ fd[1] \in D /\ fd[2] \in D /\ fd[1] # fd[2]
        BY <1>1, <3>2, Zenon DEF IInv, Descriptors
      <4>2. DOMAIN fd = 1 .. 4
        BY <4>1
      <4>3. {j \in DOMAIN fd : j <= (job[line].stages - 1) * 2} = {1, 2}
        BY <3>2, <4>2 DEF Two
      <4>4. ClosedAtEnd = {fd[1], fd[2]}
        BY <4>3, Zenon DEF ClosedAtEnd
      <4>5. D' = (D \ {fd[1]}) \ {fd[2]}
        BY <2>1, <4>4, Zenon
      <4>6. IsFiniteSet(D \ {fd[1]}) /\ Cardinality(D \ {fd[1]}) = Cardinality(D) - 1
        BY <2>4, <4>1, FS_RemoveElement, Zenon
      <4>7. Cardinality((D \ {fd[1]}) \ {fd[2]}) = Cardinality(D \ {fd[1]}) - 1
        BY <4>1, <4>6, FS_RemoveElement, Zenon
      <4> QED BY <2>2, <4>1, <4>5, <4>6, <4>7
    <3> QED BY <3>1, <3>2
  <2>6. \A f \in D', l \in Line : fds'[f] # <<l, 0, "w">>
    BY <2>1, <2>3, Zenon
  <2>7. D' \subseteq 0 .. 3 * MaxLines + 9
    BY <2>1, <2>3, Zenon
  <2>8. /\ pc' \notin {"top", "prompt", "reading", "ps", "fork0"} /\ pc' # "parent0" /\ pc' # "fork1"
        /\ pc' \notin {"parent0", "wait0", "close"} /\ pc' \notin {"parent1", "wait0", "wait1", "close"} /\ ~Forking'
    BY <1>1 DEF Forking
  <2> QED BY <2>2, <2>5, <2>6, <2>7, <2>8, Zenon DEF Descriptors
<1> QED BY <1>4, <1>5, <1>6, Zenon DEF IInv

-----------------------------------------------------------------------------
LEMMA InitInv == Init => IInv
<1> SUFFICES ASSUME Init PROVE IInv
  OBVIOUS
<1>1. /\ pc = "top" /\ line = 0 /\ fd = << >> /\ tty = SHELL
      /\ job = [l \in Line |-> [stages |-> 0, bg |-> FALSE, reads |-> TRUE, cmd |-> "none"]]
      /\ proc = [p \in Proc |-> [state |-> "none", pgid |-> SHELL]]
      /\ fds = [f \in 0 .. 2 |-> <<0, 0, "tty">>]
  BY Zenon DEF Init
<1>2. Types
  <2>1. [stages |-> 0, bg |-> FALSE, reads |-> TRUE, cmd |-> "none"] \in JobRec
    BY DEF JobRec
  <2>2. [state |-> "none", pgid |-> SHELL] \in ProcRec
    BY LineTypes DEF ProcRec, SHELL
  <2>3. pc \in Pc /\ line \in 0 .. MaxLines
    BY <1>1, LineTypes DEF Pc
  <2> QED BY <1>1, <2>1, <2>2, <2>3, Zenon DEF Types
<1>3. Stages
  <2>1. \A q \in Proc : State(q) = "none"
    BY <1>1 DEF State
  <2>2. \A l \in Line : State(<<l, 0>>) = "none" /\ State(<<l, 1>>) = "none"
    BY <2>1, ProcFacts, Zenon
  <2>3. \A l \in Line : ~(l <= line) /\ job[l].cmd # "bg"
    BY <1>1, LineTypes
  <2>4. /\ pc \notin {"ps", "fork0", "parent0", "fork1", "parent1", "wait0", "wait1", "close"}
        /\ pc \notin {"fork1", "parent1", "wait1"} /\ pc \notin {"parent0", "fork1"} /\ "none" \notin {"zombie", "gone"}
    BY <1>1
  <2> QED BY <2>2, <2>3, <2>4, Zenon DEF Stages
<1>4. Terminal
  BY <1>1 DEF Terminal, Busy
<1>5. Descriptors
  <2>1. D = 0 .. 2 /\ Cardinality(0 .. 2) = 3
    <3>1. D = 0 .. 2
      BY <1>1, Zenon DEF D
    <3>2. Cardinality(0 .. 2) = 3
      <4>1. 0 \in Int /\ 2 \in Int
        OBVIOUS
      <4>2. Cardinality(0 .. 2) = IF 0 > 2 THEN 0 ELSE 2 - 0 + 1
        BY <4>1, FS_Interval, Zenon
      <4> QED BY <4>2
    <3> QED BY <3>1, <3>2
  <2>2. Pipelines = {}
    BY <1>1 DEF Pipelines
  <2>3. Base = 3
    BY <1>1, <2>2, FS_EmptySet DEF Base
  <2>4. D \subseteq 0 .. 3 * MaxLines + 9
    BY <2>1, LineTypes
  <2>5. ASSUME NEW f \in D, NEW l \in Line PROVE fds[f] # <<l, 0, "w">>
    <3>1. fds[f] = <<0, 0, "tty">>
      BY <1>1, <2>1, Zenon
    <3> QED BY <3>1
  <2>6. /\ pc # "parent0" /\ pc # "fork1" /\ ~Forking
        /\ pc \notin {"parent0", "wait0", "close"} /\ pc \notin {"parent1", "wait0", "wait1", "close"}
    BY <1>1 DEF Forking
  <2>7. Cardinality(D) = Base
    BY <2>1, <2>3, Zenon
  <2> QED BY <1>1, <2>4, <2>5, <2>6, <2>7, Zenon DEF Descriptors
<1> QED BY <1>2, <1>3, <1>4, <1>5, Zenon DEF IInv

LEMMA StutterInv == ASSUME IInv, UNCHANGED vars PROVE IInv'
<1>1. UNCHANGED <<pc, line, job, proc, fds, fd, tty, late, retaken>>
  BY Zenon DEF vars, procVars, fdVars
<1> QED BY <1>1, QuietInv, Zenon DEF IInv

LEMMA ShellInv == ASSUME IInv, ShellStep PROVE IInv'
<1>1. CASE main_top
  BY <1>1, TopInv
<1>2. CASE get_cmd_line \/ get_cmd_line_empty \/ get_cmd_line_exit \/ main_clear
  BY <1>2, PromptInv
<1>3. ASSUME NEW cmd \in {"run", "bg", "jobs"}, NEW n \in 1 .. 2, NEW bg \in BOOLEAN, NEW reads \in BOOLEAN,
             get_cmd_line_done(cmd, n, bg, reads)
      PROVE  IInv'
  BY <1>3, LineInv, Zenon
<1>4. CASE main_ps
  BY <1>4, PsInv
<1>5. ASSUME NEW x \in {0, 1}, process_cmd_fork(x) PROVE IInv'
  BY <1>5, Fork0Inv, Fork1Inv, Zenon
<1>6. ASSUME NEW x \in {0, 1}, process_cmd_parent(x) \/ process_cmd_wait(x) PROVE IInv'
  BY <1>6, ParentInv, WaitInv, Zenon
<1>7. CASE process_cmd_close
  BY <1>7, CloseInv
<1>8. CASE handler
  BY <1>8, HandlerInv
<1> QED BY <1>1, <1>2, <1>3, <1>4, <1>5, <1>6, <1>7, <1>8, Zenon DEF ShellStep

LEMMA ChildInv == ASSUME IInv, ChildStep PROVE IInv'
<1>1. ASSUME NEW p \in Proc, child_setpgid(p) PROVE IInv'
  BY <1>1, SetpgidInv, Zenon
<1>2. ASSUME NEW p \in Proc, child_tcsetpgrp(p) PROVE IInv'
  BY <1>2, TcsetpgrpInv, Zenon
<1>3. ASSUME NEW p \in Proc, argv_cmd(p) PROVE IInv'
  BY <1>3, ArgvInv, Zenon
<1>4. ASSUME NEW p \in Proc, NEW target \in Line \cup {SHELL}, argv_cmd_bg(p, target) PROVE IInv'
  BY <1>4, ArgvBgInv, Zenon
<1>5. ASSUME NEW p \in Proc, stage_exit(p) \/ stage_write_end(p) \/ stage_read_end(p) PROVE IInv'
  BY <1>5, StageEndsInv, Zenon
<1>6. ASSUME NEW p \in Proc, stage_write(p) \/ stage_read(p) PROVE IInv'
  BY <1>6, PipeInv, Zenon
<1>7. ASSUME NEW l \in Line, job_stop(l) PROVE IInv'
  BY <1>7, JobStopInv, Zenon
<1>8. CASE ps_exit
  BY <1>8, PsExitInv
<1> QED BY <1>1, <1>2, <1>3, <1>4, <1>5, <1>6, <1>7, <1>8, Zenon DEF ChildStep

LEMMA JobsInvariant == Spec => []IInv
<1>1. Init => IInv
  BY InitInv
<1>2. IInv /\ [Next]_vars => IInv'
  BY StutterInv, ShellInv, ChildInv, Zenon DEF Next
<1> QED BY <1>1, <1>2, PTL DEF Spec

\* The shell is stopped at its prompt only if a job took the terminal after
\* the shell had; and a job that the shell waits for still has the terminal,
\* unless the SIGCHLD handler has run since or another job has taken it.
THEOREM TerminalAlwaysAgrees == Spec => []TerminalAgrees
<1>1. IInv => TerminalAgrees
  BY Zenon DEF IInv, Terminal, Busy, TerminalAgrees, Waiting
<1> QED BY <1>1, JobsInvariant, PTL

\* What process_cmd closes twice and what it never closes add up, after any
\* number of lines: one descriptor for each line and one for each pipeline.
THEOREM DescriptorsAreAccounted == Spec => []DescriptorsAccounted
<1>1. IInv => DescriptorsAccounted
  BY Zenon DEF IInv, Descriptors, Base, Pipelines, D, DescriptorsAccounted
<1> QED BY <1>1, JobsInvariant, PTL

\* The shell holds the write end of a pipe between stages only until it has
\* forked the next stage, so a reader never waits for the shell; and a writer
\* is left behind only by a last stage that does not read all of its input.
THEOREM PipelinesEnd == Spec => []PipelineEnds
<1>1. IInv => PipelineEnds
  <2> SUFFICES ASSUME IInv, NEW l \in 1 .. line, job[l].stages = 2, pc \in {"wait0", "wait1", "close", "clear", "top"}
               PROVE  /\ State(<<l, 1>>) = "running" /\ pipe[l].full = 0 /\ ~Alive(<<l, 0>>) => EndOfFile(l)
                      /\ State(<<l, 0>>) = "running" /\ ~Alive(<<l, 1>>) /\ ShellHolds(l, "r") => ~job[l].reads
    BY Zenon DEF PipelineEnds
  <2>1. l \in Line /\ l <= line
    BY LineTypes DEF IInv, Types, Line
  <2>2. pc # "parent0" /\ Started
    BY DEF Started
  <2>3. ~ShellHolds(l, "w")
    BY <2>1, <2>2, Zenon DEF IInv, Descriptors, ShellHolds, D
  <2>4. State(<<l, 1>>) # "none" /\ (job[l].reads /\ State(<<l, 1>>) \in {"zombie", "gone"} => State(<<l, 0>>) \in {"zombie", "gone"})
    BY <2>1, <2>2, Zenon DEF IInv, Stages, Two
  <2>5. State(<<l, 1>>) \in {"none", "forked", "grouped", "ready", "running", "stopped", "zombie", "gone"}
    <3>1. <<l, 1>> \in Proc
      BY <2>1, ProcFacts, Zenon
    <3>2. proc[<<l, 1>>] \in ProcRec
      BY <3>1, Zenon DEF IInv, Types
    <3> QED BY <3>2 DEF ProcRec, State
  <2>6. ~Alive(<<l, 1>>) => State(<<l, 1>>) \in {"zombie", "gone"}
    BY <2>4, <2>5, Zenon DEF Alive
  <2>7. State(<<l, 0>>) = "running" => State(<<l, 0>>) \notin {"zombie", "gone"}
    BY SMT
  <2> QED BY <2>3, <2>4, <2>6, <2>7, Zenon DEF EndOfFile
<1> QED BY <1>1, JobsInvariant, PTL

-----------------------------------------------------------------------------
(***************************************************************************)
(* ShellStatus, for every finite set of children and every set of exit     *)
(* codes.  Its theorems are about S!Spec, over variables of their own, and *)
(* take S!StatusAssumption, the assumption of ShellStatus on its           *)
(* constants, as a hypothesis.                                             *)
(***************************************************************************)
CONSTANTS Child, Code, NULL
VARIABLES main, child, code, child_pid, child_status, signal, in_handler, merged, early

S == INSTANCE ShellStatus WITH pc <- main, pending <- signal

\* The operators that ShellStatus takes from FiniteSets are those of this module.
LEMMA SameFinite == ASSUME NEW T PROVE S!IsFiniteSet(T) <=> IsFiniteSet(T)
  BY Zenon DEF S!IsFiniteSet, IsFiniteSet

LEMMA SameCardinality == ASSUME NEW T PROVE S!Cardinality(T) = Cardinality(T)
  BY Zenon DEF S!Cardinality, Cardinality

StatusTypes ==
    /\ child \in [Child -> {"free", "running", "zombie", "gone"}]
    /\ code \in [Child -> Nat]
    /\ signal \in BOOLEAN /\ in_handler \in BOOLEAN /\ early \in BOOLEAN
    /\ merged \in Nat

\* main waits for child_pid.
Waits == main \in {"waitpid", "asleep", "wait", "waiting"}

\* Who can have collected the child that main waits for.  While main sleeps in
\* the kernel no handler runs, so only a child that ended before is lost.
Waited ==
    /\ Waits => child_pid \in Child /\ child[child_pid] # "free"
    /\ Waits /\ child[child_pid] = "gone" => early
    /\ main \in {"waitpid", "wait"} /\ child[child_pid] = "zombie" => early
    /\ in_handler => main \notin {"asleep", "waiting", "exited"}

\* Each pending signal, each handler under way and each merged signal accounts
\* for one child that has not been collected.
Owed == merged + (IF signal THEN 1 ELSE 0) + (IF in_handler THEN 1 ELSE 0)
Accounted == main # "exited" => Cardinality(S!Zombies) <= Owed

StatusInv == StatusTypes /\ Waited /\ Accounted

-----------------------------------------------------------------------------
\* What happens to the number of uncollected children.
LEMMA ZombiesFinite ==
    ASSUME S!StatusAssumption
    PROVE  /\ IsFiniteSet(S!Zombies) /\ Cardinality(S!Zombies) \in Nat
           /\ Cardinality(S!Zombies') \in Nat
<1>1. S!Zombies \in SUBSET Child /\ S!Zombies' \in SUBSET Child
  BY DEF S!Zombies
<1>2. IsFiniteSet(Child)
  BY SameFinite, Zenon DEF S!StatusAssumption
<1> QED
  BY <1>1, <1>2, FS_Subset, FS_CardinalityType, Zenon

LEMMA OneEnds ==
    ASSUME S!StatusAssumption, NEW c \in Child, StatusTypes, child[c] = "running", child' = [child EXCEPT ![c] = "zombie"]
    PROVE  Cardinality(S!Zombies') = Cardinality(S!Zombies) + 1
<1>1. S!Zombies' = S!Zombies \cup {c} /\ c \notin S!Zombies
  BY DEF StatusTypes, S!Zombies
<1> QED
  BY <1>1, ZombiesFinite, FS_AddElement

LEMMA OneCollected ==
    ASSUME S!StatusAssumption, NEW c \in Child, StatusTypes, child' = [child EXCEPT ![c] = "gone"]
    PROVE  /\ c \in S!Zombies => Cardinality(S!Zombies') = Cardinality(S!Zombies) - 1
           /\ Cardinality(S!Zombies') <= Cardinality(S!Zombies)
<1>1. S!Zombies' = S!Zombies \ {c}
  BY DEF StatusTypes, S!Zombies
<1> QED
  <2>1. Cardinality(S!Zombies \ {c}) = IF c \in S!Zombies THEN Cardinality(S!Zombies) - 1
                                     ELSE Cardinality(S!Zombies)
    BY ZombiesFinite, FS_RemoveElement
  <2> QED
    BY <1>1, <2>1, ZombiesFinite

LEMMA OneStarts ==
    ASSUME S!StatusAssumption, NEW c \in Child, StatusTypes, child[c] = "free", child' = [child EXCEPT ![c] = "running"]
    PROVE  Cardinality(S!Zombies') = Cardinality(S!Zombies)
<1>1. S!Zombies' = S!Zombies
  BY DEF StatusTypes, S!Zombies
<1> QED
  BY <1>1

LEMMA NoneChanges ==
    ASSUME S!StatusAssumption, child' = child
    PROVE  Cardinality(S!Zombies') = Cardinality(S!Zombies)
  BY DEF S!Zombies

LEMMA StatusInit == ASSUME S!StatusAssumption PROVE S!Init => StatusInv
<1> SUFFICES ASSUME S!Init PROVE StatusInv
  OBVIOUS
<1>1. StatusTypes /\ Waited
  BY DEF S!Init, StatusTypes, Waited, Waits
<1>2. S!Zombies = {}
  BY DEF S!Init, S!Zombies
<1>3. Accounted
  BY <1>2, FS_EmptySet DEF S!Init, Accounted, Owed
<1> QED
  BY <1>1, <1>3 DEF StatusInv

-----------------------------------------------------------------------------
\* Command lines that start no child, or one nobody waits for.
LEMMA ExitInv == ASSUME S!StatusAssumption PROVE StatusInv /\ S!cmd_exit => StatusInv'
  BY DEF StatusInv, StatusTypes, Waited, Waits, Accounted, S!cmd_exit, S!MainRuns

LEMMA CdInv == ASSUME S!StatusAssumption PROVE StatusInv /\ S!cmd_cd => StatusInv'
<1> SUFFICES ASSUME StatusInv, S!cmd_cd PROVE StatusInv'
  OBVIOUS
<1>1. StatusTypes' /\ Waited'
  BY DEF StatusInv, StatusTypes, Waited, Waits, S!cmd_cd
<1>2. Accounted'
  BY NoneChanges DEF StatusInv, Accounted, Owed, S!cmd_cd
<1> QED
  BY <1>1, <1>2 DEF StatusInv

LEMMA BackgroundInv == ASSUME S!StatusAssumption, NEW c \in Child PROVE StatusInv /\ S!cmd_background(c) => StatusInv'
<1> SUFFICES ASSUME StatusInv, S!cmd_background(c) PROVE StatusInv'
  OBVIOUS
<1>1. StatusTypes' /\ Waited'
  BY DEF StatusInv, StatusTypes, Waited, Waits, S!cmd_background
<1>2. Accounted'
  BY OneStarts DEF StatusInv, Accounted, Owed, S!cmd_background
<1> QED
  BY <1>1, <1>2 DEF StatusInv

LEMMA ForkInv ==
    ASSUME S!StatusAssumption, NEW c \in Child, NEW where \in {"waitpid", "wait"}
    PROVE  StatusInv /\ S!cmd_fork(c, where) => StatusInv'
<1> SUFFICES ASSUME StatusInv, S!cmd_fork(c, where) PROVE StatusInv'
  OBVIOUS
<1>1. StatusTypes' /\ Waited'
  BY DEF StatusInv, StatusTypes, Waited, Waits, S!cmd_fork, S!MainRuns
<1>2. Accounted'
  BY OneStarts DEF StatusInv, Accounted, Owed, S!cmd_fork
<1> QED
  BY <1>1, <1>2 DEF StatusInv

-----------------------------------------------------------------------------
\* The waits of main.
LEMMA WaitpidInv == ASSUME S!StatusAssumption PROVE StatusInv /\ S!main_waitpid => StatusInv'
<1> SUFFICES ASSUME StatusInv, S!main_waitpid PROVE StatusInv'
  OBVIOUS
<1>1. child_pid \in Child
  BY DEF StatusInv, Waited, Waits, S!main_waitpid
<1>2. StatusTypes' /\ Waited'
  BY <1>1 DEF StatusInv, StatusTypes, Waited, Waits, S!main_waitpid
<1>3. Cardinality(S!Zombies') <= Cardinality(S!Zombies)
  BY <1>1, OneCollected DEF StatusInv, S!main_waitpid
<1>4. Accounted'
  BY <1>3, ZombiesFinite DEF StatusInv, StatusTypes, Accounted, Owed, S!main_waitpid
<1> QED
  BY <1>2, <1>4 DEF StatusInv

LEMMA SleepInv == ASSUME S!StatusAssumption PROVE StatusInv /\ (S!main_waitpid_sleep \/ S!jobs_wait_sleep) => StatusInv'
<1> SUFFICES ASSUME StatusInv, S!main_waitpid_sleep \/ S!jobs_wait_sleep PROVE StatusInv'
  OBVIOUS
<1>1. StatusTypes' /\ Waited'
  BY DEF StatusInv, StatusTypes, Waited, Waits, S!main_waitpid_sleep, S!jobs_wait_sleep, S!MainRuns
<1>2. Accounted'
  BY NoneChanges DEF StatusInv, Accounted, Owed, S!main_waitpid_sleep, S!jobs_wait_sleep
<1> QED
  BY <1>1, <1>2 DEF StatusInv

LEMMA InterruptedInv == ASSUME S!StatusAssumption PROVE StatusInv /\ S!main_waitpid_interrupted => StatusInv'
<1> SUFFICES ASSUME StatusInv, S!main_waitpid_interrupted PROVE StatusInv'
  OBVIOUS
<1>1. StatusTypes' /\ Waited'
  BY DEF StatusInv, StatusTypes, Waited, Waits, S!main_waitpid_interrupted
<1>2. Accounted'
  BY NoneChanges DEF StatusInv, Accounted, Owed, S!main_waitpid_interrupted
<1> QED
  BY <1>1, <1>2 DEF StatusInv

LEMMA JobsWaitInv == ASSUME S!StatusAssumption PROVE StatusInv /\ S!jobs_wait => StatusInv'
<1> SUFFICES ASSUME StatusInv, S!jobs_wait PROVE StatusInv'
  OBVIOUS
<1>1. StatusTypes' /\ Waited'
  BY DEF StatusInv, StatusTypes, Waited, Waits, S!jobs_wait, S!Zombies
<1>2. Cardinality(S!Zombies') <= Cardinality(S!Zombies)
  <2>1. CASE \E c \in S!Zombies : child' = [child EXCEPT ![c] = "gone"]
    BY <2>1, OneCollected DEF StatusInv, S!Zombies
  <2>2. CASE child' = child
    BY <2>2, NoneChanges, ZombiesFinite
  <2> QED
    BY <2>1, <2>2 DEF S!jobs_wait
<1>3. Accounted'
  BY <1>2, ZombiesFinite DEF StatusInv, StatusTypes, Accounted, Owed, S!jobs_wait
<1> QED
  BY <1>1, <1>3 DEF StatusInv

LEMMA JobsReadInv == ASSUME S!StatusAssumption PROVE StatusInv /\ S!jobs_read => StatusInv'
<1> SUFFICES ASSUME StatusInv, S!jobs_read PROVE StatusInv'
  OBVIOUS
<1>1. StatusTypes' /\ Waited'
  BY DEF StatusInv, StatusTypes, Waited, Waits, S!jobs_read
<1>2. Accounted'
  BY NoneChanges DEF StatusInv, Accounted, Owed, S!jobs_read
<1> QED
  BY <1>1, <1>2 DEF StatusInv

-----------------------------------------------------------------------------
\* Children that end, and the handler.
LEMMA ChildExitInv ==
    ASSUME S!StatusAssumption, NEW c \in Child, NEW n \in Code PROVE StatusInv /\ S!child_exit(c, n) => StatusInv'
<1> SUFFICES ASSUME StatusInv, S!child_exit(c, n) PROVE StatusInv'
  OBVIOUS
<1>1. n \in Nat
  BY DEF S!StatusAssumption
<1>2. StatusTypes'
  BY <1>1 DEF StatusInv, StatusTypes, S!child_exit
<1>3. Waited'
  BY DEF StatusInv, StatusTypes, Waited, Waits, S!child_exit
<1>4. Cardinality(S!Zombies') = Cardinality(S!Zombies) + 1
  BY OneEnds DEF StatusInv, S!child_exit
<1>5. Accounted'
  <2> SUFFICES ASSUME main' # "exited" PROVE Cardinality(S!Zombies') <= Owed'
    BY DEF Accounted
  <2>1. main # "exited" /\ signal' /\ in_handler' = in_handler
    BY DEF S!child_exit
  <2>2. merged' = IF signal THEN merged + 1 ELSE merged
    BY DEF S!child_exit
  <2> QED
    BY <1>4, <2>1, <2>2, ZombiesFinite DEF StatusInv, StatusTypes, Accounted, Owed
<1> QED
  BY <1>2, <1>3, <1>5 DEF StatusInv

LEMMA TrapInv == ASSUME S!StatusAssumption PROVE StatusInv /\ S!handler => StatusInv'
<1> SUFFICES ASSUME StatusInv, S!handler PROVE StatusInv'
  OBVIOUS
<1>1. StatusTypes' /\ Waited'
  BY DEF StatusInv, StatusTypes, Waited, Waits, S!handler, S!MainRuns
<1>2. Owed' = Owed
  BY DEF StatusInv, StatusTypes, Owed, S!handler, S!MainRuns
<1>3. Accounted'
  BY <1>2, NoneChanges DEF StatusInv, Accounted, S!handler
<1> QED
  BY <1>1, <1>3 DEF StatusInv

LEMMA CollectInv == ASSUME S!StatusAssumption PROVE StatusInv /\ S!handler_waitpid => StatusInv'
<1> SUFFICES ASSUME StatusInv, S!handler_waitpid PROVE StatusInv'
  OBVIOUS
<1>1. StatusTypes' /\ Waited'
  BY DEF StatusInv, StatusTypes, Waited, Waits, S!handler_waitpid, S!Zombies
<1>2. Owed' = Owed - 1 /\ Owed \in Nat /\ Owed >= 1
  BY DEF StatusInv, StatusTypes, Owed, S!handler_waitpid
<1>3. Accounted'
  <2>1. CASE \E c \in S!Zombies : child' = [child EXCEPT ![c] = "gone"]
    <3>1. Cardinality(S!Zombies') = Cardinality(S!Zombies) - 1
      BY <2>1, OneCollected DEF StatusInv, S!Zombies
    <3> QED
      BY <1>2, <3>1, ZombiesFinite DEF StatusInv, Accounted, S!handler_waitpid
  <2>2. CASE S!Zombies = {} /\ child' = child
    <3>1. Cardinality(S!Zombies') = 0
      BY <2>2, NoneChanges, FS_EmptySet
    <3> QED
      BY <1>2, <3>1 DEF Accounted
  <2> QED
    BY <2>1, <2>2 DEF S!handler_waitpid
<1> QED
  BY <1>1, <1>3 DEF StatusInv

LEMMA StatusNext == ASSUME S!StatusAssumption PROVE StatusInv /\ [S!Next]_(S!vars) => StatusInv'
<1> SUFFICES ASSUME StatusInv, [S!Next]_(S!vars) PROVE StatusInv'
  OBVIOUS
<1>1. CASE UNCHANGED S!vars
  <2>1. Cardinality(S!Zombies') = Cardinality(S!Zombies)
    BY <1>1, NoneChanges DEF S!vars
  <2> QED
    BY <1>1, <2>1 DEF S!vars, StatusInv, StatusTypes, Waited, Waits, Accounted, Owed
<1>2. CASE \E c \in Child : S!cmd_background(c) \/ S!cmd_foreground(c) \/ S!cmd_jobs(c)
  BY <1>2, BackgroundInv, ForkInv DEF S!cmd_foreground, S!cmd_jobs
<1> QED
  BY <1>1, <1>2, ExitInv, CdInv, WaitpidInv, SleepInv, InterruptedInv, JobsWaitInv, JobsReadInv,
     ChildExitInv, TrapInv, CollectInv DEF S!Next

LEMMA StatusInvariant == ASSUME S!StatusAssumption PROVE S!Spec => []StatusInv
  BY StatusInit, StatusNext, PTL DEF S!Spec

-----------------------------------------------------------------------------
\* The waits of main and of the handler: at rest no more children are
\* uncollected than signals were merged, and jobs loses its ps only to a
\* handler that ran before wait(NULL).
THEOREM AllCollected == ASSUME S!StatusAssumption PROVE S!Spec => []S!ChildrenCollected
<1>1. StatusInv => S!ChildrenCollected
  <2> SUFFICES ASSUME StatusInv PROVE S!ChildrenCollected
    OBVIOUS
  <2>1. ~signal /\ ~in_handler /\ main # "exited" => Cardinality(S!Zombies) <= merged
    BY DEF StatusInv, StatusTypes, Accounted, Owed
  <2> QED
    BY <2>1, SameCardinality, Zenon DEF StatusInv, Waited, Waits, S!ChildrenCollected
<1> QED
  BY <1>1, StatusInvariant, PTL

\* child_status after waitpid: $? is the exit code of the foreground command, or
\* 0 when the handler has collected a command that ended before main slept.
THEOREM StatusIsReported == ASSUME S!StatusAssumption PROVE S!Spec => S!StatusReported
<1> DEFINE A == (main \in {"waitpid", "asleep"} /\ main' = "prompt") =>
                  (\/ child_status' = code[child_pid]
                   \/ early /\ child[child_pid] = "gone" /\ child_status' = 0)
<1>1. StatusInv /\ [S!Next]_(S!vars) => [A]_(S!vars)
  <2> SUFFICES ASSUME StatusInv, S!Next, main \in {"waitpid", "asleep"}, main' = "prompt"
               PROVE  \/ child_status' = code[child_pid]
                      \/ early /\ child[child_pid] = "gone" /\ child_status' = 0
    OBVIOUS
  <2>1. S!main_waitpid
    BY DEF S!Next, S!cmd_exit, S!cmd_cd, S!cmd_background, S!cmd_foreground, S!cmd_jobs, S!cmd_fork,
           S!main_waitpid_sleep, S!main_waitpid_interrupted, S!jobs_wait, S!jobs_wait_sleep, S!jobs_read,
           S!child_exit, S!handler, S!handler_waitpid
  <2>2. child_pid \in Child /\ child[child_pid] \in {"zombie", "gone"}
    BY <2>1 DEF StatusInv, StatusTypes, Waited, Waits, S!main_waitpid
  <2> QED
    BY <2>1, <2>2 DEF StatusInv, StatusTypes, Waited, Waits, S!main_waitpid, S!Collected
<1> QED
  BY <1>1, StatusInvariant, PTL DEF S!Spec, S!StatusReported
============================================================================
