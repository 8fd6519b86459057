----------------------------- MODULE ShellJobs ------------------------------
(***************************************************************************)
(* Job control of the interactive shell: shell/jobs.c, and of              *)
(* shell/shell.c and shell/main.c the prompt loop, the start of a          *)
(* pipeline, the foreground wait and the built-ins jobs, fg and bg.        *)
(*                                                                         *)
(* The shell is one thread, so what it does between two system calls is    *)
(* one action; its children run, stop and end between any two of these.    *)
(* The kernel keeps for a child at most one thing to report: that it       *)
(* ended, else the later of its last stop and its last continuation.  A    *)
(* number can be a child's again once no process and no group has it.      *)
(*                                                                         *)
(* jobs_add links a job in front of the list and ids count up, so the list *)
(* is by descending id: it is kept as a function of the id.  The history,  *)
(* which no job depends on, and what commands print are left out.          *)
(***************************************************************************)
EXTENDS Integers, FiniteSets, Sequences

CONSTANTS Pids,         \* process numbers
          Shell,        \* the shell's own process group
          MaxMembers,   \* bound: commands of a pipeline
          MaxLines,     \* bound: lines the user types
          MaxStops      \* bound: how often children are stopped

ASSUME PidsAssumption == IsFiniteSet(Pids) /\ Shell \notin Pids
ASSUME BoundsAssumption ==
  MaxMembers \in Nat \ {0} /\ MaxLines \in Nat /\ MaxStops \in Nat

VARIABLES life,           \* pid -> "free", "running", "stopped" or "zombie"
          report,         \* pid -> what waitpid has to tell of a living child
          group,          \* pid -> process group
          doomed,         \* pids SIGTERM was sent to
          tty,            \* the terminal's foreground group
          sigchld_seen,
          jobs,           \* id -> job
          next_id,
          pc,             \* where the shell is
          cmd,            \* the line being run
          current,        \* job of the fg or bg, or of the foreground wait
          pids,           \* execute_external_pipeline: children started so far
          lines, stops,   \* history: what the bounds count
          owner           \* history: pid -> id of the job it was started for

kernel == <<life, report, group, doomed, stops, owner>>
list == <<jobs, next_id>>
control == <<pc, cmd, current, pids, lines>>
vars == <<life, report, group, doomed, stops, owner, tty, sigchld_seen,
          jobs, next_id, pc, cmd, current, pids, lines>>

NoJob == 0
JobIds == 1 .. MaxLines
States == {"running", "stopped", "done"}
Jobs == [pgid : Pids, pids : SUBSET Pids, remaining : Nat, state : States]
Lines ==
  [op : {"run"}, members : 1 .. MaxMembers, background : BOOLEAN]
    \cup [op : {"fg", "bg"}, id : JobIds]
    \cup [op : {"jobs", "exit", "other"}]
NoLine == [op |-> "other"]
NoJobs == [i \in {} |-> NoJob]
Reaping == {"reap", "reap_line", "reap_jobs", "reap_job"}

Init ==
  /\ life = [p \in Pids |-> "free"]
  /\ report = [p \in Pids |-> "none"]
  /\ group = [p \in Pids |-> Shell]
  /\ doomed = {} /\ owner = [p \in Pids |-> NoJob]
  /\ tty = Shell /\ sigchld_seen = FALSE
  /\ jobs = NoJobs /\ next_id = 1
  /\ pc = "reap" /\ cmd = NoLine /\ current = NoJob /\ pids = <<>>
  /\ lines = 0 /\ stops = 0

Live(p) == life[p] # "free"
Members(g) == {p \in Pids : Live(p) /\ group[p] = g}

-----------------------------------------------------------------------------
(* Children.  Each change of state raises SIGCHLD, whose handler only sets a *)
(* flag.                                                                   *)

Signalled == sigchld_seen' = TRUE /\ UNCHANGED <<tty, list, control, group, doomed, owner>>

\* It returns from main, or a signal ends it.
Ends(p) ==
  /\ life[p] \in {"running", "stopped"}
  /\ life' = [life EXCEPT ![p] = "zombie"]
  /\ report' = [report EXCEPT ![p] = "none"]
  /\ UNCHANGED stops /\ Signalled

\* Ctrl-Z in the foreground, a read of the terminal in the background (also by
\* a foreground pipeline that is not yet given the terminal), or SIGSTOP.
Stops(p) ==
  /\ life[p] = "running" /\ stops < MaxStops
  /\ life' = [life EXCEPT ![p] = "stopped"]
  /\ report' = [report EXCEPT ![p] = "stopped"]
  /\ stops' = stops + 1 /\ Signalled

\* SIGCONT from another terminal.
Resumes(p) ==
  /\ life[p] = "stopped"
  /\ life' = [life EXCEPT ![p] = "running"]
  /\ report' = [report EXCEPT ![p] = "continued"]
  /\ UNCHANGED stops /\ Signalled

-----------------------------------------------------------------------------
(* jobs.c *)

\* Fault: the oldest job that ever had the number.
OldestWith(p) ==
  LET J == {i \in DOMAIN jobs : p \in jobs[i].pids}
  IN  IF J = {} THEN NoJob ELSE CHOOSE i \in J : \A j \in J : i <= j
jobs_find_pid(p) ==
  LET J == {i \in DOMAIN jobs : p \in jobs[i].pids}
  IN  IF J = {} THEN NoJob ELSE CHOOSE i \in J : \A j \in J : j <= i

\* What becomes of a job one of whose processes reported e.
Updated(job, e) ==
  CASE e = "stopped" -> [job EXCEPT !.state = "stopped"]
    [] e = "continued" -> [job EXCEPT !.state = "running"]
    [] e = "ended" ->
         LET left == IF job.remaining > 0 THEN job.remaining - 1 ELSE 0
         IN  [job EXCEPT !.remaining = left, !.state = IF left = 0 THEN "done" ELSE @]

jobs_update_status(p, e) ==
  LET i == jobs_find_pid(p)
  IN  jobs' = IF i = NoJob THEN jobs ELSE [jobs EXCEPT ![i] = Updated(@, e)]

\* waitpid tells of p, and forgets it.
Collect(p) ==
  \/ /\ life[p] = "zombie"
     /\ life' = [life EXCEPT ![p] = "free"]
     /\ doomed' = doomed \ {p}
     /\ jobs_update_status(p, "ended")
     /\ UNCHANGED report
  \/ /\ report[p] # "none"
     /\ report' = [report EXCEPT ![p] = "none"]
     /\ jobs_update_status(p, report[p])
     /\ UNCHANGED <<life, doomed>>

Without(i) == [j \in DOMAIN jobs \ {i} |-> jobs[j]]

\* Fault: a stopped job is dropped with the finished ones.
RemoveAllIdle == jobs' = [i \in {j \in DOMAIN jobs : jobs[j].state = "running"} |-> jobs[i]]
jobs_remove_done == jobs' = [i \in {j \in DOMAIN jobs : jobs[j].state # "done"} |-> jobs[i]]

\* jobs_reap: one turn of its loop, then what follows when there is no more to
\* report: the prompt, the rest of shell_run_line, the listing, or fg and bg.
Reap(p) ==
  /\ pc \in Reaping
  /\ Collect(p)
  /\ UNCHANGED <<group, stops, owner, tty, sigchld_seen, next_id, control>>

Reaped(here) ==
  /\ pc = here
  /\ \A p \in Pids : life[p] # "zombie" /\ report[p] = "none"

Prompt ==
  /\ Reaped("reap") /\ pc' = "read"
  /\ cmd' = NoLine /\ current' = NoJob
  /\ UNCHANGED <<kernel, tty, sigchld_seen, list, pids, lines>>

jobs_print ==
  /\ Reaped("reap_jobs") /\ jobs_remove_done /\ pc' = "reap"
  /\ UNCHANGED <<kernel, tty, sigchld_seen, next_id, cmd, current, pids, lines>>

-----------------------------------------------------------------------------
(* shell_run_line and run_builtin *)

\* getline gives a line; shell_run_line reaps first if the flag is set.
Read(c) ==
  /\ pc = "read" /\ lines < MaxLines
  /\ cmd' = c /\ lines' = lines + 1
  /\ pc' = IF sigchld_seen THEN "reap_line" ELSE "line"
  /\ UNCHANGED <<kernel, tty, sigchld_seen, list, current, pids>>

\* Between the two steps a SIGCHLD can come whose mark the second one wipes out.
ReapedLine ==
  /\ Reaped("reap_line") /\ pc' = "clear"
  /\ UNCHANGED <<kernel, tty, sigchld_seen, list, cmd, current, pids, lines>>
ClearFlag ==
  /\ pc = "clear" /\ pc' = "line" /\ sigchld_seen' = FALSE
  /\ UNCHANGED <<kernel, tty, list, cmd, current, pids, lines>>

\* "other": blank lines, syntax errors, cd, history, help.
Dispatch ==
  /\ pc = "line" /\ cmd.op # "exit"
  /\ pc' = CASE cmd.op = "run" -> "fork"
             [] cmd.op = "jobs" -> "reap_jobs"
             [] cmd.op \in {"fg", "bg"} -> "reap_job"
             [] OTHER -> "reap"
  /\ UNCHANGED <<kernel, tty, sigchld_seen, list, cmd, current, pids, lines>>

\* shell_state_destroy, after exit or at the end of the input; children are left
\* as they are.
Destroy ==
  /\ pc' = "exited" /\ jobs' = NoJobs
  /\ UNCHANGED <<kernel, tty, sigchld_seen, next_id, cmd, current, pids, lines>>
Exit == pc = "line" /\ cmd.op = "exit" /\ Destroy
EndOfInput == pc = "read" /\ Destroy

\* The job that fg or bg names; fg gives it the terminal.
FindJob ==
  /\ Reaped("reap_job")
  /\ IF cmd.id \in DOMAIN jobs /\ jobs[cmd.id].state # "done"
          /\ (cmd.op = "fg" => Members(jobs[cmd.id].pgid) # {})
     THEN /\ pc' = "continue" /\ current' = cmd.id
          /\ tty' = IF cmd.op = "fg" THEN jobs[cmd.id].pgid ELSE tty
     ELSE pc' = "reap" /\ UNCHANGED <<current, tty>>
  /\ UNCHANGED <<kernel, sigchld_seen, list, cmd, pids, lines>>

\* Fault: the group is not continued.
SendNothing(g) == UNCHANGED <<life, report, sigchld_seen>>

\* kill(-pgid, SIGCONT): those that are stopped run again and report it.
SendContinue(g) ==
  LET C == {p \in Members(g) : life[p] = "stopped"}
  IN  /\ life' = [p \in Pids |-> IF p \in C THEN "running" ELSE life[p]]
      /\ report' = [p \in Pids |-> IF p \in C THEN "continued" ELSE report[p]]
      /\ sigchld_seen' = (sigchld_seen \/ C # {})

\* The rest of bg, and of fg up to its wait.
Continue ==
  LET g == jobs[current].pgid
      sent == cmd.op = "fg" \/ Members(g) # {}
  IN  /\ pc = "continue"
      /\ SendContinue(g)
      /\ jobs' = IF sent THEN [jobs EXCEPT ![current].state = "running"] ELSE jobs
      /\ pc' = IF cmd.op = "fg" THEN "wait" ELSE "reap"
      /\ UNCHANGED <<group, doomed, stops, owner, tty, next_id, cmd, current, pids, lines>>

-----------------------------------------------------------------------------
(* execute_external_pipeline and wait_foreground_job *)

Free(p) == ~Live(p) /\ Members(p) = {}

\* Fault: every child leads a group of its own.
GroupAlone(p) == p
\* The first child's number, which parent and child both set.
GroupOf(p) == IF pids = <<>> THEN p ELSE pids[1]

Fork(p) ==
  /\ pc = "fork" /\ Len(pids) < cmd.members
  /\ Free(p)
  /\ life' = [life EXCEPT ![p] = "running"]
  /\ report' = [report EXCEPT ![p] = "none"]
  /\ group' = [group EXCEPT ![p] = GroupOf(p)]
  /\ owner' = [owner EXCEPT ![p] = next_id]
  /\ pids' = Append(pids, p)
  /\ UNCHANGED <<doomed, stops, tty, sigchld_seen, list, pc, cmd, current, lines>>

\* Fault: the children are awaited but not told to end.
TerminateNone == UNCHANGED doomed
Terminate == doomed' = IF pids = <<>> THEN doomed ELSE doomed \cup Members(pids[1])

\* fork fails, or pipe before the first: the children already there are ended
\* and awaited one by one, and no job is made.
ForkFails ==
  /\ pc = "fork" /\ Len(pids) < cmd.members
  /\ Terminate
  /\ pc' = "cleanup"
  /\ UNCHANGED <<life, report, group, stops, owner, tty, sigchld_seen, list,
                 cmd, current, pids, lines>>
CleanupWait ==
  /\ pc = "cleanup" /\ pids # <<>>
  /\ life[Head(pids)] = "zombie"
  /\ life' = [life EXCEPT ![Head(pids)] = "free"]
  /\ doomed' = doomed \ {Head(pids)}
  /\ pids' = Tail(pids)
  /\ UNCHANGED <<report, group, stops, owner, tty, sigchld_seen, list, pc, cmd, current, lines>>
CleanupEnd ==
  /\ pc = "cleanup" /\ pids = <<>> /\ pc' = "reap"
  /\ UNCHANGED <<kernel, tty, sigchld_seen, list, cmd, current, pids, lines>>

SetOf(s) == {s[k] : k \in 1 .. Len(s)}

NextId == next_id' = next_id + 1

jobs_add ==
  /\ jobs' = [i \in DOMAIN jobs \cup {next_id} |->
                IF i # next_id THEN jobs[i]
                ELSE [pgid |-> pids[1], pids |-> SetOf(pids),
                      remaining |-> Len(pids), state |-> "running"]]
  /\ NextId

\* A foreground job is given the terminal.
Started ==
  /\ pc = "fork" /\ Len(pids) = cmd.members
  /\ jobs_add
  /\ IF cmd.background
     THEN pc' = "reap" /\ UNCHANGED <<tty, current>>
     ELSE pc' = "wait" /\ tty' = pids[1] /\ current' = next_id
  /\ pids' = <<>>
  /\ UNCHANGED <<kernel, sigchld_seen, cmd, lines>>

\* The loop of wait_foreground_job asks for ends and stops, of this group only.
WaitsOn == jobs[current].remaining > 0 /\ jobs[current].state # "stopped"
WaitOne(p) ==
  /\ pc = "wait" /\ WaitsOn
  /\ p \in Members(jobs[current].pgid)
  /\ report[p] # "continued"
  /\ Collect(p)
  /\ UNCHANGED <<group, stops, owner, tty, sigchld_seen, next_id, control>>

\* Fault: the terminal stays with the job.
TerminalKept == UNCHANGED tty
TerminalBack == tty' = Shell

\* The loop is over, or nothing is left to wait for (ECHILD).
WaitEnd ==
  /\ pc = "wait"
  /\ ~WaitsOn \/ Members(jobs[current].pgid) = {}
  /\ TerminalBack
  /\ jobs' = IF jobs[current].state = "done" THEN Without(current) ELSE jobs
  /\ pc' = "reap"
  /\ UNCHANGED <<kernel, sigchld_seen, next_id, cmd, current, pids, lines>>

-----------------------------------------------------------------------------
Step ==
  \/ \E p \in Pids : Reap(p) \/ Fork(p) \/ WaitOne(p)
  \/ Prompt \/ jobs_print \/ ReapedLine \/ ClearFlag \/ Dispatch \/ Exit
  \/ FindJob \/ Continue
  \/ CleanupWait \/ CleanupEnd \/ Started \/ WaitEnd
User == EndOfInput \/ \E c \in Lines : Read(c)
Exited == pc = "exited" /\ UNCHANGED vars
Next ==
  \/ Step \/ User \/ ForkFails \/ Exited
  \/ \E p \in Pids : Ends(p) \/ Stops(p) \/ Resumes(p)

\* The shell does not stop between two lines, and a program that SIGTERM was
\* sent to ends when it can run.
Spec ==
  /\ Init /\ [][Next]_vars
  /\ WF_vars(Step)
  /\ \A p \in Pids : WF_vars(p \in doomed /\ life[p] = "running" /\ Ends(p))

-----------------------------------------------------------------------------
(* Properties *)

TypeOK ==
  /\ life \in [Pids -> {"free", "running", "stopped", "zombie"}]
  /\ report \in [Pids -> {"none", "stopped", "continued"}]
  /\ group \in [Pids -> Pids \cup {Shell}]
  /\ owner \in [Pids -> Nat]
  /\ doomed \subseteq Pids
  /\ tty \in Pids \cup {Shell}
  /\ sigchld_seen \in BOOLEAN
  /\ next_id \in Nat \ {0}
  /\ DOMAIN jobs \subseteq 1 .. next_id - 1
  /\ jobs \in [DOMAIN jobs -> Jobs]
  /\ pc \in Reaping \cup {"read", "clear", "line", "continue", "fork", "cleanup", "wait", "exited"}
  /\ cmd \in Lines
  /\ current \in Nat
  /\ pids \in Seq(Pids)
  /\ lines \in Nat /\ stops \in Nat

\* jobs_update_status, jobs_find_pid: a listed job's remaining is the number of
\* its own processes that are not yet collected, whatever numbers are used
\* again, and it is done exactly when none is left.
RemainingCounts ==
  \A i \in DOMAIN jobs :
    /\ jobs[i].remaining = Cardinality({p \in Pids : Live(p) /\ owner[p] = i})
    /\ jobs[i].state = "done" <=> jobs[i].remaining = 0

\* A child is never forgotten: it belongs to the pipeline being started or
\* ended, or to a listed job, so some later reap collects it.
NoneForgotten ==
  \A p \in Pids : Live(p) /\ pc # "exited" =>
    \/ pc \in {"fork", "cleanup"} /\ p \in SetOf(pids)
    \/ owner[p] \in DOMAIN jobs

\* fg and bg signal, and the wait watches, all of the job's processes and no
\* process of another: a job's group number is not used again too early.
GroupIsJob ==
  \A i \in DOMAIN jobs : jobs[i].state # "done" =>
    Members(jobs[i].pgid) = {p \in Pids : Live(p) /\ owner[p] = i}

\* The terminal is a job's only between the start of its wait, or fg's
\* SIGCONT, and the end of the wait: whoever reads a line owns the terminal.
TerminalAtPrompt == tty # Shell => pc \in {"wait", "continue"} /\ tty = jobs[current].pgid

\* wait_foreground_job returns once no process of the job runs: no stop is
\* missed, whether it came before or during the wait.
ForegroundReturns ==
  [](pc = "wait" =>
     <>(pc # "wait" \/ \E p \in Members(jobs[current].pgid) : life[p] = "running"))

\* After a failed fork the prompt comes back, unless a child was stopped: a
\* stopped child does not act on SIGTERM and is waited for all the same.
CleanupEnds ==
  [](pc = "cleanup" =>
     <>(pc # "cleanup" \/ \E p \in SetOf(pids) : life[p] = "stopped"))
=============================================================================
