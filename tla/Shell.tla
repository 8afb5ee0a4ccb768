-------------------------------- MODULE Shell --------------------------------
(***************************************************************************)
(* Jobs and traps of msh: run_repl of src/main/main.c, msh_readline of     *)
(* src/exec/lineedit.c, src/exec/job.c, src/exec/trap.c and the parts of   *)
(* src/parse/parse.c that fork and wait.  The shell is one process; what   *)
(* runs beside it are its children and the signal handlers, which only set *)
(* a flag that the loop looks at between lines and between commands.       *)
(*                                                                         *)
(* SIGCHLD is handled through signal(), whose libc decides whether a       *)
(* system call that the handler interrupts is started again; traps are     *)
(* installed with SA_RESTART.  The signals of the model are those that the *)
(* line editor leaves alone, such as INT and USR1.                         *)
(***************************************************************************)
EXTENDS Naturals, Sequences, FiniteSets

CONSTANTS
  Signals,      \* what may be trapped
  None,
  Libcs,        \* does signal() ask for SA_RESTART?  The answers tried:
                \* TRUE in the libc of the hosts, FALSE in meuos-libc
  MaxJobs,      \* MSH_MAX_JOBS
  MaxProcs,     \* bound on the processes the shell forks
  MaxTraps,     \* bound on the signals it is sent
  MaxWaits      \* bound on the lines that fork nothing

ASSUME ShellAssumption == /\ None \notin Signals
                          /\ Libcs \subseteq BOOLEAN
                          /\ {MaxJobs, MaxProcs, MaxTraps, MaxWaits} \subseteq Nat

Pids == 1 .. MaxProcs

VARIABLES
  restart,     \* the answer of the libc that the shell was built with
  pc,          \* where the shell is
  after,       \* where it goes on after reaping or after looking for traps
  tty,         \* whether standard input is a terminal
  typed,       \* whether part of a line has been typed
  line,        \* the line being executed
  procs,       \* the children, by their number
  waits,       \* the processes a foreground command still waits for
  table,       \* g_jobs
  scan,        \* the index in msh_job_reap
  sigchld,     \* g_sigchld
  chld,        \* a SIGCHLD that has not been delivered
  trap,        \* g_traps
  pending,     \* g_trap_pending
  running,     \* the trap that msh_trap_check has read
  caught,      \* the traps caught and not run since
  sent, idle   \* how many signals were sent, how many lines forked nothing

vars == <<restart, pc, after, tty, typed, line, procs, waits, table, scan, sigchld,
          chld, trap, pending, running, caught, sent, idle>>

loop == <<restart, pc, after, tty, typed, line, scan, running, idle>>
jobs == <<procs, waits, table, sigchld, chld>>
traps == <<trap, pending, caught, sent>>

Used == {p \in Pids : procs[p] # "unused"}
Fresh(n) == Cardinality(Used) + n
Jobs == 1 .. Len(table)

Goto(label) == pc' = label

Init == /\ restart \in Libcs
        /\ pc = "reap" /\ after = "check"
        /\ tty \in BOOLEAN
        /\ typed = FALSE
        /\ line = "none"
        /\ procs = [p \in Pids |-> "unused"]
        /\ waits = <<>>
        /\ table = <<>>
        /\ scan = 0
        /\ sigchld = FALSE /\ chld = FALSE
        /\ trap = [s \in Signals |-> "default"]
        /\ pending = None /\ running = None
        /\ caught = {}
        /\ sent = 0 /\ idle = 0

-----------------------------------------------------------------------------
\* Before the prompt

\* The job at the index, if it has ended: waitpid with WNOHANG.
ReapOne(i) ==
  IF table[i].state = "Running" /\ procs[table[i].pid] = "zombie"
    THEN /\ procs' = [procs EXCEPT ![table[i].pid] = "gone"]
         /\ table' = [table EXCEPT ![i].state = "Done"]
    ELSE UNCHANGED <<procs, table>>

Leave == IF after = "check" THEN pc' = "check" /\ after' = "read"
         ELSE pc' = after /\ after' = "check"

\* msh_job_reap: the flag is cleared before the table is looked at.
\* Mutant: it is cleared when all have been looked at.
ReapThenClear ==
  /\ pc = "reap"
  /\ \/ /\ scan = 0 /\ ~sigchld
        /\ Leave
        /\ UNCHANGED <<sigchld, scan, procs, table>>
     \/ /\ scan = 0 /\ sigchld
        /\ scan' = 1
        /\ UNCHANGED <<pc, after, sigchld, procs, table>>
     \/ /\ scan \in Jobs
        /\ ReapOne(scan)
        /\ scan' = scan + 1
        /\ UNCHANGED <<pc, after, sigchld>>
     \/ /\ scan > Len(table)
        /\ scan' = 0
        /\ sigchld' = FALSE
        /\ Leave
        /\ UNCHANGED <<procs, table>>
  /\ UNCHANGED <<restart, tty, typed, line, running, idle, waits, chld, traps>>

Reap ==
  /\ pc = "reap"
  /\ \/ /\ scan = 0 /\ ~sigchld
        /\ Leave
        /\ UNCHANGED <<sigchld, scan, procs, table>>
     \/ /\ scan = 0 /\ sigchld
        /\ sigchld' = FALSE
        /\ scan' = 1
        /\ UNCHANGED <<pc, after, procs, table>>
     \/ /\ scan \in Jobs
        /\ ReapOne(scan)
        /\ scan' = scan + 1
        /\ UNCHANGED <<pc, after, sigchld>>
     \/ /\ scan > Len(table)
        /\ scan' = 0
        /\ Leave
        /\ UNCHANGED <<sigchld, procs, table>>
  /\ UNCHANGED <<restart, tty, typed, line, running, idle, waits, chld, traps>>

\* msh_trap_check, before the prompt and at each msh_eval.  The command of a
\* trap is run by msh_eval, which looks for another one first.
\* Mutant: the pending signal is cleared when its command has run.
TrapClearLate ==
  /\ \/ /\ pc = "check" /\ pending = None
        /\ Goto(after)
        /\ UNCHANGED <<running, pending, caught>>
     \/ /\ pc = "check" /\ pending # None
        /\ running' = pending
        /\ Goto(IF trap[pending] = "command" THEN "trap" ELSE "clear")
        /\ UNCHANGED <<pending, caught>>
     \/ /\ pc = "trap"
        /\ caught' = caught \ {running}
        /\ Goto("clear")
        /\ UNCHANGED <<pending, running>>
     \/ /\ pc = "clear"
        /\ pending' = None
        /\ running' = None
        /\ Goto(after)
        /\ UNCHANGED caught
  /\ UNCHANGED <<restart, after, tty, typed, line, scan, idle, jobs, trap, sent>>

TrapCheck ==
  /\ \/ /\ pc = "check" /\ pending = None
        /\ Goto(after)
        /\ UNCHANGED <<running, pending, caught>>
     \/ /\ pc = "check" /\ pending # None
        /\ running' = pending
        /\ Goto("clear")
        /\ UNCHANGED <<pending, caught>>
     \/ /\ pc = "clear"
        /\ pending' = None
        /\ Goto("trap")
        /\ UNCHANGED <<running, caught>>
     \/ /\ pc = "trap" /\ trap[running] = "command"
        /\ caught' = caught \ {running}
        /\ running' = None
        /\ Goto("check")
        /\ UNCHANGED pending
     \/ /\ pc = "trap" /\ trap[running] # "command"
        /\ running' = None
        /\ Goto(after)
        /\ UNCHANGED <<pending, caught>>
  /\ UNCHANGED <<restart, after, tty, typed, line, scan, idle, jobs, trap, sent>>

-----------------------------------------------------------------------------
\* The line

Type == /\ pc = "read"
        /\ ~typed
        /\ typed' = TRUE
        /\ UNCHANGED <<restart, pc, after, tty, line, scan, running, idle, jobs, traps>>

\* The line goes to msh_eval.
Submit(text) == /\ line' = text
                /\ typed' = FALSE
                /\ pc' = "check" /\ after' = "eval"

\* Lines fork a command, a pipeline or a job, or none of them.
Forks == {"simple", "pipe", "job"}
Plain == {"fg", "wait", "trap", "exit"}

Enter(text) == /\ pc = "read"
               /\ typed
               /\ Submit(text)
               /\ text \in Plain => idle < MaxWaits
               /\ idle' = IF text \in Plain THEN idle + 1 ELSE idle
               /\ UNCHANGED <<restart, tty, scan, running, jobs, traps>>

\* An empty line, a comment, or one that Ctrl-C gives up
Skip == /\ pc = "read"
        /\ typed' = FALSE
        /\ pc' = "reap" /\ after' = "check"
        /\ UNCHANGED <<restart, tty, line, scan, running, idle, jobs, traps>>

\* The line `exit' is taken by the loop itself.
Break == /\ pc = "read"
         /\ typed
         /\ typed' = FALSE
         /\ line' = "exit"
         /\ Goto("end")
         /\ UNCHANGED <<restart, after, tty, scan, running, idle, jobs, traps>>

\* The end of the input
Eof == /\ pc = "read"
       /\ ~typed
       /\ line' = "eof"
       /\ Goto("end")
       /\ UNCHANGED <<restart, after, tty, typed, scan, running, idle, jobs, traps>>

-----------------------------------------------------------------------------
\* The commands

\* The line is done: back to the head of the loop.
ToTop == pc' = "reap" /\ after' = "check"

Eval(text) == pc = "eval" /\ line = text

\* An external command, or a pipeline: as many processes, each of which is
\* then waited for.
Foreground(text, n) ==
  LET new == Cardinality(Used) + 1 .. Fresh(n)
  IN  /\ Eval(text)
      /\ Fresh(n) <= MaxProcs
      /\ procs' = [p \in Pids |-> IF p \in new THEN "running" ELSE procs[p]]
      /\ waits' = [i \in 1 .. n |-> Cardinality(Used) + i]
      /\ Goto("wait")
      /\ UNCHANGED <<restart, after, tty, typed, line, scan, running, idle, table,
                     sigchld, chld, traps>>

\* cmd &
Background ==
  /\ Eval("job")
  /\ Fresh(1) <= MaxProcs
  /\ procs' = [procs EXCEPT ![Fresh(1)] = "running"]
  /\ Goto("add")
  /\ UNCHANGED <<restart, after, tty, typed, line, scan, running, idle, waits, table,
                 sigchld, chld, traps>>

\* msh_job_add, whose failure nobody looks at
Add == /\ pc = "add"
       /\ table' = IF Len(table) < MaxJobs
                     THEN Append(table, [pid |-> Cardinality(Used),
                                         state |-> "Running"])
                     ELSE table
       /\ ToTop
       /\ UNCHANGED <<restart, tty, typed, line, scan, running, idle, procs, waits,
                      sigchld, chld, traps>>

\* Mutant: waitpid is tried again whatever its error.
FgAgain(j) ==
  /\ Eval("fg")
  /\ waits' = <<table[j].pid>>
  /\ Goto("wait")
  /\ UNCHANGED <<restart, after, tty, typed, line, scan, running, idle, procs,
                 table, sigchld, chld, traps>>

\* msh_job_fg, for fg N and wait N; of a job that was reaped waitpid knows
\* nothing.
Fg(j) == /\ Eval("fg")
         /\ \/ /\ procs[table[j].pid] = "gone"
               /\ ToTop
               /\ UNCHANGED waits
            \/ /\ procs[table[j].pid] # "gone"
               /\ waits' = <<table[j].pid>>
               /\ Goto("wait")
               /\ UNCHANGED after
         /\ UNCHANGED <<restart, tty, typed, line, scan, running, idle, procs, table,
                        sigchld, chld, traps>>

\* wait with no number only reaps; the loop then does it again.
Wait == /\ Eval("wait")
        /\ pc' = "reap" /\ after' = "reap"
        /\ UNCHANGED <<restart, tty, typed, line, scan, running, idle, jobs, traps>>

\* trap 'cmd' S, trap '' S, trap - S
SetTrap(s, to) ==
  /\ Eval("trap")
  /\ trap' = [trap EXCEPT ![s] = to]
  /\ caught' = IF to = "command" THEN caught ELSE caught \ {s}
  /\ ToTop
  /\ UNCHANGED <<restart, tty, typed, line, scan, running, idle, jobs, pending, sent>>

\* exit N
Exit == /\ Eval("exit")
        /\ Goto("end")
        /\ UNCHANGED <<restart, after, tty, typed, line, scan, running, idle, jobs, traps>>

\* A line that was not entered, of which we know nothing, and one that asks
\* for a job or for processes there are not.
Nothing == /\ \/ Eval("half")
              \/ Eval("fg") /\ Jobs = {}
              \/ Eval("pipe") /\ Fresh(2) > MaxProcs
              \/ (Eval("simple") \/ Eval("job")) /\ Fresh(1) > MaxProcs
           /\ ToTop
           /\ UNCHANGED <<restart, tty, typed, line, scan, running, idle, jobs, traps>>

\* waitpid without WNOHANG returns the process; fg notes that it is done.
Waited ==
  /\ pc = "wait"
  /\ waits # <<>>
  /\ procs[Head(waits)] = "zombie"
  /\ procs' = [procs EXCEPT ![Head(waits)] = "gone"]
  /\ waits' = Tail(waits)
  /\ table' = [i \in Jobs |-> IF table[i].pid = Head(waits)
                                THEN [table[i] EXCEPT !.state = "Done"]
                                ELSE table[i]]
  /\ UNCHANGED <<loop, sigchld, chld, traps>>

WaitedAll == /\ pc = "wait"
             /\ waits = <<>>
             /\ ToTop
             /\ UNCHANGED <<restart, tty, typed, line, scan, running, idle, jobs, traps>>

-----------------------------------------------------------------------------
\* Children and signals

End(p) == /\ procs[p] = "running"
          /\ procs' = [procs EXCEPT ![p] = "zombie"]
          /\ chld' = TRUE
          /\ UNCHANGED <<loop, waits, table, sigchld, traps>>

\* signal(): SA_RESTART.
Restarts == restart

\* What a system call that fails with EINTR does to the shell.  A waitpid
\* gives up that process.  In the line editor the read ends the line, as it
\* ends a line of other input that has begun; where it has not, a terminal
\* is prompted again and other input has ended.
Interrupted ==
  \/ /\ pc = "wait" /\ waits # <<>>
     /\ procs[Head(waits)] # "zombie"
     /\ waits' = Tail(waits)
     /\ UNCHANGED <<pc, after, line, typed>>
  \/ /\ pc = "read" /\ typed
     /\ Submit("half")
     /\ UNCHANGED waits
  \/ /\ pc = "read" /\ ~typed /\ tty
     /\ ToTop
     /\ UNCHANGED <<line, typed, waits>>
  \/ /\ pc = "read" /\ ~typed /\ ~tty
     /\ Goto("end")
     /\ UNCHANGED <<after, line, typed, waits>>

\* msh_job_sigchld_handler
Sigchld == /\ chld
           /\ chld' = FALSE
           /\ sigchld' = TRUE
           /\ \/ UNCHANGED <<pc, after, line, typed, waits>>
              \/ ~Restarts /\ Interrupted
           /\ UNCHANGED <<restart, tty, scan, running, idle, procs, table, traps>>

\* A signal that is trapped or ignored.
\* msh_trap_handler has one slot for all of them.
Signal(s) == /\ pc # "end"
             /\ sent < MaxTraps
             /\ sent' = sent + 1
             /\ trap[s] # "default"
             /\ IF trap[s] = "command"
                  THEN pending' = s /\ caught' = caught \cup {s}
                  ELSE UNCHANGED <<pending, caught>>
             /\ UNCHANGED <<loop, jobs, trap>>

Step == \/ Reap \/ TrapCheck
        \/ Foreground("simple", 1) \/ Foreground("pipe", 2)
        \/ Background \/ Add \/ Wait \/ Exit \/ Nothing
        \/ \E j \in Jobs : Fg(j)
        \/ \E s \in Signals, to \in {"command", "ignore", "default"} :
             SetTrap(s, to)
        \/ Waited \/ WaitedAll

User == \/ Type \/ Skip \/ Break \/ Eof
        \/ \E text \in Forks \cup Plain : Enter(text)
        \/ \E s \in Signals : Signal(s)

Next == \/ Step \/ User \/ Sigchld
        \/ \E p \in Pids : End(p)

\* The shell is scheduled, signals are delivered and commands end; nobody
\* needs to type anything.
Spec == /\ Init /\ [][Next]_vars
        /\ WF_vars(Step) /\ WF_vars(Sigchld)
        /\ \A p \in Pids : WF_vars(End(p))

-----------------------------------------------------------------------------
\* Properties

\* Every variable has its type, and every job a process that was forked.
TypeOK ==
  /\ pc \in {"reap", "check", "clear", "trap", "read", "eval", "add", "wait", "end"}
  /\ after \in {"check", "read", "eval", "reap"}
  /\ line \in Forks \cup Plain \cup {"none", "half", "eof"}
  /\ procs \in [Pids -> {"unused", "running", "zombie", "gone"}]
  /\ \A i \in Jobs : /\ table[i].state \in {"Running", "Done"}
                     /\ table[i].pid \in Used
  /\ Len(table) <= MaxJobs
  /\ {pending, running} \subseteq Signals \cup {None}

\* A job that has ended is Done in the table, or SIGCHLD is on its way, or
\* the flag is set, or msh_job_reap has not come to it yet: no ended job
\* stays Running at a prompt because the flag was cleared behind it.
NoJobForgotten ==
  \A i \in Jobs :
    (table[i].state = "Running" /\ procs[table[i].pid] # "running") =>
      chld \/ sigchld \/ (pc = "reap" /\ 0 < scan /\ scan <= i)

\* A trap that was caught runs, however the signal falls between the steps
\* of msh_trap_check: it stays in the slot or in the hands of the check.
TrapNotLost ==
  \A s \in caught : pending = s \/ (running = s /\ pc \in {"clear", "trap"})

GivesUpOnlyTheEnded ==
  \A p \in Pids : (waits # <<>> /\ Head(waits) = p /\ waits' # waits)
                    => procs'[p] = "gone"

\* Of fg, with any libc: `fg JOBID' brings the job to the foreground, waits
\* for it and returns its exit code.
FgWaits == [][line = "fg" => GivesUpOnlyTheEnded]_vars

\* Whatever is entered, the shell comes back for the next line.
PromptComesBack == (pc \notin {"read", "end"}) ~> (pc \in {"read", "end"})
==============================================================================
