---------------------------- MODULE Shell_proofs ----------------------------
(***************************************************************************)
(* Theorems about Shell, for every size of the job table and every number  *)
(* of processes and signals: no job that has ended is forgotten, a trap    *)
(* that is caught runs, and fg waits where signal() restarts system calls. *)
(***************************************************************************)
EXTENDS Shell, FiniteSetTheorems, SequenceTheorems, TLAPS

Labels == {"reap", "check", "clear", "trap", "read", "eval", "add", "wait", "end"}
Job == [pid : Nat, state : {"Running", "Done"}]

\* Where the shell is and what it holds there
ControlOK ==
  /\ pc \in Labels
  /\ after \in {"check", "read", "eval", "reap"}
  /\ line \in Forks \cup Plain \cup {"none", "half", "eof"}
  /\ {pending, running} \subseteq Signals \cup {None}
  /\ trap \in [Signals -> {"default", "command", "ignore"}]
  /\ pc \in {"clear", "trap"} => running \in Signals

\* Processes are numbered in the order of the forks.
ProcsOK == /\ procs \in [Pids -> {"unused", "running", "zombie", "gone"}]
           /\ \E n \in 0 .. MaxProcs : Used = 1 .. n

\* The table is in that order too, with a process to a job, and a job that
\* is Running has not been waited for.
TableOK ==
  /\ table \in Seq(Job)
  /\ Len(table) <= MaxJobs
  /\ scan \in Nat
  /\ pc # "reap" => scan = 0
  /\ \A i \in Jobs : table[i].pid \in Used
  /\ \A i, j \in Jobs : i < j => table[i].pid < table[j].pid
  /\ \A i \in Jobs : table[i].state = "Running" => procs[table[i].pid] # "gone"

\* Before msh_job_add, the job that was forked last is in nobody's hands, and
\* its end has been told.
AddOK ==
  pc = "add" =>
    /\ Cardinality(Used) \in Used
    /\ procs[Cardinality(Used)] # "gone"
    /\ procs[Cardinality(Used)] # "running" => chld \/ sigchld
    /\ \A i \in Jobs : table[i].pid < Cardinality(Used)

JobsInv == ControlOK /\ ProcsOK /\ TableOK /\ AddOK /\ NoJobForgotten

\* Of the traps caught, with one signal that may be trapped
TrapsInv == /\ ControlOK
            /\ caught \subseteq {s \in Signals : trap[s] = "command"}
            /\ TrapNotLost

\* Only a foreground command waits.
WaitsInv == /\ restart \in Libcs
            /\ pc # "wait" => waits = <<>>

-----------------------------------------------------------------------------
(* Sequences and sets of processes *)

\* Changing what a table says of its jobs leaves it a table as long.
LEMMA SameLength ==
  ASSUME NEW q, q = [i \in DOMAIN table |-> q[i]], table \in Seq(Job),
         \A i \in DOMAIN table : q[i] \in Job
  PROVE  q \in Seq(Job) /\ Len(q) = Len(table)
<1>1. Len(table) \in Nat /\ DOMAIN table = 1 .. Len(table)
  BY LenProperties
<1>2. q \in [1 .. Len(table) -> Job]
  BY <1>1
<1>3. q \in Seq(Job)
  BY <1>1, <1>2, SeqDef
<1> QED
  BY <1>1, <1>2, <1>3, LenProperties

\* The processes used are the first so many.
LEMMA UsedCount ==
  ASSUME ProcsOK
  PROVE  /\ Cardinality(Used) \in 0 .. MaxProcs
         /\ Used = 1 .. Cardinality(Used)
<1>1. PICK n \in 0 .. MaxProcs : Used = 1 .. n
  BY DEF ProcsOK
<1>2. n \in Int /\ n >= 0
  BY <1>1, ShellAssumption
<1>3. Cardinality(1 .. n) = n
  BY <1>2, FS_Interval
<1> QED
  BY <1>1, <1>3

\* A step between the states that a process goes through after its fork uses
\* no other process.
LEMMA SameUsed ==
  ASSUME ProcsOK, NEW p \in Used, NEW s \in {"running", "zombie", "gone"},
         procs' = [procs EXCEPT ![p] = s]
  PROVE  ProcsOK' /\ Used' = Used
<1>1. procs' \in [Pids -> {"unused", "running", "zombie", "gone"}]
  BY DEF ProcsOK
<1>2. Used' = Used
  BY DEF Used, ProcsOK
<1> QED
  BY <1>1, <1>2 DEF ProcsOK

-----------------------------------------------------------------------------
(* Where the shell is *)

LEMMA InitControl == Init => ControlOK
  BY DEF Init, ControlOK, Labels

LEMMA NextControl == ControlOK /\ [Next]_vars => ControlOK'
<1> SUFFICES ASSUME ControlOK, [Next]_vars PROVE ControlOK'
  OBVIOUS
<1> USE DEF ControlOK, Labels, Forks, Plain, Goto, ToTop, Eval, Submit, jobs,
            traps
<1>1. CASE UNCHANGED vars
  BY <1>1 DEF vars
<1>2. CASE Reap
  BY <1>2 DEF Reap, Leave
<1>3. CASE TrapCheck
  BY <1>3 DEF TrapCheck
<1>4. ASSUME NEW text, NEW n, Foreground(text, n) PROVE ControlOK'
  BY <1>4 DEF Foreground
<1>5. CASE Background \/ Add
  BY <1>5 DEF Background, Add
<1>6. CASE Wait \/ Exit \/ Nothing
  BY <1>6 DEF Wait, Exit, Nothing
<1>7. ASSUME NEW j \in Jobs, Fg(j) PROVE ControlOK'
  BY <1>7 DEF Fg
<1>8. ASSUME NEW s \in Signals, NEW to \in {"command", "ignore", "default"},
             SetTrap(s, to)
      PROVE  ControlOK'
  BY <1>8 DEF SetTrap
<1>9. CASE Waited \/ WaitedAll
  BY <1>9 DEF Waited, WaitedAll, loop
<1>10. CASE Type \/ Skip \/ Break \/ Eof
  BY <1>10 DEF Type, Skip, Break, Eof
<1>11. ASSUME NEW text \in Forks \cup Plain, Enter(text) PROVE ControlOK'
  BY <1>11 DEF Enter
<1>12. ASSUME NEW s \in Signals, Signal(s) PROVE ControlOK'
  BY <1>12 DEF Signal, loop
<1>13. CASE Sigchld
  BY <1>13 DEF Sigchld, Interrupted
<1>14. ASSUME NEW p \in Pids, End(p) PROVE ControlOK'
  BY <1>14 DEF End, loop
<1> HIDE DEF ControlOK
<1> QED
  BY <1>1, <1>2, <1>3, <1>4, <1>5, <1>6, <1>7, <1>8, <1>9, <1>10, <1>11,
     <1>12, <1>13, <1>14 DEF Next, Step, User

-----------------------------------------------------------------------------
(* Jobs *)

LEMMA InitJobs == Init => JobsInv
<1> SUFFICES ASSUME Init PROVE JobsInv
  OBVIOUS
<1>1. Used = {} /\ Used = 1 .. 0 /\ 0 \in 0 .. MaxProcs
  BY ShellAssumption DEF Init, Used
<1>2. table = <<>> /\ Len(table) = 0 /\ table \in Seq(Job) /\ Jobs = {}
  BY DEF Init, Jobs
<1> QED
  BY <1>1, <1>2, InitControl, ShellAssumption
     DEF Init, JobsInv, ProcsOK, TableOK, AddOK, NoJobForgotten

\* A step that only moves the shell on, from anywhere but the table, forgets
\* nothing.
LEMMA OnlyMoves ==
  ASSUME JobsInv, ControlOK', UNCHANGED <<procs, table, sigchld, chld>>,
         scan = 0, scan' = 0, pc' # "add"
  PROVE  JobsInv'
<1>1. Used' = Used /\ Jobs' = Jobs
  BY DEF Used, Jobs
<1>2. ProcsOK'
  BY <1>1 DEF JobsInv, ProcsOK
<1>3. TableOK'
  BY <1>1 DEF JobsInv, TableOK
<1>4. NoJobForgotten'
  BY <1>1 DEF JobsInv, NoJobForgotten
<1> QED
  BY <1>2, <1>3, <1>4 DEF JobsInv, AddOK

\* msh_job_reap does not go past a job that has ended.
LEMMA ReapKeeps == ASSUME JobsInv, ControlOK', Reap PROVE JobsInv'
<1>0. pc = "reap" /\ chld' = chld /\ UNCHANGED waits
  BY DEF Reap, traps
<1>1. /\ table \in Seq(Job) /\ Len(table) \in Nat /\ Jobs = DOMAIN table
      /\ scan \in Nat
  BY LenProperties DEF JobsInv, TableOK, Jobs
<1>2. CASE scan = 0 /\ ~sigchld /\ Leave /\ UNCHANGED <<sigchld, scan, procs, table>>
  <2>1. pc' # "add"
    BY <1>2 DEF Leave, JobsInv, ControlOK
  <2> QED
    BY <1>0, <1>2, <2>1, OnlyMoves
<1>3. CASE scan = 0 /\ sigchld /\ sigchld' = FALSE /\ scan' = 1
           /\ UNCHANGED <<pc, after, procs, table>>
  <2>1. Used' = Used /\ Jobs' = Jobs
    BY <1>3 DEF Used, Jobs
  <2>2. ProcsOK' /\ TableOK' /\ AddOK'
    BY <1>0, <1>3, <2>1 DEF JobsInv, ProcsOK, TableOK, AddOK
  <2>3. NoJobForgotten'
    BY <1>0, <1>3, <2>1 DEF NoJobForgotten, Jobs
  <2> QED
    BY <2>2, <2>3 DEF JobsInv
<1>4. CASE scan > Len(table) /\ scan' = 0 /\ Leave
           /\ UNCHANGED <<sigchld, procs, table>>
  <2>1. Used' = Used /\ Jobs' = Jobs
    BY <1>4 DEF Used, Jobs
  <2>2. pc' # "add"
    BY <1>4 DEF Leave, JobsInv, ControlOK
  <2>3. ProcsOK' /\ TableOK' /\ AddOK'
    BY <1>4, <2>1, <2>2 DEF JobsInv, ProcsOK, TableOK, AddOK
  <2>4. \A i \in Jobs : ~(scan <= i)
    BY <1>1, <1>4 DEF Jobs
  <2>5. NoJobForgotten'
    BY <1>0, <1>4, <2>1, <2>4 DEF JobsInv, NoJobForgotten
  <2> QED
    BY <2>3, <2>5 DEF JobsInv
<1>5. CASE scan \in Jobs /\ ReapOne(scan) /\ scan' = scan + 1
           /\ UNCHANGED <<pc, after, sigchld>>
  <2> DEFINE p == table[scan].pid
  <2>0. \A i \in Jobs : table[i] \in Job
    BY <1>1, ElementOfSeq DEF Jobs
  <2>1. CASE table[scan].state = "Running" /\ procs[p] = "zombie"
    <3>1. /\ procs' = [procs EXCEPT ![p] = "gone"]
          /\ table' = [table EXCEPT ![scan].state = "Done"]
      BY <1>5, <2>1 DEF ReapOne
    <3>2. p \in Used
      BY <1>5 DEF JobsInv, TableOK
    <3>3. ProcsOK' /\ Used' = Used
      BY <3>1, <3>2, SameUsed DEF JobsInv
    <3>4. \A i \in Jobs :
            table'[i] = IF i = scan THEN [table[i] EXCEPT !.state = "Done"]
                                    ELSE table[i]
      BY <1>1, <3>1
    <3>5. \A i \in Jobs : /\ table'[i] \in Job
                          /\ table'[i].pid = table[i].pid
                          /\ table'[i].state = "Running" =>
                               i # scan /\ table[i].state = "Running"
      BY <2>0, <3>4 DEF Job
    <3>6. table' \in Seq(Job) /\ Len(table') = Len(table) /\ Jobs' = Jobs
      BY <1>1, <3>1, <3>5, SameLength DEF Jobs
    <3>7. \A i \in Jobs : i # scan => table[i].pid # p
      <4>1. \A i \in Jobs : table[i].pid \in Nat
        BY <2>0 DEF Job
      <4> QED
        BY <1>1, <1>5, <4>1 DEF JobsInv, TableOK, Jobs
    <3>8. \A i \in Jobs : table'[i].state = "Running" =>
                            procs'[table'[i].pid] = procs[table[i].pid]
      BY <3>1, <3>5, <3>7 DEF JobsInv, ProcsOK
    <3>9. TableOK'
      BY <1>0, <1>1, <1>5, <3>3, <3>5, <3>6, <3>8 DEF JobsInv, TableOK
    <3>10. NoJobForgotten'
      <4> SUFFICES ASSUME NEW i \in Jobs, table'[i].state = "Running",
                          procs'[table'[i].pid] # "running"
                   PROVE  chld' \/ sigchld'
                          \/ (pc' = "reap" /\ 0 < scan' /\ scan' <= i)
        BY <3>6 DEF NoJobForgotten
      <4>1. table[i].state = "Running" /\ i # scan
            /\ procs[table[i].pid] # "running"
        BY <3>5, <3>8
      <4>2. chld \/ sigchld \/ (0 < scan /\ scan <= i)
        BY <4>1 DEF JobsInv, NoJobForgotten
      <4> QED
        BY <1>0, <1>1, <1>5, <4>1, <4>2 DEF Jobs
    <3> QED
      BY <1>0, <1>5, <3>3, <3>9, <3>10 DEF JobsInv, AddOK
  <2>2. CASE ~(table[scan].state = "Running" /\ procs[p] = "zombie")
    <3>1. UNCHANGED <<procs, table>>
      BY <1>5, <2>2 DEF ReapOne
    <3>2. Used' = Used /\ Jobs' = Jobs
      BY <3>1 DEF Used, Jobs
    <3>3. ProcsOK' /\ TableOK' /\ AddOK'
      BY <1>0, <1>1, <1>5, <3>1, <3>2 DEF JobsInv, ProcsOK, TableOK, AddOK
    <3>4. table[scan].state = "Running" => procs[p] = "running"
      <4>1. procs[p] # "unused"
        BY <1>5 DEF JobsInv, TableOK, Used
      <4>2. p \in Pids
        BY <1>5 DEF JobsInv, TableOK, Used
      <4> QED
        BY <1>5, <2>2, <4>1, <4>2 DEF JobsInv, TableOK, ProcsOK
    <3>5. NoJobForgotten'
      <4> SUFFICES ASSUME NEW i \in Jobs, table[i].state = "Running",
                          procs[table[i].pid] # "running"
                   PROVE  chld' \/ sigchld'
                          \/ (pc' = "reap" /\ 0 < scan' /\ scan' <= i)
        BY <3>1, <3>2 DEF NoJobForgotten
      <4>1. i # scan
        BY <3>4
      <4>2. chld \/ sigchld \/ (0 < scan /\ scan <= i)
        BY DEF JobsInv, NoJobForgotten
      <4> QED
        BY <1>0, <1>1, <1>5, <4>1, <4>2 DEF Jobs
    <3> QED
      BY <3>3, <3>5 DEF JobsInv
  <2> QED
    BY <2>1, <2>2
<1> QED
  BY <1>2, <1>3, <1>4, <1>5 DEF Reap

\* New processes come behind those there are.
LEMMA Forked ==
  ASSUME ProcsOK, NEW n \in Nat \ {0}, Fresh(n) <= MaxProcs,
         procs' = [p \in Pids |-> IF p \in Cardinality(Used) + 1 .. Fresh(n)
                                    THEN "running" ELSE procs[p]]
  PROVE  /\ ProcsOK'
         /\ Cardinality(Used') = Cardinality(Used) + n
         /\ Used' = 1 .. Cardinality(Used')
         /\ Cardinality(Used') \in Pids
         /\ \A p \in Used : p \in Used' /\ procs'[p] = procs[p]
<1> DEFINE k == Cardinality(Used)
<1>1. /\ k \in Nat /\ k + n \in Nat /\ k + n <= MaxProcs
      /\ Used = 1 .. k
      /\ MaxProcs \in Nat
  BY UsedCount, ShellAssumption DEF Fresh
<1>2. procs' = [p \in Pids |-> IF p \in k + 1 .. k + n
                                 THEN "running" ELSE procs[p]]
  BY DEF Fresh
<1> HIDE DEF k
<1>3. procs' \in [Pids -> {"unused", "running", "zombie", "gone"}]
  BY <1>2 DEF ProcsOK
<1>4. Used' = 1 .. k + n
  <2>1. ASSUME NEW p \in Pids
        PROVE  procs'[p] # "unused" <=> p \in 1 .. k + n
    <3>1. p \in Used <=> procs[p] # "unused"
      BY DEF Used
    <3> QED
      BY <1>1, <1>2, <2>1, <3>1 DEF Pids
  <2>2. 1 .. k + n \subseteq Pids
    BY <1>1 DEF Pids
  <2> QED
    BY <2>1, <2>2 DEF Used
<1>5. Cardinality(Used') = k + n
  BY <1>1, <1>4, FS_Interval
<1>6. k + n \in 0 .. MaxProcs /\ k + n \in Pids
  BY <1>1 DEF Pids
<1>7. \A p \in Used : p \in Used' /\ procs'[p] = procs[p]
  BY <1>1, <1>2, <1>4 DEF Pids
<1> QED
  BY <1>3, <1>4, <1>5, <1>6, <1>7 DEF ProcsOK, k

\* A fork changes nothing for the jobs in the table.
LEMMA ForkKeepsTable ==
  ASSUME JobsInv, UNCHANGED <<table, sigchld, chld, scan>>, pc = "eval",
         pc' # "reap", \A p \in Used : p \in Used' /\ procs'[p] = procs[p]
  PROVE  TableOK' /\ NoJobForgotten'
<1>1. Jobs' = Jobs /\ \A i \in Jobs : table[i].pid \in Used
  BY DEF Jobs, JobsInv, TableOK
<1>2. TableOK'
  BY <1>1 DEF JobsInv, TableOK
<1>3. NoJobForgotten'
  BY <1>1 DEF JobsInv, NoJobForgotten
<1> QED
  BY <1>2, <1>3

LEMMA ForegroundKeeps ==
  ASSUME JobsInv, ControlOK', NEW text, NEW n \in Nat \ {0}, Foreground(text, n)
  PROVE  JobsInv'
<1>1. /\ Fresh(n) <= MaxProcs /\ pc = "eval" /\ pc' = "wait"
      /\ UNCHANGED <<table, sigchld, chld, scan>>
      /\ procs' = [p \in Pids |-> IF p \in Cardinality(Used) + 1 .. Fresh(n)
                                    THEN "running" ELSE procs[p]]
  BY DEF Foreground, Eval, Goto
<1>2. ProcsOK' /\ \A p \in Used : p \in Used' /\ procs'[p] = procs[p]
  BY <1>1, Forked DEF JobsInv
<1>3. TableOK' /\ NoJobForgotten'
  BY <1>1, <1>2, ForkKeepsTable
<1> QED
  BY <1>1, <1>2, <1>3 DEF JobsInv, AddOK

LEMMA BackgroundKeeps ==
  ASSUME JobsInv, ControlOK', Background
  PROVE  JobsInv'
<1> DEFINE k == Cardinality(Used)
<1>1. /\ k + 1 <= MaxProcs /\ pc = "eval" /\ pc' = "add"
      /\ UNCHANGED <<table, sigchld, chld, scan>>
      /\ procs' = [procs EXCEPT ![k + 1] = "running"]
  BY DEF Background, Eval, Goto, Fresh
<1>2. k \in Nat /\ Used = 1 .. k /\ MaxProcs \in Nat
  BY UsedCount, ShellAssumption DEF JobsInv
<1>3. procs' = [p \in Pids |-> IF p \in k + 1 .. k + 1
                                 THEN "running" ELSE procs[p]]
  <2> HIDE DEF k
  <2>1. DOMAIN procs = Pids
    BY DEF JobsInv, ProcsOK
  <2>2. \A p \in Pids : p \in k + 1 .. k + 1 <=> p = k + 1
    BY <1>2 DEF Pids
  <2> QED
    BY <1>1, <2>1, <2>2
<1>4. /\ ProcsOK'
      /\ Cardinality(Used') = k + 1 /\ Used' = 1 .. Cardinality(Used')
      /\ Cardinality(Used') \in Pids
      /\ \A p \in Used : p \in Used' /\ procs'[p] = procs[p]
  <2>1. Fresh(1) = k + 1 /\ Fresh(1) <= MaxProcs /\ ProcsOK
    BY <1>1 DEF Fresh, JobsInv
  <2>2. procs' = [p \in Pids |-> IF p \in Cardinality(Used) + 1 .. Fresh(1)
                                   THEN "running" ELSE procs[p]]
    BY <1>3, <2>1
  <2> QED
    BY <2>1, <2>2, Forked
<1>5. TableOK' /\ NoJobForgotten'
  BY <1>1, <1>4, ForkKeepsTable
<1>6. AddOK'
  <2>1. Jobs' = Jobs /\ \A i \in Jobs : table[i].pid \in 1 .. k
    BY <1>1, <1>2 DEF JobsInv, TableOK, Jobs
  <2>2. procs'[k + 1] = "running"
    BY <1>3, <1>4, <1>2
  <2> HIDE DEF k
  <2>3. \A i \in Jobs : table'[i].pid < k + 1
    BY <1>1, <1>2, <2>1
  <2> QED
    BY <1>2, <1>4, <2>1, <2>2, <2>3 DEF AddOK
<1> QED
  BY <1>4, <1>5, <1>6 DEF JobsInv

\* msh_job_add: the job may have ended before it is in the table, but then its
\* SIGCHLD has not been looked at.
LEMMA AddKeeps ==
  ASSUME JobsInv, ControlOK', Add
  PROVE  JobsInv'
<1> DEFINE k == Cardinality(Used)
           job == [pid |-> k, state |-> "Running"]
<1>1. /\ pc = "add" /\ pc' = "reap"
      /\ UNCHANGED <<procs, sigchld, chld, scan>>
      /\ table' = IF Len(table) < MaxJobs THEN Append(table, job) ELSE table
  BY DEF Add, ToTop
<1>2. /\ scan = 0 /\ k \in Used /\ Used' = Used
      /\ procs[k] # "gone"
      /\ procs[k] # "running" => chld \/ sigchld
      /\ \A i \in Jobs : table[i].pid < k
  BY <1>1 DEF JobsInv, TableOK, AddOK, Used
<1>3. k \in Nat
  BY UsedCount DEF JobsInv
<1>4. table \in Seq(Job) /\ Len(table) \in Nat
  BY LenProperties DEF JobsInv, TableOK
<1>5. ProcsOK'
  BY <1>1, <1>2 DEF JobsInv, ProcsOK
<1>6. CASE Len(table) < MaxJobs
  <2>1. job \in Job /\ job.pid = k /\ job.state = "Running"
    BY <1>3 DEF Job
  <2> HIDE DEF job, k
  <2>2. /\ table' \in Seq(Job) /\ Len(table') = Len(table) + 1
        /\ \A i \in 1 .. Len(table) : table'[i] = table[i]
        /\ table'[Len(table) + 1] = job
    BY <1>1, <1>4, <1>6, <2>1
  <2>3. /\ Jobs' = 1 .. Len(table) + 1
        /\ \A i \in Jobs' : \/ i \in Jobs /\ table'[i] = table[i]
                            \/ i = Len(table) + 1 /\ table'[i] = job
    BY <1>4, <2>2 DEF Jobs
  <2>4. TableOK'
    <3>1. Len(table') <= MaxJobs
      BY <1>4, <1>6, <2>2, ShellAssumption
    <3>2. \A i \in Jobs' : table'[i].pid \in Used'
      BY <1>2, <2>1, <2>3 DEF JobsInv, TableOK
    <3>3. \A i, j \in Jobs' : i < j => table'[i].pid < table'[j].pid
      BY <1>2, <1>4, <2>1, <2>3 DEF JobsInv, TableOK, Jobs
    <3>4. \A i \in Jobs' : table'[i].state = "Running"
                             => procs'[table'[i].pid] # "gone"
      BY <1>1, <1>2, <2>1, <2>3 DEF JobsInv, TableOK
    <3> QED
      BY <1>1, <1>2, <2>2, <3>1, <3>2, <3>3, <3>4 DEF TableOK
  <2>5. NoJobForgotten'
    <3> SUFFICES ASSUME NEW i \in Jobs', table'[i].state = "Running",
                        procs'[table'[i].pid] # "running"
                 PROVE  chld' \/ sigchld'
      BY DEF NoJobForgotten
    <3>1. CASE i \in Jobs /\ table'[i] = table[i]
      BY <1>1, <3>1 DEF JobsInv, NoJobForgotten
    <3>2. CASE table'[i] = job
      BY <1>1, <1>2, <2>1, <3>2
    <3> QED
      BY <2>3, <3>1, <3>2
  <2> QED
    BY <1>1, <1>5, <2>4, <2>5 DEF JobsInv, AddOK
<1>7. CASE ~(Len(table) < MaxJobs)
  <2>1. table' = table /\ pc' # "add" /\ scan' = 0
    BY <1>1, <1>2, <1>7
  <2> QED
    BY <1>1, <1>2, <2>1, OnlyMoves
<1> QED
  BY <1>6, <1>7

\* A process that is waited for is Done wherever it is in the table.
LEMMA WaitedKeeps ==
  ASSUME JobsInv, ControlOK', Waited
  PROVE  JobsInv'
<1> DEFINE p == Head(waits)
<1>1. /\ pc = "wait" /\ UNCHANGED <<pc, scan, sigchld, chld>>
      /\ procs[p] = "zombie"
      /\ procs' = [procs EXCEPT ![p] = "gone"]
      /\ table' = [i \in Jobs |-> IF table[i].pid = p
                                    THEN [table[i] EXCEPT !.state = "Done"]
                                    ELSE table[i]]
  BY DEF Waited, loop
<1> HIDE DEF p
<1>2. /\ table \in Seq(Job) /\ Len(table) \in Nat /\ Jobs = DOMAIN table
      /\ scan = 0 /\ \A i \in Jobs : table[i] \in Job
  BY <1>1, LenProperties, ElementOfSeq DEF JobsInv, TableOK, Jobs
<1>3. \A i \in Jobs : /\ table'[i] \in Job
                      /\ table'[i].pid = table[i].pid
                      /\ table'[i].state = "Running" =>
                           table[i].pid # p /\ table[i].state = "Running"
  <2>1. ASSUME NEW i \in Jobs
        PROVE  table'[i] = IF table[i].pid = p
                             THEN [table[i] EXCEPT !.state = "Done"]
                             ELSE table[i]
    BY <1>1
  <2> QED
    BY <1>2, <2>1 DEF Job
<1>4. table' \in Seq(Job) /\ Len(table') = Len(table) /\ Jobs' = Jobs
  BY <1>1, <1>2, <1>3, SameLength DEF Jobs
<1>5. /\ procs' \in [Pids -> {"unused", "running", "zombie", "gone"}]
      /\ Used' = Used
  BY <1>1 DEF JobsInv, ProcsOK, Used
<1>6. \A i \in Jobs : table'[i].state = "Running" =>
                        procs'[table'[i].pid] = procs[table[i].pid]
  BY <1>1, <1>3 DEF JobsInv, ProcsOK
<1>7. ProcsOK' /\ TableOK'
  BY <1>1, <1>2, <1>3, <1>4, <1>5, <1>6 DEF JobsInv, ProcsOK, TableOK
<1>8. NoJobForgotten'
  BY <1>1, <1>3, <1>4, <1>6 DEF JobsInv, NoJobForgotten
<1> QED
  BY <1>1, <1>7, <1>8 DEF JobsInv, AddOK

\* The end of a process sends SIGCHLD.
LEMMA EndKeeps ==
  ASSUME JobsInv, ControlOK', NEW p \in Pids, End(p)
  PROVE  JobsInv'
<1>1. /\ procs[p] = "running" /\ procs' = [procs EXCEPT ![p] = "zombie"]
      /\ chld' = TRUE /\ UNCHANGED <<pc, scan, table, sigchld>>
  BY DEF End, loop
<1>2. p \in Used
  BY <1>1 DEF Used
<1>3. ProcsOK' /\ Used' = Used
  BY <1>1, <1>2, SameUsed DEF JobsInv
<1>4. \A q \in Used : procs'[q] = "gone" => procs[q] = "gone"
  BY <1>1 DEF JobsInv, ProcsOK, Used
<1>5. Jobs' = Jobs
  BY <1>1 DEF Jobs
<1>6. TableOK'
  BY <1>1, <1>3, <1>4, <1>5 DEF JobsInv, TableOK
<1>7. AddOK'
  BY <1>1, <1>3, <1>4, <1>5 DEF JobsInv, AddOK
<1> QED
  BY <1>1, <1>3, <1>6, <1>7 DEF JobsInv, NoJobForgotten

\* The handler sets the flag, wherever the shell is.
LEMMA SigchldKeeps ==
  ASSUME JobsInv, ControlOK', Sigchld
  PROVE  JobsInv'
<1>1. /\ sigchld' = TRUE /\ UNCHANGED <<procs, table, scan>>
      /\ \/ pc' = pc
         \/ pc \notin {"reap", "add"} /\ pc' # "add"
  BY DEF Sigchld, Interrupted, Submit, ToTop, Goto
<1>2. Used' = Used /\ Jobs' = Jobs
  BY <1>1 DEF Used, Jobs
<1>3. ProcsOK' /\ TableOK' /\ AddOK'
  BY <1>1, <1>2 DEF JobsInv, ProcsOK, TableOK, AddOK
<1> QED
  BY <1>1, <1>3 DEF JobsInv, NoJobForgotten

\* No step forgets a job.
LEMMA NextJobs == JobsInv /\ [Next]_vars => JobsInv'
<1> SUFFICES ASSUME JobsInv, [Next]_vars PROVE JobsInv'
  OBVIOUS
<1>0. ControlOK' /\ (pc # "reap" => scan = 0) /\ ControlOK
  BY NextControl DEF JobsInv, TableOK
<1>moves. ASSUME UNCHANGED <<procs, table, sigchld, chld, scan>>,
                 pc \notin {"reap", "add"}, pc' # "add"
          PROVE  JobsInv'
  BY <1>0, <1>moves, OnlyMoves
<1> USE DEF Goto, ToTop, Eval, Submit, jobs
<1>1. CASE UNCHANGED vars
  <2>1. Used' = Used /\ Jobs' = Jobs
    BY <1>1 DEF vars, Used, Jobs
  <2> QED
    BY <1>0, <1>1, <2>1
       DEF vars, JobsInv, ProcsOK, TableOK, AddOK, NoJobForgotten
<1>2. CASE Reap
  BY <1>0, <1>2, ReapKeeps
<1>3. CASE TrapCheck
  BY <1>0, <1>3, <1>moves DEF TrapCheck, ControlOK
<1>4. CASE Foreground("simple", 1) \/ Foreground("pipe", 2)
  BY <1>0, <1>4, ForegroundKeeps
<1>5. CASE Background \/ Add
  BY <1>0, <1>5, BackgroundKeeps, AddKeeps
<1>6. CASE Wait \/ Exit \/ Nothing
  BY <1>6, <1>moves DEF Wait, Exit, Nothing
<1>7. ASSUME NEW j \in Jobs, Fg(j) PROVE JobsInv'
  BY <1>7, <1>moves DEF Fg
<1>8. ASSUME NEW s, NEW to, SetTrap(s, to) PROVE JobsInv'
  BY <1>8, <1>moves DEF SetTrap
<1>9. CASE Waited \/ WaitedAll
  BY <1>0, <1>9, <1>moves, WaitedKeeps DEF WaitedAll
<1>10. CASE Type \/ Skip \/ Break \/ Eof
  BY <1>10, <1>moves DEF Type, Skip, Break, Eof
<1>11. ASSUME NEW text, Enter(text) PROVE JobsInv'
  BY <1>11, <1>moves DEF Enter
<1>12. ASSUME NEW s, Signal(s) PROVE JobsInv'
  <2>1. UNCHANGED <<pc, procs, table, sigchld, chld, scan>>
    BY <1>12 DEF Signal, loop
  <2>2. Used' = Used /\ Jobs' = Jobs
    BY <2>1 DEF Used, Jobs
  <2> QED
    BY <1>0, <2>1, <2>2 DEF JobsInv, ProcsOK, TableOK, AddOK, NoJobForgotten
<1>13. CASE Sigchld
  BY <1>0, <1>13, SigchldKeeps
<1>14. ASSUME NEW p \in Pids, End(p) PROVE JobsInv'
  BY <1>0, <1>14, EndKeeps
<1> QED
  BY <1>1, <1>2, <1>3, <1>4, <1>5, <1>6, <1>7, <1>8, <1>9, <1>10, <1>11,
     <1>12, <1>13, <1>14 DEF Next, Step, User

\* msh: the variables keep their types, the table never holds more than
\* MSH_MAX_JOBS jobs, and every job in it a process that was forked.
THEOREM TypeCorrect == Spec => []TypeOK
<1>1. JobsInv => TypeOK
  <2> SUFFICES ASSUME JobsInv PROVE TypeOK
    OBVIOUS
  <2>1. \A i \in Jobs : table[i].state \in {"Running", "Done"}
    <3>1. \A i \in Jobs : table[i] \in Job
      BY ElementOfSeq DEF JobsInv, TableOK, Jobs
    <3> QED
      BY <3>1 DEF Job
  <2> QED
    BY <2>1 DEF JobsInv, ControlOK, ProcsOK, TableOK, TypeOK, Labels
<1> QED
  BY <1>1, InitJobs, NextJobs, PTL DEF Spec

\* job.c: an ended job is Done, or its SIGCHLD or its turn in msh_job_reap is
\* still to come, whenever its process ends and whatever the libc.
THEOREM JobsKept == Spec => []NoJobForgotten
<1>1. JobsInv => NoJobForgotten
  BY DEF JobsInv
<1> QED
  BY <1>1, InitJobs, NextJobs, PTL DEF Spec

-----------------------------------------------------------------------------
(* Traps *)

OneSignal == \A s, t \in Signals : s = t

LEMMA InitTraps == Init => TrapsInv
  BY InitControl DEF Init, TrapsInv, TrapNotLost

\* msh_trap_check has the signal in its hand from the moment it empties the
\* slot.
LEMMA NextTraps ==
  ASSUME OneSignal PROVE TrapsInv /\ [Next]_vars => TrapsInv'
<1> SUFFICES ASSUME TrapsInv, [Next]_vars PROVE TrapsInv'
  OBVIOUS
<1>0. ControlOK /\ ControlOK'
  BY NextControl DEF TrapsInv
<1> DEFINE Kept == /\ caught' \subseteq {s \in Signals : trap'[s] = "command"}
                   /\ TrapNotLost'
<1> SUFFICES Kept
  BY <1>0 DEF TrapsInv
<1>moves. ASSUME UNCHANGED <<trap, pending, running, caught>>,
                 pc \notin {"clear", "trap"} \/ pc' = pc
          PROVE  Kept
  BY <1>moves DEF TrapsInv, TrapNotLost
<1> HIDE DEF Kept
<1> USE DEF Goto, ToTop, Eval, Submit, traps, loop
<1>1. CASE UNCHANGED vars
  BY <1>1, <1>moves DEF vars
<1>2. CASE Reap
  BY <1>2, <1>moves DEF Reap
<1>3. CASE TrapCheck
  BY <1>0, <1>3, ShellAssumption
     DEF OneSignal, TrapCheck, TrapsInv, TrapNotLost, ControlOK, Kept
<1>4. ASSUME NEW text, NEW n, Foreground(text, n) PROVE Kept
  BY <1>4, <1>moves DEF Foreground
<1>5. CASE Background \/ Add
  BY <1>5, <1>moves DEF Background, Add
<1>6. CASE Wait \/ Exit \/ Nothing
  BY <1>6, <1>moves DEF Wait, Exit, Nothing
<1>7. ASSUME NEW j \in Jobs, Fg(j) PROVE Kept
  BY <1>7, <1>moves DEF Fg
<1>8. ASSUME NEW s \in Signals, NEW to \in {"command", "ignore", "default"},
             SetTrap(s, to)
      PROVE  Kept
  BY <1>0, <1>8 DEF SetTrap, TrapsInv, TrapNotLost, ControlOK, Kept
<1>9. CASE Waited \/ WaitedAll
  BY <1>9, <1>moves DEF Waited, WaitedAll
<1>10. CASE Type \/ Skip \/ Break \/ Eof
  BY <1>10, <1>moves DEF Type, Skip, Break, Eof
<1>11. ASSUME NEW text, Enter(text) PROVE Kept
  BY <1>11, <1>moves DEF Enter
<1>12. ASSUME NEW s \in Signals, Signal(s) PROVE Kept
  BY <1>0, <1>12 DEF OneSignal, Signal, TrapsInv, TrapNotLost, ControlOK, Kept
<1>13. CASE Sigchld
  BY <1>13, <1>moves DEF Sigchld, Interrupted
<1>14. ASSUME NEW p \in Pids, End(p) PROVE Kept
  BY <1>14, <1>moves DEF End
<1> QED
  BY <1>1, <1>2, <1>3, <1>4, <1>5, <1>6, <1>7, <1>8, <1>9, <1>10, <1>11,
     <1>12, <1>13, <1>14 DEF Next, Step, User

\* trap.c, with one signal that is trapped: a caught trap is in the slot or in
\* the hands of msh_trap_check until its command has run.
THEOREM TrapsKept == ASSUME OneSignal PROVE Spec => []TrapNotLost
<1>1. TrapsInv => TrapNotLost
  BY DEF TrapsInv
<1> QED
  BY <1>1, InitTraps, NextTraps, PTL DEF Spec

-----------------------------------------------------------------------------
(* fg *)

LEMMA InitWaits == Init => WaitsInv
  BY DEF Init, WaitsInv

LEMMA NextWaits == WaitsInv /\ [Next]_vars => WaitsInv'
<1> SUFFICES ASSUME WaitsInv, [Next]_vars PROVE WaitsInv'
  OBVIOUS
<1> USE DEF WaitsInv, Goto, ToTop, Eval, Submit, jobs, loop
<1>1. CASE UNCHANGED vars
  BY <1>1 DEF vars
<1>2. CASE Reap \/ TrapCheck
  BY <1>2 DEF Reap, TrapCheck
<1>3. ASSUME NEW text, NEW n, Foreground(text, n) PROVE WaitsInv'
  BY <1>3 DEF Foreground
<1>4. CASE Background \/ Add \/ Wait \/ Exit \/ Nothing
  BY <1>4 DEF Background, Add, Wait, Exit, Nothing
<1>5. ASSUME NEW j \in Jobs, Fg(j) PROVE WaitsInv'
  BY <1>5 DEF Fg
<1>6. ASSUME NEW s, NEW to, SetTrap(s, to) PROVE WaitsInv'
  BY <1>6 DEF SetTrap
<1>7. CASE Waited \/ WaitedAll
  BY <1>7 DEF Waited, WaitedAll
<1>8. CASE Type \/ Skip \/ Break \/ Eof
  BY <1>8 DEF Type, Skip, Break, Eof
<1>9. ASSUME NEW text, Enter(text) PROVE WaitsInv'
  BY <1>9 DEF Enter
<1>10. ASSUME NEW s, Signal(s) PROVE WaitsInv'
  BY <1>10 DEF Signal
<1>11. CASE Sigchld
  BY <1>11 DEF Sigchld, Interrupted
<1>12. ASSUME NEW p \in Pids, End(p) PROVE WaitsInv'
  BY <1>12 DEF End
<1> QED
  BY <1>1, <1>2, <1>3, <1>4, <1>5, <1>6, <1>7, <1>8, <1>9, <1>10, <1>11,
     <1>12 DEF Next, Step, User

\* With SA_RESTART only waitpid's answer takes a process from those that the
\* shell waits for, and it takes it when the process has ended.
LEMMA OnlyTheEnded ==
  ASSUME Libcs = {TRUE}, WaitsInv, ControlOK, ProcsOK, [Next]_vars
  PROVE  GivesUpOnlyTheEnded
<1> SUFFICES ASSUME NEW p \in Pids, waits # <<>>, Head(waits) = p,
                    waits' # waits
             PROVE  procs'[p] = "gone"
  BY DEF GivesUpOnlyTheEnded
<1>1. restart = TRUE /\ pc = "wait"
  BY DEF WaitsInv
<1>2. Waited
  <2> USE <1>1 DEF Goto, ToTop, Eval, jobs, loop
  <2>1. ~(UNCHANGED vars) /\ ~Reap /\ ~TrapCheck
    BY DEF vars, Reap, TrapCheck
  <2>2. /\ \A text, n : ~Foreground(text, n)
        /\ ~Background /\ ~Add /\ ~Wait /\ ~Exit /\ ~Nothing
    BY DEF Foreground, Background, Add, Wait, Exit, Nothing
  <2>3. (\A j : ~Fg(j)) /\ (\A s, to : ~SetTrap(s, to)) /\ ~WaitedAll
    BY DEF Fg, SetTrap, WaitedAll
  <2>4. ~Type /\ ~Skip /\ ~Break /\ ~Eof /\ (\A text : ~Enter(text))
    BY DEF Type, Skip, Break, Eof, Enter
  <2>5. (\A s : ~Signal(s)) /\ ~Sigchld /\ (\A q : ~End(q))
    BY DEF Signal, Sigchld, Restarts, End
  <2> QED
    BY <2>1, <2>2, <2>3, <2>4, <2>5 DEF Next, Step, User
<1> QED
  BY <1>2 DEF Waited, ProcsOK

\* job.c, msh_job_fg: where signal() asks for SA_RESTART, fg waits for its job
\* whatever other children end meanwhile.
THEOREM FgWaitsWithRestart == ASSUME Libcs = {TRUE} PROVE Spec => FgWaits
<1> DEFINE Inv == JobsInv /\ WaitsInv
<1>1. Init => Inv
  BY InitJobs, InitWaits
<1>2. Inv /\ [Next]_vars => Inv'
  BY NextJobs, NextWaits
<1>3. Inv /\ [Next]_vars => [line = "fg" => GivesUpOnlyTheEnded]_vars
  BY OnlyTheEnded DEF JobsInv
<1> HIDE DEF Inv
<1> QED
  BY <1>1, <1>2, <1>3, PTL DEF Spec, FgWaits
=============================================================================
