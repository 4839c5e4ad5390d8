--------------------------- MODULE CommandoProofs ---------------------------
(***************************************************************************)
(* The shell for tables, pipes and buffers of any size, any number of      *)
(* processes, any input and any output.                                    *)
(*                                                                         *)
(* Its table of jobs (TableInv): at each prompt every process that had     *)
(* exited is noticed, and a job's result, once there, never changes, also  *)
(* when a full table makes the shell start a job twice.  What is stored    *)
(* (Stored, Pieces): the whole output of the process, and of a text byte   *)
(* for byte what was written.  Its input (Shared, NoneLost): no line is    *)
(* lost, and none is started twice that was not copied by fork.            *)
(* Last, the types of all of it (JobTypes, OutTypes, InputTypes): no more  *)
(* is counted than was written, a buffer stays filled as far as it goes,   *)
(* and the shells that failed commands leave at most double with a line.   *)
(***************************************************************************)
EXTENDS MCCommando, Induction, SequenceTheorems, FiniteSetTheorems

Row == [pid : Procs \cup {NoProc}, pipe : Procs \cup {NoProc},
        finished : BOOLEAN, status : Procs \cup {NoProc, Unknown},
        output_size : Int]

(* The types as far as the argument needs them.                            *)
Rows ==
  /\ jobs \in Seq(Row)
  /\ pc \in {"prompt", "look", "first", "more", "ended"}
  /\ mode \in {"poll", "pause", "one", "all"}
  /\ at \in Nat \ {0} /\ got \in Int /\ cap \in Int
  /\ held \in [Procs -> Int] /\ forked \in 0 .. MaxProcs
  /\ proc \in [Procs -> {"none", "reaped"} \cup Alive \cup Ended]
  /\ news \in [Procs -> {"none", "stop", "cont"}] /\ due \subseteq Procs

(* Only a job that has finished has output, and the one that is being read *)
(* has none yet.                                                           *)
Results ==
  /\ \A j \in 1 .. Len(jobs) :
       jobs[j].output_size # NoOutput => jobs[j].finished
  /\ pc \in {"first", "more"} =>
       /\ at <= Len(jobs) /\ jobs[at].finished
       /\ jobs[at].output_size = NoOutput

(* No two jobs have the same process, for each fork is a new one.          *)
Numbers ==
  /\ \A p \in Procs : p > forked => proc[p] = "none"
  /\ \A j \in 1 .. Len(jobs) : jobs[j].pid <= forked
  /\ \A i, j \in 1 .. Len(jobs) :
       jobs[i].pid = jobs[j].pid /\ jobs[i].pid # NoProc => i = j

(* The job of a process that had exited when the pass began, and that is   *)
(* not finished yet, lies ahead, and nobody else has waited for it.        *)
Ahead(j) ==
  pc \in {"look", "first", "more"} /\ j >= at /\ proc[jobs[j].pid] = "exited"
Noticed ==
  ~Forkless => \A j \in 1 .. Len(jobs) :
                 jobs[j].pid \in due /\ ~jobs[j].finished => Ahead(j)

TableInv == Rows /\ Results /\ Numbers /\ Noticed

LEMMA NoticedIsEnough == TableInv => ExitsNoticed
  BY DEF TableInv, Noticed, Ahead, ExitsNoticed

LEMMA TableInvStarts == Init => TableInv
<1> SUFFICES ASSUME Init PROVE TableInv
  OBVIOUS
<1>1. jobs = <<>> /\ Len(jobs) = 0
  BY DEF Init
<1>2. Rows
  BY <1>1, CommandoAssumption, EmptySeq DEF Init, Rows
<1>3. Results /\ Numbers /\ Noticed
  BY <1>1 DEF Init, Results, Numbers, Noticed
<1> QED
  BY <1>2, <1>3 DEF TableInv

-----------------------------------------------------------------------------
(* The table as a sequence of rows.                                        *)
LEMMA RowsOf ==
  ASSUME Rows
  PROVE  /\ Len(jobs) \in Nat
         /\ \A j \in 1 .. Len(jobs) : jobs[j] \in Row
  BY LenProperties, ElementOfSeq DEF Rows

(* A pass that begins: whoever has exited by now is to be noticed by it.   *)
LEMMA PassNotices ==
  ASSUME Rows, NEW m \in {"poll", "pause", "one", "all"}, NEW n \in Nat \ {0},
         Pass(m, n), m = "poll" => n = 1, UNCHANGED jobs,
         ~Forkless => \A p \in Procs : proc[p] = "exited" => proc'[p] = "exited"
  PROVE  Noticed' /\ Results' = (\A j \in 1 .. Len(jobs) :
                       jobs[j].output_size # NoOutput => jobs[j].finished)
<1>1. Noticed'
  <2> SUFFICES ASSUME ~Forkless', NEW j \in 1 .. Len(jobs),
                      jobs[j].pid \in due'
               PROVE  Ahead(j)'
    BY DEF Noticed
  <2>1. m = "poll" /\ n = 1 /\ proc[jobs[j].pid] = "exited" /\ jobs[j].pid \in Procs
    BY DEF Pass
  <2>2. ~Forkless
    BY DEF Forkless
  <2> QED
    BY <2>1, <2>2 DEF Pass, Ahead
<1>2. Results' = (\A j \in 1 .. Len(jobs) :
                    jobs[j].output_size # NoOutput => jobs[j].finished)
  BY DEF Results, Pass
<1> QED
  BY <1>1, <1>2

(* The pass goes on, or a new one begins, when nothing is left to notice   *)
(* of the job it was at.                                                   *)
LEMMA NextNotices ==
  ASSUME Rows, Rows', Noticed, NextJob, pc \in {"look", "first", "more"},
         Len(jobs') = Len(jobs),
         \A j \in 1 .. Len(jobs) : /\ jobs'[j].pid = jobs[j].pid
                                   /\ jobs[j].finished => jobs'[j].finished,
         ~Forkless => \A p \in Procs : proc[p] = "exited" => proc'[p] = "exited",
         ~Forkless /\ at <= Len(jobs) /\ jobs[at].pid \in due => jobs'[at].finished
  PROVE  Noticed'
<1> SUFFICES ASSUME ~Forkless', NEW j \in 1 .. Len(jobs),
                    jobs'[j].pid \in due', ~jobs'[j].finished
             PROVE  Ahead(j)'
  BY DEF Noticed
<1>1. ~Forkless /\ jobs[j].pid = jobs'[j].pid /\ ~jobs[j].finished
  BY DEF Forkless, Rows
<1>2. CASE mode = "one"
  BY <1>1, <1>2 DEF NextJob, Pass, Ahead, Rows
<1>3. CASE mode # "one"
  <2>1. at' = at + 1 /\ pc' = "look" /\ due' = due
    BY <1>3 DEF NextJob
  <2>2. j >= at /\ proc[jobs[j].pid] = "exited" /\ jobs[j].pid \in Procs
    BY <1>1, <2>1 DEF Noticed, Ahead, Rows
  <2>3. j # at
    BY <1>1, <2>1
  <2>4. proc'[jobs[j].pid] = "exited"
    BY <1>1, <2>2
  <2>5. j >= at' /\ j \in Nat /\ at \in Nat
    BY <2>1, <2>2, <2>3 DEF Rows
  <2> QED
    BY <1>1, <2>1, <2>4, <2>5 DEF Ahead
<1> QED
  BY <1>2, <1>3

(* Where a pass goes.                                                      *)
LEMMA NextTypes ==
  ASSUME Rows, NextJob
  PROVE  pc' = "look" /\ at' \in Nat \ {0} /\ due' \subseteq Procs
         /\ mode' \in {"poll", "pause", "one", "all"}
  BY DEF Rows, NextJob, Pass

-----------------------------------------------------------------------------
(* A line of input that starts no job.                                     *)
QuietLine ==
  Report \/ OutputForNoJob \/ Pause \/ WaitFor \/ WaitAll \/ Exit

LEMMA QuietLineKeeps ==
  ASSUME TableInv, QuietLine
  PROVE  TableInv'
<1>1. UNCHANGED <<jobs, procVars, held, cap, got>>
  BY DEF QuietLine, Report, OutputForNoJob, Pause, WaitFor, WaitAll, Exit
<1>2. CASE pc' = "ended" /\ UNCHANGED <<mode, at, due>>
  <2>1. pc = "prompt"
    BY DEF QuietLine, Report, OutputForNoJob, Pause, WaitFor, WaitAll, Exit
  <2>2. Rows' /\ Results' /\ Numbers'
    BY <1>1, <1>2 DEF TableInv, Rows, Results, Numbers, procVars
  <2>3. Noticed'
    BY <1>1, <1>2, <2>1 DEF TableInv, Noticed, Ahead, Forkless, procVars
  <2> QED
    BY <2>2, <2>3 DEF TableInv
<1>3. ASSUME NEW m \in {"poll", "pause", "one", "all"}, NEW n \in Nat \ {0},
             Pass(m, n), m = "poll" => n = 1
      PROVE  TableInv'
  <2>1. Rows' /\ Numbers'
    BY <1>1, <1>3 DEF TableInv, Rows, Numbers, procVars, Pass
  <2>2. \A p \in Procs : proc[p] = "exited" => proc'[p] = "exited"
    BY <1>1 DEF procVars
  <2>3. Noticed' /\ Results'
    BY <1>1, <1>3, <2>2, PassNotices DEF TableInv, Results
  <2> QED
    BY <2>1, <2>3 DEF TableInv
<1>4. ASSUME NEW n \in 1 .. Len(jobs), Pass("one", n)
      PROVE  TableInv'
  BY <1>3, <1>4, RowsOf DEF TableInv
<1> QED
  BY <1>2, <1>3, <1>4
     DEF QuietLine, Report, OutputForNoJob, Pause, WaitFor, WaitAll, Exit

(* The table with room for the new job, or as it is when it is full.       *)
LEMMA AddedRows ==
  ASSUME Rows
  PROVE  /\ Added \in Seq(Row) /\ Last \in Nat \ {0} /\ Len(jobs) \in Nat
         /\ Len(jobs) \in {Last, Last - 1}
         /\ \A j \in 1 .. Len(jobs) : Added[j] = jobs[j]
         /\ Len(jobs) # Last => Added[Last] = NewJob
<1>1. Len(jobs) \in Nat
  BY RowsOf
<1>2. CASE TableFull
  BY <1>1, <1>2, CommandoAssumption DEF Rows, Added, Last, TableFull
<1>3. CASE ~TableFull
  <2>1. NewJob \in Row
    BY DEF NewJob, Row, NoProc, NoOutput
  <2> QED
    BY <1>1, <1>3, <2>1, AppendProperties DEF Rows, Added, Last
<1> QED
  BY <1>2, <1>3

(* What cmd_start makes of it.                                             *)
LEMMA RunRows ==
  ASSUME Rows, NEW p \in Procs \cup {NoProc}, Run(p)
  PROVE  /\ jobs' \in Seq(Row) /\ Len(jobs') = Last
         /\ jobs'[Last].pid = p /\ jobs'[Last].pipe = p
         /\ \A j \in 1 .. Last : j # Last => jobs'[j] = jobs[j] /\ j \in 1 .. Len(jobs)
         /\ \A j \in 1 .. Len(jobs) :
              /\ jobs'[j].finished = jobs[j].finished
              /\ jobs'[j].output_size = jobs[j].output_size
              /\ jobs'[j].status = jobs[j].status
         /\ Len(jobs) # Last =>
              jobs'[Last].output_size = NoOutput /\ jobs'[Last].status = NoProc
<1> DEFINE row == [Added[Last] EXCEPT !.pid = p, !.pipe = p]
<1>1. Added[Last] \in Row /\ Last \in 1 .. Len(Added) /\ Len(Added) = Last
  BY AddedRows, ElementOfSeq DEF Last
<1>2. row \in Row /\ row.pid = p /\ row.pipe = p /\ row.finished = Added[Last].finished
      /\ row.output_size = Added[Last].output_size
      /\ row.status = Added[Last].status
  BY <1>1 DEF Row
<1>3. jobs' = [Added EXCEPT ![Last] = row]
  BY <1>1 DEF Run, Row
<1>4. jobs' \in Seq(Row) /\ Len(jobs') = Last
      /\ \A j \in 1 .. Last : jobs'[j] = IF j = Last THEN row ELSE Added[j]
  BY <1>1, <1>2, <1>3, AddedRows, ExceptSeq
<1>5. /\ Last \in Nat \ {0} /\ Len(jobs) \in Nat /\ Len(jobs) \in {Last, Last - 1}
      /\ \A j \in 1 .. Len(jobs) : j \in 1 .. Last /\ Added[j] = jobs[j]
      /\ \A j \in 1 .. Last : j # Last => j \in 1 .. Len(jobs)
  BY AddedRows
<1> HIDE DEF row
<1>6. jobs'[Last] = row
  BY <1>4, <1>5
<1>7. \A j \in 1 .. Last : j # Last => jobs'[j] = jobs[j] /\ j \in 1 .. Len(jobs)
  BY <1>4, <1>5
<1>8. \A j \in 1 .. Len(jobs) :
        /\ jobs'[j].finished = jobs[j].finished
        /\ jobs'[j].output_size = jobs[j].output_size
        /\ jobs'[j].status = jobs[j].status
  <2> TAKE j \in 1 .. Len(jobs)
  <2>1. CASE j = Last
    BY <1>2, <1>5, <1>6, <2>1
  <2>2. CASE j # Last
    BY <1>5, <1>7, <2>2
  <2> QED
    BY <2>1, <2>2
<1>9. Len(jobs) # Last =>
        jobs'[Last].output_size = NoOutput /\ jobs'[Last].status = NoProc
  BY <1>2, <1>6, AddedRows DEF NewJob
<1> QED
  BY <1>2, <1>4, <1>6, <1>7, <1>8, <1>9

(* A command: a fork is a process that no job had before, and the pass     *)
(* that follows looks at every job.                                        *)
LEMMA RunKeeps ==
  ASSUME TableInv, RunJob \/ RunFails
  PROVE  TableInv'
<1>1. PICK p \in Procs \cup {NoProc} :
        /\ Run(p) /\ pc = "prompt"
        /\ \/ p = NoProc /\ UNCHANGED procVars
           \/ /\ forked < MaxProcs /\ forked' = forked + 1 /\ p = forked'
              /\ proc' = [proc EXCEPT ![p] = "run"] /\ UNCHANGED news
  <2>1. CASE RunJob
    <3>1. /\ Run(forked') /\ pc = "prompt" /\ forked < MaxProcs
          /\ forked' = forked + 1 /\ UNCHANGED news
          /\ proc' = [proc EXCEPT ![forked'] = "run"]
      BY <2>1 DEF RunJob
    <3>2. forked' \in Procs
      BY <3>1, CommandoAssumption DEF TableInv, Rows, Procs
    <3> QED
      BY <3>1, <3>2, Zenon
  <2>2. CASE RunFails
    BY <2>2 DEF RunFails
  <2> QED
    BY <2>1, <2>2
<1>2. Rows
  BY DEF TableInv
<1>3. /\ jobs' \in Seq(Row) /\ Len(jobs') = Last /\ jobs'[Last].pid = p
      /\ \A j \in 1 .. Last : j # Last => jobs'[j] = jobs[j] /\ j \in 1 .. Len(jobs)
      /\ \A j \in 1 .. Len(jobs) :
           /\ jobs'[j].finished = jobs[j].finished
           /\ jobs'[j].output_size = jobs[j].output_size
      /\ Len(jobs) # Last => jobs'[Last].output_size = NoOutput
      /\ Last \in Nat \ {0} /\ Len(jobs) \in {Last, Last - 1}
  BY <1>1, <1>2, RunRows, AddedRows
<1>4. /\ pc' = "look" /\ mode' = "poll" /\ at' = 1
      /\ due' = {q \in Procs : proc[q] = "exited"} /\ UNCHANGED <<cap, got, held>>
  BY <1>1 DEF Run, Pass
<1>5. Rows'
  BY <1>1, <1>2, <1>3, <1>4, CommandoAssumption DEF Rows, procVars, Procs, Alive
<1>6. Results'
  <2> SUFFICES ASSUME NEW j \in 1 .. Last, jobs'[j].output_size # NoOutput
               PROVE  jobs'[j].finished
    BY <1>3, <1>4 DEF Results
  <2>1. j \in 1 .. Len(jobs)
    BY <1>3
  <2> QED
    BY <1>3, <2>1 DEF TableInv, Results
<1>7. \A j \in 1 .. Last : j # Last => jobs'[j].pid <= forked /\ jobs'[j].pid \in Procs \cup {NoProc}
  BY <1>2, <1>3, RowsOf DEF TableInv, Numbers, Row
<1>8. Numbers'
  <2>1. ASSUME NEW q \in Procs, q > forked'
        PROVE  proc'[q] = "none"
    <3>1. CASE UNCHANGED procVars
      BY <2>1, <3>1 DEF TableInv, Numbers, procVars
    <3>2. CASE forked' = forked + 1 /\ p = forked'
               /\ proc' = [proc EXCEPT ![p] = "run"]
      <4>1. q \in Int /\ forked \in Int
        BY <1>2 DEF Rows, Procs
      <4>2. q > forked /\ q # p
        BY <2>1, <3>2, <4>1
      <4> QED
        BY <1>2, <3>2, <4>2 DEF TableInv, Numbers, Rows
    <3> QED
      BY <1>1, <3>1, <3>2
  <2>2. ASSUME NEW j \in 1 .. Last
        PROVE  jobs'[j].pid <= forked'
    <3>1. forked \in Nat /\ forked' \in {forked, forked + 1}
      BY <1>1, <1>2 DEF Rows, procVars
    <3>2. CASE j = Last
      BY <1>1, <1>3, <3>1, <3>2 DEF NoProc, procVars
    <3>3. CASE j # Last
      BY <1>7, <3>1, <3>3 DEF Procs, NoProc
    <3> QED
      BY <3>2, <3>3
  <2>3. ASSUME NEW i \in 1 .. Last, NEW j \in 1 .. Last,
               jobs'[i].pid = jobs'[j].pid, jobs'[i].pid # NoProc
        PROVE  i = j
    <3>1. CASE i # Last /\ j # Last
      BY <1>3, <2>3, <3>1 DEF TableInv, Numbers
    <3>2. CASE i = Last \/ j = Last
      BY <1>1, <1>2, <1>3, <1>7, <2>3, <3>2 DEF Rows, procVars
    <3> QED
      BY <3>1, <3>2
  <2> QED
    BY <1>3, <2>1, <2>2, <2>3 DEF Numbers
<1>9. Noticed'
  <2> SUFFICES ASSUME NEW j \in 1 .. Last, jobs'[j].pid \in due'
               PROVE  Ahead(j)'
    BY <1>3 DEF Noticed
  <2>1. proc[jobs'[j].pid] = "exited" /\ jobs'[j].pid \in Procs
    BY <1>4
  <2>2. proc'[jobs'[j].pid] = "exited"
    <3>1. ~(jobs'[j].pid > forked)
      BY <2>1 DEF TableInv, Numbers
    <3>2. jobs'[j].pid # forked + 1
      BY <1>2, <2>1, <3>1 DEF Rows, Procs
    <3> QED
      BY <1>1, <1>2, <2>1, <3>2 DEF Rows, procVars
  <2> QED
    BY <1>4, <2>2, <1>3 DEF Ahead
<1> QED
  BY <1>5, <1>6, <1>8, <1>9 DEF TableInv

-----------------------------------------------------------------------------
(* The steps of a pass that leave the table alone.                         *)
LEMMA PassKeeps ==
  ASSUME TableInv, EndPass \/ SkipFinished \/ NoAnswer
  PROVE  TableInv'
<1>1. UNCHANGED <<jobs, cap, got, held, procVars>> /\ pc = "look"
  BY DEF EndPass, SkipFinished, NoAnswer, AtJob
<1>2. Rows' /\ Results' /\ Numbers'
  <2>1. /\ pc' \in {"look", "prompt"} /\ at' \in Nat \ {0} /\ due' \subseteq Procs
        /\ mode' \in {"poll", "pause", "one", "all"}
    BY NextTypes DEF TableInv, EndPass, SkipFinished, NoAnswer, Rows, Pass
  <2> QED
    BY <1>1, <2>1 DEF TableInv, Rows, Results, Numbers, procVars
<1>3. Noticed'
  <2>1. CASE EndPass
    <3>1. CASE mode = "poll"
      <4>1. pc' = "prompt" /\ UNCHANGED due /\ at > Len(jobs)
        BY <2>1, <3>1 DEF EndPass, PassOver
      <4>2. \A j \in 1 .. Len(jobs) : ~Ahead(j)
        BY <4>1, RowsOf DEF TableInv, Ahead, Rows
      <4> QED
        BY <1>1, <4>1, <4>2 DEF TableInv, Noticed, Forkless
    <3>2. CASE mode # "poll"
      <4>1. Pass("poll", 1) /\ UNCHANGED <<jobs, proc>> /\ 1 \in Nat \ {0}
        BY <1>1, <2>1, <3>2 DEF EndPass, procVars
      <4>2. \A p \in Procs : proc[p] = "exited" => proc'[p] = "exited"
        BY <4>1
      <4> QED
        BY <4>1, <4>2, PassNotices DEF TableInv
    <3> QED
      BY <3>1, <3>2
  <2>2. CASE SkipFinished
    BY <1>1, <1>2, <2>2, NextNotices DEF TableInv, SkipFinished, Skipped, procVars
  <2>3. CASE NoAnswer
    <3>1. ASSUME ~Forkless, at <= Len(jobs), jobs[at].pid \in due
          PROVE  FALSE
      <4>1. at \in 1 .. Len(jobs) /\ ~jobs[at].finished
        BY <2>3, <3>1, RowsOf DEF TableInv, Rows, NoAnswer, Skipped
      <4>2. jobs[at].pid \in Procs /\ proc[jobs[at].pid] = "exited"
        BY <3>1, <4>1 DEF TableInv, Noticed, Ahead, Rows
      <4>3. jobs[at].pid \in Awaited /\ Answerable(jobs[at].pid)
        BY <4>2 DEF Awaited, Answerable, Ended
      <4> QED
        BY <2>3, <4>3 DEF NoAnswer
    <3>2. NextJob
      BY <2>3 DEF NoAnswer
    <3> QED
      BY <1>1, <1>2, <3>1, <3>2, NextNotices DEF TableInv, procVars
  <2> QED
    BY <2>1, <2>2, <2>3
<1> QED
  BY <1>2, <1>3 DEF TableInv

(* The job at is changed, or none; its process stays the same.             *)
SetsJob(finished, status, size) ==
  jobs' = [jobs EXCEPT ![at] = [@ EXCEPT !.finished = finished, !.status = status,
                                         !.output_size = size]]

LEMMA SetRows ==
  ASSUME Rows, at <= Len(jobs), NEW b \in BOOLEAN,
         NEW s \in Procs \cup {NoProc, Unknown}, NEW n \in Int, SetsJob(b, s, n)
  PROVE  /\ jobs' \in Seq(Row) /\ Len(jobs') = Len(jobs) /\ at \in 1 .. Len(jobs)
         /\ \A j \in 1 .. Len(jobs) :
              /\ jobs'[j].pid = jobs[j].pid /\ jobs'[j].pipe = jobs[j].pipe
              /\ j # at => jobs'[j] = jobs[j]
         /\ jobs'[at].finished = b /\ jobs'[at].status = s
         /\ jobs'[at].output_size = n
<1> DEFINE row == [jobs[at] EXCEPT !.finished = b, !.status = s, !.output_size = n]
<1>1. at \in 1 .. Len(jobs) /\ jobs[at] \in Row
  BY RowsOf DEF Rows
<1>2. /\ row \in Row /\ row.pid = jobs[at].pid /\ row.pipe = jobs[at].pipe
      /\ row.finished = b
      /\ row.status = s /\ row.output_size = n
  BY <1>1 DEF Row
<1>3. jobs' = [jobs EXCEPT ![at] = row]
  BY DEF SetsJob
<1> HIDE DEF row
<1>4. /\ jobs' \in Seq(Row) /\ Len(jobs') = Len(jobs)
      /\ \A j \in 1 .. Len(jobs) : jobs'[j] = IF j = at THEN row ELSE jobs[j]
  BY <1>1, <1>2, <1>3, ExceptSeq DEF Rows
<1> QED
  BY <1>1, <1>2, <1>4

(* cmd_update_state has found the job finished: its output comes next.     *)
LEMMA FinishKeeps ==
  ASSUME TableInv, AtJob, ~Skipped(at), NEW s \in Procs \cup {NoProc, Unknown},
         jobs' = [jobs EXCEPT ![at].finished = TRUE, ![at].status = s],
         pc' = "first", UNCHANGED <<mode, at, due, cap, got, held, forked>>,
         proc' \in [Procs -> {"none", "reaped"} \cup Alive \cup Ended],
         news' \in [Procs -> {"none", "stop", "cont"}],
         \A p \in Procs : proc[p] = "none" => proc'[p] = "none",
         ~Forkless => \A p \in Procs :
           proc[p] = "exited" /\ p # jobs[at].pid => proc'[p] = "exited"
  PROVE  TableInv' /\ jobs[at].output_size = NoOutput /\ at <= Len(jobs)
<1>1. Rows /\ at <= Len(jobs) /\ at \in 1 .. Len(jobs) /\ pc = "look"
  BY RowsOf DEF TableInv, AtJob, PassOver, Rows
<1>2. jobs[at].output_size = NoOutput /\ jobs[at] \in Row
  BY <1>1, RowsOf DEF TableInv, Results, Skipped
<1>3. SetsJob(TRUE, s, NoOutput)
  <2>1. [jobs[at] EXCEPT !.finished = TRUE, !.status = s]
          = [jobs[at] EXCEPT !.finished = TRUE, !.status = s, !.output_size = NoOutput]
    BY <1>2 DEF Row
  <2>2. jobs' = [jobs EXCEPT ![at] = [@ EXCEPT !.finished = TRUE, !.status = s]]
    BY <1>1 DEF Rows
  <2> QED
    BY <1>1, <2>1, <2>2 DEF SetsJob
<1>4. /\ jobs' \in Seq(Row) /\ Len(jobs') = Len(jobs)
      /\ \A j \in 1 .. Len(jobs) :
           jobs'[j].pid = jobs[j].pid /\ (j # at => jobs'[j] = jobs[j])
      /\ jobs'[at].finished = TRUE /\ jobs'[at].output_size = NoOutput
  <2>1. NoOutput \in Int /\ TRUE \in BOOLEAN
    BY DEF NoOutput
  <2> QED
    BY <1>1, <1>3, <2>1, SetRows
<1>5. Rows'
  BY <1>1, <1>4 DEF Rows
<1>6. Results'
  BY <1>1, <1>4 DEF TableInv, Results
<1>7. Numbers'
  BY <1>1, <1>4 DEF TableInv, Numbers
<1>8. Noticed'
  <2> SUFFICES ASSUME ~Forkless', NEW j \in 1 .. Len(jobs),
                      jobs'[j].pid \in due, ~jobs'[j].finished
               PROVE  Ahead(j)'
    BY <1>4 DEF Noticed
  <2>1. ~Forkless /\ j # at /\ jobs'[j] = jobs[j]
    BY <1>4 DEF Forkless
  <2>2. Ahead(j)
    BY <2>1 DEF TableInv, Noticed
  <2>3. jobs[j].pid # jobs[at].pid /\ jobs[j].pid \in Procs
    BY <1>1, <2>1 DEF TableInv, Numbers, Forkless, Rows
  <2> QED
    BY <2>1, <2>2, <2>3 DEF Ahead
<1> QED
  BY <1>1, <1>2, <1>5, <1>6, <1>7, <1>8 DEF TableInv

(* waitpid has answered for a process.  Of a job that was forked it can    *)
(* only be the job's own, and its exit is not passed over.                 *)
LEMMA WaitKeeps ==
  ASSUME TableInv, NEW p \in Procs, WaitAnswers(p)
  PROVE  /\ TableInv'
         /\ UNCHANGED jobs \/ (jobs[at].output_size = NoOutput /\ at <= Len(jobs)
              /\ jobs' = [jobs EXCEPT ![at].finished = TRUE, ![at].status = p])
<1>1. /\ Rows /\ AtJob /\ ~Skipped(at) /\ at \in 1 .. Len(jobs) /\ pc = "look"
      /\ jobs[at].pid \in {p, NoProc}
      /\ proc' = [proc EXCEPT ![p] = IF @ \in Ended THEN "reaped" ELSE @]
      /\ news' = [news EXCEPT ![p] = "none"] /\ UNCHANGED <<cap, got, held, forked>>
  BY RowsOf DEF TableInv, WaitAnswers, AtJob, PassOver, Awaited, Rows
<1>2. /\ proc' \in [Procs -> {"none", "reaped"} \cup Alive \cup Ended]
      /\ news' \in [Procs -> {"none", "stop", "cont"}]
      /\ \A q \in Procs : proc[q] = "none" => proc'[q] = "none"
      /\ \A q \in Procs : q # p => proc'[q] = proc[q]
  BY <1>1 DEF Rows, Ended
<1>3. ~Forkless => jobs[at].pid = p
  BY <1>1 DEF Forkless
<1>4. CASE p = jobs[at].pid /\ proc[p] = "exited"
  <2>1. jobs' = [jobs EXCEPT ![at].finished = TRUE, ![at].status = p]
        /\ pc' = "first" /\ UNCHANGED <<mode, at, due>>
    BY <1>4 DEF WaitAnswers
  <2>2. ~Forkless => \A q \in Procs :
          proc[q] = "exited" /\ q # jobs[at].pid => proc'[q] = "exited"
    BY <1>2, <1>3
  <2>3. p \in Procs \cup {NoProc, Unknown}
    OBVIOUS
  <2>4. UNCHANGED <<mode, at, due, cap, got, held, forked>>
    BY <1>1, <2>1
  <2>5. TableInv' /\ jobs[at].output_size = NoOutput /\ at <= Len(jobs)
    BY <1>1, <1>2, <2>1, <2>2, <2>3, <2>4, FinishKeeps
  <2> QED
    BY <2>1, <2>5
<1>5. CASE ~(p = jobs[at].pid /\ proc[p] = "exited")
  <2>1. NextJob /\ UNCHANGED jobs
    BY <1>5 DEF WaitAnswers
  <2>2. Rows' /\ pc' = "look"
    BY <1>1, <1>2, <2>1, NextTypes DEF Rows
  <2>3. Results' /\ Numbers'
    BY <1>1, <1>2, <2>1, <2>2 DEF TableInv, Results, Numbers
  <2>4. ~Forkless => proc[p] # "exited"
    BY <1>3, <1>5
  <2>5. ~Forkless => \A q \in Procs : proc[q] = "exited" => proc'[q] = "exited"
    BY <1>2, <2>4
  <2>6. ~Forkless /\ jobs[at].pid \in due => jobs'[at].finished
    <3> SUFFICES ASSUME ~Forkless, jobs[at].pid \in due, ~jobs[at].finished
                 PROVE  FALSE
      BY <2>1
    <3>1. proc[jobs[at].pid] = "exited"
      BY <1>1 DEF TableInv, Noticed, Ahead
    <3> QED
      BY <1>3, <2>4, <3>1
  <2>7. Noticed'
    BY <1>1, <2>1, <2>2, <2>5, <2>6, NextNotices DEF TableInv
  <2> QED
    BY <2>1, <2>2, <2>3, <2>7 DEF TableInv
<1> QED
  BY <1>4, <1>5

(* There is nobody to wait for, which the job of a process that had        *)
(* exited, and that nobody has waited for, does not meet.                  *)
LEMMA NoChildKeeps ==
  ASSUME TableInv, NoChild
  PROVE  /\ TableInv'
         /\ UNCHANGED jobs \/ (jobs[at].output_size = NoOutput /\ at <= Len(jobs)
              /\ jobs' = [jobs EXCEPT ![at].finished = TRUE, ![at].status = Unknown])
<1>1. /\ Rows /\ AtJob /\ ~Skipped(at) /\ at \in 1 .. Len(jobs) /\ pc = "look"
      /\ Awaited = {} /\ UNCHANGED <<cap, got, held, forked, proc, news>>
  BY RowsOf DEF TableInv, NoChild, AtJob, PassOver, Rows, procVars
<1>2. CASE NextJob /\ UNCHANGED jobs
  <2>1. Rows' /\ pc' = "look"
    BY <1>1, <1>2, NextTypes DEF Rows
  <2>2. Results' /\ Numbers'
    BY <1>1, <1>2, <2>1 DEF TableInv, Results, Numbers
  <2>3. ~Forkless /\ jobs[at].pid \in due => jobs'[at].finished
    <3> SUFFICES ASSUME ~Forkless, jobs[at].pid \in due, ~jobs[at].finished
                 PROVE  FALSE
      BY <1>2
    <3>1. jobs[at].pid \in Procs /\ proc[jobs[at].pid] = "exited"
      BY <1>1 DEF TableInv, Noticed, Ahead, Rows
    <3> QED
      BY <1>1, <3>1 DEF Awaited, Ended
  <2>4. \A q \in Procs : proc[q] = "exited" => proc'[q] = "exited"
    BY <1>1
  <2>5. Noticed'
    BY <1>1, <1>2, <2>1, <2>3, <2>4, NextNotices DEF TableInv
  <2> QED
    BY <1>2, <2>1, <2>2, <2>5 DEF TableInv
<1>3. CASE ~(NextJob /\ UNCHANGED jobs)
  <2>1. jobs' = [jobs EXCEPT ![at].finished = TRUE, ![at].status = Unknown]
        /\ pc' = "first" /\ UNCHANGED <<mode, at, due>>
    BY <1>3 DEF NoChild
  <2>2. /\ proc' \in [Procs -> {"none", "reaped"} \cup Alive \cup Ended]
        /\ news' \in [Procs -> {"none", "stop", "cont"}]
        /\ \A q \in Procs : proc[q] = "none" => proc'[q] = "none"
        /\ ~Forkless => \A q \in Procs :
             proc[q] = "exited" /\ q # jobs[at].pid => proc'[q] = "exited"
    BY <1>1 DEF Rows
  <2>3. Unknown \in Procs \cup {NoProc, Unknown}
    OBVIOUS
  <2>4. UNCHANGED <<mode, at, due, cap, got, held, forked>>
    BY <1>1, <2>1
  <2>5. TableInv' /\ jobs[at].output_size = NoOutput /\ at <= Len(jobs)
    BY <1>1, <2>1, <2>2, <2>3, <2>4, FinishKeeps
  <2> QED
    BY <2>1, <2>5
<1> QED
  BY <1>2, <1>3

-----------------------------------------------------------------------------
(* read_all is over: the job that had no output yet gets it.               *)
LEMMA FetchedKeeps ==
  ASSUME TableInv, pc \in {"first", "more"}, NEW n \in Int, Fetched(n),
         held' \in [Procs -> Int], UNCHANGED procVars
  PROVE  /\ TableInv' /\ at <= Len(jobs) /\ jobs[at].output_size = NoOutput
         /\ jobs' = [jobs EXCEPT ![at].output_size = n]
<1>1. /\ Rows /\ at \in 1 .. Len(jobs) /\ jobs[at].finished /\ jobs[at] \in Row
      /\ jobs[at].output_size = NoOutput
  BY RowsOf DEF TableInv, Results, Rows
<1>2. jobs' = [jobs EXCEPT ![at].output_size = n] /\ NextJob /\ cap' = 0 /\ got' = 0
  BY DEF Fetched
<1>3. SetsJob(TRUE, jobs[at].status, n)
  <2>1. [jobs[at] EXCEPT !.output_size = n]
          = [jobs[at] EXCEPT !.finished = TRUE, !.status = jobs[at].status,
                             !.output_size = n]
    BY <1>1 DEF Row
  <2>2. jobs' = [jobs EXCEPT ![at] = [@ EXCEPT !.output_size = n]]
    BY <1>1, <1>2 DEF Rows
  <2> QED
    BY <1>1, <2>1, <2>2 DEF SetsJob
<1>4. /\ jobs' \in Seq(Row) /\ Len(jobs') = Len(jobs)
      /\ \A j \in 1 .. Len(jobs) :
           jobs'[j].pid = jobs[j].pid /\ (j # at => jobs'[j] = jobs[j])
      /\ jobs'[at].finished = TRUE
  <2>1. jobs[at].status \in Procs \cup {NoProc, Unknown} /\ TRUE \in BOOLEAN
        /\ at <= Len(jobs)
    BY <1>1 DEF Row
  <2> QED
    BY <1>1, <1>3, <2>1, SetRows
<1>5. pc' = "look" /\ at' \in Nat \ {0} /\ due' \subseteq Procs
      /\ mode' \in {"poll", "pause", "one", "all"}
  BY <1>1, <1>2, NextTypes
<1>6. Rows'
  BY <1>1, <1>2, <1>4, <1>5 DEF Rows, procVars
<1>7. Results'
  BY <1>1, <1>4, <1>5 DEF TableInv, Results
<1>8. Numbers'
  BY <1>1, <1>4 DEF TableInv, Numbers, procVars
<1>9. Noticed'
  <2>1. \A q \in Procs : proc[q] = "exited" => proc'[q] = "exited"
    BY DEF procVars
  <2>2. \A j \in 1 .. Len(jobs) : /\ jobs'[j].pid = jobs[j].pid
                                  /\ jobs[j].finished => jobs'[j].finished
    BY <1>4
  <2> QED
    BY <1>1, <1>2, <1>4, <1>6, <2>1, <2>2, NextNotices DEF TableInv
<1> QED
  BY <1>1, <1>2, <1>6, <1>7, <1>8, <1>9 DEF TableInv

(* How much a read takes.                                                  *)
LEMMA TakeTypes ==
  ASSUME Rows, at <= Len(jobs), NEW b \in Int
  PROVE  /\ Least(Holds(Pipe), b) \in Int
         /\ \A n \in Int : Take(n) => held' \in [Procs -> Int]
<1>1. Pipe \in Procs \cup {NoProc}
  BY RowsOf DEF Rows, Pipe, Row
<1> QED
  BY <1>1 DEF Rows, Holds, Least, Take

LEMMA ReadKeeps ==
  ASSUME TableInv, FirstRead \/ MoreReads
  PROVE  /\ TableInv'
         /\ UNCHANGED jobs \/ (jobs[at].output_size = NoOutput /\ at <= Len(jobs)
              /\ \E n \in Int : jobs' = [jobs EXCEPT ![at].output_size = n])
<1>1. Rows /\ pc \in {"first", "more"} /\ at <= Len(jobs) /\ UNCHANGED procVars
  BY DEF TableInv, Results, FirstRead, MoreReads
<1>2. BufSize \in Int /\ cap \in Int /\ got \in Int
  BY <1>1, CommandoAssumption DEF Rows
<1>3. ASSUME NEW n \in Int, Fetched(n), held' \in [Procs -> Int]
      PROVE  /\ TableInv'
             /\ jobs[at].output_size = NoOutput /\ at <= Len(jobs)
             /\ \E m \in Int : jobs' = [jobs EXCEPT ![at].output_size = m]
  BY <1>1, <1>3, FetchedKeeps
<1>4. ASSUME UNCHANGED <<jobs, mode, at, due>>, pc' = "more", got' \in Int,
             cap' \in Int, held' \in [Procs -> Int]
      PROVE  TableInv'
  <2>1. Rows' /\ Results' /\ Numbers'
    BY <1>1, <1>4 DEF TableInv, Rows, Results, Numbers, procVars
  <2>2. Noticed'
    BY <1>1, <1>4 DEF TableInv, Noticed, Ahead, Forkless, procVars
  <2> QED
    BY <2>1, <2>2 DEF TableInv
<1>5. CASE FirstRead
  <2> DEFINE n == Least(Holds(Pipe), BufSize)
  <2>1. n \in Int /\ held' \in [Procs -> Int]
    BY <1>1, <1>2, <1>5, TakeTypes DEF FirstRead
  <2>2. Fetched(n) \/ (got' = n /\ cap' = BufSize /\ pc' = "more"
                       /\ UNCHANGED <<jobs, mode, at, due>>)
    BY <1>5 DEF FirstRead
  <2> QED
    BY <1>2, <1>3, <1>4, <2>1, <2>2
<1>6. CASE MoreReads
  <2> DEFINE n == Least(Holds(Pipe), cap)
  <2>1. n \in Int /\ held' \in [Procs -> Int] /\ pc = "more"
    BY <1>1, <1>2, <1>6, TakeTypes DEF MoreReads
  <2>2. Fetched(got) \/ (got' = got + n /\ cap' = 2 * cap
                         /\ UNCHANGED <<jobs, pc, mode, at, due>>)
    BY <1>6 DEF MoreReads, DoubleCap
  <2> HIDE DEF n
  <2> QED
    BY <1>2, <1>3, <1>4, <2>1, <2>2
<1> QED
  BY <1>5, <1>6

(* The processes never bring back one that has exited, nor start one.      *)
LEMMA ProcessKeeps ==
  ASSUME TableInv, NEW p \in Procs, Goes(p) \/ Outside(p)
  PROVE  TableInv'
<1>1. UNCHANGED <<jobs, pc, mode, at, due, got, cap, forked>>
  BY DEF Goes, Outside, Write, DescendantEnds, ProcessExits, Spawn, Stop,
     Continue, KillProcess, shellVars
<1>2. /\ \/ UNCHANGED proc
         \/ \E state \in Alive \cup Ended :
              proc[p] \in Alive /\ proc' = [proc EXCEPT ![p] = state]
      /\ UNCHANGED news \/ \E n \in {"none", "stop", "cont"} :
                             news' = [news EXCEPT ![p] = n]
      /\ UNCHANGED held \/ held' = [held EXCEPT ![p] = @ + 1]
  BY DEF Goes, Outside, Write, DescendantEnds, ProcessExits, Spawn, Stop,
     Continue, KillProcess, Alive, Ended
<1>3. Rows'
  <2>1. proc' \in [Procs -> {"none", "reaped"} \cup Alive \cup Ended]
    BY <1>2 DEF TableInv, Rows
  <2>2. news' \in [Procs -> {"none", "stop", "cont"}]
    BY <1>2 DEF TableInv, Rows
  <2>3. held' \in [Procs -> Int]
    BY <1>2 DEF TableInv, Rows
  <2> QED
    BY <1>1, <2>1, <2>2, <2>3 DEF TableInv, Rows
<1>4. /\ \A q \in Procs : proc[q] = "none" => proc'[q] = "none"
      /\ \A q \in Procs : proc[q] = "exited" => proc'[q] = "exited"
  BY <1>2 DEF TableInv, Rows, Alive
<1>5. Results' /\ Numbers'
  BY <1>1, <1>4 DEF TableInv, Results, Numbers
<1>6. Noticed'
  BY <1>1, <1>4 DEF TableInv, Noticed, Ahead, Forkless, Rows
<1> QED
  BY <1>3, <1>5, <1>6 DEF TableInv

-----------------------------------------------------------------------------
LEMMA TableInvKept ==
  ASSUME TableInv, [Next]_vars
  PROVE  TableInv'
<1>1. CASE UserLine
  BY <1>1, QuietLineKeeps, RunKeeps DEF UserLine, QuietLine
<1>2. CASE Shell
  BY <1>2, PassKeeps, WaitKeeps, NoChildKeeps, ReadKeeps DEF Shell
<1>3. ASSUME NEW p \in Procs, Goes(p) \/ Outside(p)
      PROVE  TableInv'
  BY <1>3, ProcessKeeps
<1>4. CASE UNCHANGED vars
  BY <1>4 DEF TableInv, Rows, Results, Numbers, Noticed, Ahead, Forkless, vars,
     shellVars, procVars
<1> QED
  BY <1>1, <1>2, <1>3, <1>4 DEF Next

(* At the prompt no exit from before the last pass is overlooked, unless a *)
(* job could not be forked (cmdctl_update_state, cmd_update_state).        *)
THEOREM ExitsAreNoticed == Spec => []ExitsNoticed
<1>1. Spec => []TableInv
  BY TableInvStarts, TableInvKept, PTL DEF Spec
<1> QED
  BY <1>1, NoticedIsEnough, PTL

(* What a step changes of the rows that have output: nothing.              *)
LEMMA ResultsKept ==
  ASSUME TableInv, [Next]_vars
  PROVE  \A j \in 1 .. Len(jobs) : jobs[j].output_size # NoOutput =>
           /\ jobs'[j].output_size = jobs[j].output_size
           /\ jobs'[j].status = jobs[j].status
<1>1. CASE UNCHANGED jobs
  BY <1>1
<1>2. ASSUME NEW p \in Procs \cup {NoProc}, Run(p)
      PROVE  \A j \in 1 .. Len(jobs) : /\ jobs'[j].output_size = jobs[j].output_size
                                       /\ jobs'[j].status = jobs[j].status
  BY <1>2, RunRows DEF TableInv
<1>3. CASE RunJob \/ RunFails
  <2>1. \E p \in Procs \cup {NoProc} : Run(p)
    <3>1. CASE RunJob
      <4>1. Run(forked') /\ forked' \in Procs
        BY <3>1, CommandoAssumption DEF RunJob, TableInv, Rows, Procs
      <4> QED
        BY <4>1
    <3>2. CASE RunFails
      BY <3>2 DEF RunFails
    <3> QED
      BY <1>3, <3>1, <3>2
  <2> QED
    BY <1>2, <2>1
<1>4. ASSUME at <= Len(jobs), jobs[at].output_size = NoOutput, NEW row,
             jobs' = [jobs EXCEPT ![at] = row]
      PROVE  \A j \in 1 .. Len(jobs) : j # at => jobs'[j] = jobs[j]
  BY <1>4, RowsOf DEF TableInv, Rows
<1>5. CASE Shell
  BY <1>1, <1>4, <1>5, WaitKeeps, NoChildKeeps, ReadKeeps
     DEF Shell, EndPass, SkipFinished, NoAnswer
<1>6. CASE QuietLine \/ UNCHANGED vars \/ \E p \in Procs : Goes(p) \/ Outside(p)
  <2>1. UNCHANGED jobs
    BY <1>6 DEF QuietLine, Report, OutputForNoJob, Pause, WaitFor, WaitAll, Exit,
       Goes, Outside, Write, DescendantEnds, ProcessExits, Spawn, Stop, Continue,
       KillProcess, shellVars, vars
  <2> QED
    BY <1>1, <2>1
<1> QED
  BY <1>3, <1>5, <1>6 DEF Next, UserLine, QuietLine

(* A result stays, also when cmdctl_add returns without adding and         *)
(* cmd_start goes on with the last job of the full table.                  *)
THEOREM ResultsStay == Spec => ResultStays
<1>1. Spec => []TableInv
  BY TableInvStarts, TableInvKept, PTL DEF Spec
<1>2. TableInv /\ [Next]_vars =>
        [\A j \in 1 .. Len(jobs) : jobs[j].output_size # NoOutput =>
           /\ jobs'[j].output_size = jobs[j].output_size
           /\ jobs'[j].status = jobs[j].status]_vars
  BY ResultsKept
<1> QED
  BY <1>1, <1>2, PTL DEF Spec, ResultStays

-----------------------------------------------------------------------------
(* The pipe of a job that has not finished still holds what was in it when *)
(* its process exited, since nobody else reads from it; who has a status   *)
(* was waited for.                                                         *)
Units ==
  /\ held \in [Procs -> Nat] /\ atEnd \in [Procs -> Nat]
  /\ \A p \in Procs : p > forked => atEnd[p] = 0

Piped ==
  \A j \in 1 .. Len(jobs) :
    /\ jobs[j].pipe = jobs[j].pid
    /\ jobs[j].status \in Procs => jobs[j].finished /\ proc[jobs[j].status] = "reaped"
    /\ jobs[j].pid \in Procs /\ ~jobs[j].finished => held[jobs[j].pid] >= atEnd[jobs[j].pid]

(* What read_all has and what it still finds.                              *)
Owes(n) ==
  jobs[at].status \in Procs =>
    jobs[at].status = jobs[at].pid /\ n + held[jobs[at].pid] >= atEnd[jobs[at].pid]
Reading ==
  /\ pc = "first" => Owes(0)
  /\ pc = "more" => /\ cap \in Nat \ {0} /\ got \in Nat /\ got <= cap
                    /\ Owes(got)

Stored == Units /\ Piped /\ Reading /\ OutputWhole

LEMMA StoredStarts == Init => Stored
<1> SUFFICES ASSUME Init PROVE Stored
  OBVIOUS
<1>1. jobs = <<>> /\ Len(jobs) = 0
  BY DEF Init
<1> QED
  BY <1>1 DEF Init, Stored, Units, Piped, Reading, OutputWhole

LEMMA StoredIsEnough == Stored => OutputWhole /\ BufferHolds
  BY DEF Stored, Reading, BufferHolds

(* A step of the shell that neither reads nor changes a job.               *)
LEMMA StoredStays ==
  ASSUME TableInv, Stored, UNCHANGED <<jobs, held, atEnd, forked>>, pc' \notin {"first", "more"},
         \A p \in Procs : proc[p] = "reaped" => proc'[p] = "reaped"
  PROVE  Stored'
<1>1. Units' /\ OutputWhole'
  BY DEF Stored, Units, OutputWhole
<1>2. Piped'
  BY DEF Stored, Piped
<1> QED
  BY <1>1, <1>2 DEF Stored, Reading

(* A command: the job that is started reads from the pipe of a process     *)
(* that has not been there before.                                         *)
LEMMA RunStores ==
  ASSUME TableInv, Stored, RunJob \/ RunFails
  PROVE  Stored'
<1>1. PICK p \in Procs \cup {NoProc} :
        /\ Run(p) /\ pc = "prompt" /\ UNCHANGED atEnd
        /\ \/ p = NoProc /\ UNCHANGED <<forked, proc>>
           \/ /\ forked < MaxProcs /\ forked' = forked + 1 /\ p = forked'
              /\ proc' = [proc EXCEPT ![p] = "run"]
  <2>1. CASE RunJob
    <3>1. /\ Run(forked') /\ pc = "prompt" /\ forked < MaxProcs
          /\ forked' = forked + 1 /\ UNCHANGED atEnd
          /\ proc' = [proc EXCEPT ![forked'] = "run"]
      BY <2>1 DEF RunJob
    <3>2. forked' \in Procs
      BY <3>1, CommandoAssumption DEF TableInv, Rows, Procs
    <3> QED
      BY <3>1, <3>2, Zenon
  <2>2. CASE RunFails
    BY <2>2, Zenon DEF RunFails, procVars
  <2> QED
    BY <2>1, <2>2
<1>2. /\ Rows /\ Units /\ Piped /\ held' = held /\ pc' = "look"
      /\ Len(jobs) \in Nat /\ Len(jobs) \in {Last, Last - 1} /\ Last \in Nat \ {0}
  BY <1>1, AddedRows DEF TableInv, Stored, Run, Pass
<1>3. /\ Len(jobs') = Last /\ jobs'[Last].pid = p /\ jobs'[Last].pipe = p
      /\ \A j \in 1 .. Last : j # Last => jobs'[j] = jobs[j] /\ j \in 1 .. Len(jobs)
      /\ \A j \in 1 .. Len(jobs) :
           /\ jobs'[j].finished = jobs[j].finished
           /\ jobs'[j].output_size = jobs[j].output_size
           /\ jobs'[j].status = jobs[j].status
      /\ Len(jobs) # Last => jobs'[Last].output_size = NoOutput /\ jobs'[Last].status = NoProc
  BY <1>1, <1>2, RunRows
<1>4. \A q \in Procs : proc[q] = "reaped" => proc'[q] = "reaped"
  <2>1. ASSUME forked < MaxProcs, forked' = forked + 1, p = forked'
        PROVE  proc[p] = "none"
    <3>1. p \in Procs /\ p > forked
      BY <1>2, <2>1, CommandoAssumption DEF Rows, Procs
    <3> QED
      BY <3>1 DEF TableInv, Numbers
  <2> QED
    BY <1>1, <1>2, <2>1 DEF Rows
<1>5. p \in Procs => held[p] >= atEnd[p]
  <2>1. ASSUME p \in Procs
        PROVE  p > forked /\ held[p] \in Nat
    BY <1>1, <1>2, <2>1 DEF Rows, Procs, NoProc, Units
  <2> QED
    BY <1>2, <2>1 DEF Units
<1>6. Units'
  <2>1. \A q \in Procs : q > forked' => q > forked
    BY <1>1, <1>2 DEF Rows, Procs
  <2> QED
    BY <1>1, <1>2, <2>1 DEF Units
<1>7. NoProc \notin Procs
  BY DEF NoProc, Procs
<1>8. Piped'
  <2> SUFFICES ASSUME NEW j \in 1 .. Last
      PROVE /\ jobs'[j].pipe = jobs'[j].pid
            /\ jobs'[j].status \in Procs =>
                 jobs'[j].finished /\ proc'[jobs'[j].status] = "reaped"
            /\ jobs'[j].pid \in Procs /\ ~jobs'[j].finished =>
                 held[jobs'[j].pid] >= atEnd[jobs'[j].pid]
    BY <1>1, <1>2, <1>3 DEF Piped
  <2>1. CASE j # Last
    BY <1>2, <1>3, <1>4, <2>1 DEF Piped
  <2>2. CASE j = Last /\ Len(jobs) # Last
    BY <1>3, <1>5, <1>7, <2>2
  <2>3. CASE j = Last /\ Len(jobs) = Last
    BY <1>2, <1>3, <1>4, <1>5, <2>3 DEF Piped
  <2> QED
    BY <2>1, <2>2, <2>3
<1>9. OutputWhole'
  <2> SUFFICES ASSUME NEW j \in 1 .. Last, jobs'[j].output_size # NoOutput,
                      jobs'[j].status \in Procs
      PROVE jobs'[j].output_size >= atEnd[jobs'[j].status]
    BY <1>1, <1>3 DEF OutputWhole
  <2>1. j \in 1 .. Len(jobs)
    BY <1>2, <1>3
  <2> QED
    BY <1>3, <2>1 DEF Stored, OutputWhole
<1> QED
  BY <1>2, <1>6, <1>8, <1>9 DEF Stored, Reading

(* cmd_update_state has found a job finished, and has not read yet.        *)
LEMMA FinishStores ==
  ASSUME TableInv, Stored, AtJob, ~Skipped(at), NEW s \in Procs \cup {NoProc, Unknown},
         jobs' = [jobs EXCEPT ![at].finished = TRUE, ![at].status = s],
         pc' = "first", UNCHANGED <<at, held, atEnd, forked>>,
         s \in Procs => s = jobs[at].pid /\ proc'[s] = "reaped",
         \A p \in Procs : proc[p] = "reaped" => proc'[p] = "reaped"
  PROVE  Stored'
<1>1. Rows /\ at <= Len(jobs) /\ at \in 1 .. Len(jobs) /\ pc = "look"
  BY RowsOf DEF TableInv, AtJob, PassOver, Rows
<1>2. jobs[at].output_size = NoOutput /\ jobs[at] \in Row /\ ~jobs[at].finished
  BY <1>1, RowsOf DEF TableInv, Results, Skipped
<1>3. SetsJob(TRUE, s, NoOutput)
  <2>1. [jobs[at] EXCEPT !.finished = TRUE, !.status = s]
          = [jobs[at] EXCEPT !.finished = TRUE, !.status = s, !.output_size = NoOutput]
    BY <1>2 DEF Row
  <2>2. jobs' = [jobs EXCEPT ![at] = [@ EXCEPT !.finished = TRUE, !.status = s]]
    BY <1>1 DEF Rows
  <2> QED
    BY <1>1, <2>1, <2>2 DEF SetsJob
<1>4. /\ Len(jobs') = Len(jobs)
      /\ \A j \in 1 .. Len(jobs) :
           /\ jobs'[j].pid = jobs[j].pid /\ jobs'[j].pipe = jobs[j].pipe
           /\ j # at => jobs'[j] = jobs[j]
      /\ jobs'[at].finished = TRUE /\ jobs'[at].status = s
      /\ jobs'[at].output_size = NoOutput
  <2>1. NoOutput \in Int /\ TRUE \in BOOLEAN
    BY DEF NoOutput
  <2> QED
    BY <1>1, <1>3, <2>1, SetRows
<1>5. Units'
  BY DEF Stored, Units
<1>6. Piped'
  <2> SUFFICES ASSUME NEW j \in 1 .. Len(jobs)
      PROVE /\ jobs'[j].pipe = jobs'[j].pid
            /\ jobs'[j].status \in Procs =>
                 jobs'[j].finished /\ proc'[jobs'[j].status] = "reaped"
            /\ jobs'[j].pid \in Procs /\ ~jobs'[j].finished =>
                 held[jobs'[j].pid] >= atEnd[jobs'[j].pid]
    BY <1>4 DEF Piped
  <2>1. CASE j = at
    BY <1>1, <1>4, <2>1 DEF Stored, Piped
  <2>2. CASE j # at
    BY <1>4, <2>2 DEF Stored, Piped
  <2> QED
    BY <2>1, <2>2
<1>7. Owes(0)'
  <2>1. s \in Procs => held[s] >= atEnd[s] /\ held[s] \in Nat
    BY <1>1, <1>2 DEF Stored, Piped, Units
  <2> QED
    BY <1>1, <1>4, <2>1 DEF Owes
<1>8. OutputWhole'
  <2> SUFFICES ASSUME NEW j \in 1 .. Len(jobs), jobs'[j].output_size # NoOutput,
                      jobs'[j].status \in Procs
      PROVE jobs'[j].output_size >= atEnd[jobs'[j].status]
    BY <1>4 DEF OutputWhole
  <2>1. j # at
    BY <1>4
  <2> QED
    BY <1>4, <2>1 DEF Stored, OutputWhole
<1> QED
  BY <1>5, <1>6, <1>7, <1>8 DEF Stored, Reading

LEMMA WaitStores ==
  ASSUME TableInv, Stored, NEW p \in Procs, WaitAnswers(p)
  PROVE  Stored'
<1>1. /\ Rows /\ AtJob /\ ~Skipped(at) /\ pc = "look"
      /\ proc' = [proc EXCEPT ![p] = IF @ \in Ended THEN "reaped" ELSE @]
      /\ UNCHANGED <<held, forked, atEnd>>
  BY DEF TableInv, WaitAnswers, AtJob
<1>2. \A q \in Procs : proc[q] = "reaped" => proc'[q] = "reaped"
  BY <1>1 DEF Rows, Ended
<1>3. CASE p = jobs[at].pid /\ proc[p] = "exited"
  <2>1. jobs' = [jobs EXCEPT ![at].finished = TRUE, ![at].status = p]
        /\ pc' = "first" /\ UNCHANGED at
    BY <1>3 DEF WaitAnswers
  <2>2. proc'[p] = "reaped" /\ p \in Procs \cup {NoProc, Unknown}
    BY <1>1, <1>3 DEF Rows, Ended
  <2>3. UNCHANGED <<at, held, atEnd, forked>>
    BY <1>1, <2>1
  <2> QED
    BY <1>1, <1>2, <1>3, <2>1, <2>2, <2>3, FinishStores
<1>4. CASE ~(p = jobs[at].pid /\ proc[p] = "exited")
  <2>1. NextJob /\ UNCHANGED jobs
    BY <1>4 DEF WaitAnswers
  <2>2. pc' = "look"
    BY <1>1, <2>1, NextTypes
  <2> QED
    BY <1>1, <1>2, <2>1, <2>2, StoredStays
<1> QED
  BY <1>3, <1>4

LEMMA NoChildStores ==
  ASSUME TableInv, Stored, NoChild
  PROVE  Stored'
<1>1. Rows /\ AtJob /\ ~Skipped(at) /\ UNCHANGED <<held, forked, proc, atEnd>>
  BY DEF TableInv, NoChild, procVars
<1>2. CASE NextJob /\ UNCHANGED jobs
  <2>1. pc' = "look"
    BY <1>1, <1>2, NextTypes
  <2> QED
    BY <1>1, <1>2, <2>1, StoredStays
<1>3. CASE ~(NextJob /\ UNCHANGED jobs)
  <2>1. jobs' = [jobs EXCEPT ![at].finished = TRUE, ![at].status = Unknown]
        /\ pc' = "first" /\ UNCHANGED at
    BY <1>3 DEF NoChild
  <2>2. Unknown \notin Procs /\ Unknown \in Procs \cup {NoProc, Unknown}
    BY DEF Unknown, Procs
  <2>3. UNCHANGED <<at, held, atEnd, forked>>
    BY <1>1, <2>1
  <2> QED
    BY <1>1, <2>1, <2>2, <2>3, FinishStores
<1> QED
  BY <1>2, <1>3

-----------------------------------------------------------------------------
(* A read takes what the pipe of the job holds, as much as the buffer has  *)
(* room for, and nothing from any other pipe.                              *)
LEMMA TakeLeaves ==
  ASSUME TableInv, Stored, pc \in {"first", "more"}, NEW b \in Nat \ {0}, NEW n,
         n = Least(Holds(Pipe), b), Take(n)
  PROVE  /\ n \in 0 .. b /\ held' \in [Procs -> Nat] /\ Pipe = jobs[at].pid
         /\ \A q \in Procs : q # Pipe => held'[q] = held[q]
         /\ Pipe \in Procs => held'[Pipe] = held[Pipe] - n /\ n \in {held[Pipe], b}
<1>1. at \in 1 .. Len(jobs) /\ Rows /\ held \in [Procs -> Nat]
  BY RowsOf DEF TableInv, Rows, Results, Stored, Units
<1>2. Pipe = jobs[at].pid /\ Pipe \in Procs \cup {NoProc}
  BY <1>1, RowsOf DEF Stored, Piped, Pipe, Row
<1>3. NoProc \notin Procs
  BY DEF NoProc, Procs
<1>4. CASE Pipe = NoProc
  BY <1>1, <1>2, <1>3, <1>4 DEF Holds, Least, Take
<1>5. CASE Pipe # NoProc
  <2>1. Pipe \in Procs /\ held[Pipe] \in Nat /\ n = IF held[Pipe] < b THEN held[Pipe] ELSE b
    BY <1>1, <1>2, <1>5 DEF Holds, Least
  <2>2. held' = [held EXCEPT ![Pipe] = @ - n]
    BY <1>5 DEF Take
  <2>3. n \in 0 .. b /\ n \in {held[Pipe], b} /\ held[Pipe] - n \in Nat
    BY <2>1
  <2> QED
    BY <1>1, <1>2, <2>1, <2>2, <2>3
<1> QED
  BY <1>4, <1>5

(* The rows when the output of a job is stored.                            *)
LEMMA FetchedRows ==
  ASSUME TableInv, pc \in {"first", "more"}, NEW n \in Int, Fetched(n)
  PROVE  /\ Len(jobs') = Len(jobs)
         /\ \A j \in 1 .. Len(jobs) :
              /\ jobs'[j].pid = jobs[j].pid /\ jobs'[j].pipe = jobs[j].pipe
              /\ jobs'[j].finished = jobs[j].finished /\ jobs'[j].status = jobs[j].status
              /\ j # at => jobs'[j].output_size = jobs[j].output_size
         /\ jobs'[at].output_size = n
<1>1. /\ Rows /\ at \in 1 .. Len(jobs) /\ jobs[at].finished /\ jobs[at] \in Row
  BY RowsOf DEF TableInv, Results, Rows
<1>2. jobs' = [jobs EXCEPT ![at].output_size = n]
  BY DEF Fetched
<1>3. SetsJob(TRUE, jobs[at].status, n)
  <2>1. [jobs[at] EXCEPT !.output_size = n]
          = [jobs[at] EXCEPT !.finished = TRUE, !.status = jobs[at].status,
                             !.output_size = n]
    BY <1>1 DEF Row
  <2>2. jobs' = [jobs EXCEPT ![at] = [@ EXCEPT !.output_size = n]]
    BY <1>1, <1>2 DEF Rows
  <2> QED
    BY <1>1, <2>1, <2>2 DEF SetsJob
<1>4. jobs[at].status \in Procs \cup {NoProc, Unknown} /\ TRUE \in BOOLEAN /\ at <= Len(jobs)
  BY <1>1 DEF Row
<1>5. /\ Len(jobs') = Len(jobs)
      /\ \A j \in 1 .. Len(jobs) :
           /\ jobs'[j].pid = jobs[j].pid /\ jobs'[j].pipe = jobs[j].pipe
           /\ j # at => jobs'[j] = jobs[j]
      /\ jobs'[at].finished = TRUE /\ jobs'[at].status = jobs[at].status
      /\ jobs'[at].output_size = n
  BY <1>1, <1>3, <1>4, SetRows
<1>6. jobs'[at].finished = jobs[at].finished
  BY <1>1, <1>5
<1> QED
  BY <1>5, <1>6

(* What a read leaves to the jobs that are not finished.                   *)
LEMMA ReadPiped ==
  ASSUME TableInv, Stored, pc \in {"first", "more"}, UNCHANGED <<forked, proc, atEnd>>,
         held' \in [Procs -> Nat], Pipe = jobs[at].pid,
         \A q \in Procs : q # Pipe => held'[q] = held[q],
         Len(jobs') = Len(jobs),
         \A j \in 1 .. Len(jobs) :
           /\ jobs'[j].pid = jobs[j].pid /\ jobs'[j].pipe = jobs[j].pipe
           /\ jobs'[j].finished = jobs[j].finished /\ jobs'[j].status = jobs[j].status
  PROVE  Units' /\ Piped'
<1>1. Units'
  BY DEF Stored, Units
<1>2. at \in 1 .. Len(jobs) /\ jobs[at].finished
  BY RowsOf DEF TableInv, Rows, Results
<1>3. ASSUME NEW j \in 1 .. Len(jobs), jobs[j].pid \in Procs, ~jobs[j].finished
      PROVE  held'[jobs[j].pid] >= atEnd[jobs[j].pid]
  <2>1. jobs[j].pid # NoProc
    BY <1>3 DEF NoProc, Procs
  <2>2. jobs[j].pid # jobs[at].pid
    BY <1>2, <1>3, <2>1 DEF TableInv, Numbers
  <2> QED
    BY <1>3, <2>2 DEF Stored, Piped
<1> QED
  BY <1>1, <1>3 DEF Stored, Piped

(* The pipe is empty, or nobody writes into it: what was read is stored.   *)
LEMMA FetchedStores ==
  ASSUME TableInv, Stored, pc \in {"first", "more"}, UNCHANGED <<forked, proc, atEnd>>,
         held' \in [Procs -> Nat], Pipe = jobs[at].pid,
         \A q \in Procs : q # Pipe => held'[q] = held[q],
         NEW n \in Nat, Fetched(n),
         jobs[at].status \in Procs => n >= atEnd[jobs[at].status]
  PROVE  Stored'
<1>1. /\ Len(jobs') = Len(jobs)
      /\ \A j \in 1 .. Len(jobs) :
           /\ jobs'[j].pid = jobs[j].pid /\ jobs'[j].pipe = jobs[j].pipe
           /\ jobs'[j].finished = jobs[j].finished /\ jobs'[j].status = jobs[j].status
           /\ j # at => jobs'[j].output_size = jobs[j].output_size
      /\ jobs'[at].output_size = n
  BY FetchedRows
<1>2. Units' /\ Piped'
  BY <1>1, ReadPiped
<1>3. pc' = "look"
  BY NextTypes DEF Fetched, TableInv
<1>4. OutputWhole'
  <2> SUFFICES ASSUME NEW j \in 1 .. Len(jobs), jobs'[j].output_size # NoOutput,
                      jobs'[j].status \in Procs
      PROVE jobs'[j].output_size >= atEnd[jobs'[j].status]
    BY <1>1 DEF OutputWhole
  <2>1. CASE j = at
    BY <1>1, <2>1
  <2>2. CASE j # at
    BY <1>1, <2>2 DEF Stored, OutputWhole
  <2> QED
    BY <2>1, <2>2
<1> QED
  BY <1>2, <1>3, <1>4 DEF Stored, Reading

LEMMA ReadStores ==
  ASSUME TableInv, Stored, FirstRead \/ MoreReads
  PROVE  Stored'
<1>1. /\ UNCHANGED <<forked, proc, atEnd>> /\ BufSize \in Nat \ {0}
      /\ \A q \in Procs : held[q] \in Nat /\ atEnd[q] \in Nat
  BY CommandoAssumption DEF FirstRead, MoreReads, procVars, Stored, Units
<1>2. ASSUME UNCHANGED jobs, pc \in {"first", "more"},
             held' \in [Procs -> Nat], Pipe = jobs[at].pid,
             \A q \in Procs : q # Pipe => held'[q] = held[q]
      PROVE  Units' /\ Piped' /\ OutputWhole'
  BY <1>1, <1>2, ReadPiped DEF Stored, OutputWhole
<1>3. CASE FirstRead
  <2>1. PICK n : /\ n = Least(Holds(Pipe), BufSize) /\ Take(n) /\ pc = "first"
                 /\ \/ ~Filled(n) /\ Fetched(n)
                    \/ /\ Filled(n) /\ got' = n /\ cap' = BufSize
                       /\ pc' = "more" /\ UNCHANGED <<jobs, mode, at, due>>
    BY <1>3 DEF FirstRead
  <2>2. /\ n \in 0 .. BufSize /\ held' \in [Procs -> Nat] /\ Pipe = jobs[at].pid
        /\ \A q \in Procs : q # Pipe => held'[q] = held[q]
        /\ Pipe \in Procs => held'[Pipe] = held[Pipe] - n /\ n \in {held[Pipe], BufSize}
    BY <1>1, <2>1, TakeLeaves
  <2>3. jobs[at].status \in Procs =>
          jobs[at].status = Pipe /\ 0 + held[Pipe] >= atEnd[Pipe]
    BY <2>1, <2>2 DEF Stored, Reading, Owes
  <2>4. CASE ~Filled(n) /\ Fetched(n)
    <3>1. jobs[at].status \in Procs => n >= atEnd[jobs[at].status]
      BY <1>1, <2>2, <2>3, <2>4 DEF Filled
    <3> QED
      BY <1>1, <2>1, <2>2, <2>4, <3>1, FetchedStores
  <2>5. CASE got' = n /\ cap' = BufSize /\ pc' = "more" /\ UNCHANGED <<jobs, mode, at, due>>
    <3>1. Units' /\ Piped' /\ OutputWhole'
      BY <1>2, <2>1, <2>2, <2>5
    <3>2. jobs[at].status \in Procs => n + held'[Pipe] >= atEnd[Pipe]
      BY <1>1, <2>2, <2>3
    <3>3. Reading'
      BY <1>1, <2>2, <2>3, <2>5, <3>2 DEF Reading, Owes
    <3> QED
      BY <3>1, <3>3 DEF Stored
  <2> QED
    BY <2>1, <2>4, <2>5
<1>4. CASE MoreReads
  <2>1. PICK n : /\ n = Least(Holds(Pipe), cap) /\ Take(n) /\ pc = "more"
                 /\ \/ n = 0 /\ Fetched(got)
                    \/ /\ n > 0 /\ got' = got + n /\ cap' = 2 * cap
                       /\ UNCHANGED <<jobs, pc, mode, at, due>>
    BY <1>4 DEF MoreReads, DoubleCap
  <2>2. cap \in Nat \ {0} /\ got \in Nat /\ got <= cap
    BY <2>1 DEF Stored, Reading
  <2>3. /\ n \in 0 .. cap /\ held' \in [Procs -> Nat] /\ Pipe = jobs[at].pid
        /\ \A q \in Procs : q # Pipe => held'[q] = held[q]
        /\ Pipe \in Procs => held'[Pipe] = held[Pipe] - n /\ n \in {held[Pipe], cap}
    BY <2>1, <2>2, TakeLeaves
  <2>4. jobs[at].status \in Procs =>
          jobs[at].status = Pipe /\ got + held[Pipe] >= atEnd[Pipe]
    BY <2>1, <2>3 DEF Stored, Reading, Owes
  <2>5. CASE n = 0 /\ Fetched(got)
    <3>1. jobs[at].status \in Procs => got >= atEnd[jobs[at].status]
      BY <1>1, <2>2, <2>3, <2>4, <2>5
    <3> QED
      BY <1>1, <2>1, <2>2, <2>3, <2>5, <3>1, FetchedStores
  <2>6. CASE n > 0 /\ got' = got + n /\ cap' = 2 * cap /\ UNCHANGED <<jobs, pc, mode, at, due>>
    <3>1. Units' /\ Piped' /\ OutputWhole'
      BY <1>2, <2>1, <2>3, <2>6
    <3>2. jobs[at].status \in Procs => (got + n) + held'[Pipe] >= atEnd[Pipe]
      BY <1>1, <2>2, <2>3, <2>4
    <3>3. cap' \in Nat \ {0} /\ got' \in Nat /\ got' <= cap'
      BY <2>2, <2>3, <2>6
    <3>4. Owes(got)'
      BY <2>3, <2>4, <2>6, <3>2, <1>1 DEF Owes
    <3>5. pc' = "more"
      BY <2>1, <2>6
    <3> QED
      BY <3>1, <3>3, <3>4, <3>5 DEF Stored, Reading
  <2> QED
    BY <2>1, <2>5, <2>6
<1> QED
  BY <1>3, <1>4

(* The processes only add to their pipes, and what one leaves in it at its *)
(* end is there.                                                           *)
LEMMA ProcessStores ==
  ASSUME TableInv, Stored, NEW p \in Procs, Goes(p) \/ Outside(p)
  PROVE  Stored'
<1>1. UNCHANGED <<jobs, pc, at, got, cap, forked>>
  BY DEF Goes, Outside, Write, DescendantEnds, ProcessExits, Spawn, Stop,
     Continue, KillProcess, shellVars
<1>2. /\ Rows /\ held \in [Procs -> Nat] /\ atEnd \in [Procs -> Nat]
      /\ \A q \in Procs : q > forked => atEnd[q] = 0 /\ proc[q] = "none"
  BY DEF TableInv, Stored, Units, Numbers
<1>3. \/ UNCHANGED <<held, atEnd>>
      \/ held' = [held EXCEPT ![p] = @ + 1] /\ UNCHANGED atEnd
      \/ /\ proc[p] = "run" /\ atEnd' = [atEnd EXCEPT ![p] = held[p]] /\ UNCHANGED held
  BY DEF Goes, Outside, Write, DescendantEnds, ProcessExits, Spawn, Stop, Continue,
     KillProcess
<1>4. \A q \in Procs : proc[q] = "reaped" => proc'[q] = "reaped"
  BY <1>2 DEF Goes, Outside, Write, DescendantEnds, ProcessExits, Spawn, Stop, Continue,
     KillProcess, Rows, Alive
<1>5. /\ held' \in [Procs -> Nat] /\ atEnd' \in [Procs -> Nat]
      /\ \A q \in Procs :
           /\ held'[q] >= held[q] /\ held[q] \in Nat
           /\ atEnd'[q] = atEnd[q] \/ (atEnd'[q] = held'[q] /\ proc[q] = "run")
  BY <1>2, <1>3
<1>6. Units'
  BY <1>1, <1>2, <1>5 DEF Units
<1>7. \A q \in Procs : held[q] >= atEnd[q] => held'[q] >= atEnd'[q]
  BY <1>2, <1>5
<1>8. \A q \in Procs : proc[q] = "reaped" => atEnd'[q] = atEnd[q]
  BY <1>5
<1>9. Piped'
  BY <1>1, <1>4, <1>7 DEF Stored, Piped
<1>10. OutputWhole'
  BY <1>1, <1>8 DEF Stored, OutputWhole, Piped
<1>11. Reading'
  <2>1. ASSUME pc \in {"first", "more"}, NEW n \in Nat, Owes(n)
        PROVE  Owes(n)'
    <3>1. at \in 1 .. Len(jobs)
      BY <2>1, RowsOf DEF TableInv, Rows, Results
    <3> SUFFICES ASSUME jobs[at].status \in Procs
                 PROVE  n + held'[jobs[at].pid] >= atEnd'[jobs[at].pid]
      BY <1>1, <2>1 DEF Owes
    <3>2. jobs[at].status = jobs[at].pid /\ n + held[jobs[at].pid] >= atEnd[jobs[at].pid]
      BY <2>1 DEF Owes
    <3>3. atEnd'[jobs[at].pid] = atEnd[jobs[at].pid]
      BY <1>8, <3>1, <3>2 DEF Stored, Piped
    <3> QED
      BY <1>2, <1>5, <3>2, <3>3
  <2> QED
    BY <1>1, <2>1 DEF Stored, Reading, Owes
<1> QED
  BY <1>6, <1>9, <1>10, <1>11 DEF Stored

LEMMA StoredKept ==
  ASSUME TableInv, Stored, [Next]_vars
  PROVE  Stored'
<1>1. CASE QuietLine \/ EndPass \/ SkipFinished \/ NoAnswer
  <2>1. UNCHANGED <<jobs, held, atEnd, forked, proc>>
    BY <1>1 DEF QuietLine, Report, OutputForNoJob, Pause, WaitFor, WaitAll, Exit, EndPass,
       SkipFinished, NoAnswer, procVars
  <2>2. pc' \notin {"first", "more"}
    BY <1>1 DEF QuietLine, Report, OutputForNoJob, Pause, WaitFor, WaitAll, Exit, EndPass,
       SkipFinished, NoAnswer, NextJob, Pass
  <2> QED
    BY <2>1, <2>2, StoredStays
<1>2. CASE RunJob \/ RunFails
  BY <1>2, RunStores
<1>3. CASE NoChild \/ \E p \in Procs : WaitAnswers(p)
  BY <1>3, NoChildStores, WaitStores
<1>4. CASE FirstRead \/ MoreReads
  BY <1>4, ReadStores
<1>5. CASE \E p \in Procs : Goes(p) \/ Outside(p)
  BY <1>5, ProcessStores
<1>6. CASE UNCHANGED vars
  <2>1. UNCHANGED <<jobs, pc, at, got, cap, held, atEnd, forked, proc>>
    BY <1>6 DEF vars, shellVars, procVars
  <2> QED
    BY <2>1 DEF Stored, Units, Piped, Reading, Owes, OutputWhole
<1> QED
  BY <1>1, <1>2, <1>3, <1>4, <1>5, <1>6, Zenon DEF Next, UserLine, Shell, QuietLine

(* What is stored for a job is at least all that its process had written   *)
(* into its pipe, whatever the sizes of pipe, buffer and output, and the   *)
(* buffer always has room for what was read (read_all, cmd_fetch_output).  *)
THEOREM OutputsAreWhole == Spec => [](OutputWhole /\ BufferHolds)
<1>1. Spec => [](TableInv /\ Stored)
  BY TableInvStarts, TableInvKept, StoredStarts, StoredKept, PTL DEF Spec
<1> QED
  BY <1>1, StoredIsEnough, PTL

-----------------------------------------------------------------------------
(* read_all, byte for byte.  A string ends at the first NUL of its array.  *)
LEMMA SameCount ==
  ASSUME NEW S
  PROVE  Out!Cardinality(S) = Cardinality(S)
  BY Zenon DEF Out!Cardinality, Cardinality

LEMMA StringEnds ==
  ASSUME NEW d \in Nat, NEW s, DOMAIN s = 0 .. d, NEW e \in 0 .. d, s[e] = NUL
  PROVE  /\ Out!strlen(s) \in 0 .. e /\ s[Out!strlen(s)] = NUL
         /\ \A k \in 0 .. Out!strlen(s) - 1 : s[k] # NUL
<1> DEFINE ends == {m \in DOMAIN s : s[m] = NUL} \cup {Out!Cardinality(DOMAIN s)}
<1>1. Out!Cardinality(0 .. d) = d + 1
  <2>1. Cardinality(0 .. d) = d + 1
    BY FS_Interval
  <2> QED
    BY <2>1, SameCount
<1>2. ends \in SUBSET Nat /\ e \in ends /\ \A m \in ends : m = d + 1 \/ (m \in 0 .. d /\ s[m] = NUL)
  BY <1>1
<1>3. \E m \in ends : \A n \in ends : m <= n
  BY <1>2, LeastNumber
<1>4. Out!strlen(s) = CHOOSE m \in ends : \A n \in ends : m <= n
  BY DEF Out!strlen, Out!Min
<1>5. Out!strlen(s) \in ends /\ \A n \in ends : Out!strlen(s) <= n
  <2> HIDE DEF ends
  <2> QED
    BY <1>3, <1>4
<1>6. \A k \in 0 .. d : s[k] = NUL => k \in ends
  OBVIOUS
<1> HIDE DEF ends
<1>7. Out!strlen(s) <= e /\ Out!strlen(s) \in Nat
  BY <1>2, <1>5
<1>8. Out!strlen(s) \in 0 .. e /\ s[Out!strlen(s)] = NUL
  BY <1>2, <1>5, <1>7
<1>9. \A k \in 0 .. Out!strlen(s) - 1 : s[k] # NUL
  <2> SUFFICES ASSUME NEW k \in 0 .. Out!strlen(s) - 1, s[k] = NUL
               PROVE  FALSE
    OBVIOUS
  <2>1. k \in 0 .. d /\ k < Out!strlen(s)
    BY <1>7
  <2>2. k \in ends
    BY <1>6, <2>1
  <2> QED
    BY <1>5, <1>7, <2>1, <2>2
<1> QED
  BY <1>8, <1>9

(* The first string, and behind it the second.                             *)
LEMMA StringsJoin ==
  ASSUME NEW s, NEW t, NEW d \in Nat, DOMAIN s = 0 .. d,
         Out!strlen(s) \in Nat, Out!strlen(t) \in Nat
  PROVE  /\ DOMAIN Out!strcat(s, t) = 0 .. d
         /\ \A k \in 0 .. d : k < Out!strlen(s) => Out!strcat(s, t)[k] = s[k]
         /\ \A k \in 0 .. d :
              k >= Out!strlen(s) /\ k < Out!strlen(s) + Out!strlen(t) =>
                Out!strcat(s, t)[k] = t[k - Out!strlen(s)]
  BY DEF Out!strcat

(* read: the next bytes, as many as fit.                                   *)
LEMMA PieceIs ==
  ASSUME NEW n \in Nat, NEW S, unread \in Seq(S)
  PROVE  /\ Out!Piece(n) \in Seq(S) /\ Len(Out!Piece(n)) \in 0 .. n
         /\ Len(Out!Piece(n)) <= Len(unread)
         /\ Len(Out!Piece(n)) < n => Len(Out!Piece(n)) = Len(unread)
         /\ \A k \in 1 .. Len(Out!Piece(n)) : Out!Piece(n)[k] = unread[k]
<1> DEFINE m == Out!Min({n, Len(unread)})
<1>1. Len(unread) \in Nat
  BY LenProperties
<1>2. m \in 0 .. n /\ m <= Len(unread) /\ (m < n => m = Len(unread))
  BY <1>1 DEF Out!Min
<1>3. Out!Piece(n) = SubSeq(unread, 1, m)
  BY DEF Out!Piece
<1> HIDE DEF m
<1>4. \A k \in 1 .. m : k \in 1 .. Len(unread) /\ unread[k] \in S
  BY <1>1, <1>2, ElementOfSeq
<1>5. /\ Out!Piece(n) \in Seq(S) /\ Len(Out!Piece(n)) = m
      /\ \A k \in 1 .. m : Out!Piece(n)[k] = unread[k]
  BY <1>1, <1>2, <1>3, <1>4, SubSeqProperties
<1> QED
  BY <1>2, <1>5

(* What is left in the pipe after a piece has been read.                   *)
LEMMA RestIs ==
  ASSUME NEW S, unread \in Seq(S), NEW piece \in Seq(S),
         Len(piece) <= Len(unread), Out!Read(piece)
  PROVE  /\ unread' \in Seq(S) /\ Len(unread') = Len(unread) - Len(piece)
         /\ \A k \in 1 .. Len(unread') : unread'[k] = unread[Len(piece) + k]
<1> DEFINE p == Len(piece)
           u == Len(unread)
<1>1. u \in Nat /\ p \in Nat /\ p <= u /\ unread' = SubSeq(unread, p + 1, u)
  BY LenProperties DEF Out!Read
<1>2. \A k \in p + 1 .. u : unread[k] \in S
  BY <1>1, ElementOfSeq
<1> HIDE DEF p, u
<1>3. unread' \in Seq(S) /\ Len(unread') = IF p + 1 <= u THEN u - (p + 1) + 1 ELSE 0
  BY <1>1, <1>2, SubSeqProperties DEF u
<1>4. Len(unread') = u - p
  BY <1>1, <1>3
<1>5. \A k \in 1 .. u - p : unread'[k] = unread[p + k]
  BY <1>1, SubSeqProperties DEF u
<1> QED
  BY <1>3, <1>4, <1>5 DEF u, p

(* No NUL among the first bytes.                                           *)
Clean(n) == \A z \in 1 .. n : written[z] # NUL

(* How much has been read, and that of a text it is what is stored.        *)
Copied ==
  \A k \in 1 .. bytes_read : Clean(k) => buf[k - 1] = written[k]

Counted ==
  /\ written \in Seq(Out!Bytes) /\ unread \in Seq(Out!Bytes)
  /\ cur_bufsize \in Nat \ {0} /\ bytes_read \in 0 .. cur_bufsize
  /\ Len(written) = bytes_read + Len(unread)
  /\ \A k \in 1 .. Len(unread) : unread[k] = written[bytes_read + k]

Pieces ==
  /\ Counted /\ Copied
  /\ readpc = "first" => bytes_read = 0
  /\ readpc # "first" => DOMAIN buf = 0 .. cur_bufsize
  /\ readpc \in {"end", "stored"} => unread = <<>>

(* A piece is counted.                                                     *)
LEMMA PieceCounted ==
  ASSUME Counted, NEW piece, piece = Out!Piece(cur_bufsize), Out!Read(piece),
         written' = written, bytes_read' = bytes_read + Len(piece),
         cur_bufsize' \in Nat \ {0}, bytes_read' <= cur_bufsize'
  PROVE  /\ Counted'
         /\ piece \in Seq(Out!Bytes) /\ Len(piece) \in 0 .. cur_bufsize
         /\ Len(piece) < cur_bufsize => unread' = <<>>
         /\ \A k \in 1 .. Len(piece) : piece[k] = written[bytes_read + k]
<1> DEFINE p == Len(piece)
           u == Len(unread)
           b == bytes_read
<1>1. /\ cur_bufsize \in Nat /\ b \in Nat /\ unread \in Seq(Out!Bytes)
      /\ written \in Seq(Out!Bytes) /\ Len(written) = b + u
      /\ \A k \in 1 .. u : unread[k] = written[b + k]
  BY DEF Counted
<1>2. u \in Nat
  BY <1>1, LenProperties
<1>3. /\ piece \in Seq(Out!Bytes) /\ p \in 0 .. cur_bufsize /\ p <= u
      /\ p < cur_bufsize => p = u
      /\ \A k \in 1 .. p : piece[k] = unread[k]
  BY <1>1, PieceIs
<1>4. /\ unread' \in Seq(Out!Bytes) /\ Len(unread') = u - p
      /\ \A k \in 1 .. Len(unread') : unread'[k] = unread[p + k]
  BY <1>1, <1>3, RestIs
<1> HIDE DEF p, u, b
<1>5. \A k \in 1 .. p : piece[k] = written[b + k]
  BY <1>1, <1>2, <1>3
<1>6. \A k \in 1 .. Len(unread') : unread'[k] = written[bytes_read' + k]
  <2> SUFFICES ASSUME NEW k \in 1 .. Len(unread')
               PROVE  unread'[k] = written[bytes_read' + k]
    OBVIOUS
  <2>1. p + k \in 1 .. u /\ b + (p + k) = bytes_read' + k
    BY <1>1, <1>2, <1>3, <1>4 DEF b, p
  <2>2. unread'[k] = unread[p + k] /\ unread[p + k] = written[b + (p + k)]
    BY <1>1, <1>4, <2>1
  <2> QED
    BY <2>1, <2>2
<1>7. p < cur_bufsize => unread' = <<>>
  <2>1. p < cur_bufsize => Len(unread') = 0
    BY <1>2, <1>3, <1>4
  <2> QED
    BY <1>4, <2>1, EmptySeq
<1>8. bytes_read' \in 0 .. cur_bufsize' /\ Len(written) = bytes_read' + Len(unread')
  BY <1>1, <1>2, <1>3, <1>4 DEF b, p
<1>9. Counted'
  BY <1>1, <1>4, <1>6, <1>8 DEF Counted, Out!Bytes
<1> QED
  BY <1>3, <1>5, <1>7, <1>9 DEF b, p, u

(* The buffer, terminated, and what strcat puts behind it.                 *)
LEMMA FirstPiece ==
  ASSUME Pieces, Out!FirstRead
  PROVE  Pieces'
<1> DEFINE piece == Out!Piece(cur_bufsize)
<1>1. /\ readpc = "first" /\ bytes_read = 0 /\ Out!Read(piece)
      /\ buf' = Out!Array(cur_bufsize + 1, piece) /\ bytes_read' = Len(piece)
      /\ readpc' = IF Out!Full(Len(piece)) THEN "more" ELSE "end"
      /\ written' = written /\ cur_bufsize' = cur_bufsize
      /\ Counted /\ cur_bufsize \in Nat \ {0}
  BY DEF Pieces, Counted, Out!FirstRead
<1>2. piece \in Seq(Out!Bytes) /\ Len(piece) \in 0 .. cur_bufsize
  BY <1>1, PieceIs DEF Counted
<1> HIDE DEF piece
<1>3. bytes_read' = bytes_read + Len(piece) /\ bytes_read' <= cur_bufsize'
  BY <1>1, <1>2
<1>4. /\ Counted'
      /\ Len(piece) < cur_bufsize => unread' = <<>>
      /\ \A k \in 1 .. Len(piece) : piece[k] = written[bytes_read + k]
  BY <1>1, <1>3, PieceCounted DEF piece
<1>5. DOMAIN buf' = 0 .. cur_bufsize' /\ \A k \in 1 .. Len(piece) : buf'[k - 1] = piece[k]
  BY <1>1, <1>2 DEF Out!Array
<1>6. \A k \in 1 .. bytes_read' : buf'[k - 1] = written'[k]
  BY <1>1, <1>2, <1>4, <1>5
<1>7. readpc' \in {"end", "stored"} => unread' = <<>>
  BY <1>1, <1>2, <1>4 DEF Out!Full
<1> QED
  BY <1>1, <1>4, <1>5, <1>6, <1>7 DEF Pieces, Copied

(* Of a text, the first string is all that was stored, and the second the  *)
(* whole piece.                                                            *)
LEMMA NextJoined ==
  ASSUME Pieces, readpc = "more", NEW piece \in Seq(Out!Bytes),
         Len(piece) \in 0 .. cur_bufsize,
         \A k \in 1 .. Len(piece) : piece[k] = written[bytes_read + k],
         NEW all,
         all = Out!strcat(Out!realloc(Out!Terminated(buf), 2 * cur_bufsize + 1),
                          Out!Put(Out!Array(cur_bufsize + 1, piece), Len(piece), NUL))
  PROVE  /\ DOMAIN all = 0 .. 2 * cur_bufsize
         /\ \A k \in 1 .. bytes_read + Len(piece) : Clean(k) => all[k - 1] = written[k]
<1> DEFINE p == Len(piece)
           c == cur_bufsize
           b == bytes_read
           s == Out!realloc(Out!Terminated(buf), 2 * c + 1)
           t == Out!Put(Out!Array(c + 1, piece), p, NUL)
           e == Out!strlen(s)
           m == Out!strlen(t)
<1>1. /\ c \in Nat \ {0} /\ b \in 0 .. c /\ p \in 0 .. c /\ DOMAIN buf = 0 .. c
      /\ \A k \in 1 .. b : Clean(k) => buf[k - 1] = written[k]
  BY DEF Pieces, Counted, Copied
<1>2. /\ DOMAIN s = 0 .. 2 * c /\ s[b] = NUL
      /\ \A k \in 0 .. b - 1 : s[k] = buf[k]
  <2>1. /\ DOMAIN Out!Terminated(buf) = 0 .. c /\ Out!Terminated(buf)[b] = NUL
        /\ \A k \in 0 .. b - 1 : Out!Terminated(buf)[k] = buf[k]
    BY <1>1 DEF Out!Terminated, Out!Put
  <2>2. DOMAIN s = 0 .. 2 * c
    BY <1>1 DEF Out!realloc
  <2>3. \A k \in 0 .. c : s[k] = Out!Terminated(buf)[k]
    BY <1>1, <2>1 DEF Out!realloc
  <2> HIDE DEF s
  <2> QED
    BY <1>1, <2>1, <2>2, <2>3
<1>3. /\ DOMAIN t = 0 .. c /\ t[p] = NUL
      /\ \A k \in 0 .. p - 1 : t[k] = piece[k + 1]
  <2>1. /\ DOMAIN Out!Array(c + 1, piece) = 0 .. c
        /\ \A k \in 0 .. p - 1 : Out!Array(c + 1, piece)[k] = piece[k + 1]
    BY <1>1 DEF Out!Array
  <2> QED
    BY <1>1, <2>1 DEF Out!Put
<1> HIDE DEF s, t
<1>4. e \in 0 .. b /\ s[e] = NUL
  BY <1>1, <1>2, StringEnds
<1>5. m \in 0 .. p /\ t[m] = NUL
  BY <1>1, <1>3, StringEnds
<1>6. /\ DOMAIN all = 0 .. 2 * c
      /\ \A k \in 0 .. 2 * c : k < e => all[k] = s[k]
      /\ \A k \in 0 .. 2 * c : k >= e /\ k < e + m => all[k] = t[k - e]
  BY <1>1, <1>2, <1>4, <1>5, StringsJoin DEF s, t
<1> HIDE DEF e, m, p, c, b
<1>7. ASSUME NEW k \in 1 .. b, Clean(k)
      PROVE  e >= k
  <2> SUFFICES ASSUME e < k
               PROVE  FALSE
    BY <1>1, <1>4
  <2>1. e + 1 \in 1 .. b /\ e \in 0 .. b - 1 /\ e + 1 \in 1 .. k /\ (e + 1) - 1 = e
    BY <1>1, <1>4, <1>7
  <2>2. Clean(e + 1) /\ written[e + 1] # NUL
    BY <1>1, <1>4, <1>7, <2>1 DEF Clean
  <2>3. buf[e] = written[e + 1]
    BY <1>1, <2>1, <2>2
  <2> QED
    BY <1>2, <1>4, <2>1, <2>2, <2>3
<1>8. ASSUME NEW k \in 1 .. b + p, Clean(k)
      PROVE  all[k - 1] = written[k]
  <2>1. CASE k <= b
    <3>1. k \in 1 .. b /\ e >= k
      BY <1>1, <1>7, <1>8, <2>1
    <3>2. k - 1 \in 0 .. 2 * c /\ k - 1 < e /\ k - 1 \in 0 .. b - 1
      BY <1>1, <1>4, <3>1
    <3>3. all[k - 1] = s[k - 1] /\ s[k - 1] = buf[k - 1]
      BY <1>2, <1>6, <3>2
    <3>4. buf[k - 1] = written[k]
      BY <1>1, <1>8, <3>1
    <3> QED
      BY <3>3, <3>4
  <2>2. CASE k > b
    <3>1. e = b
      <4>1. CASE b = 0
        BY <1>4, <4>1
      <4>2. CASE b # 0
        <5>1. b \in 1 .. b /\ Clean(b)
          BY <1>1, <1>8, <2>2, <4>2 DEF Clean
        <5> QED
          BY <1>1, <1>4, <1>7, <5>1
      <4> QED
        BY <4>1, <4>2
    <3>2. m >= k - b
      <4> SUFFICES ASSUME m < k - b
                   PROVE  FALSE
        BY <1>1, <1>5
      <4>1. m \in 0 .. p - 1 /\ m + 1 \in 1 .. p /\ b + (m + 1) \in 1 .. k
        BY <1>1, <1>5
      <4>2. t[m] = piece[m + 1] /\ piece[m + 1] = written[b + (m + 1)]
        BY <1>3, <4>1 DEF p, b
      <4>3. written[b + (m + 1)] # NUL
        BY <1>8, <4>1 DEF Clean
      <4> QED
        BY <1>5, <4>2, <4>3
    <3>3. /\ k - 1 \in 0 .. 2 * c /\ k - 1 >= e /\ k - 1 < e + m
          /\ (k - 1) - e \in 0 .. p - 1 /\ k - b \in 1 .. p
          /\ ((k - 1) - e) + 1 = k - b /\ b + (k - b) = k
      BY <1>1, <1>5, <2>2, <3>1, <3>2
    <3>4. all[k - 1] = t[(k - 1) - e] /\ t[(k - 1) - e] = piece[k - b]
      BY <1>3, <1>6, <3>3
    <3>5. piece[k - b] = written[b + (k - b)]
      BY <3>3 DEF p, b
    <3> QED
      BY <3>3, <3>4, <3>5
  <2> QED
    BY <1>1, <2>1, <2>2
<1> QED
  BY <1>6, <1>8 DEF c, b, p

LEMMA NextPiece ==
  ASSUME Pieces, Out!MoreRead
  PROVE  Pieces'
<1> DEFINE piece == Out!Piece(cur_bufsize)
           temp == Out!Put(Out!Array(cur_bufsize + 1, piece), Len(piece), NUL)
<1>0. /\ Counted /\ Copied /\ cur_bufsize \in Nat \ {0}
      /\ readpc # "first" => DOMAIN buf = 0 .. cur_bufsize
  BY DEF Pieces, Counted
<1>1. /\ readpc = "more" /\ Out!Read(piece) /\ written' = written
      /\ cur_bufsize' = 2 * cur_bufsize
      /\ \/ /\ piece = <<>> /\ readpc' = "end" /\ bytes_read' = bytes_read
            /\ buf' = Out!realloc(buf, cur_bufsize' + 1)
         \/ /\ piece # <<>> /\ bytes_read' = bytes_read + Len(piece)
            /\ buf' = Out!strcat(Out!realloc(Out!Terminated(buf), cur_bufsize' + 1), temp)
            /\ readpc' = readpc
  BY Zenon DEF Out!MoreRead, Out!Doubled
<1> HIDE DEF temp
<1>2. /\ piece \in Seq(Out!Bytes) /\ Len(piece) \in 0 .. cur_bufsize
      /\ bytes_read \in 0 .. cur_bufsize /\ cur_bufsize' \in Nat \ {0}
  BY <1>0, <1>1, PieceIs DEF Counted
<1>3. Len(<<>>) = 0
  BY EmptySeq
<1> HIDE DEF piece
<1>4. bytes_read' = bytes_read + Len(piece) /\ bytes_read' <= cur_bufsize'
  BY <1>0, <1>1, <1>2, <1>3
<1>5. /\ Counted'
      /\ Len(piece) < cur_bufsize => unread' = <<>>
      /\ \A k \in 1 .. Len(piece) : piece[k] = written[bytes_read + k]
  BY <1>0, <1>1, <1>2, <1>4, PieceCounted DEF piece
<1>6. CASE piece = <<>>
  <2>1. /\ buf' = Out!realloc(buf, 2 * cur_bufsize + 1) /\ readpc' = "end"
        /\ bytes_read' = bytes_read
    BY <1>1, <1>6
  <2>2. DOMAIN buf' = 0 .. cur_bufsize' /\ \A k \in 0 .. cur_bufsize : buf'[k] = buf[k]
    BY <1>0, <1>1, <2>1 DEF Out!realloc
  <2>3. Copied'
    BY <1>0, <1>1, <1>2, <2>1, <2>2 DEF Copied, Clean
  <2>4. unread' = <<>>
    BY <1>0, <1>1, <1>3, <1>5, <1>6
  <2> QED
    BY <1>5, <2>1, <2>2, <2>3, <2>4 DEF Pieces
<1>7. CASE piece # <<>>
  <2>1. /\ buf' = Out!strcat(Out!realloc(Out!Terminated(buf), 2 * cur_bufsize + 1), temp)
        /\ readpc' = "more"
    BY <1>1, <1>7
  <2>2. /\ DOMAIN buf' = 0 .. 2 * cur_bufsize
        /\ \A k \in 1 .. bytes_read + Len(piece) : Clean(k) => buf'[k - 1] = written[k]
    BY <1>0, <1>1, <1>2, <1>5, <2>1, NextJoined DEF temp
  <2>3. Copied'
    BY <1>1, <1>4, <2>2 DEF Copied, Clean
  <2> QED
    BY <1>1, <1>5, <2>1, <2>2, <2>3 DEF Pieces
<1> QED
  BY <1>6, <1>7

LEMMA LastPut ==
  ASSUME Pieces, Out!Finish
  PROVE  Pieces'
<1>1. /\ readpc = "end" /\ readpc' = "stored" /\ buf' = [buf EXCEPT ![bytes_read] = NUL]
      /\ written' = written /\ unread' = unread
      /\ cur_bufsize' = cur_bufsize /\ bytes_read' = bytes_read
  BY DEF Out!Finish, Out!Put
<1>2. bytes_read \in Nat /\ bytes_read <= cur_bufsize /\ cur_bufsize \in Nat
  BY DEF Pieces, Counted
<1>3. DOMAIN buf' = DOMAIN buf
  BY <1>1
<1>4. \A k \in 1 .. bytes_read : buf'[k - 1] = buf[k - 1]
  BY <1>1, <1>2 DEF Pieces
<1>5. Counted' /\ Copied'
  BY <1>1, <1>4 DEF Pieces, Counted, Copied, Clean, Out!Bytes
<1> QED
  BY <1>1, <1>3, <1>5 DEF Pieces

LEMMA PiecesStart ==
  ASSUME Out!Init
  PROVE  Pieces
<1>1. PICK n \in 0 .. MaxBytes : written \in [1 .. n -> Out!Bytes]
  BY DEF Out!Init
<1>2. /\ n \in Nat /\ BufBytes \in Nat \ {0} /\ unread = written /\ cur_bufsize = BufBytes
      /\ bytes_read = 0 /\ readpc = "first"
  BY PartsAssumption DEF Out!OutputAssumption, Out!Init
<1>3. written \in Seq(Out!Bytes) /\ Len(written) = n
  BY <1>1, <1>2
<1> QED
  BY <1>2, <1>3 DEF Pieces, Counted, Copied

LEMMA PiecesKept ==
  ASSUME Pieces, Out!Next \/ UNCHANGED outputVars
  PROVE  Pieces'
<1>1. CASE Out!Next
  BY <1>1, FirstPiece, NextPiece, LastPut DEF Out!Next
<1>2. CASE UNCHANGED outputVars
  BY <1>2 DEF outputVars, Pieces, Counted, Copied, Clean, Out!Bytes
<1> QED
  BY <1>1, <1>2

LEMMA PiecesAreEnough ==
  ASSUME Pieces
  PROVE  Out!FirstPieces
<1> SUFFICES ASSUME readpc = "stored"
             PROVE  /\ bytes_read = Len(written)
                    /\ \A k \in DOMAIN written :
                         (\A z \in {m \in DOMAIN written : written[m] = NUL} : k < z) =>
                           Out!Output[k] = written[k]
  BY DEF Out!FirstPieces
<1>1. /\ written \in Seq(Out!Bytes) /\ unread = <<>> /\ bytes_read \in Nat
      /\ Len(written) = bytes_read + Len(unread)
  BY DEF Pieces, Counted
<1>2. bytes_read = Len(written) /\ DOMAIN written = 1 .. bytes_read
  <2>1. Len(unread) = 0
    BY <1>1, EmptySeq
  <2>2. DOMAIN written = 1 .. Len(written)
    BY <1>1, LenProperties
  <2> QED
    BY <1>1, <2>1, <2>2
<1>3. ASSUME NEW k \in 1 .. bytes_read,
             \A z \in {m \in DOMAIN written : written[m] = NUL} : k < z
      PROVE  Out!Output[k] = written[k]
  <2>1. Clean(k)
    BY <1>1, <1>2, <1>3 DEF Clean
  <2>2. buf[k - 1] = written[k]
    BY <2>1 DEF Pieces, Copied
  <2> QED
    BY <2>2 DEF Out!Output
<1> QED
  BY <1>2, <1>3

(* Byte for byte: of a text that is written, all is stored for the job, in *)
(* whatever pieces it was read, and of other bytes all in front of the     *)
(* first NUL (read_all).                                                   *)
THEOREM OutputsAreKept == ShellSpec => []OutputKept
<1>1. ShellSpec => Spec
  <2>1. ShellInit => Init
    BY DEF ShellInit
  <2>2. [ShellNext]_<<part, vars, inputVars, outputVars>> => [Next]_vars
    BY DEF ShellNext
  <2> QED
    BY <2>1, <2>2, PTL DEF ShellSpec, Spec
<1>2. ShellInit => Pieces
  BY PiecesStart DEF ShellInit
<1>3. Pieces /\ [ShellNext]_<<part, vars, inputVars, outputVars>> => Pieces'
  <2> SUFFICES ASSUME Pieces, [ShellNext]_<<part, vars, inputVars, outputVars>>
               PROVE  Pieces'
    OBVIOUS
  <2>1. Out!Next \/ UNCHANGED outputVars
    BY DEF ShellNext
  <2> QED
    BY <2>1, PiecesKept
<1>4. (OutputWhole /\ BufferHolds) /\ Pieces => OutputKept
  BY PiecesAreEnough DEF OutputKept
<1> QED
  BY <1>1, <1>2, <1>3, <1>4, OutputsAreWhole, PTL DEF ShellSpec

-----------------------------------------------------------------------------
(* The lines in the buffer of a shell.                                     *)
Has(s) == In!ToSet(shells[s].buf)
Rising(b) == \A n, m \in DOMAIN b : n < m => b[n] < b[m]

(* The lines are numbered in the order in which they are read.             *)
Buffers ==
  /\ input \in Seq(In!Kinds) /\ Len(input) \in Nat /\ taken \in 0 .. Len(input)
  /\ started \in [1 .. Len(input) -> Nat]
  /\ shells \in Seq(In!Shell)
  /\ \A s \in DOMAIN shells : Rising(shells[s].buf) /\ Has(s) \subseteq 1 .. taken

(* Shells that share a line share all that is behind it; only copied lines *)
(* are shared.                                                             *)
Behind == \A s, t \in DOMAIN shells : \A k \in Has(s) \cap Has(t) :
            \A m \in Has(s) : m > k => m \in Has(t)
Apart == \A s, t \in DOMAIN shells : s # t => Has(s) \cap Has(t) \subseteq copied

(* A line is started when it is taken out of the buffer.                   *)
Later ==
  /\ \A k \in 1 .. Len(input) : k > taken => started[k] = 0
  /\ \A k \in (1 .. Len(input)) \ copied :
       /\ started[k] <= 1
       /\ \A s \in DOMAIN shells : k \in Has(s) => started[k] = 0

Shared == Buffers /\ Behind /\ Apart /\ Later

(* fgets: the first line, and the rest.                                    *)
LEMMA RestOfBuffer ==
  ASSUME NEW b \in Seq(Nat), b # <<>>, Rising(b)
  PROVE  /\ Tail(b) \in Seq(Nat) /\ Rising(Tail(b)) /\ Head(b) \in In!ToSet(b)
         /\ In!ToSet(Tail(b)) = In!ToSet(b) \ {Head(b)}
         /\ \A m \in In!ToSet(b) : m >= Head(b)
<1> DEFINE n == Len(b)
           r == Tail(b)
<1>1. n \in Nat \ {0} /\ DOMAIN b = 1 .. n /\ Head(b) = b[1]
  BY EmptySeq, LenProperties, HeadTailProperties
<1>2. r \in Seq(Nat) /\ Len(r) = n - 1 /\ \A k \in 1 .. n - 1 : r[k] = b[k + 1]
  BY HeadTailProperties
<1>3. DOMAIN r = 1 .. n - 1
  BY <1>2, LenProperties
<1>4. \A k \in 1 .. n : b[k] \in Nat
  BY ElementOfSeq
<1> HIDE DEF n, r
<1>5. Rising(r)
  <2> SUFFICES ASSUME NEW k \in 1 .. n - 1, NEW m \in 1 .. n - 1, k < m
               PROVE  r[k] < r[m]
    BY <1>3 DEF Rising
  <2>1. k + 1 \in 1 .. n /\ m + 1 \in 1 .. n /\ k + 1 < m + 1
    BY <1>1
  <2>2. b[k + 1] < b[m + 1]
    BY <1>1, <2>1 DEF Rising
  <2> QED
    BY <1>2, <2>2
<1>6. \A k \in 2 .. n : b[k] > b[1]
  <2> SUFFICES ASSUME NEW k \in 2 .. n
               PROVE  b[1] < b[k] /\ b[1] \in Nat /\ b[k] \in Nat
    OBVIOUS
  <2>1. 1 \in 1 .. n /\ k \in 1 .. n /\ 1 < k
    BY <1>1
  <2> QED
    BY <1>1, <1>4, <2>1 DEF Rising
<1>7. In!ToSet(b) = {b[k] : k \in 1 .. n} /\ In!ToSet(r) = {r[k] : k \in 1 .. n - 1}
  BY <1>1, <1>3 DEF In!ToSet
<1>8. \A x : x \in {r[k] : k \in 1 .. n - 1} <=> \E k \in 2 .. n : x = b[k]
  <2> SUFFICES ASSUME NEW x
               PROVE  (\E k \in 1 .. n - 1 : x = r[k]) <=> \E k \in 2 .. n : x = b[k]
    OBVIOUS
  <2>1. ASSUME NEW k \in 1 .. n - 1, x = r[k]
        PROVE  \E m \in 2 .. n : x = b[m]
    <3>1. k + 1 \in 2 .. n /\ x = b[k + 1]
      BY <1>1, <1>2, <2>1
    <3> QED
      BY <3>1
  <2>2. ASSUME NEW k \in 2 .. n, x = b[k]
        PROVE  \E m \in 1 .. n - 1 : x = r[m]
    <3>1. k - 1 \in 1 .. n - 1 /\ (k - 1) + 1 = k
      BY <1>1
    <3>2. x = r[k - 1]
      BY <1>2, <2>2, <3>1
    <3> QED
      BY <3>1, <3>2
  <2> QED
    BY <2>1, <2>2
<1>9. \A x : x \in {b[k] : k \in 1 .. n} \ {b[1]} <=> \E k \in 2 .. n : x = b[k]
  <2>1. \A k \in 1 .. n : k = 1 \/ k \in 2 .. n
    BY <1>1
  <2>2. \A k \in 2 .. n : k \in 1 .. n /\ b[k] # b[1]
    BY <1>1, <1>4, <1>6
  <2> QED
    BY <2>1, <2>2
<1>10. In!ToSet(r) = In!ToSet(b) \ {Head(b)}
  BY <1>1, <1>7, <1>8, <1>9
<1>11. \A m \in In!ToSet(b) : m >= Head(b)
  <2> SUFFICES ASSUME NEW k \in 1 .. n
               PROVE  b[k] >= b[1]
    BY <1>1, <1>7
  <2>1. k = 1 \/ k \in 2 .. n
    BY <1>1
  <2> QED
    BY <1>1, <1>4, <1>6, <2>1
<1>12. Head(b) \in In!ToSet(b)
  BY <1>1, <1>7
<1> QED
  BY <1>2, <1>5, <1>10, <1>11, <1>12 DEF r

(* A line that some shell still has before it.                             *)
Live(k) == \E s \in DOMAIN shells : shells[s].at # "ended" /\ k \in Has(s)

NoneLost ==
  \A k \in 1 .. taken :
    input[k] \in {"command", "unknown"} =>
      started[k] > 0 \/ Live(k) \/ \E m \in 1 .. taken : input[m] = "exit" /\ ~Live(m)

(* After the first line h was taken by shell s, shell t has what shell o   *)
(* had, which is t itself, or s when t is its copy.                        *)
From(t, o, s, h) == Has(t)' = IF o = s THEN Has(o) \ {h} ELSE Has(o)
Each(s, h) == \A t \in DOMAIN shells' : \E o \in DOMAIN shells : From(t, o, s, h)
Pairs(s, h) ==
  \A t, u \in DOMAIN shells' : t # u =>
    \E o, p \in DOMAIN shells :
      From(t, o, s, h) /\ From(u, p, s, h) /\ (o = p => Has(t)' \subseteq copied')

LEMMA TakenShared ==
  ASSUME Shared, NEW s \in DOMAIN shells, NEW h \in Has(s), \A m \in Has(s) : m >= h,
         shells' \in Seq(In!Shell), \A t \in DOMAIN shells' : Rising(shells'[t].buf),
         Each(s, h), Pairs(s, h), copied \subseteq copied',
         taken' = taken, input' = input,
         started' = started \/ started' = [started EXCEPT ![h] = @ + 1]
  PROVE  Shared'
<1>1. /\ Len(input) \in Nat /\ taken \in 0 .. Len(input)
      /\ started \in [1 .. Len(input) -> Nat]
      /\ \A t \in DOMAIN shells : Has(t) \subseteq 1 .. taken
  BY DEF Shared, Buffers
<1>2. h \in 1 .. taken /\ h \in 1 .. Len(input)
  BY <1>1
<1>3. \A t \in DOMAIN shells' : \E o \in DOMAIN shells : Has(t)' \subseteq Has(o)
  <2> SUFFICES ASSUME NEW t \in DOMAIN shells'
               PROVE  \E o \in DOMAIN shells : Has(t)' \subseteq Has(o)
    OBVIOUS
  <2>1. PICK o \in DOMAIN shells : From(t, o, s, h)
    BY DEF Each
  <2> QED
    BY <2>1 DEF From
<1>4. started' \in [1 .. Len(input) -> Nat] /\ \A k \in 1 .. Len(input) : k # h => started'[k] = started[k]
  BY <1>1, <1>2
<1>5. Buffers'
  <2>1. \A t \in DOMAIN shells' : Has(t)' \subseteq 1 .. taken
    BY <1>1, <1>3
  <2>2. input' \in Seq(In!Kinds)
    BY DEF Shared, Buffers
  <2> QED
    BY <1>1, <1>4, <2>1, <2>2 DEF Buffers, In!Kinds, In!Shell
<1>6. Behind'
  <2> SUFFICES ASSUME NEW t \in DOMAIN shells', NEW u \in DOMAIN shells',
                      NEW k \in Has(t)' \cap Has(u)', NEW m \in Has(t)', m > k
               PROVE  m \in Has(u)'
    BY DEF Behind
  <2>1. CASE t = u
    BY <2>1
  <2>2. CASE t # u
    <3>1. PICK o \in DOMAIN shells, p \in DOMAIN shells : From(t, o, s, h) /\ From(u, p, s, h)
      BY <2>2 DEF Pairs
    <3>2. k \in Has(o) \cap Has(p) /\ m \in Has(o)
      BY <3>1 DEF From
    <3>3. m \in Has(p)
      BY <3>2 DEF Shared, Behind
    <3>4. p = s => m # h
      <4>1. p = s => k \in Has(s) /\ k >= h /\ k \in Nat /\ m \in Nat /\ h \in Nat
        BY <1>1, <1>2, <3>2
      <4> QED
        BY <4>1
    <3> QED
      BY <3>1, <3>3, <3>4 DEF From
  <2> QED
    BY <2>1, <2>2
<1>7. Apart'
  <2> SUFFICES ASSUME NEW t \in DOMAIN shells', NEW u \in DOMAIN shells', t # u,
                      NEW k \in Has(t)', k \in Has(u)'
               PROVE  k \in copied'
    BY DEF Apart
  <2>1. PICK o \in DOMAIN shells, p \in DOMAIN shells :
          From(t, o, s, h) /\ From(u, p, s, h) /\ (o = p => Has(t)' \subseteq copied')
    BY DEF Pairs
  <2>2. CASE o = p
    BY <2>1, <2>2
  <2>3. CASE o # p
    <3>1. k \in Has(o) /\ k \in Has(p)
      BY <2>1 DEF From
    <3> QED
      BY <2>3, <3>1 DEF Shared, Apart
  <2> QED
    BY <2>2, <2>3
<1>8. Later'
  <2>1. \A k \in 1 .. Len(input) : k > taken => started'[k] = 0
    <3> SUFFICES ASSUME NEW k \in 1 .. Len(input), k > taken
                 PROVE  started'[k] = 0
      OBVIOUS
    <3>1. k # h
      BY <1>1, <1>2
    <3> QED
      BY <1>4, <3>1 DEF Shared, Later
  <2>2. ASSUME NEW k \in 1 .. Len(input), k \notin copied'
        PROVE  started'[k] <= 1 /\ \A t \in DOMAIN shells' : k \in Has(t)' => started'[k] = 0
    <3>1. k \notin copied /\ started[k] <= 1
      BY <2>2 DEF Shared, Later
    <3>2. CASE k = h
      <4>1. started[k] = 0
        BY <3>1, <3>2 DEF Shared, Later
      <4>2. started'[k] <= 1
        BY <1>1, <1>2, <3>2, <4>1
      <4>3. \A t \in DOMAIN shells' : k \notin Has(t)'
        <5> SUFFICES ASSUME NEW t \in DOMAIN shells', k \in Has(t)'
                     PROVE  FALSE
          OBVIOUS
        <5>1. PICK o \in DOMAIN shells : From(t, o, s, h)
          BY DEF Each
        <5>2. o # s /\ k \in Has(o)
          BY <3>2, <5>1 DEF From
        <5> QED
          BY <3>1, <3>2, <5>2 DEF Shared, Apart
      <4> QED
        BY <4>2, <4>3
    <3>3. CASE k # h
      <4>1. started'[k] = started[k]
        BY <1>4, <3>3
      <4>2. ASSUME NEW t \in DOMAIN shells', k \in Has(t)'
            PROVE  started[k] = 0
        <5>1. PICK o \in DOMAIN shells : k \in Has(o)
          BY <1>3, <4>2
        <5> QED
          BY <3>1, <5>1 DEF Shared, Later
      <4> QED
        BY <3>1, <4>1, <4>2
    <3> QED
      BY <3>2, <3>3
  <2> QED
    BY <2>1, <2>2 DEF Later
<1> QED
  BY <1>5, <1>6, <1>7, <1>8 DEF Shared

(* The shell that takes the line h and goes on at a place.                 *)
Takes(s, h, place) ==
  /\ shells' \in Seq(In!Shell) /\ \A t \in DOMAIN shells' : Rising(shells'[t].buf)
  /\ DOMAIN shells \subseteq DOMAIN shells'
  /\ \A t \in DOMAIN shells : t # s => shells'[t] = shells[t]
  /\ shells'[s].at = place /\ Has(s)' = Has(s) \ {h}
  /\ h \in Has(s) /\ (\A m \in Has(s) : m >= h)
  /\ h = Head(shells[s].buf)

(* Either there are no other shells than before, or one that has the same. *)
NoneNew == DOMAIN shells' = DOMAIN shells
OneNew(s) ==
  \E c : /\ c \notin DOMAIN shells /\ DOMAIN shells' = DOMAIN shells \cup {c}
         /\ Has(c)' = Has(s)' /\ Has(s)' \subseteq copied'

LEMMA ShellIs ==
  ASSUME Shared, NEW s \in DOMAIN shells
  PROVE  /\ shells[s] \in In!Shell /\ shells[s].buf \in Seq(Nat) /\ Rising(shells[s].buf)
         /\ shells[s].at \in {"prompt", "waiting", "ended"} /\ s \in 1 .. Len(shells)
<1>1. shells \in Seq(In!Shell) /\ Rising(shells[s].buf)
  BY DEF Shared, Buffers
<1>2. s \in 1 .. Len(shells) /\ shells[s] \in In!Shell
  BY <1>1, LenProperties, ElementOfSeq
<1> QED
  BY <1>1, <1>2 DEF In!Shell

LEMMA LineTaken ==
  ASSUME Shared, NEW s \in DOMAIN shells, NEW kind, In!Line(s, kind),
         NEW place \in {"prompt", "waiting", "ended"}, In!TakeLine(s, place)
  PROVE  \E h : Takes(s, h, place) /\ NoneNew /\ input[h] = kind
<1> DEFINE b == shells[s].buf
           h == Head(b)
<1>1. b \in Seq(Nat) /\ Rising(b) /\ b # <<>> /\ input[h] = kind
  BY ShellIs DEF In!Line, In!Buffer
<1>2. /\ Tail(b) \in Seq(Nat) /\ Rising(Tail(b)) /\ h \in In!ToSet(b)
      /\ In!ToSet(Tail(b)) = In!ToSet(b) \ {h} /\ (\A m \in In!ToSet(b) : m >= h)
  BY <1>1, RestOfBuffer
<1>3. /\ shells \in Seq(In!Shell) /\ s \in 1 .. Len(shells) /\ shells[s] \in In!Shell
  BY ShellIs DEF Shared, Buffers
<1> DEFINE new == [shells[s] EXCEPT !.buf = Tail(shells[s].buf), !.at = place]
<1>4. new \in In!Shell /\ new.buf = Tail(b) /\ new.at = place
  BY <1>2, <1>3 DEF In!Shell
<1>5. shells' = [shells EXCEPT ![s] = new]
  BY <1>3 DEF In!TakeLine, In!Rest
<1> HIDE DEF new, b, h
<1>6. shells' \in Seq(In!Shell) /\ DOMAIN shells' = DOMAIN shells /\ shells'[s] = new
      /\ \A t \in DOMAIN shells : t # s => shells'[t] = shells[t]
  <2>1. shells' \in Seq(In!Shell)
    BY <1>3, <1>4, <1>5, ExceptSeq
  <2> QED
    BY <1>5, <2>1
<1>7. Has(s)' = Has(s) \ {h} /\ Has(s) = In!ToSet(b)
  BY <1>2, <1>4, <1>6 DEF Has, b
<1>8. \A t \in DOMAIN shells' : Rising(shells'[t].buf)
  BY <1>2, <1>4, <1>6 DEF Shared, Buffers
<1>9. Takes(s, h, place) /\ NoneNew
  BY <1>2, <1>4, <1>6, <1>7, <1>8 DEF Takes, NoneNew, h, b
<1> QED
  BY <1>1, <1>9 DEF h

LEMMA LineCopied ==
  ASSUME Shared, NEW s \in DOMAIN shells, In!Unknown(s)
  PROVE  \E h : /\ Takes(s, h, "prompt") /\ OneNew(s) /\ input[h] = "unknown"
                /\ copied \subseteq copied'
<1> DEFINE b == shells[s].buf
           h == Head(b)
           n == Len(shells)
<1>1. /\ b \in Seq(Nat) /\ Rising(b) /\ b # <<>> /\ input[h] = "unknown"
      /\ shells[s].at = "prompt" /\ copied' = copied \cup In!ToSet(Tail(b))
  BY ShellIs DEF In!Unknown, In!Line, In!Buffer, In!At, In!Rest
<1>2. /\ Tail(b) \in Seq(Nat) /\ Rising(Tail(b)) /\ h \in In!ToSet(b)
      /\ In!ToSet(Tail(b)) = In!ToSet(b) \ {h} /\ (\A m \in In!ToSet(b) : m >= h)
  BY <1>1, RestOfBuffer
<1>3. /\ shells \in Seq(In!Shell) /\ s \in 1 .. n /\ shells[s] \in In!Shell
  BY ShellIs DEF Shared, Buffers
<1> DEFINE new == [shells[s] EXCEPT !.buf = Tail(shells[s].buf)]
           copy == [buf |-> Tail(shells[s].buf), at |-> "prompt", parent |-> s]
           old == [shells EXCEPT ![s] = new]
<1>4. new \in In!Shell /\ new.buf = Tail(b) /\ new.at = "prompt"
  BY <1>1, <1>2, <1>3 DEF In!Shell
<1>5. copy \in In!Shell /\ copy.buf = Tail(b)
  BY <1>2, <1>3 DEF In!Shell
<1>6. shells' = Append(old, copy)
  BY <1>3 DEF In!Unknown, In!Copy, In!Rest, In!Buffer
<1>7. /\ old \in Seq(In!Shell) /\ Len(old) = n /\ n \in Nat /\ DOMAIN shells = 1 .. n
      /\ old[s] = new /\ \A t \in 1 .. n : t # s => old[t] = shells[t]
  <2> HIDE DEF new
  <2>1. old \in Seq(In!Shell) /\ Len(old) = n
    BY <1>3, <1>4, ExceptSeq
  <2> QED
    BY <1>3, <2>1, LenProperties
<1> HIDE DEF new, copy, old, b, h, n
<1> PICK c : c = n + 1
  OBVIOUS
<1>8. /\ shells' \in Seq(In!Shell) /\ Len(shells') = n + 1 /\ shells'[c] = copy
      /\ \A t \in 1 .. n : shells'[t] = old[t]
  BY <1>5, <1>6, <1>7, AppendProperties
<1>9. DOMAIN shells' = 1 .. n + 1
  BY <1>8, LenProperties
<1>10. shells'[s] = new /\ \A t \in 1 .. n : t # s => shells'[t] = shells[t]
  BY <1>3, <1>7, <1>8
<1>11. Has(s)' = Has(s) \ {h} /\ Has(s) = In!ToSet(b) /\ Has(c)' = Has(s)'
  BY <1>2, <1>4, <1>5, <1>8, <1>10 DEF Has, b
<1>12. \A t \in DOMAIN shells' : Rising(shells'[t].buf)
  <2> SUFFICES ASSUME NEW t \in 1 .. n + 1
               PROVE  Rising(shells'[t].buf)
    BY <1>9
  <2>1. t \in 1 .. n \/ t = c
    BY <1>7
  <2> QED
    BY <1>2, <1>4, <1>5, <1>7, <1>8, <1>10, <2>1 DEF Shared, Buffers
<1>13. Takes(s, h, "prompt")
  BY <1>2, <1>4, <1>7, <1>8, <1>9, <1>10, <1>11, <1>12 DEF Takes, h, b
<1>14. OneNew(s)
  <2>1. c \notin 1 .. n /\ 1 .. n + 1 = (1 .. n) \cup {c}
    BY <1>7
  <2>2. Has(s)' \subseteq copied'
    BY <1>1, <1>2, <1>11
  <2> QED
    BY <1>7, <1>9, <1>11, <2>1, <2>2 DEF OneNew
<1> QED
  BY <1>1, <1>13, <1>14 DEF h

(* Either way the shells have what the lemma above asks for.               *)
LEMMA TakesShared ==
  ASSUME Shared, NEW s \in DOMAIN shells, NEW h, NEW place, Takes(s, h, place),
         NoneNew \/ OneNew(s), copied \subseteq copied',
         taken' = taken, input' = input,
         started' = started \/ started' = [started EXCEPT ![h] = @ + 1]
  PROVE  Shared'
<1>1. \A t \in DOMAIN shells : From(t, t, s, h)
  BY DEF Takes, From, Has
<1>2. Each(s, h) /\ Pairs(s, h)
  <2>1. CASE NoneNew
    BY <1>1, <2>1 DEF NoneNew, Each, Pairs
  <2>2. CASE OneNew(s)
    <3>1. PICK c : /\ c \notin DOMAIN shells /\ DOMAIN shells' = DOMAIN shells \cup {c}
                   /\ Has(c)' = Has(s)' /\ Has(s)' \subseteq copied'
      BY <2>2 DEF OneNew
    <3>2. From(c, s, s, h)
      BY <3>1 DEF Takes, From
    <3>3. Each(s, h)
      BY <1>1, <3>1, <3>2 DEF Each
    <3>4. ASSUME NEW t \in DOMAIN shells', NEW u \in DOMAIN shells', t # u
          PROVE  \E o, p \in DOMAIN shells :
                   From(t, o, s, h) /\ From(u, p, s, h) /\ (o = p => Has(t)' \subseteq copied')
      <4>1. CASE t \in DOMAIN shells /\ u \in DOMAIN shells
        BY <1>1, <3>4, <4>1
      <4>2. CASE t = c
        <5>1. u \in DOMAIN shells /\ From(u, u, s, h)
          BY <1>1, <3>1, <3>4, <4>2
        <5> QED
          BY <3>1, <3>2, <4>2, <5>1
      <4>3. CASE u = c
        <5>1. t \in DOMAIN shells /\ From(t, t, s, h)
          BY <1>1, <3>1, <3>4, <4>3
        <5> QED
          BY <3>1, <3>2, <4>3, <5>1
      <4> QED
        BY <3>1, <3>4, <4>1, <4>2, <4>3
    <3> QED
      BY <3>3, <3>4 DEF Pairs
  <2> QED
    BY <2>1, <2>2
<1> QED
  BY <1>2, TakenShared DEF Takes

(* No shell has a line before it that none had, and the others keep theirs.*)
LEMMA OnlyEarlierLive ==
  ASSUME NEW s \in DOMAIN shells, shells[s].at = "prompt", NEW h, NEW place,
         Takes(s, h, place), NoneNew \/ OneNew(s), NEW k, Live(k)'
  PROVE  Live(k)
<1>1. PICK t \in DOMAIN shells' : shells'[t].at # "ended" /\ k \in Has(t)'
  BY DEF Live
<1>2. CASE t \in DOMAIN shells /\ t # s
  <2>1. shells'[t] = shells[t]
    BY <1>2 DEF Takes
  <2> QED
    BY <1>1, <1>2, <2>1 DEF Live, Has
<1>3. CASE t = s \/ t \notin DOMAIN shells
  <2>1. Has(t)' = Has(s)'
    BY <1>1, <1>3 DEF NoneNew, OneNew
  <2>2. k \in Has(s)
    BY <1>1, <2>1 DEF Takes
  <2> QED
    BY <2>2 DEF Live
<1> QED
  BY <1>2, <1>3

LEMMA OthersLive ==
  ASSUME NEW s \in DOMAIN shells, NEW h, NEW place, Takes(s, h, place),
         NEW t \in DOMAIN shells, shells[t].at # "ended", NEW k \in Has(t),
         t # s \/ (k # h /\ place # "ended")
  PROVE  Live(k)'
<1>1. CASE t # s
  <2>1. t \in DOMAIN shells' /\ shells'[t] = shells[t]
    BY <1>1 DEF Takes
  <2> QED
    BY <2>1 DEF Live, Has
<1>2. CASE t = s
  <2>1. CASE t # s
    BY <1>1, <2>1
  <2>2. CASE k # h /\ place # "ended"
    BY <1>2, <2>2 DEF Takes, Live
  <2> QED
    BY <2>1, <2>2
<1> QED
  BY <1>1, <1>2

LEMMA TakesLost ==
  ASSUME Shared, NoneLost, NEW s \in DOMAIN shells, shells[s].at = "prompt",
         NEW h, NEW place, place # "ended",
         Takes(s, h, place), NoneNew \/ OneNew(s), taken' = taken, input' = input,
         \/ started' = started /\ input[h] \notin {"command", "unknown"}
         \/ started' = [started EXCEPT ![h] = @ + 1]
  PROVE  NoneLost'
<1>1. \A k : Live(k)' => Live(k)
  BY OnlyEarlierLive
<1>2. \A k : Live(k) /\ k # h => Live(k)'
  BY OthersLive DEF Live
<1>3. /\ started \in [1 .. Len(input) -> Nat] /\ Len(input) \in Nat
      /\ taken \in 0 .. Len(input) /\ h \in 1 .. taken
  BY DEF Shared, Buffers, Takes
<1>4. ASSUME NEW k \in 1 .. taken, input[k] \in {"command", "unknown"}
      PROVE  \/ started'[k] > 0 \/ Live(k)'
             \/ \E m \in 1 .. taken : input[m] = "exit" /\ ~Live(m)'
  <2>1. k \in 1 .. Len(input) /\ started[k] \in Nat
    BY <1>3
  <2>2. started[k] > 0 => started'[k] > 0
    BY <1>3, <2>1
  <2>3. k = h => started'[k] > 0
    BY <1>3, <1>4, <2>1
  <2>4. started[k] > 0 \/ Live(k) \/ \E m \in 1 .. taken : input[m] = "exit" /\ ~Live(m)
    BY <1>4 DEF NoneLost
  <2> QED
    BY <1>1, <1>2, <2>2, <2>3, <2>4
<1> QED
  BY <1>4 DEF NoneLost

(* Who exits leaves its lines behind; but if another shell still has to    *)
(* read exit, it also has the lines after it.                              *)
LEMMA ExitLost ==
  ASSUME Shared, NoneLost, NEW s \in DOMAIN shells, shells[s].at = "prompt",
         NEW h, Takes(s, h, "ended"), NoneNew, input[h] = "exit",
         taken' = taken, input' = input, started' = started
  PROVE  NoneLost'
<1>1. \A k : Live(k)' => Live(k)
  BY OnlyEarlierLive
<1>2. h \in 1 .. taken /\ h \in Nat /\ Has(s) \subseteq Nat
  BY DEF Shared, Buffers, Takes
<1>3. ASSUME NEW k, Live(k), k # h, Live(h)'
      PROVE  Live(k)'
  <2>1. PICK t \in DOMAIN shells : shells[t].at # "ended" /\ k \in Has(t)
    BY <1>3 DEF Live
  <2>2. CASE t # s
    BY <2>1, <2>2, OthersLive
  <2>3. CASE t = s
    <3>1. PICK u \in DOMAIN shells' : shells'[u].at # "ended" /\ h \in Has(u)'
      BY <1>3 DEF Live
    <3>2. u \in DOMAIN shells /\ u # s
      BY <3>1 DEF NoneNew, Takes
    <3>3. shells'[u] = shells[u] /\ h \in Has(u)
      BY <3>1, <3>2 DEF Takes, Has
    <3>4. k \in Has(s) /\ k > h /\ h \in Has(s)
      BY <1>2, <1>3, <2>1, <2>3 DEF Takes
    <3>5. k \in Has(u)
      BY <3>2, <3>3, <3>4 DEF Shared, Behind
    <3> QED
      BY <3>1, <3>2, <3>3, <3>5, OthersLive
  <2> QED
    BY <2>2, <2>3
<1>4. ASSUME NEW k \in 1 .. taken, input[k] \in {"command", "unknown"}
      PROVE  \/ started[k] > 0 \/ Live(k)'
             \/ \E m \in 1 .. taken : input[m] = "exit" /\ ~Live(m)'
  <2>1. k # h
    BY <1>4
  <2>2. started[k] > 0 \/ Live(k) \/ \E m \in 1 .. taken : input[m] = "exit" /\ ~Live(m)
    BY <1>4 DEF NoneLost
  <2>3. CASE started[k] > 0
    BY <2>3
  <2>4. CASE Live(k)
    <3>1. CASE Live(h)'
      BY <1>3, <2>1, <2>4, <3>1
    <3>2. CASE ~Live(h)'
      BY <1>2, <3>2
    <3> QED
      BY <3>1, <3>2
  <2>5. CASE \E m \in 1 .. taken : input[m] = "exit" /\ ~Live(m)
    BY <1>1, <2>5
  <2> QED
    BY <2>2, <2>3, <2>4, <2>5
<1> QED
  BY <1>4 DEF NoneLost

(* Steps that move no lines.                                               *)
LEMMA SameLines ==
  ASSUME Shared, NoneLost, UNCHANGED <<input, taken, started, copied>>,
         shells' \in Seq(In!Shell), DOMAIN shells' = DOMAIN shells,
         \A t \in DOMAIN shells :
           /\ shells'[t].buf = shells[t].buf
           /\ shells'[t].at = "ended" => shells[t].at = "ended" \/ Has(t) = {}
           /\ shells[t].at = "ended" => shells'[t].at = "ended"
  PROVE  Shared' /\ NoneLost'
<1>1. \A t \in DOMAIN shells : Has(t)' = Has(t)
  BY DEF Has
<1>2. Shared'
  BY <1>1 DEF Shared, Buffers, Behind, Apart, Later, In!Kinds, In!Shell
<1>3. \A k : Live(k)' <=> Live(k)
  BY <1>1 DEF Live
<1>4. NoneLost'
  BY <1>3 DEF NoneLost
<1> QED
  BY <1>2, <1>4

(* stdio reads lines that nobody has had.                                  *)
LEMMA LinesRead ==
  ASSUME NEW a \in Nat, NEW z \in Nat, z > a, NEW more, more = [k \in 1 .. z - a |-> a + k]
  PROVE  more \in Seq(Nat) /\ Rising(more) /\ In!ToSet(more) = a + 1 .. z
<1>1. z - a \in Nat
  OBVIOUS
<1>2. more \in Seq(Nat) /\ Rising(more)
  BY <1>1 DEF Rising
<1>3. \A k \in a + 1 .. z : k - a \in 1 .. z - a /\ a + (k - a) = k
  OBVIOUS
<1>4. \A k \in 1 .. z - a : a + k \in a + 1 .. z
  OBVIOUS
<1>5. In!ToSet(more) = a + 1 .. z
  BY <1>3, <1>4 DEF In!ToSet
<1> QED
  BY <1>2, <1>5

LEMMA FillIs ==
  ASSUME Shared, NEW s \in DOMAIN shells, In!Fill(s)
  PROVE  /\ shells' \in Seq(In!Shell) /\ DOMAIN shells' = DOMAIN shells
         /\ \A t \in DOMAIN shells : t # s => shells'[t] = shells[t]
         /\ shells'[s].at = "prompt" /\ Has(s) = {} /\ Has(s)' = taken + 1 .. taken'
         /\ Rising(shells'[s].buf) /\ taken' \in taken .. Len(input)
<1>1. /\ taken \in Nat /\ taken' \in taken + 1 .. Len(input) /\ Len(input) \in Nat
      /\ shells[s].at = "prompt" /\ shells[s].buf = <<>>
  BY DEF Shared, Buffers, In!Fill, In!At, In!Buffer
<1>2. PICK a \in Nat, z \in Nat : a = taken /\ z = taken' /\ z > a
  <2>1. taken' \in Nat /\ taken' > taken
    BY <1>1
  <2> QED
    BY <1>1, <2>1
<1> DEFINE more == [k \in 1 .. z - a |-> a + k]
<1>3. more \in Seq(Nat) /\ Rising(more) /\ In!ToSet(more) = a + 1 .. z
  BY <1>2, LinesRead
<1>4. In!ToSet(more) = taken + 1 .. taken'
  BY <1>2, <1>3
<1>5. /\ shells \in Seq(In!Shell) /\ s \in 1 .. Len(shells) /\ shells[s] \in In!Shell
  BY ShellIs DEF Shared, Buffers
<1> DEFINE new == [shells[s] EXCEPT !.buf = more]
<1>6. new \in In!Shell /\ new.buf = more /\ new.at = "prompt"
  <2> HIDE DEF more
  <2> QED
    BY <1>1, <1>3, <1>5 DEF In!Shell
<1>7. shells' = [shells EXCEPT ![s] = new]
  BY <1>2, <1>5 DEF In!Fill
<1> HIDE DEF more, new
<1>8. /\ shells' \in Seq(In!Shell) /\ DOMAIN shells' = DOMAIN shells /\ shells'[s] = new
      /\ \A t \in DOMAIN shells : t # s => shells'[t] = shells[t]
  <2>1. shells' \in Seq(In!Shell)
    BY <1>5, <1>6, <1>7, ExceptSeq
  <2> QED
    BY <1>7, <2>1
<1>9. Has(s) = {} /\ Has(s)' = taken + 1 .. taken'
  BY <1>1, <1>4, <1>6, <1>8 DEF Has, In!ToSet
<1> QED
  BY <1>1, <1>3, <1>6, <1>8, <1>9

LEMMA FillKeeps ==
  ASSUME Shared, NoneLost, NEW s \in DOMAIN shells, In!Fill(s)
  PROVE  Shared' /\ NoneLost'
<1>1. /\ shells' \in Seq(In!Shell) /\ DOMAIN shells' = DOMAIN shells
      /\ \A t \in DOMAIN shells : t # s => shells'[t] = shells[t]
      /\ shells'[s].at = "prompt" /\ Has(s) = {} /\ Has(s)' = taken + 1 .. taken'
      /\ Rising(shells'[s].buf) /\ taken' \in taken .. Len(input)
  BY FillIs
<1>2. input' = input /\ started' = started /\ copied' = copied /\ shells[s].at = "prompt"
  BY DEF In!Fill, In!At
<1>3. /\ taken \in 0 .. Len(input) /\ Len(input) \in Nat
      /\ started \in [1 .. Len(input) -> Nat]
      /\ \A t \in DOMAIN shells : Has(t) \subseteq 1 .. taken /\ Rising(shells[t].buf)
  BY DEF Shared, Buffers
<1>4. \A t \in DOMAIN shells : t # s => Has(t)' = Has(t)
  BY <1>1 DEF Has
<1>5. Buffers'
  <2>1. \A t \in DOMAIN shells : Rising(shells'[t].buf) /\ Has(t)' \subseteq 1 .. taken'
    <3> SUFFICES ASSUME NEW t \in DOMAIN shells
                 PROVE  Rising(shells'[t].buf) /\ Has(t)' \subseteq 1 .. taken'
      OBVIOUS
    <3>1. CASE t = s
      BY <1>1, <1>3, <3>1
    <3>2. CASE t # s
      BY <1>1, <1>3, <1>4, <3>2
    <3> QED
      BY <3>1, <3>2
  <2>2. input' \in Seq(In!Kinds) /\ taken' \in 0 .. Len(input')
    BY <1>1, <1>2, <1>3 DEF Shared, Buffers
  <2> QED
    BY <1>1, <1>2, <1>3, <2>1, <2>2 DEF Buffers, In!Kinds, In!Shell
<1>6. \A t \in DOMAIN shells : t # s => Has(t)' \cap Has(s)' = {}
  BY <1>1, <1>3, <1>4
<1>7. Behind'
  <2> SUFFICES ASSUME NEW t \in DOMAIN shells, NEW u \in DOMAIN shells,
                      NEW k \in Has(t)' \cap Has(u)', NEW m \in Has(t)', m > k
               PROVE  m \in Has(u)'
    BY <1>1 DEF Behind
  <2>1. CASE t = u
    BY <2>1
  <2>2. CASE t # u
    <3>1. t # s /\ u # s
      BY <1>6, <2>2
    <3>2. Has(t)' = Has(t) /\ Has(u)' = Has(u)
      BY <1>4, <3>1
    <3> QED
      BY <3>2 DEF Shared, Behind
  <2> QED
    BY <2>1, <2>2
<1>8. Apart'
  BY <1>1, <1>2, <1>4, <1>6 DEF Shared, Apart
<1>9. Later'
  <2>1. \A k \in 1 .. Len(input) : k > taken' => k > taken
    BY <1>1, <1>3
  <2>2. \A k \in Has(s)' : k \in 1 .. Len(input) /\ started[k] = 0
    BY <1>1, <1>3 DEF Shared, Later
  <2>3. ASSUME NEW k \in (1 .. Len(input)) \ copied, NEW t \in DOMAIN shells, k \in Has(t)'
        PROVE  started[k] = 0
    <3>1. CASE t = s
      BY <2>2, <2>3, <3>1
    <3>2. CASE t # s
      BY <1>4, <2>3, <3>2 DEF Shared, Later
    <3> QED
      BY <3>1, <3>2
  <2>4. \A k \in 1 .. Len(input) : k > taken' => started[k] = 0
    BY <2>1 DEF Shared, Later
  <2>5. \A k \in (1 .. Len(input)) \ copied : started[k] <= 1
    BY DEF Shared, Later
  <2> QED
    BY <1>1, <1>2, <2>3, <2>4, <2>5 DEF Later
<1>10. \A k : Live(k)' <=> Live(k) \/ k \in taken + 1 .. taken'
  <2> SUFFICES ASSUME NEW k
               PROVE  Live(k)' <=> Live(k) \/ k \in taken + 1 .. taken'
    OBVIOUS
  <2>1. ASSUME Live(k)'
        PROVE  Live(k) \/ k \in taken + 1 .. taken'
    <3>1. PICK t \in DOMAIN shells : shells'[t].at # "ended" /\ k \in Has(t)'
      BY <1>1, <2>1 DEF Live
    <3> QED
      BY <1>1, <1>4, <3>1 DEF Live
  <2>2. ASSUME Live(k)
        PROVE  Live(k)'
    <3>1. PICK t \in DOMAIN shells : shells[t].at # "ended" /\ k \in Has(t)
      BY <2>2 DEF Live
    <3> QED
      BY <1>1, <1>4, <3>1 DEF Live
  <2>3. k \in taken + 1 .. taken' => Live(k)'
    BY <1>1 DEF Live
  <2> QED
    BY <2>1, <2>2, <2>3
<1>11. NoneLost'
  <2> SUFFICES ASSUME NEW k \in 1 .. taken', input[k] \in {"command", "unknown"}
               PROVE  \/ started[k] > 0 \/ Live(k)'
                      \/ \E m \in 1 .. taken' : input[m] = "exit" /\ ~Live(m)'
    BY <1>2 DEF NoneLost
  <2>1. CASE k \in taken + 1 .. taken'
    BY <1>10, <2>1
  <2>2. CASE k \in 1 .. taken
    <3>1. started[k] > 0 \/ Live(k) \/ \E m \in 1 .. taken : input[m] = "exit" /\ ~Live(m)
      BY <2>2 DEF NoneLost
    <3>2. \A m \in 1 .. taken : m \in 1 .. taken' /\ m \notin taken + 1 .. taken'
      BY <1>1, <1>3
    <3> QED
      BY <1>10, <3>1, <3>2
  <2> QED
    BY <1>1, <1>3, <2>1, <2>2
<1> QED
  BY <1>5, <1>7, <1>8, <1>9, <1>11 DEF Shared

(* The steps of a shell.                                                   *)
LEMMA ShellRuns ==
  ASSUME Shared, NoneLost, NEW s \in DOMAIN shells, In!Runs(s)
  PROVE  Shared' /\ NoneLost'
<1>1. CASE In!Fill(s)
  BY <1>1, FillKeeps
<1>2. CASE In!EndOfInput(s) \/ In!AllEnded(s)
  <2>1. PICK place \in {"prompt", "ended"} :
          /\ shells' = [shells EXCEPT ![s].at = place]
          /\ place = "ended" => shells[s].buf = <<>>
          /\ shells[s].at # "ended"
    BY <1>2, Zenon DEF In!EndOfInput, In!AllEnded, In!Breaks, In!At, In!Buffer
  <2>2. UNCHANGED <<input, taken, started, copied>>
    BY <1>2 DEF In!EndOfInput, In!AllEnded
  <2>3. shells \in Seq(In!Shell) /\ s \in 1 .. Len(shells) /\ shells[s] \in In!Shell
    BY ShellIs DEF Shared, Buffers
  <2> DEFINE new == [shells[s] EXCEPT !.at = place]
  <2>4. new \in In!Shell /\ new.buf = shells[s].buf /\ new.at = place
    BY <2>3 DEF In!Shell
  <2>5. shells' = [shells EXCEPT ![s] = new]
    BY <2>1, <2>3
  <2> HIDE DEF new
  <2>6. /\ shells' \in Seq(In!Shell) /\ DOMAIN shells' = DOMAIN shells /\ shells'[s] = new
        /\ \A t \in DOMAIN shells : t # s => shells'[t] = shells[t]
    <3>1. shells' \in Seq(In!Shell)
      BY <2>3, <2>4, <2>5, ExceptSeq
    <3> QED
      BY <2>5, <3>1
  <2>7. place = "ended" => Has(s) = {}
    BY <2>1 DEF Has, In!ToSet
  <2> QED
    BY <2>1, <2>2, <2>4, <2>6, <2>7, SameLines
<1>3. CASE In!Nothing(s)
  <2>1. /\ In!Line(s, "nothing") /\ In!TakeLine(s, "prompt") /\ shells[s].at = "prompt"
        /\ UNCHANGED <<input, taken, started, copied>>
    BY <1>3 DEF In!Nothing, In!Line, In!At
  <2>2. PICK h : Takes(s, h, "prompt") /\ NoneNew /\ input[h] = "nothing"
    BY <2>1, LineTaken
  <2> QED
    BY <2>1, <2>2, TakesShared, TakesLost
<1>4. CASE In!WaitAll(s)
  <2>1. /\ In!Line(s, "wait-all") /\ In!TakeLine(s, "waiting") /\ shells[s].at = "prompt"
        /\ UNCHANGED <<input, taken, started, copied>>
    BY <1>4 DEF In!WaitAll, In!Line, In!At
  <2>2. PICK h : Takes(s, h, "waiting") /\ NoneNew /\ input[h] = "wait-all"
    BY <2>1, LineTaken
  <2> QED
    BY <2>1, <2>2, TakesShared, TakesLost
<1>5. CASE In!Exit(s)
  <2>1. /\ In!Line(s, "exit") /\ In!TakeLine(s, "ended") /\ shells[s].at = "prompt"
        /\ UNCHANGED <<input, taken, started, copied>>
    BY <1>5 DEF In!Exit, In!Line, In!At
  <2>2. PICK h : Takes(s, h, "ended") /\ NoneNew /\ input[h] = "exit"
    BY <2>1, LineTaken
  <2> QED
    BY <2>1, <2>2, TakesShared, ExitLost
<1>6. CASE In!Command(s)
  <2>1. /\ In!Line(s, "command") /\ In!TakeLine(s, "prompt") /\ shells[s].at = "prompt"
        /\ started' = [started EXCEPT ![Head(shells[s].buf)] = @ + 1]
        /\ UNCHANGED <<input, taken, copied>>
    BY <1>6 DEF In!Command, In!Line, In!At, In!StartJob, In!Buffer
  <2>2. PICK h : Takes(s, h, "prompt") /\ NoneNew /\ input[h] = "command"
    BY <2>1, LineTaken
  <2>3. started' = [started EXCEPT ![h] = @ + 1]
    BY <2>1, <2>2 DEF Takes
  <2> QED
    BY <2>1, <2>2, <2>3, TakesShared, TakesLost
<1>7. CASE In!Unknown(s)
  <2>1. /\ shells[s].at = "prompt" /\ UNCHANGED <<input, taken>>
        /\ started' = [started EXCEPT ![Head(shells[s].buf)] = @ + 1]
    BY <1>7 DEF In!Unknown, In!Line, In!At, In!StartJob, In!Buffer
  <2>2. PICK h : /\ Takes(s, h, "prompt") /\ OneNew(s) /\ input[h] = "unknown"
                 /\ copied \subseteq copied'
    BY <1>7, LineCopied
  <2>3. started' = [started EXCEPT ![h] = @ + 1]
    BY <2>1, <2>2 DEF Takes
  <2> QED
    BY <2>1, <2>2, <2>3, TakesShared, TakesLost
<1> QED
  BY <1>1, <1>2, <1>3, <1>4, <1>5, <1>6, <1>7 DEF In!Runs

(* At the start the one shell has read nothing.                            *)
LEMMA LinesStart ==
  ASSUME In!Init \/ NoInput
  PROVE  Shared /\ NoneLost
<1>1. /\ input \in Seq(In!Kinds) /\ taken = 0 /\ copied = {}
      /\ started = [k \in 1 .. Len(input) |-> 0]
      /\ \E place \in {"prompt", "ended"} :
           shells = <<[buf |-> <<>>, at |-> place, parent |-> 0]>>
  <2>1. CASE In!Init
    <3>1. PICK n \in 0 .. MaxLines : input \in [1 .. n -> In!Kinds]
      BY <2>1 DEF In!Init
    <3>2. n \in Nat
      BY PartsAssumption DEF In!LinesAssumption
    <3> QED
      BY <2>1, <3>1, <3>2 DEF In!Init, In!Lines
  <2>2. CASE NoInput
    BY <2>2 DEF NoInput
  <2> QED
    BY <2>1, <2>2
<1>2. Len(input) \in Nat
  BY <1>1, LenProperties
<1>3. /\ shells \in Seq(In!Shell) /\ DOMAIN shells = {1} /\ Has(1) = {}
      /\ Rising(shells[1].buf)
  BY <1>1 DEF In!Shell, Has, In!ToSet, Rising
<1>4. Buffers
  BY <1>1, <1>2, <1>3 DEF Buffers
<1>5. Behind /\ Apart /\ Later
  BY <1>1, <1>3 DEF Behind, Apart, Later
<1> QED
  BY <1>1, <1>4, <1>5 DEF Shared, NoneLost

LEMMA LinesKept ==
  ASSUME Shared, NoneLost, In!Next \/ UNCHANGED inputVars
  PROVE  Shared' /\ NoneLost'
<1>1. CASE In!Next
  <2>1. PICK s \in DOMAIN shells : In!Runs(s)
    BY <1>1 DEF In!Next
  <2> QED
    BY <2>1, ShellRuns
<1>2. CASE UNCHANGED inputVars
  BY <1>2, SameLines DEF inputVars, Shared, Buffers
<1> QED
  BY <1>1, <1>2

LEMMA LinesAreEnough ==
  ASSUME Shared, NoneLost
  PROVE  LinesRunOnce
<1>1. In!OneJobEach
  BY DEF Shared, Later, In!OneJobEach, In!Lines
<1>2. \A k : k \in In!Held <=> Live(k)
  BY DEF In!Held, Live, Has, In!Buffer, In!Ended, In!At
<1>3. In!NoLineLost
  BY <1>2 DEF NoneLost, In!NoLineLost
<1> QED
  BY <1>1, <1>3 DEF LinesRunOnce

(* For any input and any number of shells: none of its lines is started    *)
(* twice, unless stdio had already read it when a shell was forked that    *)
(* came back, and none is lost (cmd_start, main).                          *)
THEOREM LinesAreRun == ShellSpec => []LinesRunOnce
<1>1. ShellInit => Shared /\ NoneLost
  BY LinesStart, Zenon DEF ShellInit
<1>2. Shared /\ NoneLost /\ [ShellNext]_<<part, vars, inputVars, outputVars>> =>
        Shared' /\ NoneLost'
  <2> SUFFICES ASSUME Shared, NoneLost,
                      [ShellNext]_<<part, vars, inputVars, outputVars>>
               PROVE  Shared' /\ NoneLost'
    OBVIOUS
  <2>1. In!Next \/ UNCHANGED inputVars
    BY DEF ShellNext
  <2> QED
    BY <2>1, LinesKept
<1>3. Shared /\ NoneLost => LinesRunOnce
  BY LinesAreEnough
<1> QED
  BY <1>1, <1>2, <1>3, PTL DEF ShellSpec

-----------------------------------------------------------------------------
(* What bounds the table, its outputs and the pass over it.                *)
Sized ==
  /\ Len(jobs) <= MaxChild /\ at <= MaxChild + 1
  /\ \A j \in 1 .. Len(jobs) : jobs[j].output_size \in -1 .. MaxOut
  /\ cap \in Nat /\ got \in 0 .. MaxOut

(* What a process still has to write, what is in its pipe, and what was    *)
(* read from it are never more than it writes at most.                     *)
Amounts ==
  /\ todo \in [Procs -> 0 .. MaxOut]
  /\ held \in [Procs -> 0 .. PipeCap] /\ atEnd \in [Procs -> 0 .. PipeCap]
  /\ \A p \in Procs : /\ p > forked => held[p] = 0 /\ todo[p] = 0
                      /\ todo[p] + held[p] <= MaxOut
PartlyRead ==
  pc = "more" /\ Pipe \in Procs => got + (held[Pipe] + todo[Pipe]) <= MaxOut

Others == kept \subseteq Procs /\ shellW \subseteq Procs /\ events \in 0 .. MaxEvents

JobTypes == Sized /\ Amounts /\ PartlyRead /\ Others

LEMMA JobTypesStart == Init => JobTypes
<1> SUFFICES ASSUME Init PROVE JobTypes
  OBVIOUS
<1>1. jobs = <<>> /\ Len(jobs) = 0 /\ pc = "prompt" /\ at = 1 /\ cap = 0 /\ got = 0
  BY DEF Init
<1>2. MaxChild \in Nat \ {0} /\ MaxOut \in Nat /\ PipeCap \in Nat /\ MaxEvents \in Nat
  BY CommandoAssumption
<1>3. Sized
  BY <1>1, <1>2 DEF Sized
<1>4. Amounts /\ Others
  BY <1>2 DEF Init, Amounts, Others
<1> QED
  BY <1>1, <1>3, <1>4 DEF JobTypes, PartlyRead

(* The pass goes on, at a job of the table or behind the last.             *)
LEMMA NextAt ==
  ASSUME Rows, Sized, at <= Len(jobs), NextJob
  PROVE  at' <= MaxChild + 1 /\ pc' = "look"
<1>1. Len(jobs) \in Nat /\ at \in Nat /\ MaxChild \in Nat \ {0}
  BY RowsOf, CommandoAssumption DEF Rows
<1> QED
  BY <1>1 DEF Sized, NextJob, Pass

(* Steps that change only where the shell is.                              *)
LEMMA MovesKeep ==
  ASSUME JobTypes, UNCHANGED <<jobs, cap, got, shellW, held, procVars>>,
         at' <= MaxChild + 1, pc' # "more"
  PROVE  JobTypes'
<1>1. Sized'
  BY DEF JobTypes, Sized
<1>2. Amounts' /\ Others'
  BY DEF JobTypes, Amounts, Others, procVars
<1> QED
  BY <1>1, <1>2 DEF JobTypes, PartlyRead

LEMMA QuietTypes ==
  ASSUME TableInv, JobTypes, QuietLine \/ EndPass \/ SkipFinished \/ NoAnswer
  PROVE  JobTypes'
<1>1. /\ Rows /\ Sized /\ Len(jobs) \in Nat /\ MaxChild \in Nat \ {0} /\ at \in Nat
      /\ Len(jobs) <= MaxChild /\ at <= MaxChild + 1
  BY RowsOf, CommandoAssumption DEF TableInv, Rows, JobTypes, Sized
<1>2. UNCHANGED <<jobs, cap, got, shellW, held, procVars>>
  BY DEF QuietLine, Report, OutputForNoJob, Pause, WaitFor, WaitAll, Exit,
     EndPass, SkipFinished, NoAnswer
<1>3. CASE QuietLine
  BY <1>1, <1>2, <1>3, MovesKeep
     DEF QuietLine, Report, OutputForNoJob, Pause, WaitFor, WaitAll, Exit, Pass
<1>4. CASE EndPass
  BY <1>1, <1>2, <1>4, MovesKeep DEF EndPass, Pass
<1>5. CASE SkipFinished \/ NoAnswer
  <2>1. NextJob /\ at <= Len(jobs)
    BY <1>1, <1>5 DEF SkipFinished, NoAnswer, AtJob, PassOver
  <2>2. at' <= MaxChild + 1 /\ pc' = "look"
    BY <1>1, <2>1, NextAt
  <2> QED
    BY <1>2, <2>2, MovesKeep
<1> QED
  BY <1>3, <1>4, <1>5

(* A command: the new process has written nothing yet.                     *)
LEMMA RunTypes ==
  ASSUME TableInv, JobTypes, RunJob \/ RunFails
  PROVE  JobTypes'
<1>1. /\ Rows /\ Len(jobs) \in Nat /\ MaxChild \in Nat \ {0} /\ MaxOut \in Nat
      /\ Len(jobs) <= MaxChild /\ forked \in 0 .. MaxProcs /\ MaxProcs \in Nat
  BY RowsOf, CommandoAssumption DEF TableInv, Rows, JobTypes, Sized
<1>2. PICK p \in Procs \cup {NoProc} :
        /\ Run(p) /\ shellW' = shellW
        /\ UNCHANGED <<kept, events, atEnd>>
        /\ \/ UNCHANGED <<forked, todo>>
           \/ /\ forked < MaxProcs /\ forked' = forked + 1
              /\ \E n \in 0 .. MaxOut : todo' = [todo EXCEPT ![forked'] = n]
  <2>1. CASE RunJob
    <3>1. forked' \in Procs
      BY <1>1, <2>1 DEF RunJob, Procs
    <3> QED
      BY <2>1, <3>1 DEF RunJob, ParentCloses
  <2>2. CASE RunFails
    BY <2>2 DEF RunFails, procVars
  <2> QED
    BY <2>1, <2>2
<1>3. /\ Len(jobs') = Last /\ Last <= MaxChild
      /\ \A j \in 1 .. Last : j # Last => jobs'[j] = jobs[j] /\ j \in 1 .. Len(jobs)
      /\ \A j \in 1 .. Len(jobs) : jobs'[j].output_size = jobs[j].output_size
      /\ Len(jobs) # Last => jobs'[Last].output_size = NoOutput
      /\ Last \in Nat \ {0} /\ Len(jobs) \in {Last, Last - 1}
  <2>1. Last <= MaxChild
    <3>1. CASE TableFull
      BY <1>1, <3>1 DEF Last, Added
    <3>2. CASE ~TableFull
      BY <1>1, <3>2, AddedRows DEF TableFull
    <3> QED
      BY <3>1, <3>2
  <2> QED
    BY <1>1, <1>2, <2>1, RunRows, AddedRows
<1>4. Sized'
  <2>1. \A j \in 1 .. Last : jobs'[j].output_size \in -1 .. MaxOut
    <3> TAKE j \in 1 .. Last
    <3>1. CASE j \in 1 .. Len(jobs)
      BY <1>3, <3>1 DEF JobTypes, Sized
    <3>2. CASE j \notin 1 .. Len(jobs)
      <4>1. j = Last /\ Len(jobs) # Last
        BY <1>3, <3>2
      <4> QED
        BY <1>1, <1>3, <4>1 DEF NoOutput
    <3> QED
      BY <3>1, <3>2
  <2>2. at' = 1 /\ cap' = cap /\ got' = got
    BY <1>2 DEF Run, Pass
  <2> QED
    BY <1>1, <1>3, <2>1, <2>2 DEF JobTypes, Sized
<1>5. held' = held /\ pc' = "look"
  BY <1>2 DEF Run, Pass
<1>6. Amounts'
  <2>1. CASE UNCHANGED <<forked, todo>>
    BY <1>2, <1>5, <2>1 DEF JobTypes, Amounts
  <2>2. CASE forked < MaxProcs /\ forked' = forked + 1
             /\ \E n \in 0 .. MaxOut : todo' = [todo EXCEPT ![forked'] = n]
    <3>1. PICK n \in 0 .. MaxOut : todo' = [todo EXCEPT ![forked + 1] = n]
      BY <2>2
    <3>2. PICK f : f = forked + 1
      OBVIOUS
    <3>3. f \in Procs /\ f > forked /\ forked' = f
      BY <1>1, <2>2, <3>2 DEF Procs
    <3>4. /\ todo' \in [Procs -> 0 .. MaxOut] /\ todo'[f] = n
          /\ \A q \in Procs : q # f => todo'[q] = todo[q]
      BY <3>1, <3>2, <3>3 DEF JobTypes, Amounts
    <3>5. \A q \in Procs : /\ q > f => held'[q] = 0 /\ todo'[q] = 0
                           /\ todo'[q] + held'[q] <= MaxOut
      <4> TAKE q \in Procs
      <4>1. q > f => q > forked /\ q # f
        BY <1>1, <3>2 DEF Procs
      <4>2. held[f] = 0
        BY <3>3 DEF JobTypes, Amounts
      <4>3. todo'[q] + held'[q] <= MaxOut
        BY <1>5, <3>4, <4>2 DEF JobTypes, Amounts
      <4>4. q > f => held'[q] = 0 /\ todo'[q] = 0
        BY <1>5, <3>4, <4>1 DEF JobTypes, Amounts
      <4> QED
        BY <4>3, <4>4
    <3> QED
      BY <1>2, <1>5, <3>3, <3>4, <3>5 DEF JobTypes, Amounts
  <2> QED
    BY <1>2, <2>1, <2>2
<1>7. Others'
  BY <1>2 DEF JobTypes, Others
<1> QED
  BY <1>4, <1>5, <1>6, <1>7 DEF JobTypes, PartlyRead

(* cmd_update_state: what it finds finished has no output yet.             *)
LEMMA WaitTypes ==
  ASSUME TableInv, JobTypes, NoChild \/ \E p \in Procs : WaitAnswers(p)
  PROVE  JobTypes'
<1>1. /\ Rows /\ at \in 1 .. Len(jobs) /\ Len(jobs) \in Nat /\ Sized /\ pc = "look"
      /\ UNCHANGED <<cap, got, shellW, held, forked, todo, kept, events, atEnd>>
  BY RowsOf DEF NoChild, WaitAnswers, AtJob, PassOver, TableInv, Rows, JobTypes, procVars
<1>2. \/ UNCHANGED jobs
      \/ \E s \in Procs \cup {NoProc, Unknown} :
           jobs' = [jobs EXCEPT ![at].finished = TRUE, ![at].status = s]
  BY WaitKeeps, NoChildKeeps
<1>3. Len(jobs') = Len(jobs)
      /\ \A j \in 1 .. Len(jobs) : jobs'[j].output_size = jobs[j].output_size
  <2>1. CASE UNCHANGED jobs
    BY <2>1
  <2>2. ASSUME NEW s \in Procs \cup {NoProc, Unknown},
               jobs' = [jobs EXCEPT ![at].finished = TRUE, ![at].status = s]
        PROVE  Len(jobs') = Len(jobs)
               /\ \A j \in 1 .. Len(jobs) : jobs'[j].output_size = jobs[j].output_size
    <3> DEFINE row == [jobs[at] EXCEPT !.finished = TRUE, !.status = s]
    <3>1. jobs[at] \in Row
      BY <1>1, RowsOf
    <3>2. row \in Row /\ row.output_size = jobs[at].output_size
      BY <3>1 DEF Row
    <3>3. jobs' = [jobs EXCEPT ![at] = row]
      BY <1>1, <2>2 DEF Rows
    <3> HIDE DEF row
    <3>4. Len(jobs') = Len(jobs) /\ \A j \in 1 .. Len(jobs) : jobs'[j] = IF j = at THEN row ELSE jobs[j]
      BY <1>1, <3>2, <3>3, ExceptSeq DEF Rows
    <3> QED
      BY <3>2, <3>4
  <2> QED
    BY <1>2, <2>1, <2>2
<1>4. at' <= MaxChild + 1 /\ pc' # "more"
  <2>1. NextJob \/ (pc' = "first" /\ UNCHANGED at)
    BY DEF NoChild, WaitAnswers
  <2> QED
    BY <1>1, <2>1, NextAt DEF Sized
<1>5. Sized'
  BY <1>1, <1>3, <1>4 DEF Sized
<1>6. Amounts' /\ Others'
  BY <1>1 DEF JobTypes, Amounts, Others
<1> QED
  BY <1>4, <1>5, <1>6 DEF JobTypes, PartlyRead

(* A read moves units from the pipe to what has been read.                 *)
Moved(n) ==
  /\ \A q \in Procs : q # Pipe => held'[q] = held[q]
  /\ held' \in [Procs -> Nat]
  /\ Pipe \in Procs => held'[Pipe] = held[Pipe] - n

LEMMA MovedAmounts ==
  ASSUME JobTypes, UNCHANGED procVars, NEW n \in Nat, Moved(n)
  PROVE  Amounts' /\ (shellW' = shellW => Others')
<1>1. /\ \A q \in Procs : /\ held[q] \in 0 .. PipeCap /\ todo[q] \in 0 .. MaxOut
                          /\ q > forked => held[q] = 0 /\ todo[q] = 0
                          /\ todo[q] + held[q] <= MaxOut
      /\ PipeCap \in Nat /\ MaxOut \in Nat
      /\ UNCHANGED <<forked, todo, atEnd, kept, events>>
  BY CommandoAssumption DEF JobTypes, Amounts, procVars
<1>2. \A q \in Procs : held'[q] \in Nat /\ held'[q] <= held[q]
  <2> TAKE q \in Procs
  <2>1. held'[q] \in Nat /\ held[q] \in Nat
    BY <1>1 DEF Moved
  <2>2. held'[q] = held[q] \/ held'[q] = held[q] - n
    BY DEF Moved
  <2> QED
    BY <2>1, <2>2
<1>3. \A q \in Procs : /\ held'[q] \in 0 .. PipeCap
                       /\ q > forked => held'[q] = 0
                       /\ todo[q] + held'[q] <= MaxOut
  <2> TAKE q \in Procs
  <2>1. PICK u, v, w : u = held[q] /\ v = held'[q] /\ w = todo[q]
    OBVIOUS
  <2>2. /\ u \in 0 .. PipeCap /\ v \in Nat /\ w \in Nat /\ v <= u /\ w + u <= MaxOut
        /\ q > forked => u = 0
    BY <1>1, <1>2, <2>1
  <2>3. v \in 0 .. PipeCap /\ w + v <= MaxOut /\ (q > forked => v = 0)
    BY <1>1, <2>2
  <2> QED
    BY <2>1, <2>3, Zenon
<1>4. held' \in [Procs -> 0 .. PipeCap]
  <2>1. held' = [q \in Procs |-> held'[q]]
    BY DEF Moved
  <2> QED
    BY <1>3, <2>1
<1>5. Amounts'
  BY <1>1, <1>3, <1>4 DEF JobTypes, Amounts
<1> QED
  BY <1>1, <1>5 DEF JobTypes, Others

LEMMA FetchedTypes ==
  ASSUME TableInv, JobTypes, pc \in {"first", "more"}, NEW n \in 0 .. MaxOut, Fetched(n)
  PROVE  Sized' /\ pc' = "look"
<1>1. Rows /\ at <= Len(jobs) /\ Sized /\ MaxOut \in Nat
  BY CommandoAssumption DEF TableInv, Results, JobTypes
<1>2. /\ Len(jobs') = Len(jobs) /\ jobs'[at].output_size = n
      /\ \A j \in 1 .. Len(jobs) : j # at => jobs'[j].output_size = jobs[j].output_size
  BY <1>1, FetchedRows
<1>3. at' <= MaxChild + 1 /\ pc' = "look"
  BY <1>1, NextAt DEF Fetched
<1>4. cap' = 0 /\ got' = 0
  BY DEF Fetched
<1> QED
  BY <1>1, <1>2, <1>3, <1>4 DEF Sized

LEMMA ReadTypes ==
  ASSUME TableInv, Stored, JobTypes, FirstRead \/ MoreReads
  PROVE  JobTypes'
<1>1. /\ UNCHANGED procVars /\ shellW' = shellW /\ MaxOut \in Nat /\ BufSize \in Nat \ {0}
      /\ pc \in {"first", "more"}
  BY CommandoAssumption DEF FirstRead, MoreReads
<1>2. PICK b, n : b \in Nat \ {0} /\ n = Least(Holds(Pipe), b) /\ Take(n)
        /\ \/ pc = "first" /\ b = BufSize /\ Fetched(n)
           \/ pc = "first" /\ got' = n /\ cap' = b /\ UNCHANGED <<jobs, at>>
           \/ pc = "more" /\ n = 0 /\ Fetched(got)
           \/ pc = "more" /\ got' = got + n /\ cap' = 2 * b /\ UNCHANGED <<jobs, at>>
  <2>1. CASE FirstRead
    BY <1>1, <2>1 DEF FirstRead
  <2>2. CASE MoreReads
    <3>1. pc = "more" /\ cap \in Nat \ {0}
      BY <2>2 DEF MoreReads, Stored, Reading
    <3> QED
      BY <2>2, <3>1 DEF MoreReads, DoubleCap
  <2> QED
    BY <2>1, <2>2
<1>3. /\ n \in Nat /\ Moved(n) /\ (Pipe \in Procs => n <= held[Pipe])
      /\ (Pipe \notin Procs => n = 0)
  <2>1. /\ n \in 0 .. b /\ held' \in [Procs -> Nat]
        /\ \A q \in Procs : q # Pipe => held'[q] = held[q]
        /\ Pipe \in Procs => held'[Pipe] = held[Pipe] - n
    BY <1>1, <1>2, TakeLeaves
  <2>2. Pipe \in Procs => held[Pipe] \in Nat /\ held'[Pipe] \in Nat
    BY <2>1 DEF Stored, Units
  <2>3. n \in Nat
    BY <2>1
  <2>4. Pipe \in Procs => n <= held[Pipe]
    <3>1. PICK u, v : u = held[Pipe] /\ v = held'[Pipe]
      OBVIOUS
    <3>2. Pipe \in Procs => u \in Nat /\ v \in Nat /\ v = u - n
      BY <2>1, <2>2, <3>1
    <3>3. Pipe \in Procs => n <= u
      BY <2>3, <3>2
    <3> QED
      BY <3>1, <3>3
  <2>5. Pipe \notin Procs => n = 0
    <3>1. at \in 1 .. Len(jobs) /\ jobs[at] \in Row
      BY <1>1, RowsOf DEF TableInv, Results, Rows
    <3>2. Pipe \in Procs \cup {NoProc}
      BY <3>1 DEF Pipe, Row
    <3> QED
      BY <1>2, <3>2 DEF Holds, Least
  <2> QED
    BY <2>1, <2>3, <2>4, <2>5 DEF Moved
<1>4. Amounts' /\ Others'
  BY <1>1, <1>3, MovedAmounts
<1>5. Pipe \in Procs => /\ held[Pipe] \in Nat /\ todo[Pipe] \in Nat
                        /\ todo[Pipe] + held[Pipe] <= MaxOut
                        /\ held'[Pipe] = held[Pipe] - n
  BY <1>3 DEF JobTypes, Amounts, Moved
<1>6. n \in 0 .. MaxOut
  <2>1. CASE Pipe \in Procs
    <3>1. PICK u, w : u = held[Pipe] /\ w = todo[Pipe]
      OBVIOUS
    <3>2. u \in Nat /\ w \in Nat /\ w + u <= MaxOut /\ n <= u
      BY <1>3, <1>5, <2>1, <3>1
    <3> QED
      BY <1>1, <1>3, <3>2
  <2>2. CASE Pipe \notin Procs
    BY <1>1, <1>3, <2>2
  <2> QED
    BY <2>1, <2>2
<1>7. got \in 0 .. MaxOut
  BY DEF JobTypes, Sized
<1>8. CASE Fetched(n) \/ Fetched(got)
  BY <1>1, <1>4, <1>6, <1>7, <1>8, FetchedTypes DEF JobTypes, PartlyRead
<1>9. CASE /\ UNCHANGED <<jobs, at>>
           /\ \/ got' = n /\ cap' = b
              \/ pc = "more" /\ got' = got + n /\ cap' = 2 * b
  <2>1. cap' \in Nat
    BY <1>2, <1>9
  <2>2. Pipe \in Procs => got' \in 0 .. MaxOut /\ got' + (held'[Pipe] + todo[Pipe]) <= MaxOut
    <3> SUFFICES ASSUME Pipe \in Procs
                 PROVE  got' \in 0 .. MaxOut /\ got' + (held'[Pipe] + todo[Pipe]) <= MaxOut
      OBVIOUS
    <3>1. PICK u, v, w : u = held[Pipe] /\ v = held'[Pipe] /\ w = todo[Pipe]
      OBVIOUS
    <3>2. /\ u \in Nat /\ w \in Nat /\ w + u <= MaxOut /\ n <= u /\ v = u - n
          /\ pc = "more" => got + (u + w) <= MaxOut
      BY <1>3, <1>5, <3>1 DEF JobTypes, PartlyRead
    <3>3. got' \in 0 .. MaxOut /\ got' + (v + w) <= MaxOut
      <4>1. CASE got' = n
        BY <1>1, <1>6, <3>2, <4>1
      <4>2. CASE pc = "more" /\ got' = got + n
        BY <1>1, <1>3, <1>7, <3>2, <4>2
      <4> QED
        BY <1>9, <4>1, <4>2
    <3> QED
      BY <3>1, <3>3, Zenon
  <2>3. Pipe \notin Procs => got' \in 0 .. MaxOut
    BY <1>1, <1>3, <1>7, <1>9
  <2>4. Sized'
    BY <1>9, <2>1, <2>2, <2>3 DEF JobTypes, Sized
  <2>5. Pipe' = Pipe /\ todo' = todo
    BY <1>1, <1>9 DEF Pipe, procVars
  <2>6. PartlyRead'
    BY <2>2, <2>5 DEF PartlyRead
  <2> QED
    BY <1>4, <2>4, <2>6 DEF JobTypes
<1> QED
  BY <1>2, <1>8, <1>9

(* The processes: only a write moves units, from what there is to write    *)
(* into a pipe that has room.                                              *)
LEMMA WriteTypes ==
  ASSUME JobTypes, NEW p \in Procs, Write(p)
  PROVE  JobTypes'
<1>1. /\ \A q \in Procs : /\ held[q] \in 0 .. PipeCap /\ todo[q] \in 0 .. MaxOut
                          /\ q > forked => held[q] = 0 /\ todo[q] = 0
                          /\ todo[q] + held[q] <= MaxOut
      /\ todo \in [Procs -> 0 .. MaxOut] /\ held \in [Procs -> 0 .. PipeCap]
      /\ PipeCap \in Nat /\ MaxOut \in Nat
  BY CommandoAssumption DEF JobTypes, Amounts
<1>2. /\ todo[p] > 0 /\ held[p] < PipeCap
      /\ todo' = [todo EXCEPT ![p] = @ - 1] /\ held' = [held EXCEPT ![p] = @ + 1]
      /\ UNCHANGED <<shellVars, forked, proc, news, kept, events, atEnd>>
  BY DEF Write, Holds, NoProc, Procs
<1>3. /\ \A q \in Procs : q # p => held'[q] = held[q] /\ todo'[q] = todo[q]
      /\ held'[p] = held[p] + 1 /\ todo'[p] = todo[p] - 1
  BY <1>1, <1>2
<1>4. /\ held[p] + 1 \in 0 .. PipeCap /\ todo[p] - 1 \in 0 .. MaxOut
      /\ (todo[p] - 1) + (held[p] + 1) = todo[p] + held[p]
      /\ (held[p] + 1) + (todo[p] - 1) = held[p] + todo[p]
  <2>1. PICK u, v : u = held[p] /\ v = todo[p]
    OBVIOUS
  <2>2. u \in 0 .. PipeCap /\ v \in 0 .. MaxOut /\ v > 0 /\ u < PipeCap
    BY <1>1, <1>2, <2>1
  <2>3. /\ u + 1 \in 0 .. PipeCap /\ v - 1 \in 0 .. MaxOut
        /\ (v - 1) + (u + 1) = v + u /\ (u + 1) + (v - 1) = u + v
    BY <1>1, <2>2
  <2> QED
    BY <2>1, <2>3, Zenon
<1>5. held' \in [Procs -> 0 .. PipeCap] /\ todo' \in [Procs -> 0 .. MaxOut]
  BY <1>1, <1>2, <1>4
<1>6. ASSUME NEW q \in Procs
      PROVE  /\ q > forked => held'[q] = 0 /\ todo'[q] = 0
             /\ todo'[q] + held'[q] = todo[q] + held[q]
             /\ held'[q] + todo'[q] = held[q] + todo[q]
  <2>1. CASE q = p
    <3>1. ~(q > forked)
      BY <1>1, <1>2, <2>1
    <3> QED
      BY <1>3, <1>4, <2>1, <3>1
  <2>2. CASE q # p
    BY <1>1, <1>3, <2>2
  <2> QED
    BY <2>1, <2>2
<1>7. Amounts'
  BY <1>1, <1>2, <1>5, <1>6 DEF JobTypes, Amounts
<1>8. PartlyRead'
  <2>1. Pipe' = Pipe /\ pc' = pc /\ got' = got
    BY <1>2 DEF Pipe, shellVars
  <2> QED
    BY <1>6, <2>1 DEF JobTypes, PartlyRead
<1>9. Sized' /\ Others'
  BY <1>2 DEF JobTypes, Sized, Others, shellVars
<1> QED
  BY <1>7, <1>8, <1>9 DEF JobTypes

LEMMA ProcessTypes ==
  ASSUME JobTypes, NEW p \in Procs, Goes(p) \/ Outside(p)
  PROVE  JobTypes'
<1>1. CASE ~Write(p)
  <2>1. UNCHANGED <<shellVars, held, todo, forked>>
    BY <1>1 DEF Goes, Outside, DescendantEnds, ProcessExits, Spawn, Stop, Continue,
       KillProcess
  <2>2. /\ kept' \subseteq Procs
        /\ events' = events \/ (events < MaxEvents /\ events' = events + 1)
        /\ atEnd' = atEnd \/ atEnd' = [atEnd EXCEPT ![p] = held[p]]
    BY <1>1 DEF Goes, Outside, DescendantEnds, ProcessExits, Spawn, Stop, Continue,
       KillProcess, JobTypes, Others
  <2>3. events' \in 0 .. MaxEvents
    BY <2>2, CommandoAssumption DEF JobTypes, Others
  <2>4. atEnd' \in [Procs -> 0 .. PipeCap]
    BY <2>2 DEF JobTypes, Amounts
  <2>5. Sized' /\ Others'
    BY <2>1, <2>2, <2>3 DEF JobTypes, Sized, Others, shellVars
  <2>6. Amounts'
    BY <2>1, <2>4 DEF JobTypes, Amounts
  <2>7. PartlyRead'
    BY <2>1 DEF JobTypes, PartlyRead, Pipe, shellVars
  <2> QED
    BY <2>5, <2>6, <2>7 DEF JobTypes
<1> QED
  BY <1>1, WriteTypes

LEMMA JobTypesKept ==
  ASSUME TableInv, Stored, JobTypes, [Next]_vars
  PROVE  JobTypes'
<1>1. CASE UserLine
  BY <1>1, QuietTypes, RunTypes DEF UserLine, QuietLine
<1>2. CASE Shell
  BY <1>2, QuietTypes, WaitTypes, ReadTypes DEF Shell
<1>3. ASSUME NEW p \in Procs, Goes(p) \/ Outside(p)
      PROVE  JobTypes'
  BY <1>3, ProcessTypes
<1>4. CASE UNCHANGED vars
  BY <1>4 DEF JobTypes, Sized, Amounts, PartlyRead, Others, Pipe, vars, shellVars, procVars
<1> QED
  BY <1>1, <1>2, <1>3, <1>4 DEF Next

LEMMA JobTypesAreEnough ==
  ASSUME TableInv, JobTypes
  PROVE  TypeOK
<1>1. jobs \in Seq(Job)
  <2>1. jobs \in [1 .. Len(jobs) -> Row] /\ Len(jobs) \in Nat
    BY RowsOf, LenProperties DEF TableInv, Rows
  <2>2. ASSUME NEW j \in 1 .. Len(jobs) PROVE jobs[j] \in Job
    BY <2>1, <2>2 DEF JobTypes, Sized, Row, Job
  <2>3. jobs \in [1 .. Len(jobs) -> Job]
    BY <2>1, <2>2
  <2> QED
    BY <2>1, <2>3
<1>2. at \in 1 .. MaxChild + 1
  BY CommandoAssumption DEF TableInv, Rows, JobTypes, Sized
<1> QED
  BY <1>1, <1>2 DEF TypeOK, TableInv, Rows, JobTypes, Sized, Amounts, Others

-----------------------------------------------------------------------------
(* What is left is a suffix.                                               *)
LEMMA SuffixIs ==
  ASSUME NEW S, NEW s \in Seq(S), NEW t \in Seq(S), NEW d \in Nat,
         Len(t) = d + Len(s), \A k \in 1 .. Len(s) : s[k] = t[d + k]
  PROVE  Out!IsSuffix(s, t)
<1>1. PICK m \in Nat, n \in Nat : m = Len(s) /\ n = Len(t)
  BY LenProperties
<1>2. n = d + m
  BY <1>1
<1> DEFINE rs == Out!Reverse(s)
           rt == Out!Reverse(t)
<1>3. ASSUME NEW u \in Seq(S), NEW l \in Nat, l = Len(u)
      PROVE  /\ Out!Reverse(u) \in Seq(S) /\ Len(Out!Reverse(u)) = l
             /\ \A k \in 1 .. l : Out!Reverse(u)[k] = u[(l - k) + 1]
  <2>1. Out!Reverse(u) = [k \in 1 .. l |-> u[(l - k) + 1]]
    BY <1>3 DEF Out!Reverse
  <2>2. \A k \in 1 .. l : (l - k) + 1 \in 1 .. l
    OBVIOUS
  <2>3. \A k \in 1 .. l : u[k] \in S
    BY <1>3, ElementOfSeq
  <2>4. [k \in 1 .. l |-> u[(l - k) + 1]] \in [1 .. l -> S]
    BY <2>2, <2>3
  <2> QED
    BY <2>1, <2>4
<1>4. /\ rs \in Seq(S) /\ Len(rs) = m /\ \A k \in 1 .. m : rs[k] = s[(m - k) + 1]
      /\ rt \in Seq(S) /\ Len(rt) = n /\ \A k \in 1 .. n : rt[k] = t[(n - k) + 1]
  BY <1>1, <1>3
<1>5. ASSUME NEW k \in 1 .. m PROVE k \in 1 .. n /\ rs[k] = rt[k]
  <2>1. k \in 1 .. n /\ (m - k) + 1 \in 1 .. m /\ d + ((m - k) + 1) = (n - k) + 1
    BY <1>2
  <2>2. s[(m - k) + 1] = t[d + ((m - k) + 1)]
    BY <1>1, <2>1
  <2>3. rs[k] = s[(m - k) + 1] /\ rt[k] = t[(n - k) + 1]
    BY <1>4, <2>1
  <2> QED
    BY <2>1, <2>2, <2>3
<1> HIDE DEF rs, rt
<1>6. \A k \in 1 .. m : rs[k] \in S /\ rt[k] \in S
  <2>1. \A k \in 1 .. m : rs[k] \in S
    BY <1>4, ElementOfSeq
  <2> QED
    BY <1>5, <2>1
<1>7. /\ SubSeq(rs, 1, m) \in Seq(S) /\ Len(SubSeq(rs, 1, m)) = IF 1 <= m THEN m - 1 + 1 ELSE 0
      /\ \A k \in 1 .. m - 1 + 1 : SubSeq(rs, 1, m)[k] = rs[1 + k - 1]
      /\ SubSeq(rt, 1, m) \in Seq(S) /\ Len(SubSeq(rt, 1, m)) = IF 1 <= m THEN m - 1 + 1 ELSE 0
      /\ \A k \in 1 .. m - 1 + 1 : SubSeq(rt, 1, m)[k] = rt[1 + k - 1]
  <2>1. 1 \in Int /\ m \in Int
    OBVIOUS
  <2> QED
    BY <1>6, <2>1, SubSeqProperties
<1>8. SubSeq(rs, 1, m) = SubSeq(rt, 1, m)
  <2>1. PICK a, b : a = SubSeq(rs, 1, m) /\ b = SubSeq(rt, 1, m)
    OBVIOUS
  <2>2. /\ a \in Seq(S) /\ b \in Seq(S) /\ Len(a) = m /\ Len(b) = m
        /\ \A k \in 1 .. m : a[k] = b[k]
    <3>1. m - 1 + 1 = m /\ \A k \in 1 .. m : 1 + k - 1 = k
      OBVIOUS
    <3> QED
      BY <1>5, <1>7, <2>1, <3>1
  <2>3. a = b
    BY <2>2, SeqEqual
  <2> QED
    BY <2>1, <2>3
<1>9. Len(rs) <= Len(rt)
  BY <1>2, <1>4
<1> QED
  BY <1>4, <1>8, <1>9 DEF Out!IsSuffix, Out!IsPrefix, rs, rt

(* Arrays of bytes that were read, or never set.                           *)
Cells == Out!Bytes \cup {Junk}

LEMMA ArrayTypes ==
  ASSUME NEW c \in Nat, NEW s \in Seq(Out!Bytes)
  PROVE  Out!Array(c + 1, s) \in [0 .. c -> Cells]
<1>1. PICK n \in Nat : n = Len(s)
  BY LenProperties
<1>2. \A k \in 1 .. n : s[k] \in Out!Bytes
  BY <1>1, ElementOfSeq
<1>3. \A k \in 0 .. c : k < n => k + 1 \in 1 .. n
  OBVIOUS
<1>4. Out!Array(c + 1, s) = [k \in 0 .. (c + 1) - 1 |-> IF k < n THEN s[k + 1] ELSE Junk]
  BY <1>1 DEF Out!Array
<1>5. (c + 1) - 1 = c
  OBVIOUS
<1> QED
  BY <1>2, <1>3, <1>4, <1>5 DEF Cells

LEMMA PutTypes ==
  ASSUME NEW c \in Nat, NEW b \in [0 .. c -> Cells], NEW n
  PROVE  Out!Put(b, n, NUL) \in [0 .. c -> Cells]
  BY DEF Out!Put, Cells, Out!Bytes

LEMMA ReallocTypes ==
  ASSUME NEW c \in Nat, NEW b \in [0 .. c -> Cells], NEW d \in Nat
  PROVE  Out!realloc(b, d + 1) \in [0 .. d -> Cells]
<1>1. (d + 1) - 1 = d
  OBVIOUS
<1>2. Out!realloc(b, d + 1) = [k \in 0 .. (d + 1) - 1 |-> IF k \in DOMAIN b THEN b[k] ELSE Junk]
  BY DEF Out!realloc
<1> QED
  BY <1>1, <1>2 DEF Cells

(* strcat takes from the second array only what is in front of its end.    *)
LEMMA StrcatTypes ==
  ASSUME NEW c \in Nat, NEW d \in Nat, NEW s \in [0 .. d -> Cells],
         NEW t \in [0 .. c -> Cells], NEW e, e \in 0 .. d, s[e] = NUL,
         NEW m, m \in 0 .. c, t[m] = NUL
  PROVE  Out!strcat(s, t) \in [0 .. d -> Cells]
<1>1. PICK j, n : j = Out!strlen(s) /\ n = Out!strlen(t)
  OBVIOUS
<1>2. j \in 0 .. d /\ n \in 0 .. c
  <2>1. Out!strlen(s) \in 0 .. e
    BY StringEnds
  <2>2. Out!strlen(t) \in 0 .. m
    BY StringEnds
  <2> QED
    BY <1>1, <2>1, <2>2
<1>3. Out!strcat(s, t) = [k \in DOMAIN s |-> IF k < j \/ k > j + n THEN s[k]
                                             ELSE IF k = j + n THEN NUL ELSE t[k - j]]
  BY <1>1 DEF Out!strcat
<1>4. ASSUME NEW k \in 0 .. d, ~(k < j \/ k > j + n), k # j + n PROVE k - j \in 0 .. c
  BY <1>2, <1>4
<1>5. NUL \in Cells
  BY DEF Cells, Out!Bytes
<1> QED
  BY <1>3, <1>4, <1>5

OutTypes ==
  /\ readpc \in {"first", "more", "end", "stored"} /\ cur_bufsize >= BufBytes
  /\ readpc # "first" => buf \in [0 .. cur_bufsize -> Cells]

LEMMA OutTypesStart == Out!Init => OutTypes
  BY PartsAssumption DEF Out!OutputAssumption, Out!Init, OutTypes

LEMMA OutTypesKept ==
  ASSUME Pieces, OutTypes, Out!Next \/ UNCHANGED outputVars
  PROVE  OutTypes'
<1>1. /\ cur_bufsize \in Nat \ {0} /\ bytes_read \in 0 .. cur_bufsize
      /\ unread \in Seq(Out!Bytes) /\ BufBytes \in Nat
  BY PartsAssumption DEF Pieces, Counted, Out!OutputAssumption
<1> DEFINE piece == Out!Piece(cur_bufsize)
<1>2. piece \in Seq(Out!Bytes) /\ Len(piece) \in 0 .. cur_bufsize
  BY <1>1, PieceIs
<1>3. CASE Out!FirstRead
  <2>1. /\ buf' = Out!Array(cur_bufsize + 1, piece) /\ cur_bufsize' = cur_bufsize
        /\ readpc' = IF Out!Full(Len(piece)) THEN "more" ELSE "end"
    BY <1>3 DEF Out!FirstRead
  <2> HIDE DEF piece
  <2>2. buf' \in [0 .. cur_bufsize -> Cells]
    BY <1>1, <1>2, <2>1, ArrayTypes
  <2> QED
    BY <2>1, <2>2 DEF OutTypes, Cells, Out!Bytes
<1>4. CASE Out!MoreRead
  <2> DEFINE temp == Out!Put(Out!Array(cur_bufsize + 1, piece), Len(piece), NUL)
  <2>1. /\ readpc = "more" /\ cur_bufsize' = 2 * cur_bufsize
        /\ \/ buf' = Out!realloc(buf, cur_bufsize' + 1) /\ readpc' = "end"
           \/ /\ buf' = Out!strcat(Out!realloc(Out!Terminated(buf), cur_bufsize' + 1), temp)
              /\ readpc' = readpc
    BY <1>4, Zenon DEF Out!MoreRead, Out!Doubled
  <2>2. buf \in [0 .. cur_bufsize -> Cells] /\ cur_bufsize' \in Nat /\ cur_bufsize' >= BufBytes
    BY <1>1, <2>1 DEF OutTypes
  <2>3. CASE buf' = Out!realloc(buf, cur_bufsize' + 1)
    <3>1. buf' \in [0 .. cur_bufsize' -> Cells]
      BY <1>1, <2>2, <2>3, ReallocTypes
    <3> QED
      BY <2>1, <2>2, <3>1 DEF OutTypes, Cells, Out!Bytes
  <2>4. CASE buf' = Out!strcat(Out!realloc(Out!Terminated(buf), cur_bufsize' + 1), temp)
    <3> DEFINE ended == Out!Terminated(buf)
               longer == Out!realloc(ended, cur_bufsize' + 1)
               read == Out!Array(cur_bufsize + 1, piece)
    <3>1. ended \in [0 .. cur_bufsize -> Cells] /\ ended[bytes_read] = NUL
      <4>1. ended \in [0 .. cur_bufsize -> Cells]
        BY <1>1, <2>2, PutTypes DEF Out!Terminated
      <4>2. ended[bytes_read] = NUL
        BY <1>1, <2>2 DEF Out!Terminated, Out!Put
      <4> QED
        BY <4>1, <4>2
    <3> HIDE DEF ended, piece
    <3>2. longer \in [0 .. cur_bufsize' -> Cells]
      BY <1>1, <2>2, <3>1, ReallocTypes
    <3>3. longer[bytes_read] = NUL /\ bytes_read \in 0 .. cur_bufsize'
      <4>1. bytes_read \in 0 .. cur_bufsize' /\ bytes_read \in DOMAIN ended
            /\ bytes_read \in 0 .. (cur_bufsize' + 1) - 1
        BY <1>1, <2>1, <3>1
      <4> QED
        BY <3>1, <4>1 DEF Out!realloc
    <3>4. read \in [0 .. cur_bufsize -> Cells]
      BY <1>1, <1>2, ArrayTypes
    <3> HIDE DEF longer, read
    <3>5. temp \in [0 .. cur_bufsize -> Cells] /\ temp[Len(piece)] = NUL
      <4>1. temp = Out!Put(read, Len(piece), NUL)
        BY DEF read
      <4>2. temp = [read EXCEPT ![Len(piece)] = NUL]
        BY <4>1 DEF Out!Put
      <4> HIDE DEF temp
      <4>3. temp \in [0 .. cur_bufsize -> Cells]
        BY <1>1, <3>4, <4>1, PutTypes
      <4>4. temp[Len(piece)] = NUL
        BY <1>2, <3>4, <4>2
      <4> QED
        BY <4>3, <4>4
    <3> HIDE DEF temp
    <3>6. buf' = Out!strcat(longer, temp)
      BY <2>4 DEF longer, ended
    <3>7. Out!strcat(longer, temp) \in [0 .. cur_bufsize' -> Cells]
      BY <1>1, <1>2, <2>2, <3>2, <3>3, <3>5, StrcatTypes
    <3> QED
      BY <2>1, <2>2, <2>4, <3>6, <3>7 DEF OutTypes, Cells, Out!Bytes
  <2> QED
    BY <2>1, <2>3, <2>4
<1>5. CASE Out!Finish
  <2>1. readpc = "end" /\ readpc' = "stored" /\ buf' = Out!Put(buf, bytes_read, NUL)
        /\ cur_bufsize' = cur_bufsize
    BY <1>5 DEF Out!Finish
  <2>2. buf' \in [0 .. cur_bufsize -> Cells]
    BY <1>1, <2>1, PutTypes DEF OutTypes
  <2> QED
    BY <2>1, <2>2 DEF OutTypes, Cells, Out!Bytes
<1>6. CASE UNCHANGED outputVars
  BY <1>6 DEF outputVars, OutTypes, Cells, Out!Bytes
<1> QED
  BY <1>3, <1>4, <1>5, <1>6 DEF Out!Next

LEMMA OutTypesAreEnough ==
  ASSUME Pieces, OutTypes
  PROVE  Out!TypeOK
<1>1. /\ written \in Seq(Out!Bytes) /\ unread \in Seq(Out!Bytes)
      /\ bytes_read \in Nat /\ bytes_read \in 0 .. cur_bufsize
      /\ Len(written) = bytes_read + Len(unread)
      /\ \A k \in 1 .. Len(unread) : unread[k] = written[bytes_read + k]
  BY DEF Pieces, Counted
<1>2. Out!IsSuffix(unread, written)
  BY <1>1, SuffixIs
<1> QED
  BY <1>1, <1>2 DEF OutTypes, Out!TypeOK, Cells

-----------------------------------------------------------------------------
(* A line doubles at most the shells that have what comes behind it.       *)
Doubles(f) == f = [n \in 0 .. MaxLines |-> IF n = 0 THEN 1 ELSE 2 * f[n - 1]]

LEMMA DoublingsAre ==
  /\ In!Doublings \in [0 .. MaxLines -> Nat] /\ In!Doublings[0] = 1
  /\ \A n \in 1 .. MaxLines : In!Doublings[n] = 2 * In!Doublings[n - 1]
<1> DEFINE N == MaxLines
           step == [p \in (1 .. N) \X Nat |-> 2 * p[2]]
<1>1. N \in Nat /\ 1 \in Nat
  BY PartsAssumption DEF In!LinesAssumption
<1>2. step \in [(1 .. N) \X Nat -> Nat]
  OBVIOUS
<1>3. PICK f \in [0 .. N -> Nat] : Steps(f, N, 1, step)
  <2> HIDE DEF step, N
  <2> QED
    BY <1>1, <1>2, StepsExist
<1>4. f[0] = 1 /\ \A n \in 1 .. N : f[n] = 2 * f[n - 1]
  <2>1. ASSUME NEW n \in 1 .. N PROVE f[n] = 2 * f[n - 1]
    <3>1. n - 1 \in 0 .. N /\ f[n - 1] \in Nat
      BY <1>1
    <3>2. <<n, f[n - 1]>> \in (1 .. N) \X Nat
      BY <3>1
    <3>3. step[<<n, f[n - 1]>>] = 2 * f[n - 1]
      BY <3>2
    <3> QED
      BY <1>3, <3>3 DEF Steps
  <2> QED
    BY <1>3, <2>1 DEF Steps
<1>5. Doubles(f)
  <2> DEFINE g == [n \in 0 .. N |-> IF n = 0 THEN 1 ELSE 2 * f[n - 1]]
  <2>1. \A n \in 0 .. N : f[n] = g[n]
    BY <1>1, <1>4
  <2>2. f = g
    BY <2>1
  <2> QED
    BY <2>2 DEF Doubles
<1>6. In!Doublings = CHOOSE h : Doubles(h)
  BY DEF In!Doublings, Doubles
<1> PICK h : h = In!Doublings
  OBVIOUS
<1>7. Doubles(h)
  BY <1>5, <1>6
<1>8. DOMAIN h = 0 .. N /\ h[0] = 1 /\ \A n \in 1 .. N : h[n] = 2 * h[n - 1]
  <2>1. h = [n \in 0 .. N |-> IF n = 0 THEN 1 ELSE 2 * h[n - 1]]
    BY <1>7, Zenon DEF Doubles
  <2>2. DOMAIN h = 0 .. N /\ \A n \in 0 .. N : h[n] = IF n = 0 THEN 1 ELSE 2 * h[n - 1]
    BY <2>1, Zenon
  <2>3. 0 \in 0 .. N /\ \A n \in 1 .. N : n \in 0 .. N /\ n # 0
    BY <1>1
  <2> QED
    BY <2>2, <2>3
<1>9. \A n \in 0 .. N : h[n] = f[n]
  <2>1. StepAlike(h, f, N)
    BY <1>4, <1>8 DEF StepAlike
  <2> QED
    BY <1>1, <2>1, StepsAgree
<1>10. h \in [0 .. N -> Nat]
  <2>1. h = [n \in 0 .. N |-> h[n]]
    BY <1>7 DEF Doubles
  <2> QED
    BY <1>9, <2>1
<1> QED
  BY <1>8, <1>10

(* Sums in which no number is larger than the sum before it.               *)
Doubled(d, N) ==
  d \in [0 .. N -> Nat] /\ d[0] = 1 /\ \A k \in 1 .. N : d[k] = 2 * d[k - 1]
Summed(g, b, n) ==
  /\ g \in [0 .. n -> Nat] /\ b \in [1 .. n -> Nat] /\ g[0] = 1
  /\ \A k \in 1 .. n : g[k] = g[k - 1] + b[k]

LEMMA SumsDouble ==
  ASSUME NEW N \in Nat, NEW n \in 0 .. N, NEW d, Doubled(d, N),
         NEW g, NEW b, Summed(g, b, n), \A k \in 1 .. n : b[k] <= g[k - 1]
  PROVE  (\A k \in 1 .. n : b[k] <= d[k - 1]) /\ g[n] <= d[N]
<1>1. ASSUME NEW k \in 0 .. n PROVE g[k] \in Nat /\ (k # 0 => b[k] \in Nat)
  BY DEF Summed
<1>2. ASSUME NEW k \in 0 .. N PROVE d[k] \in Nat
  BY DEF Doubled
<1> DEFINE S == {k \in 0 .. n : g[k] <= d[k]}
<1>3. 0 \in S
  BY DEF Doubled, Summed
<1>4. ASSUME NEW k \in 0 .. n - 1, k \in S PROVE k + 1 \in S
  <2>1. k + 1 \in 1 .. n /\ k + 1 \in 1 .. N /\ (k + 1) - 1 = k
    OBVIOUS
  <2>2. g[k + 1] = g[k] + b[k + 1] /\ d[k + 1] = 2 * d[k] /\ b[k + 1] <= g[k]
    BY <2>1 DEF Doubled, Summed
  <2>3. g[k] <= d[k] /\ g[k] \in Nat /\ d[k] \in Nat /\ b[k + 1] \in Nat
    BY <1>1, <1>2, <1>4, <2>1
  <2>4. g[k + 1] <= d[k + 1]
    <3> PICK u, v, w : u = g[k] /\ v = d[k] /\ w = b[k + 1]
      OBVIOUS
    <3> QED
      BY <2>2, <2>3
  <2> QED
    BY <2>1, <2>4
<1>5. \A k \in 0 .. n : g[k] <= d[k]
  <2>1. 0 .. n \subseteq S
    <3> HIDE DEF S
    <3>1. n \in Nat
      OBVIOUS
    <3> QED
      BY <1>3, <1>4, <3>1, InductionTo
  <2> QED
    BY <2>1
<1>6. ASSUME NEW k \in 1 .. n PROVE b[k] <= d[k - 1]
  <2>1. k - 1 \in 0 .. n /\ k - 1 \in 0 .. N /\ k # 0 /\ k \in 0 .. n
    OBVIOUS
  <2>2. g[k - 1] <= d[k - 1] /\ b[k] <= g[k - 1] /\ b[k] \in Nat
        /\ g[k - 1] \in Nat /\ d[k - 1] \in Nat
    BY <1>1, <1>2, <1>5, <2>1
  <2> QED
    BY <2>2
<1> DEFINE U == {j \in 0 .. N - n : d[n] <= d[n + j]}
<1>7. 0 \in U
  BY <1>2
<1>8. ASSUME NEW j \in 0 .. N - n - 1, j \in U PROVE j + 1 \in U
  <2>1. n + j + 1 \in 1 .. N /\ (n + j + 1) - 1 = n + j /\ n + j \in 0 .. N
    OBVIOUS
  <2>2. d[n + j + 1] = 2 * d[n + j] /\ d[n + j] \in Nat /\ d[n] \in Nat /\ d[n] <= d[n + j]
    BY <1>2, <1>8, <2>1 DEF Doubled
  <2>3. d[n] <= d[n + j + 1]
    BY <2>2
  <2>4. n + j + 1 = n + (j + 1) /\ j + 1 \in 0 .. N - n
    OBVIOUS
  <2> QED
    BY <2>3, <2>4
<1>9. d[n] <= d[N]
  <2> HIDE DEF U
  <2>1. N - n \in Nat /\ N - n \in 0 .. N - n /\ n + (N - n) = N
    OBVIOUS
  <2>2. 0 .. N - n \subseteq U
    BY <1>7, <1>8, <2>1, InductionTo
  <2> QED
    BY <2>1, <2>2 DEF U
<1>10. g[n] <= d[N]
  <2>1. g[n] <= d[n] /\ g[n] \in Nat /\ d[n] \in Nat /\ d[N] \in Nat
    BY <1>1, <1>2, <1>5
  <2> QED
    BY <1>9, <2>1
<1> QED
  BY <1>6, <1>10

(* Each b[k] has room, with c[k] more, in the sum before it.               *)
Room(g, b, c, n) ==
  /\ Summed(g, b, n) /\ c \in [1 .. n -> Nat]
  /\ \A k \in 1 .. n : b[k] + c[k] <= g[k - 1]

LEMMA RoomValues ==
  ASSUME NEW n \in Nat, NEW g, NEW b, NEW c, Room(g, b, c, n)
  PROVE  /\ \A k \in 1 .. n : /\ b[k] \in Nat /\ c[k] \in Nat /\ k - 1 \in 0 .. n
                              /\ g[k] = g[k - 1] + b[k] /\ b[k] + c[k] <= g[k - 1]
         /\ g[0] = 1 /\ \A k \in 0 .. n : g[k] \in Nat \ {0}
<1>1. \A k \in 1 .. n : k - 1 \in 0 .. n
  OBVIOUS
<1>2. \A k \in 0 .. n : g[k] \in Nat
  BY DEF Room, Summed
<1>3. \A k \in 1 .. n : b[k] \in Nat /\ c[k] \in Nat
  BY DEF Room, Summed
<1> DEFINE S == {k \in 0 .. n : g[k] # 0}
<1>4. 0 \in S
  BY DEF Room, Summed
<1>5. ASSUME NEW k \in 0 .. n - 1, k \in S PROVE k + 1 \in S
  <2>1. k + 1 \in 1 .. n /\ (k + 1) - 1 = k
    OBVIOUS
  <2>2. g[k + 1] = g[k] + b[k + 1] /\ g[k] \in Nat /\ g[k] # 0 /\ b[k + 1] \in Nat
    BY <1>2, <1>3, <1>5, <2>1 DEF Room, Summed
  <2>3. g[k + 1] # 0
    <3> PICK u, w : u = g[k] /\ w = b[k + 1]
      OBVIOUS
    <3> QED
      BY <2>2
  <2> QED
    BY <2>1, <2>3
<1>6. 0 .. n \subseteq S
  <2> HIDE DEF S
  <2> QED
    BY <1>4, <1>5, InductionTo
<1>7. \A k \in 1 .. n : g[k] = g[k - 1] + b[k] /\ b[k] + c[k] <= g[k - 1]
  BY DEF Room, Summed
<1>8. g[0] = 1
  BY DEF Room, Summed
<1> QED
  BY <1>1, <1>2, <1>3, <1>6, <1>7, <1>8

LEMMA MoreRoom ==
  ASSUME NEW u \in Nat, NEW v \in Nat, NEW w \in Nat, NEW x \in Nat, NEW y \in Nat,
         u = v + w, w + x <= v
  PROVE  /\ y <= x => u = v + w /\ w + y <= v
         /\ y + 1 <= x => u + 1 = v + (w + 1) /\ (w + 1) + y <= v
         /\ y <= x + 1 => u + 1 = (v + 1) + w /\ w + y <= v + 1
  OBVIOUS

(* With one more for a number that had one waiting, all behind it have     *)
(* room for one more.                                                      *)
OneFewer(d, c, h, n) ==
  /\ d \in [1 .. n -> Nat] /\ d[h] + 1 <= c[h]
  /\ \A k \in 1 .. n : (k < h => d[k] <= c[k]) /\ (k > h => d[k] <= c[k] + 1)
OneMore(a, b, h) == a = [b EXCEPT ![h] = @ + 1]

LEMMA RoomForOne ==
  ASSUME NEW n \in Nat, NEW g, NEW b, NEW c, Room(g, b, c, n), NEW h \in 1 .. n,
         NEW d, OneFewer(d, c, h, n), NEW a, OneMore(a, b, h)
  PROVE  \E f : Room(f, a, d, n) /\ f[n] = g[n] + 1
<1> DEFINE f == [k \in 0 .. n |-> IF k >= h THEN g[k] + 1 ELSE g[k]]
<1>0. /\ d \in [1 .. n -> Nat] /\ d[h] + 1 <= c[h]
      /\ \A k \in 1 .. n : (k < h => d[k] <= c[k]) /\ (k > h => d[k] <= c[k] + 1)
  BY DEF OneFewer
<1>1. /\ \A k \in 1 .. n : /\ b[k] \in Nat /\ c[k] \in Nat /\ k - 1 \in 0 .. n
                           /\ g[k] = g[k - 1] + b[k] /\ b[k] + c[k] <= g[k - 1]
      /\ g[0] = 1 /\ \A k \in 0 .. n : g[k] \in Nat
  BY RoomValues
<1>2. b \in [1 .. n -> Nat]
  BY DEF Room, Summed
<1>3. f \in [0 .. n -> Nat] /\ f[0] = 1 /\ f[n] = g[n] + 1
  BY <1>1
<1>4. a \in [1 .. n -> Nat] /\ a[h] = b[h] + 1 /\ \A k \in 1 .. n : k # h => a[k] = b[k]
  BY <1>1, <1>2 DEF OneMore
<1>5. ASSUME NEW k \in 1 .. n PROVE f[k] = f[k - 1] + a[k] /\ a[k] + d[k] <= f[k - 1]
  <2>7. PICK u, v, w, x, y : u = g[k] /\ v = g[k - 1] /\ w = b[k] /\ x = c[k] /\ y = d[k]
    OBVIOUS
  <2>1. u \in Nat /\ v \in Nat /\ w \in Nat /\ x \in Nat /\ y \in Nat
    <3>1. k \in 0 .. n /\ k - 1 \in 0 .. n
      OBVIOUS
    <3> QED
      BY <1>0, <1>1, <2>7, <3>1
  <2>2. u = v + w /\ w + x <= v
    BY <1>1, <2>7
  <2>3. /\ f[k] = IF k >= h THEN u + 1 ELSE u
        /\ f[k - 1] = IF k - 1 >= h THEN v + 1 ELSE v
    BY <1>1, <2>7
  <2>4. a[k] = IF k = h THEN w + 1 ELSE w
    BY <1>4, <2>7
  <2>5. (k < h => y <= x) /\ (k > h => y <= x + 1) /\ (k = h => y + 1 <= x)
    BY <1>0, <2>7
  <2>8. PICK p, q, r : p = f[k] /\ q = f[k - 1] /\ r = a[k]
    OBVIOUS
  <2> HIDE DEF f
  <2>6. p = q + r /\ r + y <= q
    <3>1. CASE k < h
      <4>1. p = u /\ q = v /\ r = w
        BY <2>1, <2>3, <2>4, <2>8, <3>1
      <4>2. y <= x
        BY <2>5, <3>1
      <4>3. u = v + w /\ w + y <= v
        BY <2>1, <2>2, <4>2, MoreRoom
      <4> QED
        BY <4>1, <4>3, Zenon
    <3>2. CASE k = h
      <4>1. p = u + 1 /\ q = v /\ r = w + 1
        BY <2>1, <2>3, <2>4, <2>8, <3>2
      <4>2. y + 1 <= x
        BY <2>5, <3>2
      <4>3. u + 1 = v + (w + 1) /\ (w + 1) + y <= v
        BY <2>1, <2>2, <4>2, MoreRoom
      <4> QED
        BY <4>1, <4>3, Zenon
    <3>3. CASE k > h
      <4>1. p = u + 1 /\ q = v + 1 /\ r = w
        BY <2>1, <2>3, <2>4, <2>8, <3>3
      <4>2. y <= x + 1
        BY <2>5, <3>3
      <4>3. u + 1 = (v + 1) + w /\ w + y <= v + 1
        BY <2>1, <2>2, <4>2, MoreRoom
      <4> QED
        BY <4>1, <4>3, Zenon
    <3> QED
      BY <3>1, <3>2, <3>3
  <2> QED
    BY <2>6, <2>7, <2>8, Zenon
<1> HIDE DEF f
<1>6. Room(f, a, d, n)
  BY <1>0, <1>3, <1>4, <1>5 DEF Room, Summed
<1> QED
  BY <1>3, <1>6

(* The shells that have a line, and how often it was started, are no more  *)
(* than the first shell and what was started of the lines before it.       *)
Holders(k) == {t \in DOMAIN shells : k \in Has(t)}
Counts == [k \in 1 .. Len(input) |-> Cardinality(Holders(k))]
Doubling ==
  /\ Len(input) <= MaxLines
  /\ \E g : Room(g, started, Counts, Len(input)) /\ Len(shells) <= g[Len(input)]

LEMMA HoldersAre ==
  ASSUME Shared
  PROVE  /\ Len(shells) \in Nat /\ DOMAIN shells = 1 .. Len(shells)
         /\ \A k : IsFiniteSet(Holders(k)) /\ Cardinality(Holders(k)) \in Nat
<1>1. Len(shells) \in Nat /\ DOMAIN shells = 1 .. Len(shells)
  BY LenProperties DEF Shared, Buffers
<1>2. IsFiniteSet(1 .. Len(shells))
  BY <1>1, FS_Interval
<1>3. \A k : Holders(k) \subseteq 1 .. Len(shells)
  BY <1>1 DEF Holders
<1> QED
  BY <1>1, <1>2, <1>3, FS_Subset, FS_CardinalityType

LEMMA CountsAre ==
  ASSUME Shared
  PROVE  /\ Counts \in [1 .. Len(input) -> Nat]
         /\ \A k \in 1 .. Len(input) : Counts[k] = Cardinality(Holders(k))
  BY HoldersAre DEF Counts

(* So they are no more than the lines before it can double.                *)
LEMMA DoublingIsEnough ==
  ASSUME Shared, Doubling
  PROVE  /\ \A k \in 1 .. Len(input) : started[k] <= In!Doublings[k - 1]
         /\ Len(shells) <= In!Doublings[MaxLines]
<1>1. PICK n \in Nat : n = Len(input)
  BY DEF Shared, Buffers
<1>2. PICK g : Room(g, started, Counts, n) /\ Len(shells) <= g[n]
  BY <1>1 DEF Doubling
<1>3. /\ \A k \in 1 .. n : started[k] \in Nat /\ Counts[k] \in Nat /\ k - 1 \in 0 .. n
                           /\ started[k] + Counts[k] <= g[k - 1]
      /\ \A k \in 0 .. n : g[k] \in Nat
  BY <1>2, RoomValues
<1>4. MaxLines \in Nat /\ n \in 0 .. MaxLines
  BY <1>1, PartsAssumption DEF In!LinesAssumption, Doubling
<1>5. Doubled(In!Doublings, MaxLines)
  BY DoublingsAre DEF Doubled
<1>6. ASSUME NEW k \in 1 .. n PROVE started[k] <= g[k - 1]
  <2>1. PICK u, v, w \in Nat : u = started[k] /\ v = Counts[k] /\ w = g[k - 1]
    BY <1>3
  <2> QED
    BY <1>3, <2>1
<1>7. (\A k \in 1 .. n : started[k] <= In!Doublings[k - 1]) /\ g[n] <= In!Doublings[MaxLines]
  <2>1. Summed(g, started, n)
    BY <1>2 DEF Room
  <2> QED
    BY <1>4, <1>5, <1>6, <2>1, SumsDouble
<1>8. Len(shells) <= In!Doublings[MaxLines]
  <2> PICK u, v, w : u = Len(shells) /\ v = g[n] /\ w = In!Doublings[MaxLines]
    OBVIOUS
  <2>1. u \in Nat /\ v \in Nat /\ w \in Nat
    <3>1. \A m \in 0 .. MaxLines : In!Doublings[m] \in Nat
      BY <1>5 DEF Doubled
    <3> QED
      BY <1>3, <1>4, <3>1, HoldersAre
  <2> QED
    BY <1>2, <1>7, <2>1
<1> QED
  BY <1>1, <1>7, <1>8

LEMMA SizesNext ==
  Shared' => /\ Len(shells)' \in Nat /\ DOMAIN shells' = 1 .. Len(shells)'
             /\ Counts' \in [1 .. Len(input') -> Nat]
             /\ \A k \in 1 .. Len(input') : Counts'[k] = Cardinality(Holders(k)')
<1> DEFINE Sizes == /\ Len(shells) \in Nat /\ DOMAIN shells = 1 .. Len(shells)
                    /\ Counts \in [1 .. Len(input) -> Nat]
                    /\ \A k \in 1 .. Len(input) : Counts[k] = Cardinality(Holders(k))
<1>1. Shared => Sizes
  BY HoldersAre, CountsAre
<1>2. Shared' => Sizes'
  BY <1>1, PTL
<1> QED
  BY <1>2

(* A step that starts nothing, and gives lines to others only that were    *)
(* never started.                                                          *)
LEMMA DoublingStays ==
  ASSUME Shared, Shared', Doubling, input' = input, started' = started,
         \A k \in 1 .. Len(input) :
           \/ Cardinality(Holders(k)') <= Cardinality(Holders(k))
           \/ started[k] = 0 /\ Cardinality(Holders(k)') = 1,
         Len(shells') = Len(shells)
  PROVE  Doubling'
<1>1. PICK n \in Nat : n = Len(input)
  BY DEF Shared, Buffers
<1>2. PICK g : Room(g, started, Counts, n) /\ Len(shells) <= g[n]
  BY <1>1 DEF Doubling
<1>3. /\ \A k \in 1 .. n : /\ started[k] \in Nat /\ Counts[k] \in Nat /\ k - 1 \in 0 .. n
                           /\ started[k] + Counts[k] <= g[k - 1]
      /\ \A k \in 0 .. n : g[k] \in Nat \ {0}
  BY <1>2, RoomValues
<1>4. /\ Counts' \in [1 .. n -> Nat]
      /\ \A k \in 1 .. n : Counts'[k] = Cardinality(Holders(k)')
  BY <1>1, SizesNext
<1>5. \A k \in 1 .. n : Counts[k] = Cardinality(Holders(k))
  BY <1>1, CountsAre
<1>6. ASSUME NEW k \in 1 .. n PROVE started[k] + Counts'[k] <= g[k - 1]
  <2>1. PICK u, v, w, x : u = started[k] /\ v = Counts[k] /\ w = g[k - 1] /\ x = Counts'[k]
    OBVIOUS
  <2>2. u \in Nat /\ v \in Nat /\ w \in Nat \ {0} /\ x \in Nat /\ u + v <= w
    BY <1>3, <1>4, <2>1
  <2>3. x <= v \/ (u = 0 /\ x = 1)
    BY <1>1, <1>4, <1>5, <2>1
  <2>4. u + x <= w
    BY <2>2, <2>3
  <2> QED
    BY <2>1, <2>4, Zenon
<1>7. Room(g, started, Counts', n)
  BY <1>2, <1>4, <1>6 DEF Room
<1> QED
  BY <1>1, <1>2, <1>7 DEF Doubling

(* A step that starts a line of a shell that had it.                       *)
LEMMA DoublingStarts ==
  ASSUME Shared, Shared', Doubling, input' = input, NEW h \in 1 .. Len(input),
         started' = [started EXCEPT ![h] = @ + 1],
         Cardinality(Holders(h)') + 1 <= Cardinality(Holders(h)),
         \A k \in 1 .. Len(input) :
           /\ k < h => Cardinality(Holders(k)') <= Cardinality(Holders(k))
           /\ k > h => Cardinality(Holders(k)') <= Cardinality(Holders(k)) + 1,
         Len(shells') <= Len(shells) + 1
  PROVE  Doubling'
<1>1. PICK n \in Nat : n = Len(input)
  BY DEF Shared, Buffers
<1>2. PICK g : Room(g, started, Counts, n) /\ Len(shells) <= g[n]
  BY <1>1 DEF Doubling
<1>3. /\ Counts' \in [1 .. n -> Nat] /\ Len(shells') \in Nat
      /\ \A k \in 1 .. n : Counts'[k] = Cardinality(Holders(k)')
  BY <1>1, SizesNext
<1>4. \A k \in 1 .. n : Counts[k] = Cardinality(Holders(k))
  BY <1>1, CountsAre
<1>5. /\ h \in 1 .. n /\ Counts'[h] + 1 <= Counts[h]
      /\ \A k \in 1 .. n : /\ k < h => Counts'[k] <= Counts[k]
                           /\ k > h => Counts'[k] <= Counts[k] + 1
  <2>1. h \in 1 .. n
    BY <1>1
  <2>2. Counts'[h] + 1 <= Counts[h]
    BY <1>3, <1>4, <2>1
  <2>3. \A k \in 1 .. n :
          /\ k < h => Cardinality(Holders(k)') <= Cardinality(Holders(k))
          /\ k > h => Cardinality(Holders(k)') <= Cardinality(Holders(k)) + 1
    BY <1>1
  <2>4. ASSUME NEW k \in 1 .. n
        PROVE  /\ k < h => Counts'[k] <= Counts[k]
               /\ k > h => Counts'[k] <= Counts[k] + 1
    BY <1>3, <1>4, <2>3
  <2> QED
    BY <2>1, <2>2, <2>4
<1>6. PICK f : Room(f, started', Counts', n) /\ f[n] = g[n] + 1
  <2>1. PICK b, c, d : b = started /\ c = Counts /\ d = Counts'
    OBVIOUS
  <2>2. OneFewer(d, c, h, n) /\ h \in 1 .. n
    BY <1>3, <1>5, <2>1, Zenon DEF OneFewer
  <2>3. Room(g, b, c, n)
    BY <1>2, <2>1
  <2>4. OneMore(started', b, h)
    BY <2>1 DEF OneMore
  <2>5. \E f : Room(f, started', d, n) /\ f[n] = g[n] + 1
    BY <2>2, <2>3, <2>4, RoomForOne
  <2> QED
    BY <2>1, <2>5, Zenon
<1>7. Len(shells') <= f[n]
  <2>1. PICK u, v, w : u = Len(shells') /\ v = Len(shells) /\ w = g[n]
    OBVIOUS
  <2>2. u \in Nat /\ v \in Nat /\ w \in Nat
    <3>1. n \in 0 .. n /\ \A k \in 0 .. n : g[k] \in Nat
      BY <1>2, RoomValues
    <3> QED
      BY <1>3, <2>1, <3>1, HoldersAre
  <2>3. u <= v + 1 /\ v <= w
    BY <1>2, <2>1
  <2>4. u <= w + 1
    BY <2>2, <2>3
  <2> QED
    BY <1>6, <2>1, <2>4, Zenon
<1> QED
  BY <1>1, <1>6, <1>7 DEF Doubling

(* How the size of a set follows its members.                              *)
LEMMA SizesFollow ==
  ASSUME NEW A, IsFiniteSet(A), NEW B
  PROVE  /\ B \subseteq A => Cardinality(B) <= Cardinality(A)
         /\ \A c : B \subseteq A \cup {c} => Cardinality(B) <= Cardinality(A) + 1
         /\ \A s \in A : B \subseteq A \ {s} => Cardinality(B) + 1 <= Cardinality(A)
<1>1. Cardinality(A) \in Nat
  BY FS_CardinalityType
<1>2. B \subseteq A => Cardinality(B) <= Cardinality(A)
  BY FS_Subset
<1>3. ASSUME NEW c, B \subseteq A \cup {c} PROVE Cardinality(B) <= Cardinality(A) + 1
  <2>1. /\ IsFiniteSet(A \cup {c})
        /\ Cardinality(A \cup {c}) = Cardinality(A) \/ Cardinality(A \cup {c}) = Cardinality(A) + 1
    BY FS_AddElement
  <2>2. Cardinality(B) <= Cardinality(A \cup {c}) /\ Cardinality(B) \in Nat
    BY <1>3, <2>1, FS_Subset, FS_CardinalityType
  <2> QED
    BY <1>1, <2>1, <2>2
<1>4. ASSUME NEW s \in A, B \subseteq A \ {s} PROVE Cardinality(B) + 1 <= Cardinality(A)
  <2>1. IsFiniteSet(A \ {s}) /\ Cardinality(A \ {s}) = Cardinality(A) - 1
    BY FS_RemoveElement
  <2>2. Cardinality(B) <= Cardinality(A \ {s}) /\ Cardinality(B) \in Nat
    BY <1>4, <2>1, FS_Subset, FS_CardinalityType
  <2> QED
    BY <1>1, <2>1, <2>2
<1> QED
  BY <1>2, <1>3, <1>4

LEMMA NewShells ==
  ASSUME Shared, Shared', NEW s
  PROVE  /\ NoneNew => Len(shells') = Len(shells)
         /\ OneNew(s) => Len(shells') = Len(shells) + 1
<1>1. PICK m \in Nat, n \in Nat : m = Len(shells) /\ n = Len(shells')
  BY HoldersAre, SizesNext
<1>2. DOMAIN shells = 1 .. m /\ DOMAIN shells' = 1 .. n
  BY <1>1, HoldersAre, SizesNext
<1>3. IsFiniteSet(1 .. m) /\ Cardinality(1 .. m) = m /\ Cardinality(1 .. n) = n
  <2>1. \A k \in Nat : IsFiniteSet(1 .. k) /\ Cardinality(1 .. k) = IF 1 > k THEN 0 ELSE k - 1 + 1
    BY FS_Interval
  <2>2. \A k \in Nat : Cardinality(1 .. k) = k
    BY <2>1
  <2> QED
    BY <2>1, <2>2
<1>4. NoneNew => n = m
  BY <1>2, <1>3 DEF NoneNew
<1>5. ASSUME OneNew(s) PROVE n = m + 1
  <2>1. PICK c : c \notin 1 .. m /\ 1 .. n = (1 .. m) \cup {c}
    BY <1>2, <1>5 DEF OneNew
  <2>2. Cardinality((1 .. m) \cup {c}) = m + 1
    BY <1>3, <2>1, FS_AddElement
  <2> QED
    BY <1>3, <2>1, <2>2
<1> QED
  BY <1>1, <1>4, <1>5

(* A shell takes a line, and starts it or does not.                        *)
LEMMA TakesDoubling ==
  ASSUME Shared, Shared', Doubling, NEW s \in DOMAIN shells, NEW h, NEW place,
         Takes(s, h, place), input' = input,
         \/ started' = started /\ NoneNew
         \/ started' = [started EXCEPT ![h] = @ + 1] /\ (NoneNew \/ OneNew(s))
  PROVE  Doubling'
<1>1. /\ \A t \in DOMAIN shells : t # s => Has(t)' = Has(t)
      /\ Has(s)' = Has(s) \ {h} /\ h \in Has(s) /\ \A m \in Has(s) : m >= h
  BY DEF Takes, Has
<1>2. h \in 1 .. Len(input)
  BY <1>1 DEF Shared, Buffers
<1>3. \A k : IsFiniteSet(Holders(k))
  BY HoldersAre
<1>4. s \in Holders(h)
  BY <1>1 DEF Holders
<1>5. CASE NoneNew
  <2>1. \A k : Holders(k)' \subseteq Holders(k)
    BY <1>1, <1>5 DEF Holders, NoneNew
  <2>2. Holders(h)' \subseteq Holders(h) \ {s}
    BY <1>1, <1>5 DEF Holders, NoneNew
  <2>3. Len(shells') = Len(shells) /\ Len(shells) \in Nat
    BY <1>5, NewShells, HoldersAre
  <2>4. \A k : Cardinality(Holders(k)') <= Cardinality(Holders(k))
    BY <1>3, <2>1, SizesFollow
  <2>5. Cardinality(Holders(h)') + 1 <= Cardinality(Holders(h))
    BY <1>3, <1>4, <2>2, SizesFollow
  <2>6. CASE started' = started
    BY <2>3, <2>4, <2>6, DoublingStays
  <2>7. CASE started' = [started EXCEPT ![h] = @ + 1]
    <3>1. \A k : Cardinality(Holders(k)') <= Cardinality(Holders(k)) + 1
      BY <1>3, <2>1, SizesFollow
    <3>2. Len(shells') <= Len(shells) + 1
      BY <2>3
    <3> QED
      BY <1>2, <2>4, <2>5, <2>7, <3>1, <3>2, DoublingStarts
  <2> QED
    BY <2>6, <2>7
<1>6. CASE OneNew(s) /\ started' = [started EXCEPT ![h] = @ + 1]
  <2>1. PICK c : /\ c \notin DOMAIN shells /\ DOMAIN shells' = DOMAIN shells \cup {c}
                 /\ Has(c)' = Has(s)'
    BY <1>6 DEF OneNew
  <2>2. \A k : Holders(k)' \subseteq Holders(k) \cup {c}
    BY <1>1, <2>1 DEF Holders
  <2>3. Holders(h)' \subseteq Holders(h) \ {s}
    BY <1>1, <2>1 DEF Holders
  <2>4. \A k \in 1 .. Len(input) : k < h => Holders(k)' \subseteq Holders(k)
    <3>1. \A k \in 1 .. Len(input) : k < h => k \notin Has(s)
      BY <1>1, <1>2
    <3>2. \A k \in 1 .. Len(input) : k < h => k \notin Has(c)' /\ k \notin Has(s)'
      BY <1>1, <2>1, <3>1
    <3> QED
      BY <1>1, <2>1, <3>2 DEF Holders
  <2>5. Len(shells') <= Len(shells) + 1
    BY <1>6, NewShells, HoldersAre
  <2>6. \A k \in 1 .. Len(input) : k < h => Cardinality(Holders(k)') <= Cardinality(Holders(k))
    BY <1>3, <2>4, SizesFollow
  <2>7. Cardinality(Holders(h)') + 1 <= Cardinality(Holders(h))
    BY <1>3, <1>4, <2>3, SizesFollow
  <2>8. \A k : Cardinality(Holders(k)') <= Cardinality(Holders(k)) + 1
    BY <1>3, <2>2, SizesFollow
  <2> QED
    BY <1>2, <1>6, <2>5, <2>6, <2>7, <2>8, DoublingStarts
<1> QED
  BY <1>5, <1>6

(* Steps of a shell that takes none: it reads more lines, or has none.     *)
LEMMA QuietDoubling ==
  ASSUME Shared, Shared', Doubling, input' = input, started' = started,
         DOMAIN shells' = DOMAIN shells, \A t \in DOMAIN shells : Has(t)' = Has(t)
  PROVE  Doubling'
<1>1. \A k : IsFiniteSet(Holders(k)) /\ Holders(k)' \subseteq Holders(k)
  BY HoldersAre DEF Holders
<1>2. Len(shells') = Len(shells)
  BY NewShells DEF NoneNew
<1>3. \A k : Cardinality(Holders(k)') <= Cardinality(Holders(k))
  BY <1>1, SizesFollow
<1> QED
  BY <1>2, <1>3, DoublingStays

LEMMA FillDoubling ==
  ASSUME Shared, Shared', Doubling, NEW s \in DOMAIN shells, In!Fill(s)
  PROVE  Doubling'
<1>1. /\ DOMAIN shells' = DOMAIN shells
      /\ \A t \in DOMAIN shells : t # s => Has(t)' = Has(t)
      /\ Has(s) = {} /\ Has(s)' = taken + 1 .. taken'
  BY FillIs DEF Has
<1>2. input' = input /\ started' = started
  BY DEF In!Fill
<1>3. /\ \A t \in DOMAIN shells : Has(t) \subseteq 1 .. taken
      /\ \A k \in 1 .. Len(input) : k > taken => started[k] = 0
      /\ taken \in Nat
  BY DEF Shared, Buffers, Later
<1>4. \A k : IsFiniteSet(Holders(k))
  BY HoldersAre
<1>5. ASSUME NEW k \in 1 .. Len(input)
      PROVE  \/ Cardinality(Holders(k)') <= Cardinality(Holders(k))
             \/ started[k] = 0 /\ Cardinality(Holders(k)') = 1
  <2>1. CASE k \in taken + 1 .. taken'
    <3>1. k > taken /\ k \notin 1 .. taken
      BY <1>3, <2>1
    <3>2. Holders(k)' = {s}
      BY <1>1, <1>3, <2>1, <3>1 DEF Holders
    <3>3. Cardinality({s}) = 1
      BY FS_Singleton
    <3> QED
      BY <1>3, <3>1, <3>2, <3>3
  <2>2. CASE k \notin taken + 1 .. taken'
    <3>1. Holders(k)' \subseteq Holders(k)
      BY <1>1, <2>2 DEF Holders
    <3> QED
      BY <1>4, <3>1, SizesFollow
  <2> QED
    BY <2>1, <2>2
<1>6. Len(shells') = Len(shells)
  BY <1>1, NewShells DEF NoneNew
<1> QED
  BY <1>2, <1>5, <1>6, DoublingStays

(* A shell was forked by one that was there before, with lines that had    *)
(* been read.                                                              *)
Origins ==
  (\A t \in DOMAIN shells : shells[t].parent < t) /\ copied \subseteq 1 .. taken

InputTypes == Doubling /\ Origins

LEMMA OriginsKept ==
  ASSUME Shared, Shared', Origins, NEW s \in DOMAIN shells, In!Runs(s)
  PROVE  Origins'
<1>1. taken \in Nat /\ taken' \in Nat /\ Has(s) \subseteq 1 .. taken
  BY DEF Shared, Buffers
<1>2. shells \in Seq(In!Shell) /\ s \in 1 .. Len(shells) /\ shells[s] \in In!Shell
  BY ShellIs DEF Shared, Buffers
<1>3. CASE In!Unknown(s)
  <2> DEFINE b == shells[s].buf
             n == Len(shells)
             new == [shells[s] EXCEPT !.buf = Tail(shells[s].buf)]
             copy == [buf |-> Tail(shells[s].buf), at |-> "prompt", parent |-> s]
             old == [shells EXCEPT ![s] = new]
  <2>1. /\ shells' = Append(old, copy) /\ copied' = copied \cup In!ToSet(Tail(b))
        /\ taken' = taken /\ b # <<>>
    BY <1>2, <1>3 DEF In!Unknown, In!Copy, In!Rest, In!Buffer, In!Line
  <2>2. b \in Seq(Nat) /\ Rising(b)
    BY ShellIs
  <2>3. Tail(b) \in Seq(Nat) /\ In!ToSet(Tail(b)) \subseteq Has(s)
    BY <2>1, <2>2, RestOfBuffer DEF Has
  <2>4. /\ new \in In!Shell /\ new.parent = shells[s].parent
        /\ copy \in In!Shell /\ copy.parent = s
    <3>1. s \in Nat
      BY <1>2, LenProperties
    <3>2. new \in In!Shell /\ new.parent = shells[s].parent
      BY <1>2, <2>3 DEF In!Shell
    <3>3. copy \in In!Shell /\ copy.parent = s
      BY <2>3, <3>1 DEF In!Shell
    <3> QED
      BY <3>2, <3>3
  <2> HIDE DEF new, copy, b
  <2>5. /\ old \in Seq(In!Shell) /\ Len(old) = n /\ n \in Nat /\ DOMAIN shells = 1 .. n
        /\ old[s] = new /\ \A t \in 1 .. n : t # s => old[t] = shells[t]
    <3>1. old \in Seq(In!Shell) /\ Len(old) = n
      BY <1>2, <2>4, ExceptSeq
    <3> QED
      BY <1>2, <3>1, LenProperties
  <2> HIDE DEF old, n
  <2> PICK c : c = n + 1
    OBVIOUS
  <2>6. /\ shells' \in Seq(In!Shell) /\ Len(shells') = n + 1 /\ shells'[c] = copy
        /\ \A t \in 1 .. n : shells'[t] = old[t]
    BY <2>1, <2>4, <2>5, AppendProperties
  <2>7. DOMAIN shells' = 1 .. n + 1
    BY <2>6, LenProperties
  <2>8. ASSUME NEW t \in 1 .. n + 1 PROVE shells'[t].parent < t
    <3>1. CASE t = c
      <4>1. shells'[t].parent = s /\ s \in 1 .. n
        BY <1>2, <2>4, <2>6, <3>1 DEF n
      <4> QED
        BY <2>5, <3>1, <4>1
    <3>2. CASE t # c
      <4>1. t \in 1 .. n
        BY <2>5, <3>2
      <4>2. shells'[t].parent = shells[t].parent
        BY <2>4, <2>5, <2>6, <4>1
      <4>3. shells[t].parent < t
        BY <2>5, <4>1 DEF Origins
      <4> QED
        BY <4>2, <4>3, Zenon
    <3> QED
      BY <3>1, <3>2
  <2>9. copied' \subseteq 1 .. taken'
    BY <1>1, <2>1, <2>3 DEF Origins
  <2> QED
    BY <2>7, <2>8, <2>9 DEF Origins
<1>4. ASSUME NEW new, shells' = [shells EXCEPT ![s] = new], new.parent = shells[s].parent,
             copied' = copied, taken' >= taken
      PROVE  Origins'
  <2>1. DOMAIN shells' = DOMAIN shells
        /\ \A t \in DOMAIN shells : shells'[t].parent = shells[t].parent
    BY <1>4
  <2>2. copied' \subseteq 1 .. taken'
    BY <1>1, <1>4 DEF Origins
  <2>3. \A t \in DOMAIN shells' : shells'[t].parent < t
    BY <2>1, Zenon DEF Origins
  <2> QED
    BY <2>2, <2>3 DEF Origins
<1>5. CASE ~In!Unknown(s)
  <2>1. copied' = copied /\ taken' >= taken
    <3>1. taken' = taken \/ taken' \in taken + 1 .. Len(input)
      BY <1>5 DEF In!Runs, In!Fill, In!EndOfInput, In!Nothing, In!Exit, In!Command,
         In!WaitAll, In!AllEnded
    <3>2. copied' = copied
      BY <1>5 DEF In!Runs, In!Fill, In!EndOfInput, In!Nothing, In!Exit, In!Command,
         In!WaitAll, In!AllEnded
    <3> QED
      BY <1>1, <3>1, <3>2
  <2>2. \E row : shells' = [shells EXCEPT ![s] = row] /\ row.parent = shells[s].parent
    <3>1. ASSUME NEW lines, shells' = [shells EXCEPT ![s].buf = lines]
          PROVE  \E row : shells' = [shells EXCEPT ![s] = row] /\ row.parent = shells[s].parent
      <4> DEFINE row == [shells[s] EXCEPT !.buf = lines]
      <4>1. shells' = [shells EXCEPT ![s] = row] /\ row.parent = shells[s].parent
        BY <1>2, <3>1 DEF In!Shell
      <4> QED
        BY <4>1, Zenon
    <3>2. ASSUME NEW place, shells' = [shells EXCEPT ![s].at = place]
          PROVE  \E row : shells' = [shells EXCEPT ![s] = row] /\ row.parent = shells[s].parent
      <4> DEFINE row == [shells[s] EXCEPT !.at = place]
      <4>1. shells' = [shells EXCEPT ![s] = row] /\ row.parent = shells[s].parent
        BY <1>2, <3>2 DEF In!Shell
      <4> QED
        BY <4>1, Zenon
    <3>3. ASSUME NEW place, In!TakeLine(s, place)
          PROVE  \E row : shells' = [shells EXCEPT ![s] = row] /\ row.parent = shells[s].parent
      <4> DEFINE row == [shells[s] EXCEPT !.buf = Tail(shells[s].buf), !.at = place]
      <4>1. shells' = [shells EXCEPT ![s] = row]
        BY <1>2, <3>3 DEF In!TakeLine, In!Rest
      <4>2. row.parent = shells[s].parent
        BY <1>2 DEF In!Shell
      <4> QED
        BY <4>1, <4>2, Zenon
    <3>4. CASE In!Fill(s)
      BY <3>1, <3>4 DEF In!Fill
    <3>5. CASE In!EndOfInput(s) \/ In!AllEnded(s)
      BY <3>2, <3>5 DEF In!EndOfInput, In!AllEnded, In!Breaks
    <3> QED
      BY <1>5, <3>3, <3>4, <3>5 DEF In!Runs, In!Nothing, In!Exit, In!Command, In!WaitAll
  <2> QED
    BY <1>4, <2>1, <2>2
<1> QED
  BY <1>3, <1>5

LEMMA InputTypesStart ==
  ASSUME In!Init \/ NoInput
  PROVE  InputTypes
<1>1. /\ input \in Seq(In!Kinds) /\ Len(input) <= MaxLines /\ copied = {}
      /\ started = [k \in 1 .. Len(input) |-> 0]
      /\ \E place \in {"prompt", "ended"} :
           shells = <<[buf |-> <<>>, at |-> place, parent |-> 0]>>
  <2>1. CASE In!Init
    <3>1. PICK n \in 0 .. MaxLines : input \in [1 .. n -> In!Kinds]
      BY <2>1 DEF In!Init
    <3>2. n \in Nat
      BY PartsAssumption DEF In!LinesAssumption
    <3> QED
      BY <2>1, <3>1, <3>2 DEF In!Init, In!Lines
  <2>2. CASE NoInput
    BY <2>2, PartsAssumption DEF NoInput, In!LinesAssumption
  <2> QED
    BY <2>1, <2>2
<1>2. PICK n \in Nat : n = Len(input)
  BY <1>1, LenProperties
<1>3. Len(shells) = 1 /\ DOMAIN shells = {1} /\ Has(1) = {} /\ shells[1].parent = 0
  BY <1>1 DEF Has, In!ToSet
<1>4. Origins
  BY <1>1, <1>3 DEF Origins
<1> DEFINE g == [k \in 0 .. n |-> 1]
<1>5. Counts = [k \in 1 .. n |-> 0]
  <2>1. \A k : Holders(k) = {}
    BY <1>3 DEF Holders
  <2>2. \A k : Cardinality(Holders(k)) = 0
    BY <2>1, FS_EmptySet
  <2> QED
    BY <1>2, <2>2 DEF Counts
<1>6. Room(g, started, Counts, n)
  <2>1. started = [k \in 1 .. n |-> 0]
    BY <1>1, <1>2
  <2>2. /\ g \in [0 .. n -> Nat] /\ g[0] = 1 /\ started \in [1 .. n -> Nat]
        /\ Counts \in [1 .. n -> Nat]
    BY <1>5, <2>1
  <2>3. \A k \in 1 .. n : g[k] = 1 /\ g[k - 1] = 1 /\ started[k] = 0 /\ Counts[k] = 0
    BY <1>5, <2>1
  <2>4. \A k \in 1 .. n : g[k] = g[k - 1] + started[k] /\ started[k] + Counts[k] <= g[k - 1]
    BY <2>3
  <2> QED
    BY <2>2, <2>4 DEF Room, Summed
<1>7. Len(shells) <= g[n]
  BY <1>3
<1> HIDE DEF g
<1>8. Doubling
  BY <1>1, <1>2, <1>6, <1>7 DEF Doubling
<1> QED
  BY <1>4, <1>8 DEF InputTypes

LEMMA InputTypesKept ==
  ASSUME Shared, Shared', InputTypes, In!Next \/ UNCHANGED inputVars
  PROVE  InputTypes'
<1>1. CASE UNCHANGED inputVars
  <2>1. \A t \in DOMAIN shells : Has(t)' = Has(t)
    BY <1>1 DEF inputVars, Has
  <2> QED
    BY <1>1, <2>1, QuietDoubling DEF inputVars, InputTypes, Origins
<1>2. ASSUME NEW s \in DOMAIN shells, In!Runs(s)
      PROVE  InputTypes'
  <2>1. Origins'
    BY <1>2, OriginsKept DEF InputTypes
  <2>2. Doubling
    BY DEF InputTypes
  <2>3. CASE In!Fill(s)
    BY <1>2, <2>1, <2>2, <2>3, FillDoubling DEF InputTypes
  <2>4. CASE In!EndOfInput(s) \/ In!AllEnded(s)
    <3>1. PICK place : shells' = [shells EXCEPT ![s].at = place]
      BY <2>4, Zenon DEF In!EndOfInput, In!AllEnded, In!Breaks
    <3>2. UNCHANGED <<input, started>>
      BY <2>4 DEF In!EndOfInput, In!AllEnded
    <3>3. shells[s] \in In!Shell
      BY <1>2, ShellIs
    <3>4. DOMAIN shells' = DOMAIN shells
          /\ \A t \in DOMAIN shells : shells'[t].buf = shells[t].buf
      BY <3>1, <3>3 DEF In!Shell
    <3>5. \A t \in DOMAIN shells : Has(t)' = Has(t)
      BY <3>4 DEF Has
    <3> QED
      BY <2>1, <2>2, <3>2, <3>4, <3>5, QuietDoubling DEF InputTypes
  <2>5. ASSUME NEW kind, NEW place \in {"prompt", "waiting", "ended"},
               In!Line(s, kind), In!TakeLine(s, place), input' = input,
               started' = started \/ started' = [started EXCEPT ![Head(shells[s].buf)] = @ + 1]
        PROVE  Doubling'
    <3>1. PICK h : Takes(s, h, place) /\ NoneNew
      BY <1>2, <2>5, LineTaken
    <3>2. started' = started \/ started' = [started EXCEPT ![h] = @ + 1]
      BY <2>5, <3>1 DEF Takes
    <3> QED
      BY <1>2, <2>2, <2>5, <3>1, <3>2, TakesDoubling
  <2>6. CASE In!Nothing(s) \/ In!Exit(s) \/ In!WaitAll(s)
    <3>1. \E kind : \E place \in {"prompt", "waiting", "ended"} :
            In!Line(s, kind) /\ In!TakeLine(s, place)
      BY <2>6 DEF In!Nothing, In!Exit, In!WaitAll
    <3>2. input' = input /\ started' = started
      BY <2>6 DEF In!Nothing, In!Exit, In!WaitAll
    <3> QED
      BY <2>1, <2>5, <3>1, <3>2 DEF InputTypes
  <2>7. CASE In!Command(s)
    <3>1. /\ In!Line(s, "command") /\ In!TakeLine(s, "prompt") /\ input' = input
          /\ started' = [started EXCEPT ![Head(shells[s].buf)] = @ + 1]
      BY <2>7 DEF In!Command, In!StartJob, In!Buffer
    <3> QED
      BY <2>1, <2>5, <3>1 DEF InputTypes
  <2>8. CASE In!Unknown(s)
    <3>1. input' = input /\ started' = [started EXCEPT ![Head(shells[s].buf)] = @ + 1]
      BY <2>8 DEF In!Unknown, In!StartJob, In!Buffer
    <3>2. PICK h : Takes(s, h, "prompt") /\ OneNew(s)
      BY <1>2, <2>8, LineCopied
    <3>3. started' = [started EXCEPT ![h] = @ + 1]
      BY <3>1, <3>2 DEF Takes
    <3> QED
      BY <1>2, <2>1, <2>2, <3>1, <3>2, <3>3, TakesDoubling DEF InputTypes
  <2> QED
    BY <1>2, <2>3, <2>4, <2>6, <2>7, <2>8 DEF In!Runs
<1> QED
  BY <1>1, <1>2 DEF In!Next

(* What lies in a buffer rises from one byte to the next. *)
LEMMA RisingSteps ==
  ASSUME NEW b \in Seq(Nat), Rising(b)
  PROVE  \A k \in 1 .. Len(b) - 1 : b[k] < b[k + 1]
<1> PICK n \in Nat : n = Len(b)
  BY LenProperties
<1> TAKE k \in 1 .. n - 1
<1>1. k \in 1 .. Len(b) /\ k + 1 \in 1 .. Len(b) /\ k < k + 1
  OBVIOUS
<1> QED
  BY <1>1 DEF Rising

LEMMA InputTypesAreEnough ==
  ASSUME Shared, InputTypes
  PROVE  In!TypeOK
<1>1. /\ input \in Seq(In!Kinds) /\ taken \in 0 .. Len(input)
      /\ shells \in Seq(In!Shell) /\ copied \subseteq 1 .. taken
  BY DEF Shared, Buffers, InputTypes, Origins
<1>2. Len(shells) <= In!MostShells
  BY DoublingIsEnough DEF InputTypes, In!MostShells
<1>3. DOMAIN started = In!Lines /\ \A k \in In!Lines : started[k] \in 0 .. In!Doublings[k - 1]
  <2>1. started \in [1 .. Len(input) -> Nat]
    BY DEF Shared, Buffers
  <2>2. ASSUME NEW k \in 1 .. Len(input) PROVE started[k] \in 0 .. In!Doublings[k - 1]
    <3>1. started[k] \in Nat /\ started[k] <= In!Doublings[k - 1]
      BY <2>1, DoublingIsEnough DEF InputTypes
    <3>2. In!Doublings[k - 1] \in Nat
      <4>1. PICK n \in Nat : n = Len(input) /\ n <= MaxLines
        BY DEF Shared, Buffers, InputTypes, Doubling
      <4>2. k - 1 \in 0 .. MaxLines
        BY <4>1, PartsAssumption DEF In!LinesAssumption
      <4>3. \A m \in 0 .. MaxLines : In!Doublings[m] \in Nat
        BY DoublingsAre
      <4> QED
        BY <4>2, <4>3
    <3> QED
      BY <3>1, <3>2
  <2> QED
    BY <2>1, <2>2 DEF In!Lines
<1>4. ASSUME NEW s \in DOMAIN shells
      PROVE  /\ \A k \in 1 .. Len(shells[s].buf) - 1 : shells[s].buf[k] < shells[s].buf[k + 1]
             /\ shells[s].parent < s
  <2>1. shells[s].buf \in Seq(Nat) /\ Rising(shells[s].buf)
    BY ShellIs
  <2>2. \A k \in 1 .. Len(shells[s].buf) - 1 : shells[s].buf[k] < shells[s].buf[k + 1]
    BY <2>1, RisingSteps
  <2>3. shells[s].parent < s
    BY DEF InputTypes, Origins
  <2> QED
    BY <2>2, <2>3
<1> QED
  BY <1>1, <1>2, <1>3, <1>4 DEF In!TypeOK

(* The types, for tables, pipes, buffers and inputs of any size.  That no  *)
(* more is counted than was written, that a buffer is filled as far as it  *)
(* goes and that shells double at most with each line are among them       *)
(* (cmdctl_add, read_all, cmd_start).                                      *)
THEOREM ShellTypesHold == ShellSpec => []TypesOK
<1> DEFINE Jobs == TableInv /\ Stored /\ JobTypes
           Bytes == Pieces /\ OutTypes
           Lines == Shared /\ NoneLost /\ InputTypes
<1>1. ShellInit => Jobs /\ Bytes /\ Lines
  <2> SUFFICES ASSUME ShellInit PROVE Jobs /\ Bytes /\ Lines
    OBVIOUS
  <2>1. Init /\ Out!Init /\ (In!Init \/ NoInput)
    BY Zenon DEF ShellInit
  <2>2. Jobs
    BY <2>1, TableInvStarts, StoredStarts, JobTypesStart
  <2>3. Bytes
    BY <2>1, PiecesStart, OutTypesStart
  <2>4. Lines
    BY <2>1, LinesStart, InputTypesStart
  <2> QED
    BY <2>2, <2>3, <2>4
<1>2. Jobs /\ Bytes /\ Lines /\ [ShellNext]_<<part, vars, inputVars, outputVars>> =>
        (Jobs /\ Bytes /\ Lines)'
  <2> SUFFICES ASSUME Jobs, Bytes, Lines,
                      [ShellNext]_<<part, vars, inputVars, outputVars>>
               PROVE  (Jobs /\ Bytes /\ Lines)'
    OBVIOUS
  <2>1. /\ [Next]_vars
        /\ Out!Next \/ UNCHANGED outputVars
        /\ In!Next \/ UNCHANGED inputVars
    BY DEF ShellNext
  <2>2. Jobs'
    BY <2>1, TableInvKept, StoredKept, JobTypesKept
  <2>3. Bytes'
    BY <2>1, PiecesKept, OutTypesKept
  <2>4. Lines'
    BY <2>1, LinesKept, InputTypesKept
  <2> QED
    BY <2>2, <2>3, <2>4
<1>3. Jobs /\ Bytes /\ Lines => TypesOK
  BY JobTypesAreEnough, OutTypesAreEnough, InputTypesAreEnough DEF TypesOK
<1> HIDE DEF Jobs, Bytes, Lines
<1> QED
  BY <1>1, <1>2, <1>3, PTL DEF ShellSpec
=============================================================================
