------------------------------ MODULE Commando ------------------------------
(***************************************************************************)
(* The command line shell: the shell process with its table of jobs, and   *)
(* the processes it forks, each with a pipe for its output (commando.c,    *)
(* cmdctl.c, cmd.c).  Output is counted in units; which bytes they hold is *)
(* left out.  A step of the shell is one call of cmd_update_state, one     *)
(* read, or what it does with one line of input; in between the processes  *)
(* write, end, are stopped, continued and killed.                          *)
(*                                                                         *)
(* When execvp fails the child goes on in main as a second shell.  To the  *)
(* first shell it is a process that writes nothing into its pipe and ends  *)
(* when it is told to, and the jobs it starts are descendants that keep    *)
(* the pipe open; that is how it is modelled.                              *)
(***************************************************************************)
EXTENDS Integers, Sequences, FiniteSets

CONSTANTS
  MaxChild,  \* MAX_CHILD of commando.h
  BufSize,   \* BUFSIZE of commando.h, in units of output
  PipeCap,   \* how many units a pipe holds
  MaxProcs,  \* how many forks succeed at most
  MaxOut,    \* how many units a process and its descendants write at most
  MaxEvents  \* how many times a process is stopped, killed, or leaves a
             \* descendant behind

ASSUME CommandoAssumption ==
  /\ MaxChild \in Nat \ {0} /\ BufSize \in Nat \ {0} /\ PipeCap \in Nat \ {0}
  /\ MaxProcs \in Nat /\ MaxOut \in Nat /\ MaxEvents \in Nat

VARIABLES
  jobs,     \* ctl->cmd[0 .. ctl->size - 1], counted from 1
  pc,       \* where the shell is
  mode,     \* which pass over the jobs it is in
  at,       \* the job the pass has come to
  cap, got, \* cur_bufsize and bytes_read of read_all
  forked,   \* how many processes have been forked
  proc,     \* the state of each process
  news,     \* the stop or continuation its parent has not been told of yet
  todo,     \* how many units it and its descendants still have to write
  held,     \* how many units its pipe holds
  kept,     \* processes with a descendant that holds their pipe open
  shellW,   \* pipes whose write end the shell itself holds open
  events,   \* how many times that has happened
  atEnd,    \* history: how many units that were when the process exited
  due       \* history: the processes that had exited when the pass began

shellVars == <<jobs, pc, mode, at, cap, got, shellW, due>>
procVars  == <<forked, proc, news, todo, kept, events, atEnd>>
vars == <<shellVars, procVars, held>>

-----------------------------------------------------------------------------
Procs == 1 .. MaxProcs
NoProc == 0     \* the pid -1, and the pipe of a job that could not be forked
Unknown == -1   \* the exit status taken from an uninitialized variable
NoOutput == -1  \* output_size before there is any

Alive == {"run", "stopped"}
Ended == {"exited", "killed"}

(* cmd_t.  The status is named by the process whose exit status it is.     *)
Job == [pid : Procs \cup {NoProc}, pipe : Procs \cup {NoProc},
        finished : BOOLEAN, status : Procs \cup {NoProc, Unknown},
        output_size : -1 .. MaxOut]

NewJob == [pid |-> NoProc, pipe |-> NoProc, finished |-> FALSE,
           status |-> NoProc, output_size |-> NoOutput]

TypeOK ==
  /\ jobs \in Seq(Job) /\ Len(jobs) <= MaxChild
  /\ pc \in {"prompt", "look", "first", "more", "ended"}
  /\ mode \in {"poll", "pause", "one", "all"}
  /\ at \in 1 .. MaxChild + 1
  /\ cap \in Nat /\ got \in 0 .. MaxOut
  /\ forked \in 0 .. MaxProcs
  /\ proc \in [Procs -> {"none", "reaped"} \cup Alive \cup Ended]
  /\ news \in [Procs -> {"none", "stop", "cont"}]
  /\ todo \in [Procs -> 0 .. MaxOut]
  /\ held \in [Procs -> 0 .. PipeCap] /\ atEnd \in [Procs -> 0 .. PipeCap]
  /\ kept \subseteq Procs /\ shellW \subseteq Procs /\ due \subseteq Procs
  /\ events \in 0 .. MaxEvents

Init ==
  /\ jobs = <<>> /\ pc = "prompt" /\ mode = "poll" /\ at = 1
  /\ cap = 0 /\ got = 0 /\ forked = 0 /\ events = 0
  /\ proc = [p \in Procs |-> "none"] /\ news = [p \in Procs |-> "none"]
  /\ todo = [p \in Procs |-> 0] /\ held = [p \in Procs |-> 0]
  /\ atEnd = [p \in Procs |-> 0]
  /\ kept = {} /\ shellW = {} /\ due = {}

-----------------------------------------------------------------------------
(* A pipe: what it holds, and whether anybody could still write into it.   *)
Holds(p) == IF p = NoProc THEN 0 ELSE held[p]
HasWriter(p) == p # NoProc /\ (proc[p] \in Alive \/ p \in kept \cup shellW)

(* cmd_start: the parent closes the write end.  Mutant: it does not.       *)
ParentKeeps(p) == shellW' = shellW \cup {p}
ParentCloses(p) == UNCHANGED shellW

(* read_all: the first read filled the buffer.  Mutant: it never does.     *)
MoreThan(n) == n > BufSize
Filled(n) == n >= BufSize

(* read_all: the buffer is doubled for the next read.  Mutant: it stays.   *)
SameCap == UNCHANGED cap
DoubleCap == cap' = 2 * cap

(* cmd_update_state does nothing for a job that has finished.  Mutant: it  *)
(* waits for it again.                                                     *)
NeverSkipped(j) == FALSE
Skipped(j) == jobs[j].finished

(* cmdctl_add finds no room.  Mutant: one job too late.                    *)
TableFullTooLate == Len(jobs) > MaxChild
TableFull == Len(jobs) >= MaxChild

(* A pass over the jobs is over.  Mutant: the last one is left out.        *)
PassLeavesLast == at >= Len(jobs)
PassOver == at > Len(jobs)

-----------------------------------------------------------------------------
(* What main does with a line of input.  Passes over the jobs follow; the  *)
(* last of them, before the next prompt, never waits.                      *)
Pass(m, j) ==
  /\ pc' = "look" /\ mode' = m /\ at' = j
  /\ due' = IF m = "poll" THEN {p \in Procs : proc[p] = "exited"} ELSE {}

(* help, list, output-for and output-all, and lines without a meaning.     *)
Report == pc = "prompt" /\ Pass("poll", 1)
         /\ UNCHANGED <<jobs, cap, got, shellW, held, procVars>>

(* output-for with the number of no job goes through a pointer that was    *)
(* never set: the shell may print anything, or die.                        *)
OutputForNoJob ==
  /\ pc = "prompt" /\ pc' = "ended"
  /\ UNCHANGED <<jobs, mode, at, cap, got, shellW, due, held, procVars>>

Pause == pc = "prompt" /\ Pass("pause", 1)
         /\ UNCHANGED <<jobs, cap, got, shellW, held, procVars>>

WaitFor == /\ pc = "prompt"
           /\ \E j \in 1 .. Len(jobs) : Pass("one", j)
           /\ UNCHANGED <<jobs, cap, got, shellW, held, procVars>>

WaitAll == pc = "prompt" /\ Pass("all", 1)
           /\ UNCHANGED <<jobs, cap, got, shellW, held, procVars>>

(* exit, or the end of the input.                                          *)
Exit == /\ pc = "prompt" /\ pc' = "ended"
        /\ UNCHANGED <<jobs, mode, at, cap, got, shellW, due, held, procVars>>

(* Any other line is a command: cmdctl_add puts a new job at the end, and  *)
(* cmd_start starts the job that is at the end, which in a full table is   *)
(* the one that was there already.                                         *)
Added == IF TableFull THEN jobs ELSE Append(jobs, NewJob)
Last == Len(Added)

Run(p) ==
  /\ jobs' = [Added EXCEPT ![Last].pid = p, ![Last].pipe = p]
  /\ Pass("poll", 1)
  /\ UNCHANGED <<cap, got, held>>

(* fork succeeds ...                                                       *)
RunJob ==
  /\ pc = "prompt" /\ forked < MaxProcs
  /\ forked' = forked + 1 /\ Run(forked') /\ ParentCloses(forked')
  /\ proc' = [proc EXCEPT ![forked'] = "run"]
  /\ \E n \in 0 .. MaxOut : todo' = [todo EXCEPT ![forked'] = n]
  /\ UNCHANGED <<news, kept, events, atEnd>>

(* ... or returns -1, which is taken for a pid.                            *)
RunFails ==
  /\ pc = "prompt" /\ Run(NoProc)
  /\ UNCHANGED <<shellW, procVars>>

-----------------------------------------------------------------------------
(* The pass goes on behind the job at, or is over.                         *)
NextJob ==
  IF mode = "one"
    THEN Pass("poll", 1)
    ELSE at' = at + 1 /\ pc' = "look" /\ UNCHANGED <<mode, due>>

EndPass ==
  /\ pc = "look" /\ PassOver
  /\ IF mode = "poll"
       THEN pc' = "prompt" /\ at' = 1 /\ UNCHANGED <<mode, due>>
       ELSE Pass("poll", 1)
  /\ UNCHANGED <<jobs, cap, got, shellW, held, procVars>>

(* cmd_update_state of the job at: what waitpid may answer.                *)
AtJob == pc = "look" /\ ~PassOver
Awaited ==
  {p \in Procs : /\ proc[p] \in Alive \cup Ended
                 /\ jobs[at].pid \in {p, NoProc}}
Answerable(p) == proc[p] \in Ended \/ news[p] # "none"

SkipFinished ==
  /\ AtJob /\ Skipped(at)
  /\ NextJob
  /\ UNCHANGED <<jobs, cap, got, shellW, held, procVars>>

(* A process ended, stopped or went on.  Only the exit of the job's own    *)
(* process is taken up; anything else is forgotten with the answer.        *)
WaitAnswers(p) ==
  /\ AtJob /\ ~Skipped(at)
  /\ p \in Awaited /\ Answerable(p)
  /\ proc' = [proc EXCEPT ![p] = IF @ \in Ended THEN "reaped" ELSE @]
  /\ news' = [news EXCEPT ![p] = "none"]
  /\ IF p = jobs[at].pid /\ proc[p] = "exited"
       THEN /\ jobs' = [jobs EXCEPT ![at].finished = TRUE, ![at].status = p]
            /\ pc' = "first" /\ UNCHANGED <<mode, at, due>>
       ELSE NextJob /\ UNCHANGED jobs
  /\ UNCHANGED <<cap, got, shellW, held, forked, todo, kept, events, atEnd>>

(* Nothing to answer yet: with WNOHANG waitpid returns 0.                  *)
NoAnswer ==
  /\ AtJob /\ ~Skipped(at) /\ mode \in {"poll", "pause"}
  /\ Awaited # {} /\ \A p \in Awaited : ~Answerable(p)
  /\ NextJob
  /\ UNCHANGED <<jobs, cap, got, shellW, held, procVars>>

(* There is no such child: waitpid returns -1, which for a job that was    *)
(* never forked is its pid; then whatever status holds decides.            *)
NoChild ==
  /\ AtJob /\ ~Skipped(at) /\ Awaited = {}
  /\ \/ NextJob /\ UNCHANGED jobs
     \/ /\ jobs[at].pid = NoProc
        /\ jobs' = [jobs EXCEPT ![at].finished = TRUE, ![at].status = Unknown]
        /\ pc' = "first" /\ UNCHANGED <<mode, at, due>>
  /\ UNCHANGED <<cap, got, shellW, held, procVars>>

-----------------------------------------------------------------------------
(* cmd_fetch_output and read_all.  A read blocks while the pipe is empty   *)
(* and somebody could still write into it.                                 *)
Pipe == jobs[at].pipe
ReadReturns == Holds(Pipe) > 0 \/ ~HasWriter(Pipe)
Least(a, b) == IF a < b THEN a ELSE b
Take(n) ==
  held' = IF Pipe = NoProc THEN held ELSE [held EXCEPT ![Pipe] = @ - n]

Fetched(n) ==
  /\ jobs' = [jobs EXCEPT ![at].output_size = n]
  /\ cap' = 0 /\ got' = 0
  /\ NextJob

FirstRead ==
  /\ pc = "first" /\ ReadReturns
  /\ LET n == Least(Holds(Pipe), BufSize)
     IN  /\ Take(n)
         /\ \/ ~Filled(n) /\ Fetched(n)
            \/ /\ Filled(n) /\ got' = n /\ cap' = BufSize
               /\ pc' = "more" /\ UNCHANGED <<jobs, mode, at, due>>
  /\ UNCHANGED <<shellW, procVars>>

MoreReads ==
  /\ pc = "more" /\ ReadReturns
  /\ LET n == Least(Holds(Pipe), cap)
     IN  /\ Take(n)
         /\ \/ n = 0 /\ Fetched(got)
            \/ /\ n > 0 /\ got' = got + n /\ DoubleCap
               /\ UNCHANGED <<jobs, pc, mode, at, due>>
  /\ UNCHANGED <<shellW, procVars>>

-----------------------------------------------------------------------------
(* The processes, while the shell runs.  One that has a descendant may     *)
(* leave it the rest of its output, and end before.                        *)
Write(p) ==
  /\ proc[p] = "run" \/ p \in kept
  /\ todo[p] > 0 /\ Holds(p) < PipeCap
  /\ todo' = [todo EXCEPT ![p] = @ - 1] /\ held' = [held EXCEPT ![p] = @ + 1]
  /\ UNCHANGED <<shellVars, forked, proc, news, kept, events, atEnd>>

Spawn(p) ==
  /\ events < MaxEvents /\ events' = events + 1
  /\ proc[p] = "run" /\ p \notin kept /\ kept' = kept \cup {p}
  /\ UNCHANGED <<shellVars, held, forked, proc, news, todo, atEnd>>

DescendantEnds(p) ==
  /\ p \in kept /\ (todo[p] = 0 \/ proc[p] \in Alive)
  /\ kept' = kept \ {p}
  /\ UNCHANGED <<shellVars, held, forked, proc, news, todo, events, atEnd>>

ProcessExits(p) ==
  /\ proc[p] = "run" /\ (todo[p] = 0 \/ p \in kept)
  /\ proc' = [proc EXCEPT ![p] = "exited"]
  /\ atEnd' = [atEnd EXCEPT ![p] = held[p]]
  /\ UNCHANGED <<shellVars, held, forked, news, todo, kept, events>>

(* From outside: SIGSTOP, SIGCONT, and signals that kill.                  *)
Stop(p) ==
  /\ events < MaxEvents /\ events' = events + 1
  /\ proc[p] = "run" /\ proc' = [proc EXCEPT ![p] = "stopped"]
  /\ news' = [news EXCEPT ![p] = "stop"]
  /\ UNCHANGED <<shellVars, held, forked, todo, kept, atEnd>>

Continue(p) ==
  /\ proc[p] = "stopped" /\ proc' = [proc EXCEPT ![p] = "run"]
  /\ news' = [news EXCEPT ![p] = "cont"]
  /\ UNCHANGED <<shellVars, held, forked, todo, kept, events, atEnd>>

KillProcess(p) ==
  /\ events < MaxEvents /\ events' = events + 1
  /\ proc[p] \in Alive /\ proc' = [proc EXCEPT ![p] = "killed"]
  /\ news' = [news EXCEPT ![p] = "none"]
  /\ UNCHANGED <<shellVars, held, forked, todo, kept, atEnd>>

-----------------------------------------------------------------------------
UserLine ==
  \/ Report \/ OutputForNoJob \/ Pause \/ WaitFor \/ WaitAll \/ Exit
  \/ RunJob \/ RunFails

Shell ==
  \/ EndPass \/ SkipFinished \/ NoAnswer \/ NoChild \/ FirstRead \/ MoreReads
  \/ \E p \in Procs : WaitAnswers(p)

Goes(p) == Write(p) \/ DescendantEnds(p) \/ ProcessExits(p)

Outside(p) == Spawn(p) \/ Stop(p) \/ Continue(p) \/ KillProcess(p)

Next ==
  \/ UserLine \/ Shell
  \/ pc # "ended" /\ \E p \in Procs : Goes(p) \/ Outside(p)

Spec == Init /\ [][Next]_vars

(* The shell runs when it can, and so do the processes, which come to an   *)
(* end when nobody keeps them from it.  Nobody has to type.                *)
Fairness ==
  /\ WF_vars(Shell)
  /\ \A p \in Procs :
       /\ WF_vars(pc # "ended" /\ Write(p))
       /\ WF_vars(pc # "ended" /\ ProcessExits(p))
       /\ WF_vars(pc # "ended" /\ DescendantEnds(p))

FairSpec == Spec /\ Fairness

-----------------------------------------------------------------------------
Forkless == \E j \in 1 .. Len(jobs) : jobs[j].pid = NoProc

(* The output that is stored for a job is at least everything that was in  *)
(* its pipe when its process exited, however much that is (read_all,       *)
(* cmd_fetch_output).                                                      *)
OutputWhole ==
  \A j \in 1 .. Len(jobs) :
    LET p == jobs[j].status
    IN  jobs[j].output_size # NoOutput /\ p \in Procs =>
          jobs[j].output_size >= atEnd[p]

(* read_all never reads more than the buffer it joins the pieces in holds. *)
BufferHolds == pc = "more" => got <= cap

(* At the prompt the table is up to date: a job whose process had exited   *)
(* when the last pass began is finished (cmdctl_update_state).  It may not *)
(* be when a job could not be forked: waiting for its pid of -1 takes the  *)
(* exit of another job's process, which is then lost.                      *)
ExitsNoticed ==
  pc = "prompt" /\ ~Forkless =>
    \A j \in 1 .. Len(jobs) : jobs[j].pid \in due => jobs[j].finished

(* Once a job has its output, neither that nor its status changes again,   *)
(* also when the table is full and the job is started once more            *)
(* (cmd_update_state against cmdctl_add).                                  *)
ResultStays ==
  [][\A j \in 1 .. Len(jobs) : jobs[j].output_size # NoOutput =>
       /\ jobs'[j].output_size = jobs[j].output_size
       /\ jobs'[j].status = jobs[j].status]_vars

(* A pass over the jobs comes to its end, unless somebody keeps a process  *)
(* stopped, a pipe is full, or a descendant lives on.                      *)
HeldUp ==
  \E p \in Procs : \/ proc[p] = "stopped" \/ p \in kept
                   \/ Holds(p) = PipeCap
PassEnds == (pc \notin {"prompt", "ended"}) ~> (pc = "prompt" \/ HeldUp)

-----------------------------------------------------------------------------
(* "wait for all jobs to finish" (the help text of commando.c): since     *)
(* every process ends when nobody keeps it from it, so does wait-all.      *)
WaitAllEnds == (mode = "all") ~> (mode # "all")
=============================================================================
