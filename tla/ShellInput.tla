----------------------------- MODULE ShellInput -----------------------------
(***************************************************************************)
(* The input of commando and what becomes of a command that cannot be      *)
(* executed (commando.c, cmd_start of cmd.c, parse_into_tokens): the child *)
(* returns from cmd_start into the loop of main and is a second shell,     *)
(* with a copy of what stdio had already read.  Jobs that are executed end *)
(* by themselves; Commando has them in detail.                             *)
(***************************************************************************)
EXTENDS Integers, Sequences, SequencesExt, FiniteSetsExt

CONSTANTS
  MaxLines    \* how many lines the input has

LinesAssumption == MaxLines \in Nat

(* Lines are blank or built-in, commands that can or cannot be executed,   *)
(* wait-all, and exit.                                                     *)
Kinds == {"nothing", "command", "unknown", "wait-all", "exit"}

VARIABLES
  input,      \* the lines of the standard input, from a pipe or a terminal
  taken,      \* how many of them have been read
  shells,     \* the shells: the lines in their buffers, and where they are
  jobs,       \* history: how often each line was started as a job
  copied      \* history: lines in a buffer when it was copied

vars == <<input, taken, shells, jobs, copied>>

Shell == [buf : Seq(Nat), at : {"prompt", "waiting", "ended"}, parent : Nat]
Lines == 1 .. Len(input)

(* Only earlier lines can double the shells that have a line, so that      *)
(* there are never more than MostShells: Next leaves none out, as TypeOK   *)
(* says (proved in CommandoProofs).                                        *)
Doublings[n \in 0 .. MaxLines] == IF n = 0 THEN 1 ELSE 2 * Doublings[n - 1]
MostShells == Doublings[MaxLines]

TypeOK ==
  /\ input \in Seq(Kinds) /\ taken \in 0 .. Len(input)
  /\ shells \in Seq(Shell) /\ Len(shells) <= MostShells
  /\ \A s \in DOMAIN shells :
       /\ \A i \in 1 .. Len(shells[s].buf) - 1 : shells[s].buf[i] < shells[s].buf[i + 1]
       /\ shells[s].parent < s
  /\ DOMAIN jobs = Lines /\ \A i \in Lines : jobs[i] \in 0 .. Doublings[i - 1]
  /\ copied \subseteq 1 .. taken

Init ==
  /\ input \in UNION {[1 .. n -> Kinds] : n \in 0 .. MaxLines}
  /\ taken = 0 /\ shells = <<[buf |-> <<>>, at |-> "prompt", parent |-> 0]>>
  /\ jobs = [i \in Lines |-> 0] /\ copied = {}

-----------------------------------------------------------------------------
At(s, place) == shells[s].at = place
Buffer(s) == shells[s].buf
Ended(s) == At(s, "ended")

(* fgets finds its buffer empty: stdio reads what has come, or the end.    *)
(* Mutant: the loop goes on behind the end.                                *)
GoesOn(s) == UNCHANGED shells
Breaks(s) == shells' = [shells EXCEPT ![s].at = "ended"]

Fill(s) ==
  /\ At(s, "prompt") /\ Buffer(s) = <<>> /\ taken < Len(input)
  /\ taken' \in taken + 1 .. Len(input)
  /\ shells' = [shells EXCEPT ![s].buf = [i \in 1 .. taken' - taken |-> taken + i]]
  /\ UNCHANGED <<input, jobs, copied>>

EndOfInput(s) ==
  /\ At(s, "prompt") /\ Buffer(s) = <<>> /\ taken = Len(input)
  /\ Breaks(s) /\ UNCHANGED <<input, taken, jobs, copied>>

(* fgets takes one line.  Mutants: it drops the rest; it takes none.       *)
NoRest(buf) == <<>>
SameAgain(buf) == buf
Rest(buf) == Tail(buf)

Line(s, kind) ==
  At(s, "prompt") /\ Buffer(s) # <<>> /\ input[Head(Buffer(s))] = kind
TakeLine(s, place) ==
  shells' = [shells EXCEPT ![s].buf = Rest(@), ![s].at = place]

(* No tokens, or a command of the shell's own that changes nothing here.   *)
Nothing(s) ==
  /\ Line(s, "nothing") /\ TakeLine(s, "prompt")
  /\ UNCHANGED <<input, taken, jobs, copied>>

Exit(s) ==
  /\ Line(s, "exit") /\ TakeLine(s, "ended")
  /\ UNCHANGED <<input, taken, jobs, copied>>

(* cmd_start: fork, and execvp in the child succeeds ...                   *)
StartJob(s) == jobs' = [jobs EXCEPT ![Head(Buffer(s))] = @ + 1]

Command(s) ==
  /\ Line(s, "command") /\ StartJob(s) /\ TakeLine(s, "prompt")
  /\ UNCHANGED <<input, taken, copied>>

(* ... or returns: the child goes on as the shell it is a copy of.         *)
Copy(s) == [buf |-> Rest(Buffer(s)), at |-> "prompt", parent |-> s]

Unknown(s) ==
  /\ Line(s, "unknown") /\ StartJob(s)
  /\ shells' = Append([shells EXCEPT ![s].buf = Rest(@)], Copy(s))
  /\ copied' = copied \cup ToSet(Rest(Buffer(s)))
  /\ UNCHANGED <<input, taken>>

(* wait-all: the jobs of a shell that did not end yet are its copies.      *)
Children(s) == {c \in DOMAIN shells : shells[c].parent = s}

WaitAll(s) ==
  /\ Line(s, "wait-all") /\ TakeLine(s, "waiting")
  /\ UNCHANGED <<input, taken, jobs, copied>>

AllEnded(s) ==
  /\ At(s, "waiting") /\ \A c \in Children(s) : Ended(c)
  /\ shells' = [shells EXCEPT ![s].at = "prompt"]
  /\ UNCHANGED <<input, taken, jobs, copied>>

Runs(s) ==
  \/ Fill(s) \/ EndOfInput(s)
  \/ Nothing(s) \/ Exit(s) \/ Command(s) \/ Unknown(s) \/ WaitAll(s)
  \/ AllEnded(s)

Next == \E s \in 1 .. MostShells : s \in DOMAIN shells /\ Runs(s)

Spec == Init /\ [][Next]_vars

(* Each shell is scheduled.                                                *)
Fairness ==
  \A s \in 1 .. MostShells : WF_vars(s \in DOMAIN shells /\ Runs(s))

FairSpec == Spec /\ Fairness

-----------------------------------------------------------------------------
(* A line is started as one job, unless a command that could not be        *)
(* executed was forked while stdio already held the line (cmd_start).      *)
OneJobEach == \A i \in Lines \ copied : jobs[i] <= 1

(* However many shells share the input, each command that was read has     *)
(* been started or is in the buffer of a shell that goes on, until some    *)
(* shell was told to exit (main).                                          *)
Held == UNION {ToSet(Buffer(s)) : s \in {t \in DOMAIN shells : ~Ended(t)}}

NoLineLost ==
  \A i \in 1 .. taken :
    input[i] \in {"command", "unknown"} =>
      \/ jobs[i] > 0 \/ i \in Held
      \/ \E k \in 1 .. taken : input[k] = "exit" /\ k \notin Held

(* Every shell ends, the copies too, also when one waits for the others    *)
(* while they read on: the input comes to its end (main, wait-all).        *)
AllShellsEnd == <>[](\A s \in DOMAIN shells : Ended(s))

-----------------------------------------------------------------------------
(* "non-built-in is run as a job" (commando.c:37): as one.                 *)
RunAsAJob == \A i \in Lines : jobs[i] <= 1
=============================================================================
