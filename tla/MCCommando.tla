----------------------------- MODULE MCCommando -----------------------------
(* The shell on small instances.  A behaviour is one of Commando or of one *)
(* of the two modules for what Commando leaves out, with which it has no   *)
(* variable in common: the input (ShellInput) and the bytes of the output  *)
(* (ShellOutput).  The others stay as they begin, with nothing to do.      *)
EXTENDS Commando

CONSTANTS MaxLines, BufBytes, MaxBytes, Chars, NUL, Junk

VARIABLES
  part,
  input, taken, shells, started, copied,
  written, unread, buf, cur_bufsize, bytes_read, readpc

inputVars == <<input, taken, shells, started, copied>>
outputVars == <<written, unread, buf, cur_bufsize, bytes_read, readpc>>

In == INSTANCE ShellInput WITH jobs <- started
Out == INSTANCE ShellOutput WITH BufSize <- BufBytes, pc <- readpc

ASSUME PartsAssumption == In!LinesAssumption /\ Out!OutputAssumption

NoInput ==
  /\ input = <<>> /\ taken = 0 /\ started = <<>> /\ copied = {}
  /\ shells = <<[buf |-> <<>>, at |-> "ended", parent |-> 0]>>

ShellInit ==
  /\ part \in {"jobs", "input", "output"} /\ Init
  /\ IF part = "input" THEN In!Init ELSE NoInput
  /\ Out!Init /\ (part # "output" => written = <<>>)

ShellNext ==
  /\ UNCHANGED part
  /\ \/ part = "jobs" /\ Next /\ UNCHANGED <<inputVars, outputVars>>
     \/ part = "input" /\ In!Next /\ UNCHANGED <<vars, outputVars>>
     \/ part = "output" /\ Out!Next /\ UNCHANGED <<vars, inputVars>>

ShellSpec ==
  /\ ShellInit /\ [][ShellNext]_<<part, vars, inputVars, outputVars>>
  /\ Fairness /\ In!Fairness

-----------------------------------------------------------------------------
(* The properties, of all parts.                                           *)
TypesOK == TypeOK /\ In!TypeOK /\ Out!TypeOK

(* What is stored for a job is its whole output, read into a buffer that   *)
(* holds it (OutputWhole, BufferHolds), and byte for byte what was written *)
(* in front of the first NUL (FirstPieces; read_all).                      *)
OutputKept == OutputWhole /\ BufferHolds /\ Out!FirstPieces

(* However many shells share the input, none of its lines is started       *)
(* twice, unless it was copied, and none is lost (cmd_start, main).        *)
LinesRunOnce == In!OneJobEach /\ In!NoLineLost

(* A pass over the jobs comes to its end (PassEnds), and every shell to    *)
(* its own (AllShellsEnd; cmdctl_update_state, main).                      *)
ShellsComeBack == PassEnds /\ In!AllShellsEnd
=============================================================================
