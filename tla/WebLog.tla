------------------------------- MODULE WebLog -------------------------------
(***************************************************************************)
(* The life of the web server around its accept loop (main of server.c):   *)
(* output is redirected to two log files and in the end back to the        *)
(* console, while the threads still run and write.  stdout is a file then, *)
(* so that stdio keeps what is printed in a buffer; stderr has none.  A    *)
(* thread prints one line to stdout and one to stderr for its request;     *)
(* what else it does is the matter of WebServer.                           *)
(***************************************************************************)
EXTENDS Integers, Sequences, FiniteSets

CONSTANTS
  MaxConnections,  \* MAX_CONNECTIONS of httpd.conf
  BufCap           \* how many lines the buffer of stdout holds

WebLogAssumption == MaxConnections \in Nat /\ BufCap \in Nat \ {0}

VARIABLES
  mainpc,     \* where main is
  listening,  \* socket and bind have not failed
  rounds,     \* num_connections
  threadpc,   \* the thread of each round
  fd1, fd2,   \* where stdout and stderr lead
  buffer,     \* what stdio holds back of stdout
  written,    \* what each file has got, in order
  got,        \* history: the requests printed to stdout, in order
  early       \* history: how many of them before main flushed stdout

vars == <<mainpc, listening, rounds, threadpc, fd1, fd2, buffer, written, got,
          early>>

Rounds == 1 .. MaxConnections + 1
Places == {"console", "access_log", "error_log"}
Ended == {"failed", "crashed", "sigpipe", "exited"}

TypeOK ==
  /\ mainpc \in {"open", "redirect", "config", "socket", "loop", "flush",
                 "stdout_back", "stderr_back", "return"} \cup Ended
  /\ listening \in BOOLEAN /\ rounds \in 0 .. MaxConnections + 1
  /\ threadpc \in [Rounds -> {"none", "no_client", "recv", "stderr", "answer",
                               "done"}]
  /\ fd1 \in Places /\ fd2 \in Places
  /\ buffer \in Seq(Rounds) /\ Len(buffer) < BufCap
  /\ written \in [Places -> Seq(Rounds)]
  /\ got \in Seq(Rounds) /\ early \in Nat

Init ==
  /\ mainpc = "open" /\ listening = FALSE /\ rounds = 0
  /\ threadpc = [t \in Rounds |-> "none"]
  /\ fd1 = "console" /\ fd2 = "console"
  /\ buffer = <<>> /\ written = [p \in Places |-> <<>>]
  /\ got = <<>> /\ early = 0

-----------------------------------------------------------------------------
Go(at, next) == mainpc = at /\ mainpc' = next
SameOutput == UNCHANGED <<fd1, fd2, buffer, written, got, early>>
SameRounds == UNCHANGED <<listening, rounds, threadpc>>

(* Without a log file, or a descriptor for it, main returns; without       *)
(* httpd.conf populate_config reads from a file that is not open.          *)
OpenLogs ==
  /\ \/ Go("open", "redirect") \/ Go("open", "failed")
     \/ Go("config", "socket") \/ Go("config", "crashed")
  /\ SameOutput /\ SameRounds

Redirect ==
  /\ \/ Go("redirect", "failed") /\ UNCHANGED <<fd1, fd2>>
     \/ Go("redirect", "config") /\ fd1' = "access_log" /\ fd2' = "error_log"
  /\ UNCHANGED <<buffer, written, got, early>> /\ SameRounds

(* When socket or bind fails that is printed, and main goes on.            *)
Socket ==
  /\ Go("socket", "loop") /\ listening' \in BOOLEAN
  /\ UNCHANGED <<rounds, threadpc>> /\ SameOutput

(* A round of the loop; on a socket that is not there accept fails, which  *)
(* counts and makes a thread all the same.                                 *)
Accept ==
  /\ mainpc = "loop" /\ rounds <= MaxConnections
  /\ rounds' = rounds + 1
  /\ threadpc' = [threadpc EXCEPT ![rounds'] =
                    IF listening THEN "recv" ELSE "no_client"]
  /\ UNCHANGED <<mainpc, listening>> /\ SameOutput

LoopEnds ==
  /\ Go("loop", "flush") /\ rounds > MaxConnections
  /\ SameRounds /\ SameOutput

(* fflush(stdout): what the buffer holds goes where stdout leads.          *)
Flush ==
  /\ written' = [written EXCEPT ![fd1] = @ \o buffer]
  /\ buffer' = <<>>

(* Mutant: main leaves the flush to exit, which comes after the dup2.      *)
NoFlush == UNCHANGED <<written, buffer>>
FlushFirst == Flush

FlushStdout ==
  /\ Go("flush", "stdout_back") /\ FlushFirst /\ early' = Len(got)
  /\ UNCHANGED <<fd1, fd2, got>> /\ SameRounds

StdoutBack ==
  /\ Go("stdout_back", "stderr_back") /\ fd1' = "console"
  /\ UNCHANGED <<fd2, buffer, written, got, early>> /\ SameRounds

StderrBack ==
  /\ Go("stderr_back", "return") /\ fd2' = "console"
  /\ UNCHANGED <<fd1, buffer, written, got, early>> /\ SameRounds

(* The return from main is exit: stdio is flushed, the threads end.        *)
Exit == Go("return", "exited") /\ Flush /\ SameRounds
        /\ UNCHANGED <<fd1, fd2, got, early>>

main ==
  \/ OpenLogs \/ Redirect \/ Socket \/ Accept \/ LoopEnds
  \/ FlushStdout \/ StdoutBack \/ StderrBack \/ Exit

-----------------------------------------------------------------------------
Thread(t, at, next) ==
  /\ mainpc \notin Ended
  /\ threadpc[t] = at /\ threadpc' = [threadpc EXCEPT ![t] = next]
  /\ UNCHANGED <<mainpc, listening, rounds, fd1, fd2, early>>

(* recv on the descriptor -1: that is printed to stderr, and a response is *)
(* written to nobody.                                                      *)
NobodyThere(t) ==
  Thread(t, "no_client", "done") /\ UNCHANGED <<buffer, written, got>>

(* Mutant: the buffer is written out one line too late.                    *)
TooFull == Len(buffer) < BufCap
Room == Len(buffer) + 1 < BufCap

(* fprintf(stdout): a full buffer is written out.                          *)
PrintRequest(t) ==
  /\ Thread(t, "recv", "stderr") /\ got' = Append(got, t)
  /\ IF Room
       THEN buffer' = Append(buffer, t) /\ UNCHANGED written
       ELSE /\ buffer' = <<>>
            /\ written' = [written EXCEPT ![fd1] = @ \o Append(buffer, t)]

(* fprintf(stderr): at once.                                               *)
PrintLength(t) ==
  /\ Thread(t, "stderr", "answer")
  /\ written' = [written EXCEPT ![fd2] = Append(@, t)]
  /\ UNCHANGED <<buffer, got>>

Answer(t) == Thread(t, "answer", "done") /\ UNCHANGED <<buffer, written, got>>

(* The client has gone: SIGPIPE ends the process, buffer and all.          *)
BrokenPipe(t) ==
  /\ mainpc \notin Ended /\ threadpc[t] = "answer" /\ mainpc' = "sigpipe"
  /\ buffer' = <<>>
  /\ UNCHANGED <<fd1, fd2, written, got, early>> /\ SameRounds

handle_request(t) ==
  NobodyThere(t) \/ PrintRequest(t) \/ PrintLength(t) \/ Answer(t) \/ BrokenPipe(t)

Next == main \/ \E t \in Rounds : handle_request(t)

Spec == Init /\ [][Next]_vars

-----------------------------------------------------------------------------
(* What was printed for requests before main flushed stdout is in          *)
(* access.log, in the order it was printed, and nothing but the rest is    *)
(* printed after it or still held back (main against fprintf of the        *)
(* threads).                                                               *)
FirstOnes(s, n) == SubSeq(s, 1, IF n < Len(s) THEN n ELSE Len(s))
EarlyLogged ==
  /\ early <= Len(written["access_log"])
  /\ written["access_log"] = FirstOnes(got, Len(written["access_log"]))

(* "All stdout output is redirected to access.log" (README.md).            *)
AllLogged == mainpc = "exited" => written["access_log"] = got
=============================================================================
