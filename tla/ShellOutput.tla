---------------------------- MODULE ShellOutput -----------------------------
(***************************************************************************)
(* read_all of commando (cmd.c): the bytes of a pipe that nobody writes    *)
(* into any more, read piece by piece into buffers that are joined by      *)
(* strcat.  Commando counts these bytes; here it matters which they are.   *)
(***************************************************************************)
EXTENDS Integers, Sequences, SequencesExt, FiniteSetsExt

CONSTANTS
  BufSize,    \* BUFSIZE
  MaxBytes,   \* how much a process writes
  Chars, NUL, \* the other bytes; '\0'
  Junk        \* a byte of memory that was never set

OutputAssumption ==
  /\ BufSize \in Nat \ {0} /\ MaxBytes \in Nat
  /\ NUL \notin Chars /\ Junk \notin Chars \cup {NUL}

VARIABLES
  written,    \* what the process has written
  unread,     \* what of it is in the pipe
  buf, cur_bufsize, bytes_read,
  pc

vars == <<written, unread, buf, cur_bufsize, bytes_read, pc>>

Bytes == Chars \cup {NUL}

TypeOK ==
  /\ written \in Seq(Bytes) /\ IsSuffix(unread, written)
  /\ pc \in {"first", "more", "end", "stored"}
  /\ cur_bufsize >= BufSize /\ bytes_read \in 0 .. cur_bufsize
  /\ pc # "first" => buf \in [0 .. cur_bufsize -> Bytes \cup {Junk}]

Init ==
  /\ written \in UNION {[1 .. n -> Bytes] : n \in 0 .. MaxBytes}
  /\ unread = written
  /\ buf = <<>> /\ cur_bufsize = BufSize /\ bytes_read = 0 /\ pc = "first"

-----------------------------------------------------------------------------
(* An array of n bytes that begins with those of s.                        *)
Array(n, s) == [i \in 0 .. n - 1 |-> IF i < Len(s) THEN s[i + 1] ELSE Junk]

Put(b, i, byte) == [b EXCEPT ![i] = byte]

(* Where the string in an array ends, at the latest behind the array.      *)
strlen(b) == Min({i \in DOMAIN b : b[i] = NUL} \cup {Cardinality(DOMAIN b)})

strcat(b, temp) ==
  LET e == strlen(b)
      n == strlen(temp)
  IN  [i \in DOMAIN b |-> IF i < e \/ i > e + n THEN b[i]
                          ELSE IF i = e + n THEN NUL ELSE temp[i - e]]

realloc(b, n) == [i \in 0 .. n - 1 |-> IF i \in DOMAIN b THEN b[i] ELSE Junk]

(* The buffer is terminated before strcat.  Mutant: it is not.             *)
NotTerminated(b) == b
Terminated(b) == Put(b, bytes_read, NUL)

(* The first piece is not smaller than the buffer.  Mutant: it is larger.  *)
Larger(bytes) == bytes > cur_bufsize
Full(bytes) == bytes >= cur_bufsize

(* read: at most n bytes.                                                  *)
Piece(n) == SubSeq(unread, 1, Min({n, Len(unread)}))
Read(piece) == unread' = SubSeq(unread, Len(piece) + 1, Len(unread))

FirstRead ==
  LET piece == Piece(cur_bufsize)
  IN  /\ pc = "first" /\ Read(piece)
      /\ buf' = Array(cur_bufsize + 1, piece) /\ bytes_read' = Len(piece)
      /\ pc' = IF Full(Len(piece)) THEN "more" ELSE "end"
      /\ UNCHANGED <<written, cur_bufsize>>

(* Another piece as large as the buffer, which is doubled to take it.      *)
(* Mutant: the buffer grows by BUFSIZE.                                    *)
Longer(size) == size + BufSize
Doubled(size) == 2 * size
MoreRead ==
  LET piece == Piece(cur_bufsize)
      temp  == Put(Array(cur_bufsize + 1, piece), Len(piece), NUL)
  IN  /\ pc = "more" /\ Read(piece)
      /\ cur_bufsize' = Doubled(cur_bufsize)
      /\ \/ /\ piece = <<>> /\ pc' = "end" /\ buf' = realloc(buf, cur_bufsize' + 1)
            /\ UNCHANGED bytes_read
         \/ /\ piece # <<>> /\ bytes_read' = bytes_read + Len(piece)
            /\ buf' = strcat(realloc(Terminated(buf), cur_bufsize' + 1), temp)
            /\ UNCHANGED pc
      /\ UNCHANGED written

Finish ==
  /\ pc = "end" /\ pc' = "stored"
  /\ buf' = Put(buf, bytes_read, NUL)
  /\ UNCHANGED <<written, unread, cur_bufsize, bytes_read>>

Next == FirstRead \/ MoreRead \/ Finish

Spec == Init /\ [][Next]_vars

-----------------------------------------------------------------------------
(* What cmd_print_output writes: the bytes that were counted.              *)
Output == [i \in 1 .. bytes_read |-> buf[i - 1]]

(* Whatever the bytes, as many are counted as were written, and of them    *)
(* all in front of the first NUL are stored, which is all of a text, in    *)
(* whatever pieces it was read: exactly one buffer, several, or an odd     *)
(* rest (read_all).                                                        *)
FirstPieces ==
  pc = "stored" =>
    /\ bytes_read = Len(written)
    /\ LET zeros == {i \in DOMAIN written : written[i] = NUL}
       IN  \A i \in DOMAIN written :
             (\A z \in zeros : i < z) => Output[i] = written[i]

(* "saved output from child" (commando.h:34): the output is what the child *)
(* has written.                                                            *)
OutputSaved == pc = "stored" => Output = written
=============================================================================
