------------------------------- MODULE Simpio -------------------------------
(***************************************************************************)
(* simpio.c: one line being edited by one thread, the reader, while        *)
(* another, the printer, may at any moment use iprintf, which copies the   *)
(* edited line to print it again after its message.  Nothing locks the     *)
(* buffer: a step is one access to it, or one write to the terminal.       *)
(* Terminal adds the rest of bl-client.c.                                  *)
(***************************************************************************)
EXTENDS Integers, Sequences

CONSTANTS
  Chars,     \* the characters that are not controls
  NUL,       \* '\0'
  MAXLINE,   \* the size of the buffer
  MaxKeys    \* how many characters and backspaces are typed for one line

ASSUME CharsAssumption ==
  NUL \notin Chars /\ Chars \cap {"backspace", "newline", "EOT", "EOF"} = {}
ASSUME MAXLINEAssumption == MAXLINE \in Nat \ {0}

VARIABLES
  mainpc,        \* the main thread
  mode, oldt,    \* the mode of the terminal, and the one that was saved
  readerpc,      \* the reader
  printerpc,     \* the printer
  buf, pos, line_ready, end_of_input,  \* simpio_t
  ch,            \* the character simpio_get_char is adding
  out,           \* what the printer's iprintf has put together
  screen,        \* the last line of the terminal
  keys,          \* history: what was typed since simpio_reset
  overlap,       \* history: the reader was active amid the iprintf going on
  torn           \* history: the same of the last one that came to its end

lineVars == <<buf, pos, line_ready, end_of_input, ch, keys>>
printVars == <<out, torn>>
simpioVars == <<mainpc, mode, oldt, readerpc, printerpc, lineVars, printVars,
                screen, overlap>>

-----------------------------------------------------------------------------
Gone == {"exited", "dead"}
Prompt == <<"prompt">>
Cells == 0 .. MAXLINE - 1
Ends == {"newline", "EOT", "EOF"}
Keys == Chars \cup {"backspace"} \cup Ends

SimpioTypeOK ==
  /\ mode \in {"canonical", "raw"} /\ oldt \in {"unset", "canonical", "raw"}
  /\ buf \in [Cells -> Chars \cup {NUL}]
  /\ pos \in Cells
  /\ line_ready \in BOOLEAN /\ end_of_input \in BOOLEAN
  /\ ch \in Chars \cup {NUL}
  /\ out \in Seq(Chars \cup {"prompt"})
  /\ screen \in Seq(Chars \cup {"prompt"})
  /\ overlap \in BOOLEAN /\ torn \in BOOLEAN

SimpioInit ==
  /\ mainpc = "setMode" /\ readerpc = "none" /\ printerpc = "none"
  /\ mode = "canonical" /\ oldt = "unset"
  /\ buf = [n \in Cells |-> NUL] /\ pos = 0
  /\ line_ready = FALSE /\ end_of_input = FALSE
  /\ ch = NUL /\ out = <<>> /\ screen = <<>> /\ keys = <<>>
  /\ overlap = FALSE /\ torn = FALSE

(* The string a buffer holds: what is in front of its first NUL, at the    *)
(* latest in front of one behind the buffer.                               *)
Text(b) ==
  LET ends == {n \in DOMAIN b : b[n] = NUL} \cup {MAXLINE}
      end  == CHOOSE n \in ends : \A m \in ends : n <= m
  IN  [n \in 1 .. end |-> b[n - 1]]

-----------------------------------------------------------------------------
(* main: the terminal is put into non-canonical mode, two threads are      *)
(* created and joined, and the mode is put back.                           *)
GoMain(at, next) == mainpc = at /\ mainpc' = next

NoncanonicalMode ==
  /\ GoMain("setMode", "createReader") /\ oldt' = mode /\ mode' = "raw"
  /\ UNCHANGED <<readerpc, printerpc, lineVars, printVars, screen, overlap>>

CreateReader ==
  /\ GoMain("createReader", "createPrinter") /\ readerpc' = "loop"
  /\ UNCHANGED <<mode, oldt, printerpc, lineVars, printVars, screen, overlap>>

CreatePrinter(first) ==
  /\ GoMain("createPrinter", "join") /\ printerpc' = first
  /\ UNCHANGED <<mode, oldt, readerpc, lineVars, printVars, screen, overlap>>

Joined ==
  /\ GoMain("join", "resetMode") /\ readerpc = "done" /\ printerpc = "done"
  /\ UNCHANGED <<mode, oldt, readerpc, printerpc, lineVars, printVars, screen,
                 overlap>>

(* Mutant: main ends without it.                                           *)
LeaveMode == UNCHANGED mode
RestoreMode == mode' = oldt

ResetMode ==
  /\ GoMain("resetMode", "exited") /\ RestoreMode
  /\ UNCHANGED <<oldt, readerpc, printerpc, lineVars, printVars, screen,
                 overlap>>

-----------------------------------------------------------------------------
(* The reader.  A step of it between the begin and the end of an iprintf   *)
(* of the printer is remembered.                                           *)
Printing == printerpc \in {"copy", "write"}
Reader(at, next) ==
  /\ mainpc \notin Gone
  /\ readerpc = at /\ readerpc' = next
  /\ overlap' = (overlap \/ Printing)
  /\ UNCHANGED <<mainpc, mode, oldt, printerpc, out>>

(* simpio_reset: only the first cell is cleared.                           *)
ResetLine ==
  /\ Reader("loop", "prompt") /\ ~end_of_input
  /\ pos' = 0 /\ buf' = [buf EXCEPT ![0] = NUL]
  /\ line_ready' = FALSE /\ end_of_input' = FALSE
  /\ keys' = <<>>
  /\ UNCHANGED <<ch, screen, torn>>

(* iprintf(simpio, "") of the reader itself: it repairs the line.          *)
PrintPrompt ==
  /\ Reader("prompt", "get")
  /\ screen' = Prompt /\ torn' = FALSE
  /\ UNCHANGED lineVars

LoopEnds(next) ==
  /\ Reader("loop", next) /\ end_of_input
  /\ UNCHANGED <<lineVars, screen, torn>>

(* Room for one more character and the NUL.  Mutant: the NUL is forgotten. *)
RoomForOne == pos < MAXLINE
Room == pos < MAXLINE - 1

(* A key is typed; MaxKeys bounds those that do not end the line.          *)
Types(k) == keys' = Append(keys, k)
TypesOn(k) == Len(keys) < MaxKeys /\ Types(k)

(* simpio_get_char with what fgetc has returned: a line is completed, ...  *)
(* EOT completes it and ends the input, a bare EOF drops what was typed.   *)
EndOfInput(k) == end_of_input' = (k \in {"EOT", "EOF"})

GetLine(k) ==
  /\ k \in {"newline", "EOT"} /\ pos > 0
  /\ Reader("get", "line") /\ Types(k) /\ EndOfInput(k)
  /\ buf' = [buf EXCEPT ![pos] = NUL] /\ line_ready' = TRUE
  /\ UNCHANGED <<pos, ch, screen, torn>>

GetEnd(k) ==
  /\ k = "EOF" \/ (k = "EOT" /\ pos = 0)
  /\ Reader("get", "loop") /\ Types(k) /\ EndOfInput(k)
  /\ UNCHANGED <<buf, pos, line_ready, ch, screen, torn>>

(* ... or nothing happens, for want of input or of room, ...               *)
GetIgnored(k) ==
  /\ \/ k \in {"newline", "backspace"} /\ pos = 0
     \/ k \in Chars /\ ~Room
  /\ Reader("get", "get") /\ TypesOn(k)
  /\ UNCHANGED <<buf, pos, line_ready, end_of_input, ch, screen, torn>>

(* ... or one is taken away from the buffer, then from the screen, ...     *)
GetBackspace ==
  /\ pos > 0 /\ Reader("get", "erase") /\ TypesOn("backspace")
  /\ pos' = pos - 1 /\ buf' = [buf EXCEPT ![pos - 1] = NUL]
  /\ UNCHANGED <<line_ready, end_of_input, ch, screen, torn>>

(* "\b \b" takes away whatever is in front of the cursor.                  *)
Erase ==
  /\ Reader("erase", "get")
  /\ screen' = SubSeq(screen, 1, Len(screen) - 1)
  /\ UNCHANGED <<lineVars, torn>>

(* ... or one is added: over the NUL, then a new NUL, then the echo.       *)
GetNormal(k) ==
  /\ k \in Chars /\ Room
  /\ Reader("get", "terminate") /\ TypesOn(k)
  /\ buf' = [buf EXCEPT ![pos] = k] /\ ch' = k
  /\ UNCHANGED <<pos, line_ready, end_of_input, screen, torn>>

(* Mutant: the NUL is left to simpio_reset, which clears one cell only.    *)
NoTerminator == UNCHANGED buf
Terminator == buf' = [buf EXCEPT ![pos + 1] = NUL]

Terminate ==
  /\ Reader("terminate", "echo")
  /\ pos' = pos + 1 /\ Terminator
  /\ UNCHANGED <<line_ready, end_of_input, ch, keys, screen, torn>>

(* Mutant: the terminal is thought to echo.                                *)
NoEcho == UNCHANGED screen
EchoChar == screen' = Append(screen, ch)

Echo == Reader("echo", "get") /\ EchoChar /\ UNCHANGED <<lineVars, torn>>

GetChar(k) == GetLine(k) \/ GetEnd(k) \/ GetIgnored(k) \/ GetNormal(k)
Key == GetBackspace \/ \E k \in Keys : GetChar(k)
ReaderLoop == ResetLine \/ PrintPrompt \/ Erase \/ Terminate \/ Echo

-----------------------------------------------------------------------------
(* The printer.                                                            *)
Printer(at, next) ==
  /\ mainpc \notin Gone
  /\ printerpc = at /\ printerpc' = next
  /\ UNCHANGED <<mainpc, mode, oldt, readerpc, lineVars>>

(* iprintf begins: its message, and the prompt behind it.                  *)
BeginPrint(at) ==
  /\ Printer(at, "copy")
  /\ out' = Prompt /\ overlap' = (readerpc \in {"terminate", "echo", "erase"})
  /\ UNCHANGED <<screen, torn>>

(* snprintf("%s", simpio->buf), cell by cell up to a NUL.                  *)
CopyCell ==
  /\ printerpc = "copy"
  /\ LET cell == buf[Len(out) - 1]
     IN  IF cell = NUL
           THEN Printer("copy", "write") /\ UNCHANGED out
           ELSE Printer("copy", "copy") /\ out' = Append(out, cell)
  /\ UNCHANGED <<overlap, screen, torn>>

(* The write erases the line of the cursor and prints.                     *)
WriteOut(next) ==
  /\ Printer("write", next)
  /\ screen' = out /\ out' = <<>> /\ torn' = overlap /\ overlap' = FALSE

-----------------------------------------------------------------------------
(* What a line editor makes of keys: the reference for simpio_get_char.    *)
Edited(typed) ==
  LET line[n \in 0 .. Len(typed)] ==
        IF n = 0 THEN <<>>
        ELSE LET was == line[n - 1]
                 k   == typed[n]
             IN  IF k \in Chars /\ Len(was) < MAXLINE - 1 THEN Append(was, k)
                 ELSE IF k = "backspace" /\ was # <<>>
                        THEN SubSeq(was, 1, Len(was) - 1)
                        ELSE was
  IN  line[Len(typed)]

(* The line that is complete, or being edited, is what the keys since the  *)
(* last simpio_reset make of an empty line, whatever an earlier and longer *)
(* line has left in the buffer; and no line is empty (simpio_get_char      *)
(* against simpio_reset).                                                  *)
LineIsEdited ==
  /\ readerpc \in {"get", "line"} => Text(buf) = Edited(keys)
  /\ readerpc = "line" => Text(buf) # <<>>

(* iprintf leaves prompt and typed line on the screen unless the reader    *)
(* was active while it ran; and whatever an overlap has torn is right      *)
(* again after the next iprintf that meets none (iprintf against the echo  *)
(* of simpio_get_char).                                                    *)
ScreenRepaired ==
  readerpc = "get" /\ ~torn => screen = Prompt \o Text(buf)

(* iprintf is to "preserve the input that has been typed so far along with *)
(* the prompt" (simpio.c).                                                 *)
InputPreserved ==
  readerpc = "get" /\ ~Printing => screen = Prompt \o Text(buf)
=============================================================================
