--------------------------- MODULE TerminalProofs ---------------------------
(***************************************************************************)
(* The two threads of bl-client never leave the buffer of its line editor, *)
(* although nothing locks it, for a buffer of any size: the editor keeps   *)
(* its last cell NUL, so that a copy that iprintf has begun at whatever    *)
(* moment ends there at the latest.                                        *)
(* And the line is what its keys make of it, and the terminal shows it     *)
(* after each print that no key meets.                                     *)
(* At last, what the client does key by key is what BlatherClient has it   *)
(* do line by line.                                                        *)
(***************************************************************************)
EXTENDS Terminal, Induction, SequenceTheorems

(* The line being edited.  What simpio_get_char is adding is a character,  *)
(* the cell behind it is still in the buffer, and the last cell is never   *)
(* written with anything but NUL.                                          *)
Editing ==
  /\ buf \in [Cells -> Chars \cup {NUL}] /\ pos \in Cells
  /\ line_ready \in BOOLEAN /\ end_of_input \in BOOLEAN
  /\ ch \in Chars \cup {NUL}
  /\ buf[MAXLINE - 1] = NUL
  /\ readerpc = "terminate" => pos + 1 \in Cells
  /\ readerpc \in {"terminate", "echo"} => ch \in Chars

(* What iprintf copies and shows.                                          *)
Showing ==
  /\ out \in Seq(Chars \cup {"prompt"}) /\ screen \in Seq(Chars \cup {"prompt"})
  /\ overlap \in BOOLEAN /\ torn \in BOOLEAN
  /\ printerpc = "copy" => Len(out) - 1 \in Cells

(* The threads, and the terminal they find: its old mode is known as soon  *)
(* as main has set the new one.                                            *)
Threads ==
  /\ mainpc \in {"setMode", "createReader", "createPrinter", "join",
                 "resetMode"} \cup Gone
  /\ readerpc \in {"none", "loop", "prompt", "get", "terminate", "echo",
                   "erase", "line", "depart", "cancel", "close", "done"}
  /\ printerpc \in {"none", "read", "copy", "write", "newline", "cancel",
                    "close", "done"}
  /\ mode \in {"canonical", "raw"} /\ oldt \in {"unset", "canonical", "raw"}
  /\ mainpc \in {"createReader", "createPrinter", "join", "resetMode"} =>
       oldt # "unset"
  /\ readerCancel \in BOOLEAN /\ printerCancel \in BOOLEAN

(* The FIFOs at both ends.                                                 *)
Fifos ==
  /\ serverUp \in BOOLEAN /\ tsOpen \in BOOLEAN /\ tcOpen \in BOOLEAN
  /\ toClient \in Seq({"JOINED", "SHUTDOWN"}) /\ unread \in 0 .. PipeCap
  /\ handled \in {"NONE", "JOINED", "SHUTDOWN"}
  /\ sent \in Seq({"MESG", "DEPARTED"}) /\ nSeen \in Nat

Inside == Editing /\ Showing /\ Threads /\ Fifos

(* Together they are what the run checks.                                  *)
LEMMA InsideEnds == Inside => BufferEnds
  BY DEF Inside, Editing, Showing, Threads, Fifos, BufferEnds, TypeOK,
         SimpioTypeOK

-----------------------------------------------------------------------------
LEMMA EditingStarts == Init => Editing
  BY MAXLINEAssumption DEF Init, SimpioInit, Editing, Cells

LEMMA InsideStarts == Init => Inside
<1> SUFFICES ASSUME Init PROVE Inside
  OBVIOUS
<1>1. Editing
  BY EditingStarts
<1>2. Showing
  <2>1. <<>> \in Seq(Chars \cup {"prompt"})
    BY EmptySeq
  <2> QED
    BY <2>1 DEF Init, SimpioInit, Showing
<1>3. Threads
  BY DEF Init, SimpioInit, Threads
<1>4. Fifos
  BY PipeCapAssumption DEF Init, Fifos
<1> QED
  BY <1>1, <1>2, <1>3, <1>4 DEF Inside

-----------------------------------------------------------------------------
(* The parts of Inside that a step leaves alone hold after it.             *)
LEMMA EditingStays ==
  ASSUME Editing, UNCHANGED lineVars,
         readerpc' \notin {"terminate", "echo"} \/ UNCHANGED readerpc
  PROVE  Editing'
  BY DEF Editing, lineVars

LEMMA ShowingStays ==
  ASSUME Showing, UNCHANGED <<printVars, screen, overlap, printerpc>>
  PROVE  Showing'
  BY DEF Showing, printVars

LEMMA FifosStay ==
  ASSUME Fifos, UNCHANGED <<netVars, handled, sent, nSeen>>
  PROVE  Fifos'
  BY DEF Fifos, netVars

(* A process that ends closes its ends of the FIFOs, no more.              *)
LEMMA EndKeeps ==
  ASSUME Inside, EndProcess("dead")
  PROVE  Inside'
<1>1. Editing' /\ Showing'
  BY EditingStays, ShowingStays DEF Inside, EndProcess, lineVars, printVars
<1>2. Threads'
  BY DEF Inside, EndProcess, Threads, clientVars, cancelVars, Gone
<1>3. Fifos'
  <2>1. <<>> \in Seq({"JOINED", "SHUTDOWN"})
    OBVIOUS
  <2> QED
    BY <2>1 DEF Inside, EndProcess, Fifos, clientVars
<1> QED
  BY <1>1, <1>2, <1>3 DEF Inside

(* main touches neither the line nor what is printed.                      *)
LEMMA MainKeeps ==
  ASSUME Inside, Main
  PROVE  Inside'
<1>1. Editing'
  BY EditingStays DEF Inside, Main, GoMain, NoncanonicalMode, CreateReader,
     CreatePrinter, Joined, ResetMode, lineVars
<1>2. Showing'
  BY DEF Inside, Showing, Main, GoMain, NoncanonicalMode, CreateReader,
     CreatePrinter, Joined, ResetMode, printVars
<1>3. Threads'
  BY DEF Inside, Threads, Main, GoMain, NoncanonicalMode, CreateReader,
     CreatePrinter, Joined, ResetMode, RestoreMode, netVars, clientVars,
     cancelVars, Gone
<1>4. Fifos'
  <2>1. <<>> \in Seq({"JOINED", "SHUTDOWN"})
    OBVIOUS
  <2>2. UNCHANGED netVars
          \/ (UNCHANGED <<serverUp, unread>> /\ tsOpen' = FALSE /\ tcOpen' = FALSE
              /\ toClient' = <<>>)
    BY DEF Main
  <2>3. UNCHANGED <<handled, sent, nSeen>>
    BY DEF Main, clientVars
  <2> QED
    BY <2>1, <2>2, <2>3 DEF Inside, Fifos, netVars
<1> QED
  BY <1>1, <1>2, <1>3, <1>4 DEF Inside

-----------------------------------------------------------------------------
(* A step of the reader that leaves the line alone.                        *)
LEMMA ReaderThreads ==
  ASSUME Threads, NEW at, NEW next, Reader(at, next), UNCHANGED cancelVars,
         next \in {"loop", "prompt", "get", "terminate", "echo", "erase", "line",
                   "depart", "cancel", "close", "done"}
  PROVE  Threads'
  BY DEF Threads, Reader, cancelVars

(* The key that fgetc returns is added, taken away, or ends the line, and  *)
(* the last cell stays NUL: a character goes where there is room for one   *)
(* more behind it (simpio_get_char).                                       *)
LEMMA KeyEdits ==
  ASSUME Editing, Key
  PROVE  Editing'
<1>1. /\ MAXLINE \in Nat \ {0} /\ pos \in Nat /\ pos < MAXLINE
      /\ \A n \in Nat : n < MAXLINE => n \in Cells
      /\ MAXLINE - 1 \in Cells
  BY MAXLINEAssumption DEF Editing, Cells
<1>2. CASE GetBackspace
  BY <1>1, <1>2 DEF Editing, GetBackspace, Reader
<1>3. ASSUME NEW k \in Keys, GetLine(k)
      PROVE  Editing'
  BY <1>1, <1>3 DEF Editing, GetLine, Reader, EndOfInput
<1>4. ASSUME NEW k \in Keys, GetEnd(k)
      PROVE  Editing'
  BY <1>4 DEF Editing, GetEnd, Reader, EndOfInput
<1>5. ASSUME NEW k \in Keys, GetIgnored(k)
      PROVE  Editing'
  BY <1>5 DEF Editing, GetIgnored, Reader
<1>6. ASSUME NEW k \in Keys, GetNormal(k)
      PROVE  Editing'
  BY <1>1, <1>6 DEF Editing, GetNormal, Reader, Room
<1> QED
  BY <1>2, <1>3, <1>4, <1>5, <1>6 DEF Key, GetChar

(* The reader's other steps: a cell is cleared, and the NUL goes behind    *)
(* the character that was added.                                           *)
LEMMA LoopEdits ==
  ASSUME Editing, ReaderLoop
  PROVE  Editing'
<1>1. /\ MAXLINE \in Nat \ {0} /\ 0 \in Cells /\ MAXLINE - 1 \in Cells
  BY MAXLINEAssumption DEF Cells
<1>2. CASE ResetLine
  BY <1>1, <1>2 DEF Editing, ResetLine, Reader
<1>3. CASE PrintPrompt
  BY <1>3 DEF Editing, PrintPrompt, Reader, lineVars
<1>4. CASE Erase
  BY <1>4 DEF Editing, Erase, Reader, lineVars
<1>5. CASE Terminate
  BY <1>1, <1>5 DEF Editing, Terminate, Terminator, Reader
<1>6. CASE Echo
  BY <1>6 DEF Editing, Echo, Reader, lineVars
<1> QED
  BY <1>2, <1>3, <1>4, <1>5, <1>6 DEF ReaderLoop

(* What the reader does to the screen leaves it a line of characters.      *)
LEMMA LoopShows ==
  ASSUME Editing, Showing, Threads, ReaderLoop
  PROVE  Showing'
<1> DEFINE C == Chars \cup {"prompt"}
<1>1. UNCHANGED <<out, printerpc>> /\ overlap' \in BOOLEAN /\ torn' \in BOOLEAN
  BY DEF ReaderLoop, ResetLine, PrintPrompt, Erase, Terminate, Echo, Reader,
     Showing
<1>2. screen' \in Seq(C)
  <2>1. CASE PrintPrompt
    BY <2>1 DEF PrintPrompt, Prompt
  <2>2. CASE Erase
    <3>1. Len(screen) \in Nat /\ \A n \in 1 .. Len(screen) - 1 : screen[n] \in C
      BY LenProperties DEF Showing
    <3>2. SubSeq(screen, 1, Len(screen) - 1) \in Seq(C)
      <4> DEFINE n == Len(screen) - 1
      <4>1. 1 \in Int /\ n \in Int /\ \A j \in 1 .. n : screen[j] \in C
        BY <3>1
      <4> HIDE DEF C, n
      <4>2. SubSeq(screen, 1, n) \in Seq(C)
        BY <4>1, SubSeqProperties
      <4> QED
        BY <4>2 DEF n
    <3> QED
      BY <2>2, <3>2 DEF Erase
  <2>3. CASE Echo
    <3>1. ch \in C /\ screen \in Seq(C)
      BY <2>3 DEF Editing, Showing, Echo, Reader
    <3> QED
      BY <2>3, <3>1, AppendProperties DEF Echo, EchoChar
  <2>4. CASE ResetLine \/ Terminate
    BY <2>4 DEF ResetLine, Terminate, Showing
  <2> QED
    BY <2>1, <2>2, <2>3, <2>4 DEF ReaderLoop
<1> QED
  BY <1>1, <1>2 DEF Showing

(* A key that is typed.                                                    *)
LEMMA UserKeyKeeps ==
  ASSUME Inside, UserKey
  PROVE  Inside'
<1>1. Editing'
  BY KeyEdits DEF Inside, UserKey
<1>2. UNCHANGED <<out, printerpc, screen, torn>> /\ overlap' \in BOOLEAN
  BY DEF UserKey, Key, GetChar, GetBackspace, GetLine, GetEnd, GetIgnored,
     GetNormal, Reader, Inside, Showing
<1>3. Showing'
  BY <1>2 DEF Inside, Showing
<1>4. \E next \in {"loop", "get", "terminate", "erase", "line"} : Reader("get", next)
  BY DEF UserKey, Key, GetChar, GetBackspace, GetLine, GetEnd, GetIgnored,
     GetNormal
<1>5. Threads'
  BY <1>4, ReaderThreads DEF Inside, UserKey, clientVars
<1>6. Fifos'
  BY FifosStay DEF Inside, UserKey, clientVars
<1> QED
  BY <1>1, <1>3, <1>5, <1>6 DEF Inside

(* The loop of user_to_server between its keys.                            *)
LEMMA EditLineKeeps ==
  ASSUME Inside, EditLine
  PROVE  Inside'
<1>1. Editing' /\ Showing'
  <2>1. CASE ReaderLoop
    BY <2>1, LoopEdits, LoopShows DEF Inside
  <2>2. CASE LoopEnds("depart")
    BY <2>2 DEF Inside, Editing, Showing, LoopEnds, Reader, lineVars
  <2> QED
    BY <2>1, <2>2 DEF EditLine
<1>2. /\ UNCHANGED <<mainpc, mode, oldt, printerpc>>
      /\ readerpc' \in {"prompt", "get", "echo", "depart"}
  BY DEF EditLine, ReaderLoop, ResetLine, PrintPrompt, Erase, Terminate, Echo,
     LoopEnds, Reader
<1>3. Threads'
  BY <1>2 DEF Inside, Threads, EditLine, clientVars, cancelVars
<1>4. Fifos'
  BY FifosStay DEF Inside, EditLine, clientVars
<1> QED
  BY <1>1, <1>3, <1>4 DEF Inside

(* A step of the reader beside its line and what is shown.                 *)
LEMMA ReaderKeeps ==
  ASSUME Inside, NEW at, NEW next, Reader(at, next),
         next \notin {"terminate", "echo"},
         UNCHANGED <<lineVars, screen, torn>>
  PROVE  Editing' /\ Showing'
<1>1. Editing'
  BY EditingStays DEF Inside, Reader
<1>2. Showing'
  BY DEF Inside, Showing, Reader
<1> QED
  BY <1>1, <1>2

(* user_to_server writes a line, or DEPARTED, or dies.                     *)
LEMMA SendKeeps ==
  ASSUME Inside, NEW at, NEW m \in {"MESG", "DEPARTED"},
         NEW next \in {"loop", "cancel"}, Send(at, m, next)
  PROVE  Inside'
<1>1. CASE serverUp
  <2>1. Reader(at, next) /\ UNCHANGED <<lineVars, screen, torn, cancelVars>>
    BY <1>1 DEF Send
  <2>2. Editing' /\ Showing'
    BY <2>1, ReaderKeeps
  <2>3. Threads'
    BY <2>1, ReaderThreads DEF Inside
  <2>4. Fifos'
    BY <1>1, PipeCapAssumption DEF Inside, Fifos, Send
  <2> QED
    BY <2>2, <2>3, <2>4 DEF Inside
<1>2. CASE ~serverUp
  BY <1>2, EndKeeps DEF Send
<1> QED
  BY <1>1, <1>2

LEMMA UserThreadKeeps ==
  ASSUME Inside, UserThread
  PROVE  Inside'
<1>1. CASE EditLine
  BY <1>1, EditLineKeeps
<1>2. CASE SendLine
  BY <1>2, SendKeeps DEF SendLine
<1>3. CASE SendDeparted
  BY <1>3, SendKeeps DEF SendDeparted
<1>4. CASE CancelServerThread
  <2>1. CASE printerpc = "none"
    BY <1>4, <2>1, EndKeeps DEF CancelServerThread
  <2>2. CASE printerpc # "none"
    <3>1. Reader("cancel", "close") /\ printerCancel' = TRUE
          /\ UNCHANGED <<lineVars, screen, torn, netVars, readerCancel, handled,
                         sent, nSeen>>
      BY <1>4, <2>2 DEF CancelServerThread
    <3>2. Editing' /\ Showing'
      BY <3>1, ReaderKeeps
    <3>3. Threads'
      BY <3>1 DEF Inside, Threads, Reader
    <3> QED
      BY <3>1, <3>2, <3>3, FifosStay DEF Inside
  <2> QED
    BY <2>1, <2>2
<1>5. CASE CloseToServer
  <2>1. Editing' /\ Showing'
    BY <1>5, ReaderKeeps DEF CloseToServer
  <2>2. Threads'
    BY <1>5, ReaderThreads DEF Inside, CloseToServer, clientVars
  <2>3. Fifos'
    BY <1>5 DEF Inside, Fifos, CloseToServer, clientVars
  <2> QED
    BY <2>1, <2>2, <2>3 DEF Inside
<1>6. CASE UserCancelled
  <2>1. Reader(readerpc, "done")
        /\ UNCHANGED <<lineVars, screen, torn, netVars, clientVars>>
    BY <1>6 DEF UserCancelled
  <2>2. Editing' /\ Showing'
    BY <2>1, ReaderKeeps
  <2>3. Threads' /\ Fifos'
    BY <2>1, ReaderThreads, FifosStay DEF Inside, clientVars
  <2> QED
    BY <2>2, <2>3 DEF Inside
<1> QED
  BY <1>1, <1>2, <1>3, <1>4, <1>5, <1>6 DEF UserThread

-----------------------------------------------------------------------------
(* A step of the printer beside what is copied and shown.                  *)
LEMMA PrinterThreads ==
  ASSUME Threads, NEW at, NEW next, Printer(at, next), UNCHANGED cancelVars,
         next \in {"read", "copy", "write", "newline", "cancel", "close", "done"}
  PROVE  Threads'
  BY DEF Threads, Printer, cancelVars

LEMMA PrinterEdits ==
  ASSUME Editing, NEW at, NEW next, Printer(at, next)
  PROVE  Editing'
  BY EditingStays DEF Printer

(* The copy of iprintf goes on only behind a cell that was not NUL, which  *)
(* the last one is, so that the next cell is still one of the buffer.      *)
LEMMA CopyStaysInside ==
  ASSUME Editing, Showing, CopyCell
  PROVE  Showing'
<1> DEFINE C == Chars \cup {"prompt"}
           n == Len(out) - 1
<1>1. out \in Seq(C) /\ n \in Cells /\ UNCHANGED <<overlap, screen, torn>>
  BY DEF CopyCell, Showing
<1>2. CASE buf[n] = NUL
  <2>1. printerpc' = "write" /\ UNCHANGED out
    BY <1>2 DEF CopyCell, Printer
  <2> QED
    BY <1>1, <2>1 DEF Showing
<1>3. CASE buf[n] # NUL
  <2>1. out' = Append(out, buf[n]) /\ buf[n] \in C
    BY <1>1, <1>3 DEF CopyCell, Editing
  <2>2. out' \in Seq(C) /\ Len(out') = Len(out) + 1 /\ Len(out) \in Nat
    BY <1>1, <2>1, AppendProperties, LenProperties
  <2>3. n # MAXLINE - 1
    BY <1>3 DEF Editing
  <2>4. Len(out') - 1 \in Cells
    BY <1>1, <2>2, <2>3, MAXLINEAssumption DEF Cells
  <2> QED
    BY <1>1, <2>2, <2>4 DEF Showing
<1> QED
  BY <1>2, <1>3

(* The message that server_to_user reads, and where its iprintf begins.    *)
LEMMA ReadKeeps ==
  ASSUME Inside, ReadMessage
  PROVE  Inside'
<1>1. BeginPrint("read") /\ Printer("read", "copy")
  BY DEF ReadMessage, BeginPrint
<1>2. Editing'
  BY <1>1, PrinterEdits DEF Inside
<1>3. Showing'
  <2>1. out' = Prompt /\ overlap' \in BOOLEAN /\ UNCHANGED <<screen, torn>>
    BY <1>1 DEF BeginPrint
  <2>2. Prompt \in Seq(Chars \cup {"prompt"}) /\ Len(Prompt) - 1 = 0
    BY DEF Prompt
  <2>3. 0 \in Cells
    BY MAXLINEAssumption DEF Cells
  <2> QED
    BY <2>1, <2>2, <2>3 DEF Inside, Showing
<1>4. Threads'
  BY <1>1, PrinterThreads DEF Inside, ReadMessage
<1>5. Fifos'
  <2>1. /\ Head(toClient) \in {"JOINED", "SHUTDOWN"}
        /\ Tail(toClient) \in Seq({"JOINED", "SHUTDOWN"})
    BY HeadTailProperties DEF Inside, Fifos, ReadMessage
  <2> QED
    BY <2>1 DEF Inside, Fifos, ReadMessage
<1> QED
  BY <1>2, <1>3, <1>4, <1>5 DEF Inside

LEMMA PrintKeeps ==
  ASSUME Inside, PrintMessage
  PROVE  Inside'
<1>1. \E next \in {"copy", "write", "read", "newline"} : Printer(printerpc, next)
  BY DEF PrintMessage, CopyCell, WriteOut, AfterPrint, Printer
<1>2. Editing'
  BY <1>1, PrinterEdits DEF Inside
<1>3. Showing'
  <2>1. CASE CopyCell
    BY <2>1, CopyStaysInside DEF Inside
  <2>2. CASE WriteOut(AfterPrint)
    <3>1. screen' = out /\ out' = <<>> /\ torn' = overlap /\ overlap' = FALSE
          /\ printerpc' # "copy"
      BY <2>2 DEF WriteOut, Printer, AfterPrint
    <3>2. <<>> \in Seq(Chars \cup {"prompt"})
      BY EmptySeq
    <3> QED
      BY <3>1, <3>2 DEF Inside, Showing
  <2> QED
    BY <2>1, <2>2 DEF PrintMessage
<1>4. Threads'
  BY <1>1, PrinterThreads DEF Inside, PrintMessage, clientVars
<1>5. Fifos'
  BY FifosStay DEF Inside, PrintMessage, clientVars
<1> QED
  BY <1>2, <1>3, <1>4, <1>5 DEF Inside

LEMMA ServerThreadKeeps ==
  ASSUME Inside, ServerThread
  PROVE  Inside'
<1>1. CASE ReadMessage
  BY <1>1, ReadKeeps
<1>2. CASE PrintMessage
  BY <1>2, PrintKeeps
<1>3. CASE PrintNewline
  <2>1. Editing' /\ Threads'
    BY <1>3, PrinterEdits, PrinterThreads DEF Inside, PrintNewline, clientVars
  <2>2. <<>> \in Seq(Chars \cup {"prompt"})
    BY EmptySeq
  <2>3. Showing'
    BY <1>3, <2>2 DEF Inside, Showing, PrintNewline, Printer
  <2>4. Fifos'
    BY <1>3, FifosStay DEF Inside, PrintNewline, clientVars
  <2> QED
    BY <2>1, <2>3, <2>4 DEF Inside
<1>4. CASE CancelUserThread
  <2>1. Editing'
    BY <1>4, PrinterEdits DEF Inside, CancelUserThread
  <2>2. Showing'
    BY <1>4 DEF Inside, Showing, CancelUserThread, Printer, printVars
  <2>3. Threads'
    BY <1>4 DEF Inside, Threads, CancelUserThread, CancelsUser, Printer
  <2>4. Fifos'
    BY <1>4, FifosStay DEF Inside, CancelUserThread
  <2> QED
    BY <2>1, <2>2, <2>3, <2>4 DEF Inside
<1>5. CASE CloseToClient
  <2>1. Editing' /\ Threads'
    BY <1>5, PrinterEdits, PrinterThreads DEF Inside, CloseToClient, clientVars
  <2>2. Showing'
    BY <1>5 DEF Inside, Showing, CloseToClient, Printer, printVars
  <2>3. <<>> \in Seq({"JOINED", "SHUTDOWN"})
    OBVIOUS
  <2>4. Fifos'
    BY <1>5, <2>3 DEF Inside, Fifos, CloseToClient, clientVars
  <2> QED
    BY <2>1, <2>2, <2>4 DEF Inside
<1>6. CASE ServerCancelled
  <2>1. Printer(printerpc, "done")
        /\ UNCHANGED <<printVars, screen, overlap, netVars, clientVars>>
    BY <1>6 DEF ServerCancelled
  <2>2. Editing' /\ Threads' /\ Fifos'
    BY <2>1, PrinterEdits, PrinterThreads, FifosStay DEF Inside, clientVars
  <2>3. Showing'
    BY <2>1 DEF Inside, Showing, Printer, printVars
  <2> QED
    BY <2>2, <2>3 DEF Inside
<1> QED
  BY <1>1, <1>2, <1>3, <1>4, <1>5, <1>6 DEF ServerThread

(* The server touches only the FIFOs.                                      *)
LEMMA ServerSideKeeps ==
  ASSUME Inside, ServerSide
  PROVE  Inside'
<1>1. UNCHANGED <<simpioVars, clientVars, tsOpen, tcOpen>>
  BY DEF ServerSide, ServerReads, ServerWrites, ServerEnds
<1>2. Editing' /\ Showing' /\ Threads'
  BY <1>1, EditingStays, ShowingStays DEF Inside, Threads, simpioVars,
     clientVars, cancelVars
<1>3. /\ serverUp' \in BOOLEAN /\ unread' \in 0 .. PipeCap
      /\ toClient' \in Seq({"JOINED", "SHUTDOWN"})
  <2>1. CASE ServerReads
    BY <2>1, PipeCapAssumption DEF Inside, Fifos, ServerReads
  <2>2. CASE ServerWrites
    BY <2>2, AppendProperties DEF Inside, Fifos, ServerWrites
  <2>3. CASE ServerEnds
    BY <2>3 DEF Inside, Fifos, ServerEnds
  <2> QED
    BY <2>1, <2>2, <2>3 DEF ServerSide
<1>4. Fifos'
  BY <1>1, <1>3 DEF Inside, Fifos, clientVars
<1> QED
  BY <1>2, <1>4 DEF Inside

-----------------------------------------------------------------------------
LEMMA InsideKept ==
  ASSUME Inside, [Next]_vars
  PROVE  Inside'
<1>1. CASE UNCHANGED vars
  BY <1>1, EditingStays, ShowingStays, FifosStay
     DEF Inside, Threads, vars, simpioVars, clientVars, cancelVars
<1> QED
  BY <1>1, MainKeeps, UserKeyKeeps, UserThreadKeeps, ServerThreadKeeps,
     ServerSideKeeps DEF Next

(* No access leaves the buffer of the line editor, whatever its size and   *)
(* wherever the threads of the client meet in it (simpio_get_char against  *)
(* the copy of iprintf).                                                   *)
THEOREM BufferNeverLeft == Spec => []BufferEnds
<1>1. Spec => []Inside
  BY InsideStarts, InsideKept, PTL DEF Spec
<1> QED
  BY <1>1, InsideEnds, PTL

-----------------------------------------------------------------------------
(* What one key makes of a line, and the lines that the keys make one      *)
(* after the other.                                                        *)
After(was, k) ==
  IF k \in Chars /\ Len(was) < MAXLINE - 1 THEN Append(was, k)
  ELSE IF k = "backspace" /\ was # <<>> THEN SubSeq(was, 1, Len(was) - 1)
  ELSE was

AreLines(line, typed) ==
  line = [n \in 0 .. Len(typed) |-> IF n = 0 THEN <<>> ELSE After(line[n - 1], typed[n])]

LEMMA EditedIsLast ==
  ASSUME NEW typed
  PROVE  Edited(typed) = (CHOOSE line : AreLines(line, typed))[Len(typed)]
  BY DEF Edited, AreLines, After

LEMMA AfterIsLine ==
  ASSUME NEW was \in Seq(Chars), NEW k
  PROVE  After(was, k) \in Seq(Chars)
<1>1. was # <<>> => SubSeq(was, 1, Len(was) - 1) \in Seq(Chars)
  <2> DEFINE n == Len(was) - 1
  <2>1. 1 \in Int /\ n \in Int /\ \A j \in 1 .. n : was[j] \in Chars
    BY LenProperties
  <2> HIDE DEF n
  <2>2. SubSeq(was, 1, n) \in Seq(Chars)
    BY <2>1, SubSeqProperties
  <2> QED
    BY <2>2 DEF n
<1> QED
  BY <1>1 DEF After

(* There are such lines, for any keys.                                     *)
LEMMA LinesExist ==
  ASSUME NEW typed \in Seq(Keys)
  PROVE  /\ AreLines(CHOOSE line : AreLines(line, typed), typed)
         /\ (CHOOSE line : AreLines(line, typed)) \in [0 .. Len(typed) -> Seq(Chars)]
<1> DEFINE N == Len(typed)
           V == Seq(Chars)
           step == [p \in (1 .. N) \X V |-> After(p[2], typed[p[1]])]
<1>1. N \in Nat /\ <<>> \in V
  BY LenProperties, EmptySeq
<1>2. step \in [(1 .. N) \X V -> V]
  BY AfterIsLine
<1>3. PICK f \in [0 .. N -> V] : Steps(f, N, <<>>, step)
  <2> HIDE DEF step, V, N
  <2> QED
    BY <1>1, <1>2, StepsExist
<1>4. \A n \in 1 .. N : f[n] = After(f[n - 1], typed[n])
  <2> TAKE n \in 1 .. N
  <2>0. n - 1 \in 0 .. N
    BY <1>1
  <2>1. f[n - 1] \in V /\ <<n, f[n - 1]>> \in (1 .. N) \X V
    BY <2>0
  <2>2. step[<<n, f[n - 1]>>] = After(f[n - 1], typed[n])
    BY <2>1
  <2> QED
    BY <1>3, <2>2 DEF Steps
<1>5. AreLines(f, typed)
  <2>1. f[0] = <<>> /\ DOMAIN f = 0 .. N
    BY <1>3 DEF Steps
  <2> DEFINE g == [n \in 0 .. N |-> IF n = 0 THEN <<>> ELSE After(f[n - 1], typed[n])]
  <2>2. \A n \in 0 .. N : f[n] = g[n]
    BY <1>1, <1>4, <2>1
  <2>3. f = g
    BY <2>1, <2>2
  <2> QED
    BY <2>3 DEF AreLines
<1> DEFINE h == CHOOSE line : AreLines(line, typed)
<1>6. AreLines(h, typed)
  BY <1>5
<1>7. h \in [0 .. N -> V]
  <2>1. DOMAIN h = 0 .. N /\ h = [n \in 0 .. N |-> h[n]] /\ h[0] = <<>>
        /\ \A n \in 1 .. N : h[n] = After(h[n - 1], typed[n])
    <3> HIDE DEF h
    <3> QED
      BY <1>1, <1>6 DEF AreLines
  <2>2. f[0] = <<>> /\ DOMAIN f = 0 .. N
    BY <1>3 DEF Steps
  <2>3. \A n \in 0 .. N : h[n] = f[n]
    <3> HIDE DEF h, N
    <3>1. StepAlike(h, f, N)
      BY <1>4, <2>1, <2>2 DEF StepAlike
    <3> QED
      BY <1>1, <3>1, StepsAgree
  <2> QED
    BY <2>1, <2>3
<1> QED
  BY <1>6, <1>7

LEMMA EditedEmpty == Edited(<<>>) = <<>>
<1> DEFINE h == CHOOSE line : AreLines(line, <<>>)
<1>1. AreLines(h, <<>>)
  <2>1. <<>> \in Seq(Keys)
    BY EmptySeq
  <2> QED
    BY <2>1, LinesExist
<1>2. h[0] = <<>> /\ Len(<<>>) = 0
  <2> HIDE DEF h
  <2> QED
    BY <1>1 DEF AreLines
<1> QED
  BY <1>2, EditedIsLast

(* One more key is one more step, whatever was typed before.               *)
LEMMA EditedMore ==
  ASSUME NEW typed \in Seq(Keys), NEW k \in Keys
  PROVE  Edited(Append(typed, k)) = After(Edited(typed), k)
<1> DEFINE more == Append(typed, k)
           f == CHOOSE line : AreLines(line, typed)
           g == CHOOSE line : AreLines(line, more)
           N == Len(typed)
<1>1. /\ more \in Seq(Keys) /\ Len(more) = N + 1 /\ N \in Nat
      /\ \A n \in 1 .. N : more[n] = typed[n]
      /\ more[N + 1] = k
  BY AppendProperties, LenProperties
<1>2. AreLines(f, typed) /\ AreLines(g, more)
  BY <1>1, LinesExist
<1>3. /\ DOMAIN f = 0 .. N /\ f[0] = <<>>
      /\ \A n \in 1 .. N : f[n] = After(f[n - 1], typed[n])
  <2> HIDE DEF f
  <2> QED
    BY <1>1, <1>2 DEF AreLines
<1>4. /\ DOMAIN g = 0 .. N + 1 /\ g[0] = <<>>
      /\ \A n \in 1 .. N + 1 : g[n] = After(g[n - 1], more[n])
  <2> HIDE DEF g, more
  <2> QED
    BY <1>1, <1>2, SMTT(30) DEF AreLines
<1>5. \A n \in 0 .. N : f[n] = g[n]
  <2> HIDE DEF f, g, N, more
  <2>1. StepAlike(f, g, N)
    BY <1>1, <1>3, <1>4 DEF StepAlike
  <2> QED
    BY <1>1, <2>1, StepsAgree
<1>6. g[N + 1] = After(f[N], k)
  <2> HIDE DEF f, g, N, more
  <2> QED
    BY <1>1, <1>4, <1>5
<1>7. Edited(more) = g[Len(more)] /\ Edited(typed) = f[Len(typed)]
  BY EditedIsLast
<1> HIDE DEF f, g
<1> QED
  BY <1>1, <1>6, <1>7

-----------------------------------------------------------------------------
(* What of a line is in the buffer, where the reader is amid it, and what  *)
(* it has the screen show.                                                 *)
Holds(n) ==
  /\ \A j \in 0 .. n - 1 : buf[j] \in Chars
  /\ Edited(keys) = [j \in 1 .. n |-> buf[j - 1]]

Line ==
  /\ keys \in Seq(Keys)
  /\ readerpc \in {"prompt", "get", "erase", "echo", "line"} =>
       Holds(pos) /\ buf[pos] = NUL
  /\ readerpc = "terminate" => Holds(pos + 1) /\ buf[pos] = ch
  /\ readerpc = "prompt" => pos = 0
  /\ readerpc \in {"line", "echo"} => pos > 0
  /\ readerpc = "echo" => buf[pos - 1] = ch

(* The first n characters of the buffer, on a screen of that many.         *)
Shows(shown, n, len) ==
  /\ Len(shown) = len /\ shown[1] = "prompt"
  /\ \A j \in 1 .. n : shown[j + 1] = buf[j - 1]

Screen ==
  ~torn =>
    /\ readerpc \in {"get", "terminate"} => Shows(screen, pos, pos + 1)
    /\ readerpc = "echo" => Shows(screen, pos - 1, pos)
    /\ readerpc = "erase" => Shows(screen, pos, pos + 2)

(* A copy that has met no step of the reader is of the buffer as it is.    *)
Copied ==
  Printing /\ ~overlap =>
    /\ readerpc \notin {"terminate", "echo", "erase"}
    /\ Len(out) > 0 /\ Shows(out, Len(out) - 1, Len(out))
    /\ \A j \in 0 .. Len(out) - 2 : j \in Cells /\ buf[j] # NUL
    /\ printerpc = "write" => Len(out) - 1 \in Cells /\ buf[Len(out) - 1] = NUL

Typing == Line /\ Screen /\ Copied

(* Text ends where the line does.                                          *)
LEMMA TextIs ==
  ASSUME Editing, NEW n \in Cells, buf[n] = NUL, \A j \in 0 .. n - 1 : buf[j] \in Chars
  PROVE  Text(buf) = [j \in 1 .. n |-> buf[j - 1]]
<1> DEFINE ends == {m \in DOMAIN buf : buf[m] = NUL} \cup {MAXLINE}
<1>1. DOMAIN buf = Cells /\ n \in Nat /\ n < MAXLINE /\ MAXLINE \in Nat
  BY MAXLINEAssumption DEF Editing, Cells
<1>2. n \in ends
  BY <1>1
<1>3. \A m \in ends : m \in Nat /\ n <= m
  <2> TAKE m \in ends
  <2>1. CASE m = MAXLINE
    BY <1>1, <2>1
  <2>2. CASE m \in Cells /\ buf[m] = NUL
    <3>1. m \in Nat /\ m \notin 0 .. n - 1
      BY <2>2, CharsAssumption DEF Cells
    <3> QED
      BY <1>1, <3>1
  <2> QED
    BY <1>1, <2>1, <2>2
<1> DEFINE end == CHOOSE e \in ends : \A m \in ends : e <= m
<1>4. end \in ends /\ end <= n
  BY <1>2, <1>3
<1>5. end = n
  BY <1>1, <1>3, <1>4
<1> HIDE DEF end
<1>6. Text(buf) = [j \in 1 .. end |-> buf[j - 1]]
  BY DEF Text, end
<1> QED
  BY <1>5, <1>6

LEMMA EditedHolds ==
  ASSUME Editing, Line
  PROVE  LineIsEdited
<1>1. CASE readerpc \in {"get", "line"}
  <2>1. Holds(pos) /\ buf[pos] = NUL /\ pos \in Cells
    BY <1>1 DEF Line, Editing
  <2>2. Text(buf) = [j \in 1 .. pos |-> buf[j - 1]]
    BY <2>1, TextIs DEF Holds
  <2>3. readerpc = "line" => Text(buf) # <<>>
    BY <2>1, <2>2 DEF Line, Cells
  <2> QED
    BY <2>1, <2>2, <2>3 DEF LineIsEdited, Holds
<1> QED
  BY <1>1 DEF LineIsEdited

LEMMA ScreenHolds ==
  ASSUME Editing, Showing, Line, Screen
  PROVE  ScreenRepaired
<1> SUFFICES ASSUME readerpc = "get", ~torn
             PROVE  screen = Prompt \o Text(buf)
  BY DEF ScreenRepaired
<1>1. Text(buf) = [j \in 1 .. pos |-> buf[j - 1]] /\ pos \in Nat
  BY TextIs DEF Line, Editing, Holds, Cells
<1>2. Shows(screen, pos, pos + 1)
  BY DEF Screen
<1> DEFINE text == [j \in 1 .. pos |-> buf[j - 1]]
           S == Chars \cup {"prompt"}
<1>3. text \in Seq(S) /\ Len(text) = pos /\ Prompt \in Seq(S) /\ Len(Prompt) = 1
      /\ Prompt[1] = "prompt"
  BY <1>1 DEF Prompt, Line, Holds
<1>4. /\ Prompt \o text \in Seq(S) /\ Len(Prompt \o text) = pos + 1
      /\ \A j \in 1 .. pos + 1 :
           (Prompt \o text)[j] = IF j = 1 THEN "prompt" ELSE buf[j - 2]
  <2>1. \A j \in 1 .. pos : text[j] = buf[j - 1]
    OBVIOUS
  <2> HIDE DEF S, text
  <2>2. /\ Prompt \o text \in Seq(S) /\ Len(Prompt \o text) = pos + 1
        /\ \A j \in 1 .. pos + 1 :
             (Prompt \o text)[j] = IF j <= 1 THEN Prompt[j] ELSE text[j - 1]
    <3>1. /\ Prompt \o text \in Seq(S)
          /\ Len(Prompt \o text) = Len(Prompt) + Len(text)
          /\ \A j \in 1 .. Len(Prompt) + Len(text) :
               (Prompt \o text)[j] = IF j <= Len(Prompt) THEN Prompt[j]
                                                       ELSE text[j - Len(Prompt)]
      BY <1>3, ConcatProperties
    <3> QED
      BY <1>1, <1>3, <3>1
  <2>3. \A j \in 1 .. pos + 1 : IF j <= 1 THEN j = 1
                                          ELSE j # 1 /\ j - 1 \in 1 .. pos
                                               /\ (j - 1) - 1 = j - 2
    BY <1>1
  <2> QED
    BY <1>3, <2>1, <2>2, <2>3
<1>5. screen \in Seq(S) /\ Len(screen) = pos + 1
      /\ \A j \in 1 .. pos + 1 : screen[j] = IF j = 1 THEN "prompt" ELSE buf[j - 2]
  <2>1. ASSUME NEW j \in 1 .. pos + 1, j # 1
        PROVE  screen[j] = buf[j - 2]
    <3>1. j - 1 \in 1 .. pos /\ (j - 1) + 1 = j /\ (j - 1) - 1 = j - 2
      BY <1>1, <2>1
    <3>2. screen[(j - 1) + 1] = buf[(j - 1) - 1]
      BY <1>2, <3>1 DEF Shows
    <3> QED
      BY <3>1, <3>2
  <2> QED
    BY <1>2, <2>1 DEF Shows, Showing
<1>6. screen = Prompt \o text
  <2> DEFINE shown == Prompt \o text
  <2>1. shown \in Seq(S) /\ Len(screen) = Len(shown) /\ screen \in Seq(S)
    BY <1>4, <1>5
  <2>2. \A j \in 1 .. Len(screen) : screen[j] = shown[j]
    <3> HIDE DEF text, S
    <3> QED
      BY <1>4, <1>5
  <2> HIDE DEF shown, S
  <2>3. screen = shown
    BY <2>1, <2>2, SeqEqual
  <2> QED
    BY <2>3 DEF shown
<1> QED
  BY <1>1, <1>6

-----------------------------------------------------------------------------
LEMMA TypingStarts == Init => Typing
<1> SUFFICES ASSUME Init PROVE Typing
  OBVIOUS
<1>1. readerpc = "none" /\ printerpc = "none" /\ keys = <<>>
  BY DEF Init, SimpioInit
<1> QED
  BY <1>1, EmptySeq DEF Typing, Line, Screen, Copied, Printing

(* Outside the editor.                                                     *)
Outside == {"none", "loop", "line", "depart", "cancel", "close", "done"}

LEMMA LineStays ==
  ASSUME Line, UNCHANGED lineVars,
         readerpc' = readerpc \/ readerpc' \in Outside \ {"line"}
  PROVE  Line'
  BY DEF Line, Outside, lineVars, Holds

LEMMA ScreenStays ==
  ASSUME Screen, UNCHANGED <<buf, pos, screen, torn>>,
         readerpc' = readerpc \/ readerpc' \in Outside
  PROVE  Screen'
  BY DEF Screen, Outside, Shows

LEMMA CopiedStays ==
  ASSUME Copied, UNCHANGED <<buf, out, printerpc, overlap>>,
         readerpc' = readerpc \/ readerpc' \in Outside
  PROVE  Copied'
  BY DEF Copied, Outside, Shows, Printing

(* The reader spoils what is being copied, whatever it does.               *)
LEMMA ReaderSpoils ==
  ASSUME Showing, NEW at, NEW next, Reader(at, next)
  PROVE  Copied'
  BY DEF Copied, Reader, Printing, Showing

-----------------------------------------------------------------------------
(* A key that takes a character away, completes the line, ends the input,  *)
(* is ignored, or adds a character.                                        *)
LEMMA BackspaceTypes ==
  ASSUME Editing, Showing, Line, Screen, GetBackspace
  PROVE  Line' /\ Screen'
<1>1. /\ readerpc = "get" /\ readerpc' = "erase" /\ pos > 0 /\ pos' = pos - 1
      /\ buf' = [buf EXCEPT ![pos - 1] = NUL] /\ keys' = Append(keys, "backspace")
      /\ UNCHANGED <<screen, torn>>
  BY DEF GetBackspace, Reader, TypesOn, Types
<1>2. /\ pos \in Nat /\ pos - 1 \in Nat /\ pos - 1 \in Cells /\ pos \in Cells
      /\ DOMAIN buf = Cells
  BY <1>1, MAXLINEAssumption DEF Editing, Cells
<1>3. Holds(pos) /\ keys \in Seq(Keys)
  BY <1>1 DEF Line
<1>4. keys' \in Seq(Keys) /\ Edited(keys') = After(Edited(keys), "backspace")
  BY <1>1, <1>3, EditedMore, AppendProperties DEF Keys
<1>5. /\ \A j \in 0 .. pos - 2 : buf'[j] = buf[j] /\ j \in 0 .. pos - 1
      /\ buf'[pos - 1] = NUL
  <2>1. \A j \in 0 .. pos - 2 : j \in Cells /\ j # pos - 1
    BY <1>2, MAXLINEAssumption DEF Cells
  <2> QED
    BY <1>1, <1>2, <2>1
<1>6. After(Edited(keys), "backspace") = [j \in 1 .. pos - 1 |-> buf[j - 1]]
  <2> DEFINE was == [j \in 1 .. pos |-> buf[j - 1]]
  <2>1. was \in Seq(Chars) /\ Len(was) = pos /\ was # <<>>
    <3>1. \A j \in 1 .. pos : j - 1 \in 0 .. pos - 1
      BY <1>2
    <3>2. \A j \in 0 .. pos - 1 : buf[j] \in Chars
      BY <1>3 DEF Holds
    <3>3. was \in [1 .. pos -> Chars]
      BY <3>1, <3>2
    <3>4. was \in Seq(Chars)
      BY <1>2, <3>3
    <3> QED
      BY <1>1, <1>2, <3>3, <3>4, LenProperties
  <2>2. Edited(keys) = was
    BY <1>3 DEF Holds
  <2>3. SubSeq(was, 1, pos - 1) = [j \in 1 .. pos - 1 |-> buf[j - 1]]
    BY <1>2
  <2> HIDE DEF was
  <2>4. After(was, "backspace") = SubSeq(was, 1, Len(was) - 1)
    BY <2>1, CharsAssumption DEF After
  <2> QED
    BY <2>1, <2>2, <2>3, <2>4
<1>7. Holds(pos)'
  <2>1. \A j \in 1 .. pos - 1 : j - 1 \in 0 .. pos - 2 /\ buf'[j - 1] = buf[j - 1]
    BY <1>2, <1>5
  <2>2. [j \in 1 .. pos - 1 |-> buf'[j - 1]] = [j \in 1 .. pos - 1 |-> buf[j - 1]]
    BY <2>1
  <2>3. \A j \in 0 .. pos - 2 : buf'[j] \in Chars
    BY <1>3, <1>5 DEF Holds
  <2>4. (pos - 1) - 1 = pos - 2
    BY <1>2
  <2> QED
    BY <1>1, <1>4, <1>6, <2>2, <2>3, <2>4 DEF Holds
<1>8. Line'
  BY <1>1, <1>4, <1>5, <1>7 DEF Line
<1>9. Screen'
  <2>1. torn' = torn /\ (~torn => Shows(screen, pos, pos + 1))
    BY <1>1 DEF Screen
  <2>2. \A j \in 1 .. pos - 1 : j \in 1 .. pos /\ buf'[j - 1] = buf[j - 1]
    BY <1>2, <1>5
  <2>3. ~torn => Shows(screen, pos, pos + 2)'
    BY <1>1, <1>2, <2>1, <2>2 DEF Shows
  <2> QED
    BY <1>1, <2>1, <2>3 DEF Screen
<1> QED
  BY <1>8, <1>9

LEMMA LineTypes ==
  ASSUME Editing, Line, NEW k \in Keys, GetLine(k)
  PROVE  Line' /\ Screen'
<1>1. /\ k \in {"newline", "EOT"} /\ pos > 0 /\ readerpc = "get" /\ readerpc' = "line"
      /\ buf' = [buf EXCEPT ![pos] = NUL] /\ keys' = Append(keys, k) /\ pos' = pos
  BY DEF GetLine, Reader, Types
<1>2. Holds(pos) /\ buf[pos] = NUL /\ keys \in Seq(Keys) /\ pos \in Nat
  BY <1>1 DEF Line, Editing, Cells
<1>3. buf' = buf
  BY <1>1, <1>2 DEF Editing
<1>4. keys' \in Seq(Keys) /\ Edited(keys') = Edited(keys)
  <2>1. keys' \in Seq(Keys) /\ Edited(keys') = After(Edited(keys), k)
    BY <1>1, <1>2, EditedMore, AppendProperties
  <2> QED
    BY <1>1, <2>1, CharsAssumption DEF After
<1>5. Line'
  BY <1>1, <1>2, <1>3, <1>4 DEF Line, Holds
<1> QED
  BY <1>1, <1>5 DEF Screen

LEMMA EndTypes ==
  ASSUME Line, NEW k \in Keys, GetEnd(k)
  PROVE  Line' /\ Screen'
<1>1. readerpc' = "loop" /\ keys' = Append(keys, k) /\ keys \in Seq(Keys)
  BY DEF GetEnd, Reader, Types, Line
<1>2. keys' \in Seq(Keys)
  BY <1>1, AppendProperties
<1> QED
  BY <1>1, <1>2 DEF Line, Screen

LEMMA IgnoredTypes ==
  ASSUME Editing, Line, Screen, NEW k \in Keys, GetIgnored(k)
  PROVE  Line' /\ Screen'
<1>1. /\ readerpc = "get" /\ readerpc' = "get" /\ keys' = Append(keys, k)
      /\ UNCHANGED <<buf, pos, ch, screen, torn>>
  BY DEF GetIgnored, Reader, TypesOn, Types
<1>2. Holds(pos) /\ buf[pos] = NUL /\ keys \in Seq(Keys) /\ pos \in Nat /\ pos < MAXLINE
  BY <1>1, MAXLINEAssumption DEF Line, Editing, Cells
<1>3. keys' \in Seq(Keys) /\ Edited(keys') = After(Edited(keys), k)
  BY <1>1, <1>2, EditedMore, AppendProperties
<1>4. After(Edited(keys), k) = Edited(keys)
  <2> DEFINE was == [j \in 1 .. pos |-> buf[j - 1]]
  <2>1. Edited(keys) = was /\ Len(was) = pos /\ (pos = 0 => was = <<>>)
    BY <1>2 DEF Holds
  <2>2. CASE k \in {"newline", "backspace"} /\ pos = 0
    BY <2>1, <2>2, CharsAssumption DEF After
  <2>3. CASE k \in Chars /\ ~Room
    <3>1. pos >= MAXLINE - 1 /\ k # "backspace"
      BY <1>2, <2>3, CharsAssumption, MAXLINEAssumption DEF Room
    <3> HIDE DEF was
    <3> QED
      BY <1>2, <2>1, <3>1, MAXLINEAssumption DEF After
  <2> QED
    BY <2>2, <2>3 DEF GetIgnored
<1>5. Line'
  BY <1>1, <1>2, <1>3, <1>4 DEF Line, Holds
<1>6. Screen'
  BY <1>1 DEF Screen, Shows
<1> QED
  BY <1>5, <1>6

LEMMA NormalTypes ==
  ASSUME Editing, Line, Screen, NEW k \in Keys, GetNormal(k)
  PROVE  Line' /\ Screen'
<1>1. /\ k \in Chars /\ pos < MAXLINE - 1 /\ readerpc = "get" /\ readerpc' = "terminate"
      /\ buf' = [buf EXCEPT ![pos] = k] /\ ch' = k /\ keys' = Append(keys, k)
      /\ UNCHANGED <<pos, screen, torn>>
  BY DEF GetNormal, Reader, TypesOn, Types, Room
<1>2. /\ Holds(pos) /\ buf[pos] = NUL /\ keys \in Seq(Keys) /\ pos \in Nat
      /\ pos \in Cells /\ DOMAIN buf = Cells /\ MAXLINE \in Nat
  BY <1>1, MAXLINEAssumption DEF Line, Editing, Cells
<1>3. keys' \in Seq(Keys) /\ Edited(keys') = After(Edited(keys), k)
  BY <1>1, <1>2, EditedMore, AppendProperties
<1>4. /\ \A j \in 0 .. pos - 1 : buf'[j] = buf[j]
      /\ buf'[pos] = k
  <2>1. \A j \in 0 .. pos - 1 : j \in Cells /\ j # pos
    BY <1>1, <1>2 DEF Cells
  <2> QED
    BY <1>1, <1>2, <2>1
<1>5. After(Edited(keys), k) = [j \in 1 .. pos + 1 |-> buf'[j - 1]]
  <2> DEFINE was == [j \in 1 .. pos |-> buf[j - 1]]
             now == [j \in 1 .. pos + 1 |-> buf'[j - 1]]
  <2>1. Edited(keys) = was /\ was \in Seq(Chars) /\ Len(was) = pos
    BY <1>2 DEF Holds
  <2>2. now \in Seq(Chars) /\ Len(now) = pos + 1
    <3>1. \A j \in 1 .. pos + 1 : buf'[j - 1] \in Chars
      <4> TAKE j \in 1 .. pos + 1
      <4>1. j - 1 = pos \/ j - 1 \in 0 .. pos - 1
        BY <1>2
      <4> QED
        BY <1>1, <1>2, <1>4, <4>1 DEF Holds
    <3> QED
      BY <1>2, <3>1
  <2>3. \A j \in 1 .. pos + 1 : now[j] = IF j = pos + 1 THEN k ELSE was[j]
    <3> TAKE j \in 1 .. pos + 1
    <3>1. CASE j = pos + 1
      <4>1. j - 1 = pos
        BY <1>2, <3>1
      <4> QED
        BY <1>4, <3>1, <4>1
    <3>2. CASE j # pos + 1
      <4>1. j \in 1 .. pos /\ j - 1 \in 0 .. pos - 1
        BY <1>2, <3>2
      <4> QED
        BY <1>4, <3>2, <4>1
    <3> QED
      BY <3>1, <3>2
  <2> HIDE DEF was, now
  <2>4. /\ Append(was, k) \in Seq(Chars) /\ Len(Append(was, k)) = Len(was) + 1
        /\ \A j \in 1 .. Len(was) : Append(was, k)[j] = was[j]
        /\ Append(was, k)[Len(was) + 1] = k
    BY <1>1, <2>1, AppendProperties
  <2> DEFINE added == Append(was, k)
  <2>5. Len(added) = Len(now) /\ \A j \in 1 .. Len(now) : added[j] = now[j]
    <3>1. \A j \in 1 .. pos + 1 : j = pos + 1 \/ j \in 1 .. pos
      BY <1>2
    <3> QED
      BY <2>1, <2>2, <2>3, <2>4, <3>1
  <2>6. added = now
    <3>1. added \in Seq(Chars)
      BY <2>4
    <3> HIDE DEF added
    <3> QED
      BY <2>2, <2>5, <3>1, SeqEqual
  <2>7. After(Edited(keys), k) = added
    BY <1>1, <2>1 DEF After
  <2> QED
    BY <2>6, <2>7 DEF now
<1>6. Holds(pos + 1)'
  <2>1. \A j \in 0 .. pos : j = pos \/ j \in 0 .. pos - 1
    BY <1>2
  <2>2. (pos + 1) - 1 = pos
    BY <1>2
  <2> QED
    BY <1>1, <1>2, <1>3, <1>4, <1>5, <2>1, <2>2 DEF Holds
<1>7. Line'
  BY <1>1, <1>3, <1>4, <1>6 DEF Line
<1>8. Screen'
  <2>1. torn' = torn /\ (~torn => Shows(screen, pos, pos + 1))
    BY <1>1 DEF Screen
  <2>2. \A j \in 1 .. pos : j - 1 \in 0 .. pos - 1
    BY <1>2
  <2>3. ~torn => Shows(screen, pos, pos + 1)'
    BY <1>1, <1>4, <2>1, <2>2 DEF Shows
  <2> QED
    BY <1>1, <2>1, <2>3 DEF Screen
<1> QED
  BY <1>7, <1>8

LEMMA KeyTypes ==
  ASSUME Editing, Showing, Line, Screen, Key
  PROVE  Line' /\ Screen'
  BY BackspaceTypes, LineTypes, EndTypes, IgnoredTypes, NormalTypes
     DEF Key, GetChar

-----------------------------------------------------------------------------
(* The loop between its keys.                                              *)
LEMMA ResetTypes ==
  ASSUME Editing, ResetLine
  PROVE  Line' /\ Screen'
<1>1. /\ readerpc' = "prompt" /\ pos' = 0 /\ buf' = [buf EXCEPT ![0] = NUL]
      /\ keys' = <<>>
  BY DEF ResetLine, Reader
<1>2. buf'[0] = NUL
  BY <1>1, MAXLINEAssumption DEF Editing, Cells
<1>3. Holds(0)'
  BY <1>1, EditedEmpty DEF Holds
<1>4. Line'
  BY <1>1, <1>2, <1>3, EmptySeq DEF Line
<1> QED
  BY <1>1, <1>4 DEF Screen

LEMMA PromptTypes ==
  ASSUME Line, PrintPrompt
  PROVE  Line' /\ Screen'
<1>1. /\ readerpc = "prompt" /\ readerpc' = "get" /\ pos = 0 /\ screen' = Prompt
      /\ UNCHANGED lineVars
  BY DEF PrintPrompt, Reader, Line
<1>2. Line'
  BY <1>1 DEF Line, Holds, lineVars
<1>3. Shows(screen, pos, pos + 1)'
  BY <1>1 DEF Shows, Prompt, lineVars
<1> QED
  BY <1>1, <1>2, <1>3 DEF Screen

LEMMA EraseTypes ==
  ASSUME Editing, Showing, Line, Screen, Erase
  PROVE  Line' /\ Screen'
<1>1. /\ readerpc = "erase" /\ readerpc' = "get" /\ UNCHANGED lineVars
      /\ screen' = SubSeq(screen, 1, Len(screen) - 1) /\ torn' = torn
  BY DEF Erase, Reader
<1>2. Line'
  BY <1>1 DEF Line, Holds, lineVars
<1>3. Screen'
  <2> SUFFICES ASSUME ~torn PROVE Shows(screen, pos, pos + 1)'
    BY <1>1 DEF Screen
  <2>1. Shows(screen, pos, pos + 2) /\ pos \in Nat
    BY <1>1 DEF Screen, Editing, Cells
  <2> DEFINE n == Len(screen) - 1
             S == Chars \cup {"prompt"}
  <2>2. n = pos + 1 /\ 1 \in Int /\ n \in Int /\ \A j \in 1 .. n : screen[j] \in S
    BY <2>1, LenProperties DEF Shows, Showing
  <2>3. Len(screen') = n /\ \A j \in 1 .. n : screen'[j] = screen[j]
    <3> HIDE DEF n, S
    <3>1. /\ Len(SubSeq(screen, 1, n)) = IF 1 <= n THEN n - 1 + 1 ELSE 0
          /\ \A i \in 1 .. n - 1 + 1 : SubSeq(screen, 1, n)[i] = screen[1 + i - 1]
      BY <2>2, SubSeqProperties
    <3>2. \A i \in 1 .. n : 1 + i - 1 = i /\ i \in 1 .. n - 1 + 1
      BY <2>2
    <3> QED
      BY <1>1, <2>1, <2>2, <3>1, <3>2 DEF n
  <2>4. \A j \in 1 .. pos : j + 1 \in 1 .. n
    BY <2>1, <2>2
  <2> HIDE DEF n, S
  <2> QED
    BY <1>1, <2>1, <2>2, <2>3, <2>4 DEF Shows, lineVars
<1> QED
  BY <1>2, <1>3

LEMMA TerminateTypes ==
  ASSUME Editing, Line, Screen, Terminate
  PROVE  Line' /\ Screen'
<1>1. /\ readerpc = "terminate" /\ readerpc' = "echo" /\ pos' = pos + 1
      /\ buf' = [buf EXCEPT ![pos + 1] = NUL] /\ UNCHANGED <<ch, keys, screen, torn>>
  BY DEF Terminate, Terminator, Reader
<1>2. pos \in Nat /\ pos + 1 \in Cells /\ DOMAIN buf = Cells /\ MAXLINE \in Nat
  BY <1>1, MAXLINEAssumption DEF Editing, Cells
<1>3. /\ \A j \in 0 .. pos : buf'[j] = buf[j]
      /\ buf'[pos + 1] = NUL
  <2>1. \A j \in 0 .. pos : j \in Cells /\ j # pos + 1
    BY <1>2 DEF Cells
  <2> QED
    BY <1>1, <1>2, <2>1
<1>4. Holds(pos + 1) /\ buf[pos] = ch
  BY <1>1 DEF Line
<1>5. Holds(pos)'
  <2>1. (pos + 1) - 1 = pos
    BY <1>2
  <2>2. \A j \in 1 .. pos + 1 : j - 1 \in 0 .. pos
    BY <1>2
  <2>3. [j \in 1 .. pos + 1 |-> buf[j - 1]] = [j \in 1 .. pos + 1 |-> buf'[j - 1]]
    BY <1>3, <2>2
  <2> QED
    BY <1>1, <1>3, <1>4, <2>1, <2>3 DEF Holds
<1>6. Line'
  <2>1. pos' - 1 = pos /\ pos' > 0 /\ pos \in 0 .. pos
    BY <1>1, <1>2
  <2> QED
    BY <1>1, <1>3, <1>4, <1>5, <2>1 DEF Line
<1>7. Screen'
  <2>1. torn' = torn /\ (~torn => Shows(screen, pos, pos + 1))
    BY <1>1 DEF Screen
  <2>2. \A j \in 1 .. pos : j - 1 \in 0 .. pos
    BY <1>2
  <2>3. pos' - 1 = pos /\ pos' = pos + 1
    BY <1>1, <1>2
  <2>4. ~torn => Shows(screen, pos - 1, pos)'
    BY <1>1, <1>3, <2>1, <2>2, <2>3 DEF Shows
  <2> QED
    BY <1>1, <2>1, <2>4 DEF Screen
<1> QED
  BY <1>6, <1>7

LEMMA EchoTypes ==
  ASSUME Editing, Showing, Line, Screen, Echo
  PROVE  Line' /\ Screen'
<1>1. /\ readerpc = "echo" /\ readerpc' = "get" /\ UNCHANGED lineVars
      /\ screen' = Append(screen, ch) /\ torn' = torn
  BY DEF Echo, EchoChar, Reader
<1>2. Line'
  BY <1>1 DEF Line, Holds, lineVars
<1>3. Screen'
  <2> SUFFICES ASSUME ~torn PROVE Shows(screen, pos, pos + 1)'
    BY <1>1 DEF Screen
  <2>1. Shows(screen, pos - 1, pos) /\ pos \in Nat /\ pos > 0 /\ buf[pos - 1] = ch
    BY <1>1 DEF Screen, Line, Editing, Cells
  <2> DEFINE S == Chars \cup {"prompt"}
  <2>2. screen \in Seq(S) /\ ch \in S
    BY <1>1 DEF Showing, Editing
  <2>3. /\ Len(screen') = Len(screen) + 1
        /\ \A j \in 1 .. Len(screen) : screen'[j] = screen[j]
        /\ screen'[Len(screen) + 1] = ch
    <3> HIDE DEF S
    <3> QED
      BY <1>1, <2>2, AppendProperties
  <2>4. \A j \in 1 .. pos : j = pos \/ (j \in 1 .. pos - 1 /\ j + 1 \in 1 .. pos)
    BY <2>1
  <2> QED
    BY <1>1, <2>1, <2>3, <2>4 DEF Shows, lineVars
<1> QED
  BY <1>2, <1>3

LEMMA LoopTypes ==
  ASSUME Editing, Showing, Line, Screen, ReaderLoop
  PROVE  Line' /\ Screen'
  BY ResetTypes, PromptTypes, EraseTypes, TerminateTypes, EchoTypes DEF ReaderLoop

(* The user thread.                                                        *)
LEMMA UserTypes ==
  ASSUME Inside, Typing, UserKey \/ UserThread
  PROVE  Typing'
<1>1. CASE UserKey
  <2>1. \E at, next : Reader(at, next)
    BY <1>1 DEF UserKey, Key, GetChar, GetBackspace, GetLine, GetEnd, GetIgnored,
       GetNormal
  <2> QED
    BY <1>1, <2>1, KeyTypes, ReaderSpoils DEF Inside, Typing, UserKey
<1>2. CASE EditLine
  <2>1. \E at, next : Reader(at, next)
    BY <1>2 DEF EditLine, ReaderLoop, ResetLine, PrintPrompt, Erase, Terminate,
       Echo, LoopEnds
  <2>2. CASE ReaderLoop
    BY <2>1, <2>2, LoopTypes, ReaderSpoils DEF Inside, Typing
  <2>3. CASE LoopEnds("depart")
    <3>1. UNCHANGED <<lineVars, screen, torn>> /\ readerpc' = "depart"
      BY <2>3 DEF LoopEnds, Reader
    <3> QED
      BY <2>1, <3>1, LineStays, ScreenStays, ReaderSpoils
         DEF Inside, Typing, Outside, lineVars
  <2> QED
    BY <1>2, <2>2, <2>3 DEF EditLine
<1>3. CASE EndProcess("dead")
  BY <1>3, LineStays, ScreenStays, CopiedStays
     DEF Typing, EndProcess, lineVars, printVars
<1>4. ASSUME NEW at, NEW next \in {"loop", "cancel", "close", "done"},
             Reader(at, next), UNCHANGED <<lineVars, screen, torn>>
      PROVE  Typing'
  <2>1. readerpc' = next
    BY <1>4 DEF Reader
  <2> QED
    BY <1>4, <2>1, LineStays, ScreenStays, ReaderSpoils
       DEF Inside, Typing, Outside, lineVars
<1>5. CASE SendLine \/ SendDeparted
  BY <1>3, <1>4, <1>5 DEF SendLine, SendDeparted, Send
<1>6. CASE CancelServerThread
  BY <1>3, <1>4, <1>6 DEF CancelServerThread
<1>7. CASE CloseToServer \/ UserCancelled
  BY <1>4, <1>7 DEF CloseToServer, UserCancelled
<1> QED
  BY <1>1, <1>2, <1>5, <1>6, <1>7 DEF UserThread

-----------------------------------------------------------------------------
(* The printer, which leaves the line alone.                               *)
LEMMA PrinterTypes ==
  ASSUME Line, NEW at, NEW next, Printer(at, next)
  PROVE  Line'
  BY LineStays DEF Printer, lineVars

LEMMA BeginTypes ==
  ASSUME Typing, NEW at, BeginPrint(at)
  PROVE  Typing'
<1>1. /\ Printer(at, "copy") /\ UNCHANGED <<screen, torn, buf, pos, readerpc>>
      /\ printerpc' = "copy" /\ out' = Prompt
      /\ overlap' = (readerpc \in {"terminate", "echo", "erase"})
  BY DEF BeginPrint, Printer, lineVars
<1>2. Line' /\ Screen'
  BY <1>1, PrinterTypes, ScreenStays DEF Typing
<1>3. Copied'
  <2>1. Len(out') = 1 /\ out'[1] = "prompt" /\ printerpc' # "write"
        /\ (~overlap' => readerpc' \notin {"terminate", "echo", "erase"})
    BY <1>1 DEF Prompt
  <2> QED
    BY <2>1 DEF Copied, Shows
<1> QED
  BY <1>2, <1>3 DEF Typing

(* One more cell is copied, or the copy is complete.                       *)
LEMMA CopyTypes ==
  ASSUME Editing, Showing, Typing, CopyCell
  PROVE  Typing'
<1> DEFINE n == Len(out) - 1
<1>1. /\ printerpc = "copy" /\ n \in Cells /\ n \in Nat /\ Len(out) = n + 1
      /\ out \in Seq(Chars \cup {"prompt"})
      /\ UNCHANGED <<overlap, screen, torn, buf, pos, readerpc>>
  BY LenProperties DEF CopyCell, Showing, Printer, lineVars, Cells
<1>2. Line' /\ Screen'
  BY <1>1, PrinterTypes, ScreenStays DEF Typing, CopyCell
<1>3. Copied'
  <2> SUFFICES ASSUME ~overlap PROVE Copied'
    BY <1>1 DEF Copied
  <2>1. /\ readerpc \notin {"terminate", "echo", "erase"}
        /\ Shows(out, n, n + 1)
        /\ \A j \in 0 .. n - 1 : j \in Cells /\ buf[j] # NUL
    <3>1. Len(out) - 2 = n - 1
      BY <1>1
    <3> QED
      BY <1>1, <3>1 DEF Typing, Copied, Printing
  <2>2. CASE buf[n] = NUL
    <3>1. printerpc' = "write" /\ out' = out
      BY <2>2 DEF CopyCell, Printer
    <3>2. Len(out) > 0 /\ Len(out) - 1 = n /\ Len(out) - 2 = n - 1
      BY <1>1
    <3> HIDE DEF n
    <3> QED
      BY <1>1, <2>1, <2>2, <3>1, <3>2 DEF Copied, Shows
  <2>3. CASE buf[n] # NUL
    <3>1. printerpc' = "copy" /\ out' = Append(out, buf[n]) /\ buf[n] \in Chars \cup {"prompt"}
      BY <1>1, <2>3 DEF CopyCell, Printer, Editing
    <3>2. /\ Len(out') = Len(out) + 1
          /\ \A j \in 1 .. Len(out) : out'[j] = out[j]
          /\ out'[Len(out) + 1] = buf[n]
      <4> HIDE DEF n
      <4> QED
        BY <1>1, <3>1, AppendProperties
    <3>3. Len(out') = n + 2 /\ Len(out') - 1 = n + 1 /\ Len(out') - 2 = n
      BY <1>1, <3>2
    <3> HIDE DEF n
    <3>4. \A j \in 0 .. n : j = n \/ j \in 0 .. n - 1
      BY <1>1
    <3>5. \A j \in 1 .. n + 1 : (j = n + 1 /\ j - 1 = n /\ j + 1 = Len(out) + 1)
                                \/ (j \in 1 .. n /\ j + 1 \in 1 .. Len(out))
      BY <1>1
    <3>6. 1 \in 1 .. Len(out)
      BY <1>1
    <3>7. /\ Len(out') = n + 2 /\ out'[1] = "prompt"
          /\ \A j \in 1 .. n + 1 : out'[j + 1] = buf'[j - 1]
      BY <1>1, <2>1, <3>2, <3>3, <3>5, <3>6 DEF Shows
    <3>8. \A j \in 0 .. n : j \in Cells /\ buf'[j] # NUL
      BY <1>1, <2>1, <2>3, <3>4
    <3> QED
      BY <1>1, <2>1, <3>1, <3>3, <3>7, <3>8 DEF Copied, Shows
  <2> QED
    BY <2>2, <2>3
<1> QED
  BY <1>2, <1>3 DEF Typing

(* What is printed while the reader is at its get is the whole line.       *)
LEMMA WriteTypes ==
  ASSUME Editing, Typing, NEW next, next \notin {"copy", "write"}, WriteOut(next)
  PROVE  Typing'
<1> DEFINE n == Len(out) - 1
<1>1. /\ Printer("write", next) /\ printerpc = "write" /\ printerpc' = next
      /\ screen' = out /\ torn' = overlap /\ UNCHANGED <<buf, pos, readerpc>>
  BY DEF WriteOut, Printer, lineVars
<1>2. Line'
  BY <1>1, PrinterTypes DEF Typing
<1>3. Copied'
  BY <1>1 DEF Copied, Printing
<1>4. Screen'
  <2> SUFFICES ASSUME ~overlap, readerpc = "get"
               PROVE  Shows(out, pos, pos + 1)
    <3>1. ~overlap => readerpc \notin {"terminate", "echo", "erase"}
      BY <1>1 DEF Typing, Copied, Printing
    <3> QED
      BY <1>1, <3>1 DEF Screen, Shows
  <2>1. /\ Len(out) > 0 /\ Shows(out, n, Len(out)) /\ n \in Cells /\ buf[n] = NUL
        /\ \A j \in 0 .. Len(out) - 2 : buf[j] # NUL
    BY <1>1 DEF Typing, Copied, Printing
  <2>2. /\ pos \in Nat /\ buf[pos] = NUL /\ \A j \in 0 .. pos - 1 : buf[j] \in Chars
    BY DEF Typing, Line, Holds, Editing, Cells
  <2>3. n \in Nat /\ Len(out) = n + 1 /\ Len(out) - 2 = n - 1
    <3>1. n \in Nat
      BY <2>1 DEF Cells
    <3> QED
      BY <3>1
  <2>4. n \notin 0 .. pos - 1 /\ pos \notin 0 .. n - 1
    BY <2>1, <2>2, <2>3, CharsAssumption
  <2>5. n = pos
    <3> HIDE DEF n
    <3> QED
      BY <2>2, <2>3, <2>4
  <2> HIDE DEF n
  <2> QED
    BY <2>1, <2>3, <2>5
<1> QED
  BY <1>2, <1>3, <1>4 DEF Typing

LEMMA ServerTypes ==
  ASSUME Inside, Typing, ServerThread
  PROVE  Typing'
<1>1. CASE ReadMessage
  BY <1>1, BeginTypes DEF ReadMessage
<1>2. CASE PrintMessage
  <2>1. AfterPrint \notin {"copy", "write"}
    BY DEF AfterPrint
  <2> QED
    BY <1>2, <2>1, CopyTypes, WriteTypes DEF Inside, PrintMessage
<1>3. CASE PrintNewline
  BY <1>3, PrinterTypes DEF Typing, Screen, Copied, Printing, PrintNewline, Printer
<1>4. CASE CancelUserThread \/ CloseToClient \/ ServerCancelled
  <2>1. \E at : \E next \in {"close", "done"} :
          Printer(at, next) /\ UNCHANGED <<printVars, screen, overlap>>
    BY <1>4 DEF CancelUserThread, CloseToClient, ServerCancelled
  <2>2. /\ printerpc' \in {"close", "done"}
        /\ UNCHANGED <<buf, pos, screen, torn, readerpc>>
    BY <2>1 DEF Printer, printVars, lineVars
  <2>3. Line' /\ Screen'
    BY <2>1, <2>2, PrinterTypes, ScreenStays DEF Typing
  <2> QED
    BY <2>2, <2>3 DEF Typing, Copied, Printing
<1> QED
  BY <1>1, <1>2, <1>3, <1>4 DEF ServerThread

LEMMA TypingStays ==
  ASSUME Typing, UNCHANGED <<lineVars, printVars, screen, overlap, printerpc>>,
         readerpc' = readerpc \/ readerpc' \in Outside \ {"line"}
  PROVE  Typing'
  BY LineStays, ScreenStays, CopiedStays DEF Typing, lineVars, printVars, Outside

LEMMA TypingKept ==
  ASSUME Inside, Typing, [Next]_vars
  PROVE  Typing'
<1>1. CASE UNCHANGED vars \/ ServerSide
  BY <1>1, TypingStays DEF ServerSide, vars, simpioVars
<1>2. CASE Main
  <2>1. CASE CreatePrinter("read")
    BY <2>1, LineStays, ScreenStays
       DEF Typing, CreatePrinter, Copied, Printing, lineVars, printVars
  <2>2. CASE NoncanonicalMode \/ CreateReader \/ Joined \/ ResetMode
    BY <2>2, TypingStays
       DEF NoncanonicalMode, CreateReader, Joined, ResetMode, Outside
  <2> QED
    BY <1>2, <2>1, <2>2 DEF Main
<1> QED
  BY <1>1, <1>2, UserTypes, ServerTypes DEF Next

(* Where the reader is in its line and what it has the screen show.        *)
LEMMA TypingHolds == Spec => [](Inside /\ Typing)
<1>1. Init => Inside /\ Typing
  BY InsideStarts, TypingStarts
<1>2. Inside /\ Typing /\ [Next]_vars => (Inside /\ Typing)'
  BY InsideKept, TypingKept
<1> QED
  BY <1>1, <1>2, PTL DEF Spec

(* The line that is complete or edited is what the keys make of an empty   *)
(* one (simpio_get_char against simpio_reset), for any buffer and any      *)
(* keys, wherever the printer comes in.                                    *)
THEOREM LinesAreEdited == Spec => []LineIsEdited
<1>1. Inside /\ Typing => LineIsEdited
  BY EditedHolds DEF Inside, Typing
<1> QED
  BY <1>1, TypingHolds, PTL

(* Prompt and line are on the screen whenever no overlap of reader and     *)
(* printer has torn it since the last iprintf (iprintf against the echo of *)
(* simpio_get_char).                                                       *)
THEOREM ScreenIsRepaired == Spec => []ScreenRepaired
<1>1. Inside /\ Typing => ScreenRepaired
  BY ScreenHolds DEF Inside, Typing
<1> QED
  BY <1>1, TypingHolds, PTL
-----------------------------------------------------------------------------
(* Where the threads are, together: main creates them one after the other  *)
(* and joins both, only SHUTDOWN leads the printer out of its loop, and    *)
(* what lies in the FIFO to the server was sent.                           *)
Created ==
  /\ mainpc \notin Gone =>
       /\ readerpc = "none" <=> mainpc \in {"setMode", "createReader"}
       /\ printerpc = "none" <=> mainpc \in {"setMode", "createReader", "createPrinter"}
  /\ mainpc = "resetMode" => readerpc = "done" /\ printerpc = "done"
  /\ printerpc \in {"newline", "cancel"} => handled = "SHUTDOWN"
  /\ unread <= Len(sent)

LEMMA CreatedStarts == Init => Created
<1>1. Len(<<>>) = 0
  OBVIOUS
<1> QED
  BY <1>1 DEF Init, SimpioInit, Created, Gone

LEMMA CreatedKept ==
  ASSUME Inside, Created, [Next]_vars
  PROVE  Created'
<1>1. CASE Main
  BY <1>1 DEF Created, Main, GoMain, NoncanonicalMode, CreateReader, CreatePrinter,
              Joined, ResetMode, netVars, clientVars, Gone
<1>2. CASE UserKey
  BY <1>2 DEF Created, UserKey, Key, GetBackspace, GetChar, GetLine, GetEnd, GetIgnored,
              GetNormal, Reader, netVars, clientVars, Gone
<1>3. CASE EditLine
  BY <1>3 DEF Created, EditLine, ReaderLoop, ResetLine, PrintPrompt, Erase, Terminate,
              Echo, LoopEnds, Reader, netVars, clientVars, Gone
<1>4. CASE SendLine \/ SendDeparted
  <2>1. PICK m \in {"MESG", "DEPARTED"}, at \in {"line", "depart"},
              next \in {"loop", "cancel"} : Send(at, m, next)
    BY <1>4 DEF SendLine, SendDeparted
  <2>2. CASE serverUp
    <3>1. sent \in Seq({"MESG", "DEPARTED"}) /\ unread \in Nat
      BY DEF Inside, Fifos
    <3>2. Len(Append(sent, m)) = Len(sent) + 1 /\ Len(sent) \in Nat
      BY <3>1, AppendProperties, LenProperties
    <3>3. /\ unread' = unread + 1 /\ sent' = Append(sent, m) /\ handled' = handled
          /\ Reader(at, next)
      BY <2>1, <2>2 DEF Send
    <3>4. (unread <= Len(sent))'
      BY <3>1, <3>2, <3>3 DEF Created
    <3> QED
      BY <3>3, <3>4 DEF Created, Reader, Gone
  <2>3. CASE ~serverUp
    BY <2>1, <2>3 DEF Send, Created, EndProcess, clientVars, Gone
  <2> QED
    BY <2>2, <2>3
<1>5. CASE CancelServerThread \/ CloseToServer \/ UserCancelled
  BY <1>5 DEF Created, CancelServerThread, CloseToServer, UserCancelled, EndProcess,
              Reader, netVars, clientVars, Gone
<1>6. CASE ReadMessage
  BY <1>6 DEF Created, ReadMessage, BeginPrint, Printer, Gone
<1>7. CASE PrintMessage
  BY <1>7 DEF Created, PrintMessage, CopyCell, WriteOut, AfterPrint, Printer, netVars,
              clientVars, Gone
<1>8. CASE PrintNewline \/ CancelUserThread \/ CloseToClient \/ ServerCancelled
  BY <1>8 DEF Created, PrintNewline, CancelUserThread, CloseToClient, ServerCancelled,
              CancelsUser, Printer, netVars, clientVars, Gone
<1>9. CASE ServerSide
  <2>1. unread' <= unread
    BY <1>9 DEF ServerSide, ServerReads, ServerWrites, ServerEnds, Inside, Fifos
  <2>2. sent \in Seq({"MESG", "DEPARTED"}) /\ unread \in Nat /\ unread' \in Nat
    BY <1>9 DEF ServerSide, ServerReads, ServerWrites, ServerEnds, Inside, Fifos
  <2>3. Len(sent) \in Nat
    BY <2>2, LenProperties
  <2> QED
    BY <1>9, <2>1, <2>2, <2>3 DEF Created, ServerSide, simpioVars, clientVars, Gone
<1>10. CASE UNCHANGED vars
  BY <1>10 DEF Created, vars, simpioVars, netVars, clientVars, Gone
<1> QED
  BY <1>1, <1>2, <1>3, <1>4, <1>5, <1>6, <1>7, <1>8, <1>9, <1>10
  DEF Next, UserThread, ServerThread

-----------------------------------------------------------------------------
(* Step by step, what the client does key by key it does line by line.     *)
Stutters == UNCHANGED <<LineByLine!clientVars, LineByLine!fifoVars>>

LEMMA ArrivedNone == Arrived(<<>>) = <<>>
<1> PICK f : f = Arrived(<<>>)
  OBVIOUS
<1>1. f \in [{} -> Nat] /\ <<>> \in [{} -> Nat]
  BY DEF Arrived
<1>2. f = <<>>
  BY <1>1
<1> QED
  BY <1>2

LEMMA EndSteps ==
  ASSUME NEW how \in Gone, mainpc' = how, tsOpen' = FALSE, tcOpen' = FALSE,
         toClient' = <<>>, UNCHANGED <<readerpc, printerpc, serverUp, unread, clientVars>>
  PROVE  LineByLine!EndProcess(Me, how)
<1> USE DEF One, MeIf, LineByLine!Gone, Gone, clientVars, cancelVars
<1>1. LineByLine!CloseAllOfClient(Me)
  <2>1. Arrived(toClient') = <<>>
    BY ArrivedNone
  <2> QED
    BY <2>1 DEF LineByLine!CloseAllOfClient, Arrived, Mesgs
<1>2. LineByLine!SameThreads /\ LineByLine!SameClientHistory
  BY DEF LineByLine!SameThreads, LineByLine!SameClientHistory, Mesgs, Arrived
<1> QED
  BY <1>1, <1>2 DEF LineByLine!EndProcess

LEMMA MainSteps ==
  ASSUME Created, Main
  PROVE  LineByLine!MainStep(Me) \/ Stutters
<1> USE DEF One, MeIf, Mesgs, Arrived, GoMain, Gone, LineByLine!Gone, netVars, clientVars,
            cancelVars, LineByLine!AtMain, LineByLine!GoMain, LineByLine!fifoVars,
            LineByLine!SameClientHistory, LineByLine!SameThreads
<1>1. CASE (NoncanonicalMode \/ Joined) /\ UNCHANGED <<netVars, clientVars>>
  <2>1. Stutters
    BY <1>1 DEF NoncanonicalMode, Joined, Stutters, LineByLine!clientVars
  <2> QED
    BY <2>1
<1>2. CASE CreateReader /\ UNCHANGED <<netVars, clientVars>>
  <2>1. LineByLine!CreateUser(Me)
    BY <1>2 DEF CreateReader, LineByLine!CreateUser, LineByLine!GoUser
  <2> QED
    BY <2>1 DEF LineByLine!MainStep
<1>3. CASE CreatePrinter("read") /\ UNCHANGED <<netVars, clientVars>>
  <2>1. LineByLine!CreateServer(Me)
    BY <1>3 DEF CreatePrinter, LineByLine!CreateServer, LineByLine!GoServer
  <2> QED
    BY <2>1 DEF LineByLine!MainStep
<1>4. CASE /\ ResetMode /\ tsOpen' = FALSE /\ tcOpen' = FALSE /\ toClient' = <<>>
           /\ UNCHANGED <<serverUp, unread, clientVars>>
  <2>1. LineByLine!MainReturn(Me)
    <3>1. LineByLine!EndProcess(Me, "exited")
      BY <1>4, EndSteps DEF ResetMode
    <3> QED
      BY <1>4, <3>1 DEF ResetMode, Created, LineByLine!MainReturn
  <2> QED
    BY <2>1 DEF LineByLine!MainStep
<1> QED
  BY <1>1, <1>2, <1>3, <1>4, Zenon DEF Main

LEMMA KeySteps ==
  ASSUME Inside, UserKey
  PROVE  LineByLine!UserInput(Me) \/ Stutters
<1> USE DEF One, MeIf, Mesgs, Arrived, Gone, LineByLine!Gone, netVars, clientVars,
            cancelVars, LineByLine!fifoVars, LineByLine!SameClientHistory
<1>1. CASE readerpc' = "line"
  <2>1. readerpc = "get" /\ Len(sent) < MaxLines /\ sent \in Seq({"MESG", "DEPARTED"})
    BY <1>1 DEF UserKey, Key, GetBackspace, GetChar, GetLine, GetEnd, GetIgnored,
                GetNormal, Reader, Inside, Fifos
  <2>2. Len(Mesgs(sent)) = Len(sent)
    BY <2>1
  <2>3. LineByLine!TypeLine(Me)
    BY <1>1, <2>1, <2>2
    DEF UserKey, Key, GetBackspace, GetChar, GetLine, GetEnd, GetIgnored, GetNormal,
        Reader, LineByLine!TypeLine, LineByLine!AtUser, LineByLine!GoUser
  <2> QED
    BY <2>3 DEF LineByLine!UserInput
<1>2. CASE readerpc' # "line"
  <2>1. Stutters
    BY <1>2 DEF UserKey, Key, GetBackspace, GetChar, GetLine, GetEnd, GetIgnored,
        GetNormal, Reader, Stutters, LineByLine!clientVars
  <2> QED
    BY <2>1
<1> QED
  BY <1>1, <1>2

LEMMA EditSteps ==
  ASSUME EditLine
  PROVE  LineByLine!UserInput(Me) \/ Stutters
<1> USE DEF One, MeIf, Mesgs, Arrived, Gone, LineByLine!Gone, netVars, clientVars,
            cancelVars, LineByLine!fifoVars, LineByLine!SameClientHistory
<1>1. CASE ReaderLoop
  <2>1. Stutters
    BY <1>1 DEF EditLine, ReaderLoop, ResetLine, PrintPrompt, Erase, Terminate, Echo,
                LoopEnds, Reader, Stutters, LineByLine!clientVars
  <2> QED
    BY <2>1
<1>2. CASE LoopEnds("depart")
  <2>1. LineByLine!EndInput(Me)
    BY <1>2 DEF EditLine, ReaderLoop, ResetLine, PrintPrompt, Erase, Terminate, Echo,
                LoopEnds, Reader, LineByLine!EndInput, LineByLine!AtUser,
                LineByLine!GoUser
  <2> QED
    BY <2>1 DEF LineByLine!UserInput
<1> QED
  BY <1>1, <1>2 DEF EditLine

(* The last n of a sequence, and what they are when one more comes.        *)
LastOf(q, n, a) == Len(a) = n /\ \A j \in 1 .. n : a[j] = q[Len(q) - n + j]
MoreOf(q, m, r) ==
  /\ Len(r) = Len(q) + 1 /\ r[Len(q) + 1] = m
  /\ \A j \in 1 .. Len(q) : r[j] = q[j]

LEMMA LastIs ==
  ASSUME NEW S, NEW q \in Seq(S), NEW n \in 0 .. Len(q)
  PROVE  /\ SubSeq(q, Len(q) - n + 1, Len(q)) \in Seq(S)
         /\ LastOf(q, n, SubSeq(q, Len(q) - n + 1, Len(q)))
<1> PICK N, k : N = Len(q) /\ k = N - n + 1
  OBVIOUS
<1>0. N \in Nat /\ n \in Nat /\ n <= N /\ k \in 1 .. N + 1
  BY LenProperties
<1>1. \A j \in k .. N : q[j] \in S
  BY <1>0, ElementOfSeq
<1>2. /\ SubSeq(q, k, N) \in Seq(S)
      /\ Len(SubSeq(q, k, N)) = IF k <= N THEN N - k + 1 ELSE 0
      /\ \A j \in 1 .. N - k + 1 : SubSeq(q, k, N)[j] = q[k + j - 1]
  <2>1. k \in Int /\ N \in Int
    BY <1>0
  <2> QED
    BY <1>1, <2>1, SubSeqProperties
<1> PICK a : a = SubSeq(q, k, N)
  OBVIOUS
<1>3. /\ a \in Seq(S) /\ Len(a) = IF k <= N THEN N - k + 1 ELSE 0
      /\ \A j \in 1 .. N - k + 1 : a[j] = q[k + j - 1]
  BY <1>2
<1>4. N - k + 1 = n
  BY <1>0
<1>5. Len(a) = n
  BY <1>0, <1>3
<1>6. ASSUME NEW j \in 1 .. n PROVE a[j] = q[N - n + j]
  <2>1. k + j - 1 = N - n + j
    BY <1>0
  <2> QED
    BY <1>3, <1>4, <2>1
<1>7. LastOf(q, n, a)
  BY <1>5, <1>6 DEF LastOf
<1> QED
  BY <1>3, <1>7

LEMMA MoreIs ==
  ASSUME NEW S, NEW q \in Seq(S), NEW m \in S
  PROVE  Append(q, m) \in Seq(S) /\ MoreOf(q, m, Append(q, m))
<1> PICK r : r = Append(q, m)
  OBVIOUS
<1>1. r \in Seq(S) /\ Len(r) = Len(q) + 1 /\ r[Len(q) + 1] = m
      /\ \A j \in 1 .. Len(q) : r[j] = q[j]
  BY AppendProperties
<1> QED
  BY <1>1 DEF MoreOf

LEMMA LastOfMore ==
  ASSUME NEW S, NEW q \in Seq(S), NEW m \in S, NEW n \in 0 .. Len(q),
         NEW r, MoreOf(q, m, r), NEW a \in Seq(S), LastOf(q, n, a),
         NEW b \in Seq(S), LastOf(r, n + 1, b), NEW c \in Seq(S), MoreOf(a, m, c)
  PROVE  b = c
<1> PICK N : N = Len(q)
  OBVIOUS
<1>0. N \in Nat /\ n \in Nat /\ n <= N
  BY LenProperties
<1>1. Len(b) = n + 1 /\ Len(c) = n + 1 /\ Len(r) = N + 1
  BY DEF LastOf, MoreOf
<1>2. ASSUME NEW j \in 1 .. n + 1 PROVE b[j] = c[j]
  <2>0. b[j] = r[N - n + j]
    <3>1. b[j] = r[Len(r) - (n + 1) + j]
      BY DEF LastOf
    <3>2. Len(r) - (n + 1) + j = N - n + j
      BY <1>0, <1>1
    <3> QED
      BY <3>1, <3>2
  <2>1. CASE j = n + 1
    <3>1. b[j] = r[N + 1]
      BY <1>0, <2>0, <2>1
    <3>2. r[N + 1] = m /\ c[n + 1] = m
      BY DEF MoreOf, LastOf
    <3> QED
      BY <2>1, <3>1, <3>2
  <2>2. CASE j # n + 1
    <3>1. j \in 1 .. n /\ N - n + j \in 1 .. N
      BY <1>0, <2>2
    <3>2. c[j] = a[j] /\ a[j] = q[N - n + j]
      BY <3>1 DEF MoreOf, LastOf
    <3>3. r[N - n + j] = q[N - n + j]
      BY <3>1 DEF MoreOf
    <3> QED
      BY <2>0, <3>2, <3>3
  <2> QED
    BY <2>1, <2>2
<1> QED
  BY <1>1, <1>2, SeqEqual

LastGrows(q, m, n) ==
  /\ Len(SubSeq(q, Len(q) - n + 1, Len(q))) = n
  /\ SubSeq(Append(q, m), Len(q) - n + 1, Len(q) + 1) =
       Append(SubSeq(q, Len(q) - n + 1, Len(q)), m)

LEMMA LastMore ==
  ASSUME NEW S, NEW q \in Seq(S), NEW m \in S, NEW n \in 0 .. Len(q)
  PROVE  LastGrows(q, m, n)
<1>1. Append(q, m) \in Seq(S) /\ MoreOf(q, m, Append(q, m))
  BY MoreIs
<1>2. /\ SubSeq(q, Len(q) - n + 1, Len(q)) \in Seq(S)
      /\ LastOf(q, n, SubSeq(q, Len(q) - n + 1, Len(q)))
  BY LastIs, Zenon
<1>3. ASSUME NEW a \in Seq(S), LastOf(q, n, a), NEW r \in Seq(S), MoreOf(q, m, r)
      PROVE  Len(a) = n /\ SubSeq(r, Len(q) - n + 1, Len(q) + 1) = Append(a, m)
  <2>1. Len(a) = n /\ Len(r) = Len(q) + 1
    BY <1>3 DEF LastOf, MoreOf
  <2>2. Append(a, m) \in Seq(S) /\ MoreOf(a, m, Append(a, m))
    BY MoreIs
  <2>3. n + 1 \in 0 .. Len(r) /\ Len(r) - (n + 1) + 1 = Len(q) - n + 1
    BY <2>1, LenProperties
  <2>4. /\ SubSeq(r, Len(r) - (n + 1) + 1, Len(r)) \in Seq(S)
        /\ LastOf(r, n + 1, SubSeq(r, Len(r) - (n + 1) + 1, Len(r)))
    BY <2>3, LastIs, Zenon
  <2>5. SubSeq(r, Len(r) - (n + 1) + 1, Len(r)) = Append(a, m)
    <3>1. ASSUME NEW b \in Seq(S), LastOf(r, n + 1, b), NEW c \in Seq(S), MoreOf(a, m, c)
          PROVE  b = c
      BY <1>3, <3>1, LastOfMore
    <3> QED
      BY <2>2, <2>4, <3>1, Zenon
  <2> QED
    BY <2>1, <2>3, <2>5, Zenon
<1>4. LastGrows(q, m, n)
  BY <1>1, <1>2, <1>3, Zenon DEF LastGrows
<1> QED
  BY <1>4

(* One more message sent is one more line.                                 *)
MesgOf(m, n) == [kind |-> m, name |-> Me, body |-> IF m = "MESG" THEN n ELSE 0]
ToServer == SubSeq(Mesgs(sent), Len(sent) - unread + 1, Len(sent))

LEMMA MesgsMore ==
  ASSUME Inside, Created, NEW m \in {"MESG", "DEPARTED"}
  PROVE  /\ Len(Mesgs(sent)) = Len(sent) /\ Len(ToServer) = unread
         /\ Mesgs(Append(sent, m)) = Append(Mesgs(sent), MesgOf(m, Len(sent) + 1))
         /\ SubSeq(Mesgs(Append(sent, m)), Len(sent) - unread + 1, Len(sent) + 1) =
              Append(ToServer, MesgOf(m, Len(sent) + 1))
<1> DEFINE S == [kind : {"MESG", "DEPARTED"}, name : {Me}, body : Nat]
<1> PICK N, M : N = Len(sent) /\ M = MesgOf(m, Len(sent) + 1)
  OBVIOUS
<1>1. /\ sent \in Seq({"MESG", "DEPARTED"}) /\ N \in Nat /\ unread \in 0 .. N
      /\ DOMAIN sent = 1 .. N
  BY LenProperties DEF Inside, Fifos, Created
<1>2. M \in S
  BY <1>1 DEF MesgOf
<1> PICK q : q = Mesgs(sent)
  OBVIOUS
<1>3. q \in Seq(S) /\ Len(q) = N /\ \A n \in 1 .. N : q[n] = MesgOf(sent[n], n)
  <2>1. \A n \in 1 .. N : MesgOf(sent[n], n) \in S
    BY <1>1, ElementOfSeq DEF MesgOf
  <2>2. q = [n \in 1 .. N |-> MesgOf(sent[n], n)]
    BY <1>1 DEF Mesgs, MesgOf
  <2> HIDE DEF S
  <2> QED
    BY <1>1, <2>1, <2>2
<1> PICK t : t = Append(sent, m)
  OBVIOUS
<1>4. /\ t \in Seq({"MESG", "DEPARTED"}) /\ Len(t) = N + 1 /\ t[N + 1] = m
      /\ DOMAIN t = 1 .. N + 1 /\ \A n \in 1 .. N : t[n] = sent[n]
  BY <1>1, AppendProperties, LenProperties
<1> PICK p : p = Mesgs(t)
  OBVIOUS
<1>5. p \in Seq(S) /\ Len(p) = N + 1 /\ \A n \in 1 .. N + 1 : p[n] = MesgOf(t[n], n)
  <2>1. \A n \in 1 .. N + 1 : MesgOf(t[n], n) \in S
    BY <1>1, <1>4, ElementOfSeq DEF MesgOf
  <2>2. p = [n \in 1 .. N + 1 |-> MesgOf(t[n], n)]
    BY <1>4 DEF Mesgs, MesgOf
  <2> HIDE DEF S
  <2> QED
    BY <1>1, <2>1, <2>2
<1> PICK a : a = Append(q, M)
  OBVIOUS
<1> HIDE DEF S
<1>6. a \in Seq(S) /\ Len(a) = N + 1 /\ a[N + 1] = M /\ \A n \in 1 .. N : a[n] = q[n]
  BY <1>2, <1>3, AppendProperties
<1>7. p = a
  <2>1. ASSUME NEW n \in 1 .. N + 1 PROVE p[n] = a[n]
    <3>1. CASE n = N + 1
      BY <1>4, <1>5, <1>6, <3>1
    <3>2. CASE n \in 1 .. N
      <4>1. t[n] = sent[n] /\ q[n] = MesgOf(sent[n], n) /\ a[n] = q[n]
        BY <1>3, <1>4, <1>6, <3>2
      <4>2. p[n] = MesgOf(t[n], n)
        BY <1>5
      <4> QED
        BY <4>1, <4>2
    <3>3. n = N + 1 \/ n \in 1 .. N
      BY <1>1
    <3> QED
      BY <3>1, <3>2, <3>3, Zenon
  <2>2. Len(p) = Len(a) /\ \A n \in 1 .. Len(p) : p[n] = a[n]
    BY <1>5, <1>6, <2>1
  <2>3. p \in Seq(S) /\ a \in Seq(S)
    BY <1>5, <1>6
  <2> QED
    BY <2>2, <2>3, SeqEqual, Zenon
<1>8. Len(ToServer) = unread /\ SubSeq(a, N - unread + 1, N + 1) = Append(ToServer, M)
  <2>1. unread \in 0 .. Len(q) /\ q \in Seq(S)
    BY <1>1, <1>3
  <2>2. LastGrows(q, M, unread)
    BY <1>2, <2>1, LastMore, Zenon
  <2>3. ToServer = SubSeq(q, N - unread + 1, N)
    BY DEF ToServer
  <2> QED
    BY <1>3, <2>2, <2>3 DEF LastGrows
<1> QED
  BY <1>3, <1>7, <1>8

LEMMA SendSteps ==
  ASSUME Inside, Created, NEW m, NEW at, NEW next, Send(at, m, next),
         \/ m = "MESG" /\ at = "line" /\ next = "loop"
         \/ m = "DEPARTED" /\ at = "depart" /\ next = "cancel"
  PROVE  LineByLine!Send(Me, IF m = "MESG" THEN "write" ELSE "depart",
                         MesgOf(m, Len(sent) + 1),
                         IF m = "MESG" THEN "read" ELSE "cancel")
<1>1. CASE serverUp
  <2>1. /\ unread < PipeCap /\ unread' = unread + 1 /\ sent' = Append(sent, m)
        /\ Reader(at, next) /\ ~readerCancel
        /\ UNCHANGED <<serverUp, toClient, tsOpen, tcOpen, cancelVars, handled, nSeen>>
    BY <1>1 DEF Send
  <2>2. /\ Len(Mesgs(sent)) = Len(sent) /\ Len(ToServer) = unread
        /\ Mesgs(Append(sent, m)) = Append(Mesgs(sent), MesgOf(m, Len(sent) + 1))
        /\ SubSeq(Mesgs(Append(sent, m)), Len(sent) - unread + 1, Len(sent) + 1) =
              Append(ToServer, MesgOf(m, Len(sent) + 1))
    <3>1. m \in {"MESG", "DEPARTED"}
      OBVIOUS
    <3> QED
      BY <3>1, MesgsMore, Zenon
  <2>3. Len(sent') = Len(sent) + 1 /\ Len(sent') - unread' + 1 = Len(sent) - unread + 1
    <3>1. /\ sent \in Seq({"MESG", "DEPARTED"}) /\ Len(sent) \in Nat /\ unread \in Nat
          /\ m \in {"MESG", "DEPARTED"}
      BY LenProperties DEF Inside, Fifos
    <3>2. Len(sent') = Len(sent) + 1
      BY <2>1, <3>1, AppendProperties
    <3> QED
      BY <2>1, <3>1, <3>2
  <2>4. /\ Mesgs(sent') = Append(Mesgs(sent), MesgOf(m, Len(sent) + 1))
        /\ SubSeq(Mesgs(sent'), Len(sent') - unread' + 1, Len(sent')) =
             Append(SubSeq(Mesgs(sent), Len(sent) - unread + 1, Len(sent)),
                    MesgOf(m, Len(sent) + 1))
        /\ Len(SubSeq(Mesgs(sent), Len(sent) - unread + 1, Len(sent))) = unread
    BY <2>1, <2>2, <2>3, Zenon DEF ToServer
  <2> QED
    BY <1>1, <2>1, <2>4
    DEF One, MeIf, Gone, LineByLine!Gone, cancelVars, Reader, LineByLine!Send,
        LineByLine!AtUser, LineByLine!GoUser, LineByLine!RoomFrom
<1>2. CASE ~serverUp
  <2>1. LineByLine!EndProcess(Me, "dead")
    BY <1>2, EndSteps DEF Send, EndProcess, Gone
  <2> QED
    BY <1>2, <2>1
    DEF Send, EndProcess, One, MeIf, Gone, LineByLine!Gone, LineByLine!Send,
        LineByLine!AtUser, LineByLine!GoUser
<1> QED
  BY <1>1, <1>2

LEMMA UserSteps ==
  ASSUME Inside, Created, UserThread
  PROVE  LineByLine!UserInput(Me) \/ LineByLine!UserThread(Me) \/ Stutters
<1> USE DEF One, MeIf, Mesgs, Arrived, Gone, LineByLine!Gone, netVars, clientVars,
            cancelVars, LineByLine!fifoVars, LineByLine!SameClientHistory
<1>1. CASE EditLine
  BY <1>1, EditSteps
<1>2. CASE SendLine
  <2> HIDE DEF Mesgs, Arrived, One, MeIf
  <2>1. LineByLine!Send(Me, "write", MesgOf("MESG", Len(sent) + 1), "read")
    BY <1>2, SendSteps DEF SendLine
  <2>2. Len(One(Mesgs(sent))[Me]) = Len(sent)
    BY MesgsMore DEF One
  <2>3. LineByLine!Line(Me, Len(sent) + 1) = MesgOf("MESG", Len(sent) + 1)
    BY DEF LineByLine!Line, MesgOf
  <2>4. LineByLine!SendLine(Me)
    BY <2>1, <2>2, <2>3, Zenon DEF LineByLine!SendLine
  <2> QED
    BY <2>4 DEF LineByLine!UserThread
<1>3. CASE SendDeparted
  <2> HIDE DEF Mesgs, Arrived, One, MeIf
  <2>1. LineByLine!Send(Me, "depart", MesgOf("DEPARTED", Len(sent) + 1), "cancel")
    BY <1>3, SendSteps DEF SendDeparted
  <2>2. LineByLine!SendDeparted(Me)
    BY <2>1 DEF LineByLine!SendDeparted, LineByLine!Departed, MesgOf
  <2> QED
    BY <2>2 DEF LineByLine!UserThread
<1>4. CASE CancelServerThread
  <2>1. LineByLine!CancelServer(Me)
    <3>1. CASE printerpc = "none"
      <4>1. LineByLine!EndProcess(Me, "dead")
        BY <1>4, <3>1, EndSteps DEF CancelServerThread, EndProcess
      <4>2. mainpc = "createPrinter"
        BY <1>4, <3>1 DEF CancelServerThread, Created
      <4> QED
        BY <1>4, <3>1, <4>1, <4>2
        DEF CancelServerThread, EndProcess, LineByLine!CancelServer, LineByLine!AtUser,
            LineByLine!AtMain
    <3>2. CASE printerpc # "none"
      <4>1. mainpc \notin {"setMode", "createReader", "createPrinter"}
        BY <1>4, <3>2 DEF CancelServerThread, Created
      <4> QED
        BY <1>4, <3>2, <4>1
        DEF CancelServerThread, Reader, Inside, Threads, LineByLine!CancelServer,
            LineByLine!AtUser, LineByLine!AtMain, LineByLine!GoUser,
            LineByLine!CancelServerThread
    <3> QED
      BY <3>1, <3>2
  <2> QED
    BY <2>1 DEF LineByLine!UserThread
<1>5. CASE CloseToServer
  <2>1. LineByLine!CloseToServer(Me)
    BY <1>5
    DEF CloseToServer, Reader, LineByLine!CloseToServer, LineByLine!AtUser,
        LineByLine!GoUser
  <2> QED
    BY <2>1 DEF LineByLine!UserThread
<1>6. CASE UserCancelled
  <2>1. LineByLine!UserCancelled(Me)
    BY <1>6
    DEF UserCancelled, Reader, LineByLine!UserCancelled, LineByLine!AtUser,
        LineByLine!GoUser
  <2> QED
    BY <2>1 DEF LineByLine!UserThread
<1> QED
  BY <1>1, <1>2, <1>3, <1>4, <1>5, <1>6, Zenon DEF UserThread

(* One message read is one less in the FIFO, and one more seen.            *)
ArrivedAs(m) == [kind |-> m, name |-> IF m = "JOINED" THEN Me ELSE NUL, body |-> 0]
IsArrived(s, q) == Len(q) = Len(s) /\ \A n \in 1 .. Len(s) : q[n] = ArrivedAs(s[n])
ReadOff(q) == Arrived(Tail(q)) = Tail(Arrived(q)) /\ Head(Arrived(q)) = ArrivedAs(Head(q))
SeenAs(n) == Arrived([k \in 1 .. n |-> "JOINED"])

LEMMA ArrivedIs ==
  ASSUME NEW s \in Seq({"JOINED", "SHUTDOWN"})
  PROVE  /\ Arrived(s) \in Seq({ArrivedAs("JOINED"), ArrivedAs("SHUTDOWN")})
         /\ IsArrived(s, Arrived(s))
<1> DEFINE S == {ArrivedAs("JOINED"), ArrivedAs("SHUTDOWN")}
<1>1. Len(s) \in Nat /\ DOMAIN s = 1 .. Len(s)
  BY LenProperties
<1>2. \A n \in 1 .. Len(s) : ArrivedAs(s[n]) \in S
  BY ElementOfSeq
<1>3. Arrived(s) = [n \in 1 .. Len(s) |-> ArrivedAs(s[n])]
  BY <1>1 DEF Arrived, ArrivedAs
<1> HIDE DEF S
<1> PICK q : q = Arrived(s)
  OBVIOUS
<1>4. q \in Seq(S) /\ Len(q) = Len(s) /\ \A n \in 1 .. Len(s) : q[n] = ArrivedAs(s[n])
  BY <1>1, <1>2, <1>3
<1>5. IsArrived(s, q)
  BY <1>4 DEF IsArrived
<1> QED
  BY <1>4, <1>5 DEF S

LEMMA ArrivedTail ==
  ASSUME NEW s \in Seq({"JOINED", "SHUTDOWN"}), s # <<>>
  PROVE  ReadOff(s) /\ Arrived(s) # <<>>
<1> DEFINE S == {ArrivedAs("JOINED"), ArrivedAs("SHUTDOWN")}
<1>1. Tail(s) \in Seq({"JOINED", "SHUTDOWN"}) /\ Len(s) \in Nat /\ Len(s) > 0
  BY LenProperties, EmptySeq
<1>2. Arrived(s) \in Seq(S) /\ IsArrived(s, Arrived(s))
  BY ArrivedIs
<1>3. Arrived(Tail(s)) \in Seq(S) /\ IsArrived(Tail(s), Arrived(Tail(s)))
  BY <1>1, ArrivedIs
<1> HIDE DEF S
<1>4. ASSUME NEW q \in Seq(S), IsArrived(s, q), NEW r \in Seq(S), IsArrived(Tail(s), r)
      PROVE  r = Tail(q) /\ Head(q) = ArrivedAs(Head(s)) /\ q # <<>>
  <2>1. Len(q) = Len(s) /\ q # <<>>
    BY <1>1, <1>4 DEF IsArrived
  <2>2. /\ Head(s) = s[1] /\ Head(q) = q[1]
        /\ Len(Tail(s)) = Len(s) - 1 /\ Len(Tail(q)) = Len(s) - 1
        /\ Tail(q) \in Seq(S)
    BY <1>1, <2>1
  <2>3. Head(q) = ArrivedAs(Head(s))
    BY <1>1, <1>4, <2>2 DEF IsArrived
  <2>4. ASSUME NEW n \in 1 .. Len(s) - 1 PROVE r[n] = Tail(q)[n]
    <3>1. Tail(s)[n] = s[n + 1] /\ Tail(q)[n] = q[n + 1]
      BY <1>1, <2>1
    <3>2. n + 1 \in 1 .. Len(s)
      BY <1>1
    <3>3. q[n + 1] = ArrivedAs(s[n + 1])
      BY <1>4, <3>2 DEF IsArrived
    <3>4. r[n] = ArrivedAs(Tail(s)[n])
      BY <1>4, <2>2 DEF IsArrived
    <3> QED
      BY <3>1, <3>3, <3>4, Zenon
  <2>5. Len(r) = Len(s) - 1
    BY <1>4, <2>2 DEF IsArrived
  <2>6. r = Tail(q)
    BY <2>2, <2>4, <2>5, SeqEqual
  <2> QED
    BY <2>1, <2>3, <2>6
<1>5. Arrived(Tail(s)) = Tail(Arrived(s)) /\ Head(Arrived(s)) = ArrivedAs(Head(s))
      /\ Arrived(s) # <<>>
  BY <1>2, <1>3, <1>4, Zenon
<1> QED
  BY <1>5, Zenon DEF ReadOff

LEMMA SeenMore ==
  ASSUME NEW n \in Nat
  PROVE  SeenAs(n + 1) = Append(SeenAs(n), ArrivedAs("JOINED"))
<1> DEFINE S == {ArrivedAs("JOINED"), ArrivedAs("SHUTDOWN")}
           J == ArrivedAs("JOINED")
<1>1. ASSUME NEW k \in Nat
      PROVE  /\ SeenAs(k) \in Seq(S) /\ Len(SeenAs(k)) = k
             /\ \A j \in 1 .. k : SeenAs(k)[j] = J
  <2> PICK s : s = [j \in 1 .. k |-> "JOINED"]
    OBVIOUS
  <2>1. s \in Seq({"JOINED", "SHUTDOWN"}) /\ Len(s) = k /\ \A j \in 1 .. k : s[j] = "JOINED"
    OBVIOUS
  <2>2. Arrived(s) \in Seq(S) /\ IsArrived(s, Arrived(s))
    BY <2>1, ArrivedIs
  <2>3. SeenAs(k) = Arrived(s)
    BY DEF SeenAs
  <2> HIDE DEF S
  <2>4. Len(Arrived(s)) = k /\ \A j \in 1 .. k : Arrived(s)[j] = J
    BY <2>1, <2>2 DEF IsArrived
  <2> QED
    BY <2>2, <2>3, <2>4
<1>2. J \in S
  OBVIOUS
<1> HIDE DEF S, J
<1>3. Append(SeenAs(n), J) \in Seq(S) /\ MoreOf(SeenAs(n), J, Append(SeenAs(n), J))
  BY <1>1, <1>2, MoreIs
<1>4. ASSUME NEW a \in Seq(S), Len(a) = n, \A j \in 1 .. n : a[j] = J,
             NEW b \in Seq(S), Len(b) = n + 1, \A j \in 1 .. n + 1 : b[j] = J,
             NEW c \in Seq(S), MoreOf(a, J, c)
      PROVE  b = c
  <2>1. Len(c) = n + 1 /\ \A j \in 1 .. n + 1 : c[j] = J
    BY <1>4 DEF MoreOf
  <2> QED
    BY <1>4, <2>1, SeqEqual
<1>5. SeenAs(n + 1) = Append(SeenAs(n), J)
  <2>1. n + 1 \in Nat
    OBVIOUS
  <2>2. /\ SeenAs(n) \in Seq(S) /\ Len(SeenAs(n)) = n /\ \A j \in 1 .. n : SeenAs(n)[j] = J
    BY <1>1
  <2>3. /\ SeenAs(n + 1) \in Seq(S) /\ Len(SeenAs(n + 1)) = n + 1
        /\ \A j \in 1 .. n + 1 : SeenAs(n + 1)[j] = J
    BY <1>1, <2>1
  <2> QED
    BY <1>3, <1>4, <2>2, <2>3, Zenon
<1> QED
  BY <1>5 DEF J

LEMMA ReadSteps ==
  ASSUME Inside, ReadMessage
  PROVE  LineByLine!ReadMessage(Me)
<1>1. /\ toClient # <<>> /\ handled' = Head(toClient) /\ toClient' = Tail(toClient)
      /\ nSeen' = nSeen + (IF handled' = "SHUTDOWN" THEN 0 ELSE 1)
      /\ UNCHANGED <<serverUp, unread, tsOpen, tcOpen, cancelVars, sent>>
      /\ mainpc \notin Gone /\ ~printerCancel /\ printerpc = "read" /\ printerpc' = "copy"
      /\ UNCHANGED <<mainpc, readerpc>>
  BY DEF ReadMessage, BeginPrint, Printer
<1>2. toClient \in Seq({"JOINED", "SHUTDOWN"}) /\ nSeen \in Nat
  BY DEF Inside, Fifos
<1>3. handled' \in {"JOINED", "SHUTDOWN"}
  BY <1>1, <1>2
<1>4. ReadOff(toClient) /\ Arrived(toClient) # <<>>
  BY <1>1, <1>2, ArrivedTail
<1>5. /\ Arrived(toClient') = Tail(Arrived(toClient))
      /\ Head(Arrived(toClient)) = ArrivedAs(handled')
  BY <1>1, <1>4, Zenon DEF ReadOff
<1>6. /\ Head(Arrived(toClient)).kind = handled'
      /\ handled' = "JOINED" => Head(Arrived(toClient)) = ArrivedAs("JOINED")
  BY <1>5 DEF ArrivedAs
<1>7. SeenAs(nSeen') = IF handled' = "SHUTDOWN" THEN SeenAs(nSeen)
                         ELSE Append(SeenAs(nSeen), ArrivedAs("JOINED"))
  <2>1. CASE handled' = "SHUTDOWN"
    BY <1>1, <1>2, <2>1
  <2>2. CASE handled' # "SHUTDOWN"
    <3>1. nSeen' = nSeen + 1
      BY <1>1, <2>2
    <3> QED
      BY <1>2, <2>2, <3>1, SeenMore
  <2> QED
    BY <2>1, <2>2
<1>8. CASE handled' = "SHUTDOWN"
  BY <1>1, <1>4, <1>5, <1>6, <1>7, <1>8
  DEF One, MeIf, Gone, LineByLine!Gone, cancelVars, SeenAs, LineByLine!ReadMessage,
      LineByLine!AtServer, LineByLine!GoServer
<1>9. CASE handled' = "JOINED"
  BY <1>1, <1>4, <1>5, <1>6, <1>7, <1>9
  DEF One, MeIf, Gone, LineByLine!Gone, cancelVars, SeenAs, LineByLine!ReadMessage,
      LineByLine!AtServer, LineByLine!GoServer
<1> QED
  BY <1>3, <1>8, <1>9

LEMMA ServerSteps ==
  ASSUME Inside, Created, ServerThread
  PROVE  LineByLine!ServerThread(Me) \/ Stutters
<1> USE DEF One, MeIf, Mesgs, Arrived, Gone, LineByLine!Gone, netVars, clientVars,
            cancelVars, LineByLine!fifoVars, LineByLine!SameClientHistory
<1>1. CASE ReadMessage
  BY <1>1, ReadSteps DEF LineByLine!ServerThread
<1>2. CASE PrintMessage
  <2>1. Stutters
    BY <1>2 DEF PrintMessage, CopyCell, WriteOut, AfterPrint, Printer, Stutters,
                LineByLine!clientVars
  <2> QED
    BY <2>1
<1>3. CASE PrintNewline
  <2>1. Stutters
    BY <1>3 DEF PrintNewline, Printer, Created, Stutters, LineByLine!clientVars
  <2> QED
    BY <2>1
<1>4. CASE CancelUserThread
  <2>1. LineByLine!CancelUser(Me)
    BY <1>4
    DEF CancelUserThread, CancelsUser, Printer, Created, LineByLine!CancelUser,
        LineByLine!AtServer, LineByLine!GoServer, LineByLine!CancelUserThread
  <2> QED
    BY <2>1 DEF LineByLine!ServerThread
<1>5. CASE CloseToClient
  <2>1. Arrived(toClient') = <<>>
    BY <1>5, ArrivedNone DEF CloseToClient
  <2>2. LineByLine!CloseToClient(Me)
    BY <1>5, <2>1
    DEF CloseToClient, Printer, LineByLine!CloseToClient, LineByLine!AtServer,
        LineByLine!GoServer
  <2> QED
    BY <2>2 DEF LineByLine!ServerThread
<1>6. CASE ServerCancelled
  <2>1. LineByLine!ServerCancelled(Me)
    BY <1>6
    DEF ServerCancelled, Printer, Created, LineByLine!ServerCancelled,
        LineByLine!AtServer, LineByLine!GoServer
  <2> QED
    BY <2>1 DEF LineByLine!ServerThread
<1> QED
  BY <1>1, <1>2, <1>3, <1>4, <1>5, <1>6, Zenon DEF ServerThread

LEMMA OtherSteps ==
  ASSUME ServerSide
  PROVE  OfServer
BY DEF ServerSide, ServerReads, ServerWrites, ServerEnds, simpioVars, clientVars,
       cancelVars, OfServer, LineByLine!clientVars, One, MeIf, Mesgs, Arrived

LEMMA NoSteps ==
  ASSUME UNCHANGED vars
  PROVE  Stutters
BY DEF vars, simpioVars, netVars, clientVars, cancelVars, Stutters,
       LineByLine!clientVars, LineByLine!fifoVars, One, MeIf, Mesgs, Arrived

(* One step of the client, whatever it is.                                 *)
LEMMA StepsAreSteps ==
  ASSUME Inside, Created, [Next]_vars
  PROVE  [LineByLine!ClientStep(Me) \/ (OfServer /\ ServerSide)]_<<LineByLine!clientVars,
                                                                 LineByLine!fifoVars>>
<1> SUFFICES LineByLine!ClientStep(Me) \/ (OfServer /\ ServerSide) \/ Stutters
  BY DEF Stutters
<1>1. CASE Main
  BY <1>1, MainSteps DEF LineByLine!ClientStep
<1>2. CASE UserKey
  BY <1>2, KeySteps DEF LineByLine!ClientStep
<1>3. CASE UserThread
  BY <1>3, UserSteps DEF LineByLine!ClientStep
<1>4. CASE ServerThread
  BY <1>4, ServerSteps DEF LineByLine!ClientStep
<1>5. CASE ServerSide
  BY <1>5, OtherSteps
<1>6. CASE UNCHANGED vars
  BY <1>6, NoSteps
<1> QED
  BY <1>1, <1>2, <1>3, <1>4, <1>5, <1>6, Zenon DEF Next

(* The terminal is a client: whatever the three threads do key by key,     *)
(* with the line editor between them, however long the lines and however   *)
(* large the FIFOs are, is a step that the model of the whole service lets *)
(* a client take, or none of its concern (bl-client.c over simpio.c).      *)
THEOREM KeysMakeSteps == Spec => ClientSteps
<1>1. Init => Inside /\ Created
  BY InsideStarts, CreatedStarts
<1>2. Inside /\ Created /\ [Next]_vars => (Inside /\ Created)'
  <2>1. Inside /\ [Next]_vars => Inside'
    BY InsideKept
  <2>2. Inside /\ Created /\ [Next]_vars => Created'
    BY CreatedKept
  <2> QED
    BY <2>1, <2>2
<1>3. Inside /\ Created /\ [Next]_vars
        => [LineByLine!ClientStep(Me) \/ (OfServer /\ ServerSide)]_<<LineByLine!clientVars,
                                                                  LineByLine!fifoVars>>
  BY StepsAreSteps
<1> QED
  BY <1>1, <1>2, <1>3, PTL DEF Spec, ClientSteps
=============================================================================
