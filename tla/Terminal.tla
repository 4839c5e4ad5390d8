------------------------------ MODULE Terminal ------------------------------
(***************************************************************************)
(* bl-client with its terminal: the line editor of Simpio inside the two   *)
(* threads of a connected client, key by key, and the server at the other  *)
(* end of the two FIFOs.  BlatherClient takes the same threads line by     *)
(* line; ClientSteps shows that what happens here is what happens there.   *)
(***************************************************************************)
EXTENDS Simpio

CONSTANTS
  Me,         \* this client
  MaxMesgs,   \* how many messages the server sends at most
  PipeCap,    \* how many messages a FIFO holds
  MaxLines    \* how many lines are sent at most

ASSUME PipeCapAssumption == PipeCap \in Nat

VARIABLES
  serverUp,      \* the server holds its ends of the two FIFOs
  toClient,      \* what the FIFO to the client holds
  unread,        \* how many messages the FIFO to the server holds
  tsOpen, tcOpen,\* the client's descriptors of the two
  readerCancel, printerCancel,  \* pthread_cancel was called for the thread
  handled,       \* the message server_to_user has read
  sent,          \* history: what the client has written
  nSeen          \* history: how many messages it has read, but for SHUTDOWN

netVars == <<serverUp, toClient, unread, tsOpen, tcOpen>>
cancelVars == <<readerCancel, printerCancel>>
clientVars == <<cancelVars, handled, sent, nSeen>>
vars == <<simpioVars, netVars, clientVars>>

TypeOK ==
  /\ SimpioTypeOK
  /\ mainpc \in {"setMode", "createReader", "createPrinter", "join",
                 "resetMode"} \cup Gone
  /\ readerpc \in {"none", "loop", "prompt", "get", "terminate", "echo",
                   "erase", "line", "depart", "cancel", "close", "done"}
  /\ printerpc \in {"none", "read", "copy", "write", "newline", "cancel",
                    "close", "done"}
  /\ serverUp \in BOOLEAN /\ tsOpen \in BOOLEAN /\ tcOpen \in BOOLEAN
  /\ toClient \in Seq({"JOINED", "SHUTDOWN"}) /\ unread \in 0 .. PipeCap
  /\ readerCancel \in BOOLEAN /\ printerCancel \in BOOLEAN
  /\ handled \in {"NONE", "JOINED", "SHUTDOWN"}
  /\ sent \in Seq({"MESG", "DEPARTED"}) /\ nSeen \in Nat

(* The FIFOs have been opened.                                             *)
Init ==
  /\ SimpioInit
  /\ serverUp = TRUE /\ toClient = <<>> /\ unread = 0
  /\ tsOpen = TRUE /\ tcOpen = TRUE
  /\ readerCancel = FALSE /\ printerCancel = FALSE
  /\ handled = "NONE" /\ sent = <<>> /\ nSeen = 0

-----------------------------------------------------------------------------
(* The process ends: the terminal stays as it is.                          *)
EndProcess(how) ==
  /\ mainpc' = how /\ tsOpen' = FALSE /\ tcOpen' = FALSE /\ toClient' = <<>>
  /\ UNCHANGED <<mode, oldt, readerpc, printerpc, lineVars, printVars, screen,
                 overlap, serverUp, unread, clientVars>>

(* main, from simpio_noncanonical_terminal_mode on.                        *)
Main ==
  \/ /\ NoncanonicalMode \/ CreateReader \/ CreatePrinter("read") \/ Joined
     /\ UNCHANGED <<netVars, clientVars>>
  \/ /\ ResetMode
     /\ tsOpen' = FALSE /\ tcOpen' = FALSE /\ toClient' = <<>>
     /\ UNCHANGED <<serverUp, unread, clientVars>>

-----------------------------------------------------------------------------
(* user_to_server.                                                         *)
UserKey ==
  /\ Key /\ (readerpc' = "line" => Len(sent) < MaxLines)
  /\ UNCHANGED <<netVars, clientVars>>

EditLine ==
  /\ ReaderLoop \/ LoopEnds("depart")
  /\ UNCHANGED <<netVars, clientVars>>

Send(at, m, next) ==
  /\ readerpc = at /\ mainpc \notin Gone /\ ~readerCancel
  /\ IF serverUp
       THEN /\ unread < PipeCap /\ unread' = unread + 1
            /\ sent' = Append(sent, m)
            /\ Reader(at, next)
            /\ UNCHANGED <<lineVars, screen, torn, serverUp, toClient, tsOpen,
                           tcOpen, cancelVars, handled, nSeen>>
       ELSE EndProcess("dead")

(* What is sent is the line of buf, which LineIsEdited is about.           *)
SendLine == Send("line", "MESG", "loop")
SendDeparted == Send("depart", "DEPARTED", "cancel")

(* A thread that was not created yet has a pthread_t of zero.              *)
CancelServerThread ==
  /\ readerpc = "cancel" /\ mainpc \notin Gone
  /\ IF printerpc = "none"
       THEN EndProcess("dead")
       ELSE /\ Reader("cancel", "close") /\ printerCancel' = TRUE
            /\ UNCHANGED <<lineVars, screen, torn, netVars, readerCancel,
                           handled, sent, nSeen>>

CloseToServer ==
  /\ Reader("close", "done") /\ ~readerCancel /\ tsOpen' = FALSE
  /\ UNCHANGED <<lineVars, screen, torn, serverUp, toClient, unread, tcOpen,
                 clientVars>>

(* Every access to the terminal or to a FIFO is a cancellation point.      *)
UserCancelled ==
  /\ readerCancel
  /\ readerpc \in {"prompt", "get", "echo", "erase", "line", "depart", "close"}
  /\ Reader(readerpc, "done")
  /\ UNCHANGED <<lineVars, screen, torn, netVars, clientVars>>

UserThread ==
  \/ EditLine \/ SendLine \/ SendDeparted \/ CancelServerThread
  \/ CloseToServer \/ UserCancelled

-----------------------------------------------------------------------------
(* server_to_user.                                                         *)
ReadMessage ==
  /\ ~printerCancel /\ toClient # <<>> /\ BeginPrint("read")
  /\ handled' = Head(toClient) /\ toClient' = Tail(toClient)
  /\ nSeen' = nSeen + (IF handled' = "SHUTDOWN" THEN 0 ELSE 1)
  /\ UNCHANGED <<serverUp, unread, tsOpen, tcOpen, cancelVars, sent>>

(* Where the loop goes on.  Mutant: its break leads past pthread_cancel.   *)
PastCancel == IF handled = "SHUTDOWN" THEN "close" ELSE "read"
AfterPrint == IF handled = "SHUTDOWN" THEN "newline" ELSE "read"

PrintMessage ==
  /\ CopyCell \/ (~printerCancel /\ WriteOut(AfterPrint))
  /\ UNCHANGED <<netVars, clientVars>>

(* printf("\n"), after SHUTDOWN.                                           *)
PrintNewline ==
  /\ Printer("newline", "cancel") /\ ~printerCancel
  /\ screen' = <<>> /\ torn' = TRUE /\ UNCHANGED <<out, overlap>>
  /\ UNCHANGED <<netVars, clientVars>>

(* Mutant: the user thread is left in fgetc.                               *)
LeaveUserThread == UNCHANGED readerCancel
CancelsUser == readerCancel' = TRUE

CancelUserThread ==
  /\ Printer("cancel", "close") /\ CancelsUser
  /\ UNCHANGED <<printVars, screen, overlap, netVars, printerCancel, handled,
                 sent, nSeen>>

CloseToClient ==
  /\ Printer("close", "done") /\ ~printerCancel
  /\ tcOpen' = FALSE /\ toClient' = <<>>
  /\ UNCHANGED <<printVars, screen, overlap, serverUp, unread, tsOpen,
                 clientVars>>

ServerCancelled ==
  /\ printerCancel /\ printerpc \in {"read", "write", "newline", "close"}
  /\ Printer(printerpc, "done")
  /\ UNCHANGED <<printVars, screen, overlap, netVars, clientVars>>

ServerThread ==
  \/ ReadMessage \/ PrintMessage \/ PrintNewline \/ CancelUserThread
  \/ CloseToClient \/ ServerCancelled

-----------------------------------------------------------------------------
(* The other end: it takes lines, sends messages, at last SHUTDOWN, ends.  *)
ServerReads ==
  /\ serverUp /\ unread > 0 /\ unread' = unread - 1
  /\ UNCHANGED <<serverUp, toClient, tsOpen, tcOpen>>

ServerWrites ==
  /\ serverUp /\ tcOpen /\ Len(toClient) < PipeCap
  /\ \E m \in {"JOINED", "SHUTDOWN"} :
       /\ m = "JOINED" => nSeen + Len(toClient) < MaxMesgs
       /\ "SHUTDOWN" \notin {toClient[n] : n \in DOMAIN toClient}
       /\ handled # "SHUTDOWN"
       /\ toClient' = Append(toClient, m)
  /\ UNCHANGED <<serverUp, unread, tsOpen, tcOpen>>

ServerEnds ==
  /\ serverUp /\ serverUp' = FALSE
  /\ UNCHANGED <<toClient, unread, tsOpen, tcOpen>>

ServerSide ==
  /\ ServerReads \/ ServerWrites \/ ServerEnds
  /\ UNCHANGED <<simpioVars, clientVars>>

Next == Main \/ UserKey \/ UserThread \/ ServerThread \/ ServerSide

(* The threads of the client run when they can.                            *)
Fairness == WF_vars(Main) /\ WF_vars(UserThread) /\ WF_vars(ServerThread)

Spec == Init /\ [][Next]_vars /\ Fairness

-----------------------------------------------------------------------------
(* No access leaves the buffer: the reader writes inside it (TypeOK), and  *)
(* the printer meets a NUL before its end at whatever point of             *)
(* simpio_get_char it copies (iprintf).                                    *)
BufferEnds == TypeOK /\ (printerpc = "copy" => Len(out) - 1 \in Cells)

(* The client as BlatherClient has it: editing is one state of its user    *)
(* thread, printing part of the step that reads.                           *)
One(x) == [c \in {Me} |-> x]
MeIf(b) == IF b THEN {Me} ELSE {}
Mesgs(s) ==
  [n \in DOMAIN s |-> [kind |-> s[n], name |-> Me,
                       body |-> IF s[n] = "MESG" THEN n ELSE 0]]
Arrived(s) ==
  [n \in DOMAIN s |-> [kind |-> s[n], name |-> IF s[n] = "JOINED" THEN Me ELSE NUL,
                       body |-> 0]]

LineByLine ==
  INSTANCE BlatherClient WITH
    Clients <- {Me}, NoClient <- NUL, MaxClients <- 1, MaxKills <- 0,
    joinFile <- "fresh", joinR <- serverUp, joinW <- MeIf(mainpc \notin Gone),
    joinHad <- TRUE, joinQ <- <<>>, fifoFiles <- {Me},
    toServer <- One(SubSeq(Mesgs(sent), Len(sent) - unread + 1, Len(sent))),
    toClient <- One(Arrived(toClient)),
    tsW <- MeIf(tsOpen), tsR <- MeIf(serverUp),
    tcR <- MeIf(tcOpen), tcW <- MeIf(serverUp),
    mainpc <- One(CASE mainpc \in {"setMode", "createReader"} -> "createUser"
                    [] mainpc = "createPrinter" -> "createServer"
                    [] mainpc \in {"join", "resetMode"} -> "joinThreads"
                    [] OTHER -> mainpc),
    userpc <- One(CASE readerpc = "line" -> "write"
                    [] readerpc \in {"none", "depart", "cancel", "close",
                                     "done"} -> readerpc
                    [] OTHER -> "read"),
    serverpc <- One(CASE printerpc \in {"none", "close", "done"} -> printerpc
                      [] printerpc \in {"copy", "write", "newline", "cancel"}
                           /\ handled = "SHUTDOWN" -> "cancel"
                      [] OTHER -> "read"),
    userCancel <- MeIf(readerCancel), serverCancel <- MeIf(printerCancel),
    killed <- {}, sent <- One(Mesgs(sent)),
    seen <- One(Arrived([n \in 1 .. nSeen |-> "JOINED"]))

OfServer == UNCHANGED LineByLine!clientVars

(* Whatever the threads do key by key, with the terminal between them, is  *)
(* a step that the model of the whole service lets a client take           *)
(* (user_to_server, server_to_user and main over simpio.c).                *)
ClientSteps ==
  [][\/ LineByLine!ClientStep(Me)
     \/ OfServer /\ ServerSide]_<<LineByLine!clientVars, LineByLine!fifoVars>>

(* When SHUTDOWN has come the client ends and the terminal has its old     *)
(* mode, although the user may be in the middle of a line, unless the user *)
(* thread dies writing to the server that is gone (server_to_user, main).  *)
ShutdownRestores ==
  ("SHUTDOWN" \in {toClient[n] : n \in DOMAIN toClient})
    ~> mainpc = "dead" \/ (mainpc = "exited" /\ mode = "canonical")

(* main is to "restore standard terminal output" (bl-client.c).            *)
RestoredAtEnd == mainpc \in Gone => mode = "canonical"
=============================================================================
