------------------------------ MODULE Blather ------------------------------
(***************************************************************************)
(* The Unix chat service: one bl-server, the clients, and the FIFOs        *)
(* between them.  Every step is one of the server's, one of one client's,  *)
(* or the meeting of the two in a blocking open.                           *)
(***************************************************************************)
EXTENDS BlatherServer, BlatherClient

vars == <<fifoVars, serverVars, clientVars>>

Init == FifoInit /\ ServerInit /\ ClientInit

-----------------------------------------------------------------------------
(* The client opens its to_client FIFO first, as the server does.  Mutant: *)
(* it would come to it second.                                             *)
OpensSecond(c) == AtMain(c, "openTS")
OpensFirst(c) == AtMain(c, "openTC")

(* open(to_client, O_WRONLY) in server_add_client and open(to_client,      *)
(* O_RDONLY) in the client's main wait for each other.                     *)
OpenToClient(c) ==
  /\ spc = "openTC" /\ join = c /\ OpensFirst(c)
  /\ tcW' = tcW \cup {c} /\ tcR' = tcR \cup {c}
  /\ spc' = "openTS" /\ GoMain(c, "openTS") /\ OnlyMain
  /\ UNCHANGED <<fifoFiles, toServer, toClient, tsW, tsR, join_ready, i, k,
                 mesg, join, err, taken>>
  /\ SameJoinFifo /\ SameArray /\ SameHistory

(* The same for the to_server FIFO.                                        *)
OpenToServer(c) ==
  /\ spc = "openTS" /\ join = c /\ AtMain(c, "openTS")
  /\ tsW' = tsW \cup {c} /\ tsR' = tsR \cup {c}
  /\ spc' = "append" /\ GoMain(c, "createUser") /\ OnlyMain
  /\ UNCHANGED <<fifoFiles, toServer, toClient, tcW, tcR, join_ready, i, k,
                 mesg, join, err, taken>>
  /\ SameJoinFifo /\ SameArray /\ SameHistory

Meet(c) == OpenToClient(c) \/ OpenToServer(c)

Server == ServerStep /\ UNCHANGED clientVars
Signal(s) == TakeSignal(s) /\ UNCHANGED clientVars
Client(c) == ClientStep(c) /\ UNCHANGED serverVars
Killed(c) == Kill(c) /\ UNCHANGED serverVars

Next ==
  \/ Server
  \/ \E s \in Signals : Signal(s)
  \/ \E c \in Clients : Meet(c) \/ Client(c) \/ Killed(c)

Spec == Init /\ [][Next]_vars

(* The server process and each thread of a client run whenever they can;   *)
(* nobody has to start a client, type, send a signal or kill.              *)
Fairness ==
  /\ WF_vars(Server)
  /\ \A c \in Clients :
       /\ WF_vars(Meet(c))
       /\ WF_vars(mainpc[c] # "mkfifo" /\ MainStep(c) /\ UNCHANGED serverVars)
       /\ WF_vars(UserThread(c) /\ UNCHANGED serverVars)
       /\ WF_vars(ServerThread(c) /\ UNCHANGED serverVars)

FairSpec == Spec /\ Fairness

-----------------------------------------------------------------------------
(* Every variable has its type.                                            *)
TypeOK == FifoTypeOK /\ ServerTypeOK /\ ClientTypeOK

InHandler == spc \in Handler
InRemove  == spc \in {"rmUnlink", "rmShift", "sdForget", "sdShift"}

(* The server never waits for one client while others write: a raised      *)
(* data_ready flag means that read returns at once, although the flags are *)
(* raised in one place and lowered in another and a removal shifts them    *)
(* between slots (server_check_sources, server_handle_client).             *)
ReadsDoNotBlock ==
  spc = "serve" =>
    \A j \in Used : j >= i /\ data_ready[j] => ClientReadable(client[j])

(* When server_handle_join finds no request, which ends the server, every  *)
(* client of the array has gone: a raised join_ready flag is wrong only    *)
(* when nobody who was let in is left to lose the connection.              *)
FailsAlone ==
  spc = "join" /\ joinQ = <<>> => \A c \in Members : mainpc[c] \in Gone

(* Outside server_remove_client the array holds each connected client in   *)
(* one slot, its two FIFOs are open and named, and nothing else is open:   *)
(* no slot refers to a closed descriptor, no descriptor is forgotten, and  *)
(* server_remove_client has not failed (server_add_client,                 *)
(* server_remove_client).                                                  *)
ArrayIntact ==
  spc \in Running \ {"rmUnlink", "rmShift", "openTS", "append"} =>
    /\ \A a, b \in Used : client[a] = client[b] => a = b
    /\ Members = tcW /\ Members = tsR
    /\ Members \subseteq fifoFiles
    /\ ~err

(* What a client has written is what of it is in the log, then the         *)
(* DEPARTED being handled, then what its FIFO holds: nothing is lost,      *)
(* repeated or taken out of order on the way (server_handle_client).       *)
Spoken(c) ==
  LET said[n \in 0 .. Len(log)] ==
        IF n = 0 THEN <<>>
        ELSE IF log[n].name = c /\ log[n].kind # "JOINED"
               THEN Append(said[n - 1], log[n]) ELSE said[n - 1]
  IN  said[Len(log)]
InHand(c) ==
  IF spc \in {"rmClose", "rmUnlink", "rmShift"} /\ mesg.name = c
    THEN <<mesg>> ELSE <<>>

NothingLost ==
  \A c \in Clients :
    /\ Len(Spoken(c)) = heard[c]
    /\ spc \in Running =>
         sent[c] = Spoken(c) \o InHand(c) \o toServer[c]

(* What lies in the FIFO to a client goes on where the client has stopped  *)
(* reading: with the rest of the log, up to the message being broadcast,   *)
(* and then with nothing but SHUTDOWN, which a client gets twice when the  *)
(* signal has come amid a shift that has it in two slots                   *)
(* (server_broadcast, server_shutdown).  So every message has one order    *)
(* from where it is written to where it is read.                           *)
ToldInOrder ==
  NothingLost /\ \A c \in Clients :
    \E n \in 0 .. Len(toClient[c]) :
      LET told == seen[c] \o SubSeq(toClient[c], 1, n)
      IN  /\ \A j \in 1 .. Len(told) :
               /\ from[c] + j - 1 \in DOMAIN log
               /\ told[j] = log[from[c] + j - 1]
          /\ \A j \in n + 1 .. Len(toClient[c]) : toClient[c][j].kind = "SHUTDOWN"

(* A client is announced and not let in only when the log itself shows     *)
(* that the array was full: so many had come before and not departed,      *)
(* whatever joins, removals and refusals have made of n_clients in between *)
(* (server_add_client, whose -1 server_handle_join ignores).               *)
Before(n, m) == \E o \in 1 .. n - 1 : log[o] = m
RefusedWhenFull ==
  \A n \in DOMAIN log :
    LET c == log[n].name
    IN  log[n].kind = "JOINED" /\ (c \in Clients => from[c] # n) =>
          Cardinality({d \in Clients : from[d] \in 1 .. n - 1 /\ ~Before(n, Departed(d))})
            = MaxClients

(* When the handler has come to its end, every client that was added and   *)
(* whose DEPARTED was not read is told: SHUTDOWN is in its FIFO, or its    *)
(* server thread has read it, or it is gone.  The signal may have come in  *)
(* the middle of a broadcast, of a removal or of the handler itself        *)
(* (server_shutdown against everything it interrupts).                     *)
ShutdownIn(c) == ShutdownMesg \in {toClient[c][j] : j \in DOMAIN toClient[c]}
Told(c) ==
  \/ ShutdownIn(c) \/ mainpc[c] \in Gone
  \/ serverpc[c] \in {"cancel", "close", "done"}
Departing(c) ==
  Departed(c) \in {sent[c][j] : j \in DOMAIN sent[c]}
Stays(c) == from[c] # 0 /\ ~Departing(c)
EveryoneTold == spc = "exit0" => \A c \in Clients : Stays(c) => Told(c)

(* SIGPIPE ends the server, in a broadcast or in the handler, only over a  *)
(* client of the array that was killed, that has written its DEPARTED, or  *)
(* that a first handler has told to go: one that stays never takes the     *)
(* others down (server_broadcast and server_shutdown against the threads   *)
(* of the client).                                                         *)
BreaksAtTheGone ==
  spc = "sigpipe" =>
    \E c \in Members :
      c \notin tcR /\ (c \in killed \/ Departing(c) \/ serverpc[c] \in {"close", "done"})

(* Only the client's own DEPARTED takes it out of the array while the      *)
(* server runs, and the client has then nothing more to say.               *)
LeavesByDeparting ==
  [][\A c \in Members :
       spc \in Running /\ spc' \in Running /\ c \notin Members' =>
         /\ mesg = Departed(c) /\ toServer[c] = <<>>
         /\ c \notin fifoFiles /\ c \notin tsR /\ c \notin tcW]_vars

(* The chat service implements the room.                                   *)
Room == INSTANCE ChatRoom WITH said <- sent
RoomSpec == Room!Spec

-----------------------------------------------------------------------------
(* While the server lives on, everybody who has come to its join FIFO is   *)
(* answered: the client is added, or the array was full.                   *)
JoinAnswered ==
  \A c \in Clients :
    (mainpc[c] \in {"waitJoin", "writeJoin", "openTC"} /\ spc \in Running)
      ~> (from[c] # 0 \/ n_clients = MaxClients \/ spc \notin Running
            \/ mainpc[c] \in Gone)

(* Whatever a client has written is announced in the end, although a       *)
(* departure may lower the flag of a client that was not served yet and    *)
(* pass over it (server_handle_client), unless the server goes first.      *)
SentIsAnnounced ==
  \A c \in Clients :
    (toServer[c] # <<>>) ~> (heard[c] = Len(sent[c]) \/ spc \notin Running)

(* A client that has departed ends: its server thread is cancelled or sees *)
(* SHUTDOWN, whichever comes first, and main joins both.                   *)
DepartureEnds ==
  \A c \in Clients : (userpc[c] = "cancel") ~> (mainpc[c] \in Gone)

(* A client in whose FIFO SHUTDOWN lies ends, even if its user never types *)
(* again (server_to_user cancels the user thread).                         *)
ShutdownEnds ==
  \A c \in Clients :
    ShutdownIn(c) ~> (mainpc[c] \in Gone)

(* The server ends once it has taken a signal.                             *)
SignalStops == (spc \in Handler) ~> (spc \in Stopped)

-----------------------------------------------------------------------------
(* What the sources say of the program and the program does not do.        *)

(* join_ready is a "flag indicating if a join is available" (blather.h).   *)
JoinIsAvailable ==
  spc = "join" => joinQ # <<>> \/ \E c \in joinW : mainpc[c] = "writeJoin"

(* server_shutdown is to "remove clients from server" (server.c).          *)
ShutdownRemovesClients == spc = "exit0" => n_clients = 0

(* JOINED says that a "client joined the server" (blather.h); it is also   *)
(* broadcast for one that the full array refused.                          *)
JoinedIsTrue ==
  \A n \in DOMAIN log : log[n].kind = "JOINED" => from[log[n].name] = n

(* DEPARTED is for a "client leaving/left server normally" (blather.h);    *)
(* but one that has left while a broadcast is under way takes the server   *)
(* with it, and with it those that stay.                                   *)
LeavesNormally ==
  spc = "sigpipe" => \A c \in Clients : Stays(c) => mainpc[c] \in Gone

(* server_shutdown is to "send shutdown message to clients" (server.c).    *)
ShutdownTellsClients ==
  taken # {} /\ spc \in Stopped => \A c \in Clients : Stays(c) => Told(c)

(* The client opens the join FIFO to "check that server exists"            *)
(* (bl-client.c), and should be told so or that it does not.               *)
OpenChecksServer ==
  \A c \in Clients :
    (mainpc[c] = "openJoin" /\ spc \in Stopped)
      ~> (mainpc[c] \in Gone \cup {"writeJoin"})

=============================================================================
