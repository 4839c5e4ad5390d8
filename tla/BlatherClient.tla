--------------------------- MODULE BlatherClient ---------------------------
(***************************************************************************)
(* bl-client: any number of client processes, each with the main thread    *)
(* and, once it is connected, a user thread that sends what is typed and a *)
(* server thread that prints what the server sends (bl-client.c).  Each of *)
(* the two threads cancels the other when it has seen the end.             *)
(* Cancellation is deferred: a cancelled thread ends at its next           *)
(* cancellation point, and read, write, close and terminal input are such. *)
(***************************************************************************)
EXTENDS BlatherFifo

CONSTANTS
  MaxLines,   \* how many lines a user types at most
  MaxKills    \* how many clients may be killed from outside

ASSUME MaxLinesAssumption == MaxLines \in Nat
ASSUME MaxKillsAssumption == MaxKills \in Nat

VARIABLES
  mainpc,      \* the main thread of each client
  userpc,      \* its user thread
  serverpc,    \* its server thread
  userCancel,  \* clients whose user thread has been cancelled
  serverCancel,\* clients whose server thread has been cancelled
  killed,      \* clients that were killed from outside
  sent,        \* history: what a client has written to the server
  seen         \* history: what a client has read, but for SHUTDOWN

clientVars == <<mainpc, userpc, serverpc, userCancel, serverCancel, killed,
                sent, seen>>

-----------------------------------------------------------------------------
Gone == {"exited", "dead"}

ClientTypeOK ==
  /\ mainpc \in [Clients -> {"mkfifo", "openJoin", "stuck", "waitJoin",
                             "writeJoin", "openTC", "openTS", "createUser",
                             "createServer", "joinThreads"} \cup Gone]
  /\ userpc \in [Clients -> {"none", "read", "write", "depart", "cancel",
                             "close", "done"}]
  /\ serverpc \in [Clients -> {"none", "read", "cancel", "close", "done"}]
  /\ userCancel \subseteq Clients /\ serverCancel \subseteq Clients
  /\ killed \subseteq Clients
  /\ sent \in [Clients -> Seq(ClientMesg)]
  /\ seen \in [Clients -> Seq(Mesg)]

ClientInit ==
  /\ mainpc = [c \in Clients |-> "mkfifo"]
  /\ userpc = [c \in Clients |-> "none"]
  /\ serverpc = [c \in Clients |-> "none"]
  /\ userCancel = {} /\ serverCancel = {} /\ killed = {}
  /\ sent = [c \in Clients |-> <<>>]
  /\ seen = [c \in Clients |-> <<>>]

-----------------------------------------------------------------------------
AtMain(c, at) == mainpc[c] = at
GoMain(c, next) == mainpc' = [mainpc EXCEPT ![c] = next]
AtUser(c, at) == mainpc[c] \notin Gone /\ userpc[c] = at
GoUser(c, next) == userpc' = [userpc EXCEPT ![c] = next]
AtServer(c, at) == mainpc[c] \notin Gone /\ serverpc[c] = at
GoServer(c, next) == serverpc' = [serverpc EXCEPT ![c] = next]

SameThreads == UNCHANGED <<userpc, serverpc, userCancel, serverCancel>>
SameClientHistory == UNCHANGED <<sent, seen>>
OnlyMain == SameThreads /\ SameClientHistory /\ UNCHANGED killed

(* The process ends, whatever its threads are doing.                       *)
EndProcess(c, how) ==
  /\ mainpc' = [mainpc EXCEPT ![c] = how]
  /\ CloseAllOfClient(c)
  /\ SameThreads /\ SameClientHistory

-----------------------------------------------------------------------------
(* main: make the two FIFOs, open the server's join FIFO.                  *)
MakeFifos(c) ==
  /\ AtMain(c, "mkfifo") /\ GoMain(c, "openJoin") /\ OnlyMain
  /\ fifoFiles' = fifoFiles \cup {c}
  /\ UNCHANGED <<joinFile, joinR, joinW, joinHad, joinQ, toServer, toClient,
                 tsW, tsR, tcR, tcW>>

(* The open fails when there is no such name: the client returns, its own  *)
(* two FIFOs staying behind.  On a FIFO nobody reads it blocks; one that a *)
(* dead server left behind will never have a reader.                       *)
OpenJoin(c) ==
  /\ AtMain(c, "openJoin") /\ OnlyMain
  /\ CASE joinFile = "none"  -> GoMain(c, "exited")
       [] joinFile = "stale" -> GoMain(c, "stuck")
       [] joinFile = "fresh" -> GoMain(c, "waitJoin")
  /\ UNCHANGED fifoVars

JoinOpened(c) ==
  /\ AtMain(c, "waitJoin") /\ joinR
  /\ joinW' = joinW \cup {c} /\ joinHad' = TRUE
  /\ GoMain(c, "writeJoin") /\ OnlyMain
  /\ UNCHANGED <<joinFile, joinR, joinQ, fifoFiles, toServer, toClient,
                 tsW, tsR, tcR, tcW>>

(* The client leaves the join FIFO open for as long as it runs.  Mutant:   *)
(* it closes it after its request.                                         *)
CloseJoinFifo(c) == joinW' = joinW \ {c}
KeepJoinFifo(c) == UNCHANGED joinW

(* Write the join request; without a reader that is SIGPIPE.               *)
WriteJoin(c) ==
  /\ AtMain(c, "writeJoin")
  /\ IF joinR
       THEN /\ joinQ' = Append(joinQ, c)
            /\ KeepJoinFifo(c)
            /\ GoMain(c, "openTC") /\ SameThreads /\ SameClientHistory
            /\ UNCHANGED <<joinFile, joinR, joinHad, fifoFiles,
                           toServer, toClient, tsW, tsR, tcR, tcW>>
       ELSE EndProcess(c, "dead")
  /\ UNCHANGED killed

CreateUser(c) ==
  /\ AtMain(c, "createUser") /\ GoMain(c, "createServer") /\ GoUser(c, "read")
  /\ UNCHANGED <<serverpc, userCancel, serverCancel, killed, fifoVars>>
  /\ SameClientHistory

CreateServer(c) ==
  /\ AtMain(c, "createServer") /\ GoMain(c, "joinThreads")
  /\ GoServer(c, "read")
  /\ UNCHANGED <<userpc, userCancel, serverCancel, killed, fifoVars>>
  /\ SameClientHistory

(* Both pthread_join calls have returned.                                  *)
MainReturn(c) ==
  /\ AtMain(c, "joinThreads")
  /\ userpc[c] = "done" /\ serverpc[c] = "done"
  /\ EndProcess(c, "exited")
  /\ UNCHANGED killed

-----------------------------------------------------------------------------
(* The threads cancel each other.  Mutants: they do not.                   *)
LeaveServerThread(c) == UNCHANGED serverCancel
LeaveUserThread(c) == UNCHANGED userCancel
CancelServerThread(c) == serverCancel' = serverCancel \cup {c}
CancelUserThread(c) == userCancel' = userCancel \cup {c}

(* What the user does: type a line, or end the input.                      *)
TypeLine(c) ==
  /\ AtUser(c, "read") /\ Len(sent[c]) < MaxLines /\ GoUser(c, "write")
  /\ UNCHANGED <<mainpc, serverpc, userCancel, serverCancel, killed, fifoVars>>
  /\ SameClientHistory

(* Mutant: the server thread is cancelled before DEPARTED is written.      *)
EndInputCancels(c) ==
  /\ AtUser(c, "read") /\ GoUser(c, "depart")
  /\ serverCancel' = serverCancel \cup {c}
  /\ UNCHANGED <<mainpc, serverpc, userCancel, killed, fifoVars>>
  /\ SameClientHistory

EndInput(c) ==
  /\ AtUser(c, "read") /\ GoUser(c, "depart")
  /\ UNCHANGED <<mainpc, serverpc, userCancel, serverCancel, killed, fifoVars>>
  /\ SameClientHistory

(* A write of the user thread: it blocks on a full FIFO, and kills the     *)
(* process when the server has gone.                                       *)
Send(c, at, m, next) ==
  /\ AtUser(c, at) /\ c \notin userCancel
  /\ IF c \in tsR
       THEN /\ RoomFrom(c)
            /\ toServer' = [toServer EXCEPT ![c] = Append(@, m)]
            /\ sent' = [sent EXCEPT ![c] = Append(@, m)]
            /\ GoUser(c, next)
            /\ UNCHANGED <<mainpc, serverpc, userCancel, serverCancel, seen,
                           joinFile, joinR, joinW, joinHad, joinQ, fifoFiles,
                           toClient, tsW, tsR, tcR, tcW>>
       ELSE EndProcess(c, "dead")
  /\ UNCHANGED killed

SendLine(c) == Send(c, "write", Line(c, Len(sent[c]) + 1), "read")

(* Mutant: the kind of the last message is left as it was.                 *)
SendUnmarked(c) == Send(c, "depart", Line(c, Len(sent[c]) + 1), "cancel")
SendDeparted(c) == Send(c, "depart", Departed(c), "cancel")

(* pthread_cancel(server_thread).  Before that thread has been created its *)
(* pthread_t is zero, and using it crashes the process.                    *)
CancelServer(c) ==
  /\ AtUser(c, "cancel")
  /\ IF AtMain(c, "createServer")
       THEN EndProcess(c, "dead")
       ELSE /\ CancelServerThread(c) /\ GoUser(c, "close")
            /\ UNCHANGED <<mainpc, serverpc, userCancel, fifoVars>>
            /\ SameClientHistory
  /\ UNCHANGED killed

CloseToServer(c) ==
  /\ AtUser(c, "close") /\ c \notin userCancel /\ GoUser(c, "done")
  /\ tsW' = tsW \ {c}
  /\ UNCHANGED <<mainpc, serverpc, userCancel, serverCancel, killed,
                 joinFile, joinR, joinW, joinHad, joinQ, fifoFiles, toServer,
                 toClient, tsR, tcR, tcW>>
  /\ SameClientHistory

UserCancelled(c) ==
  /\ c \in userCancel
  /\ \E at \in {"read", "write", "depart", "close"} : AtUser(c, at)
  /\ GoUser(c, "done")
  /\ UNCHANGED <<mainpc, serverpc, userCancel, serverCancel, killed, fifoVars>>
  /\ SameClientHistory

-----------------------------------------------------------------------------
(* The server thread: read a message and print it; SHUTDOWN ends the loop. *)
(* With the server gone and the FIFO empty read returns 0 for ever: the    *)
(* thread spins, which changes nothing.                                    *)
ReadMessage(c) ==
  /\ AtServer(c, "read") /\ c \notin serverCancel
  /\ toClient[c] # <<>>
  /\ toClient' = [toClient EXCEPT ![c] = Tail(@)]
  /\ IF Head(toClient[c]).kind = "SHUTDOWN"
       THEN GoServer(c, "cancel") /\ UNCHANGED seen
       ELSE /\ seen' = [seen EXCEPT ![c] = Append(@, Head(toClient[c]))]
            /\ UNCHANGED serverpc
  /\ UNCHANGED <<mainpc, userpc, userCancel, serverCancel, killed, sent,
                 joinFile, joinR, joinW, joinHad, joinQ, fifoFiles, toServer,
                 tsW, tsR, tcR, tcW>>

(* pthread_cancel(user_thread); to one that has ended it does nothing.     *)
CancelUser(c) ==
  /\ AtServer(c, "cancel")
  /\ CancelUserThread(c) /\ GoServer(c, "close")
  /\ UNCHANGED <<mainpc, userpc, serverCancel, killed, fifoVars>>
  /\ SameClientHistory

CloseToClient(c) ==
  /\ AtServer(c, "close") /\ c \notin serverCancel /\ GoServer(c, "done")
  /\ tcR' = tcR \ {c}
  /\ toClient' = [toClient EXCEPT ![c] = <<>>]
  /\ UNCHANGED <<mainpc, userpc, userCancel, serverCancel, killed,
                 joinFile, joinR, joinW, joinHad, joinQ, fifoFiles, toServer,
                 tsW, tsR, tcW>>
  /\ SameClientHistory

(* Printing is a cancellation point too, so SHUTDOWN may be read and the   *)
(* user thread never cancelled: but then it is the user thread that asked. *)
ServerCancelled(c) ==
  /\ c \in serverCancel
  /\ \E at \in {"read", "cancel", "close"} : AtServer(c, at)
  /\ GoServer(c, "done")
  /\ UNCHANGED <<mainpc, userpc, userCancel, serverCancel, killed, fifoVars>>
  /\ SameClientHistory

-----------------------------------------------------------------------------
(* The process is killed from outside: nothing in it has a say.            *)
Kill(c) ==
  /\ mainpc[c] \notin Gone /\ mainpc[c] # "mkfifo"
  /\ Cardinality(killed) < MaxKills
  /\ killed' = killed \cup {c}
  /\ EndProcess(c, "dead")

-----------------------------------------------------------------------------
MainStep(c) ==
  \/ MakeFifos(c) \/ OpenJoin(c) \/ JoinOpened(c) \/ WriteJoin(c)
  \/ CreateUser(c) \/ CreateServer(c) \/ MainReturn(c)

UserInput(c) == TypeLine(c) \/ EndInput(c)

UserThread(c) ==
  \/ SendLine(c) \/ SendDeparted(c) \/ CancelServer(c) \/ CloseToServer(c)
  \/ UserCancelled(c)

ServerThread(c) ==
  \/ ReadMessage(c) \/ CancelUser(c) \/ CloseToClient(c)
  \/ ServerCancelled(c)

ClientStep(c) ==
  MainStep(c) \/ UserInput(c) \/ UserThread(c) \/ ServerThread(c)
=============================================================================
