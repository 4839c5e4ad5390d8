--------------------------- MODULE BlatherServer ---------------------------
(***************************************************************************)
(* bl-server: the one process of the chat service that owns the client     *)
(* array (bl-server.c, server.c).  spc is the place it has reached; a step *)
(* is what happens between two system calls, which is where a signal is    *)
(* taken.  Steps that need a client at the other end of a blocking open    *)
(* (OpenToClient, OpenToServer) are joined with the client in Blather.     *)
(***************************************************************************)
EXTENDS BlatherFifo

CONSTANT Signals   \* the signals the server may be sent

ASSUME SignalsAssumption == Signals \subseteq {"SIGTERM", "SIGINT"}

VARIABLES
  spc,         \* where the server is
  join_ready,  \* server->join_ready
  n_clients,   \* server->n_clients
  client,      \* server->client[], by slot: whose client_t it holds
  data_ready,  \* server->client[].data_ready, by slot
  i,           \* the loop over the clients of main and of server_shutdown
  k,           \* the inner loop: server_broadcast, server_remove_client
  mesg,        \* the message being handled or broadcast
  join,        \* the join request being handled
  err,         \* server_remove_client: a close or remove failed
  taken,       \* the signals whose handler has been entered
  log,         \* history: every message whose broadcast has begun
  from,        \* history: where in log a client's JOINED is, 0 before
  heard        \* history: how many messages of a client are in log

serverVars == <<spc, join_ready, n_clients, client, data_ready, i, k, mesg,
                join, err, taken, log, from, heard>>

-----------------------------------------------------------------------------
Slots == 0 .. MaxClients - 1
NoMesg == [kind |-> "NONE", name |-> NoClient, body |-> 0]

Starting == {"remove", "mkfifo", "open"}
Running  == {"select", "join", "openTC", "openTS", "append", "bcast",
             "serve", "rmClose", "rmUnlink", "rmShift"}
Handler  == {"sdUnlink", "sdWrite", "sdRemove", "sdClose",
             "sdForget", "sdShift", "sdExit"}
Stopped  == {"exit0", "exit1", "sigpipe"}

(* The clients the array holds, and the slots they are in.                 *)
Used == 0 .. n_clients - 1
Members == {client[j] : j \in Used}

ServerTypeOK ==
  /\ spc \in Starting \cup Running \cup Handler \cup Stopped
  /\ join_ready \in BOOLEAN
  /\ n_clients \in 0 .. MaxClients
  /\ client \in [Slots -> Clients \cup {NoClient}]
  /\ data_ready \in [Slots -> BOOLEAN]
  /\ i \in 0 .. MaxClients
  /\ k \in 0 .. MaxClients
  /\ mesg \in Mesg \cup {NoMesg}
  /\ join \in Clients \cup {NoClient}
  /\ err \in BOOLEAN
  /\ taken \subseteq Signals
  /\ log \in Seq(Mesg)
  /\ from \in [Clients -> Nat]
  /\ heard \in [Clients -> Nat]

(* server_actual is static: all zero when main begins.                     *)
ServerInit ==
  /\ spc = "remove"
  /\ join_ready = FALSE /\ n_clients = 0
  /\ client = [j \in Slots |-> NoClient]
  /\ data_ready = [j \in Slots |-> FALSE]
  /\ i = 0 /\ k = 0 /\ mesg = NoMesg /\ join = NoClient
  /\ err = FALSE /\ taken = {}
  /\ log = <<>>
  /\ from = [c \in Clients |-> 0]
  /\ heard = [c \in Clients |-> 0]

-----------------------------------------------------------------------------
(* The array and the history are left alone.                               *)
SameArray == UNCHANGED <<n_clients, client, data_ready>>
SameHistory == UNCHANGED <<log, from, heard>>
SameEnds == UNCHANGED <<tsW, tsR, tcR, tcW>>
SameJoinFifo == UNCHANGED <<joinFile, joinR, joinW, joinHad, joinQ>>

(* exit, or death by a signal nobody handles.                              *)
Die(how) ==
  /\ spc' = how
  /\ i' = 0 /\ k' = 0 /\ mesg' = NoMesg /\ join' = NoClient
  /\ CloseAllOfServer
  /\ UNCHANGED <<join_ready, err, taken>> /\ SameArray /\ SameHistory

(* Entering server_broadcast with m.                                       *)
BeginBroadcast(m) ==
  /\ spc' = "bcast" /\ k' = 0 /\ mesg' = m
  /\ log' = Append(log, m)

(* m, read from the FIFO of c, enters the log.                             *)
Hear(c) == heard' = [heard EXCEPT ![c] = @ + 1]

-----------------------------------------------------------------------------
(* server_start: drop a FIFO of that name, make one, open it.              *)
StartRemove ==
  /\ spc = "remove"
  /\ joinFile' = "none" /\ spc' = "mkfifo"
  /\ UNCHANGED <<joinR, joinW, joinHad, joinQ, fifoFiles, toServer, toClient,
                 join_ready, i, k, mesg, join, err, taken>>
  /\ SameEnds /\ SameArray /\ SameHistory

StartMkfifo ==
  /\ spc = "mkfifo"
  /\ joinFile' = "fresh" /\ spc' = "open"
  /\ UNCHANGED <<joinR, joinW, joinHad, joinQ, fifoFiles, toServer, toClient,
                 join_ready, i, k, mesg, join, err, taken>>
  /\ SameEnds /\ SameArray /\ SameHistory

StartOpen ==
  /\ spc = "open"
  /\ joinR' = TRUE /\ join_ready' = FALSE /\ n_clients' = 0
  /\ spc' = "select"
  /\ UNCHANGED <<joinFile, joinW, joinHad, joinQ, fifoFiles, toServer,
                 toClient, client, data_ready, i, k, mesg, join, err, taken>>
  /\ SameEnds /\ SameHistory

-----------------------------------------------------------------------------
(* server_add_client finds no free slot.  Mutant: one client too late.     *)
FullTooLate == n_clients > MaxClients
Full == n_clients = MaxClients

(* The condition of the loops over the clients of main and of              *)
(* server_shutdown.  Mutant: the last client is left out.                  *)
MissesLast == i + 1 < n_clients
InLoop == i < n_clients

(* The last line of server_handle_client: the flag of the slot goes down.  *)
(* Mutant: it stays up.                                                    *)
KeepFlag == UNCHANGED data_ready
LowerFlag == data_ready' = [data_ready EXCEPT ![i] = FALSE]

(* server_remove_client takes one off the count.  Mutant: it forgets to.   *)
KeepCount == UNCHANGED n_clients
CountDown == n_clients' = n_clients - 1

(* Where its shift begins.  Mutant: one slot too far.                      *)
ShiftTooFar == i + 2
ShiftFrom == i + 1

(* read takes one message.  Mutant: the rest of what the FIFO holds is     *)
(* taken with it.                                                          *)
TakeAll(c) == toServer' = [toServer EXCEPT ![c] = <<>>]
TakeOne(c) == toServer' = [toServer EXCEPT ![c] = Tail(@)]

-----------------------------------------------------------------------------
(* server_check_sources: block in select until a source is readable, then  *)
(* raise the flags of those that are.                                      *)
CheckSources ==
  /\ spc = "select"
  /\ JoinReadable \/ \E j \in Used : ClientReadable(client[j])
  /\ join_ready' = (join_ready \/ JoinReadable)
  /\ data_ready' = [j \in Slots |->
                      data_ready[j] \/ (j \in Used /\ ClientReadable(client[j]))]
  /\ spc' = IF join_ready' THEN "join" ELSE "serve"
  /\ i' = 0
  /\ UNCHANGED <<n_clients, client, k, mesg, join, err, taken, fifoVars>>
  /\ SameHistory

(* server_handle_join up to the opens of server_add_client.  When the      *)
(* array is full server_add_client returns -1, which nobody looks at: the  *)
(* broadcast follows all the same.                                         *)
ReadJoin ==
  /\ spc = "join"
  /\ joinQ # <<>>
  /\ join' = Head(joinQ) /\ joinQ' = Tail(joinQ)
  /\ IF Full
       THEN BeginBroadcast(Joined(Head(joinQ)))
       ELSE spc' = "openTC" /\ UNCHANGED <<k, mesg, log>>
  /\ UNCHANGED <<joinFile, joinR, joinW, joinHad, fifoFiles, toServer,
                 toClient, join_ready, i, err, taken, from, heard>>
  /\ SameEnds /\ SameArray

(* The same with every writer gone: read returns 0, join_t stays zeroed    *)
(* and its file names are empty, so the first open fails.                  *)
ReadJoinEOF ==
  /\ spc = "join"
  /\ joinQ = <<>> /\ joinW = {}
  /\ IF Full
       THEN /\ join' = NoClient
            /\ BeginBroadcast(Joined(NoClient))
            /\ UNCHANGED <<join_ready, i, err, taken, from, heard, fifoVars>>
            /\ SameArray
       ELSE Die("exit1")

(* A client has opened the FIFO since and not written yet: read on the     *)
(* non-blocking descriptor fails, and check_fail ends the server.          *)
ReadJoinAgain ==
  /\ spc = "join"
  /\ joinQ = <<>> /\ joinW # {}
  /\ Die("exit1")

(* The end of server_add_client, and the broadcast of server_handle_join.  *)
AddClient ==
  /\ spc = "append"
  /\ client' = [client EXCEPT ![n_clients] = join]
  /\ data_ready' = [data_ready EXCEPT ![n_clients] = FALSE]
  /\ n_clients' = n_clients + 1
  /\ from' = [from EXCEPT ![join] = Len(log) + 1]
  /\ BeginBroadcast(Joined(join))
  /\ UNCHANGED <<join_ready, i, join, err, taken, heard, fifoVars>>

-----------------------------------------------------------------------------
(* Where server_broadcast returns to: the rest of server_handle_join, or   *)
(* the last line of server_handle_client, which clears the flag of the     *)
(* slot the client was in when it was read from.                           *)
EndBroadcast ==
  /\ spc = "bcast" /\ k >= n_clients
  /\ IF mesg.kind = "JOINED"
       THEN join_ready' = FALSE /\ i' = 0 /\ UNCHANGED data_ready
       ELSE LowerFlag /\ i' = i + 1 /\ UNCHANGED join_ready
  /\ spc' = "serve" /\ k' = 0 /\ mesg' = NoMesg /\ join' = NoClient
  /\ UNCHANGED <<n_clients, client, err, taken, fifoVars>>
  /\ SameHistory

(* write to a client.  A full FIFO blocks the server here; a reader that   *)
(* is gone is SIGPIPE, and a descriptor that was closed before fails.      *)
(* Mutant: what does not fit is dropped.                                   *)
PushOrDrop(c, m) ==
  /\ c \in tcR \cap tcW
  /\ toClient' = [toClient EXCEPT ![c] = IF RoomTo(c) THEN Append(@, m) ELSE @]
  /\ UNCHANGED <<fifoFiles, toServer>> /\ SameJoinFifo /\ SameEnds

Push(c, m) ==
  /\ c \in tcR \cap tcW /\ RoomTo(c)
  /\ toClient' = [toClient EXCEPT ![c] = Append(@, m)]
  /\ UNCHANGED <<fifoFiles, toServer>> /\ SameJoinFifo /\ SameEnds

PushFails(c) ==
  /\ c \notin tcR \cap tcW
  /\ Die(IF c \in tcW THEN "sigpipe" ELSE "exit1")

BroadcastWrite ==
  /\ spc = "bcast" /\ k < n_clients
  /\ LET c == client[k]
     IN  \/ /\ Push(c, mesg)
            /\ k' = k + 1
            /\ UNCHANGED <<spc, join_ready, i, mesg, join, err, taken>>
            /\ SameArray /\ SameHistory
         \/ PushFails(c)

-----------------------------------------------------------------------------
(* The loop of main over the clients: a slot whose flag is down is passed  *)
(* over, and the end of the array leads back to select.                    *)
PassOver ==
  /\ spc = "serve"
  /\ \/ ~InLoop /\ spc' = "select" /\ i' = 0
     \/ InLoop /\ ~data_ready[i] /\ i' = i + 1 /\ UNCHANGED spc
  /\ UNCHANGED <<join_ready, k, mesg, join, err, taken, fifoVars>>
  /\ SameArray /\ SameHistory

(* The kinds server_handle_client hands on at once.  Mutant: a departing   *)
(* client stays in the array.                                              *)
BroadcastsAll(m) == TRUE
BroadcastsOnly(m) == m.kind = "MESG"

(* server_handle_client: read one message and act on its kind.  A client   *)
(* that is gone leaves end of file: nothing is done but clear its flag.    *)
HandleClient ==
  /\ spc = "serve" /\ InLoop /\ data_ready[i]
  /\ LET c == client[i]
     IN  \/ /\ toServer[c] # <<>>
            /\ TakeOne(c)
            /\ LET m == Head(toServer[c])
               IN  IF BroadcastsOnly(m)
                     THEN BeginBroadcast(m) /\ Hear(c)
                     ELSE /\ spc' = "rmClose" /\ mesg' = m
                          /\ UNCHANGED <<k, log, heard>>
            /\ UNCHANGED <<i, data_ready>>
         \/ /\ toServer[c] = <<>> /\ c \notin tsW
            /\ LowerFlag /\ i' = i + 1
            /\ UNCHANGED <<toServer, spc, k, mesg, log, heard>>
  /\ UNCHANGED <<fifoFiles, toClient, join_ready, n_clients, client, join,
                 err, taken, from>>
  /\ SameJoinFifo /\ SameEnds

-----------------------------------------------------------------------------
(* server_remove_client(server, i), called by server_handle_client (the    *)
(* rm steps) and by server_shutdown (the sd steps).  It fails when one of  *)
(* the four close and remove calls does, after making all of them.         *)
CloseFds(at, next) ==
  LET c == client[i]
  IN  /\ spc = at /\ spc' = next
      /\ tsR' = tsR \ {c} /\ tcW' = tcW \ {c}
      /\ err' = (c \notin tsR \cap tcW)
      /\ UNCHANGED <<fifoFiles, toServer, toClient, tsW, tcR, join_ready, i,
                     k, mesg, join, taken>>
      /\ SameJoinFifo /\ SameArray /\ SameHistory

UnlinkFifos(at, next) ==
  /\ spc = at /\ spc' = next
  /\ fifoFiles' = fifoFiles \ {client[i]}
  /\ err' = (err \/ client[i] \notin fifoFiles)
  /\ k' = ShiftFrom
  /\ UNCHANGED <<toServer, toClient, join_ready, i, mesg, join, taken>>
  /\ SameJoinFifo /\ SameEnds /\ SameArray /\ SameHistory

(* One round of the loop that shifts the remaining clients.                *)
ShiftOne(at) ==
  /\ spc = at /\ ~err /\ k < n_clients
  /\ client' = [client EXCEPT ![k - 1] = client[k]]
  /\ data_ready' = [data_ready EXCEPT ![k - 1] = data_ready[k]]
  /\ k' = k + 1
  /\ UNCHANGED <<spc, join_ready, n_clients, i, mesg, join, err, taken,
                 fifoVars>>
  /\ SameHistory

RemoveClose  == CloseFds("rmClose", "rmUnlink")
RemoveUnlink == UnlinkFifos("rmUnlink", "rmShift")
RemoveShift  == ShiftOne("rmShift")

(* The count goes down and server_handle_client, which ignores a failure,  *)
(* tells the others.                                                       *)
RemoveEnd ==
  /\ spc = "rmShift" /\ (err \/ k >= n_clients)
  /\ IF err THEN UNCHANGED n_clients ELSE CountDown
  /\ err' = FALSE
  /\ BeginBroadcast(mesg) /\ Hear(mesg.name)
  /\ UNCHANGED <<join_ready, client, data_ready, i, join, taken, from,
                 fifoVars>>

-----------------------------------------------------------------------------
(* handle_signals.  A signal is masked while its own handler runs, and the *)
(* handler never returns, so each is taken at most once; sa_mask is empty, *)
(* so the other one may still interrupt the handler.  Before the name of   *)
(* the server is stored nothing of it is removed.                          *)
TakeSignal(s) ==
  /\ spc \notin Stopped
  /\ s \notin taken /\ taken' = taken \cup {s}
  /\ joinR' = FALSE
  /\ spc' = IF spc \in Starting \cup {"sdExit"} THEN "sdExit" ELSE "sdUnlink"
  /\ i' = 0 /\ k' = 0 /\ mesg' = NoMesg /\ join' = NoClient
  /\ err' = FALSE
  /\ UNCHANGED <<joinFile, joinW, joinHad, joinQ, fifoFiles, toServer,
                 toClient, join_ready>>
  /\ SameEnds /\ SameArray /\ SameHistory

(* server_shutdown: remove the join FIFO's name ...                        *)
ShutdownUnlink ==
  /\ spc = "sdUnlink"
  /\ joinFile' = "none" /\ spc' = "sdWrite"
  /\ UNCHANGED <<joinR, joinW, joinHad, joinQ, fifoFiles, toServer, toClient,
                 join_ready, i, k, mesg, join, err, taken>>
  /\ SameEnds /\ SameArray /\ SameHistory

(* ... tell every client; a descriptor that server_remove_client closed    *)
(* before the signal makes write fail, a reader that is gone is SIGPIPE ... *)
ShutdownWrite ==
  /\ spc = "sdWrite"
  /\ \/ /\ InLoop /\ Push(client[i], ShutdownMesg)
        /\ i' = i + 1
        /\ UNCHANGED <<spc, join_ready, k, mesg, join, err, taken>>
        /\ SameArray /\ SameHistory
     \/ InLoop /\ PushFails(client[i])
     \/ /\ ~InLoop /\ spc' = "sdRemove" /\ i' = 0
        /\ UNCHANGED <<join_ready, k, mesg, join, err, taken, fifoVars>>
        /\ SameArray /\ SameHistory

(* ... and remove client i for i = 0, 1, ... while there is one.           *)
ShutdownRemove ==
  /\ spc = "sdRemove"
  /\ spc' = IF InLoop THEN "sdClose" ELSE "sdExit"
  /\ UNCHANGED <<join_ready, i, k, mesg, join, err, taken, fifoVars>>
  /\ SameArray /\ SameHistory

ShutdownClose  == CloseFds("sdClose", "sdForget")
ShutdownForget == UnlinkFifos("sdForget", "sdShift")
ShutdownShift  == ShiftOne("sdShift")

ShutdownRemoved ==
  /\ spc = "sdShift"
  /\ IF err
       THEN Die("exit1")
       ELSE /\ k >= n_clients /\ CountDown
            /\ spc' = "sdRemove" /\ i' = i + 1 /\ k' = 0
            /\ UNCHANGED <<join_ready, client, data_ready, mesg, join, err,
                           taken, fifoVars>>
            /\ SameHistory

ShutdownExit == spc = "sdExit" /\ Die("exit0")

-----------------------------------------------------------------------------
ServerStart == StartRemove \/ StartMkfifo \/ StartOpen

ServerLoop ==
  \/ CheckSources \/ ReadJoin \/ ReadJoinEOF \/ ReadJoinAgain \/ AddClient
  \/ BroadcastWrite \/ EndBroadcast \/ PassOver \/ HandleClient
  \/ RemoveClose \/ RemoveUnlink \/ RemoveShift \/ RemoveEnd

ServerShutdown ==
  \/ ShutdownUnlink \/ ShutdownWrite \/ ShutdownRemove
  \/ ShutdownClose \/ ShutdownForget \/ ShutdownShift \/ ShutdownRemoved
  \/ ShutdownExit

ServerStep == ServerStart \/ ServerLoop \/ ServerShutdown
=============================================================================
