---------------------------- MODULE BlatherFifo ----------------------------
(***************************************************************************)
(* The named pipes through which the Unix chat service talks: one join     *)
(* FIFO, named after the server, and a pair of FIFOs for each client.      *)
(* This module declares what the kernel keeps about them and what open,    *)
(* write, select and the end of a process do to it.  The kernel is not     *)
(* part of the sources: its rules are taken from how server.c and          *)
(* bl-client.c use the calls (blocking opens on the two client FIFOs, a    *)
(* non-blocking open of the join FIFO, no handler for SIGPIPE).            *)
(***************************************************************************)
EXTENDS Integers, Sequences, FiniteSets

CONSTANTS
  Clients,     \* the client processes that may be started
  NoClient,    \* the empty name of a zeroed join_t
  MaxClients,  \* MAXCLIENTS of blather.h
  PipeCap      \* how many mesg_t one FIFO holds (48 on Linux)

ASSUME ClientsAssumption == NoClient \notin Clients
ASSUME MaxClientsAssumption == MaxClients \in Nat \ {0}
ASSUME PipeCapAssumption == PipeCap \in Nat \ {0}

VARIABLES
  joinFile,   \* the server's name in the directory: none, stale or fresh
  joinR,      \* the server holds the join FIFO open for reading
  joinW,      \* the clients that hold it open for writing
  joinHad,    \* a writer has opened it: end of file is now reported
  joinQ,      \* the join requests in it, by client
  fifoFiles,  \* the clients whose two FIFOs have a name in the directory
  toServer,   \* what the FIFO from each client holds
  toClient,   \* what the FIFO to each client holds
  tsW, tsR,   \* clients whose to_server FIFO is open: by client, by server
  tcR, tcW    \* clients whose to_client FIFO is open: by client, by server

fifoVars == <<joinFile, joinR, joinW, joinHad, joinQ, fifoFiles,
              toServer, toClient, tsW, tsR, tcR, tcW>>

-----------------------------------------------------------------------------
(* mesg_t: the kind, whom it names, and the line it carries.  The n-th     *)
(* line a client types stands for its body; it is 0 when there is none.    *)
ClientMesg == [kind : {"MESG", "DEPARTED"}, name : Clients, body : Nat]
ServerMesg == [kind : {"JOINED"}, name : Clients \cup {NoClient}, body : {0}]

(* Mutant: the kind of the message is not set.                             *)
KindlessShutdown == [kind |-> "NONE", name |-> NoClient, body |-> 0]
ShutdownMesg == [kind |-> "SHUTDOWN", name |-> NoClient, body |-> 0]
Mesg == ClientMesg \cup ServerMesg \cup {ShutdownMesg}

(* Mutant: the name is not copied into the message.                        *)
NamelessDeparted(c) == [kind |-> "DEPARTED", name |-> NoClient, body |-> 0]

Line(c, n)  == [kind |-> "MESG", name |-> c, body |-> n]
Departed(c) == [kind |-> "DEPARTED", name |-> c, body |-> 0]
Joined(c)   == [kind |-> "JOINED", name |-> c, body |-> 0]

-----------------------------------------------------------------------------
FifoTypeOK ==
  /\ joinFile \in {"none", "stale", "fresh"}
  /\ joinR \in BOOLEAN
  /\ joinW \subseteq Clients
  /\ joinHad \in BOOLEAN
  /\ joinQ \in Seq(Clients)
  /\ fifoFiles \subseteq Clients
  /\ toServer \in [Clients -> Seq(ClientMesg)]
  /\ toClient \in [Clients -> Seq(Mesg)]
  /\ tsW \subseteq Clients /\ tsR \subseteq Clients
  /\ tcR \subseteq Clients /\ tcW \subseteq Clients

(* Nothing is open.  A server that was killed before may have left its     *)
(* join FIFO behind.                                                       *)
FifoInit ==
  /\ joinFile \in {"none", "stale"}
  /\ joinR = FALSE /\ joinW = {} /\ joinHad = FALSE /\ joinQ = <<>>
  /\ fifoFiles = {}
  /\ toServer = [c \in Clients |-> <<>>]
  /\ toClient = [c \in Clients |-> <<>>]
  /\ tsW = {} /\ tsR = {} /\ tcR = {} /\ tcW = {}

-----------------------------------------------------------------------------
(* read and select take a FIFO as readable when it holds something, or     *)
(* when every writer it ever had is gone and read would return 0.          *)
JoinReadable == joinQ # <<>> \/ (joinHad /\ joinW = {})
ClientReadable(c) == toServer[c] # <<>> \/ c \notin tsW

(* A write to a FIFO blocks while it is full.                              *)
RoomTo(c) == Len(toClient[c]) < PipeCap
RoomFrom(c) == Len(toServer[c]) < PipeCap

(* When a process ends the kernel closes what it held open.  What lies in  *)
(* a to_client FIFO can be read by nobody once its client is gone; what    *)
(* lies in a to_server FIFO still can.                                     *)
CloseAllOfServer ==
  /\ joinR' = FALSE
  /\ tsR' = {} /\ tcW' = {}
  /\ UNCHANGED <<joinFile, joinW, joinHad, joinQ, fifoFiles, toServer,
                 toClient, tsW, tcR>>

CloseAllOfClient(c) ==
  /\ joinW' = joinW \ {c}
  /\ tsW' = tsW \ {c} /\ tcR' = tcR \ {c}
  /\ toClient' = [toClient EXCEPT ![c] = <<>>]
  /\ UNCHANGED <<joinFile, joinR, joinHad, joinQ, fifoFiles, toServer,
                 tsR, tcW>>
=============================================================================
