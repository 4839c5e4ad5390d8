--------------------------- MODULE BlatherProofs ----------------------------
(***************************************************************************)
(* The inductive invariant Inv holds of every behaviour of the service, for*)
(* any number of clients, slots, lines and kills, and for FIFOs of any size:*)
(* every variable has its type; the client array is intact outside a       *)
(* removal, wherever a signal strikes; the server never reads where it may *)
(* wait for ever; and only a server whose clients have all gone finds no   *)
(* request to join.  And how the service ends for each of its clients.     *)
(***************************************************************************)
EXTENDS BlatherInv, TLAPS

Typed == TypeOK /\ Registers

(* The messages the programs build are messages.                           *)
LEMMA MesgTypes ==
  /\ \A c \in Clients, n \in Nat : Line(c, n) \in ClientMesg
  /\ \A c \in Clients : Departed(c) \in ClientMesg
  /\ \A c \in Clients \cup {NoClient} : Joined(c) \in ServerMesg
  /\ \A m \in ClientMesg : m.name \in Clients /\ m \in Mesg
  /\ \A m \in ServerMesg : m.kind = "JOINED" /\ m \in Mesg
  /\ ShutdownMesg \in Mesg
  BY DEF ClientMesg, ServerMesg, Mesg, Line, Departed, Joined

(* A shorter array has no slot the longer one lacks.                       *)
LEMMA FewerSlots ==
  ASSUME NEW a \in Nat, NEW b \in Nat, b <= a
  PROVE  \A j \in 0 .. b - 1 : j \in 0 .. a - 1
  OBVIOUS

(* The initial states are typed.                                           *)
LEMMA TypedInit == Init => Typed
  <1> SUFFICES ASSUME Init PROVE Typed
    OBVIOUS
  <1> DEFINE Empty == [c \in Clients |-> <<>>]
  <1>a. Empty \in [Clients -> Seq(ClientMesg)] /\ Empty \in [Clients -> Seq(Mesg)]
    OBVIOUS
  <1>1. FifoTypeOK
    <2>1. joinQ \in Seq(Clients)
      BY DEF Init, FifoInit
    <2>2. QED
      BY <1>a, <2>1 DEF Init, FifoInit, FifoTypeOK
  <1>2. ServerTypeOK
    <2> USE DEF Init, ServerInit
    <2>1. n_clients \in 0 .. MaxClients /\ i \in 0 .. MaxClients
          /\ k \in 0 .. MaxClients
      BY MaxClientsAssumption
    <2>2. /\ client \in [Slots -> Clients \cup {NoClient}]
          /\ data_ready \in [Slots -> BOOLEAN]
      OBVIOUS
    <2>3. /\ mesg \in Mesg \cup {NoMesg} /\ join \in Clients \cup {NoClient}
          /\ taken \subseteq Signals /\ spc \in Starting
      BY DEF Starting
    <2>4. log \in Seq(Mesg)
      OBVIOUS
    <2>5. from \in [Clients -> Nat] /\ heard \in [Clients -> Nat]
      OBVIOUS
    <2>6. QED
      BY <2>1, <2>2, <2>3, <2>4, <2>5 DEF ServerTypeOK
  <1>3. ClientTypeOK
    BY <1>a DEF Init, ClientInit, ClientTypeOK
  <1>4. Registers
    BY DEF Init, ServerInit, Registers, Starting, Opening, Removing, Dropping,
           Used
  <1>5. QED
    BY <1>1, <1>2, <1>3, <1>4 DEF Typed, TypeOK

(* The end of the server.                                                  *)
LEMMA TypedDie ==
  ASSUME Typed, NEW how \in Stopped, Die(how), UNCHANGED clientVars
  PROVE  Typed'
  <1> USE DEF Typed, TypeOK, Die, CloseAllOfServer, SameArray, SameHistory
  <1>1. FifoTypeOK'
    BY DEF FifoTypeOK
  <1>2. ServerTypeOK'
    BY MaxClientsAssumption DEF ServerTypeOK
  <1>3. ClientTypeOK'
    BY DEF ClientTypeOK, clientVars
  <1>4. Registers'
    BY DEF Registers, Starting, Opening, Removing, Dropping, Stopped, Used
  <1>5. QED
    BY <1>1, <1>2, <1>3, <1>4

(* Starting a broadcast.                                                   *)
LEMMA TypedBroadcast ==
  ASSUME Typed, NEW m \in ClientMesg \cup ServerMesg, BeginBroadcast(m)
  PROVE  /\ spc' = "bcast" /\ k' = 0 /\ mesg' = m
         /\ mesg' \in Mesg \cup {NoMesg} /\ log' \in Seq(Mesg)
         /\ k' \in 0 .. MaxClients
  <1>1. m \in Mesg
    BY DEF Mesg
  <1>2. log \in Seq(Mesg)
    BY DEF Typed, TypeOK, ServerTypeOK
  <1>3. QED
    BY <1>1, <1>2, MaxClientsAssumption DEF BeginBroadcast

(* Writing to a client.                                                    *)
LEMMA TypedPush ==
  ASSUME Typed, NEW c, NEW m \in Mesg, Push(c, m)
  PROVE  FifoTypeOK'
  <1> USE DEF Typed, TypeOK, FifoTypeOK, Push, SameJoinFifo, SameEnds
  <1>1. toClient' \in [Clients -> Seq(Mesg)]
    <2>1. ASSUME c \in Clients PROVE Append(toClient[c], m) \in Seq(Mesg)
      BY <2>1
    <2>2. QED
      BY <2>1
  <1>2. QED
    BY <1>1

(* The steps that only move the server on, raise or lower a flag, or close *)
(* a descriptor.                                                           *)
LEMMA TypedQuiet ==
  ASSUME Typed, UNCHANGED clientVars,
         \/ StartRemove \/ StartMkfifo \/ StartOpen \/ CheckSources
         \/ PassOver \/ RemoveClose \/ ShutdownUnlink \/ ShutdownRemove
         \/ ShutdownClose
  PROVE  Typed'
  <1> USE MaxClientsAssumption
      DEF Typed, TypeOK, StartRemove, StartMkfifo, StartOpen, CheckSources,
          PassOver, RemoveClose, ShutdownUnlink, ShutdownRemove,
          ShutdownClose, CloseFds, InLoop, SameArray
  <1>1. ClientTypeOK'
    BY DEF ClientTypeOK, clientVars
  <1>2. FifoTypeOK'
    BY DEF FifoTypeOK, SameEnds, SameJoinFifo, fifoVars
  <1>3. ServerTypeOK'
    <2>0. err' \in BOOLEAN /\ join_ready' \in BOOLEAN
      BY DEF ServerTypeOK
    <2>1. /\ n_clients' \in 0 .. MaxClients /\ i' \in 0 .. MaxClients
          /\ k' \in 0 .. MaxClients
      BY DEF ServerTypeOK
    <2>2. /\ data_ready' \in [Slots -> BOOLEAN]
          /\ UNCHANGED <<client, mesg, join, taken, log, from, heard>>
      BY DEF ServerTypeOK, SameHistory
    <2>3. spc' \in Starting \cup Running \cup Handler
      BY DEF Starting, Running, Handler
    <2>4. QED
      BY <2>0, <2>1, <2>2, <2>3 DEF ServerTypeOK
  <1>4. Registers'
    BY DEF Registers, ServerTypeOK, Slots, Opening, Removing, Dropping,
           Starting, Used
  <1>5. QED
    BY <1>1, <1>2, <1>3, <1>4

(* Every step of the server.                                               *)
LEMMA TypedServer ==
  ASSUME Typed, ServerStep, UNCHANGED clientVars
  PROVE  Typed'
  <1> USE MaxClientsAssumption DEF Typed, TypeOK
  <1>0. ClientTypeOK'
    BY DEF ClientTypeOK, clientVars
  <1>1. CASE \/ StartRemove \/ StartMkfifo \/ StartOpen \/ CheckSources
             \/ PassOver \/ RemoveClose \/ ShutdownUnlink \/ ShutdownRemove
             \/ ShutdownClose
    BY <1>1, TypedQuiet
  <1>2. CASE EndBroadcast
    <2>1. FifoTypeOK'
      BY <1>2 DEF EndBroadcast, FifoTypeOK, fifoVars
    <2>2. data_ready' \in [Slots -> BOOLEAN] /\ join_ready' \in BOOLEAN
      BY <1>2 DEF EndBroadcast, ServerTypeOK, LowerFlag
    <2>3. i' \in 0 .. MaxClients /\ k' \in 0 .. MaxClients
      BY <1>2 DEF EndBroadcast, ServerTypeOK, Registers
    <2>4. ServerTypeOK'
      BY <1>2, <2>2, <2>3 DEF EndBroadcast, ServerTypeOK, SameHistory, Running
    <2>5. Registers'
      BY <1>2
      DEF EndBroadcast, Registers, Opening, Removing, Dropping, Starting, Used
    <2>6. QED
      BY <1>0, <2>1, <2>4, <2>5
  <1>3. CASE ReadJoin
    <2> DEFINE c == Head(joinQ)
    <2>1. c \in Clients /\ Tail(joinQ) \in Seq(Clients)
      BY <1>3 DEF ReadJoin, FifoTypeOK
    <2>2. FifoTypeOK'
      BY <1>3, <2>1 DEF ReadJoin, FifoTypeOK, SameEnds
    <2>3. CASE Full
      <3>1. BeginBroadcast(Joined(c))
        BY <1>3, <2>3 DEF ReadJoin
      <3>2. Joined(c) \in ServerMesg /\ Joined(c).kind = "JOINED"
        BY <2>1, MesgTypes
      <3>3. ServerTypeOK'
        BY <1>3, <2>1, <3>1, <3>2, TypedBroadcast
        DEF ReadJoin, ServerTypeOK, SameArray, Running
      <3>4. Registers'
        BY <1>3, <3>1, <3>2, TypedBroadcast
        DEF ReadJoin, ServerTypeOK, SameArray, Registers, Opening, Removing,
            Dropping, Starting, Used
      <3>5. QED
        BY <1>0, <2>2, <3>3, <3>4
    <2>4. CASE ~Full
      <3>1. ServerTypeOK'
        BY <1>3, <2>1, <2>4 DEF ReadJoin, ServerTypeOK, SameArray, Running
      <3>2. Registers'
        BY <1>3, <2>1, <2>4
        DEF ReadJoin, ServerTypeOK, SameArray, Registers, Full, Opening,
            Removing, Dropping, Starting, Used
      <3>3. QED
        BY <1>0, <2>2, <3>1, <3>2
    <2>5. QED
      BY <2>3, <2>4
  <1>4. CASE ReadJoinEOF
    <2>1. CASE Full
      <3>1. BeginBroadcast(Joined(NoClient))
        BY <1>4, <2>1 DEF ReadJoinEOF
      <3>2. /\ Joined(NoClient) \in ServerMesg
            /\ Joined(NoClient).kind = "JOINED"
        BY MesgTypes
      <3>3. FifoTypeOK'
        BY <1>4, <2>1 DEF ReadJoinEOF, FifoTypeOK, fifoVars
      <3>4. ServerTypeOK'
        BY <1>4, <2>1, <3>1, <3>2, TypedBroadcast
        DEF ReadJoinEOF, ServerTypeOK, SameArray, Running
      <3>5. Registers'
        BY <1>4, <2>1, <3>1, <3>2, TypedBroadcast
        DEF ReadJoinEOF, ServerTypeOK, SameArray, Registers, Opening, Removing,
            Dropping, Starting, Used
      <3>6. QED
        BY <1>0, <3>3, <3>4, <3>5
    <2>2. CASE ~Full
      <3>1. Die("exit1")
        BY <1>4, <2>2 DEF ReadJoinEOF
      <3>2. QED
        BY <3>1, TypedDie DEF Stopped
    <2>3. QED
      BY <2>1, <2>2
  <1>5. CASE AddClient
    <2>1. join \in Clients /\ n_clients \in Slots /\ n_clients < MaxClients
      BY <1>5 DEF AddClient, Registers, Opening, ServerTypeOK, Slots
    <2>2. Joined(join) \in ServerMesg /\ Joined(join).kind = "JOINED"
      BY <2>1, MesgTypes
    <2>3. BeginBroadcast(Joined(join))
      BY <1>5 DEF AddClient
    <2>4. FifoTypeOK'
      BY <1>5 DEF AddClient, FifoTypeOK, fifoVars
    <2>5. from' \in [Clients -> Nat]
      <3>1. Len(log) + 1 \in Nat
        BY DEF ServerTypeOK
      <3>2. from' = [from EXCEPT ![join] = Len(log) + 1]
        BY <1>5 DEF AddClient
      <3>3. QED
        BY <3>1, <3>2 DEF ServerTypeOK
    <2>6. ServerTypeOK'
      BY <1>5, <2>1, <2>2, <2>3, <2>5, TypedBroadcast
      DEF AddClient, ServerTypeOK, Running
    <2>7. \A j \in Used' : client'[j] \in Clients
      BY <1>5, <2>1 DEF AddClient, ServerTypeOK, Registers, Used, Slots
    <2>a. spc' = "bcast" /\ k' = 0 /\ mesg' = Joined(join) /\ n_clients' = n_clients + 1
      BY <1>5 DEF AddClient, BeginBroadcast
    <2>b. k' <= n_clients'
      BY <2>1, <2>a DEF Slots
    <2>8. Registers'
      BY <2>2, <2>7, <2>a, <2>b
      DEF Registers, Opening, Removing, Dropping, Starting
    <2>9. QED
      BY <1>0, <2>4, <2>6, <2>8
  <1>6. CASE BroadcastWrite
    <2> DEFINE c == client[k]
    <2>1. CASE Push(c, mesg) /\ k' = k + 1
      <3>1. mesg \in Mesg
        BY <1>6 DEF BroadcastWrite, Mesg, Registers
      <3>2. FifoTypeOK'
        BY <2>1, <3>1, TypedPush
      <3>3. UNCHANGED <<spc, join_ready, i, mesg, join, err, taken,
                        n_clients, client, data_ready, log, from, heard>>
        BY <1>6, <2>1 DEF BroadcastWrite, SameArray, SameHistory, PushFails,
                       Push, Die, CloseAllOfServer
      <3>4. ServerTypeOK'
        BY <1>6, <2>1, <3>3 DEF BroadcastWrite, ServerTypeOK
      <3>5. Registers'
        BY <1>6, <2>1, <3>3
        DEF BroadcastWrite, Registers, ServerTypeOK, Opening, Removing,
            Dropping, Starting, Used
      <3>6. QED
        BY <1>0, <3>2, <3>4, <3>5
    <2>2. CASE PushFails(c)
      BY <2>2, TypedDie DEF PushFails, Stopped
    <2>3. QED
      BY <1>6, <2>1, <2>2 DEF BroadcastWrite
  <1>7. CASE HandleClient
    <2> DEFINE c == client[i]
               m == Head(toServer[c])
    <2>1. i \in Slots /\ i + 1 \in 0 .. MaxClients /\ i < n_clients
          /\ c \in Clients
      BY <1>7 DEF HandleClient, InLoop, Registers, ServerTypeOK, Used, Slots
    <2>2. /\ UNCHANGED <<fifoFiles, toClient, join_ready, n_clients, client,
                         join, err, taken, from>>
          /\ SameJoinFifo /\ SameEnds
      BY <1>7 DEF HandleClient
    <2>3. CASE toServer[c] # <<>> /\ TakeOne(c)
      <3>1. toServer[c] \in Seq(ClientMesg) /\ m \in ClientMesg
            /\ Tail(toServer[c]) \in Seq(ClientMesg)
        BY <2>1, <2>3 DEF FifoTypeOK
      <3>2. toServer' \in [Clients -> Seq(ClientMesg)]
        BY <2>3, <3>1 DEF FifoTypeOK, TakeOne
      <3>3. FifoTypeOK'
        BY <2>2, <3>2 DEF FifoTypeOK, SameJoinFifo, SameEnds
      <3>4. UNCHANGED <<i, data_ready>>
        BY <1>7, <2>3 DEF HandleClient
      <3>5. CASE BroadcastsOnly(m)
        <4>1. BeginBroadcast(m) /\ Hear(c)
          BY <1>7, <2>3, <3>5 DEF HandleClient
        <4>2. heard' \in [Clients -> Nat]
          BY <2>1, <4>1 DEF Hear, ServerTypeOK
        <4>3. ServerTypeOK'
          BY <2>2, <3>1, <3>4, <4>1, <4>2, TypedBroadcast
          DEF ServerTypeOK, Running
        <4>a. spc' = "bcast" /\ k' = 0 /\ mesg' = m
          BY <4>1 DEF BeginBroadcast
        <4>b. /\ UNCHANGED <<n_clients, client, i>> /\ i \in Nat /\ i < MaxClients
              /\ n_clients \in Nat
          BY <2>1, <2>2, <3>4 DEF ServerTypeOK, Slots
        <4>4. Registers'
          BY <2>1, <3>1, <4>a, <4>b
          DEF Registers, ServerTypeOK, Opening, Removing, Dropping, Starting, Used
        <4>5. QED
          BY <1>0, <3>3, <4>3, <4>4
      <3>6. CASE ~BroadcastsOnly(m)
        <4>1. spc' = "rmClose" /\ mesg' = m /\ UNCHANGED <<k, log, heard>>
          BY <1>7, <2>3, <3>6 DEF HandleClient
        <4>2. m \in Mesg
          BY <3>1 DEF Mesg
        <4>3. ServerTypeOK'
          BY <2>2, <3>4, <4>1, <4>2 DEF ServerTypeOK, Running
        <4>4. Registers'
          BY <2>1, <2>2, <3>1, <3>4, <4>1
          DEF Registers, Opening, Removing, Dropping, Starting,
              Used
        <4>5. QED
          BY <1>0, <3>3, <4>3, <4>4
      <3>7. QED
        BY <3>5, <3>6
    <2>4. CASE toServer[c] = <<>>
      <3>1. LowerFlag /\ i' = i + 1
            /\ UNCHANGED <<toServer, spc, k, mesg, log, heard>>
        BY <1>7, <2>4 DEF HandleClient
      <3>2. spc = "serve"
        BY <1>7 DEF HandleClient
      <3>3. FifoTypeOK'
        BY <2>2, <3>1 DEF FifoTypeOK, SameJoinFifo, SameEnds
      <3>4. ServerTypeOK'
        BY <2>1, <2>2, <3>1, <3>2 DEF ServerTypeOK, LowerFlag
      <3>5. Registers'
        BY <2>1, <2>2, <3>1, <3>2
        DEF Registers, Opening, Removing, Dropping, Starting, Used
      <3>6. QED
        BY <1>0, <3>3, <3>4, <3>5
    <2>5. QED
      BY <1>7, <2>3, <2>4 DEF HandleClient
  <1>8. CASE RemoveUnlink
    <2>1. FifoTypeOK'
      BY <1>8 DEF RemoveUnlink, UnlinkFifos, FifoTypeOK, SameEnds, SameJoinFifo
    <2>2. k' \in i + 1 .. n_clients /\ k' \in 0 .. MaxClients
      BY <1>8 DEF RemoveUnlink, UnlinkFifos, ShiftFrom, Registers, Removing,
                  ServerTypeOK
    <2>3. ServerTypeOK'
      BY <1>8, <2>2
      DEF RemoveUnlink, UnlinkFifos, ServerTypeOK, SameArray, SameHistory,
          Running
    <2>4. Registers'
      BY <1>8, <2>2
      DEF RemoveUnlink, UnlinkFifos, Registers, SameArray, Opening,
          Removing, Dropping, Starting, Used
    <2>5. QED
      BY <1>0, <2>1, <2>3, <2>4
  <1>9. CASE RemoveShift
    <2>1. FifoTypeOK'
      BY <1>9 DEF RemoveShift, ShiftOne, FifoTypeOK, fifoVars
    <2>2. k \in Used /\ k \in Slots /\ k' \in i + 1 .. n_clients
          /\ k' \in 0 .. MaxClients
      BY <1>9 DEF RemoveShift, ShiftOne, Registers, ServerTypeOK, Used, Slots
    <2>3. ServerTypeOK'
      BY <1>9, <2>2 DEF RemoveShift, ShiftOne, ServerTypeOK, SameHistory
    <2>4. \A j \in Used' : client'[j] \in Clients
      BY <1>9, <2>2
      DEF RemoveShift, ShiftOne, ServerTypeOK, Registers, Used, Slots
    <2>5. Registers'
      BY <1>9, <2>2, <2>4
      DEF RemoveShift, ShiftOne, Registers, Opening, Removing, Dropping,
          Starting
    <2>6. QED
      BY <1>0, <2>1, <2>3, <2>5
  <1>10. CASE RemoveEnd
    <2>1. BeginBroadcast(mesg) /\ mesg \in ClientMesg /\ i < n_clients
      BY <1>10 DEF RemoveEnd, Registers, Removing
    <2>2. heard' \in [Clients -> Nat]
      <3>1. mesg.name \in Clients
        BY <2>1, MesgTypes
      <3>2. heard' = [heard EXCEPT ![mesg.name] = @ + 1]
        BY <1>10 DEF RemoveEnd, Hear
      <3>3. QED
        BY <3>1, <3>2 DEF ServerTypeOK
    <2>3. /\ n_clients' \in 0 .. MaxClients
          /\ n_clients \in Nat /\ n_clients' \in Nat /\ n_clients' <= n_clients
      BY <1>10, <2>1 DEF RemoveEnd, CountDown, ServerTypeOK
    <2>4. FifoTypeOK'
      BY <1>10 DEF RemoveEnd, FifoTypeOK, fifoVars
    <2>5. ServerTypeOK'
      BY <1>10, <2>1, <2>2, <2>3, TypedBroadcast
      DEF RemoveEnd, ServerTypeOK, Running
    <2>6. Registers'
      <3>1. UNCHANGED <<client, i>> /\ spc' = "bcast" /\ k' = 0 /\ mesg' = mesg
        BY <1>10, <2>1, TypedBroadcast DEF RemoveEnd
      <3>2. \A j \in Used' : client'[j] \in Clients
        <4>1. \A j \in Used' : j \in Used
          BY <2>3, FewerSlots DEF Used
        <4>2. QED
          BY <3>1, <4>1 DEF Registers
      <3>3. QED
        BY <2>1, <2>3, <3>1, <3>2
        DEF Registers, ServerTypeOK, Opening, Removing, Dropping, Starting
    <2>7. QED
      BY <1>0, <2>4, <2>5, <2>6
  <1>11. CASE ShutdownWrite
    <2>1. CASE InLoop /\ Push(client[i], ShutdownMesg) /\ i' = i + 1
      <3>1. FifoTypeOK'
        BY <2>1, TypedPush, MesgTypes
      <3>2. UNCHANGED <<spc, join_ready, k, mesg, join, err, taken,
                        n_clients, client, data_ready, log, from, heard>>
        BY <1>11, <2>1 DEF ShutdownWrite, SameArray, SameHistory, PushFails,
                       Push
      <3>3. ServerTypeOK'
        BY <1>11, <2>1, <3>2 DEF ShutdownWrite, ServerTypeOK, InLoop
      <3>4. Registers'
        BY <1>11, <2>1, <3>2
        DEF ShutdownWrite, Registers, Opening, Removing, Dropping,
            Starting, Used
      <3>5. QED
        BY <1>0, <3>1, <3>3, <3>4
    <2>2. CASE PushFails(client[i])
      BY <2>2, TypedDie DEF PushFails, Stopped
    <2>3. CASE ~InLoop
      <3>1. FifoTypeOK'
        BY <1>11, <2>3 DEF ShutdownWrite, FifoTypeOK, fifoVars
      <3>2. ServerTypeOK'
        BY <1>11, <2>3
        DEF ShutdownWrite, ServerTypeOK, SameArray, SameHistory, Handler
      <3>3. Registers'
        BY <1>11, <2>3
        DEF ShutdownWrite, Registers, SameArray, Opening, Removing,
            Dropping, Starting, Used
      <3>4. QED
        BY <1>0, <3>1, <3>2, <3>3
    <2>4. QED
      BY <1>11, <2>1, <2>2, <2>3 DEF ShutdownWrite
  <1>12. CASE ShutdownForget
    <2>1. FifoTypeOK'
      BY <1>12 DEF ShutdownForget, UnlinkFifos, FifoTypeOK, SameEnds,
                  SameJoinFifo
    <2>2. k' \in i + 1 .. n_clients /\ k' \in 0 .. MaxClients
      BY <1>12 DEF ShutdownForget, UnlinkFifos, ShiftFrom, Registers, Dropping,
                  ServerTypeOK
    <2>3. ServerTypeOK'
      BY <1>12, <2>2
      DEF ShutdownForget, UnlinkFifos, ServerTypeOK, SameArray, SameHistory,
          Handler
    <2>4. Registers'
      BY <1>12, <2>2
      DEF ShutdownForget, UnlinkFifos, Registers, SameArray, Opening,
          Removing, Dropping, Starting, Used
    <2>5. QED
      BY <1>0, <2>1, <2>3, <2>4
  <1>13. CASE ShutdownShift
    <2>1. FifoTypeOK'
      BY <1>13 DEF ShutdownShift, ShiftOne, FifoTypeOK, fifoVars
    <2>2. k \in Used /\ k \in Slots /\ k' \in i + 1 .. n_clients
          /\ k' \in 0 .. MaxClients
      BY <1>13
      DEF ShutdownShift, ShiftOne, Registers, ServerTypeOK, Used,
          Slots
    <2>3. ServerTypeOK'
      BY <1>13, <2>2 DEF ShutdownShift, ShiftOne, ServerTypeOK, SameHistory
    <2>4. \A j \in Used' : client'[j] \in Clients
      BY <1>13, <2>2
      DEF ShutdownShift, ShiftOne, ServerTypeOK, Registers, Used, Slots
    <2>5. Registers'
      BY <1>13, <2>2, <2>4
      DEF ShutdownShift, ShiftOne, Registers, Opening, Removing, Dropping,
          Starting
    <2>6. QED
      BY <1>0, <2>1, <2>3, <2>5
  <1>14. CASE ShutdownRemoved
    <2>1. CASE err
      BY <1>14, <2>1, TypedDie DEF ShutdownRemoved, Stopped
    <2>2. CASE ~err
      <3>1. n_clients' = n_clients - 1 /\ i < n_clients
        BY <1>14, <2>2 DEF ShutdownRemoved, CountDown, Registers, Dropping
      <3>2. FifoTypeOK'
        BY <1>14, <2>2 DEF ShutdownRemoved, FifoTypeOK, fifoVars
      <3>3. ServerTypeOK'
        BY <1>14, <2>2, <3>1
        DEF ShutdownRemoved, ServerTypeOK, SameHistory, Handler
      <3>4. Registers'
        BY <1>14, <2>2, <3>1
        DEF ShutdownRemoved, Registers, ServerTypeOK, Opening, Removing,
            Dropping, Starting, Used
      <3>5. QED
        BY <1>0, <3>2, <3>3, <3>4
    <2>3. QED
      BY <2>1, <2>2
  <1>15. CASE ShutdownExit
    BY <1>15, TypedDie DEF ShutdownExit, Stopped
  <1>16. CASE ReadJoinAgain
    BY <1>16, TypedDie DEF ReadJoinAgain, Stopped
  <1>17. QED
    BY <1>1, <1>2, <1>3, <1>4, <1>5, <1>6, <1>7, <1>8, <1>9, <1>10, <1>11,
       <1>12, <1>13, <1>14, <1>15, <1>16
    DEF ServerStep, ServerStart, ServerLoop, ServerShutdown

-----------------------------------------------------------------------------
(* A step of a client leaves the server where it is.                       *)
LEMMA TypedElsewhere ==
  ASSUME Typed, UNCHANGED serverVars
  PROVE  ServerTypeOK' /\ Registers'
  <1>1. ServerTypeOK'
    BY DEF Typed, TypeOK, ServerTypeOK, serverVars
  <1>2. Registers'
    BY DEF Typed, Registers, serverVars, Used
  <1>3. QED
    BY <1>1, <1>2

(* The end of a client.                                                    *)
LEMMA TypedEndProcess ==
  ASSUME Typed, NEW c \in Clients, NEW how \in Gone, EndProcess(c, how),
         killed' \subseteq Clients
  PROVE  FifoTypeOK' /\ ClientTypeOK'
  <1> USE DEF Typed, TypeOK, EndProcess, CloseAllOfClient
  <1>1. toClient' \in [Clients -> Seq(Mesg)]
    <2>1. <<>> \in Seq(Mesg)
      OBVIOUS
    <2>2. QED
      BY <2>1 DEF FifoTypeOK
  <1>2. FifoTypeOK'
    BY <1>1 DEF FifoTypeOK
  <1>3. ClientTypeOK'
    BY DEF ClientTypeOK, SameThreads, SameClientHistory
  <1>4. QED
    BY <1>2, <1>3

(* A write of a client's user thread.                                      *)
LEMMA TypedSend ==
  ASSUME Typed, NEW c \in Clients, NEW m \in ClientMesg,
         NEW at, NEW next \in {"read", "cancel"}, Send(c, at, m, next)
  PROVE  FifoTypeOK' /\ ClientTypeOK'
  <1> USE DEF Typed, TypeOK, Send
  <1>1. CASE c \in tsR
    <2>1. toServer' \in [Clients -> Seq(ClientMesg)]
      <3>1. Append(toServer[c], m) \in Seq(ClientMesg)
        BY DEF FifoTypeOK
      <3>2. QED
        BY <1>1, <3>1 DEF FifoTypeOK
    <2>2. sent' \in [Clients -> Seq(ClientMesg)]
      <3>1. Append(sent[c], m) \in Seq(ClientMesg)
        BY DEF ClientTypeOK
      <3>2. QED
        BY <1>1, <3>1 DEF ClientTypeOK
    <2>3. FifoTypeOK'
      BY <1>1, <2>1 DEF FifoTypeOK
    <2>4. ClientTypeOK'
      BY <1>1, <2>2 DEF ClientTypeOK, GoUser
    <2>5. QED
      BY <2>3, <2>4
  <1>2. CASE c \notin tsR
    BY <1>2, TypedEndProcess DEF ClientTypeOK, Gone
  <1>3. QED
    BY <1>1, <1>2

(* Every step of a client.                                                 *)
LEMMA TypedClient ==
  ASSUME Typed, NEW c \in Clients, ClientStep(c) \/ Kill(c)
  PROVE  FifoTypeOK' /\ ClientTypeOK'
  <1> USE DEF Typed, TypeOK
  <1>1. CASE \/ CreateUser(c) \/ CreateServer(c) \/ TypeLine(c) \/ EndInput(c)
             \/ UserCancelled(c) \/ CancelUser(c) \/ ServerCancelled(c)
    <2> USE <1>1 DEF CreateUser, CreateServer, TypeLine, EndInput,
                     UserCancelled, CancelUser, ServerCancelled
    <2>1. FifoTypeOK'
      BY DEF FifoTypeOK, fifoVars
    <2>2. ClientTypeOK'
      BY DEF ClientTypeOK, GoMain, GoUser, GoServer, SameClientHistory,
             CancelUserThread
    <2>3. QED
      BY <2>1, <2>2
  <1>2. CASE MakeFifos(c) \/ JoinOpened(c) \/ CloseToServer(c)
    <2> USE <1>2 DEF MakeFifos, JoinOpened, CloseToServer
    <2>1. FifoTypeOK'
      BY DEF FifoTypeOK
    <2>2. ClientTypeOK'
      BY DEF ClientTypeOK, GoMain, GoUser, OnlyMain, SameThreads,
             SameClientHistory
    <2>3. QED
      BY <2>1, <2>2
  <1>3. CASE OpenJoin(c)
    <2>1. FifoTypeOK'
      BY <1>3 DEF OpenJoin, FifoTypeOK, fifoVars
    <2>2. joinFile \in {"none", "stale", "fresh"}
      BY DEF FifoTypeOK
    <2>3. PICK next \in {"exited", "stuck", "waitJoin"} : GoMain(c, next)
      BY <1>3, <2>2 DEF OpenJoin
    <2>4. ClientTypeOK'
      BY <1>3, <2>3
      DEF OpenJoin, ClientTypeOK, GoMain, OnlyMain, SameThreads,
          SameClientHistory, Gone
    <2>5. QED
      BY <2>1, <2>4
  <1>4. CASE WriteJoin(c)
    <2>1. CASE joinR
      <3>1. Append(joinQ, c) \in Seq(Clients)
        BY DEF FifoTypeOK
      <3>2. FifoTypeOK'
        BY <1>4, <2>1, <3>1 DEF WriteJoin, KeepJoinFifo, FifoTypeOK
      <3>3. ClientTypeOK'
        BY <1>4, <2>1
        DEF WriteJoin, KeepJoinFifo, ClientTypeOK, GoMain, SameThreads,
            SameClientHistory
      <3>4. QED
        BY <3>2, <3>3
    <2>2. CASE ~joinR
      BY <1>4, <2>2, TypedEndProcess DEF WriteJoin, ClientTypeOK, Gone
    <2>3. QED
      BY <2>1, <2>2
  <1>5. CASE MainReturn(c)
    BY <1>5, TypedEndProcess DEF MainReturn, ClientTypeOK, Gone
  <1>6. CASE SendLine(c)
    <2>1. Len(sent[c]) + 1 \in Nat
      BY DEF ClientTypeOK
    <2>2. QED
      BY <1>6, <2>1, MesgTypes, TypedSend DEF SendLine
  <1>7. CASE SendDeparted(c)
    BY <1>7, MesgTypes, TypedSend DEF SendDeparted
  <1>8. CASE CancelServer(c)
    <2>1. CASE AtMain(c, "createServer")
      BY <1>8, <2>1, TypedEndProcess DEF CancelServer, ClientTypeOK, Gone
    <2>2. CASE ~AtMain(c, "createServer")
      <3>1. FifoTypeOK'
        BY <1>8, <2>2 DEF CancelServer, FifoTypeOK, fifoVars
      <3>2. ClientTypeOK'
        BY <1>8, <2>2
        DEF CancelServer, CancelServerThread, ClientTypeOK, GoUser,
            SameClientHistory
      <3>3. QED
        BY <3>1, <3>2
    <2>3. QED
      BY <2>1, <2>2
  <1>9. CASE ReadMessage(c)
    <2> DEFINE m == Head(toClient[c])
    <2>1. m \in Mesg /\ Tail(toClient[c]) \in Seq(Mesg)
      BY <1>9 DEF ReadMessage, FifoTypeOK
    <2>2. FifoTypeOK'
      BY <1>9, <2>1 DEF ReadMessage, FifoTypeOK
    <2>3. Append(seen[c], m) \in Seq(Mesg)
      BY <2>1 DEF ClientTypeOK
    <2>4. ClientTypeOK'
      BY <1>9, <2>3 DEF ReadMessage, ClientTypeOK, GoServer
    <2>5. QED
      BY <2>2, <2>4
  <1>10. CASE CloseToClient(c)
    <2>1. <<>> \in Seq(Mesg)
      OBVIOUS
    <2>2. FifoTypeOK'
      BY <1>10, <2>1 DEF CloseToClient, FifoTypeOK
    <2>3. ClientTypeOK'
      BY <1>10 DEF CloseToClient, ClientTypeOK, GoServer, SameClientHistory
    <2>4. QED
      BY <2>2, <2>3
  <1>11. CASE Kill(c)
    BY <1>11, TypedEndProcess DEF Kill, ClientTypeOK, Gone
  <1>12. QED
    BY <1>1, <1>2, <1>3, <1>4, <1>5, <1>6, <1>7, <1>8, <1>9, <1>10, <1>11
    DEF ClientStep, MainStep, UserInput, UserThread, ServerThread

(* The opening of a client's FIFOs from both sides.                        *)
LEMMA TypedMeet ==
  ASSUME Typed, NEW c \in Clients, Meet(c)
  PROVE  Typed'
  <1> USE DEF Typed, TypeOK, OpenToClient, OpenToServer, SameJoinFifo,
              SameArray, SameHistory
  <1>1. FifoTypeOK'
    BY DEF Meet, FifoTypeOK
  <1>2. ServerTypeOK'
    BY DEF Meet, ServerTypeOK, Running
  <1>3. ClientTypeOK'
    BY DEF Meet, ClientTypeOK, GoMain, OnlyMain, SameThreads,
           SameClientHistory
  <1>4. Registers'
    BY DEF Meet, Registers, Used, Opening, Removing, Dropping, Starting
  <1>5. QED
    BY <1>1, <1>2, <1>3, <1>4

(* The entry of a handler.                                                 *)
LEMMA TypedSignal ==
  ASSUME Typed, NEW s \in Signals, TakeSignal(s), UNCHANGED clientVars
  PROVE  Typed'
  <1> USE DEF Typed, TypeOK, TakeSignal, SameArray, SameHistory, SameEnds
  <1>1. FifoTypeOK'
    BY DEF FifoTypeOK
  <1>2. ServerTypeOK'
    <2>1. spc' \in Handler /\ taken' \subseteq Signals
      BY DEF Handler, ServerTypeOK
    <2>2. i' \in 0 .. MaxClients /\ k' \in 0 .. MaxClients
      BY MaxClientsAssumption
    <2>3. QED
      BY <2>1, <2>2 DEF ServerTypeOK
  <1>3. ClientTypeOK'
    BY DEF ClientTypeOK, clientVars
  <1>4. Registers'
    BY DEF Registers, Used, Opening, Removing, Dropping, Starting
  <1>5. QED
    BY <1>1, <1>2, <1>3, <1>4

(* Typed is inductive.                                                     *)
LEMMA TypedNext == Typed /\ [Next]_vars => Typed'
  <1> SUFFICES ASSUME Typed, [Next]_vars PROVE Typed'
    OBVIOUS
  <1>1. CASE Server
    BY <1>1, TypedServer DEF Server
  <1>2. CASE \E s \in Signals : Signal(s)
    BY <1>2, TypedSignal DEF Signal
  <1>3. ASSUME NEW c \in Clients, Meet(c) PROVE Typed'
    BY <1>3, TypedMeet
  <1>4. ASSUME NEW c \in Clients, Client(c) \/ Killed(c) PROVE Typed'
    BY <1>4, TypedClient, TypedElsewhere DEF Client, Killed, Typed, TypeOK
  <1>5. CASE UNCHANGED vars
    <2>1. FifoTypeOK'
      BY <1>5 DEF Typed, TypeOK, FifoTypeOK, vars, fifoVars
    <2>2. ClientTypeOK'
      BY <1>5 DEF Typed, TypeOK, ClientTypeOK, vars, clientVars
    <2>3. UNCHANGED serverVars
      BY <1>5 DEF vars
    <2>4. QED
      BY <2>1, <2>2, <2>3, TypedElsewhere DEF Typed, TypeOK
  <1>6. QED
    BY <1>1, <1>2, <1>3, <1>4, <1>5 DEF Next

(* Every variable of the chat service keeps its type, and the registers of *)
(* the server are in range where they are used: no slot outside the array  *)
(* is read or written, the array is never filled past MAXCLIENTS, and only *)
(* messages travel (server.c, bl-server.c, bl-client.c).                   *)
THEOREM TypedAlways == Spec => []Typed
  <1>1. QED
    BY TypedInit, TypedNext, PTL DEF Spec

(* The type invariant the runs check.                                      *)
THEOREM TypeCorrect == Spec => []TypeOK
  <1>1. Typed => TypeOK
    BY DEF Typed
  <1>2. QED
    BY <1>1, TypedAlways, PTL

-----------------------------------------------------------------------------
(* The array.  The argument goes through Requests: a client that asks to   *)
(* join has not been added before, so that the slot it is given holds a    *)
(* client the array does not have.                                         *)

(* What the join FIFO does to the requests in it.                          *)
LEMMA QueueRead ==
  ASSUME NEW q \in Seq(Clients), q # <<>>
  PROVE  /\ Len(q) \in Nat \ {0} /\ Head(q) = q[1] /\ Head(q) \in Clients
         /\ Len(Tail(q)) = Len(q) - 1
         /\ \A j \in 1 .. Len(Tail(q)) :
              j + 1 \in 1 .. Len(q) /\ j + 1 # 1 /\ Tail(q)[j] = q[j + 1]
  OBVIOUS

(* And what a write adds to it.                                            *)
LEMMA QueueWrite ==
  ASSUME NEW q \in Seq(Clients), NEW c \in Clients
  PROVE  /\ Append(q, c) # <<>>
         /\ Len(q) \in Nat /\ Len(Append(q, c)) = Len(q) + 1
         /\ Append(q, c)[Len(q) + 1] = c
         /\ \A j \in 1 .. Len(Append(q, c)) :
              \/ j \in 1 .. Len(q) /\ Append(q, c)[j] = q[j]
              \/ j = Len(q) + 1
  OBVIOUS

-----------------------------------------------------------------------------
(* What no step of a client can do to the server: take away one of its     *)
(* descriptors or a name, make a FIFO it would read from unreadable, or    *)
(* have a client start over.                                               *)
Undisturbed ==
  /\ tsR' = tsR /\ tcW' = tcW /\ fifoFiles \subseteq fifoFiles'
  /\ tsW' \subseteq tsW
  /\ \A d \in Clients : toServer[d] # <<>> => toServer'[d] # <<>>
  /\ \A d \in Clients :
       (mainpc[d] \in Holding => d \in joinW)
         => (mainpc'[d] \in Holding => d \in joinW')
  /\ \A d \in Clients : mainpc'[d] \in Early =>
       /\ mainpc[d] \in Early
       /\ mainpc'[d] # "mkfifo" => mainpc[d] # "mkfifo" \/ d \in fifoFiles'
  /\ joinQ' = <<>> =>
       \A d \in joinW' :
         mainpc'[d] = "writeJoin"
         \/ (d \in joinW /\ mainpc[d] # "writeJoin")

(* The end of a client's process disturbs nothing.                         *)
LEMMA EndUndisturbed ==
  ASSUME Typed, NEW c \in Clients, NEW how \in Gone, EndProcess(c, how)
  PROVE  Undisturbed /\ joinQ' = joinQ
  BY DEF Typed, TypeOK, FifoTypeOK, ClientTypeOK, EndProcess, CloseAllOfClient,
         Undisturbed, Early, Holding, Gone

(* Nor does what its user thread writes.                                   *)
LEMMA SendUndisturbed ==
  ASSUME Typed, NEW c \in Clients, NEW m \in ClientMesg,
         NEW at, NEW next, Send(c, at, m, next)
  PROVE  Undisturbed /\ joinQ' = joinQ
  <1>1. CASE c \in tsR
    <2>1. toServer[c] \in Seq(ClientMesg)
      BY DEF Typed, TypeOK, FifoTypeOK
    <2>2. Append(toServer[c], m) # <<>>
      BY <2>1
    <2>3. \A d \in Clients : toServer[d] # <<>> => toServer'[d] # <<>>
      BY <1>1, <2>2 DEF Send, Typed, TypeOK, FifoTypeOK
    <2>4. QED
      BY <1>1, <2>3 DEF Send, Undisturbed, Typed, TypeOK, FifoTypeOK
  <1>2. CASE c \notin tsR
    BY <1>2, EndUndisturbed DEF Send, Gone
  <1>3. QED
    BY <1>1, <1>2

(* No step of a client disturbs the server; the one that writes a join     *)
(* request adds it at the end of the FIFO and leaves the client waiting.   *)
LEMMA ClientUndisturbed ==
  ASSUME Typed, NEW c \in Clients, ClientStep(c) \/ Kill(c)
  PROVE  /\ Undisturbed
         /\ \/ joinQ' = joinQ
            \/ /\ mainpc[c] = "writeJoin" /\ mainpc'[c] \notin Early
               /\ joinQ' = Append(joinQ, c)
  <1> USE DEF Typed, TypeOK
  <1>1. CASE MakeFifos(c)
    BY <1>1
    DEF MakeFifos, Undisturbed, FifoTypeOK, ClientTypeOK, AtMain, GoMain,
        Early, Holding, fifoVars
  <1>2. CASE OpenJoin(c)
    <2>1. PICK next \in {"exited", "stuck", "waitJoin"} : GoMain(c, next)
      BY <1>2 DEF OpenJoin, FifoTypeOK
    <2>2. QED
      BY <1>2, <2>1
      DEF OpenJoin, Undisturbed, FifoTypeOK, ClientTypeOK, AtMain, GoMain,
          Early, Holding, fifoVars
  <1>3. CASE JoinOpened(c)
    BY <1>3
    DEF JoinOpened, Undisturbed, FifoTypeOK, ClientTypeOK, AtMain, GoMain,
        Early, Holding, fifoVars
  <1>4. CASE WriteJoin(c)
    <2>1. CASE joinR
      <3>1. joinQ \in Seq(Clients)
        BY DEF FifoTypeOK
      <3>2. Append(joinQ, c) # <<>>
        BY <3>1, QueueWrite
      <3>3. QED
        BY <1>4, <2>1, <3>2
        DEF WriteJoin, KeepJoinFifo, Undisturbed, FifoTypeOK, ClientTypeOK,
            AtMain, GoMain, Early, Holding
    <2>2. CASE ~joinR
      BY <1>4, <2>2, EndUndisturbed DEF WriteJoin, Gone
    <2>3. QED
      BY <2>1, <2>2
  <1>5. CASE CreateUser(c)
    BY <1>5
    DEF CreateUser, Undisturbed, FifoTypeOK, ClientTypeOK, AtMain, GoMain,
        Early, Holding, fifoVars
  <1>6. CASE CreateServer(c)
    BY <1>6
    DEF CreateServer, Undisturbed, FifoTypeOK, ClientTypeOK, AtMain, GoMain,
        Early, Holding, fifoVars
  <1>7. CASE MainReturn(c)
    BY <1>7, EndUndisturbed DEF MainReturn, Gone
  <1>8. CASE TypeLine(c)
    BY <1>8 DEF TypeLine, Undisturbed, FifoTypeOK, fifoVars
  <1>9. CASE EndInput(c)
    BY <1>9 DEF EndInput, Undisturbed, FifoTypeOK, fifoVars
  <1>10. CASE SendLine(c)
    <2>1. Len(sent[c]) + 1 \in Nat
      BY DEF ClientTypeOK
    <2>2. QED
      BY <1>10, <2>1, MesgTypes, SendUndisturbed DEF SendLine
  <1>11. CASE SendDeparted(c)
    BY <1>11, MesgTypes, SendUndisturbed DEF SendDeparted
  <1>12. CASE CancelServer(c)
    <2>1. CASE AtMain(c, "createServer")
      BY <1>12, <2>1, EndUndisturbed DEF CancelServer, Gone
    <2>2. CASE ~AtMain(c, "createServer")
      BY <1>12, <2>2 DEF CancelServer, Undisturbed, fifoVars
    <2>3. QED
      BY <2>1, <2>2
  <1>13. CASE CloseToServer(c)
    BY <1>13 DEF CloseToServer, Undisturbed, FifoTypeOK, fifoVars
  <1>14. CASE UserCancelled(c)
    BY <1>14 DEF UserCancelled, Undisturbed, FifoTypeOK, fifoVars
  <1>15. CASE ReadMessage(c)
    BY <1>15 DEF ReadMessage, Undisturbed, FifoTypeOK, fifoVars
  <1>16. CASE CancelUser(c)
    BY <1>16 DEF CancelUser, Undisturbed, FifoTypeOK, fifoVars
  <1>17. CASE CloseToClient(c)
    BY <1>17 DEF CloseToClient, Undisturbed, FifoTypeOK, fifoVars
  <1>18. CASE ServerCancelled(c)
    BY <1>18 DEF ServerCancelled, Undisturbed, FifoTypeOK, fifoVars
  <1>19. CASE Kill(c)
    BY <1>19, EndUndisturbed DEF Kill, Gone
  <1>20. QED
    BY <1>1, <1>2, <1>3, <1>4, <1>5, <1>6, <1>7, <1>8, <1>9, <1>10, <1>11,
       <1>12, <1>13, <1>14, <1>15, <1>16, <1>17, <1>18, <1>19
    DEF ClientStep, MainStep, UserInput, UserThread, ServerThread

-----------------------------------------------------------------------------
(* Nobody has asked to join yet.                                           *)
LEMMA RequestsInit == Init => Requests
  <1> SUFFICES ASSUME Init PROVE Requests
    OBVIOUS
  <1>1. joinQ = <<>> /\ Len(joinQ) = 0
    BY DEF Init, FifoInit
  <1>2. Waiting = {}
    BY <1>1 DEF Waiting
  <1>3. Used = {}
    BY DEF Init, ServerInit, Used
  <1>4. QED
    BY <1>1, <1>2, <1>3
    DEF Init, ServerInit, ClientInit, Requests, Starting, Opening, Early

(* A step that does not touch the join FIFO, and lets nobody in.           *)
LEMMA RequestsSame ==
  ASSUME Typed, Requests, UNCHANGED <<joinQ, from, mainpc>>,
         fifoFiles' = fifoFiles, Members' \subseteq Members,
         spc' \in Opening => spc \in Opening /\ join' = join
  PROVE  Requests'
  <1>1. Waiting' = Waiting
    BY DEF Waiting
  <1>2. \A c \in Members : from[c] # 0
    BY DEF Requests, Members
  <1>3. \A j \in Used' : from'[client'[j]] # 0
    BY <1>2 DEF Members
  <1>4. QED
    BY <1>1, <1>3 DEF Requests

(* A client asks to join once: it writes its request while it is not       *)
(* waiting, and never comes back to that place.                            *)
LEMMA RequestsClient ==
  ASSUME Typed, Requests, NEW c \in Clients, ClientStep(c) \/ Kill(c),
         UNCHANGED serverVars
  PROVE  Requests'
  <1>1. /\ Undisturbed
        /\ \/ joinQ' = joinQ
           \/ /\ mainpc[c] = "writeJoin" /\ mainpc'[c] \notin Early
              /\ joinQ' = Append(joinQ, c)
    BY ClientUndisturbed
  <1>2. UNCHANGED <<spc, join, from, n_clients, client>>
    BY DEF serverVars
  <1>3. Waiting \subseteq Clients
    BY DEF Typed, TypeOK, FifoTypeOK, Waiting
  <1>4. \A d \in Clients : mainpc'[d] \in Early => mainpc[d] \in Early
    BY <1>1 DEF Undisturbed
  <1>5. \A d \in Clients :
          /\ mainpc'[d] \in Early => from'[d] = 0
          /\ mainpc'[d] \in Early \ {"mkfifo"} => d \in fifoFiles'
    BY <1>1, <1>2 DEF Undisturbed, Requests
  <1>6. CASE joinQ' = joinQ
    <2>1. Waiting' = Waiting
      BY <1>6 DEF Waiting
    <2>2. QED
      BY <1>1, <1>2, <1>3, <1>4, <1>5, <1>6, <2>1
      DEF Requests, Undisturbed, Used, Typed, Registers
  <1>7. CASE mainpc[c] = "writeJoin" /\ mainpc'[c] \notin Early
             /\ joinQ' = Append(joinQ, c)
    <2>1. mainpc[c] \in Early /\ from[c] = 0 /\ c \in fifoFiles
          /\ c \notin Waiting
      BY <1>7 DEF Requests, Early
    <2>2. joinQ \in Seq(Clients)
      BY DEF Typed, TypeOK, FifoTypeOK
    <2>3. Waiting' \subseteq Waiting \cup {c}
      BY <1>7, <2>2, QueueWrite DEF Waiting
    <2>4. \A a, b \in 1 .. Len(joinQ') : joinQ'[a] = joinQ'[b] => a = b
      BY <1>7, <2>1, <2>2, QueueWrite DEF Requests, Waiting
    <2>5. \A d \in Waiting' :
            from'[d] = 0 /\ d \in fifoFiles' /\ mainpc'[d] \notin Early
      BY <1>1, <1>2, <1>3, <1>4, <1>7, <2>1, <2>3 DEF Requests, Undisturbed
    <2>6. spc' \in Opening =>
            /\ from'[join'] = 0 /\ join' \in fifoFiles'
            /\ join' \notin Waiting' /\ mainpc'[join'] \notin Early
      BY <1>1, <1>2, <1>4, <1>7, <2>1, <2>3
      DEF Requests, Undisturbed, Typed, Registers
    <2>7. QED
      BY <1>2, <1>5, <2>4, <2>5, <2>6 DEF Requests, Used
  <1>8. QED
    BY <1>1, <1>6, <1>7

(* The steps of the server that leave the array, the names of the FIFOs    *)
(* and the join FIFO alone.                                                *)
QuietStep ==
  \/ StartRemove \/ StartMkfifo \/ CheckSources \/ ReadJoinEOF
  \/ ReadJoinAgain \/ BroadcastWrite \/ EndBroadcast \/ PassOver \/ HandleClient
  \/ RemoveClose \/ ShutdownUnlink \/ ShutdownWrite \/ ShutdownRemove
  \/ ShutdownClose \/ ShutdownExit

(* What these steps leave alone.                                           *)
LEMMA QuietFrame ==
  ASSUME QuietStep
  PROVE  /\ UNCHANGED <<joinQ, from, fifoFiles, n_clients, client>>
         /\ spc' \notin Opening
  <1> USE DEF Opening, SameArray, SameHistory, SameEnds, SameJoinFifo, fifoVars
  <1>1. ASSUME NEW how \in Stopped, Die(how)
        PROVE  /\ UNCHANGED <<joinQ, from, fifoFiles, n_clients, client>>
               /\ spc' \notin Opening
    BY <1>1 DEF Die, CloseAllOfServer, Stopped
  <1>2. ASSUME NEW c, PushFails(c)
        PROVE  /\ UNCHANGED <<joinQ, from, fifoFiles, n_clients, client>>
               /\ spc' \notin Opening
    BY <1>1, <1>2 DEF PushFails, Stopped
  <1>3. CASE StartRemove
    BY <1>3 DEF StartRemove
  <1>4. CASE StartMkfifo
    BY <1>4 DEF StartMkfifo
  <1>5. CASE CheckSources
    BY <1>5 DEF CheckSources
  <1>6. CASE ReadJoinEOF
    BY <1>1, <1>6 DEF ReadJoinEOF, BeginBroadcast, Stopped
  <1>7. CASE BroadcastWrite
    BY <1>2, <1>7 DEF BroadcastWrite, Push
  <1>8. CASE EndBroadcast
    BY <1>8 DEF EndBroadcast
  <1>9. CASE PassOver
    BY <1>9 DEF PassOver
  <1>10. CASE HandleClient
    BY <1>10 DEF HandleClient, BeginBroadcast
  <1>11. CASE RemoveClose
    BY <1>11 DEF RemoveClose, CloseFds
  <1>12. CASE ShutdownUnlink
    BY <1>12 DEF ShutdownUnlink
  <1>13. CASE ShutdownWrite
    BY <1>2, <1>13 DEF ShutdownWrite, Push
  <1>14. CASE ShutdownRemove
    BY <1>14 DEF ShutdownRemove
  <1>15. CASE ShutdownClose
    BY <1>15 DEF ShutdownClose, CloseFds
  <1>16. CASE ShutdownExit
    BY <1>1, <1>16 DEF ShutdownExit, Stopped
  <1>18. CASE ReadJoinAgain
    BY <1>1, <1>18 DEF ReadJoinAgain, Stopped
  <1>19. QED
    BY <1>3, <1>4, <1>5, <1>6, <1>7, <1>8, <1>9, <1>10, <1>11, <1>12, <1>13,
       <1>14, <1>15, <1>16, <1>18 DEF QuietStep

(* Removing the names of a client of the array concerns nobody who waits.  *)
LEMMA UnlinkRequests ==
  ASSUME Typed, Requests, NEW at, NEW next, next \notin Opening,
         i < n_clients, UnlinkFifos(at, next), UNCHANGED clientVars
  PROVE  Requests'
  <1>1. i \in Used /\ from[client[i]] # 0
    BY DEF Typed, TypeOK, ServerTypeOK, Used, Requests
  <1>2. /\ UNCHANGED <<joinQ, from, mainpc, n_clients, client>>
        /\ fifoFiles' = fifoFiles \ {client[i]} /\ spc' \notin Opening
    BY DEF UnlinkFifos, SameJoinFifo, SameArray, SameHistory, clientVars
  <1>3. Waiting' = Waiting
    BY <1>2 DEF Waiting
  <1>4. QED
    BY <1>1, <1>2, <1>3 DEF Requests, Used

(* Shifting a client down puts no new one into the array.                  *)
LEMMA ShiftMembers ==
  ASSUME Typed, NEW at, ShiftOne(at), k \in i + 1 .. n_clients
  PROVE  /\ k \in Used /\ k - 1 \in Used
         /\ client' = [client EXCEPT ![k - 1] = client[k]]
         /\ n_clients' = n_clients /\ Members' \subseteq Members
  <1>a. n_clients \in 0 .. MaxClients /\ i \in Nat /\ k < n_clients
    BY DEF ShiftOne, Typed, TypeOK, ServerTypeOK
  <1>1. k \in Used /\ k - 1 \in Used /\ Used \subseteq Slots
    BY <1>a, MaxClientsAssumption DEF Used, Slots
  <1>2. /\ client' = [client EXCEPT ![k - 1] = client[k]]
        /\ n_clients' = n_clients
    BY DEF ShiftOne
  <1>3. Members' \subseteq Members
    BY <1>1, <1>2 DEF Members, Used, Typed, TypeOK, ServerTypeOK
  <1>4. QED
    BY <1>1, <1>2, <1>3

(* Taking one off the count puts no new one in either.                     *)
LEMMA FewerMembers ==
  ASSUME Typed, UNCHANGED client, n_clients' \in Nat, n_clients' <= n_clients
  PROVE  Used' \subseteq Used /\ Members' \subseteq Members
  <1>1. n_clients \in Nat
    BY DEF Typed, TypeOK, ServerTypeOK
  <1>2. Used' \subseteq Used
    BY <1>1, FewerSlots DEF Used
  <1>3. QED
    BY <1>2 DEF Members

(* The server takes a request out of the FIFO before it adds the client,   *)
(* and adds nobody else.                                                   *)
LEMMA RequestsServer ==
  ASSUME Typed, Requests, ServerStep, UNCHANGED clientVars
  PROVE  Requests'
  <1>0. mainpc' = mainpc
    BY DEF clientVars
  <1>1. CASE QuietStep
    <2>1. Members' = Members
      BY <1>1, QuietFrame DEF Members, Used
    <2>2. QED
      BY <1>0, <1>1, <2>1, QuietFrame, RequestsSame
  <1>2. CASE StartOpen
    <2>1. /\ UNCHANGED <<joinQ, from, fifoFiles, client>> /\ n_clients' = 0
          /\ spc' \notin Opening
      BY <1>2 DEF StartOpen, SameHistory, Opening
    <2>2. n_clients = 0
      BY <1>2 DEF StartOpen, Typed, Registers, Starting
    <2>3. Members' = Members
      BY <2>1, <2>2 DEF Members, Used
    <2>4. QED
      BY <1>0, <2>1, <2>3, RequestsSame
  <1>3. CASE ReadJoin
    <2>1. joinQ \in Seq(Clients) /\ joinQ # <<>>
      BY <1>3 DEF ReadJoin, Typed, TypeOK, FifoTypeOK
    <2>2. /\ joinQ' = Tail(joinQ) /\ join' = Head(joinQ)
          /\ UNCHANGED <<from, fifoFiles, n_clients, client>>
      BY <1>3 DEF ReadJoin, SameArray
    <2>3. /\ Waiting' \subseteq Waiting
          /\ join' \in Waiting /\ join' \notin Waiting'
      BY <2>1, <2>2, QueueRead DEF Waiting, Requests
    <2>4. \A a, b \in 1 .. Len(joinQ') : joinQ'[a] = joinQ'[b] => a = b
      BY <2>1, <2>2, QueueRead DEF Requests
    <2>5. QED
      BY <1>0, <2>2, <2>3, <2>4 DEF Requests, Used
  <1>4. CASE AddClient
    <2>1. /\ n_clients \in Nat /\ Len(log) \in Nat /\ n_clients \in Slots
          /\ client \in [Slots -> Clients \cup {NoClient}]
          /\ from \in [Clients -> Nat] /\ join \in Clients
      <3>1. log \in Seq(Mesg)
        BY DEF Typed, TypeOK, ServerTypeOK
      <3>2. Len(log) \in Nat
        BY <3>1
      <3>3. n_clients < MaxClients /\ join \in Clients
        BY <1>4 DEF AddClient, Typed, Registers, Opening
      <3>4. QED
        BY <3>2, <3>3, MaxClientsAssumption
        DEF Typed, TypeOK, ServerTypeOK, Slots
    <2>2. /\ client' = [client EXCEPT ![n_clients] = join]
          /\ n_clients' = n_clients + 1
          /\ from' = [from EXCEPT ![join] = Len(log) + 1]
          /\ UNCHANGED <<joinQ, fifoFiles, join>> /\ spc' \notin Opening
      BY <1>4 DEF AddClient, BeginBroadcast, Opening, fifoVars
    <2>3. /\ from[join] = 0 /\ join \notin Waiting /\ mainpc[join] \notin Early
      BY <1>4 DEF AddClient, Requests, Opening
    <2>4. Waiting' = Waiting /\ Waiting \subseteq Clients
      BY <2>2 DEF Waiting, Typed, TypeOK, FifoTypeOK
    <2>5. \A c \in Clients \ {join} : from'[c] = from[c]
      BY <2>1, <2>2
    <2>6. \A j \in Used' : from'[client'[j]] # 0
      <3>1. from'[join] # 0
        BY <2>1, <2>2
      <3>2. ASSUME NEW j \in Used', j # n_clients
            PROVE  j \in Used /\ client'[j] = client[j] /\ client[j] \in Clients
        BY <2>1, <2>2, <3>2 DEF Used, Slots, Typed, Registers
      <3>3. client'[n_clients] = join
        BY <2>1, <2>2
      <3>4. QED
        BY <2>5, <3>1, <3>2, <3>3 DEF Requests
    <2>7. QED
      BY <1>0, <2>2, <2>3, <2>4, <2>5, <2>6 DEF Requests
  <1>5. CASE RemoveUnlink \/ ShutdownForget
    BY <1>5, UnlinkRequests
    DEF RemoveUnlink, ShutdownForget, UnlinkFifos, Opening, Typed, Registers,
        Removing, Dropping
  <1>6. CASE RemoveShift \/ ShutdownShift
    <2>1. PICK at \in {"rmShift", "sdShift"} : ShiftOne(at)
      BY <1>6 DEF RemoveShift, ShutdownShift
    <2>2. k \in i + 1 .. n_clients
      BY <2>1 DEF ShiftOne, Typed, Registers
    <2>3. UNCHANGED <<joinQ, from, fifoFiles>> /\ spc' \notin Opening
      BY <2>1 DEF ShiftOne, SameHistory, Opening, fifoVars
    <2>4. QED
      BY <1>0, <2>1, <2>2, <2>3, ShiftMembers, RequestsSame
  <1>7. CASE RemoveEnd
    <2>1. /\ UNCHANGED <<joinQ, from, fifoFiles, client>>
          /\ spc' \notin Opening
      BY <1>7 DEF RemoveEnd, BeginBroadcast, Opening, fifoVars
    <2>2. n_clients' \in Nat /\ n_clients' <= n_clients
      BY <1>7 DEF RemoveEnd, CountDown, Typed, TypeOK, ServerTypeOK, Registers,
                  Removing
    <2>3. QED
      BY <1>0, <2>1, <2>2, FewerMembers, RequestsSame
  <1>8. CASE ShutdownRemoved
    <2>1. /\ UNCHANGED <<joinQ, from, fifoFiles, client>>
          /\ spc' \notin Opening
      BY <1>8 DEF ShutdownRemoved, Die, CloseAllOfServer, SameArray,
                  SameHistory, Opening, fifoVars
    <2>2. n_clients' \in Nat /\ n_clients' <= n_clients
      BY <1>8 DEF ShutdownRemoved, Die, SameArray, CountDown, Typed, TypeOK,
                  ServerTypeOK, Registers, Dropping
    <2>3. QED
      BY <1>0, <2>1, <2>2, FewerMembers, RequestsSame
  <1>9. QED
    BY <1>1, <1>2, <1>3, <1>4, <1>5, <1>6, <1>7, <1>8
    DEF ServerStep, ServerStart, ServerLoop, ServerShutdown, QuietStep

(* The client that is opened to stays the one that is being added.         *)
LEMMA RequestsMeet ==
  ASSUME Typed, Requests, NEW c \in Clients, Meet(c)
  PROVE  Requests'
  <1>1. /\ UNCHANGED <<joinQ, from, fifoFiles, n_clients, client, join>>
        /\ spc \in Opening /\ join = c
    BY DEF Meet, OpenToClient, OpenToServer, SameJoinFifo, SameArray,
           SameHistory, Opening
  <1>2. \A d \in Clients : (mainpc'[d] \in Early) <=> (mainpc[d] \in Early)
    BY DEF Meet, OpenToClient, OpenToServer, OpensFirst, AtMain, GoMain, Early,
           Typed, TypeOK, ClientTypeOK
  <1>3. \A d \in Clients : mainpc'[d] \in Early => mainpc'[d] = mainpc[d]
    BY DEF Meet, OpenToClient, OpenToServer, OpensFirst, AtMain, GoMain, Early,
           Typed, TypeOK, ClientTypeOK
  <1>4. Waiting' = Waiting /\ Waiting \subseteq Clients
    BY <1>1 DEF Waiting, Typed, TypeOK, FifoTypeOK
  <1>5. QED
    BY <1>1, <1>2, <1>3, <1>4 DEF Requests, Used

(* A signal ends the adding of clients.                                    *)
LEMMA RequestsSignal ==
  ASSUME Typed, Requests, NEW s \in Signals, TakeSignal(s),
         UNCHANGED clientVars
  PROVE  Requests'
  <1>1. /\ UNCHANGED <<joinQ, from, fifoFiles, n_clients, client, mainpc>>
        /\ spc' \notin Opening
    BY DEF TakeSignal, SameArray, SameHistory, SameEnds, Opening, clientVars
  <1>2. Members' = Members
    BY <1>1 DEF Members, Used
  <1>3. QED
    BY <1>1, <1>2, RequestsSame

-----------------------------------------------------------------------------
(* Away from the openings and from the removal, Array is what ArrayIntact  *)
(* says of the server.                                                     *)
Plain ==
  (Starting \cup Running) \ {"openTS", "append", "rmUnlink", "rmShift"}

Intact ==
  /\ \A a, b \in Used : client[a] = client[b] => a = b
  /\ Members = tcW /\ Members = tsR
  /\ Members \subseteq fifoFiles
  /\ ~err

(* Hole is -1 where there is none: that is no slot.                        *)
LEMMA NotASlot == \A n : -1 \notin 0 .. n - 1
  OBVIOUS

(* At such a place no slot is left out of Kept.                            *)
LEMMA IntactPlain == spc \in Plain => (Array <=> Intact)
  <1> SUFFICES ASSUME spc \in Plain PROVE Array <=> Intact
    OBVIOUS
  <1>a. Hole = -1
    BY DEF Hole, Plain
  <1>b. -1 \notin Used
    BY NotASlot DEF Used
  <1>1. Kept = Used
    BY <1>a, <1>b DEF Kept
  <1>2. KeptClients = Members
    BY <1>1 DEF KeptClients, Members
  <1>3. spc \in Starting \cup Running
        /\ spc \notin {"openTS", "append", "rmUnlink"}
    BY DEF Plain, Starting
  <1>4. QED
    BY <1>1, <1>2, <1>3 DEF Array, Intact

(* The same after a step.                                                  *)
LEMMA IntactPlainNext == spc' \in Plain => (Array' <=> Intact')
  <1> SUFFICES ASSUME spc' \in Plain PROVE Array' <=> Intact'
    OBVIOUS
  <1>a. Hole' = -1
    BY DEF Hole, Plain
  <1>b. -1 \notin Used'
    BY NotASlot DEF Used
  <1>1. Kept' = Used'
    BY <1>a, <1>b DEF Kept
  <1>2. KeptClients' = Members'
    BY <1>1 DEF KeptClients, Members
  <1>3. spc' \in Starting \cup Running
        /\ spc' \notin {"openTS", "append", "rmUnlink"}
    BY DEF Plain, Starting
  <1>4. QED
    BY <1>1, <1>2, <1>3 DEF Array, Intact

(* The array is empty and nothing is open.                                 *)
LEMMA ArrayInit == Init => Array
  <1> SUFFICES ASSUME Init PROVE Array
    OBVIOUS
  <1>1. Used = {} /\ Members = {}
    BY DEF Init, ServerInit, Used, Members
  <1>2. Intact /\ spc \in Plain
    BY <1>1 DEF Init, ServerInit, FifoInit, Intact, Plain, Starting
  <1>3. QED
    BY <1>2, IntactPlain

(* From one such place to another, nothing of it being touched.            *)
LEMMA ArrayKept ==
  ASSUME Array, spc \in Plain, spc' \in Plain,
         UNCHANGED <<n_clients, client, tcW, tsR, fifoFiles, err>>
  PROVE  Array'
  <1>1. Intact
    BY IntactPlain
  <1>2. Used' = Used /\ Members' = Members
    BY DEF Used, Members
  <1>3. Intact'
    BY <1>1, <1>2 DEF Intact
  <1>4. QED
    BY <1>3, IntactPlainNext

(* In the handler and after the end there is nothing to keep.              *)
LEMMA ArrayOver ==
  ASSUME spc' \in Handler \cup Stopped
  PROVE  Array'
  BY DEF Array, Starting, Running, Handler, Stopped

(* A process that ends is at its end.                                      *)
LEMMA DieOver ==
  ASSUME NEW how \in Stopped, Die(how)
  PROVE  spc' \in Handler \cup Stopped
  BY DEF Die

(* So is one whose write fails.                                            *)
LEMMA PushFailsOver ==
  ASSUME NEW c, PushFails(c)
  PROVE  spc' \in Handler \cup Stopped
  BY DieOver DEF PushFails, Stopped

(* The new client has the next slot to itself, and its two descriptors.    *)
LEMMA ArrayAdd ==
  ASSUME Typed, Requests, Array, AddClient
  PROVE  Array'
  <1>1. /\ n_clients \in Nat /\ n_clients \in Slots
        /\ client \in [Slots -> Clients \cup {NoClient}]
        /\ n_clients < MaxClients
    <2>1. n_clients < MaxClients
      BY DEF AddClient, Typed, Registers, Opening
    <2>2. QED
      BY <2>1, MaxClientsAssumption DEF Typed, TypeOK, ServerTypeOK, Slots
  <1>2. /\ client' = [client EXCEPT ![n_clients] = join]
        /\ n_clients' = n_clients + 1
        /\ UNCHANGED <<tcW, tsR, fifoFiles, err>>
        /\ spc = "append" /\ spc' = "bcast"
    BY DEF AddClient, BeginBroadcast, fifoVars
  <1>3. join \notin Members /\ join \in fifoFiles
    BY <1>2 DEF Requests, Opening, Members
  <1>4. Kept = Used /\ KeptClients = Members
    BY <1>2 DEF Kept, KeptClients, Members, Hole, Used
  <1>5. /\ \A a, b \in Used : client[a] = client[b] => a = b
        /\ tcW = Members \cup {join} /\ tsR = Members \cup {join}
        /\ Members \subseteq fifoFiles /\ ~err
    BY <1>2, <1>4 DEF Array, Running
  <1>6. /\ Used' = Used \cup {n_clients} /\ n_clients \notin Used
        /\ Used \subseteq Slots
    BY <1>1, <1>2, MaxClientsAssumption DEF Used, Slots
  <1>7. /\ client'[n_clients] = join
        /\ \A j \in Used : client'[j] = client[j]
    BY <1>1, <1>2, <1>6
  <1>8. Members' = Members \cup {join}
    BY <1>6, <1>7 DEF Members
  <1>9. \A a, b \in Used' : client'[a] = client'[b] => a = b
    BY <1>3, <1>5, <1>6, <1>7 DEF Members
  <1>10. Intact' /\ spc' \in Plain
    BY <1>2, <1>3, <1>5, <1>8, <1>9 DEF Intact, Plain, Running
  <1>11. QED
    BY <1>10, IntactPlainNext

(* Closing the descriptors of a client leaves those of the others: no      *)
(* other slot holds it.                                                    *)
LEMMA ArrayClose ==
  ASSUME Typed, Array, RemoveClose
  PROVE  Array'
  <1>1. /\ spc = "rmClose" /\ spc' = "rmUnlink"
        /\ tsR' = tsR \ {client[i]} /\ tcW' = tcW \ {client[i]}
        /\ err' = (client[i] \notin tsR \cap tcW)
        /\ UNCHANGED <<n_clients, client, i, fifoFiles>>
    BY DEF RemoveClose, CloseFds, SameArray
  <1>2. i \in Used
    BY <1>1 DEF Typed, TypeOK, ServerTypeOK, Registers, Removing, Used
  <1>3. Intact
    BY <1>1, IntactPlain DEF Plain, Running
  <1>4. Kept' = Used \ {i}
    BY <1>1 DEF Kept, Hole, Used
  <1>5. KeptClients' = {client[j] : j \in Used \ {i}}
    BY <1>1, <1>4 DEF KeptClients
  <1>6. KeptClients' = Members \ {client[i]}
    BY <1>2, <1>3, <1>5 DEF Intact, Members
  <1>7. client[i] \in Members
    BY <1>2 DEF Members
  <1>8. QED
    BY <1>1, <1>3, <1>4, <1>6, <1>7 DEF Array, Intact

(* Its names go next; the slot is now the one to be overwritten.           *)
LEMMA ArrayUnlink ==
  ASSUME Typed, Array, RemoveUnlink
  PROVE  Array'
  <1>1. /\ spc = "rmUnlink" /\ spc' = "rmShift" /\ k' = i + 1
        /\ fifoFiles' = fifoFiles \ {client[i]}
        /\ err' = (err \/ client[i] \notin fifoFiles)
        /\ UNCHANGED <<n_clients, client, i, tsR, tcW>>
    BY DEF RemoveUnlink, UnlinkFifos, ShiftFrom, SameEnds, SameArray
  <1>2. i \in Int
    BY DEF Typed, TypeOK, ServerTypeOK
  <1>3. Kept' = Kept /\ KeptClients' = KeptClients
    BY <1>1, <1>2 DEF Kept, KeptClients, Hole, Used
  <1>4. /\ \A a, b \in Kept : client[a] = client[b] => a = b
        /\ tcW = KeptClients /\ tsR = KeptClients
        /\ KeptClients \subseteq fifoFiles
        /\ client[i] \in fifoFiles \ tcW /\ ~err
    BY <1>1 DEF Array, Running
  <1>5. QED
    BY <1>1, <1>3, <1>4 DEF Array

(* Shifting moves the hole up by one and keeps whom the array holds.       *)
LEMMA ArrayShift ==
  ASSUME Typed, Array, RemoveShift
  PROVE  Array'
  <1>1. /\ spc = "rmShift" /\ spc' = spc /\ k' = k + 1
        /\ UNCHANGED <<fifoFiles, err, i, tsR, tcW>>
    BY DEF RemoveShift, ShiftOne, fifoVars
  <1>2. k \in i + 1 .. n_clients /\ k \in Int
    BY <1>1 DEF Typed, Registers, TypeOK, ServerTypeOK
  <1>3. /\ k \in Used /\ k - 1 \in Used
        /\ client' = [client EXCEPT ![k - 1] = client[k]]
        /\ n_clients' = n_clients
    BY <1>2, ShiftMembers DEF RemoveShift
  <1>4. /\ Used \subseteq Slots /\ client \in [Slots -> Clients \cup {NoClient}]
    BY MaxClientsAssumption DEF Used, Slots, Typed, TypeOK, ServerTypeOK
  <1>5. Kept = Used \ {k - 1} /\ Kept' = Used \ {k}
    BY <1>1, <1>2, <1>3 DEF Kept, Hole, Used
  <1>6. /\ client'[k - 1] = client[k]
        /\ \A j \in Used \ {k - 1} : client'[j] = client[j]
    BY <1>3, <1>4
  <1>7. KeptClients' = KeptClients
    <2>1. k - 1 # k
      BY <1>2
    <2>2. KeptClients' = {client'[j] : j \in Used \ {k}}
      BY <1>5 DEF KeptClients
    <2>3. KeptClients = {client[j] : j \in Used \ {k - 1}}
      BY <1>5 DEF KeptClients
    <2>4. QED
      BY <1>3, <1>6, <2>1, <2>2, <2>3
  <1>8. /\ \A a, b \in Kept : client[a] = client[b] => a = b
        /\ tcW = KeptClients /\ tsR = KeptClients
        /\ KeptClients \subseteq fifoFiles /\ ~err
    BY <1>1 DEF Array, Running
  <1>9. \A a, b \in Kept' : client'[a] = client'[b] => a = b
    BY <1>2, <1>3, <1>5, <1>6, <1>8
  <1>10. QED
    BY <1>1, <1>7, <1>8, <1>9 DEF Array

(* The hole has come to the last slot, which the count then gives up.      *)
LEMMA ArrayEnd ==
  ASSUME Typed, Array, RemoveEnd
  PROVE  Array'
  <1>1. /\ spc = "rmShift" /\ spc' = "bcast" /\ ~err'
        /\ err \/ k >= n_clients
        /\ UNCHANGED <<client, fifoFiles, tsR, tcW>>
    BY DEF RemoveEnd, BeginBroadcast, fifoVars
  <1>2. /\ \A a, b \in Kept : client[a] = client[b] => a = b
        /\ tcW = KeptClients /\ tsR = KeptClients
        /\ KeptClients \subseteq fifoFiles /\ ~err
    BY <1>1 DEF Array, Running
  <1>3. k = n_clients /\ n_clients' = n_clients - 1 /\ n_clients \in Nat \ {0}
    BY <1>1, <1>2 DEF RemoveEnd, CountDown, Typed, Registers, TypeOK,
                      ServerTypeOK
  <1>4. Used' = Kept
    <2>1. Hole = n_clients - 1
      BY <1>1, <1>3 DEF Hole
    <2>2. QED
      BY <1>3, <2>1 DEF Used, Kept
  <1>5. Members' = KeptClients
    BY <1>1, <1>4 DEF Members, KeptClients
  <1>6. Intact' /\ spc' \in Plain
    <2>1. /\ \A a, b \in Used' : client'[a] = client'[b] => a = b
          /\ Members' = tcW' /\ Members' = tsR' /\ Members' \subseteq fifoFiles'
      BY <1>1, <1>2, <1>4, <1>5
    <2>2. QED
      BY <1>1, <2>1 DEF Intact, Plain, Running
  <1>7. QED
    BY <1>6, IntactPlainNext

(* Every step of the server keeps Array.                                   *)
LEMMA ArrayServer ==
  ASSUME Typed, Requests, Array, ServerStep
  PROVE  Array'
  <1> USE DEF SameArray, SameHistory, SameEnds, SameJoinFifo, fifoVars
  <1>1. CASE ServerStart
    <2>1. n_clients = 0 /\ n_clients' = 0 /\ spc \in Plain /\ spc' \in Plain
          /\ UNCHANGED <<client, tcW, tsR, fifoFiles, err>>
      BY <1>1 DEF ServerStart, StartRemove, StartMkfifo, StartOpen, Typed,
                  Registers, Starting, Plain, Running
    <2>2. QED
      BY <2>1, ArrayKept
  <1>2. CASE CheckSources
    BY <1>2, ArrayKept DEF CheckSources, Plain, Running
  <1>3. CASE ReadJoin
    BY <1>3, ArrayKept DEF ReadJoin, BeginBroadcast, Plain, Running
  <1>4. CASE ReadJoinEOF
    BY <1>4, ArrayKept, DieOver, ArrayOver
    DEF ReadJoinEOF, BeginBroadcast, Plain, Running, Stopped
  <1>11. CASE ReadJoinAgain
    BY <1>11, DieOver, ArrayOver DEF ReadJoinAgain, Stopped
  <1>5. CASE BroadcastWrite
    BY <1>5, ArrayKept, PushFailsOver, ArrayOver
    DEF BroadcastWrite, Push, Plain, Running
  <1>6. CASE EndBroadcast
    BY <1>6, ArrayKept DEF EndBroadcast, Plain, Running
  <1>7. CASE PassOver
    BY <1>7, ArrayKept DEF PassOver, Plain, Running
  <1>8. CASE HandleClient
    BY <1>8, ArrayKept DEF HandleClient, BeginBroadcast, Plain, Running
  <1>9. CASE ServerShutdown
    <2>1. spc' \in Handler \cup Stopped
      <3>1. ASSUME NEW how \in Stopped, Die(how)
            PROVE  spc' \in Handler \cup Stopped
        BY <3>1, DieOver
      <3>2. ASSUME NEW c, PushFails(c) PROVE spc' \in Handler \cup Stopped
        BY <3>2, PushFailsOver
      <3>3. QED
        BY <1>9, <3>1, <3>2
        DEF ServerShutdown, ShutdownUnlink, ShutdownWrite, ShutdownRemove,
            ShutdownClose, ShutdownForget, ShutdownShift, ShutdownRemoved,
            ShutdownExit, CloseFds, UnlinkFifos, ShiftOne, Handler, Stopped
    <2>2. QED
      BY <2>1, ArrayOver
  <1>12. QED
    BY <1>1, <1>2, <1>3, <1>4, <1>5, <1>6, <1>7, <1>8, <1>9, <1>11,
       ArrayAdd, ArrayClose, ArrayUnlink, ArrayShift, ArrayEnd
    DEF ServerStep, ServerLoop

(* The openings add the descriptors of the client that is being added.     *)
LEMMA ArrayMeet ==
  ASSUME Typed, Array, NEW c \in Clients, Meet(c)
  PROVE  Array'
  <1>1. /\ UNCHANGED <<n_clients, client, fifoFiles, err>> /\ join' = join
        /\ join = c
        /\ \/ /\ spc = "openTC" /\ spc' = "openTS"
              /\ tcW' = tcW \cup {c} /\ tsR' = tsR
           \/ /\ spc = "openTS" /\ spc' = "append"
              /\ tsR' = tsR \cup {c} /\ tcW' = tcW
    BY DEF Meet, OpenToClient, OpenToServer, SameArray
  <1>2. Kept' = Kept /\ KeptClients' = KeptClients
    BY <1>1 DEF Kept, KeptClients, Hole, Used
  <1>3. QED
    BY <1>1, <1>2 DEF Array, Running

(* A step of a client cannot touch the server's descriptors.               *)
LEMMA ArrayClient ==
  ASSUME Typed, Array, NEW c \in Clients, ClientStep(c) \/ Kill(c),
         UNCHANGED serverVars
  PROVE  Array'
  <1>1. tsR' = tsR /\ tcW' = tcW /\ fifoFiles \subseteq fifoFiles'
    BY ClientUndisturbed DEF Undisturbed
  <1>2. UNCHANGED <<spc, n_clients, client, i, k, join, err>>
    BY DEF serverVars
  <1>3. Kept' = Kept /\ KeptClients' = KeptClients
    BY <1>2 DEF Kept, KeptClients, Hole, Used
  <1>4. QED
    BY <1>1, <1>2, <1>3 DEF Array

(* In the handler Array says nothing.                                      *)
LEMMA ArraySignal ==
  ASSUME NEW s \in Signals, TakeSignal(s)
  PROVE  Array'
  <1>1. spc' \in Handler
    BY DEF TakeSignal, Handler
  <1>2. QED
    BY <1>1, ArrayOver

-----------------------------------------------------------------------------
Arrayed == Typed /\ Requests /\ Array

(* Typed, Requests and Array are inductive together.                       *)
LEMMA ArrayedNext == Arrayed /\ [Next]_vars => Arrayed'
  <1> SUFFICES ASSUME Typed, Requests, Array, [Next]_vars
               PROVE  Requests' /\ Array'
    BY TypedNext DEF Arrayed
  <1>1. CASE Server
    BY <1>1, RequestsServer, ArrayServer DEF Server
  <1>2. CASE \E s \in Signals : Signal(s)
    BY <1>2, RequestsSignal, ArraySignal DEF Signal
  <1>3. ASSUME NEW c \in Clients, Meet(c) PROVE Requests' /\ Array'
    BY <1>3, RequestsMeet, ArrayMeet
  <1>4. ASSUME NEW c \in Clients, Client(c) \/ Killed(c)
        PROVE  Requests' /\ Array'
    BY <1>4, RequestsClient, ArrayClient DEF Client, Killed
  <1>5. CASE UNCHANGED vars
    <2>1. /\ UNCHANGED <<joinQ, from, mainpc, fifoFiles, tsR, tcW>>
          /\ UNCHANGED <<spc, n_clients, client, i, k, join, err>>
      BY <1>5 DEF vars, fifoVars, serverVars, clientVars
    <2>2. Requests'
      BY <2>1 DEF Requests, Waiting, Used
    <2>3. Array'
      BY <2>1 DEF Array, Kept, KeptClients, Hole, Used
    <2>4. QED
      BY <2>2, <2>3
  <1>6. QED
    BY <1>1, <1>2, <1>3, <1>4, <1>5 DEF Next

(* However clients come, go and are killed, and wherever a signal falls,   *)
(* each slot of the array stands for one connected client with its two     *)
(* FIFOs open and named, and no descriptor is left over                    *)
(* (server_add_client, server_remove_client).                              *)
THEOREM ArrayCorrect == Spec => []ArrayIntact
  <1>1. Init => Arrayed
    BY TypedInit, RequestsInit, ArrayInit DEF Arrayed
  <1>2. Arrayed => ArrayIntact
    <2>1. SUFFICES ASSUME Array,
                     spc \in Running \ {"rmUnlink", "rmShift", "openTS", "append"}
          PROVE  Intact
      BY DEF Arrayed, ArrayIntact, Intact
    <2>2. QED
      BY <2>1, IntactPlain DEF Plain
  <1>3. QED
    BY <1>1, <1>2, ArrayedNext, PTL DEF Spec

-----------------------------------------------------------------------------
(* The flags.  A raised data_ready flag of a slot still to be served means *)
(* that there is something to read, although select raises the flags long  *)
(* before they are used and a removal moves them from slot to slot.  That  *)
(* the slots hold different clients is what keeps the flags of the others  *)
(* true when one client is read from.                                      *)

(* A flag stays true while its client's FIFO stays readable.               *)
LEMMA AnswersKept ==
  ASSUME NEW j, Answers(j), client'[j] = client[j],
         data_ready'[j] => data_ready[j],
         toServer[client[j]] # <<>> => toServer'[client[j]] # <<>>,
         client[j] \notin tsW => client[j] \notin tsW'
  PROVE  Answers(j)'
  BY DEF Answers, ClientReadable

(* With nobody in the array there is no flag to speak of.                  *)
LEMMA FlagsEmpty ==
  ASSUME n_clients' = 0
  PROVE  Flags'
  <1>1. Used' = {} /\ Kept' = {}
    BY DEF Used, Kept
  <1>2. QED
    BY <1>1 DEF Flags

(* There is no slot in use.                                                *)
LEMMA FlagsInit == Init => Flags
  <1> SUFFICES ASSUME Init PROVE Flags
    OBVIOUS
  <1>1. Used = {} /\ Kept = {}
    BY DEF Init, ServerInit, Used, Kept
  <1>2. QED
    BY <1>1 DEF Flags

(* In the handler and after the end no flag is used any more.              *)
LEMMA FlagsOver ==
  ASSUME spc' \in Handler \cup Stopped
  PROVE  Flags'
  BY DEF Flags, Starting, Opening, Removing, Handler, Stopped

(* The handler is never left but for the end.                              *)
LEMMA ShutdownOver ==
  ASSUME ServerShutdown
  PROVE  spc' \in Handler \cup Stopped
  <1>1. ASSUME NEW how \in Stopped, Die(how)
        PROVE  spc' \in Handler \cup Stopped
    BY <1>1, DieOver
  <1>2. ASSUME NEW c, PushFails(c) PROVE spc' \in Handler \cup Stopped
    BY <1>2, PushFailsOver
  <1>3. QED
    BY <1>1, <1>2
    DEF ServerShutdown, ShutdownUnlink, ShutdownWrite, ShutdownRemove,
        ShutdownClose, ShutdownForget, ShutdownShift, ShutdownRemoved,
        ShutdownExit, CloseFds, UnlinkFifos, ShiftOne, Handler, Stopped

(* The array, the flags and what they speak of are left alone.             *)
SameFlags == UNCHANGED <<n_clients, client, data_ready, toServer, tsW>>

(* Then every flag is as true as it was.                                   *)
LEMMA AnswersSame ==
  ASSUME SameFlags
  PROVE  /\ Used' = Used
         /\ \A j \in Used : Answers(j)' <=> Answers(j)
  BY DEF SameFlags, Used, Answers, ClientReadable

-----------------------------------------------------------------------------
(* select raises the flags of the FIFOs that are readable and no other.    *)
LEMMA FlagsSelect ==
  ASSUME Typed, Flags, CheckSources
  PROVE  Flags'
  <1>1. /\ \A j \in Used : ~data_ready[j]
        /\ spc' \in {"join", "serve"} /\ i' = 0
        /\ UNCHANGED <<n_clients, client, toServer, tsW>>
    BY DEF CheckSources, Flags, fifoVars
  <1>2. Used' = Used /\ Used \subseteq Slots
    BY <1>1, MaxClientsAssumption
    DEF Used, Slots, Typed, TypeOK, ServerTypeOK
  <1>3. \A j \in Used' : Answers(j)'
    BY <1>1, <1>2 DEF CheckSources, Answers, ClientReadable
  <1>4. \A j \in Used' : ~(j < i')
    BY <1>1 DEF Used
  <1>5. QED
    BY <1>1, <1>3, <1>4 DEF Flags, Starting, Opening, Removing

(* Reading a join request concerns no flag.                                *)
LEMMA FlagsJoin ==
  ASSUME Flags, ReadJoin \/ ReadJoinEOF \/ ReadJoinAgain
  PROVE  Flags'
  <1>1. spc = "join"
    BY DEF ReadJoin, ReadJoinEOF, ReadJoinAgain
  <1>2. \/ SameFlags /\ spc' = "openTC"
        \/ SameFlags /\ spc' = "bcast" /\ mesg'.kind = "JOINED"
        \/ spc' \in Handler \cup Stopped
    BY DieOver
    DEF ReadJoin, ReadJoinEOF, ReadJoinAgain, BeginBroadcast, SameFlags,
        SameArray, SameEnds, fifoVars, Joined, Stopped
  <1>3. CASE SameFlags
    <2>1. \A j \in Used' : Answers(j)'
      BY <1>1, <1>3, AnswersSame DEF Flags
    <2>2. QED
      BY <1>2, <2>1, FlagsOver DEF Flags, Starting, Opening, Removing
  <1>4. QED
    BY <1>2, <1>3, FlagsOver

(* The new client's flag is down.                                          *)
LEMMA FlagsAdd ==
  ASSUME Typed, Flags, AddClient
  PROVE  Flags'
  <1>1. n_clients \in Nat /\ n_clients \in Slots
    <2>1. n_clients < MaxClients
      BY DEF AddClient, Typed, Registers, Opening
    <2>2. QED
      BY <2>1, MaxClientsAssumption DEF Typed, TypeOK, ServerTypeOK, Slots
  <1>2. /\ spc = "append" /\ spc' = "bcast" /\ mesg'.kind = "JOINED"
        /\ n_clients' = n_clients + 1
        /\ client' = [client EXCEPT ![n_clients] = join]
        /\ data_ready' = [data_ready EXCEPT ![n_clients] = FALSE]
        /\ UNCHANGED <<toServer, tsW>>
    BY DEF AddClient, BeginBroadcast, Joined, fifoVars
  <1>3. ~data_ready'[n_clients]
    BY <1>1, <1>2 DEF Typed, TypeOK, ServerTypeOK
  <1>4. ASSUME NEW j \in Used', j # n_clients
        PROVE  Answers(j)'
    <2>1. j \in Used /\ j \in Slots
      BY <1>1, <1>2, <1>4, MaxClientsAssumption DEF Used, Slots
    <2>2. client'[j] = client[j] /\ data_ready'[j] = data_ready[j]
      BY <1>2, <1>4, <2>1 DEF Typed, TypeOK, ServerTypeOK
    <2>3. Answers(j)
      BY <1>2, <2>1 DEF Flags, Opening
    <2>4. QED
      BY <1>2, <2>2, <2>3, AnswersKept
  <1>5. \A j \in Used' : Answers(j)'
    BY <1>3, <1>4 DEF Answers
  <1>6. QED
    BY <1>2, <1>5 DEF Flags, Starting, Opening, Removing

(* A broadcast writes to clients, it does not read from them.              *)
LEMMA FlagsWrite ==
  ASSUME Flags, BroadcastWrite
  PROVE  Flags'
  <1>1. CASE spc' \in Handler \cup Stopped
    BY <1>1, FlagsOver
  <1>2. CASE Push(client[k], mesg)
    <2>1. \/ /\ SameFlags /\ spc = "bcast" /\ spc' = "bcast"
             /\ UNCHANGED <<mesg, i>>
          \/ spc' \in Handler \cup Stopped
      BY <1>2, PushFailsOver
      DEF BroadcastWrite, Push, SameFlags, SameArray, SameEnds
    <2>2. QED
      BY <1>1, <2>1, AnswersSame
      DEF Flags, SameFlags, Starting, Opening, Removing
  <1>3. QED
    BY <1>1, <1>2, PushFailsOver DEF BroadcastWrite

(* After a broadcast the slot that was served has its flag down, whoever   *)
(* is in it by now.                                                        *)
LEMMA FlagsEndBroadcast ==
  ASSUME Typed, Flags, EndBroadcast
  PROVE  Flags'
  <1>1. /\ spc = "bcast" /\ spc' = "serve"
        /\ UNCHANGED <<n_clients, client, toServer, tsW>>
        /\ i \in Nat /\ n_clients \in Nat
    BY DEF EndBroadcast, fifoVars, Typed, TypeOK, ServerTypeOK
  <1>2. CASE mesg.kind = "JOINED"
    <2>1. SameFlags /\ i' = 0
      BY <1>1, <1>2 DEF EndBroadcast, SameFlags
    <2>2. \A j \in Used' : Answers(j)' /\ ~(j < i')
      BY <1>1, <1>2, <2>1, AnswersSame DEF Flags, Used
    <2>3. QED
      BY <1>1, <2>2 DEF Flags, Starting, Opening, Removing
  <1>3. CASE mesg.kind # "JOINED"
    <2>1. /\ i' = i + 1 /\ i \in Slots
          /\ data_ready' = [data_ready EXCEPT ![i] = FALSE]
      <3>1. i < MaxClients
        BY <1>1, <1>3 DEF Typed, Registers
      <3>2. QED
        BY <1>1, <1>3, <3>1, MaxClientsAssumption
        DEF EndBroadcast, LowerFlag, Slots
    <2>2. Used' = Used /\ Used \subseteq Slots
      BY <1>1, MaxClientsAssumption
      DEF Used, Slots, Typed, TypeOK, ServerTypeOK
    <2>3. ~data_ready'[i]
      BY <2>1 DEF Typed, TypeOK, ServerTypeOK
    <2>4. ASSUME NEW j \in Used', j # i
          PROVE  data_ready'[j] = data_ready[j]
      BY <2>1, <2>2, <2>4 DEF Typed, TypeOK, ServerTypeOK
    <2>5. ASSUME NEW j \in Used', j < i' PROVE ~data_ready'[j]
      BY <1>1, <1>3, <2>1, <2>2, <2>3, <2>4, <2>5 DEF Flags, Used
    <2>6. ASSUME NEW j \in Used', j >= i' PROVE Answers(j)'
      <3>1. j \in Used /\ j # i /\ j > i
        BY <1>1, <2>1, <2>2, <2>6 DEF Used
      <3>2. Answers(j)
        BY <1>1, <1>3, <3>1 DEF Flags
      <3>3. QED
        BY <1>1, <2>4, <3>1, <3>2, AnswersKept
    <2>7. QED
      BY <1>1, <2>5, <2>6 DEF Flags, Starting, Opening, Removing
  <1>4. QED
    BY <1>2, <1>3

(* A slot passed over has its flag down.                                   *)
LEMMA FlagsPassOver ==
  ASSUME Typed, Flags, PassOver
  PROVE  Flags'
  <1>1. /\ SameFlags /\ spc = "serve" /\ i \in Nat /\ n_clients \in Nat
        /\ \/ spc' = "select" /\ ~(i < n_clients)
           \/ spc' = "serve" /\ i < n_clients /\ ~data_ready[i] /\ i' = i + 1
    BY DEF PassOver, InLoop, SameFlags, SameArray, fifoVars, Typed, TypeOK,
           ServerTypeOK
  <1>2. Used' = Used /\ data_ready' = data_ready
    BY <1>1, AnswersSame DEF SameFlags
  <1>3. CASE spc' = "select"
    <2>1. \A j \in Used : j < i
      BY <1>1, <1>3 DEF Used
    <2>2. \A j \in Used' : ~data_ready'[j]
      BY <1>1, <1>2, <2>1 DEF Flags
    <2>3. QED
      BY <1>3, <2>2 DEF Flags, Starting, Opening, Removing
  <1>4. CASE spc' = "serve"
    <2>1. \A j \in Used : /\ j < i => ~data_ready[j]
                          /\ j >= i => Answers(j)
      BY <1>1 DEF Flags
    <2>2. i' = i + 1 /\ ~data_ready[i]
      BY <1>1, <1>4
    <2>3. \A j \in Used : /\ j < i + 1 => ~data_ready[j]
                          /\ j >= i + 1 => Answers(j)
      BY <1>1, <2>1, <2>2 DEF Used
    <2>4. \A j \in Used' : /\ j < i' => ~data_ready'[j]
                           /\ j >= i' => Answers(j)'
      BY <1>1, <1>2, <2>2, <2>3, AnswersSame
    <2>5. QED
      BY <1>4, <2>4 DEF Flags, Starting, Opening, Removing
  <1>5. QED
    BY <1>1, <1>3, <1>4

(* Reading from one client takes nothing from the others: the array holds  *)
(* each of them once.                                                      *)
LEMMA FlagsHandle ==
  ASSUME Typed, Array, Flags, HandleClient
  PROVE  Flags'
  <1>1. /\ spc = "serve" /\ i \in Used /\ i \in Nat
        /\ UNCHANGED <<n_clients, client, tsW>>
    BY DEF HandleClient, InLoop, SameEnds, Used, Typed, TypeOK, ServerTypeOK
  <1>2. Used' = Used /\ Used \subseteq Slots
    BY <1>1, MaxClientsAssumption
    DEF Used, Slots, Typed, TypeOK, ServerTypeOK
  <1>3. \A j \in Used : /\ j < i => ~data_ready[j]
                        /\ j >= i => Answers(j)
    BY <1>1 DEF Flags
  <1>4. CASE toServer[client[i]] # <<>> /\ TakeOne(client[i])
             /\ UNCHANGED <<i, data_ready>>
    <2>1. client[i] \in Clients
      BY <1>1 DEF Typed, Registers
    <2>2. \A j \in Used : j # i => client[j] # client[i]
      BY <1>1, IntactPlain DEF Intact, Plain, Running
    <2>3. \A j \in Used : j # i =>
            toServer'[client[j]] = toServer[client[j]]
      BY <1>1, <1>4, <2>1, <2>2
      DEF TakeOne, Typed, TypeOK, FifoTypeOK, Registers
    <2>4. \A j \in Used' : /\ j < i' => ~data_ready'[j]
                           /\ j > i' => Answers(j)'
      <3>1. ASSUME NEW j \in Used', j > i PROVE Answers(j)'
        <4>1. j \in Used /\ j # i /\ Answers(j)
          BY <1>1, <1>2, <1>3, <3>1 DEF Used
        <4>2. QED
          BY <1>1, <1>4, <2>3, <4>1, AnswersKept
      <3>2. QED
        BY <1>2, <1>3, <1>4, <3>1
    <2>5. mesg' \in ClientMesg /\ i' = i
          /\ \/ spc' = "bcast" /\ mesg'.kind # "JOINED"
             \/ spc' = "rmClose"
      <3>1. Head(toServer[client[i]]) \in ClientMesg
        BY <1>4, <2>1 DEF Typed, TypeOK, FifoTypeOK
      <3>2. \A m \in ClientMesg : m.kind # "JOINED"
        BY DEF ClientMesg
      <3>3. QED
        BY <1>4, <3>1, <3>2 DEF HandleClient, BeginBroadcast
    <2>6. Kept' \subseteq Used'
      BY DEF Kept
    <2>7. QED
      BY <2>4, <2>5, <2>6 DEF Flags, Starting, Opening, Removing
  <1>5. CASE /\ toServer[client[i]] = <<>> /\ LowerFlag /\ i' = i + 1
             /\ UNCHANGED <<toServer, spc>>
    <2>1. data_ready' = [data_ready EXCEPT ![i] = FALSE]
      BY <1>5 DEF LowerFlag
    <2>2. /\ ~data_ready'[i]
          /\ \A j \in Used : j # i => data_ready'[j] = data_ready[j]
      BY <1>1, <1>2, <2>1 DEF Typed, TypeOK, ServerTypeOK
    <2>3. ASSUME NEW j \in Used', j < i' PROVE ~data_ready'[j]
      <3>1. j \in Used /\ (j = i \/ j < i)
        BY <1>1, <1>2, <1>5, <2>3 DEF Used
      <3>2. QED
        BY <1>3, <2>2, <3>1
    <2>4. ASSUME NEW j \in Used', j >= i' PROVE Answers(j)'
      <3>1. j \in Used /\ j # i /\ j >= i
        BY <1>1, <1>2, <1>5, <2>4 DEF Used
      <3>2. QED
        BY <1>1, <1>3, <1>5, <2>2, <3>1, AnswersKept
    <2>5. QED
      BY <1>1, <1>5, <2>3, <2>4 DEF Flags, Starting, Opening, Removing
  <1>6. QED
    BY <1>4, <1>5 DEF HandleClient

-----------------------------------------------------------------------------
(* The removal begins: the slot that is being vacated no longer counts.    *)
LEMMA FlagsRemove ==
  ASSUME Typed, Flags, RemoveClose \/ RemoveUnlink
  PROVE  Flags'
  <1>1. /\ UNCHANGED <<n_clients, client, data_ready, toServer, i>>
        /\ tsW' = tsW /\ i \in Nat
        /\ \/ spc = "rmClose" /\ spc' = "rmUnlink"
           \/ spc = "rmUnlink" /\ spc' = "rmShift" /\ k' = i + 1
    BY DEF RemoveClose, RemoveUnlink, CloseFds, UnlinkFifos, ShiftFrom,
           SameEnds, SameArray, Typed, TypeOK, ServerTypeOK
  <1>2. SameFlags
    BY <1>1 DEF SameFlags
  <1>3. Hole' = i
    BY <1>1 DEF Hole
  <1>4. Kept' = Used \ {i} /\ Kept' \subseteq Kept
    <2>1. Used' = Used
      BY <1>2, AnswersSame
    <2>2. -1 \notin Used
      BY NotASlot DEF Used
    <2>3. Hole = -1 \/ Hole = i
      BY <1>1 DEF Hole
    <2>4. QED
      BY <1>3, <2>1, <2>2, <2>3 DEF Kept
  <1>5. \A j \in Kept : /\ j < i => ~data_ready[j]
                        /\ j > i => Answers(j)
    BY <1>1 DEF Flags, Removing
  <1>6. \A j \in Kept' : /\ j < i' => ~data_ready'[j]
                         /\ j > i' => Answers(j)'
    BY <1>1, <1>2, <1>4, <1>5, AnswersSame
  <1>7. \A j \in Kept' : j >= i' => j > i'
    BY <1>1, <1>4 DEF Used
  <1>8. QED
    BY <1>1, <1>6, <1>7 DEF Flags, Starting, Opening, Removing

(* A flag is shifted with its client.                                      *)
LEMMA FlagsShift ==
  ASSUME Typed, Flags, RemoveShift
  PROVE  Flags'
  <1>1. /\ spc = "rmShift" /\ spc' = "rmShift" /\ k' = k + 1
        /\ data_ready' = [data_ready EXCEPT ![k - 1] = data_ready[k]]
        /\ UNCHANGED <<i, toServer, tsW>>
    BY DEF RemoveShift, ShiftOne, fifoVars
  <1>2. k \in i + 1 .. n_clients /\ k \in Int /\ i \in Nat
    BY <1>1 DEF Typed, Registers, TypeOK, ServerTypeOK
  <1>3. /\ k \in Used /\ k - 1 \in Used
        /\ client' = [client EXCEPT ![k - 1] = client[k]]
        /\ n_clients' = n_clients
    BY <1>2, ShiftMembers DEF RemoveShift
  <1>4. Used \subseteq Slots
    BY MaxClientsAssumption DEF Used, Slots, Typed, TypeOK, ServerTypeOK
  <1>5. Kept = Used \ {k - 1} /\ Kept' = Used \ {k}
    BY <1>1, <1>2, <1>3 DEF Kept, Hole, Used
  <1>6. /\ client'[k - 1] = client[k] /\ data_ready'[k - 1] = data_ready[k]
        /\ \A j \in Used \ {k - 1} :
             client'[j] = client[j] /\ data_ready'[j] = data_ready[j]
    BY <1>1, <1>3, <1>4 DEF Typed, TypeOK, ServerTypeOK
  <1>7. \A j \in Kept : /\ j < i => ~data_ready[j]
                        /\ j >= i => Answers(j)
    BY <1>1 DEF Flags, Removing
  <1>8. ASSUME NEW j \in Kept', j < i' PROVE ~data_ready'[j]
    <2>1. j \in Used /\ j # k - 1 /\ j \in Kept /\ j < i
      BY <1>1, <1>2, <1>5, <1>8 DEF Used
    <2>2. QED
      BY <1>6, <1>7, <2>1
  <1>9. ASSUME NEW j \in Kept', j >= i' PROVE Answers(j)'
    <2>1. CASE j = k - 1
      <3>1. Answers(k)
        <4>1. k \in Kept /\ k >= i
          BY <1>2, <1>3, <1>5
        <4>2. QED
          BY <1>7, <4>1
      <3>2. QED
        BY <1>1, <1>6, <2>1, <3>1 DEF Answers, ClientReadable
    <2>2. CASE j # k - 1
      <3>1. j \in Used \ {k - 1} /\ j \in Kept /\ j >= i
        BY <1>1, <1>5, <1>9, <2>2
      <3>2. QED
        BY <1>1, <1>6, <1>7, <3>1, AnswersKept
    <2>3. QED
      BY <2>1, <2>2
  <1>10. \A j \in Kept' : j > i' => j >= i'
    BY <1>1, <1>2, <1>5 DEF Used
  <1>11. QED
    BY <1>1, <1>8, <1>9, <1>10 DEF Flags, Starting, Opening, Removing

(* When the slots have been shifted the flags below i are down and those   *)
(* above i are true; the one at i is lowered after the broadcast.          *)
LEMMA FlagsEnd ==
  ASSUME Typed, Array, Flags, RemoveEnd
  PROVE  Flags'
  <1>1. /\ spc = "rmShift" /\ spc' = "bcast" /\ mesg' = mesg
        /\ err \/ k >= n_clients
        /\ UNCHANGED <<client, data_ready, i, toServer, tsW>>
    BY DEF RemoveEnd, BeginBroadcast, fifoVars
  <1>2. ~err
    BY <1>1 DEF Array, Running
  <1>3. k = n_clients /\ n_clients' = n_clients - 1 /\ n_clients \in Nat \ {0}
        /\ i \in Nat
    BY <1>1, <1>2 DEF RemoveEnd, CountDown, Typed, Registers, TypeOK,
                      ServerTypeOK
  <1>4. Used' = Kept
    <2>1. Hole = n_clients - 1
      BY <1>1, <1>3 DEF Hole
    <2>2. QED
      BY <1>3, <2>1 DEF Used, Kept
  <1>5. mesg'.kind # "JOINED"
    <2>1. mesg \in ClientMesg
      BY <1>1 DEF Typed, Registers, Removing
    <2>2. QED
      BY <1>1, <2>1 DEF ClientMesg
  <1>6. \A j \in Used' : /\ j < i' => ~data_ready'[j]
                         /\ j > i' => Answers(j)'
    BY <1>1, <1>4 DEF Flags, Removing, Answers, ClientReadable
  <1>7. QED
    BY <1>1, <1>5, <1>6 DEF Flags, Starting, Opening, Removing

(* Every step of the server keeps Flags.                                   *)
LEMMA FlagsServer ==
  ASSUME Typed, Array, Flags, ServerStep
  PROVE  Flags'
  <1>1. CASE ServerStart
    <2>1. n_clients' = 0
      BY <1>1 DEF ServerStart, StartRemove, StartMkfifo, StartOpen, SameArray,
                  Typed, Registers, Starting
    <2>2. QED
      BY <2>1, FlagsEmpty
  <1>2. CASE ServerShutdown
    BY <1>2, ShutdownOver, FlagsOver
  <1>3. CASE ServerLoop
    BY <1>3, FlagsSelect, FlagsJoin, FlagsAdd, FlagsWrite, FlagsEndBroadcast,
       FlagsPassOver, FlagsHandle, FlagsRemove, FlagsShift, FlagsEnd
    DEF ServerLoop
  <1>4. QED
    BY <1>1, <1>2, <1>3 DEF ServerStep

-----------------------------------------------------------------------------
(* A client that connects is not in the array yet: no flag speaks of it.   *)
LEMMA FlagsMeet ==
  ASSUME Typed, Requests, Flags, NEW c \in Clients, Meet(c)
  PROVE  Flags'
  <1>1. /\ spc \in Opening /\ spc' \in Opening /\ join = c
        /\ UNCHANGED <<n_clients, client, data_ready, toServer>>
        /\ tsW' \subseteq tsW \cup {c}
    BY DEF Meet, OpenToClient, OpenToServer, SameArray, Opening
  <1>2. \A j \in Used : client[j] # c
    BY <1>1 DEF Requests
  <1>3. \A j \in Used : Answers(j)
    BY <1>1 DEF Flags
  <1>4. Used' = Used
    BY <1>1 DEF Used
  <1>5. \A j \in Used' : Answers(j)'
    BY <1>1, <1>2, <1>3, <1>4 DEF Answers, ClientReadable
  <1>6. QED
    BY <1>1, <1>5 DEF Flags, Starting, Opening, Removing

(* Nothing a client does makes a FIFO from it unreadable.                  *)
LEMMA FlagsClient ==
  ASSUME Typed, Flags, NEW c \in Clients, ClientStep(c) \/ Kill(c),
         UNCHANGED serverVars
  PROVE  Flags'
  <1>1. /\ tsW' \subseteq tsW
        /\ \A d \in Clients : toServer[d] # <<>> => toServer'[d] # <<>>
    BY ClientUndisturbed DEF Undisturbed
  <1>2. UNCHANGED <<spc, n_clients, client, data_ready, i, k, mesg>>
    BY DEF serverVars
  <1>3. Used' = Used /\ Kept' = Kept /\ Kept \subseteq Used
    BY <1>2 DEF Used, Kept, Hole
  <1>4. \A j \in Used : Answers(j) => Answers(j)'
    BY <1>1, <1>2 DEF Answers, ClientReadable, Typed, Registers
  <1>5. QED
    BY <1>2, <1>3, <1>4 DEF Flags

(* In the handler no flag is used.                                         *)
LEMMA FlagsSignal ==
  ASSUME NEW s \in Signals, TakeSignal(s)
  PROVE  Flags'
  <1>1. spc' \in Handler
    BY DEF TakeSignal, Handler
  <1>2. QED
    BY <1>1, FlagsOver

-----------------------------------------------------------------------------
(* join_ready is down, and no client holds the join FIFO.                  *)
LEMMA JoinFlagInit == Init => JoinFlag
  BY DEF Init, ServerInit, ClientInit, JoinFlag, Opening, Holding

(* The part of JoinFlag that concerns the server, and the two that concern *)
(* the clients.                                                            *)
Announced ==
  join_ready =>
    \/ spc \in {"join"} \cup Opening \cup Handler \cup Stopped
    \/ spc = "bcast" /\ mesg.kind = "JOINED"
Pending ==
  spc = "join" /\ joinQ = <<>> => \A c \in joinW : mainpc[c] = "writeJoin"
Held == \A c \in Clients : mainpc[c] \in Holding => c \in joinW

(* Whatever the server does the clients keep what they hold.               *)
LEMMA HeldServer ==
  ASSUME Held, UNCHANGED mainpc, UNCHANGED joinW
  PROVE  Held'
  BY DEF Held

(* Of the steps of the server only select sends it to the join FIFO.       *)
LEMMA AnnouncedServer ==
  ASSUME Typed, Announced, Pending, ServerStep
  PROVE  Announced' /\ (mainpc' = mainpc => Pending') /\ joinW' = joinW
  <1> USE DEF Announced, Pending, Opening
  <1>a. ASSUME NEW how \in Stopped, Die(how)
        PROVE  spc' \in Stopped /\ joinW' = joinW
    BY <1>a DEF Die, CloseAllOfServer
  <1>b. ASSUME NEW c, PushFails(c) PROVE spc' \in Stopped /\ joinW' = joinW
    BY <1>a, <1>b DEF PushFails, Stopped
  <1> USE DEF SameJoinFifo, fifoVars
  <1>1. CASE ServerStart
    BY <1>1 DEF ServerStart, StartRemove, StartMkfifo, StartOpen, Handler,
                Stopped
  <1>2. CASE CheckSources
    <2>1. ~join_ready
      BY <1>2 DEF CheckSources, Handler, Stopped
    <2>2. QED
      BY <1>2, <2>1 DEF CheckSources, JoinReadable
  <1>3. CASE ReadJoin \/ ReadJoinEOF \/ ReadJoinAgain
    BY <1>3, <1>a
    DEF ReadJoin, ReadJoinEOF, ReadJoinAgain, BeginBroadcast, Joined, Stopped,
        Handler
  <1>4. CASE AddClient
    BY <1>4 DEF AddClient, BeginBroadcast, Joined
  <1>5. CASE BroadcastWrite
    BY <1>5, <1>b DEF BroadcastWrite, Push, Handler, Stopped
  <1>6. CASE EndBroadcast
    BY <1>6 DEF EndBroadcast, Handler, Stopped
  <1>7. CASE PassOver \/ HandleClient
    BY <1>7 DEF PassOver, HandleClient, BeginBroadcast, Handler, Stopped
  <1>8. CASE RemoveClose \/ RemoveUnlink \/ RemoveShift \/ RemoveEnd
    BY <1>8 DEF RemoveClose, RemoveUnlink, RemoveShift, RemoveEnd, CloseFds,
                UnlinkFifos, ShiftOne, BeginBroadcast, Handler, Stopped
  <1>9. CASE ServerShutdown
    <2>1. spc' \in Handler \cup Stopped
      BY <1>9, ShutdownOver
    <2>2. joinW' = joinW
      BY <1>9, <1>a, <1>b
      DEF ServerShutdown, ShutdownUnlink, ShutdownWrite, ShutdownRemove,
          ShutdownClose, ShutdownForget, ShutdownShift, ShutdownRemoved,
          ShutdownExit, CloseFds, UnlinkFifos, ShiftOne, Push, Stopped
    <2>3. QED
      BY <2>1, <2>2 DEF Handler, Stopped
  <1>10. QED
    BY <1>1, <1>2, <1>3, <1>4, <1>5, <1>6, <1>7, <1>8, <1>9
    DEF ServerStep, ServerLoop

(* So the server keeps JoinFlag.                                           *)
LEMMA JoinFlagServer ==
  ASSUME Typed, JoinFlag, ServerStep, UNCHANGED clientVars
  PROVE  JoinFlag'
  <1>1. mainpc' = mainpc
    BY DEF clientVars
  <1>2. Announced /\ Pending /\ Held
    BY DEF JoinFlag, Announced, Pending, Held
  <1>3. Announced' /\ Pending' /\ Held'
    BY <1>1, <1>2, AnnouncedServer, HeldServer
  <1>4. QED
    BY <1>3 DEF JoinFlag, Announced, Pending, Held

(* The opening of a client's FIFOs belongs to the join.                    *)
LEMMA JoinFlagMeet ==
  ASSUME Typed, JoinFlag, NEW c \in Clients, Meet(c)
  PROVE  JoinFlag'
  <1>1. /\ spc \in Opening /\ spc' \in Opening /\ joinW' = joinW
        /\ mainpc[c] \in Holding
    BY DEF Meet, OpenToClient, OpenToServer, OpensFirst, SameJoinFifo, AtMain,
           Holding, Opening
  <1>a. \E next : mainpc' = [mainpc EXCEPT ![c] = next]
    BY DEF Meet, OpenToClient, OpenToServer, GoMain
  <1>b. \A d \in Clients : d # c => mainpc'[d] = mainpc[d]
    BY <1>a DEF Typed, TypeOK, ClientTypeOK
  <1>2. Held'
    BY <1>1, <1>b DEF JoinFlag, Held
  <1>3. QED
    BY <1>1, <1>2 DEF JoinFlag, Held, Opening

(* A client that opens the join FIFO is about to write, one that has       *)
(* written leaves its request there, and keeps the FIFO open.              *)
LEMMA JoinFlagClient ==
  ASSUME Typed, JoinFlag, NEW c \in Clients, ClientStep(c) \/ Kill(c),
         UNCHANGED serverVars
  PROVE  JoinFlag'
  <1>1. /\ Undisturbed
        /\ joinQ' = joinQ \/ joinQ' = Append(joinQ, c)
    BY ClientUndisturbed
  <1>2. UNCHANGED <<spc, join_ready, mesg>>
    BY DEF serverVars
  <1>3. joinQ' = <<>> => joinQ = <<>>
    <2>1. joinQ \in Seq(Clients)
      BY DEF Typed, TypeOK, FifoTypeOK
    <2>2. QED
      BY <1>1, <2>1, QueueWrite
  <1>4. Announced'
    BY <1>2 DEF JoinFlag, Announced
  <1>5. Pending'
    BY <1>1, <1>2, <1>3 DEF JoinFlag, Pending, Undisturbed
  <1>6. Held'
    BY <1>1 DEF JoinFlag, Held, Undisturbed
  <1>7. QED
    BY <1>4, <1>5, <1>6 DEF JoinFlag, Announced, Pending, Held

(* In the handler join_ready is not used.                                  *)
LEMMA JoinFlagSignal ==
  ASSUME JoinFlag, NEW s \in Signals, TakeSignal(s), UNCHANGED clientVars
  PROVE  JoinFlag'
  <1>1. spc' \in Handler /\ UNCHANGED <<joinW, mainpc>>
    BY DEF TakeSignal, Handler, clientVars
  <1>2. QED
    BY <1>1 DEF JoinFlag, Handler

-----------------------------------------------------------------------------
(* The invariant is inductive.                                             *)
LEMMA InvNext == Inv /\ [Next]_vars => Inv'
  <1> SUFFICES ASSUME Typed, Requests, Array, Flags, JoinFlag, [Next]_vars
               PROVE  Flags' /\ JoinFlag'
    BY ArrayedNext DEF Inv, Arrayed, Typed
  <1>1. CASE Server
    BY <1>1, FlagsServer, JoinFlagServer DEF Server
  <1>2. CASE \E s \in Signals : Signal(s)
    BY <1>2, FlagsSignal, JoinFlagSignal DEF Signal
  <1>3. ASSUME NEW c \in Clients, Meet(c) PROVE Flags' /\ JoinFlag'
    BY <1>3, FlagsMeet, JoinFlagMeet
  <1>4. ASSUME NEW c \in Clients, Client(c) \/ Killed(c)
        PROVE  Flags' /\ JoinFlag'
    BY <1>4, FlagsClient, JoinFlagClient DEF Client, Killed
  <1>5. CASE UNCHANGED vars
    <2>1. /\ UNCHANGED <<toServer, tsW, joinQ, joinW, mainpc>>
          /\ UNCHANGED <<spc, n_clients, client, data_ready, i, k, mesg,
                         join_ready>>
      BY <1>5 DEF vars, fifoVars, serverVars, clientVars
    <2>2. Flags'
      BY <2>1 DEF Flags, Answers, ClientReadable, Kept, Hole, Used
    <2>3. JoinFlag'
      BY <2>1 DEF JoinFlag
    <2>4. QED
      BY <2>2, <2>3
  <1>6. QED
    BY <1>1, <1>2, <1>3, <1>4, <1>5 DEF Next

(* The inductive invariant of the chat service.                            *)
THEOREM InvAlways == Spec => []Inv
  <1>1. Init => Inv
    BY TypedInit, RequestsInit, ArrayInit, FlagsInit, JoinFlagInit
    DEF Inv, Typed
  <1>2. QED
    BY <1>1, InvNext, PTL DEF Spec

(* The server never waits in read for a client: at every call of it in     *)
(* server_handle_client the FIFO has a message or has lost its writer.     *)
THEOREM ReadsCorrect == Spec => []ReadsDoNotBlock
  <1>1. Inv => ReadsDoNotBlock
    BY DEF Inv, Flags, Answers, ReadsDoNotBlock
  <1>2. QED
    BY <1>1, InvAlways, PTL

(* The server fails for want of a join request only when every client it   *)
(* has let in is gone (server_handle_join): each of the others holds the   *)
(* join FIFO open, and none of them is about to write a request.           *)
THEOREM JoinFailsAlone == Spec => []FailsAlone
  <1>1. Inv => FailsAlone
    <2>1. SUFFICES ASSUME Inv, spc = "join" /\ joinQ = <<>>,
                          NEW j \in Used, mainpc[client[j]] \notin Gone
                   PROVE  FALSE
      BY DEF FailsAlone, Members
    <2>2. client[j] \in Clients /\ from[client[j]] # 0
      BY <2>1 DEF Inv, Registers, Requests
    <2>3. mainpc[client[j]] \notin Early
      BY <2>1, <2>2 DEF Inv, Requests
    <2>4. mainpc[client[j]] \in Holding
      BY <2>1, <2>2, <2>3
      DEF Inv, TypeOK, ClientTypeOK, Early, Holding, Gone
    <2>5. mainpc[client[j]] = "writeJoin"
      BY <2>1, <2>2, <2>4 DEF Inv, JoinFlag
    <2>6. QED
      BY <2>3, <2>5 DEF Early
  <1>2. QED
    BY <1>1, InvAlways, PTL
-----------------------------------------------------------------------------
(* How it ends.  SIGPIPE takes the server down only over a client that was *)
(* killed, has departed or was told to go; when the handler of a signal has*)
(* come to its end everybody who stays has been told; and only its own     *)
(* DEPARTED takes a client out of the array.                               *)

(* What is true of every client at every place for BreaksAtTheGone to hold *)
(* at the one where the server is killed.  The two threads of a client are *)
(* not there before main has made them, and DEPARTED has been written when *)
(* the other one is cancelled.                                             *)
Unthreaded == Early \cup {"openTC", "openTS", "createUser"}

Threads ==
  \A c \in Clients :
    /\ userpc[c] = "cancel" => Departing(c)
    /\ mainpc[c] \in Unthreaded => userpc[c] = "none"
    /\ mainpc[c] \in Unthreaded \cup {"createServer"} => serverpc[c] = "none"

(* Those to whom the server may write: they read, or have a reason not to; *)
(* and the server reads from those of the array, so that none of them dies *)
(* in a write of its own.                                                  *)
Lost(c) == c \in killed \/ Departing(c) \/ serverpc[c] \in {"close", "done"}
Written ==
  (Members \cap tcW) \cup IF spc \in {"openTS", "append"} THEN {join} ELSE {}

Endings ==
  /\ Threads
  /\ spc = "openTS" => mainpc[join] \in {"openTS"} \cup Gone
  /\ \A c \in Written : c \in tcR \/ Lost(c)
  /\ Members \cap tcW \subseteq tsR

(* A step of a client never undoes a reason, and no client stops to read   *)
(* without one, unless it has not come to the server yet or the server     *)
(* does not read from it.                                                  *)
Reasons ==
  /\ tcR' \subseteq tcR
  /\ \A d \in Clients : Lost(d) => Lost(d)'
  /\ \A d \in tcR \ tcR' :
       \/ Lost(d)' \/ mainpc[d] \in Early
       \/ d \notin tsR /\ mainpc[d] \notin Unthreaded \cup Gone
  /\ \A d \in Clients :
       mainpc[d] \in {"openTS"} \cup Gone => mainpc'[d] \in {"openTS"} \cup Gone

(* What a client has written stays written.                                *)
LEMMA StillDeparting ==
  ASSUME Typed, NEW d \in Clients, NEW m, m \in ClientMesg,
         sent'[d] = Append(sent[d], m)
  PROVE  /\ Departing(d) => Departing(d)'
         /\ m = Departed(d) => Departing(d)'
  <1>1. sent[d] \in Seq(ClientMesg)
    BY DEF Typed, TypeOK, ClientTypeOK
  <1>2. /\ \A j \in DOMAIN sent[d] : j \in DOMAIN sent'[d] /\ sent'[d][j] = sent[d][j]
        /\ Len(sent[d]) + 1 \in DOMAIN sent'[d]
        /\ sent'[d][Len(sent[d]) + 1] = m
    BY <1>1
  <1>3. QED
    BY <1>2 DEF Departing

(* A client ends.                                                          *)
LEMMA EndReasons ==
  ASSUME Typed, Threads, NEW c \in Clients, NEW how \in Gone,
         EndProcess(c, how), killed \subseteq killed',
         \/ c \in killed' \/ Lost(c) \/ mainpc[c] \in Early
         \/ c \notin tsR /\ mainpc[c] \notin Unthreaded \cup Gone
  PROVE  Threads' /\ Reasons
  <1>1. /\ tcR' = tcR \ {c} /\ UNCHANGED <<userpc, serverpc, sent>>
        /\ mainpc'[c] = how
        /\ \A d \in Clients : d # c => mainpc'[d] = mainpc[d]
    BY DEF EndProcess, CloseAllOfClient, SameThreads, SameClientHistory, Typed,
           TypeOK, ClientTypeOK
  <1>2. \A d \in Clients : (Departing(d) <=> Departing(d)') /\ (Lost(d) => Lost(d)')
    BY <1>1 DEF Departing, Lost
  <1>3. Threads'
    BY <1>1, <1>2 DEF Threads, Gone, Unthreaded, Early
  <1>4. c \in killed' => Lost(c)'
    BY DEF Lost
  <1>5. QED
    BY <1>1, <1>2, <1>3, <1>4 DEF Reasons

(* A client's user thread writes.                                          *)
LEMMA SendReasons ==
  ASSUME Typed, Threads, NEW c \in Clients, NEW m \in ClientMesg,
         NEW at \in {"write", "depart"}, NEW next \in {"read", "cancel"},
         next = "cancel" => m = Departed(c), Send(c, at, m, next)
  PROVE  Threads' /\ Reasons
  <1>1. mainpc[c] \notin Unthreaded \cup Gone
    BY DEF Send, AtUser, Threads
  <1>2. CASE c \in tsR
    <2>1. /\ UNCHANGED <<mainpc, serverpc, killed, tcR>>
          /\ userpc' = [userpc EXCEPT ![c] = next]
          /\ sent' = [sent EXCEPT ![c] = Append(@, m)]
      BY <1>2 DEF Send, GoUser
    <2>2. \A d \in Clients : d # c => sent'[d] = sent[d] /\ userpc'[d] = userpc[d]
      BY <2>1 DEF Typed, TypeOK, ClientTypeOK
    <2>3. sent'[c] = Append(sent[c], m) /\ userpc'[c] = next
      BY <2>1 DEF Typed, TypeOK, ClientTypeOK
    <2>4. \A d \in Clients : Departing(d) => Departing(d)'
      BY <2>2, <2>3, StillDeparting DEF Departing
    <2>5. next = "cancel" => Departing(c)'
      BY <2>3, StillDeparting
    <2>6. Threads'
      BY <1>1, <2>1, <2>2, <2>3, <2>4, <2>5 DEF Threads
    <2>7. Reasons
      BY <2>1, <2>4 DEF Reasons, Lost
    <2>8. QED
      BY <2>6, <2>7
  <1>3. CASE c \notin tsR
    BY <1>1, <1>3, EndReasons DEF Send, Gone
  <1>4. QED
    BY <1>2, <1>3

(* The steps of a client that do not end it and are no writes.             *)
LEMMA StillReasons ==
  ASSUME Typed, Threads, NEW c \in Clients, UNCHANGED <<sent, killed>>,
         \/ MakeFifos(c) \/ OpenJoin(c) \/ JoinOpened(c) \/ CreateUser(c)
         \/ CreateServer(c) \/ TypeLine(c) \/ EndInput(c) \/ CloseToServer(c)
         \/ UserCancelled(c) \/ ReadMessage(c) \/ CancelUser(c)
         \/ CloseToClient(c) \/ ServerCancelled(c)
  PROVE  Threads' /\ Reasons
  <1>1. \A d \in Clients : Departing(d) <=> Departing(d)'
    BY DEF Departing
  <1> USE DEF Typed, TypeOK, ClientTypeOK, Threads, Reasons, Lost, Unthreaded,
              Early, Gone, AtMain, AtUser, AtServer, GoMain, GoUser, GoServer,
              OnlyMain, SameThreads, fifoVars
  <1>2. CASE MakeFifos(c) \/ JoinOpened(c)
    BY <1>1, <1>2 DEF MakeFifos, JoinOpened
  <1>3. CASE OpenJoin(c)
    <2>1. PICK next \in {"exited", "stuck", "waitJoin"} : GoMain(c, next)
      BY <1>3 DEF OpenJoin, FifoTypeOK
    <2>2. QED
      BY <1>1, <1>3, <2>1 DEF OpenJoin
  <1>4. CASE CreateUser(c)
    BY <1>1, <1>4 DEF CreateUser
  <1>c. CASE CreateServer(c)
    BY <1>1, <1>c DEF CreateServer
  <1>5. CASE TypeLine(c) \/ EndInput(c)
    BY <1>1, <1>5 DEF TypeLine, EndInput
  <1>b. CASE CloseToServer(c) \/ UserCancelled(c)
    BY <1>1, <1>b DEF CloseToServer, UserCancelled
  <1>6. CASE ReadMessage(c)
    BY <1>1, <1>6 DEF ReadMessage
  <1>7. CASE CancelUser(c) \/ CloseToClient(c) \/ ServerCancelled(c)
    BY <1>1, <1>7 DEF CancelUser, CloseToClient, ServerCancelled
  <1>8. QED
    BY <1>2, <1>3, <1>4, <1>c, <1>5, <1>b, <1>6, <1>7

(* Every step of a client.                                                 *)
LEMMA ClientReasons ==
  ASSUME Typed, Threads, NEW c \in Clients, ClientStep(c) \/ Kill(c)
  PROVE  Threads' /\ Reasons
  <1>1. CASE WriteJoin(c)
    <2>1. CASE joinR
      <3>1. /\ GoMain(c, "openTC") /\ mainpc[c] = "writeJoin"
            /\ UNCHANGED <<userpc, serverpc, killed, sent, tcR>>
        BY <1>1, <2>1 DEF WriteJoin, AtMain, SameThreads, SameClientHistory
      <3>2. \A d \in Clients : Departing(d) <=> Departing(d)'
        BY <3>1 DEF Departing
      <3>3. QED
        BY <3>1, <3>2
        DEF GoMain, Typed, TypeOK, ClientTypeOK, Threads, Reasons, Lost,
            Unthreaded, Early, Gone
    <2>2. CASE ~joinR
      BY <1>1, <2>2, EndReasons DEF WriteJoin, AtMain, Early, Gone
    <2>3. QED
      BY <2>1, <2>2
  <1>2. CASE MainReturn(c)
    BY <1>2, EndReasons DEF MainReturn, Lost, Gone
  <1>3. CASE SendLine(c)
    <2>1. Len(sent[c]) + 1 \in Nat
      BY DEF Typed, TypeOK, ClientTypeOK
    <2>2. QED
      BY <1>3, <2>1, MesgTypes, SendReasons DEF SendLine
  <1>4. CASE SendDeparted(c)
    BY <1>4, MesgTypes, SendReasons DEF SendDeparted
  <1>5. CASE CancelServer(c)
    <2>1. userpc[c] = "cancel" /\ Departing(c)
      BY <1>5 DEF CancelServer, AtUser, Threads
    <2>2. CASE AtMain(c, "createServer")
      BY <1>5, <2>1, <2>2, EndReasons DEF CancelServer, Lost, Gone
    <2>3. CASE ~AtMain(c, "createServer")
      <3>1. /\ GoUser(c, "close")
            /\ UNCHANGED <<mainpc, serverpc, killed, sent, tcR>>
        BY <1>5, <2>3 DEF CancelServer, SameClientHistory, fifoVars
      <3>2. \A d \in Clients : Departing(d) <=> Departing(d)'
        BY <3>1 DEF Departing
      <3>3. QED
        BY <2>1, <3>1, <3>2
        DEF GoUser, Typed, TypeOK, ClientTypeOK, Threads, Reasons, Lost
    <2>4. QED
      BY <2>2, <2>3
  <1>6. CASE Kill(c)
    BY <1>6, EndReasons DEF Kill, Gone
  <1>7. CASE \/ MakeFifos(c) \/ OpenJoin(c) \/ JoinOpened(c) \/ CreateUser(c)
             \/ CreateServer(c) \/ TypeLine(c) \/ EndInput(c)
             \/ CloseToServer(c) \/ UserCancelled(c) \/ ReadMessage(c)
             \/ CancelUser(c) \/ CloseToClient(c) \/ ServerCancelled(c)
    <2>1. UNCHANGED <<sent, killed>>
      BY <1>7
      DEF MakeFifos, OpenJoin, JoinOpened, CreateUser, CreateServer, TypeLine,
          EndInput, CloseToServer, UserCancelled, ReadMessage, CancelUser,
          CloseToClient, ServerCancelled, OnlyMain, SameClientHistory
    <2>2. QED
      BY <1>7, <2>1, StillReasons
  <1>8. QED
    BY <1>1, <1>2, <1>3, <1>4, <1>5, <1>6, <1>7
    DEF ClientStep, MainStep, UserInput, UserThread, ServerThread

-----------------------------------------------------------------------------
(* Nobody has been added or has a thread.                                  *)
LEMMA EndingsInit == Init => Endings /\ BreaksAtTheGone
  <1> SUFFICES ASSUME Init PROVE Endings /\ BreaksAtTheGone
    OBVIOUS
  <1>1. tcW = {} /\ spc = "remove"
    BY DEF Init, FifoInit, ServerInit
  <1>2. Written = {} /\ Members \cap tcW = {}
    BY <1>1 DEF Written
  <1>3. Threads
    BY DEF Init, ClientInit, Threads
  <1>4. QED
    BY <1>1, <1>2, <1>3 DEF Endings, BreaksAtTheGone

(* The server takes nobody's end of a FIFO away; it may write only to      *)
(* those it might have written to before, and reads from those of them     *)
(* that the array holds.                                                   *)
Narrowed ==
  /\ tcR' = tcR /\ spc' # "openTS"
  /\ Written' \subseteq Written
  /\ Members' \cap tcW' \subseteq tsR'

(* A process that ends can write to nobody.                                *)
LEMMA DieNarrowed ==
  ASSUME NEW how \in Stopped, Die(how)
  PROVE  Narrowed
  BY DEF Die, CloseAllOfServer, Narrowed, Written, Stopped

(* A write that fails ends the server too.                                 *)
LEMMA PushFailsNarrowed ==
  ASSUME NEW c, PushFails(c)
  PROVE  Narrowed
  BY DieNarrowed DEF PushFails, Stopped

(* A step that opens nothing and adds nobody.                              *)
LEMMA FewerNarrowed ==
  ASSUME Members \cap tcW \subseteq tsR, UNCHANGED <<tcW, tsR, tcR>>,
         Members' \subseteq Members, spc' \notin {"openTS", "append"}
  PROVE  Narrowed
  BY DEF Narrowed, Written

(* Closing the descriptors of a client closes both.                        *)
LEMMA CloseNarrowed ==
  ASSUME Members \cap tcW \subseteq tsR, NEW at,
         NEW next \in {"rmUnlink", "sdForget"}, CloseFds(at, next)
  PROVE  Narrowed
  <1>1. /\ spc' = next /\ UNCHANGED <<tcR, n_clients, client>>
        /\ tsR' = tsR \ {client[i]} /\ tcW' = tcW \ {client[i]}
    BY DEF CloseFds, SameArray
  <1>2. Members' = Members
    BY <1>1 DEF Members, Used
  <1>3. QED
    BY <1>1, <1>2 DEF Narrowed, Written

(* Every step of the server.                                               *)
LEMMA NarrowedServer ==
  ASSUME Typed, Array, Members \cap tcW \subseteq tsR, ServerStep
  PROVE  Narrowed
  <1> USE DEF SameArray, SameEnds, fifoVars
  <1>1. CASE QuietStep /\ ~RemoveClose /\ ~ShutdownClose
    <2>1. Members' = Members
      BY <1>1, QuietFrame DEF Members, Used
    <2>2. spc' \notin Opening
      BY <1>1, QuietFrame
    <2>3. Narrowed \/ UNCHANGED <<tcW, tsR, tcR>>
      BY <1>1, DieNarrowed, PushFailsNarrowed
      DEF QuietStep, StartRemove, StartMkfifo, CheckSources, ReadJoinEOF,
          ReadJoinAgain, BroadcastWrite, EndBroadcast, PassOver, HandleClient,
          ShutdownUnlink, ShutdownWrite, ShutdownRemove, ShutdownExit, Push,
          BeginBroadcast, Stopped
    <2>4. QED
      BY <2>1, <2>2, <2>3, FewerNarrowed DEF Opening
  <1>2. CASE RemoveClose \/ ShutdownClose
    BY <1>2, CloseNarrowed DEF RemoveClose, ShutdownClose
  <1>3. CASE StartOpen
    <2>1. n_clients' = 0 /\ n_clients = 0 /\ client' = client
      BY <1>3 DEF StartOpen, Typed, Registers, Starting
    <2>2. Members' = Members
      BY <2>1 DEF Members, Used
    <2>3. QED
      BY <1>3, <2>2, FewerNarrowed DEF StartOpen
  <1>4. CASE ReadJoin
    <2>1. Members' = Members
      BY <1>4 DEF ReadJoin, Members, Used
    <2>2. QED
      BY <1>4, <2>1, FewerNarrowed DEF ReadJoin, BeginBroadcast
  <1>5. CASE AddClient
    <2>1. n_clients \in Nat /\ n_clients \in Slots
      <3>1. n_clients < MaxClients
        BY <1>5 DEF AddClient, Typed, Registers, Opening
      <3>2. QED
        BY <3>1, MaxClientsAssumption DEF Typed, TypeOK, ServerTypeOK, Slots
    <2>2. /\ client' = [client EXCEPT ![n_clients] = join]
          /\ n_clients' = n_clients + 1 /\ UNCHANGED <<tcW, tsR, tcR>>
          /\ spc = "append" /\ spc' = "bcast"
      BY <1>5 DEF AddClient, BeginBroadcast
    <2>3. Used' = Used \cup {n_clients} /\ Used \subseteq Slots
      BY <2>1, <2>2, MaxClientsAssumption DEF Used, Slots
    <2>4. Members' \subseteq Members \cup {join}
      BY <2>1, <2>2, <2>3 DEF Members, Typed, TypeOK, ServerTypeOK
    <2>5. join \in tsR
      BY <2>2 DEF Array, Running
    <2>6. QED
      BY <2>2, <2>4, <2>5 DEF Narrowed, Written
  <1>6. CASE RemoveUnlink \/ ShutdownForget
    <2>1. Members' = Members
      BY <1>6 DEF RemoveUnlink, ShutdownForget, UnlinkFifos, Members, Used
    <2>2. QED
      BY <1>6, <2>1, FewerNarrowed DEF RemoveUnlink, ShutdownForget, UnlinkFifos
  <1>7. CASE RemoveShift \/ ShutdownShift
    <2>1. k \in i + 1 .. n_clients
      BY <1>7 DEF RemoveShift, ShutdownShift, ShiftOne, Typed, Registers
    <2>2. Members' \subseteq Members
      BY <1>7, <2>1, ShiftMembers DEF RemoveShift, ShutdownShift
    <2>3. QED
      BY <1>7, <2>2, FewerNarrowed DEF RemoveShift, ShutdownShift, ShiftOne
  <1>8. CASE RemoveEnd
    <2>1. n_clients \in Nat /\ (~err => n_clients # 0)
      BY <1>8 DEF RemoveEnd, Typed, TypeOK, ServerTypeOK, Registers, Removing
    <2>2. client' = client /\ n_clients' \in Nat /\ n_clients' <= n_clients
      BY <1>8, <2>1 DEF RemoveEnd, CountDown
    <2>3. QED
      BY <1>8, <2>2, FewerMembers, FewerNarrowed DEF RemoveEnd, BeginBroadcast
  <1>9. CASE ShutdownRemoved
    <2>1. CASE err
      BY <1>9, <2>1, DieNarrowed DEF ShutdownRemoved, Stopped
    <2>2. CASE ~err
      <3>1. n_clients \in Nat \ {0}
        BY <1>9 DEF ShutdownRemoved, Typed, TypeOK, ServerTypeOK, Registers,
                    Dropping
      <3>2. client' = client /\ n_clients' \in Nat /\ n_clients' <= n_clients
        BY <1>9, <2>2, <3>1 DEF ShutdownRemoved, CountDown
      <3>3. QED
        BY <1>9, <2>2, <3>2, FewerMembers, FewerNarrowed DEF ShutdownRemoved
    <2>3. QED
      BY <2>1, <2>2
  <1>10. QED
    BY <1>1, <1>2, <1>3, <1>4, <1>5, <1>6, <1>7, <1>8, <1>9
    DEF ServerStep, ServerStart, ServerLoop, ServerShutdown, QuietStep

(* A write breaks only at a client of the array that does not read.        *)
LEMMA BreaksServer ==
  ASSUME Typed, ServerStep, spc' = "sigpipe"
  PROVE  /\ Members' = Members /\ tcR' = tcR
         /\ \E c \in Members \cap tcW : c \notin tcR
  <1>1. PICK j \in Used : PushFails(client[j])
    <2>1. \/ BroadcastWrite /\ PushFails(client[k])
          \/ ShutdownWrite /\ InLoop /\ PushFails(client[i])
      BY DEF ServerStep, ServerStart, ServerLoop, ServerShutdown, StartRemove,
             StartMkfifo, StartOpen, CheckSources, ReadJoin, ReadJoinEOF,
             ReadJoinAgain, AddClient, BroadcastWrite, EndBroadcast, PassOver,
             HandleClient, RemoveClose, RemoveUnlink, RemoveShift, RemoveEnd,
             ShutdownUnlink, ShutdownWrite, ShutdownRemove, ShutdownClose,
             ShutdownForget, ShutdownShift, ShutdownRemoved, ShutdownExit,
             CloseFds, UnlinkFifos, ShiftOne, BeginBroadcast, Die
    <2>2. k \in Nat /\ i \in Nat /\ n_clients \in Nat
      BY DEF Typed, TypeOK, ServerTypeOK
    <2>3. QED
      BY <2>1, <2>2 DEF BroadcastWrite, InLoop, Used
  <1>2. /\ client[j] \in tcW \ tcR
        /\ UNCHANGED <<n_clients, client, tcR>>
    BY <1>1 DEF PushFails, Die, CloseAllOfServer, SameArray
  <1>3. QED
    BY <1>1, <1>2 DEF Members, Used

(* The openings let the server write to the client it lets in, which reads *)
(* and has no threads yet.                                                 *)
LEMMA EndingsMeet ==
  ASSUME Inv, Endings, NEW c \in Clients, Meet(c)
  PROVE  Endings'
  <1>1. /\ join = c /\ UNCHANGED <<n_clients, client, join>>
        /\ UNCHANGED <<userpc, serverpc, killed, sent>>
        /\ tsR \subseteq tsR'
        /\ \/ /\ spc = "openTC" /\ spc' = "openTS" /\ tcR' = tcR \cup {c}
              /\ tcW' = tcW \cup {c}
              /\ mainpc[c] = "openTC" /\ GoMain(c, "openTS")
           \/ /\ spc = "openTS" /\ spc' = "append" /\ UNCHANGED <<tcR, tcW>>
              /\ mainpc[c] = "openTS" /\ GoMain(c, "createUser")
    BY DEF Meet, OpenToClient, OpenToServer, OpensFirst, AtMain, OnlyMain,
           SameThreads, SameClientHistory, SameArray
  <1>2. \A d \in Clients : d # c => mainpc'[d] = mainpc[d]
    BY <1>1 DEF GoMain, Inv, TypeOK, ClientTypeOK
  <1>3. /\ mainpc[c] \in Unthreaded /\ mainpc'[c] \in Unthreaded
        /\ spc' = "openTS" => mainpc'[c] = "openTS"
    BY <1>1 DEF GoMain, Inv, TypeOK, ClientTypeOK, Unthreaded
  <1>4. \A d : (Departing(d) <=> Departing(d)') /\ (Lost(d) <=> Lost(d)')
    BY <1>1 DEF Departing, Lost
  <1>5. Threads'
    BY <1>1, <1>2, <1>3, <1>4 DEF Endings, Threads
  <1>6. Members' = Members /\ c \notin Members
    BY <1>1 DEF Members, Used, Inv, Requests, Opening
  <1>7. Written' \subseteq Written \cup {c} /\ (c \in Written \/ c \in tcR')
        /\ tcR \subseteq tcR'
    BY <1>1, <1>6 DEF Written
  <1>8. \A d \in Written' : d \in tcR' \/ Lost(d)'
    BY <1>4, <1>7 DEF Endings
  <1>9. Members' \cap tcW' \subseteq tsR'
    BY <1>1, <1>6 DEF Endings
  <1>10. QED
    BY <1>1, <1>3, <1>5, <1>8, <1>9 DEF Endings

(* A client of the array that stops to read has a reason: the server reads *)
(* from it, and it is past its request.                                    *)
LEMMA EndingsClient ==
  ASSUME Inv, Endings, NEW c \in Clients, ClientStep(c) \/ Kill(c),
         UNCHANGED serverVars
  PROVE  Endings' /\ (BreaksAtTheGone => BreaksAtTheGone')
  <1>1. Typed /\ Threads
    BY DEF Typed, Inv, Endings
  <1>2. Threads' /\ Reasons /\ tsR' = tsR /\ tcW' = tcW
    BY <1>1, ClientReasons, ClientUndisturbed DEF Undisturbed
  <1>3. UNCHANGED <<spc, n_clients, client, join>>
    BY DEF serverVars
  <1>4. Members' = Members /\ Written' = Written
    BY <1>2, <1>3 DEF Members, Used, Written
  <1>5. Members \subseteq Clients /\ \A d \in Members : mainpc[d] \notin Early
    <2>1. ASSUME NEW j \in Used
          PROVE  client[j] \in Clients /\ mainpc[client[j]] \notin Early
      <3>1. client[j] \in Clients /\ from[client[j]] # 0
        BY DEF Inv, Registers, Requests
      <3>2. QED
        BY <3>1 DEF Inv, Requests
    <2>2. QED
      BY <2>1 DEF Members
  <1>6. spc \in {"openTS", "append"} =>
          join \in Clients /\ mainpc[join] \notin Early
    BY DEF Inv, Registers, Requests, Opening
  <1>7. ASSUME NEW d \in Written PROVE d \in tcR' \/ Lost(d)'
    <2>1. d \in Clients /\ mainpc[d] \notin Early
      BY <1>5, <1>6 DEF Written
    <2>2. d \in tsR \/ mainpc[d] \in Unthreaded \cup Gone
      <3>1. CASE d \in Members \cap tcW
        BY <3>1 DEF Endings
      <3>2. CASE spc = "openTS" /\ d = join
        BY <3>2 DEF Endings, Unthreaded
      <3>3. CASE spc = "append" /\ d = join
        BY <3>3 DEF Inv, Array, Running
      <3>4. QED
        BY <3>1, <3>2, <3>3 DEF Written
    <2>3. d \in tcR \/ Lost(d)
      BY DEF Endings
    <2>4. QED
      BY <1>2, <2>1, <2>2, <2>3 DEF Reasons
  <1>8. spc = "openTS" => mainpc'[join] \in {"openTS"} \cup Gone
    BY <1>2, <1>6 DEF Endings, Reasons
  <1>9. Endings'
    BY <1>2, <1>3, <1>4, <1>7, <1>8 DEF Endings
  <1>10. BreaksAtTheGone => BreaksAtTheGone'
    BY <1>2, <1>3, <1>4, <1>5 DEF BreaksAtTheGone, Reasons, Lost
  <1>11. QED
    BY <1>9, <1>10

(* Endings and BreaksAtTheGone are inductive on top of Inv.                *)
LEMMA EndingsNext ==
  ASSUME Inv, Endings, BreaksAtTheGone, [Next]_vars
  PROVE  Endings' /\ BreaksAtTheGone'
  <1>a. ASSUME UNCHANGED clientVars
        PROVE  /\ Threads <=> Threads'
               /\ \A d : (Departing(d) <=> Departing(d)') /\ (Lost(d) <=> Lost(d)')
    <2>1. \A d : (Departing(d) <=> Departing(d)') /\ (Lost(d) <=> Lost(d)')
      BY <1>a DEF clientVars, Departing, Lost
    <2>2. QED
      BY <1>a, <2>1 DEF clientVars, Threads
  <1>1. CASE Server
    <2>1. ServerStep /\ UNCHANGED clientVars
      BY <1>1 DEF Server
    <2>2. Typed /\ Array /\ Members \cap tcW \subseteq tsR
      BY DEF Typed, Inv, Endings
    <2>3. Narrowed
      BY <2>1, <2>2, NarrowedServer
    <2>4. Endings'
      BY <1>a, <2>1, <2>3 DEF Endings, Narrowed
    <2>5. ASSUME spc' = "sigpipe" PROVE BreaksAtTheGone'
      <3>1. PICK c \in Members \cap tcW : c \notin tcR
        BY <2>1, <2>2, <2>5, BreaksServer
      <3>2. c \in Members' /\ c \notin tcR' /\ Lost(c)
        BY <2>1, <2>2, <2>5, <3>1, BreaksServer DEF Endings, Written
      <3>3. QED
        BY <1>a, <2>1, <3>2 DEF BreaksAtTheGone, Lost
    <2>6. QED
      BY <2>4, <2>5 DEF BreaksAtTheGone
  <1>2. ASSUME NEW s \in Signals, Signal(s)
        PROVE  Endings' /\ BreaksAtTheGone'
    <2>1. /\ UNCHANGED clientVars /\ UNCHANGED <<tcW, tsR, tcR>>
          /\ spc' \in Handler /\ UNCHANGED <<n_clients, client>>
      BY <1>2 DEF Signal, TakeSignal, SameEnds, SameArray, Handler
    <2>2. Members' = Members /\ Written' \subseteq Written
      BY <2>1 DEF Members, Used, Written, Handler
    <2>3. Endings'
      BY <1>a, <2>1, <2>2 DEF Endings, Handler
    <2>4. QED
      BY <2>1, <2>3 DEF BreaksAtTheGone, Handler
  <1>3. ASSUME NEW c \in Clients, Meet(c)
        PROVE  Endings' /\ BreaksAtTheGone'
    <2>1. spc' # "sigpipe"
      BY <1>3 DEF Meet, OpenToClient, OpenToServer
    <2>2. QED
      BY <1>3, <2>1, EndingsMeet DEF BreaksAtTheGone
  <1>4. ASSUME NEW c \in Clients, Client(c) \/ Killed(c)
        PROVE  Endings' /\ BreaksAtTheGone'
    BY <1>4, EndingsClient DEF Client, Killed
  <1>5. CASE UNCHANGED vars
    <2>1. /\ UNCHANGED clientVars /\ UNCHANGED <<tcW, tsR, tcR, mainpc>>
          /\ UNCHANGED <<spc, n_clients, client, join, killed, serverpc>>
      BY <1>5 DEF vars, fifoVars, serverVars, clientVars
    <2>2. Members' = Members /\ Written' = Written
      BY <2>1 DEF Members, Used, Written
    <2>3. Endings'
      BY <1>a, <2>1, <2>2 DEF Endings
    <2>4. BreaksAtTheGone'
      BY <1>a, <2>1, <2>2 DEF BreaksAtTheGone
    <2>5. QED
      BY <2>3, <2>4
  <1>6. QED
    BY <1>1, <1>2, <1>3, <1>4, <1>5 DEF Next

(* SIGPIPE takes the server down only over a client of its array that was  *)
(* killed, that has written its DEPARTED, or that has been told to go:     *)
(* nobody who stays in the room ends it (server_broadcast, server_shutdown *)
(* against the two threads of bl-client.c).                                *)
THEOREM BreaksOnlyThen == Spec => []BreaksAtTheGone
  <1>1. Init => Endings /\ BreaksAtTheGone
    BY EndingsInit
  <1>2. /\ Inv /\ Endings /\ BreaksAtTheGone /\ [Next]_vars
        => Endings' /\ BreaksAtTheGone'
    BY EndingsNext
  <1>3. QED
    BY <1>1, <1>2, InvAlways, PTL DEF Spec

-----------------------------------------------------------------------------
(* Who leaves and who is told.  DEPARTED is the last thing in a FIFO to    *)
(* the server, and from when it is read until the shift is done the client *)
(* it names is the one that is removed.                                    *)
Past(c) == Departing(c) /\ userpc[c] \in {"cancel", "close", "done"}

Words ==
  \A c \in Clients : \A j \in DOMAIN toServer[c] :
    toServer[c][j].kind # "MESG" =>
      toServer[c][j] = Departed(c) /\ j = Len(toServer[c]) /\ Past(c)

Leaver ==
  spc \in Removing =>
    /\ mesg = Departed(mesg.name)
    /\ toServer[mesg.name] = <<>> /\ Past(mesg.name)
    /\ spc \in {"rmClose", "rmUnlink"} => client[i] = mesg.name
    /\ spc = "rmShift" =>
         /\ Members \subseteq KeptClients \cup {mesg.name}
         /\ mesg.name \notin fifoFiles \cup tcW

(* Those who stay are in the array until the handler has told them.        *)
Present ==
  /\ spc \in Starting => \A c \in Clients : from[c] = 0
  /\ spc \in Running => \A c \in Clients : Stays(c) => c \in tcW
  /\ spc \in {"sdUnlink", "sdWrite"} =>
       /\ \A c \in Clients : Stays(c) => c \in Members \/ Told(c)
       /\ \A j \in Used : j < i /\ Stays(client[j]) => Told(client[j])
  /\ spc \in {"sdRemove", "sdExit", "exit0"} \cup Dropping =>
       \A c \in Clients : Stays(c) => Told(c)

(* What no step of a client undoes.                                        *)
Steady ==
  /\ \A d \in Clients : Departing(d) => Departing(d)'
  /\ \A d \in Clients : Told(d) => Told(d)'
  /\ \A d \in Clients : Past(d) =>
       /\ Past(d)' /\ toServer'[d] = toServer[d]
       /\ d \in fifoFiles' => d \in fifoFiles

(* A client ends.                                                          *)
LEMMA EndSteady ==
  ASSUME Typed, Words, NEW c \in Clients, NEW how \in Gone, EndProcess(c, how)
  PROVE  Words' /\ Steady
  <1>1. /\ UNCHANGED <<userpc, serverpc, sent, toServer, fifoFiles>>
        /\ mainpc'[c] \in Gone
        /\ \A d \in Clients : d # c =>
             mainpc'[d] = mainpc[d] /\ toClient'[d] = toClient[d]
    BY DEF EndProcess, CloseAllOfClient, SameThreads, SameClientHistory, Typed,
           TypeOK, ClientTypeOK, FifoTypeOK
  <1>2. \A d \in Clients : (Departing(d) <=> Departing(d)') /\ (Past(d) <=> Past(d)')
    BY <1>1 DEF Departing, Past
  <1>3. \A d \in Clients : Told(d) => Told(d)'
    BY <1>1 DEF Told, ShutdownIn
  <1>4. QED
    BY <1>1, <1>2, <1>3 DEF Words, Steady

(* A client's user thread writes: it has not departed yet.                 *)
LEMMA SendSteady ==
  ASSUME Typed, Words, NEW c \in Clients, NEW m \in ClientMesg,
         NEW at \in {"write", "depart"}, NEW next \in {"read", "cancel"},
         m.kind # "MESG" => m = Departed(c) /\ next = "cancel",
         Send(c, at, m, next)
  PROVE  Words' /\ Steady
  <1>1. CASE c \in tsR
    <2>1. /\ UNCHANGED <<mainpc, serverpc, toClient, fifoFiles>>
          /\ userpc' = [userpc EXCEPT ![c] = next]
          /\ sent' = [sent EXCEPT ![c] = Append(@, m)]
          /\ toServer' = [toServer EXCEPT ![c] = Append(@, m)]
      BY <1>1 DEF Send, GoUser
    <2>2. \A d \in Clients : d # c =>
            /\ sent'[d] = sent[d] /\ userpc'[d] = userpc[d]
            /\ toServer'[d] = toServer[d]
      BY <2>1 DEF Typed, TypeOK, ClientTypeOK, FifoTypeOK
    <2>3. /\ sent'[c] = Append(sent[c], m) /\ userpc'[c] = next
          /\ toServer'[c] = Append(toServer[c], m) /\ toServer[c] \in Seq(ClientMesg)
      BY <2>1 DEF Typed, TypeOK, ClientTypeOK, FifoTypeOK
    <2>4. ~Past(c)
      BY DEF Send, AtUser, Past
    <2>5. \A d \in Clients : Departing(d) => Departing(d)'
      BY <2>2, <2>3, StillDeparting DEF Departing
    <2>6. m.kind # "MESG" => Past(c)'
      BY <2>3, StillDeparting DEF Past
    <2>7. \A j \in DOMAIN toServer'[c] :
            \/ j \in DOMAIN toServer[c] /\ toServer'[c][j] = toServer[c][j]
            \/ j = Len(toServer'[c]) /\ toServer'[c][j] = m
      BY <2>3
    <2>8. ASSUME NEW j \in DOMAIN toServer'[c], toServer'[c][j].kind # "MESG"
          PROVE  toServer'[c][j] = Departed(c) /\ j = Len(toServer'[c]) /\ Past(c)'
      BY <2>4, <2>6, <2>7, <2>8 DEF Words
    <2>9. \A d \in Clients : d # c => (Past(d) <=> Past(d)')
      BY <2>2 DEF Past, Departing
    <2>10. Words'
      BY <2>2, <2>8, <2>9 DEF Words, Departed
    <2>11. \A d \in Clients : Told(d) => Told(d)'
      BY <2>1 DEF Told, ShutdownIn
    <2>12. QED
      BY <2>1, <2>2, <2>4, <2>5, <2>9, <2>10, <2>11 DEF Steady
  <1>2. CASE c \notin tsR
    BY <1>2, EndSteady DEF Send, Gone
  <1>3. QED
    BY <1>1, <1>2

(* Reading from the FIFO takes SHUTDOWN out of it only to act on it.       *)
LEMMA ReadTold ==
  ASSUME Typed, NEW c \in Clients, ReadMessage(c), Told(c)
  PROVE  Told(c)'
  <1>1. /\ toClient[c] \in Seq(Mesg) /\ toClient[c] # <<>>
        /\ toClient'[c] = Tail(toClient[c]) /\ mainpc' = mainpc
        /\ serverpc[c] = "read"
    BY DEF ReadMessage, AtServer, Typed, TypeOK, FifoTypeOK
  <1>2. CASE Head(toClient[c]).kind = "SHUTDOWN"
    BY <1>2 DEF ReadMessage, GoServer, Told, Typed, TypeOK, ClientTypeOK
  <1>3. CASE Head(toClient[c]).kind # "SHUTDOWN" /\ ShutdownIn(c)
    <2>1. PICK j \in DOMAIN toClient[c] : toClient[c][j] = ShutdownMesg
      BY <1>3 DEF ShutdownIn
    <2>2. toClient[c][1] # ShutdownMesg
      BY <1>1, <1>3 DEF ShutdownMesg
    <2>3. j - 1 \in DOMAIN toClient'[c] /\ toClient'[c][j - 1] = ShutdownMesg
      BY <1>1, <2>1, <2>2
    <2>4. QED
      BY <2>3 DEF Told, ShutdownIn
  <1>4. QED
    BY <1>1, <1>2, <1>3 DEF Told

(* The steps of a client that do not end it and are no writes.             *)
LEMMA StillSteady ==
  ASSUME Typed, Threads, Words, NEW c \in Clients, UNCHANGED <<sent, toServer>>,
         \/ MakeFifos(c) \/ OpenJoin(c) \/ JoinOpened(c) \/ CreateUser(c)
         \/ CreateServer(c) \/ TypeLine(c) \/ EndInput(c) \/ CloseToServer(c)
         \/ UserCancelled(c) \/ ReadMessage(c) \/ CancelUser(c)
         \/ CloseToClient(c) \/ ServerCancelled(c)
  PROVE  Words' /\ Steady
  <1>1. \A d \in Clients : Departing(d) <=> Departing(d)'
    BY DEF Departing
  <1>2. /\ \A d \in Clients : Past(d) => Past(d)' /\ (d \in fifoFiles' => d \in fifoFiles)
        /\ \A d \in Clients : Told(d) => Told(d)'
    <2> USE DEF Typed, TypeOK, ClientTypeOK, Threads, Past, Unthreaded, Early,
                Gone, AtMain, AtUser, AtServer, GoMain, GoUser, GoServer,
                OnlyMain, SameThreads, fifoVars
    <2>1. CASE MakeFifos(c) \/ JoinOpened(c)
      BY <1>1, <2>1 DEF MakeFifos, JoinOpened, Told, ShutdownIn
    <2>2. CASE OpenJoin(c)
      <3>1. PICK next \in {"exited", "stuck", "waitJoin"} : GoMain(c, next)
        BY <2>2 DEF OpenJoin, FifoTypeOK
      <3>2. QED
        BY <1>1, <2>2, <3>1 DEF OpenJoin, Told, ShutdownIn
    <2>3. CASE CreateUser(c) \/ CreateServer(c)
      BY <1>1, <2>3 DEF CreateUser, CreateServer, Told, ShutdownIn
    <2>4. CASE TypeLine(c) \/ EndInput(c) \/ CloseToServer(c) \/ UserCancelled(c)
      BY <1>1, <2>4
      DEF TypeLine, EndInput, CloseToServer, UserCancelled, Told, ShutdownIn
    <2>5. CASE ReadMessage(c)
      <3>1. \A d \in Clients : d # c => (Told(d) => Told(d)')
        BY <2>5 DEF ReadMessage, Told, ShutdownIn, FifoTypeOK
      <3>2. QED
        BY <1>1, <2>5, <3>1, ReadTold DEF ReadMessage
    <2>6. CASE CancelUser(c) \/ CloseToClient(c) \/ ServerCancelled(c)
      BY <1>1, <2>6
      DEF CancelUser, CloseToClient, ServerCancelled, Told, ShutdownIn,
          FifoTypeOK
    <2>7. QED
      BY <2>1, <2>2, <2>3, <2>4, <2>5, <2>6
  <1>3. Words'
    BY <1>2 DEF Words
  <1>4. QED
    BY <1>1, <1>2, <1>3 DEF Steady

(* Every step of a client.                                                 *)
LEMMA ClientSteady ==
  ASSUME Typed, Threads, Words, NEW c \in Clients, ClientStep(c) \/ Kill(c)
  PROVE  Words' /\ Steady
  <1>1. CASE WriteJoin(c)
    <2>1. CASE joinR
      <3>1. /\ GoMain(c, "openTC") /\ mainpc[c] = "writeJoin"
            /\ UNCHANGED <<userpc, serverpc, sent, toServer, toClient, fifoFiles>>
        BY <1>1, <2>1 DEF WriteJoin, AtMain, SameThreads, SameClientHistory
      <3>2. \A d \in Clients :
              (Departing(d) <=> Departing(d)') /\ (Past(d) <=> Past(d)')
        BY <3>1 DEF Departing, Past
      <3>3. \A d \in Clients : Told(d) => Told(d)'
        BY <3>1 DEF GoMain, Typed, TypeOK, ClientTypeOK, Told, ShutdownIn, Gone
      <3>4. QED
        BY <3>1, <3>2, <3>3 DEF Words, Steady
    <2>2. CASE ~joinR
      BY <1>1, <2>2, EndSteady DEF WriteJoin, Gone
    <2>3. QED
      BY <2>1, <2>2
  <1>2. CASE MainReturn(c)
    BY <1>2, EndSteady DEF MainReturn, Gone
  <1>3. CASE SendLine(c)
    <2>1. Len(sent[c]) + 1 \in Nat /\ \A n : Line(c, n).kind = "MESG"
      BY DEF Typed, TypeOK, ClientTypeOK, Line
    <2>2. QED
      BY <1>3, <2>1, MesgTypes, SendSteady DEF SendLine
  <1>4. CASE SendDeparted(c)
    BY <1>4, MesgTypes, SendSteady DEF SendDeparted
  <1>5. CASE CancelServer(c)
    <2>1. CASE AtMain(c, "createServer")
      BY <1>5, <2>1, EndSteady DEF CancelServer, Gone
    <2>2. CASE ~AtMain(c, "createServer")
      <3>1. /\ GoUser(c, "close")
            /\ UNCHANGED <<mainpc, serverpc, sent, toServer, toClient, fifoFiles>>
        BY <1>5, <2>2 DEF CancelServer, SameClientHistory, fifoVars
      <3>2. \A d \in Clients :
              (Departing(d) <=> Departing(d)') /\ (Past(d) => Past(d)')
        BY <3>1 DEF Departing, Past, GoUser, Typed, TypeOK, ClientTypeOK
      <3>3. \A d \in Clients : Told(d) => Told(d)'
        BY <3>1 DEF Told, ShutdownIn
      <3>4. QED
        BY <3>1, <3>2, <3>3 DEF Words, Steady
    <2>3. QED
      BY <2>1, <2>2
  <1>6. CASE Kill(c)
    BY <1>6, EndSteady DEF Kill, Gone
  <1>7. CASE \/ MakeFifos(c) \/ OpenJoin(c) \/ JoinOpened(c) \/ CreateUser(c)
             \/ CreateServer(c) \/ TypeLine(c) \/ EndInput(c)
             \/ CloseToServer(c) \/ UserCancelled(c) \/ ReadMessage(c)
             \/ CancelUser(c) \/ CloseToClient(c) \/ ServerCancelled(c)
    <2>1. UNCHANGED <<sent, toServer>>
      BY <1>7
      DEF MakeFifos, OpenJoin, JoinOpened, CreateUser, CreateServer, TypeLine,
          EndInput, CloseToServer, UserCancelled, ReadMessage, CancelUser,
          CloseToClient, ServerCancelled, OnlyMain, SameClientHistory, fifoVars
    <2>2. QED
      BY <1>7, <2>1, StillSteady
  <1>8. QED
    BY <1>1, <1>2, <1>3, <1>4, <1>5, <1>6, <1>7
    DEF ClientStep, MainStep, UserInput, UserThread, ServerThread

-----------------------------------------------------------------------------
(* What is left in a FIFO when one message is taken out.                   *)
LEMMA TailOf ==
  ASSUME NEW q \in Seq(ClientMesg), q # <<>>
  PROVE  /\ \A j \in DOMAIN Tail(q) : /\ j + 1 \in DOMAIN q
                                      /\ Tail(q)[j] = q[j + 1]
                                      /\ j + 1 = Len(q) => j = Len(Tail(q))
         /\ 1 \in DOMAIN q /\ Head(q) = q[1]
         /\ 1 = Len(q) => Tail(q) = <<>>
  <1>1. /\ Len(q) \in Nat \ {0} /\ DOMAIN q = 1 .. Len(q) /\ Head(q) = q[1]
        /\ Len(Tail(q)) = Len(q) - 1 /\ DOMAIN Tail(q) = 1 .. Len(q) - 1
        /\ \A j \in 1 .. Len(q) - 1 : Tail(q)[j] = q[j + 1]
    OBVIOUS
  <1>2. Len(q) = 1 => Tail(q) = <<>>
    <2>1. ASSUME NEW r \in Seq(ClientMesg), Len(r) = 0 PROVE r = <<>>
      BY <2>1
    <2>2. Tail(q) \in Seq(ClientMesg)
      OBVIOUS
    <2>3. QED
      BY <1>1, <2>1, <2>2
  <1>3. QED
    BY <1>1, <1>2

(* The server reads DEPARTED from a FIFO that then is empty.               *)
LEMMA WordsHandle ==
  ASSUME Typed, Words, HandleClient, UNCHANGED clientVars
  PROVE  Words' /\ Leaver'
  <1>1. client[i] \in Clients
    BY DEF HandleClient, InLoop, Used, Typed, TypeOK, ServerTypeOK, Registers
  <1>2. \A d : (Departing(d) <=> Departing(d)') /\ (Past(d) <=> Past(d)')
    BY DEF clientVars, Departing, Past
  <1>3. CASE toServer[client[i]] # <<>> /\ TakeOne(client[i])
    <2> DEFINE c == client[i]
               q == toServer[c]
    <2>1. /\ q \in Seq(ClientMesg) /\ q # <<>>
          /\ toServer'[c] = Tail(q)
          /\ \A d \in Clients : d # c => toServer'[d] = toServer[d]
      BY <1>1, <1>3 DEF TakeOne, Typed, TypeOK, FifoTypeOK
    <2>2. /\ \A j \in DOMAIN Tail(q) : /\ j + 1 \in DOMAIN q
                                       /\ Tail(q)[j] = q[j + 1]
                                       /\ j + 1 = Len(q) => j = Len(Tail(q))
          /\ 1 \in DOMAIN q /\ Head(q) = q[1] /\ (1 = Len(q) => Tail(q) = <<>>)
      BY <2>1, TailOf
    <2>3. Words'
      <3>1. \A d \in Clients : d # c => toServer'[d] = toServer[d]
        BY <2>1
      <3>2. ASSUME NEW j \in DOMAIN toServer'[c], toServer'[c][j].kind # "MESG"
            PROVE  toServer'[c][j] = Departed(c) /\ j = Len(toServer'[c]) /\ Past(c)
        <4>1. j + 1 \in DOMAIN q /\ toServer'[c][j] = q[j + 1]
          BY <2>1, <2>2
        <4>2. q[j + 1] = Departed(c) /\ j + 1 = Len(q) /\ Past(c)
          BY <1>1, <3>2, <4>1 DEF Words
        <4>3. QED
          BY <2>1, <2>2, <4>1, <4>2
      <3>3. QED
        BY <1>2, <3>1, <3>2 DEF Words, Departed
    <2>5. ASSUME Head(q).kind # "MESG"
          PROVE  Head(q) = Departed(c) /\ Tail(q) = <<>> /\ Past(c)
      BY <1>1, <2>2, <2>5 DEF Words
    <2>6. \/ spc' = "bcast"
          \/ spc' = "rmClose" /\ mesg' = Head(q) /\ Head(q).kind # "MESG"
      BY <1>3 DEF HandleClient, BeginBroadcast, BroadcastsOnly
    <2>7. client' = client /\ i' = i
      BY <1>3 DEF HandleClient
    <2>8. Departed(c).name = c
      BY DEF Departed
    <2>9. Leaver'
      BY <1>2, <2>1, <2>5, <2>6, <2>7, <2>8 DEF Leaver, Removing
    <2>10. QED
      BY <2>3, <2>9
  <1>4. CASE toServer' = toServer /\ spc' = spc
    <2>1. spc' = "serve"
      BY <1>4 DEF HandleClient
    <2>2. QED
      BY <1>2, <1>4, <2>1 DEF Words, Leaver, Removing
  <1>5. QED
    BY <1>3, <1>4 DEF HandleClient

(* The steps of a removal.                                                 *)
LEMMA LeaverRemove ==
  ASSUME Typed, Array, Array', Leaver, UNCHANGED clientVars,
         RemoveClose \/ RemoveUnlink \/ RemoveShift
  PROVE  Leaver' /\ toServer' = toServer
  <1>1. \A d : Past(d) <=> Past(d)'
    BY DEF clientVars, Departing, Past
  <1>2. CASE RemoveClose
    BY <1>1, <1>2
    DEF RemoveClose, CloseFds, SameArray, Leaver, Removing
  <1>3. CASE RemoveUnlink
    <2>1. /\ spc = "rmUnlink" /\ spc' = "rmShift" /\ k' = i + 1
          /\ fifoFiles' = fifoFiles \ {client[i]}
          /\ UNCHANGED <<n_clients, client, i, tcW, mesg, toServer>>
      BY <1>3 DEF RemoveUnlink, UnlinkFifos, ShiftFrom, SameEnds, SameArray
    <2>2. Kept' = Used \ {i} /\ Members' = Members
      BY <2>1 DEF Kept, Hole, Used, Members, Typed, TypeOK, ServerTypeOK
    <2>3. Members' \subseteq KeptClients' \cup {client[i]}
      BY <2>1, <2>2 DEF Members, KeptClients
    <2>4. client[i] \notin tcW
      BY <2>1 DEF Array, Running
    <2>5. QED
      BY <1>1, <2>1, <2>3, <2>4 DEF Leaver, Removing
  <1>4. CASE RemoveShift
    <2>1. /\ spc = "rmShift" /\ spc' = "rmShift"
          /\ UNCHANGED <<mesg, toServer, fifoFiles, tcW>>
      BY <1>4 DEF RemoveShift, ShiftOne, fifoVars
    <2>2. Members' \subseteq Members
      BY <1>4, <2>1, ShiftMembers DEF RemoveShift, Typed, Registers
    <2>3. KeptClients' = KeptClients
      BY <2>1 DEF Array, Running
    <2>4. QED
      BY <1>1, <2>1, <2>2, <2>3 DEF Leaver, Removing
  <1>5. QED
    BY <1>2, <1>3, <1>4

(* Every step of the server.                                               *)
LEMMA LeaverServer ==
  ASSUME Typed, Array, Array', Words, Leaver, ServerStep, UNCHANGED clientVars
  PROVE  Words' /\ Leaver'
  <1>1. \A d : Past(d) <=> Past(d)'
    BY DEF clientVars, Departing, Past
  <1>2. CASE HandleClient
    BY <1>2, WordsHandle
  <1>3. CASE RemoveClose \/ RemoveUnlink \/ RemoveShift
    BY <1>1, <1>3, LeaverRemove DEF Words
  <1>4. CASE ~HandleClient /\ ~RemoveClose /\ ~RemoveUnlink /\ ~RemoveShift
    <2>1. ASSUME NEW how \in Stopped, Die(how)
          PROVE  toServer' = toServer /\ spc' \notin Removing
      BY <2>1 DEF Die, CloseAllOfServer, Stopped, Removing
    <2>2. ASSUME NEW c, PushFails(c)
          PROVE  toServer' = toServer /\ spc' \notin Removing
      BY <2>1, <2>2 DEF PushFails, Stopped
    <2>3. toServer' = toServer /\ spc' \notin Removing
      <3> USE DEF Removing, Stopped, fifoVars
      <3>1. CASE ServerStart
        BY <3>1 DEF ServerStart, StartRemove, StartMkfifo, StartOpen
      <3>2. CASE ServerLoop
        BY <1>4, <2>1, <2>2, <3>2
        DEF ServerLoop, CheckSources, ReadJoin, ReadJoinEOF, ReadJoinAgain,
            AddClient, BroadcastWrite, EndBroadcast, PassOver, RemoveEnd,
            BeginBroadcast, Push
      <3>3. CASE ServerShutdown
        BY <2>1, <2>2, <3>3
        DEF ServerShutdown, ShutdownUnlink, ShutdownWrite, ShutdownRemove,
            ShutdownClose, ShutdownForget, ShutdownShift, ShutdownRemoved,
            ShutdownExit, CloseFds, UnlinkFifos, ShiftOne, Push
      <3>4. QED
        BY <3>1, <3>2, <3>3 DEF ServerStep
    <2>4. QED
      BY <1>1, <2>3 DEF Words, Leaver
  <1>5. QED
    BY <1>2, <1>3, <1>4

-----------------------------------------------------------------------------
(* Who is told before a step of the server is told after it: it takes      *)
(* nothing out of a FIFO to a client.                                      *)
LEMMA ToldKept ==
  ASSUME UNCHANGED clientVars, UNCHANGED from,
         toClient' = toClient \/ \E c, m : Push(c, m), Typed
  PROVE  /\ \A d \in Clients : Told(d) => Told(d)'
         /\ \A d : Stays(d) <=> Stays(d)'
  <1>1. \A d : Stays(d) <=> Stays(d)'
    BY DEF clientVars, Stays, Departing
  <1>2. CASE toClient' = toClient
    BY <1>1, <1>2 DEF clientVars, Told, ShutdownIn
  <1>3. ASSUME NEW c, NEW m, Push(c, m), NEW d \in Clients, Told(d)
        PROVE  Told(d)'
    <2>1. /\ toClient[d] \in Seq(Mesg)
          /\ toClient'[d] = toClient[d] \/ toClient'[d] = Append(toClient[d], m)
      BY <1>3 DEF Push, Typed, TypeOK, FifoTypeOK
    <2>2. \A j \in DOMAIN toClient[d] :
            j \in DOMAIN toClient'[d] /\ toClient'[d][j] = toClient[d][j]
      BY <2>1
    <2>3. ShutdownIn(d) => ShutdownIn(d)'
      BY <2>2 DEF ShutdownIn
    <2>4. QED
      BY <1>3, <2>3 DEF clientVars, Told
  <1>4. QED
    BY <1>1, <1>2, <1>3

(* While the server runs only the client that leaves loses its descriptor. *)
LEMMA PresentRunning ==
  ASSUME Typed, Array, Leaver, Present, ServerStart \/ ServerLoop,
         UNCHANGED clientVars
  PROVE  Present'
  <1> USE DEF Starting, Running, Dropping
  <1>1. \A d : Departing(d) <=> Departing(d)'
    BY DEF clientVars, Departing
  <1>2. CASE ServerStart
    <2>1. /\ spc \in Starting /\ from' = from /\ tcW' = tcW
          /\ spc' \in Starting \cup {"select"}
      BY <1>2 DEF ServerStart, StartRemove, StartMkfifo, StartOpen, SameEnds,
                  SameHistory
    <2>2. QED
      BY <2>1 DEF Present, Stays
  <1>3. CASE AddClient
    <2>1. /\ from' = [from EXCEPT ![join] = Len(log) + 1] /\ tcW' = tcW
          /\ spc = "append" /\ spc' = "bcast"
      BY <1>3 DEF AddClient, BeginBroadcast, fifoVars
    <2>2. join \in tcW
      BY <2>1 DEF Array
    <2>3. \A d \in Clients : d # join => from'[d] = from[d]
      BY <2>1 DEF Typed, TypeOK, ServerTypeOK
    <2>4. QED
      BY <1>1, <2>1, <2>2, <2>3 DEF Present, Stays
  <1>4. CASE RemoveClose
    <2>1. /\ spc = "rmClose" /\ spc' = "rmUnlink" /\ from' = from
          /\ tcW' = tcW \ {client[i]}
      BY <1>4 DEF RemoveClose, CloseFds, SameHistory
    <2>2. Departing(client[i])
      BY <2>1 DEF Leaver, Removing, Past
    <2>3. QED
      BY <1>1, <2>1, <2>2 DEF Present, Stays
  <1>5. CASE ServerLoop /\ ~AddClient /\ ~RemoveClose
    <2>1. ASSUME NEW how \in {"exit1", "sigpipe"}, Die(how)
          PROVE  from' = from /\ spc' \in {"exit1", "sigpipe"}
      BY <2>1 DEF Die, SameHistory
    <2>2. ASSUME NEW c, PushFails(c)
          PROVE  from' = from /\ spc' \in {"exit1", "sigpipe"}
      BY <2>1, <2>2 DEF PushFails
    <2>3. /\ spc \in Running /\ from' = from
          /\ \/ spc' \in {"exit1", "sigpipe"}
             \/ spc' \in Running /\ tcW' = tcW
      BY <1>5, <2>1, <2>2
      DEF ServerLoop, CheckSources, ReadJoin, ReadJoinEOF, ReadJoinAgain,
          BroadcastWrite, EndBroadcast, PassOver, HandleClient, RemoveUnlink,
          RemoveShift, RemoveEnd, BeginBroadcast, Push, UnlinkFifos, ShiftOne,
          SameEnds, SameHistory, fifoVars
    <2>4. QED
      BY <1>1, <2>3 DEF Present, Stays
  <1>6. QED
    BY <1>2, <1>3, <1>4, <1>5

(* The handler tells one client after the other, and then drops them.      *)
LEMMA PresentShutdown ==
  ASSUME Typed, Present, ServerShutdown, UNCHANGED clientVars
  PROVE  Present'
  <1> USE DEF Starting, Running, Dropping, SameArray, SameHistory
  <1>1. n_clients \in Nat /\ i \in Nat
    BY DEF Typed, TypeOK, ServerTypeOK
  <1>2. \A j \in Used : client[j] \in Clients
    BY DEF Typed, Registers
  <1>3. ASSUME NEW how \in {"exit1", "sigpipe"}, Die(how)
        PROVE  Present'
    BY <1>3 DEF Die, Present
  <1>4. ASSUME NEW c, PushFails(c) PROVE Present'
    BY <1>3, <1>4 DEF PushFails
  <1>5. CASE ShutdownUnlink
    <2>1. /\ spc = "sdUnlink" /\ spc' = "sdWrite"
          /\ UNCHANGED <<from, toClient, i, n_clients, client>>
      BY <1>5 DEF ShutdownUnlink
    <2>2. Used' = Used /\ Members' = Members
      BY <2>1 DEF Used, Members
    <2>3. QED
      BY <1>2, <2>1, <2>2, ToldKept DEF Present
  <1>6. CASE ShutdownWrite
    <2>1. CASE /\ InLoop /\ Push(client[i], ShutdownMesg) /\ i' = i + 1
               /\ UNCHANGED <<spc, n_clients, client, from>>
      <3>1. spc = "sdWrite" /\ Used' = Used /\ Members' = Members
        BY <1>6, <2>1 DEF ShutdownWrite, Used, Members
      <3>2. i \in Used /\ client[i] \in Clients
        BY <1>1, <1>2, <2>1 DEF InLoop, Used
      <3>3. ASSUME NEW d \in Clients, d = client[i] PROVE Told(d)'
        <4>1. /\ toClient[d] \in Seq(Mesg)
              /\ toClient'[d] = Append(toClient[d], ShutdownMesg)
          BY <2>1, <3>3 DEF Push, Typed, TypeOK, FifoTypeOK
        <4>2. /\ Len(toClient[d]) + 1 \in DOMAIN toClient'[d]
              /\ toClient'[d][Len(toClient[d]) + 1] = ShutdownMesg
          BY <4>1
        <4>3. QED
          BY <4>2 DEF Told, ShutdownIn
      <3>4. /\ \A d \in Clients : Told(d) => Told(d)'
            /\ \A d : Stays(d) <=> Stays(d)'
        BY <2>1, ToldKept
      <3>5. ASSUME NEW j \in Used, j < i + 1, NEW d \in Clients, d = client[j],
                   Stays(d)
            PROVE  Told(d)'
        <4>1. j = i \/ j < i
          BY <1>1, <3>5 DEF Used
        <4>2. j < i => Told(d)
          BY <3>1, <3>5 DEF Present
        <4>3. QED
          BY <3>3, <3>4, <3>5, <4>1, <4>2
      <3>6. client' = client /\ spc' = "sdWrite"
        BY <2>1, <3>1
      <3>7. \A j \in Used' : j < i' /\ Stays(client[j])' => Told(client[j])'
        BY <1>2, <2>1, <3>1, <3>4, <3>5, <3>6
      <3>8. QED
        BY <3>1, <3>4, <3>6, <3>7 DEF Present
    <2>2. CASE ~InLoop /\ spc' = "sdRemove" /\ UNCHANGED <<fifoVars, from>>
      <3>1. spc = "sdWrite" /\ toClient' = toClient
        BY <1>6, <2>2 DEF ShutdownWrite, fifoVars
      <3>2. \A j \in Used : j < i
        BY <1>1, <2>2 DEF InLoop, Used
      <3>3. \A d \in Clients : Stays(d) => Told(d)
        BY <3>1, <3>2 DEF Present, Members
      <3>4. QED
        BY <2>2, <3>1, <3>3, ToldKept DEF Present
    <2>3. QED
      BY <1>4, <1>6, <2>1, <2>2 DEF ShutdownWrite
  <1>7. CASE \/ ShutdownRemove \/ ShutdownClose \/ ShutdownForget
             \/ ShutdownShift \/ ShutdownRemoved \/ ShutdownExit
    <2>1. ASSUME NEW how \in Stopped, Die(how)
          PROVE  from' = from /\ toClient' = toClient /\ spc' = how
      BY <2>1 DEF Die, CloseAllOfServer
    <2>2. /\ spc \in {"sdRemove", "sdExit"} \cup Dropping
          /\ UNCHANGED <<from, toClient>>
          /\ spc' \in {"sdRemove", "sdExit", "exit0", "exit1"} \cup Dropping
      BY <1>7, <2>1
      DEF ShutdownRemove, ShutdownClose, ShutdownForget, ShutdownShift,
          ShutdownRemoved, ShutdownExit, CloseFds, UnlinkFifos, ShiftOne,
          Stopped, fifoVars
    <2>3. QED
      BY <2>2, ToldKept DEF Present
  <1>8. QED
    BY <1>5, <1>6, <1>7 DEF ServerShutdown

(* A signal finds in the array everybody who stays: the client that is     *)
(* being added is in no slot, but it has not been added either.            *)
LEMMA PresentSignal ==
  ASSUME Typed, Array, Requests, Present, UNCHANGED clientVars,
         NEW s \in Signals, TakeSignal(s)
  PROVE  Present'
  <1>1. /\ UNCHANGED <<from, toClient, n_clients, client, tcW>>
        /\ i' = 0 /\ spc \notin Stopped
        /\ spc' = IF spc \in Starting \cup {"sdExit"} THEN "sdExit" ELSE "sdUnlink"
    BY DEF TakeSignal, SameEnds, SameArray, SameHistory
  <1>2. /\ \A d \in Clients : Told(d) => Told(d)'
        /\ \A d : Stays(d) <=> Stays(d)'
    BY <1>1, ToldKept
  <1>3. Members' = Members /\ Used' = Used /\ \A j \in Used : ~(j < 0)
    BY <1>1 DEF Members, Used
  <1>4. CASE spc \in Starting
    BY <1>1, <1>4 DEF Present, Starting, Running, Dropping, Stays
  <1>5. CASE spc \in Running
    <2>1. KeptClients \subseteq Members
      BY DEF KeptClients, Members, Kept
    <2>2. \A c \in Clients : Stays(c) => c \in Members
      BY <1>5, <2>1 DEF Present, Array, Requests, Opening, Stays
    <2>3. spc' = "sdUnlink"
      BY <1>1, <1>5 DEF Starting, Running
    <2>4. QED
      BY <1>1, <1>2, <1>3, <2>2, <2>3 DEF Present, Starting, Running, Dropping
  <1>6. CASE spc \in Handler
    <2>1. \A c \in Clients : Stays(c) => c \in Members \/ Told(c)
      BY <1>6 DEF Present, Handler, Dropping
    <2>2. spc = "sdExit" => \A c \in Clients : Stays(c) => Told(c)
      BY DEF Present
    <2>3. QED
      BY <1>1, <1>2, <1>3, <1>6, <2>1, <2>2
      DEF Present, Starting, Running, Dropping, Handler
  <1>7. QED
    BY <1>1, <1>4, <1>5, <1>6 DEF Typed, TypeOK, ServerTypeOK

(* What holds of the departures at every place.                            *)
Departures == Words /\ Leaver /\ Present

(* Before anything has happened nobody has written or been let in.         *)
LEMMA DeparturesInit == Init => Departures
  <1> SUFFICES ASSUME Init PROVE Departures
    OBVIOUS
  <1>1. \A c \in Clients : toServer[c] = <<>> /\ from[c] = 0
    BY DEF Init, FifoInit, ServerInit
  <1>2. \A j \in DOMAIN <<>> : FALSE
    OBVIOUS
  <1>3. spc = "remove"
    BY DEF Init, ServerInit
  <1>4. Words
    BY <1>1, <1>2 DEF Words
  <1>5. QED
    BY <1>1, <1>3, <1>4
    DEF Departures, Leaver, Present, Removing, Running, Dropping

(* A client neither unsays what it has said nor takes back that it leaves. *)
LEMMA DeparturesClient ==
  ASSUME Typed, Threads, Departures, NEW c \in Clients,
         ClientStep(c) \/ Kill(c), UNCHANGED serverVars
  PROVE  Departures'
  <1>1. Words' /\ Steady /\ tcW' = tcW
    BY ClientSteady, ClientUndisturbed DEF Departures, Undisturbed
  <1>2. UNCHANGED <<spc, n_clients, client, i, k, mesg, from>>
    BY DEF serverVars
  <1>3. Used' = Used /\ Members' = Members /\ KeptClients' = KeptClients
    BY <1>2 DEF Used, Members, KeptClients, Kept, Hole
  <1>4. \A d \in Clients : (Stays(d)' => Stays(d)) /\ (Told(d) => Told(d)')
    BY <1>1, <1>2 DEF Steady, Stays
  <1>5. \A j \in Used : client[j] \in Clients
    BY DEF Typed, Registers
  <1>6. Leaver'
    <2>1. spc \in Removing => mesg.name \in Clients
      BY MesgTypes DEF Typed, Registers
    <2>2. QED
      BY <1>1, <1>2, <1>3, <2>1 DEF Departures, Leaver, Steady, Departed
  <1>7. \A j \in Used' : j < i' /\ Stays(client[j])' =>
          j \in Used /\ j < i /\ Stays(client[j]) /\ client[j] \in Clients
    BY <1>2, <1>3, <1>4, <1>5 DEF Stays, Departing
  <1>8. \A j \in Used : client[j] \in Clients /\ Told(client[j]) => Told(client[j])'
    BY <1>2, <1>4 DEF Told, ShutdownIn
  <1>9. Present'
    BY <1>1, <1>2, <1>3, <1>4, <1>7, <1>8 DEF Departures, Present
  <1>10. QED
    BY <1>1, <1>6, <1>9 DEF Departures

(* Departures is inductive on top of Inv and Endings.                      *)
LEMMA DeparturesNext ==
  ASSUME Inv, Inv', Endings, Departures, [Next]_vars
  PROVE  Departures'
  <1>a. Typed /\ Array /\ Array' /\ Requests /\ Threads
    BY DEF Typed, Inv, Endings
  <1>1. CASE Server
    <2>1. ServerStep /\ UNCHANGED clientVars
      BY <1>1 DEF Server
    <2>2. Words' /\ Leaver'
      BY <1>a, <2>1, LeaverServer DEF Departures
    <2>3. Present'
      BY <1>a, <2>1, PresentRunning, PresentShutdown DEF Departures, ServerStep
    <2>4. QED
      BY <2>2, <2>3 DEF Departures
  <1>2. ASSUME NEW s \in Signals, Signal(s) PROVE Departures'
    <2>1. TakeSignal(s) /\ UNCHANGED clientVars
      BY <1>2 DEF Signal
    <2>2. toServer' = toServer /\ spc' \in Handler
      BY <2>1 DEF TakeSignal, Handler
    <2>3. Words' /\ Leaver'
      BY <2>1, <2>2 DEF Departures, Words, Leaver, Handler, Removing, Past,
                        Departing, clientVars
    <2>4. Present'
      BY <1>a, <2>1, PresentSignal DEF Departures
    <2>5. QED
      BY <2>3, <2>4 DEF Departures
  <1>3. ASSUME NEW c \in Clients, Meet(c) PROVE Departures'
    <2>1. /\ UNCHANGED <<toServer, userpc, sent, from>> /\ tcW \subseteq tcW'
          /\ spc \in Opening /\ spc' \in Opening
      BY <1>3 DEF Meet, OpenToClient, OpenToServer, OnlyMain, SameThreads,
                  SameClientHistory, SameHistory, Opening
    <2>2. QED
      BY <2>1 DEF Departures, Words, Leaver, Present, Past, Stays, Departing,
                  Opening, Removing, Starting, Running, Dropping
  <1>4. ASSUME NEW c \in Clients, Client(c) \/ Killed(c) PROVE Departures'
    BY <1>a, <1>4, DeparturesClient DEF Client, Killed
  <1>5. CASE UNCHANGED vars
    <2>1. /\ UNCHANGED <<toServer, toClient, fifoFiles, tcW>>
          /\ UNCHANGED <<spc, n_clients, client, i, k, mesg, from>>
          /\ UNCHANGED <<mainpc, userpc, serverpc, sent>>
      BY <1>5 DEF vars, fifoVars, serverVars, clientVars
    <2>a. Words'
      BY <2>1 DEF Departures, Words, Past, Departing
    <2>d. \A c : UNCHANGED <<Past(c), Departing(c)>>
      BY <2>1 DEF Past, Departing
    <2>e. UNCHANGED <<Members, KeptClients>>
      BY <2>1 DEF Members, KeptClients, Kept, Hole, Used
    <2>2. Leaver'
      BY <2>1, <2>d, <2>e DEF Departures, Leaver
    <2>b. UNCHANGED <<Members, Used>>
      BY <2>1 DEF Members, Used
    <2>c. \A c : UNCHANGED <<Stays(c), Told(c)>>
      BY <2>1, <2>d DEF Stays, Told, ShutdownIn
    <2>3. Present'
      BY <2>1, <2>b, <2>c DEF Departures, Present
    <2>4. QED
      BY <2>a, <2>2, <2>3 DEF Departures
  <1>6. QED
    BY <1>1, <1>2, <1>3, <1>4, <1>5 DEF Next

(* The three invariants together.                                          *)
LEMMA ThroughoutHolds ==
  Spec => [](Inv /\ Endings /\ BreaksAtTheGone /\ Departures)
  <1>1. Init => Endings /\ BreaksAtTheGone /\ Departures
    BY EndingsInit, DeparturesInit
  <1>2. /\ Inv /\ Inv' /\ Endings /\ BreaksAtTheGone /\ Departures /\ [Next]_vars
        => Endings' /\ BreaksAtTheGone' /\ Departures'
    BY EndingsNext, DeparturesNext
  <1>3. QED
    BY <1>1, <1>2, InvAlways, PTL DEF Spec

(* When the handler has come to its end everybody who stays has been told, *)
(* wherever one signal, or two, have interrupted the server: amid a join,  *)
(* a broadcast, a removal, or the handler of the other                     *)
(* (server_shutdown, handle_signals).                                      *)
THEOREM AllAreTold == Spec => []EveryoneTold
  <1>1. Departures => EveryoneTold
    BY DEF Departures, Present, EveryoneTold
  <1>2. QED
    BY <1>1, ThroughoutHolds, PTL

-----------------------------------------------------------------------------
(* Whom a step of the running server drops from the array.                 *)
LEMMA DroppedIsLeaver ==
  ASSUME Typed, Array, Array', Leaver, ServerStep, spc \in Running,
         spc' \in Running, NEW c \in Members, c \notin Members'
  PROVE  c = mesg.name /\ spc = "rmShift"
  <1>1. CASE QuietStep
    <2>1. Members' = Members
      BY <1>1, QuietFrame DEF Members, Used
    <2>2. QED
      BY <2>1
  <1>2. CASE ReadJoin
    <2>1. Members' = Members
      BY <1>2 DEF ReadJoin, SameArray, Members, Used
    <2>2. QED
      BY <2>1
  <1>3. CASE AddClient
    <2>1. spc = "append" /\ spc' = "bcast" /\ tcW' = tcW
      BY <1>3 DEF AddClient, BeginBroadcast, fifoVars
    <2>2. KeptClients = Members /\ tcW' = Members'
      BY <2>1, IntactPlainNext
      DEF KeptClients, Kept, Hole, Members, Used, Intact, Plain, Running
    <2>3. QED
      BY <2>1, <2>2 DEF Array
  <1>4. CASE RemoveUnlink
    <2>1. Members' = Members
      BY <1>4 DEF RemoveUnlink, UnlinkFifos, SameArray, Members, Used
    <2>2. QED
      BY <2>1
  <1>5. CASE RemoveShift \/ RemoveEnd
    <2>1. /\ spc = "rmShift" /\ spc' \in {"rmShift", "bcast"} /\ tcW' = tcW
      BY <1>5 DEF RemoveShift, RemoveEnd, ShiftOne, BeginBroadcast, fifoVars
    <2>2. tcW = KeptClients /\ tcW' = KeptClients'
      BY <2>1 DEF Array
    <2>3. KeptClients' \subseteq Members'
      BY DEF KeptClients, Kept, Members
    <2>4. Members \subseteq KeptClients \cup {mesg.name}
      BY <2>1 DEF Leaver, Removing
    <2>5. QED
      BY <2>1, <2>2, <2>3, <2>4
  <1>6. CASE ServerStart \/ ServerShutdown
    BY <1>6
    DEF ServerStart, StartRemove, StartMkfifo, StartOpen, ServerShutdown,
        ShutdownUnlink, ShutdownWrite, ShutdownRemove, ShutdownClose,
        ShutdownForget, ShutdownShift, ShutdownRemoved, ShutdownExit, CloseFds,
        UnlinkFifos, ShiftOne, Running
  <1>7. QED
    BY <1>1, <1>2, <1>3, <1>4, <1>5, <1>6
    DEF ServerStep, ServerLoop, QuietStep

(* Only its own DEPARTED takes a client out of the array while the server  *)
(* runs; nothing of the client is then left in its FIFO, and its two FIFOs *)
(* are closed and have no name any more (server_handle_client,             *)
(* server_remove_client).                                                  *)
THEOREM OnlyTheDepartedLeave == Spec => LeavesByDeparting
  <1> DEFINE Leaves ==
        \A c \in Members :
          spc \in Running /\ spc' \in Running /\ c \notin Members' =>
            /\ mesg = Departed(c) /\ toServer[c] = <<>>
            /\ c \notin fifoFiles /\ c \notin tsR /\ c \notin tcW
  <1>1. ASSUME Inv, Inv', Departures, [Next]_vars
        PROVE  [Leaves]_vars
    <2>1. SUFFICES ASSUME NEW c \in Members, spc \in Running, spc' \in Running,
                          c \notin Members'
                   PROVE  /\ mesg = Departed(c) /\ toServer[c] = <<>>
                          /\ c \notin fifoFiles /\ c \notin tsR /\ c \notin tcW
      OBVIOUS
    <2>2. ServerStep
      <3>1. CASE UNCHANGED vars
        BY <2>1, <3>1 DEF vars, serverVars, Members, Used
      <3>2. ASSUME NEW s \in Signals, Signal(s) PROVE FALSE
        BY <2>1, <3>2 DEF Signal, TakeSignal, Running
      <3>3. ASSUME NEW d \in Clients, Meet(d) \/ Client(d) \/ Killed(d)
            PROVE  FALSE
        <4>1. UNCHANGED <<n_clients, client>>
          BY <3>3 DEF Meet, OpenToClient, OpenToServer, SameArray, Client,
                      Killed, serverVars
        <4>2. QED
          BY <2>1, <4>1 DEF Members, Used
      <3>4. QED
        BY <1>1, <3>1, <3>2, <3>3 DEF Next, Server
    <2>3. c = mesg.name /\ spc = "rmShift"
      BY <1>1, <2>1, <2>2, DroppedIsLeaver DEF Inv, Typed, Departures
    <2>4. tsR = tcW
      BY <1>1, <2>3 DEF Inv, Array, Running
    <2>5. QED
      BY <1>1, <2>3, <2>4 DEF Departures, Leaver, Removing
  <1>2. Inv /\ Inv' /\ Departures /\ [Next]_vars => [Leaves]_vars
    BY <1>1
  <1>3. QED
    BY <1>2, ThroughoutHolds, PTL DEF Spec, LeavesByDeparting
=============================================================================
