---------------------------- MODULE BlatherRoom -----------------------------
(***************************************************************************)
(* The service implements the room.  What a client says enters the log in  *)
(* the order it was said (Carried), and what is written to a client is the *)
(* log from its JOINED on without a gap (Delivered), because the server has*)
(* written everything to each client of the array whenever it is not       *)
(* broadcasting (Level).  The same log tells who is in the array (Listed), *)
(* from which it follows that only a full array refuses a client; and what *)
(* each client has in it and has read of it is followed message by message *)
(* (Followed), from which it follows that nothing is lost or reordered.    *)
(***************************************************************************)
EXTENDS BlatherProofs, FiniteSetTheorems, SequenceTheorems, Induction

Said ==
  \A c \in Clients :
    /\ \A j \in 1 .. Len(sent[c]) :
         sent[c][j].kind = "DEPARTED" => sent[c][j] = Departed(c)
    /\ Departing(c) => Past(c)

InTransit(c) == IF spc \in Removing /\ mesg.name = c THEN 1 ELSE 0
Carried ==
  /\ spc \in Starting \cup Running =>
       \A c \in Clients :
         /\ Len(sent[c]) = heard[c] + InTransit(c) + Len(toServer[c])
         /\ \A j \in 1 .. Len(toServer[c]) :
              toServer[c][j] = sent[c][heard[c] + InTransit(c) + j]
  /\ spc \in Removing =>
       from[mesg.name] # 0 /\ mesg = sent[mesg.name][heard[mesg.name] + 1]

Place(c) == from[c] + Len(seen[c])
Delivered ==
  \A c \in Clients :
    /\ from[c] = 0 => toClient[c] = <<>> /\ seen[c] = <<>>
    /\ \A j \in 1 .. Len(toClient[c]) :
         IF toClient[c][j] = ShutdownMesg
           THEN /\ spc \notin Starting \cup Running
                /\ \A h \in j .. Len(toClient[c]) : toClient[c][h] = ShutdownMesg
           ELSE /\ Place(c) + j - 1 <= Len(log)
                /\ toClient[c][j] = log[Place(c) + j - 1]
                /\ toClient[c][j] # Departed(c)

Reach(c) == Place(c) + Len(toClient[c])
Level ==
  /\ spc \in Running \ {"bcast"} =>
       \A c \in tcW \cap tcR : from[c] # 0 => Reach(c) = Len(log) + 1
  /\ spc = "bcast" =>
       /\ log # <<>> /\ mesg = log[Len(log)]
       /\ mesg.kind = "DEPARTED" => mesg.name \notin Members
       /\ \A j \in Used : client[j] \in tcR =>
            Reach(client[j]) = IF j < k THEN Len(log) + 1 ELSE Len(log)

(* What is added to a sequence comes at its end.                           *)
LEMMA Appended ==
  ASSUME NEW S, NEW q \in Seq(S), NEW m \in S
  PROVE  /\ Append(q, m) \in Seq(S) /\ Len(q) \in Nat
         /\ Len(Append(q, m)) = Len(q) + 1 /\ Append(q, m)[Len(q) + 1] = m
         /\ \A j \in 1 .. Len(q) : Append(q, m)[j] = q[j]
         /\ Append(q, m) # <<>>
  OBVIOUS

(* What is left when its first message is read.                            *)
LEMMA Shortened ==
  ASSUME NEW S, NEW q \in Seq(S), q # <<>>
  PROVE  /\ Tail(q) \in Seq(S) /\ Len(q) \in Nat \ {0}
         /\ Len(Tail(q)) = Len(q) - 1 /\ Head(q) = q[1] /\ q[1] \in S
         /\ \A j \in 1 .. Len(q) - 1 : Tail(q)[j] = q[j + 1]
  OBVIOUS

(* Places are numbers.                                                     *)
LEMMA PlaceNat ==
  ASSUME Typed, NEW d \in Clients
  PROVE  Place(d) \in Nat /\ Len(toClient[d]) \in Nat
  <1>1. /\ from[d] \in Nat /\ Len(seen[d]) \in Nat /\ Len(toClient[d]) \in Nat
    BY DEF Typed, TypeOK, ServerTypeOK, ClientTypeOK, FifoTypeOK
  <1>2. QED
    BY <1>1 DEF Place

-----------------------------------------------------------------------------
(* What a step of a client is to the others: it writes, it reads a message *)
(* or SHUTDOWN, or it does neither and may only give up its end.           *)
Writes(c) ==
  /\ \E m \in ClientMesg :
       /\ \/ m = Line(c, Len(sent[c]) + 1)
          \/ m = Departed(c) /\ userpc'[c] = "cancel"
       /\ sent' = [sent EXCEPT ![c] = Append(@, m)]
       /\ toServer' = [toServer EXCEPT ![c] = Append(@, m)]
  /\ ~Past(c) /\ UNCHANGED <<seen, toClient, tcR>>

Reads(c) ==
  /\ toClient[c] # <<>> /\ toClient[c][1] # ShutdownMesg
  /\ toClient' = [toClient EXCEPT ![c] = Tail(@)]
  /\ seen' = [seen EXCEPT ![c] = Append(@, toClient[c][1])]
  /\ UNCHANGED <<sent, toServer, tcR>>

Hears(c) ==
  /\ toClient[c] # <<>> /\ toClient[c][1] = ShutdownMesg
  /\ toClient' = [toClient EXCEPT ![c] = Tail(@)]
  /\ UNCHANGED <<seen, sent, toServer, tcR>>

Rests(c) ==
  /\ UNCHANGED <<seen, sent, toServer>> /\ tcR' \subseteq tcR
  /\ \/ toClient' = toClient
     \/ toClient' = [toClient EXCEPT ![c] = <<>>] /\ c \notin tcR'

(* A client that ends writes and reads no more.                            *)
LEMMA EndRests ==
  ASSUME NEW c, NEW how, EndProcess(c, how)
  PROVE  Rests(c)
  BY DEF EndProcess, CloseAllOfClient, SameClientHistory, Rests

(* The user thread writes, or dies of SIGPIPE.                             *)
LEMMA SendWrites ==
  ASSUME NEW c \in Clients, NEW m \in ClientMesg,
         NEW at \in {"write", "depart"}, NEW next, Typed,
         \/ m = Line(c, Len(sent[c]) + 1)
         \/ m = Departed(c) /\ next = "cancel",
         Send(c, at, m, next)
  PROVE  Writes(c) \/ Rests(c)
  <1>1. CASE c \in tsR
    <2>1. ~Past(c)
      BY DEF Send, AtUser, Past
    <2>2. userpc'[c] = next
      BY <1>1 DEF Send, GoUser, Typed, TypeOK, ClientTypeOK
    <2>3. QED
      BY <1>1, <2>1, <2>2 DEF Send, Writes
  <1>2. CASE c \notin tsR
    BY <1>2, EndRests DEF Send
  <1>3. QED
    BY <1>1, <1>2

(* Only SHUTDOWN is of its kind.                                           *)
LEMMA ShutdownKind ==
  \A m \in Mesg : m.kind = "SHUTDOWN" <=> m = ShutdownMesg
  BY DEF Mesg, ClientMesg, ServerMesg, ShutdownMesg

(* Every step of a client is one of the four.                              *)
LEMMA ClientMoves ==
  ASSUME Typed, NEW c \in Clients, ClientStep(c) \/ Kill(c)
  PROVE  Writes(c) \/ Reads(c) \/ Hears(c) \/ Rests(c)
  <1>1. CASE ReadMessage(c)
    <2>1. toClient[c] # <<>> /\ toClient[c] \in Seq(Mesg)
      BY <1>1 DEF ReadMessage, Typed, TypeOK, FifoTypeOK
    <2>2. Head(toClient[c]) = toClient[c][1] /\ toClient[c][1] \in Mesg
      BY <2>1, Shortened
    <2>3. toClient[c][1].kind = "SHUTDOWN" <=> toClient[c][1] = ShutdownMesg
      BY <2>2, ShutdownKind
    <2>4. QED
      BY <1>1, <2>1, <2>2, <2>3 DEF ReadMessage, Reads, Hears
  <1>2. CASE SendLine(c)
    <2>1. Len(sent[c]) + 1 \in Nat
      BY DEF Typed, TypeOK, ClientTypeOK
    <2>2. QED
      BY <1>2, <2>1, MesgTypes, SendWrites DEF SendLine
  <1>3. CASE SendDeparted(c)
    BY <1>3, MesgTypes, SendWrites DEF SendDeparted
  <1>4. CASE \/ MakeFifos(c) \/ OpenJoin(c) \/ JoinOpened(c) \/ CreateUser(c)
             \/ CreateServer(c) \/ TypeLine(c) \/ EndInput(c)
             \/ CloseToServer(c) \/ UserCancelled(c)
             \/ CancelUser(c) \/ CloseToClient(c) \/ ServerCancelled(c)
    BY <1>4
    DEF MakeFifos, OpenJoin, JoinOpened, CreateUser, CreateServer, TypeLine,
        EndInput, CloseToServer, UserCancelled, CancelUser, CloseToClient,
        ServerCancelled, OnlyMain, SameClientHistory, fifoVars, Rests
  <1>5. CASE WriteJoin(c) \/ MainReturn(c) \/ CancelServer(c) \/ Kill(c)
    BY <1>5, EndRests
    DEF WriteJoin, MainReturn, CancelServer, Kill, SameClientHistory, fifoVars,
        Rests
  <1>6. QED
    BY <1>1, <1>2, <1>3, <1>4, <1>5
    DEF ClientStep, MainStep, UserInput, UserThread, ServerThread

Roomed == Said /\ Carried /\ Delivered /\ Level

(* What each client is to have at this moment, told one by one.            *)
MailOf(d) ==
  /\ Len(sent[d]) = heard[d] + InTransit(d) + Len(toServer[d])
  /\ \A j \in 1 .. Len(toServer[d]) :
       toServer[d][j] = sent[d][heard[d] + InTransit(d) + j]

HasBeenTold(d) ==
  /\ from[d] = 0 => toClient[d] = <<>> /\ seen[d] = <<>>
  /\ \A j \in 1 .. Len(toClient[d]) :
       IF toClient[d][j] = ShutdownMesg
         THEN /\ spc \notin Starting \cup Running
              /\ \A h \in j .. Len(toClient[d]) : toClient[d][h] = ShutdownMesg
         ELSE /\ Place(d) + j - 1 <= Len(log)
              /\ toClient[d][j] = log[Place(d) + j - 1]
              /\ toClient[d][j] # Departed(d)

(* A client's write.                                                       *)
LEMMA WritesKeep ==
  ASSUME Typed, Said, Carried, Steady, NEW c \in Clients, Writes(c),
         UNCHANGED serverVars
  PROVE  Said' /\ Carried'
  <1>1. PICK m \in ClientMesg :
          /\ \/ m = Line(c, Len(sent[c]) + 1)
             \/ m = Departed(c) /\ userpc'[c] = "cancel"
          /\ sent' = [sent EXCEPT ![c] = Append(@, m)]
          /\ toServer' = [toServer EXCEPT ![c] = Append(@, m)]
    BY DEF Writes
  <1>2. sent[c] \in Seq(ClientMesg) /\ toServer[c] \in Seq(ClientMesg)
    BY DEF Typed, TypeOK, ClientTypeOK, FifoTypeOK
  <1>3. /\ sent'[c] = Append(sent[c], m) /\ toServer'[c] = Append(toServer[c], m)
        /\ \A d \in Clients : d # c =>
             sent'[d] = sent[d] /\ toServer'[d] = toServer[d]
    BY <1>1 DEF Typed, TypeOK, ClientTypeOK, FifoTypeOK
  <1>4. /\ Len(sent'[c]) = Len(sent[c]) + 1 /\ sent'[c][Len(sent[c]) + 1] = m
        /\ \A j \in 1 .. Len(sent[c]) : sent'[c][j] = sent[c][j]
        /\ Len(toServer'[c]) = Len(toServer[c]) + 1
        /\ toServer'[c][Len(toServer[c]) + 1] = m
        /\ \A j \in 1 .. Len(toServer[c]) : toServer'[c][j] = toServer[c][j]
        /\ Len(sent[c]) \in Nat /\ Len(toServer[c]) \in Nat
    BY <1>2, <1>3, Appended
  <1>5. DOMAIN sent'[c] = 1 .. Len(sent[c]) + 1 /\ DOMAIN sent[c] = 1 .. Len(sent[c])
    BY <1>2, <1>3
  <1>6. m.kind = "DEPARTED" => m = Departed(c)
    BY <1>1 DEF Line
  <1>7. ~Departing(c)
    BY DEF Said, Writes
  <1>8. Departing(c)' => Past(c)'
    <2>1. ASSUME NEW j \in DOMAIN sent'[c], sent'[c][j] = Departed(c)
          PROVE  userpc'[c] = "cancel"
      <3>1. \A h \in 1 .. Len(sent[c]) : sent[c][h] # Departed(c)
        BY <1>5, <1>7 DEF Departing
      <3>2. j = Len(sent[c]) + 1
        BY <1>4, <1>5, <2>1, <3>1
      <3>3. m = Departed(c)
        BY <1>4, <2>1, <3>2
      <3>4. QED
        BY <1>1, <3>3 DEF Line, Departed
    <2>2. QED
      BY <2>1 DEF Past, Departing
  <1>9. \A d \in Clients : d # c => (Departing(d)' => Past(d)')
    BY <1>3 DEF Said, Steady, Departing
  <1>10. \A j \in 1 .. Len(sent'[c]) :
           sent'[c][j].kind = "DEPARTED" => sent'[c][j] = Departed(c)
    <2>1. \A j \in 1 .. Len(sent'[c]) : j \in 1 .. Len(sent[c]) \/ j = Len(sent[c]) + 1
      BY <1>4
    <2>2. QED
      BY <1>4, <1>6, <2>1 DEF Said
  <1>11. Said'
    BY <1>3, <1>8, <1>9, <1>10 DEF Said, Departed
  <1>12. UNCHANGED <<spc, mesg, heard, from>>
    BY DEF serverVars
  <1>13. heard[c] \in Nat /\ \A d : InTransit(d)' = InTransit(d) /\ InTransit(d) \in Nat
    BY <1>12 DEF InTransit, Typed, TypeOK, ServerTypeOK
  <1>14. ASSUME spc \in Starting \cup Running PROVE MailOf(c)'
    <2>1. MailOf(c)
      BY <1>14 DEF Carried, MailOf
    <2>2. Len(sent'[c]) = heard[c] + InTransit(c) + Len(toServer'[c])
      BY <1>4, <1>13, <2>1 DEF MailOf
    <2>3. ASSUME NEW j \in 1 .. Len(toServer'[c])
          PROVE  toServer'[c][j] = sent'[c][heard[c] + InTransit(c) + j]
      <3>a. PICK a \in Nat, b \in Nat :
              a = heard[c] + InTransit(c) /\ b = Len(toServer[c]) /\ Len(sent[c]) = a + b
        <4>1. heard[c] + InTransit(c) \in Nat
          BY <1>13
        <4>2. QED
          BY <1>4, <2>1, <4>1 DEF MailOf
      <3>1. CASE j \in 1 .. Len(toServer[c])
        <4>1. a + j \in 1 .. a + b
          BY <3>1, <3>a
        <4>2. toServer[c][j] = sent[c][a + j]
          BY <2>1, <3>1, <3>a DEF MailOf
        <4>3. QED
          BY <1>4, <3>1, <3>a, <4>1, <4>2
      <3>2. CASE j = Len(toServer[c]) + 1
        <4>1. a + j = Len(sent[c]) + 1
          BY <3>2, <3>a
        <4>2. QED
          BY <1>4, <3>2, <3>a, <4>1
      <3>3. QED
        BY <1>4, <3>1, <3>2
    <2>4. QED
      BY <1>12, <1>13, <2>2, <2>3 DEF MailOf
  <1>15. \A d \in Clients : d # c => (MailOf(d) => MailOf(d)')
    BY <1>3, <1>12, <1>13 DEF MailOf
  <1>16. ASSUME spc \in Removing
         PROVE  mesg = sent'[mesg.name][heard[mesg.name] + 1]
    <2>1. mesg.name \in Clients /\ mesg = sent[mesg.name][heard[mesg.name] + 1]
      BY <1>16, MesgTypes DEF Typed, Registers, Carried
    <2>2. CASE mesg.name = c
      <3>1. spc \in Running /\ InTransit(c) = 1
        BY <1>16, <2>2 DEF Removing, Running, InTransit
      <3>2. Len(sent[c]) = heard[c] + 1 + Len(toServer[c])
        BY <3>1 DEF Carried
      <3>3. heard[c] + 1 \in 1 .. Len(sent[c])
        BY <1>4, <1>13, <3>2
      <3>4. sent'[c][heard[c] + 1] = sent[c][heard[c] + 1]
        BY <1>4, <3>3
      <3>5. QED
        BY <2>1, <2>2, <3>4
    <2>3. CASE mesg.name # c
      BY <1>3, <2>1, <2>3
    <2>4. QED
      BY <2>2, <2>3
  <1>17. Carried'
    BY <1>12, <1>14, <1>15, <1>16 DEF Carried, MailOf
  <1>18. QED
    BY <1>11, <1>17

(* The other steps of a client write nothing.                              *)
LEMMA SilentKeep ==
  ASSUME Said, Carried, Steady, UNCHANGED <<sent, toServer>>,
         UNCHANGED serverVars
  PROVE  Said' /\ Carried'
  <1>1. UNCHANGED <<spc, mesg, heard, from>>
    BY DEF serverVars
  <1>2. Said'
    BY DEF Said, Steady, Departing
  <1>3. Carried'
    BY <1>1 DEF Carried, InTransit
  <1>4. QED
    BY <1>2, <1>3

(* What a client does with its end of the FIFO concerns no other client,   *)
(* and what it has read and has still to read go together.                 *)
LEMMA ReadingKeeps ==
  ASSUME Typed, Delivered, Level, NEW c \in Clients,
         Writes(c) \/ Reads(c) \/ Hears(c) \/ Rests(c),
         UNCHANGED serverVars, tcW' = tcW
  PROVE  Delivered' /\ Level'
  <1>1. UNCHANGED <<spc, mesg, log, from, n_clients, client, k>>
    BY DEF serverVars
  <1>2. /\ toClient[c] \in Seq(Mesg) /\ seen[c] \in Seq(Mesg)
        /\ from[c] \in Nat /\ log \in Seq(Mesg)
    BY DEF Typed, TypeOK, FifoTypeOK, ClientTypeOK, ServerTypeOK
  <1>3. /\ tcR' \subseteq tcR
        /\ \A d \in Clients : d # c =>
             toClient'[d] = toClient[d] /\ seen'[d] = seen[d]
    BY DEF Writes, Reads, Hears, Rests, Typed, TypeOK, FifoTypeOK, ClientTypeOK
  <1>4. \A d \in Clients : d # c => (HasBeenTold(d) => HasBeenTold(d)')
    BY <1>1, <1>3 DEF HasBeenTold, Place
  <1>5. HasBeenTold(c)
    BY DEF Delivered, HasBeenTold
  <1>6. /\ HasBeenTold(c)'
        /\ c \in tcR' /\ spc \in Running =>
             Reach(c)' = Reach(c)
    <2>1. CASE toClient'[c] = toClient[c] /\ seen'[c] = seen[c]
      BY <1>1, <1>5, <2>1 DEF HasBeenTold, Place, Reach
    <2>2. CASE Reads(c)
      <3>1. /\ toClient'[c] = Tail(toClient[c]) /\ toClient[c] # <<>>
            /\ seen'[c] = Append(seen[c], toClient[c][1])
            /\ toClient[c][1] # ShutdownMesg
        BY <2>2 DEF Reads, Typed, TypeOK, FifoTypeOK, ClientTypeOK
      <3>2. /\ Len(toClient'[c]) = Len(toClient[c]) - 1
            /\ \A j \in 1 .. Len(toClient[c]) - 1 : toClient'[c][j] = toClient[c][j + 1]
            /\ Len(toClient[c]) \in Nat \ {0} /\ toClient[c][1] \in Mesg
        BY <1>2, <3>1, Shortened
      <3>3. Len(seen'[c]) = Len(seen[c]) + 1 /\ Len(seen[c]) \in Nat
        BY <1>2, <3>1, <3>2, Appended
      <3>4. Place(c)' = Place(c) + 1 /\ Place(c) \in Nat
        <4>1. from' = from /\ from[c] \in Nat
          BY <1>1, <1>2
        <4>2. QED
          BY <3>3, <4>1 DEF Place
      <3>5. from[c] # 0
        BY <1>5, <3>1 DEF HasBeenTold
      <3>6. ASSUME NEW j \in 1 .. Len(toClient'[c])
            PROVE  IF toClient'[c][j] = ShutdownMesg
                     THEN /\ spc \notin Starting \cup Running
                          /\ \A h \in j .. Len(toClient'[c]) :
                               toClient'[c][h] = ShutdownMesg
                     ELSE /\ Place(c)' + j - 1 <= Len(log)
                          /\ toClient'[c][j] = log[Place(c)' + j - 1]
                          /\ toClient'[c][j] # Departed(c)
        <4>1. j + 1 \in 1 .. Len(toClient[c]) /\ toClient'[c][j] = toClient[c][j + 1]
          BY <3>2
        <4>2. Place(c)' + j - 1 = Place(c) + (j + 1) - 1
          BY <3>4
        <4>3. CASE toClient'[c][j] = ShutdownMesg
          <5>1. /\ spc \notin Starting \cup Running
                /\ \A h \in j + 1 .. Len(toClient[c]) : toClient[c][h] = ShutdownMesg
            BY <1>5, <4>1, <4>3 DEF HasBeenTold
          <5>2. ASSUME NEW h \in j .. Len(toClient'[c])
                PROVE  /\ h \in 1 .. Len(toClient[c]) - 1
                       /\ h + 1 \in j + 1 .. Len(toClient[c])
            BY <3>2
          <5>3. QED
            BY <3>2, <4>3, <5>1, <5>2
        <4>4. CASE toClient'[c][j] # ShutdownMesg
          BY <1>5, <4>1, <4>2, <4>4 DEF HasBeenTold
        <4>5. QED
          BY <4>3, <4>4
      <3>7. HasBeenTold(c)'
        BY <1>1, <3>5, <3>6 DEF HasBeenTold, Departed
      <3>8. QED
        BY <3>2, <3>4, <3>7 DEF Reach
    <2>3. CASE Hears(c)
      <3>1. /\ toClient'[c] = Tail(toClient[c]) /\ toClient[c] # <<>>
            /\ seen' = seen /\ toClient[c][1] = ShutdownMesg
        BY <2>3 DEF Hears, Typed, TypeOK, FifoTypeOK
      <3>2. Len(toClient[c]) \in Nat \ {0}
        BY <1>2, <3>1, Shortened
      <3>3. spc \notin Starting \cup Running /\ from[c] # 0
        BY <1>5, <3>1, <3>2 DEF HasBeenTold
      <3>4. \A h \in 1 .. Len(toClient[c]) : toClient[c][h] = ShutdownMesg
        BY <1>5, <3>1, <3>2 DEF HasBeenTold
      <3>5. /\ Len(toClient'[c]) = Len(toClient[c]) - 1
            /\ \A j \in 1 .. Len(toClient[c]) - 1 : toClient'[c][j] = toClient[c][j + 1]
        BY <1>2, <3>1, Shortened
      <3>6. \A j \in 1 .. Len(toClient'[c]) : toClient'[c][j] = ShutdownMesg
        BY <3>2, <3>4, <3>5
      <3>7. \A j \in 1 .. Len(toClient'[c]) :
              \A h \in j .. Len(toClient'[c]) : h \in 1 .. Len(toClient'[c])
        BY <3>2, <3>5
      <3>8. HasBeenTold(c)'
        BY <1>1, <3>3, <3>6, <3>7 DEF HasBeenTold, ShutdownMesg
      <3>9. QED
        BY <3>3, <3>8 DEF Running
    <2>4. CASE Rests(c) /\ toClient'[c] = <<>> /\ c \notin tcR'
      <3>1. seen' = seen /\ Len(toClient'[c]) = 0
        BY <2>4 DEF Rests
      <3>2. QED
        BY <1>1, <1>5, <2>4, <3>1 DEF HasBeenTold
    <2>5. QED
      BY <2>1, <2>2, <2>3, <2>4
      DEF Writes, Rests, Typed, TypeOK, FifoTypeOK
  <1>7. Delivered'
    BY <1>4, <1>6 DEF Delivered, HasBeenTold
  <1>8. ASSUME spc \in Running, NEW d \in Clients, d \in tcR'
        PROVE  Reach(d)' = Reach(d)
    BY <1>1, <1>3, <1>6, <1>8 DEF Place, Reach
  <1>9. Level'
    <2>1. CASE spc \in Running \ {"bcast"}
      <3>1. \A d \in tcW' \cap tcR' : d \in tcW \cap tcR /\ d \in Clients
        BY <1>3 DEF Typed, TypeOK, FifoTypeOK
      <3>2. QED
        BY <1>1, <1>8, <2>1, <3>1 DEF Level
    <2>2. CASE spc = "bcast"
      <3>1. Members' = Members /\ Used' = Used
        BY <1>1 DEF Members, Used
      <3>2. \A j \in Used : client[j] \in Clients
        BY DEF Typed, Registers
      <3>3. ASSUME NEW j \in Used, NEW d \in Clients, d = client[j], d \in tcR'
            PROVE  Reach(d)' = IF j < k THEN Len(log) + 1 ELSE Len(log)
        <4>1. Reach(d) = IF j < k THEN Len(log) + 1 ELSE Len(log)
          BY <1>3, <2>2, <3>3 DEF Level
        <4>2. QED
          BY <1>8, <2>2, <3>3, <4>1 DEF Running
      <3>4. \A j \in Used' : client'[j] \in tcR' =>
              Reach(client[j])' = IF j < k' THEN Len(log') + 1 ELSE Len(log')
        BY <1>1, <3>1, <3>2, <3>3 DEF Reach, Place
      <3>5. QED
        BY <1>1, <2>2, <3>1, <3>4 DEF Level
    <2>3. QED
      BY <1>1, <2>1, <2>2 DEF Level
  <1>10. QED
    BY <1>7, <1>9

-----------------------------------------------------------------------------
(* What a step of the server is to the room: it announces a message, it    *)
(* writes one to a client or takes one from a client, or it does neither.  *)
SameMail == UNCHANGED <<toServer, toClient, tcR>>

Idles ==
  /\ SameMail /\ SameHistory /\ spc' # "bcast"
  /\ spc' \in Starting => spc \in Starting
  /\ spc' \in Starting \cup Running =>
       /\ spc \in Starting \cup Running
       /\ spc \in Removing <=> spc' \in Removing
       /\ spc \in Removing => mesg' = mesg
  /\ spc' \in Running =>
       \/ spc \in Starting
       \/ spc \in Running \ {"bcast"} /\ tcW' = tcW
       \/ spc = "rmClose" /\ tcW' = tcW \ {client[i]}
       \/ spc = "bcast" /\ k >= n_clients /\ tcW' = tcW

Begins(m) ==
  /\ spc \in Running \ {"bcast"} /\ BeginBroadcast(m) /\ SameMail
  /\ tcW' = tcW

Names(c) ==
  spc = "join" /\ Full /\ Begins(Joined(c)) /\ UNCHANGED <<from, heard>>

Tells ==
  /\ spc = "bcast" /\ k < n_clients /\ Push(client[k], mesg)
  /\ k' = k + 1 /\ UNCHANGED <<spc, mesg>> /\ SameArray /\ SameHistory

Shuts ==
  spc = "sdWrite" /\ spc' = spc /\ InLoop /\ Push(client[i], ShutdownMesg)
    /\ SameHistory

Hands(c) ==
  /\ spc = "serve" /\ i \in Used /\ c = client[i]
  /\ toServer[c] # <<>> /\ TakeOne(c) /\ UNCHANGED <<toClient, tcR, tcW, from>>
  /\ \/ /\ Head(toServer[c]).kind = "MESG"
        /\ BeginBroadcast(Head(toServer[c])) /\ Hear(c)
     \/ /\ Head(toServer[c]).kind # "MESG"
        /\ spc' = "rmClose" /\ mesg' = Head(toServer[c])
        /\ UNCHANGED <<log, heard>>

(* A server that ends says nothing more.                                   *)
LEMMA DieIdles ==
  ASSUME NEW how \in Stopped, Die(how)
  PROVE  Idles
  BY DEF Die, CloseAllOfServer, Stopped, Idles, SameMail, Starting, Running

(* Nor does one that fails to write.                                       *)
LEMMA PushFailsIdles ==
  ASSUME NEW c, PushFails(c)
  PROVE  Idles
  BY DieIdles DEF PushFails, Stopped

(* Every step of the server is one of these.                               *)
LEMMA ServerMoves ==
  ASSUME Typed, ServerStep
  PROVE  \/ Idles \/ Tells \/ Shuts \/ AddClient \/ RemoveEnd
         \/ \E c \in Clients \cup {NoClient} : Names(c)
         \/ \E c \in Clients : Hands(c)
  <1> USE DEF SameArray, SameHistory, SameEnds, SameJoinFifo, fifoVars,
              Starting, Running, Removing
  <1>1. CASE StartRemove \/ StartMkfifo \/ StartOpen
    BY <1>1 DEF StartRemove, StartMkfifo, StartOpen, Idles, SameMail
  <1>2. CASE CheckSources \/ PassOver
    BY <1>2 DEF CheckSources, PassOver, Idles, SameMail
  <1>3. CASE ReadJoin
    <2>1. Head(joinQ) \in Clients
      BY <1>3 DEF ReadJoin, Typed, TypeOK, FifoTypeOK
    <2>2. CASE Full
      BY <1>3, <2>1, <2>2 DEF ReadJoin, Names, Begins, SameMail
    <2>3. CASE ~Full
      BY <1>3, <2>3 DEF ReadJoin, Idles, SameMail
    <2>4. QED
      BY <2>2, <2>3
  <1>4. CASE ReadJoinEOF
    <2>1. CASE Full
      BY <1>4, <2>1 DEF ReadJoinEOF, Names, Begins, SameMail
    <2>2. CASE ~Full
      BY <1>4, <2>2, DieIdles DEF ReadJoinEOF, Stopped
    <2>3. QED
      BY <2>1, <2>2
  <1>5. CASE ReadJoinAgain \/ ShutdownExit
    BY <1>5, DieIdles DEF ReadJoinAgain, ShutdownExit, Stopped
  <1>6. CASE BroadcastWrite
    BY <1>6, PushFailsIdles DEF BroadcastWrite, Tells
  <1>7. CASE EndBroadcast
    BY <1>7 DEF EndBroadcast, Idles, SameMail
  <1>8. CASE HandleClient
    <2>1. i \in Used /\ client[i] \in Clients
      BY <1>8 DEF HandleClient, InLoop, Used, Typed, TypeOK, ServerTypeOK,
                  Registers
    <2>2. CASE toServer[client[i]] # <<>>
      BY <1>8, <2>1, <2>2 DEF HandleClient, Hands, BroadcastsOnly
    <2>3. CASE toServer[client[i]] = <<>>
      BY <1>8, <2>3 DEF HandleClient, Idles, SameMail
    <2>4. QED
      BY <2>2, <2>3
  <1>9. CASE RemoveClose \/ RemoveUnlink \/ RemoveShift
    BY <1>9 DEF RemoveClose, RemoveUnlink, RemoveShift, CloseFds, UnlinkFifos,
                ShiftOne, Idles, SameMail
  <1>10. CASE ShutdownUnlink \/ ShutdownRemove
    BY <1>10 DEF ShutdownUnlink, ShutdownRemove, Idles, SameMail
  <1>11. CASE ShutdownWrite
    <2>1. CASE InLoop /\ Push(client[i], ShutdownMesg) /\ spc' = spc /\ SameHistory
      BY <1>11, <2>1 DEF ShutdownWrite, Shuts
    <2>2. CASE ~InLoop /\ spc' = "sdRemove" /\ UNCHANGED fifoVars /\ SameHistory
      BY <2>2 DEF Idles, SameMail
    <2>3. QED
      BY <1>11, <2>1, <2>2, PushFailsIdles DEF ShutdownWrite
  <1>12. CASE ShutdownClose \/ ShutdownForget \/ ShutdownShift
    BY <1>12 DEF ShutdownClose, ShutdownForget, ShutdownShift, CloseFds,
                 UnlinkFifos, ShiftOne, Idles, SameMail
  <1>13. CASE ShutdownRemoved
    <2>1. CASE err
      BY <1>13, <2>1, DieIdles DEF ShutdownRemoved, Stopped
    <2>2. CASE ~err
      BY <1>13, <2>2 DEF ShutdownRemoved, Idles, SameMail
    <2>3. QED
      BY <2>1, <2>2
  <1>14. QED
    BY <1>1, <1>2, <1>3, <1>4, <1>5, <1>6, <1>7, <1>8, <1>9, <1>10, <1>11,
       <1>12, <1>13
    DEF ServerStep, ServerStart, ServerLoop, ServerShutdown

(* A signal only sends the server elsewhere.                               *)
LEMMA SignalIdles ==
  ASSUME NEW s, TakeSignal(s)
  PROVE  Idles
  BY DEF TakeSignal, SameEnds, SameHistory, Idles, SameMail, Starting, Running

-----------------------------------------------------------------------------
(* A step of the server or a signal that does nothing to the room.         *)
LEMMA IdlesKeep ==
  ASSUME Typed, Present, Array, Roomed, Idles, UNCHANGED clientVars
  PROVE  Roomed'
  <1>1. UNCHANGED <<toServer, toClient, tcR, log, from, heard, sent, seen, userpc>>
    BY DEF Idles, SameMail, SameHistory, clientVars
  <1>2. Said'
    BY <1>1 DEF Roomed, Said, Past, Departing
  <1>3. Carried'
    <2>1. spc' \in Starting \cup Running => \A d : InTransit(d)' = InTransit(d)
      BY DEF Idles, InTransit
    <2>2. spc' \in Removing => spc \in Removing /\ mesg' = mesg
      BY DEF Idles, Removing, Running
    <2>3. spc' \in Starting \cup Running => spc \in Starting \cup Running
      BY DEF Idles
    <2>4. QED
      BY <1>1, <2>1, <2>2, <2>3 DEF Roomed, Carried
  <1>4. Delivered'
    <2>1. \A d : Place(d)' = Place(d)
      BY <1>1 DEF Place
    <2>2. spc \notin Starting \cup Running => spc' \notin Starting \cup Running
      BY DEF Idles
    <2>3. QED
      BY <1>1, <2>1, <2>2 DEF Roomed, Delivered, Departed
  <1>5. Level'
    <2>1. \A d : Reach(d)' = Reach(d)
      BY <1>1 DEF Reach, Place
    <2>2. spc' # "bcast"
      BY DEF Idles
    <2>3. ASSUME spc' \in Running, NEW c \in tcW' \cap tcR', from'[c] # 0
          PROVE  Reach(c)' = Len(log') + 1
      <3>1. CASE spc \in Starting
        BY <1>1, <2>3, <3>1 DEF Present, Typed, TypeOK, FifoTypeOK
      <3>2. CASE spc \in Running \ {"bcast"} /\ tcW' \subseteq tcW
        BY <1>1, <2>1, <2>3, <3>2 DEF Roomed, Level
      <3>3. CASE spc = "bcast" /\ k >= n_clients /\ tcW' = tcW
        <4>1. tcW = Members
          BY <3>3, IntactPlain DEF Intact, Plain, Running
        <4>2. PICK j \in Used : client[j] = c
          BY <1>1, <2>3, <3>3, <4>1 DEF Members
        <4>3. j < k
          BY <3>3 DEF Used, Typed, TypeOK, ServerTypeOK
        <4>4. QED
          BY <1>1, <2>1, <2>3, <3>3, <4>2, <4>3 DEF Roomed, Level
      <3>4. QED
        BY <2>3, <3>1, <3>2, <3>3 DEF Idles, Running
    <2>4. QED
      BY <2>2, <2>3 DEF Level
  <1>6. QED
    BY <1>2, <1>3, <1>4, <1>5 DEF Roomed

(* A message enters the log: those in the array have been written all the  *)
(* others, and one who is let in is to be written this one first.          *)
LEMMA BeginLevel ==
  ASSUME Typed, Array', Requests', Level, NEW m \in Mesg,
         spc \in Running \ {"bcast"}, BeginBroadcast(m),
         m.kind = "DEPARTED" => m.name \notin tcW',
         UNCHANGED <<toClient, seen, tcR, tcW>>,
         \A c \in Clients :
           \/ from'[c] = from[c]
           \/ toClient[c] = <<>> /\ seen[c] = <<>> /\ from'[c] = Len(log) + 1
  PROVE  Level'
  <1>1. log \in Seq(Mesg) /\ log' = Append(log, m)
    BY DEF BeginBroadcast, Typed, TypeOK, ServerTypeOK
  <1>2. /\ Len(log') = Len(log) + 1 /\ log'[Len(log) + 1] = m /\ log' # <<>>
        /\ Len(log) \in Nat
    BY <1>1, Appended
  <1>3. Members' = tcW' /\ spc' = "bcast" /\ k' = 0 /\ mesg' = m
    BY IntactPlainNext DEF BeginBroadcast, Intact, Plain, Running
  <1>4. ASSUME NEW j \in Used', NEW c, c = client'[j], c \in tcR'
        PROVE  Reach(c)' = Len(log')
    <2>1. c \in tcW /\ c \in tcR /\ c \in Clients
      BY <1>3, <1>4 DEF Members, Typed, TypeOK, FifoTypeOK
    <2>2. from'[c] # 0
      BY <1>4 DEF Requests
    <2>3. CASE from'[c] = from[c]
      <3>1. Reach(c) = Len(log) + 1
        BY <2>1, <2>2, <2>3 DEF Level
      <3>2. Reach(c)' = Reach(c)
        BY <2>3 DEF Reach, Place
      <3>3. QED
        BY <1>2, <3>1, <3>2
    <2>4. CASE toClient[c] = <<>> /\ seen[c] = <<>> /\ from'[c] = Len(log) + 1
      BY <1>2, <2>4 DEF Reach, Place
    <2>5. QED
      BY <2>1, <2>3, <2>4
  <1>5. \A j \in Used' : ~(j < k')
    BY <1>3 DEF Used
  <1>6. \A j \in Used' : client'[j] \in tcR' => Reach(client[j])' = Len(log')
    BY <1>4 DEF Reach, Place
  <1>7. QED
    BY <1>2, <1>3, <1>5, <1>6 DEF Level

(* What was written to a client stays what the log says.                   *)
LEMMA BeginDelivered ==
  ASSUME Typed, Delivered, NEW m \in Mesg, log' = Append(log, m),
         UNCHANGED <<toClient, seen>>,
         spc \notin Starting \cup Running => spc' \notin Starting \cup Running,
         \A c \in Clients : from'[c] = from[c] \/ from[c] = 0
  PROVE  Delivered'
  <1>1. log \in Seq(Mesg)
    BY DEF Typed, TypeOK, ServerTypeOK
  <1>2. /\ Len(log') = Len(log) + 1 /\ Len(log) \in Nat
        /\ \A n \in 1 .. Len(log) : log'[n] = log[n]
    BY <1>1, Appended
  <1>3. ASSUME NEW c \in Clients PROVE HasBeenTold(c)'
    <2>1. HasBeenTold(c)
      BY DEF Delivered, HasBeenTold
    <2>2. CASE from[c] = 0
      BY <2>1, <2>2 DEF HasBeenTold
    <2>3. CASE from[c] # 0 /\ from'[c] = from[c]
      <3>1. Place(c)' = Place(c) /\ Place(c) \in Nat \ {0}
        BY <2>3, PlaceNat DEF Place, Typed, TypeOK, ServerTypeOK, ClientTypeOK
      <3>2. ASSUME NEW j \in 1 .. Len(toClient[c]), Place(c) + j - 1 <= Len(log)
            PROVE  /\ Place(c) + j - 1 \in 1 .. Len(log)
                   /\ Place(c) + j - 1 <= Len(log')
        BY <1>2, <3>1, <3>2, PlaceNat
      <3>3. QED
        BY <1>2, <2>1, <2>3, <3>1, <3>2 DEF HasBeenTold, Departed
    <2>4. QED
      BY <2>2, <2>3
  <1>4. QED
    BY <1>3 DEF Delivered, HasBeenTold

(* Where the mail of the clients is not touched.                           *)
LEMMA MailKept ==
  ASSUME Carried, UNCHANGED <<sent, toServer, heard>>,
         spc \in (Starting \cup Running) \ Removing, spc' \notin Removing
  PROVE  Carried'
  <1>1. \A d : InTransit(d)' = 0 /\ InTransit(d) = 0
    BY DEF InTransit
  <1>2. QED
    BY <1>1 DEF Carried

(* A client is announced that is not let in.                               *)
LEMMA NamesKeep ==
  ASSUME Typed, Array', Requests', Roomed, NEW c \in Clients \cup {NoClient},
         Names(c), UNCHANGED clientVars
  PROVE  Roomed'
  <1>1. /\ UNCHANGED <<toServer, toClient, tcR, tcW, from, heard, sent, seen, userpc>>
        /\ spc = "join" /\ spc' = "bcast" /\ BeginBroadcast(Joined(c))
        /\ Joined(c) \in Mesg /\ Joined(c).kind = "JOINED"
    BY MesgTypes DEF Names, Begins, SameMail, clientVars, BeginBroadcast, Joined
  <1>2. Said'
    BY <1>1 DEF Roomed, Said, Past, Departing
  <1>3. Carried'
    BY <1>1, MailKept DEF Roomed, Running, Removing
  <1>4. Delivered'
    BY <1>1, BeginDelivered DEF Roomed, BeginBroadcast, Running
  <1>5. Level'
    BY <1>1, BeginLevel DEF Roomed, Running
  <1>6. QED
    BY <1>2, <1>3, <1>4, <1>5 DEF Roomed

(* A client is let in.                                                     *)
LEMMA AddKeeps ==
  ASSUME Typed, Array', Requests, Requests', Roomed, AddClient,
         UNCHANGED clientVars
  PROVE  Roomed'
  <1>1. /\ UNCHANGED <<toServer, toClient, tcR, tcW, heard, sent, seen, userpc>>
        /\ spc = "append" /\ spc' = "bcast" /\ BeginBroadcast(Joined(join))
        /\ from' = [from EXCEPT ![join] = Len(log) + 1]
    BY DEF AddClient, BeginBroadcast, fifoVars, clientVars
  <1>2. join \in Clients /\ from[join] = 0
    BY <1>1 DEF Requests, Opening, Typed, Registers
  <1>3. Joined(join) \in Mesg /\ Joined(join).kind = "JOINED"
    BY <1>2, MesgTypes DEF Joined
  <1>4. /\ from'[join] = Len(log) + 1
        /\ \A c \in Clients : c # join => from'[c] = from[c]
    BY <1>1, <1>2 DEF Typed, TypeOK, ServerTypeOK
  <1>5. toClient[join] = <<>> /\ seen[join] = <<>>
    BY <1>2 DEF Roomed, Delivered
  <1>6. Said'
    BY <1>1 DEF Roomed, Said, Past, Departing
  <1>7. Carried'
    BY <1>1, MailKept DEF Roomed, Running, Removing
  <1>8. Delivered'
    BY <1>1, <1>2, <1>3, <1>4, BeginDelivered DEF Roomed, BeginBroadcast, Running
  <1>9. Level'
    BY <1>1, <1>3, <1>4, <1>5, BeginLevel DEF Roomed, Running
  <1>10. QED
    BY <1>6, <1>7, <1>8, <1>9 DEF Roomed

(* A client that was removed is announced as departed.                     *)
LEMMA EndKeeps ==
  ASSUME Typed, Array, Array', Requests', Leaver, Roomed, RemoveEnd,
         UNCHANGED clientVars
  PROVE  Roomed'
  <1>1. /\ UNCHANGED <<toServer, toClient, tcR, tcW, from, sent, seen, userpc>>
        /\ spc = "rmShift" /\ spc' = "bcast" /\ BeginBroadcast(mesg)
        /\ heard' = [heard EXCEPT ![mesg.name] = @ + 1]
    BY DEF RemoveEnd, BeginBroadcast, Hear, fifoVars, clientVars
  <1>2. mesg \in Mesg /\ mesg.name \in Clients /\ mesg.name \notin tcW
    BY <1>1, MesgTypes DEF Leaver, Removing, Typed, Registers
  <1>3. Said'
    BY <1>1 DEF Roomed, Said, Past, Departing
  <1>4. Carried'
    <2>1. \A d \in Clients :
            heard[d] + InTransit(d) = heard'[d] + InTransit(d)'
      BY <1>1, <1>2 DEF InTransit, Removing, Typed, TypeOK, ServerTypeOK
    <2>2. spc' \notin Removing
      BY <1>1 DEF Removing
    <2>3. QED
      BY <1>1, <2>1, <2>2 DEF Roomed, Carried, Running
  <1>5. Delivered'
    BY <1>1, <1>2, BeginDelivered DEF Roomed, BeginBroadcast, Running
  <1>6. Level'
    BY <1>1, <1>2, BeginLevel DEF Roomed, Running
  <1>7. QED
    BY <1>3, <1>4, <1>5, <1>6 DEF Roomed

(* A message is read from a client.                                        *)
LEMMA HandsCarried ==
  ASSUME Typed, Requests, Words, Carried, NEW c \in Clients, Hands(c),
         UNCHANGED clientVars
  PROVE  Carried'
  <1>1. UNCHANGED <<from, sent>> /\ spc = "serve" /\ i \in Used /\ c = client[i]
    BY DEF Hands, clientVars
  <1>2. /\ toServer[c] \in Seq(ClientMesg) /\ toServer[c] # <<>>
        /\ heard[c] \in Nat
        /\ toServer'[c] = Tail(toServer[c])
        /\ \A d \in Clients : d # c => toServer'[d] = toServer[d]
    BY DEF Hands, TakeOne, Typed, TypeOK, FifoTypeOK, ServerTypeOK
  <1>3. /\ Len(toServer'[c]) = Len(toServer[c]) - 1
        /\ Len(toServer[c]) \in Nat \ {0}
        /\ Head(toServer[c]) = toServer[c][1]
        /\ \A j \in 1 .. Len(toServer[c]) - 1 : toServer'[c][j] = toServer[c][j + 1]
    BY <1>2, Shortened
  <1>4. \A d \in Clients : MailOf(d) /\ InTransit(d) = 0
    BY <1>1 DEF Carried, MailOf, InTransit, Removing, Running
  <1>5. /\ Len(sent[c]) = heard[c] + Len(toServer[c])
        /\ \A j \in 1 .. Len(toServer[c]) : toServer[c][j] = sent[c][heard[c] + j]
    <2>1. /\ Len(sent[c]) = heard[c] + 0 + Len(toServer[c])
          /\ \A j \in 1 .. Len(toServer[c]) : toServer[c][j] = sent[c][heard[c] + 0 + j]
      BY <1>4 DEF MailOf
    <2>2. heard[c] + 0 = heard[c]
      BY <1>2
    <2>3. QED
      BY <2>1, <2>2
  <1>6. /\ Len(sent[c]) = heard[c] + 1 + Len(toServer'[c])
        /\ \A j \in 1 .. Len(toServer'[c]) :
             toServer'[c][j] = sent[c][heard[c] + 1 + j]
    <2>1. Len(sent[c]) = heard[c] + 1 + Len(toServer'[c])
      BY <1>2, <1>3, <1>5
    <2>2. ASSUME NEW j \in 1 .. Len(toServer'[c])
          PROVE  toServer'[c][j] = sent[c][heard[c] + 1 + j]
      <3>1. j + 1 \in 1 .. Len(toServer[c]) /\ toServer'[c][j] = toServer[c][j + 1]
        BY <1>3
      <3>2. heard[c] + (j + 1) = heard[c] + 1 + j
        BY <1>2, <3>1
      <3>3. QED
        BY <1>5, <3>1, <3>2
    <2>3. QED
      BY <2>1, <2>2
  <1>7. CASE Head(toServer[c]).kind = "MESG"
    <2>1. /\ heard' = [heard EXCEPT ![c] = @ + 1] /\ spc' = "bcast"
      BY <1>7 DEF Hands, Hear, BeginBroadcast
    <2>2. /\ heard'[c] = heard[c] + 1 /\ \A d \in Clients : d # c => heard'[d] = heard[d]
          /\ \A d : InTransit(d)' = 0
      BY <2>1 DEF InTransit, Removing, Typed, TypeOK, ServerTypeOK
    <2>3. MailOf(c)'
      <3>1. InTransit(c)' = 0 /\ sent' = sent /\ heard'[c] = heard[c] + 1
        BY <1>1, <2>2
      <3>2. PICK a \in Nat : a = heard'[c]
        BY <1>2, <3>1
      <3>3. /\ Len(sent[c]) = a + Len(toServer'[c])
            /\ \A j \in 1 .. Len(toServer'[c]) : toServer'[c][j] = sent[c][a + j]
        BY <1>6, <3>1, <3>2
      <3>4. a + 0 = a
        BY <3>2
      <3> QED
        BY <3>1, <3>2, <3>3, <3>4 DEF MailOf
    <2>4. ASSUME NEW d \in Clients, d # c PROVE MailOf(d)'
      <3>1. /\ InTransit(d)' = InTransit(d) /\ sent' = sent
            /\ heard'[d] = heard[d] /\ toServer'[d] = toServer[d]
        BY <1>1, <1>2, <1>4, <2>2, <2>4
      <3> QED
        BY <1>4, <3>1 DEF MailOf
    <2>5. QED
      BY <2>1, <2>3, <2>4 DEF Carried, MailOf, Removing
  <1>8. CASE Head(toServer[c]).kind # "MESG"
    <2>1. /\ heard' = heard /\ spc' = "rmClose" /\ mesg' = toServer[c][1]
      BY <1>3, <1>8 DEF Hands
    <2>2. mesg'.name = c
      <3>1. 1 \in DOMAIN toServer[c]
        BY <1>2, <1>3
      <3>2. toServer[c][1] = Departed(c)
        BY <1>3, <1>8, <3>1 DEF Words
      <3>3. QED
        BY <2>1, <3>2 DEF Departed
    <2>3. InTransit(c)' = 1 /\ \A d : d # c => InTransit(d)' = 0
      BY <2>1, <2>2 DEF InTransit, Removing
    <2>4. MailOf(c)'
      BY <1>1, <1>2, <1>3, <1>6, <2>1, <2>3 DEF MailOf
    <2>5. ASSUME NEW d \in Clients, d # c PROVE MailOf(d)'
      <3>1. InTransit(d) = 0 /\ InTransit(d)' = 0 /\ toServer'[d] = toServer[d]
        BY <1>2, <1>4, <2>3, <2>5
      <3>2. QED
        BY <1>1, <1>4, <2>1, <3>1 DEF MailOf
    <2>6. from'[c] # 0
      BY <1>1 DEF Requests
    <2>7. mesg' = sent'[c][heard'[c] + 1]
      BY <1>1, <1>3, <1>5, <2>1
    <2>8. QED
      BY <2>2, <2>4, <2>5, <2>6, <2>7 DEF Carried, MailOf
  <1>9. QED
    BY <1>7, <1>8

(* ... and announced, unless it departs.                                   *)
LEMMA HandsKeep ==
  ASSUME Typed, Array', Requests, Requests', Words, Roomed,
         NEW c \in Clients, Hands(c), UNCHANGED clientVars
  PROVE  Roomed'
  <1>1. /\ UNCHANGED <<toClient, tcR, tcW, from, sent, seen, userpc>>
        /\ spc = "serve"
    BY DEF Hands, clientVars
  <1>2. Said'
    BY <1>1 DEF Roomed, Said, Past, Departing
  <1>3. Carried'
    BY HandsCarried DEF Roomed
  <1>4. CASE Head(toServer[c]).kind = "MESG" /\ BeginBroadcast(Head(toServer[c]))
    <2>1. Head(toServer[c]) \in Mesg
      <3>1. toServer[c] \in Seq(ClientMesg) /\ toServer[c] # <<>>
        BY DEF Hands, Typed, TypeOK, FifoTypeOK
      <3>2. QED
        BY <3>1, Shortened, MesgTypes
    <2>2. Delivered'
      BY <1>1, <1>4, <2>1, BeginDelivered DEF Roomed, BeginBroadcast, Running
    <2>3. Level'
      BY <1>1, <1>4, <2>1, BeginLevel DEF Roomed, Running
    <2>4. QED
      BY <1>2, <1>3, <2>2, <2>3 DEF Roomed
  <1>5. CASE spc' = "rmClose" /\ log' = log
    <2>1. \A d : Place(d)' = Place(d) /\ Reach(d)' = Reach(d)
      BY <1>1 DEF Reach, Place
    <2>2. Delivered'
      BY <1>1, <1>5, <2>1 DEF Roomed, Delivered, Running, Departed
    <2>3. Level'
      BY <1>1, <1>5, <2>1 DEF Roomed, Level, Running
    <2>4. QED
      BY <1>2, <1>3, <2>2, <2>3 DEF Roomed
  <1>6. QED
    BY <1>4, <1>5 DEF Hands

(* The server goes on with the broadcast: the client it has come to is     *)
(* written the last message of the log, which is not its own DEPARTED.     *)
LEMMA TellsKeep ==
  ASSUME Typed, Array, Requests, Roomed, Tells, UNCHANGED clientVars
  PROVE  Roomed'
  <1>1. /\ UNCHANGED <<toServer, tcR, tcW, from, heard, log, sent, seen, userpc>>
        /\ UNCHANGED <<spc, mesg, n_clients, client>>
        /\ spc = "bcast" /\ k < n_clients /\ k' = k + 1
    BY DEF Tells, Push, SameEnds, SameArray, SameHistory, clientVars
  <1>2. Said'
    BY <1>1 DEF Roomed, Said, Past, Departing
  <1>3. Carried'
    BY <1>1, MailKept DEF Roomed, Running, Removing
  <1>4. k \in Used /\ n_clients \in Nat /\ k \in Nat
    BY <1>1 DEF Used, Typed, TypeOK, ServerTypeOK
  <1>a. PICK c \in Clients : c = client[k]
    BY <1>4 DEF Typed, Registers
  <1>5. /\ c \in Members /\ from[c] # 0 /\ c \in tcR
        /\ toClient' = [toClient EXCEPT ![c] = Append(@, mesg)]
    BY <1>4, <1>a DEF Members, Requests, Tells, Push
  <1>6. /\ toClient[c] \in Seq(Mesg) /\ log \in Seq(Mesg) /\ mesg \in Mesg
    BY <1>1, <1>5, MesgTypes DEF Typed, TypeOK, FifoTypeOK, ServerTypeOK, Registers
  <1>7. /\ toClient'[c] = Append(toClient[c], mesg)
        /\ \A d \in Clients : d # c => toClient'[d] = toClient[d]
    BY <1>5 DEF Typed, TypeOK, FifoTypeOK
  <1>8. /\ Len(toClient'[c]) = Len(toClient[c]) + 1 /\ Len(toClient[c]) \in Nat
        /\ toClient'[c][Len(toClient[c]) + 1] = mesg
        /\ \A j \in 1 .. Len(toClient[c]) : toClient'[c][j] = toClient[c][j]
    BY <1>6, <1>7, Appended
  <1>9. /\ log # <<>> /\ mesg = log[Len(log)] /\ Reach(c) = Len(log)
        /\ mesg.kind = "DEPARTED" => mesg.name \notin Members
    BY <1>1, <1>4, <1>5, <1>a DEF Roomed, Level
  <1>10. mesg # ShutdownMesg /\ mesg # Departed(c)
    <2>1. mesg \in ClientMesg \cup ServerMesg
      BY <1>1 DEF Typed, Registers
    <2>2. mesg # ShutdownMesg
      BY <2>1 DEF ClientMesg, ServerMesg, ShutdownMesg
    <2>3. mesg # Departed(c)
      BY <1>5, <1>9 DEF Departed
    <2>4. QED
      BY <2>2, <2>3
  <1>11. Place(c) \in Nat /\ Place(c) + Len(toClient[c]) = Len(log) /\ Len(log) \in Nat
    BY <1>5, <1>6, <1>9, PlaceNat DEF Reach
  <1>12. \A d : Place(d)' = Place(d)
    BY <1>1 DEF Place
  <1>13. HasBeenTold(c)'
    <2>1. HasBeenTold(c)
      BY <1>5 DEF Roomed, Delivered, HasBeenTold
    <2>2. \A j \in 1 .. Len(toClient[c]) :
            /\ Place(c) + j - 1 <= Len(log)
            /\ toClient[c][j] = log[Place(c) + j - 1]
            /\ toClient[c][j] # Departed(c) /\ toClient[c][j] # ShutdownMesg
      BY <1>1, <2>1 DEF HasBeenTold, Running
    <2>3. LET j == Len(toClient[c]) + 1
          IN  Place(c) + j - 1 = Len(log)
      BY <1>8, <1>11
    <2>4. \A j \in 1 .. Len(toClient'[c]) :
            j \in 1 .. Len(toClient[c]) \/ j = Len(toClient[c]) + 1
      BY <1>8
    <2>5. ASSUME NEW j \in 1 .. Len(toClient'[c])
          PROVE  /\ Place(c) + j - 1 <= Len(log)
                 /\ toClient'[c][j] = log[Place(c) + j - 1]
                 /\ toClient'[c][j] # Departed(c) /\ toClient'[c][j] # ShutdownMesg
      <3>1. CASE j \in 1 .. Len(toClient[c])
        BY <1>8, <2>2, <3>1
      <3>2. CASE j = Len(toClient[c]) + 1
        BY <1>8, <1>9, <1>10, <1>11, <2>3, <3>2
      <3>3. QED
        BY <2>4, <3>1, <3>2
    <2>6. QED
      BY <1>1, <1>5, <1>12, <2>5 DEF HasBeenTold, Departed, ShutdownMesg
  <1>14. Delivered'
    <2>1. \A d \in Clients : d # c => (HasBeenTold(d) => HasBeenTold(d)')
      BY <1>1, <1>7, <1>12 DEF HasBeenTold, Departed
    <2>2. QED
      BY <1>13, <2>1 DEF Roomed, Delivered, HasBeenTold
  <1>15. Level'
    <2>1. \A a, b \in Used : client[a] = client[b] => a = b
      BY <1>1, IntactPlain DEF Intact, Plain, Running
    <2>2. Used' = Used /\ Members' = Members
      BY <1>1 DEF Used, Members
    <2>3. Reach(c)' = Len(log) + 1
      BY <1>8, <1>11, <1>12 DEF Reach
    <2>4. \A d \in Clients : d # c => Reach(d)' = Reach(d)
      BY <1>7, <1>12 DEF Reach
    <2>5. ASSUME NEW j \in Used, NEW d \in Clients, d = client[j], d \in tcR
          PROVE  Reach(d)' = IF j < k + 1 THEN Len(log) + 1 ELSE Len(log)
      <3>1. CASE j = k
        BY <1>4, <1>a, <2>3, <2>5, <3>1
      <3>2. CASE j # k
        <4>1. d # c
          BY <1>4, <1>a, <2>1, <2>5, <3>2
        <4>2. Reach(d) = IF j < k THEN Len(log) + 1 ELSE Len(log)
          BY <1>1, <2>5 DEF Roomed, Level
        <4>3. j < k + 1 <=> j < k
          BY <1>4, <3>2 DEF Used
        <4>4. QED
          BY <2>4, <4>1, <4>2, <4>3
      <3>3. QED
        BY <3>1, <3>2
    <2>6. \A j \in Used' : client[j]' \in tcR' =>
            Reach(client[j])' = IF j < k' THEN Len(log') + 1 ELSE Len(log')
      BY <1>1, <2>2, <2>5 DEF Typed, Registers, Reach, Place
    <2>7. QED
      BY <1>1, <1>9, <2>2, <2>6 DEF Level
  <1>16. QED
    BY <1>2, <1>3, <1>14, <1>15 DEF Roomed

(* The handler writes SHUTDOWN.                                            *)
LEMMA ShutsKeep ==
  ASSUME Typed, Requests, Roomed, Shuts, UNCHANGED clientVars
  PROVE  Roomed'
  <1>1. /\ UNCHANGED <<log, from, heard, sent, seen, userpc, spc>> /\ spc = "sdWrite"
    BY DEF Shuts, SameHistory, clientVars
  <1>2. spc \notin Starting \cup Running
    BY <1>1 DEF Starting, Running
  <1>3. Said' /\ Carried' /\ Level'
    BY <1>1, <1>2 DEF Roomed, Said, Past, Departing, Carried, Level, Removing,
                      Running
  <1>4. i \in Used
    BY DEF Shuts, InLoop, Used, Typed, TypeOK, ServerTypeOK
  <1>a. PICK c \in Clients : c = client[i]
    BY <1>4 DEF Typed, Registers
  <1>5. /\ from[c] # 0
        /\ toClient' = [toClient EXCEPT ![c] = Append(@, ShutdownMesg)]
    BY <1>4, <1>a DEF Requests, Shuts, Push
  <1>6. /\ toClient[c] \in Seq(Mesg) /\ ShutdownMesg \in Mesg
        /\ toClient'[c] = Append(toClient[c], ShutdownMesg)
        /\ \A d \in Clients : d # c => toClient'[d] = toClient[d]
    BY <1>5, MesgTypes DEF Typed, TypeOK, FifoTypeOK
  <1>7. /\ Len(toClient'[c]) = Len(toClient[c]) + 1 /\ Len(toClient[c]) \in Nat
        /\ toClient'[c][Len(toClient[c]) + 1] = ShutdownMesg
        /\ \A j \in 1 .. Len(toClient[c]) : toClient'[c][j] = toClient[c][j]
    BY <1>6, Appended
  <1>8. \A d : Place(d)' = Place(d)
    BY <1>1 DEF Place
  <1>9. HasBeenTold(c)
    BY <1>5 DEF Roomed, Delivered, HasBeenTold
  <1>10. ASSUME NEW j \in 1 .. Len(toClient'[c])
         PROVE  IF toClient'[c][j] = ShutdownMesg
                  THEN \A h \in j .. Len(toClient'[c]) : toClient'[c][h] = ShutdownMesg
                  ELSE /\ Place(c) + j - 1 <= Len(log)
                       /\ toClient'[c][j] = log[Place(c) + j - 1]
                       /\ toClient'[c][j] # Departed(c)
    <2>1. CASE j = Len(toClient[c]) + 1
      BY <1>7, <2>1
    <2>2. CASE j \in 1 .. Len(toClient[c])
      <3>1. toClient'[c][j] = toClient[c][j]
        BY <1>7, <2>2
      <3>2. CASE toClient[c][j] = ShutdownMesg
        <4>1. \A h \in j .. Len(toClient[c]) : toClient[c][h] = ShutdownMesg
          BY <1>9, <2>2, <3>2 DEF HasBeenTold
        <4>2. ASSUME NEW h \in j .. Len(toClient'[c])
              PROVE  \/ h = Len(toClient[c]) + 1
                     \/ h \in j .. Len(toClient[c]) /\ h \in 1 .. Len(toClient[c])
          BY <1>7, <2>2
        <4>3. QED
          BY <1>7, <3>1, <3>2, <4>1, <4>2
      <3>3. CASE toClient[c][j] # ShutdownMesg
        BY <1>9, <2>2, <3>1, <3>3 DEF HasBeenTold
      <3>4. QED
        BY <3>2, <3>3
    <2>3. QED
      BY <1>7, <2>1, <2>2
  <1>11. HasBeenTold(c)'
    BY <1>1, <1>2, <1>5, <1>8, <1>10 DEF HasBeenTold, Departed, ShutdownMesg
  <1>12. \A d \in Clients : d # c => (HasBeenTold(d) => HasBeenTold(d)')
    BY <1>1, <1>6, <1>8 DEF HasBeenTold, Departed
  <1>13. Delivered'
    BY <1>11, <1>12 DEF Roomed, Delivered, HasBeenTold
  <1>14. QED
    BY <1>3, <1>13 DEF Roomed

(* A client and the server open a FIFO together: nothing is in it, and the *)
(* client is not let in yet.                                               *)
LEMMA MeetKeeps ==
  ASSUME Typed, Requests, Roomed, NEW c \in Clients, Meet(c)
  PROVE  Roomed'
  <1>1. /\ UNCHANGED <<toServer, toClient, log, from, heard, sent, seen, userpc>>
        /\ spc \in {"openTC", "openTS"} /\ spc' \in {"openTS", "append"}
        /\ join = c
    BY DEF Meet, OpenToClient, OpenToServer, OnlyMain, SameThreads,
           SameClientHistory, SameHistory
  <1>2. from[c] = 0
    BY <1>1 DEF Requests, Opening
  <1>3. tcW' \subseteq tcW \cup {c} /\ tcR' \subseteq tcR \cup {c}
    BY DEF Meet, OpenToClient, OpenToServer
  <1>4. Said'
    BY <1>1 DEF Roomed, Said, Past, Departing
  <1>5. Carried'
    BY <1>1, MailKept DEF Roomed, Running, Removing
  <1>6. \A d : Place(d)' = Place(d) /\ Reach(d)' = Reach(d)
    BY <1>1 DEF Place, Reach
  <1>7. Delivered'
    BY <1>1, <1>6 DEF Roomed, Delivered, Running, Departed
  <1>8. Level'
    BY <1>1, <1>2, <1>3, <1>6 DEF Roomed, Level, Running
  <1>9. QED
    BY <1>4, <1>5, <1>7, <1>8 DEF Roomed

(* It is so in an empty room.                                              *)
LEMMA RoomedInit == Init => Roomed
  <1> SUFFICES ASSUME Init PROVE Roomed
    OBVIOUS
  <1>1. /\ spc = "remove"
        /\ \A c \in Clients :
             sent[c] = <<>> /\ seen[c] = <<>> /\ toServer[c] = <<>>
               /\ toClient[c] = <<>> /\ from[c] = 0 /\ heard[c] = 0
    BY DEF Init, FifoInit, ServerInit, ClientInit
  <1>2. \A c \in Clients : InTransit(c) = 0
    BY <1>1 DEF InTransit, Removing
  <1>3. Said
    BY <1>1 DEF Said, Departing
  <1>4. Carried
    BY <1>1, <1>2 DEF Carried, Removing
  <1>5. Delivered
    BY <1>1 DEF Delivered
  <1>6. Level
    BY <1>1 DEF Level, Running
  <1>7. QED
    BY <1>3, <1>4, <1>5, <1>6 DEF Roomed

(* Roomed is inductive on top of Inv and Departures.                       *)
LEMMA RoomedNext ==
  ASSUME Inv, Inv', Endings, Departures, Roomed, [Next]_vars
  PROVE  Roomed'
  <1>a. Typed /\ Array /\ Array' /\ Requests /\ Requests' /\ Threads
    BY DEF Typed, Inv, Endings
  <1>b. Words /\ Leaver /\ Present
    BY DEF Departures
  <1>1. CASE Server
    BY <1>1, <1>a, <1>b, ServerMoves, IdlesKeep, TellsKeep, ShutsKeep, AddKeeps,
       EndKeeps, NamesKeep, HandsKeep DEF Server
  <1>2. ASSUME NEW s \in Signals, Signal(s) PROVE Roomed'
    BY <1>2, <1>a, <1>b, SignalIdles, IdlesKeep DEF Signal
  <1>3. ASSUME NEW c \in Clients, Meet(c) PROVE Roomed'
    BY <1>3, <1>a, MeetKeeps
  <1>4. ASSUME NEW c \in Clients, Client(c) \/ Killed(c) PROVE Roomed'
    <2>1. (ClientStep(c) \/ Kill(c)) /\ UNCHANGED serverVars
      BY <1>4 DEF Client, Killed
    <2>2. Steady /\ tcW' = tcW
      BY <1>a, <1>b, <2>1, ClientSteady, ClientUndisturbed DEF Undisturbed
    <2>3. Writes(c) \/ Reads(c) \/ Hears(c) \/ Rests(c)
      BY <1>a, <2>1, ClientMoves
    <2>4. Said' /\ Carried'
      BY <1>a, <2>1, <2>2, <2>3, WritesKeep, SilentKeep
      DEF Roomed, Reads, Hears, Rests
    <2>5. Delivered' /\ Level'
      BY <1>a, <2>1, <2>2, <2>3, ReadingKeeps DEF Roomed
    <2>6. QED
      BY <2>4, <2>5 DEF Roomed
  <1>5. CASE UNCHANGED vars
    <2>1. /\ UNCHANGED <<toServer, toClient, tcW, tcR, sent, seen, userpc>>
          /\ UNCHANGED <<spc, n_clients, client, i, k, mesg, from, heard, log>>
      BY <1>5 DEF vars, fifoVars, serverVars, clientVars
    <2>2. Said' /\ Carried'
      BY <2>1 DEF Roomed, Said, Carried, Past, Departing, InTransit
    <2>3. \A d : Place(d)' = Place(d) /\ Reach(d)' = Reach(d)
      BY <2>1 DEF Place, Reach
    <2>4. Delivered'
      BY <2>1, <2>3 DEF Roomed, Delivered, Departed
    <2>5. Level'
      BY <2>1, <2>3 DEF Roomed, Level, Members, Used
    <2>6. QED
      BY <2>2, <2>4, <2>5 DEF Roomed
  <1>6. QED
    BY <1>1, <1>2, <1>3, <1>4, <1>5 DEF Next

-----------------------------------------------------------------------------
(* What a client does, the room does too.                                  *)
LEMMA ClientInRoom ==
  ASSUME Typed, Roomed, NEW c \in Clients, UNCHANGED serverVars,
         Writes(c) \/ Reads(c) \/ Hears(c) \/ Rests(c)
  PROVE  Room!Next \/ UNCHANGED Room!vars
  <1>1. UNCHANGED <<log, from, heard>>
    BY DEF serverVars
  <1>2. CASE Writes(c)
    <2>1. PICK m \in ClientMesg :
            /\ m = Line(c, Len(sent[c]) + 1) \/ m = Departed(c)
            /\ sent' = [sent EXCEPT ![c] = Append(@, m)]
      BY <1>2 DEF Writes
    <2>2. ~Room!Departing(c)
      <3>1. ~Departing(c)
        BY <1>2 DEF Writes, Roomed, Said
      <3>2. sent[c] \in Seq(ClientMesg)
        BY DEF Typed, TypeOK, ClientTypeOK
      <3>3. DOMAIN sent[c] = 1 .. Len(sent[c])
        BY <3>2
      <3>4. QED
        BY <3>1, <3>3 DEF Roomed, Said, Departing, Room!Departing
    <2>3. CASE m = Line(c, Len(sent[c]) + 1)
      <3>1. Room!Say(c)
        BY <1>1, <1>2, <2>1, <2>2, <2>3 DEF Room!Say, Room!Mesg, Line, Writes
      <3>2. QED
        BY <3>1 DEF Room!Next
    <2>4. CASE m = Departed(c)
      <3>1. Room!Leave(c)
        BY <1>1, <1>2, <2>1, <2>2, <2>4 DEF Room!Leave, Room!Mesg, Departed, Writes
      <3>2. QED
        BY <3>1 DEF Room!Next
    <2>5. QED
      BY <2>1, <2>3, <2>4
  <1>3. CASE Reads(c)
    <2>1. toClient[c] \in Seq(Mesg) /\ toClient[c] # <<>> /\ toClient[c][1] # ShutdownMesg
      BY <1>3 DEF Reads, Typed, TypeOK, FifoTypeOK
    <2>2. 1 \in 1 .. Len(toClient[c])
      BY <2>1
    <2>3. /\ from[c] # 0 /\ Place(c) + 1 - 1 <= Len(log)
          /\ toClient[c][1] = log[Place(c) + 1 - 1]
          /\ toClient[c][1] # Departed(c)
      BY <2>1, <2>2 DEF Roomed, Delivered
    <2>4. Place(c) + 1 - 1 = Place(c)
      BY PlaceNat
    <2>5. Room!See(c)
      BY <1>1, <1>3, <2>3, <2>4
      DEF Room!See, Room!Mesg, Departed, Place, Reads
    <2>6. QED
      BY <2>5 DEF Room!Next
  <1>4. CASE Hears(c) \/ Rests(c)
    BY <1>1, <1>4 DEF Hears, Rests, Room!vars
  <1>5. QED
    BY <1>2, <1>3, <1>4

(* What the server does, the room does too.                                *)
LEMMA ServerInRoom ==
  ASSUME Typed, Requests, Words, Leaver, Roomed, ServerStep, UNCHANGED clientVars
  PROVE  Room!Next \/ UNCHANGED Room!vars
  <1>1. UNCHANGED <<sent, seen>>
    BY DEF clientVars
  <1>2. CASE Idles \/ Tells \/ Shuts
    BY <1>1, <1>2 DEF Idles, Tells, Shuts, SameHistory, Room!vars
  <1>3. CASE AddClient
    <2>1. join \in Clients /\ from[join] = 0
      BY <1>3 DEF AddClient, Requests, Opening, Typed, Registers
    <2>2. log \in Seq(Mesg) /\ Joined(join) \in Mesg
      BY <2>1, MesgTypes DEF Typed, TypeOK, ServerTypeOK
    <2>3. log' = Append(log, Joined(join)) /\ Len(log') = Len(log) + 1
      BY <1>3, <2>2, Appended DEF AddClient, BeginBroadcast
    <2>4. Room!LetIn(join)
      BY <1>1, <1>3, <2>1, <2>3 DEF AddClient, Room!LetIn, Room!Mesg, Joined
    <2>5. QED
      BY <2>1, <2>4 DEF Room!Next
  <1>4. CASE RemoveEnd
    <2>1. /\ spc = "rmShift" /\ log' = Append(log, mesg) /\ from' = from
          /\ heard' = [heard EXCEPT ![mesg.name] = @ + 1]
      BY <1>4 DEF RemoveEnd, BeginBroadcast, Hear
    <2>2. mesg.name \in Clients
      BY <2>1, MesgTypes DEF Typed, Registers, Removing
    <2>3. PICK c \in Clients : c = mesg.name
      BY <2>2
    <2>4. from[c] # 0 /\ mesg = sent[c][heard[c] + 1] /\ MailOf(c) /\ InTransit(c) = 1
      BY <2>1, <2>3 DEF Roomed, Carried, MailOf, InTransit, Removing, Running
    <2>5. heard[c] < Len(sent[c])
      <3>1. heard[c] \in Nat /\ Len(toServer[c]) \in Nat
        BY DEF Typed, TypeOK, ServerTypeOK, FifoTypeOK
      <3>2. Len(sent[c]) = heard[c] + 1 + Len(toServer[c])
        BY <2>4 DEF MailOf
      <3>3. QED
        BY <3>1, <3>2
    <2>6. Room!Announce(c)
      BY <1>1, <2>1, <2>3, <2>4, <2>5 DEF Room!Announce
    <2>7. QED
      BY <2>6 DEF Room!Next
  <1>5. ASSUME NEW c \in Clients \cup {NoClient}, Names(c)
        PROVE  Room!Next
    <2>1. Room!AnnounceOnly(c)
      BY <1>1, <1>5
      DEF Names, Begins, BeginBroadcast, Joined, Room!AnnounceOnly, Room!Mesg
    <2>2. QED
      BY <2>1 DEF Room!Next
  <1>6. ASSUME NEW c \in Clients, Hands(c)
        PROVE  Room!Next \/ UNCHANGED Room!vars
    <2>1. /\ spc = "serve" /\ i \in Used /\ c = client[i] /\ from' = from
          /\ toServer[c] \in Seq(ClientMesg) /\ toServer[c] # <<>>
      BY <1>6 DEF Hands, Typed, TypeOK, FifoTypeOK
    <2>2. from[c] # 0
      BY <2>1 DEF Requests
    <2>3. MailOf(c) /\ InTransit(c) = 0 /\ heard[c] \in Nat
      BY <2>1 DEF Roomed, Carried, MailOf, InTransit, Removing, Running, Typed,
                  TypeOK, ServerTypeOK
    <2>4. /\ Len(toServer[c]) \in Nat \ {0} /\ 1 \in 1 .. Len(toServer[c])
          /\ Head(toServer[c]) = toServer[c][1]
      BY <2>1
    <2>5. /\ Len(sent[c]) = heard[c] + 0 + Len(toServer[c])
          /\ toServer[c][1] = sent[c][heard[c] + 0 + 1]
      BY <2>3, <2>4 DEF MailOf
    <2>6. heard[c] < Len(sent[c]) /\ heard[c] + 0 + 1 = heard[c] + 1
      BY <2>3, <2>4, <2>5
    <2>7. CASE BeginBroadcast(Head(toServer[c])) /\ Hear(c)
      <3>1. Room!Announce(c)
        BY <1>1, <2>1, <2>2, <2>4, <2>5, <2>6, <2>7
        DEF Room!Announce, BeginBroadcast, Hear
      <3>2. QED
        BY <3>1 DEF Room!Next
    <2>8. CASE UNCHANGED <<log, heard>>
      BY <1>1, <2>1, <2>8 DEF Room!vars
    <2>9. QED
      BY <1>6, <2>7, <2>8 DEF Hands
  <1>7. QED
    BY <1>2, <1>3, <1>4, <1>5, <1>6, ServerMoves

(* The service implements the room: however joins, departures, kills and   *)
(* signals fall, everybody who was let in reads the one log of the server  *)
(* from its own JOINED on, without a gap and in order, and that log has of *)
(* each client what it wrote, in order and once (server_broadcast,         *)
(* server_handle_client, server_to_user).                                  *)
THEOREM ImplementsRoom == Spec => RoomSpec
  <1>1. Init => Room!Init
    BY DEF Init, ServerInit, ClientInit, Room!Init
  <1>2. ASSUME Inv, Departures, Endings, Roomed, [Next]_vars
        PROVE  [Room!Next]_(Room!vars)
    <2>1. Typed /\ Requests /\ Threads /\ Words /\ Leaver
      BY <1>2 DEF Inv, Typed, Departures, Endings
    <2>2. CASE Server
      BY <1>2, <2>1, <2>2, ServerInRoom DEF Server
    <2>3. ASSUME NEW c \in Clients, Client(c) \/ Killed(c)
          PROVE  Room!Next \/ UNCHANGED Room!vars
      BY <1>2, <2>1, <2>3, ClientMoves, ClientInRoom DEF Client, Killed
    <2>4. ASSUME NEW s \in Signals, Signal(s) PROVE UNCHANGED Room!vars
      BY <2>4 DEF Signal, TakeSignal, SameHistory, clientVars, Room!vars
    <2>5. ASSUME NEW c \in Clients, Meet(c) PROVE UNCHANGED Room!vars
      BY <2>5 DEF Meet, OpenToClient, OpenToServer, OnlyMain,
                  SameClientHistory, SameHistory, Room!vars
    <2>6. CASE UNCHANGED vars
      BY <2>6 DEF vars, serverVars, clientVars, Room!vars
    <2>7. QED
      BY <1>2, <2>2, <2>3, <2>4, <2>5, <2>6 DEF Next
  <1>3. Inv /\ Departures /\ Endings /\ Roomed /\ [Next]_vars => [Room!Next]_(Room!vars)
    BY <1>2
  <1>4. Inv /\ Inv' /\ Endings /\ Departures /\ Roomed /\ [Next]_vars => Roomed'
    BY RoomedNext
  <1>5. QED
    BY <1>1, <1>3, <1>4, RoomedInit, ThroughoutHolds, PTL DEF Spec, RoomSpec, Room!Spec
-----------------------------------------------------------------------------
(* Who counts for the array when a name is announced: the log itself tells *)
(* who has been let in and not departed, and these are the clients of the  *)
(* array and the one that is being removed.                                *)
Logged(c) == \E o \in 1 .. Len(log) : log[o] = Departed(c)
Listed ==
  /\ spc \in Starting => log = <<>>
  /\ spc \in Running =>
       \A c \in Clients :
         /\ from[c] = 0 => ~Logged(c)
         /\ from[c] # 0 =>
              (~Logged(c) <=> c \in tcW \/ (spc \in Removing /\ mesg.name = c))

Chronicle == \A c \in Clients : from[c] <= Len(log)

(* A message enters the log.                                               *)
LEMMA LoggedMore ==
  ASSUME Typed, NEW m \in Mesg, log' = Append(log, m)
  PROVE  /\ \A c : Logged(c)' <=> Logged(c) \/ m = Departed(c)
         /\ Len(log') = Len(log) + 1 /\ Len(log) \in Nat
         /\ \A n \in 1 .. Len(log) : log'[n] = log[n]
         /\ log'[Len(log) + 1] = m /\ DOMAIN log' = 1 .. Len(log) + 1
         /\ DOMAIN log = 1 .. Len(log)
  <1>1. log \in Seq(Mesg)
    BY DEF Typed, TypeOK, ServerTypeOK
  <1>2. /\ Len(log') = Len(log) + 1 /\ Len(log) \in Nat
        /\ \A n \in 1 .. Len(log) : log'[n] = log[n]
        /\ log'[Len(log) + 1] = m
    BY <1>1, Appended
  <1>3. DOMAIN log' = 1 .. Len(log) + 1 /\ DOMAIN log = 1 .. Len(log)
    BY <1>1
  <1>4. ASSUME NEW c PROVE Logged(c)' <=> Logged(c) \/ m = Departed(c)
    <2>1. \A o \in 1 .. Len(log') : o \in 1 .. Len(log) \/ o = Len(log) + 1
      BY <1>2
    <2>2. \A o \in 1 .. Len(log) : o \in 1 .. Len(log')
      BY <1>2
    <2>3. Len(log) + 1 \in 1 .. Len(log')
      BY <1>2
    <2>4. QED
      BY <1>2, <2>1, <2>2, <2>3 DEF Logged, Departed
  <1>5. QED
    BY <1>2, <1>3, <1>4

(* The slots of an intact array are as many as the clients in it.          *)
LEMMA AsManyMembers ==
  ASSUME Typed, \A a, b \in Used : client[a] = client[b] => a = b
  PROVE  Cardinality(Members) = n_clients
  <1>1. n_clients \in Nat
    BY MaxClientsAssumption DEF Typed, TypeOK, ServerTypeOK
  <1>2. IsFiniteSet(Used) /\ Cardinality(Used) = n_clients
    BY <1>1, FS_Interval DEF Used
  <1> DEFINE f == [j \in Used |-> client[j]]
  <1>3. f \in Bijection(Used, Members)
    BY DEF Bijection, Injection, Surjection, IsInjective, Members
  <1>4. ExistsBijection(Used, Members)
    BY <1>3 DEF ExistsBijection
  <1>5. QED
    BY <1>2, <1>4, FS_Bijection

-----------------------------------------------------------------------------
(* Whom the log up to n counts for the array.                              *)
Counted(n) ==
  {d \in Clients : from[d] \in 1 .. n - 1 /\ ~Before(n, Departed(d))}

(* A message behind it does not change that.                               *)
LEMMA CountedSame ==
  ASSUME Typed, NEW m \in Mesg, log' = Append(log, m),
         \A c \in Clients :
           from'[c] = from[c] \/ (from[c] = 0 /\ from'[c] = Len(log) + 1),
         NEW n \in 1 .. Len(log) + 1
  PROVE  Counted(n)' = Counted(n)
  <1>1. Len(log) \in Nat /\ \A o \in 1 .. Len(log) : log'[o] = log[o]
    BY LoggedMore
  <1>2. \A o \in 1 .. n - 1 : o \in 1 .. Len(log)
    BY <1>1
  <1>3. \A d : Before(n, Departed(d))' <=> Before(n, Departed(d))
    BY <1>1, <1>2 DEF Before, Departed
  <1>4. ASSUME NEW d \in Clients
        PROVE  from'[d] \in 1 .. n - 1 <=> from[d] \in 1 .. n - 1
    BY <1>1
  <1>5. QED
    BY <1>3, <1>4 DEF Counted

(* A message enters the log that is no refusal, or one of the full array.  *)
LEMMA RefusedMore ==
  ASSUME Typed, Chronicle, RefusedWhenFull, NEW m \in Mesg,
         log' = Append(log, m),
         \A c \in Clients :
           from'[c] = from[c] \/ (from[c] = 0 /\ from'[c] = Len(log) + 1),
         m.kind = "JOINED" =>
           \/ m.name \in Clients /\ from'[m.name] = Len(log) + 1
           \/ Cardinality(Counted(Len(log) + 1)) = MaxClients
  PROVE  RefusedWhenFull' /\ Chronicle'
  <1>1. /\ Len(log') = Len(log) + 1 /\ Len(log) \in Nat
        /\ \A n \in 1 .. Len(log) : log'[n] = log[n]
        /\ log'[Len(log) + 1] = m /\ DOMAIN log' = 1 .. Len(log) + 1
        /\ DOMAIN log = 1 .. Len(log)
    BY LoggedMore
  <1>2. \A n \in 1 .. Len(log) + 1 : Counted(n)' = Counted(n)
    BY CountedSame
  <1>3. ASSUME NEW n \in 1 .. Len(log) + 1, log'[n].kind = "JOINED",
               log'[n].name \in Clients => from'[log'[n].name] # n
        PROVE  Cardinality(Counted(n)) = MaxClients
    <2>1. CASE n \in 1 .. Len(log)
      <3>1. log'[n] = log[n] /\ n \in DOMAIN log
        BY <1>1, <2>1
      <3>2. log[n].name \in Clients => from[log[n].name] # n
        BY <1>1, <1>3, <2>1, <3>1
      <3>3. QED
        BY <1>3, <3>1, <3>2 DEF RefusedWhenFull, Counted
    <2>2. CASE n = Len(log) + 1
      <3>1. log'[n] = m
        BY <1>1, <2>2
      <3>2. m.kind = "JOINED" /\ (m.name \in Clients => from'[m.name] # n)
        BY <1>3, <3>1
      <3>3. Cardinality(Counted(Len(log) + 1)) = MaxClients
        BY <2>2, <3>2
      <3>4. QED
        BY <2>2, <3>3
    <2>3. QED
      BY <1>1, <2>1, <2>2
  <1>4. RefusedWhenFull'
    <2>1. ASSUME NEW n \in DOMAIN log', log'[n].kind = "JOINED",
                 log'[n].name \in Clients => from'[log'[n].name] # n
          PROVE  Cardinality(Counted(n)') = MaxClients
      BY <1>1, <1>2, <1>3, <2>1
    <2>2. QED
      BY <2>1 DEF RefusedWhenFull, Counted
  <1>5. Chronicle'
    <2>1. ASSUME NEW c \in Clients PROVE from'[c] <= Len(log')
      <3>1. from[c] \in Nat
        BY DEF Typed, TypeOK, ServerTypeOK
      <3>2. from[c] <= Len(log)
        BY DEF Chronicle
      <3>3. from'[c] = from[c] \/ from'[c] = Len(log) + 1
        OBVIOUS
      <3>4. QED
        BY <1>1, <3>1, <3>2, <3>3
    <2>2. QED
      BY <2>1 DEF Chronicle
  <1>6. QED
    BY <1>4, <1>5

(* At the full array these are as many as the array has slots.             *)
LEMMA CountedFull ==
  ASSUME Typed, Array, Requests, Listed, Chronicle, spc = "join", Full
  PROVE  Cardinality(Counted(Len(log) + 1)) = MaxClients
  <1>1. /\ Members = tcW /\ \A a, b \in Used : client[a] = client[b] => a = b
    BY IntactPlain DEF Intact, Plain, Running
  <1>2. Len(log) \in Nat /\ from \in [Clients -> Nat]
    BY DEF Typed, TypeOK, ServerTypeOK
  <1>3. \A c \in Clients : from[c] \in 1 .. Len(log) + 1 - 1 <=> from[c] # 0
    BY <1>2 DEF Chronicle
  <1>4. \A c : Before(Len(log) + 1, Departed(c)) <=> Logged(c)
    <2>1. Len(log) + 1 - 1 = Len(log)
      BY <1>2
    <2>2. QED
      BY <2>1 DEF Before, Logged
  <1>5. \A c \in Members : c \in Clients /\ from[c] # 0
    BY DEF Members, Requests, Typed, Registers
  <1>6. \A c \in Clients : from[c] # 0 => (~Logged(c) <=> c \in tcW)
    BY DEF Listed, Running, Removing
  <1>7. Counted(Len(log) + 1) = Members
    BY <1>1, <1>3, <1>4, <1>5, <1>6 DEF Counted
  <1>8. QED
    BY <1>1, <1>7, AsManyMembers DEF Full

-----------------------------------------------------------------------------
Recorded == Listed /\ Chronicle /\ RefusedWhenFull

(* In the beginning the log is empty.                                      *)
LEMMA RecordedInit == Init => Recorded
  <1> SUFFICES ASSUME Init PROVE Recorded
    OBVIOUS
  <1>1. /\ log = <<>> /\ spc = "remove" /\ \A c \in Clients : from[c] = 0
        /\ Len(log) = 0 /\ DOMAIN log = {}
    BY DEF Init, ServerInit
  <1>2. QED
    BY <1>1 DEF Recorded, Listed, Chronicle, RefusedWhenFull, Running

(* Where nothing enters the log.                                           *)
LEMMA RecordedKept ==
  ASSUME Recorded, log' = log, from' = from,
         spc' \in Starting => spc \in Starting,
         spc' \in Running =>
           \A c \in Clients :
             /\ from[c] = 0 => ~Logged(c)
             /\ from[c] # 0 =>
                  (~Logged(c) <=> c \in tcW' \/ (spc' \in Removing /\ mesg'.name = c))
  PROVE  Recorded'
  <1>1. \A c : Logged(c)' <=> Logged(c)
    BY DEF Logged, Departed
  <1>2. Listed'
    BY <1>1 DEF Recorded, Listed
  <1>3. Chronicle'
    BY DEF Recorded, Chronicle
  <1>4. RefusedWhenFull'
    BY DEF Recorded, RefusedWhenFull, Before, Departed
  <1>5. QED
    BY <1>2, <1>3, <1>4 DEF Recorded

(* A step of the server, or a signal, that announces nothing.              *)
LEMMA IdlesRecorded ==
  ASSUME Typed, Leaver, Present, Recorded, Idles
  PROVE  Recorded'
  <1>1. log' = log /\ from' = from
    BY DEF Idles, SameHistory
  <1>2. spc' \in Starting => spc \in Starting
    BY DEF Idles
  <1>3. CASE spc \in Starting
    <2>1. \A c \in Clients : from[c] = 0 /\ ~Logged(c)
      BY <1>3 DEF Present, Recorded, Listed, Logged
    <2>2. QED
      BY <1>1, <1>2, <2>1, RecordedKept
  <1>4. CASE spc \in Running
    <2>1. ASSUME spc' \in Running, NEW c \in Clients
          PROVE  /\ from[c] = 0 => ~Logged(c)
                 /\ from[c] # 0 =>
                      (~Logged(c) <=> c \in tcW' \/ (spc' \in Removing /\ mesg'.name = c))
      <3>1. /\ spc \in Removing <=> spc' \in Removing
            /\ spc \in Removing => mesg' = mesg
        BY <2>1 DEF Idles
      <3>2. \/ tcW' = tcW
            \/ spc = "rmClose" /\ tcW' = tcW \ {client[i]}
        BY <1>4, <2>1 DEF Idles, Starting, Running
      <3>3. spc = "rmClose" => client[i] = mesg.name /\ spc \in Removing
        BY DEF Leaver, Removing
      <3>4. QED
        BY <1>4, <3>1, <3>2, <3>3 DEF Recorded, Listed
    <2>2. QED
      BY <1>1, <1>2, <2>1, RecordedKept
  <1>5. CASE spc \notin Starting \cup Running
    <2>1. spc' \notin Running
      BY <1>5 DEF Idles
    <2>2. QED
      BY <1>1, <1>2, <2>1, RecordedKept
  <1>6. QED
    BY <1>3, <1>4, <1>5

(* A step of the server.                                                   *)
LEMMA RecordedServer ==
  ASSUME Typed, Array, Requests, Words, Leaver, Present, Carried, Recorded,
         ServerStep
  PROVE  Recorded'
  <1>1. Listed /\ Chronicle /\ RefusedWhenFull
    BY DEF Recorded
  <1>2. CASE Idles
    BY <1>2, IdlesRecorded
  <1>3. CASE Tells
    <2>1. UNCHANGED <<spc, mesg, tcW, log, from>>
      BY <1>3 DEF Tells, Push, SameEnds, SameHistory
    <2>2. QED
      BY <1>1, <2>1, RecordedKept DEF Listed
  <1>4. CASE Shuts
    BY <1>4, RecordedKept DEF Shuts, SameHistory, Starting, Running
  <1>5. CASE AddClient
    <2>1. /\ spc = "append" /\ spc' = "bcast" /\ tcW' = tcW
          /\ log' = Append(log, Joined(join))
          /\ from' = [from EXCEPT ![join] = Len(log) + 1]
      BY <1>5 DEF AddClient, BeginBroadcast, fifoVars
    <2>2. join \in Clients /\ from[join] = 0 /\ join \in tcW
      BY <2>1 DEF Array, Requests, Opening, Typed, Registers, Running
    <2>3. /\ Joined(join) \in Mesg /\ Joined(join).name = join
          /\ \A c : Joined(join) # Departed(c)
      BY <2>2, MesgTypes DEF Joined, Departed
    <2>4. /\ from'[join] = Len(log) + 1
          /\ \A c \in Clients : c # join => from'[c] = from[c]
      BY <2>1, <2>2 DEF Typed, TypeOK, ServerTypeOK
    <2>5. \A c : Logged(c)' <=> Logged(c)
      BY <2>1, <2>3, LoggedMore
    <2>6. from'[join] # 0
      BY <2>1, <2>3, <2>4, LoggedMore
    <2>7. Listed'
      BY <1>1, <2>1, <2>2, <2>4, <2>5, <2>6 DEF Listed, Starting, Running, Removing
    <2>8. RefusedWhenFull' /\ Chronicle'
      BY <1>1, <2>1, <2>2, <2>3, <2>4, RefusedMore
    <2>9. QED
      BY <2>7, <2>8 DEF Recorded
  <1>6. CASE RemoveEnd
    <2>1. /\ spc = "rmShift" /\ spc' = "bcast" /\ tcW' = tcW /\ from' = from
          /\ log' = Append(log, mesg)
      BY <1>6 DEF RemoveEnd, BeginBroadcast, fifoVars
    <2>2. /\ mesg = Departed(mesg.name) /\ mesg.name \notin tcW
          /\ mesg \in Mesg /\ from[mesg.name] # 0 /\ mesg.kind # "JOINED"
      BY <2>1, MesgTypes
      DEF Leaver, Removing, Typed, Registers, Carried, Departed
    <2>3. \A c : mesg = Departed(c) <=> c = mesg.name
      BY <2>2 DEF Departed
    <2>4. \A c : Logged(c)' <=> Logged(c) \/ c = mesg.name
      BY <2>1, <2>2, <2>3, LoggedMore
    <2>5. Listed'
      BY <1>1, <2>1, <2>2, <2>4 DEF Listed, Starting, Running, Removing
    <2>6. RefusedWhenFull' /\ Chronicle'
      BY <1>1, <2>1, <2>2, RefusedMore
    <2>7. QED
      BY <2>5, <2>6 DEF Recorded
  <1>7. ASSUME NEW c \in Clients \cup {NoClient}, Names(c)
        PROVE  Recorded'
    <2>1. /\ spc = "join" /\ spc' = "bcast" /\ tcW' = tcW /\ from' = from
          /\ log' = Append(log, Joined(c)) /\ Full
      BY <1>7 DEF Names, Begins, BeginBroadcast
    <2>2. Joined(c) \in Mesg /\ \A d : Joined(c) # Departed(d)
      BY MesgTypes DEF Joined, Departed
    <2>3. \A d : Logged(d)' <=> Logged(d)
      BY <2>1, <2>2, LoggedMore
    <2>4. Listed'
      BY <1>1, <2>1, <2>3 DEF Listed, Starting, Running, Removing
    <2>5. Cardinality(Counted(Len(log) + 1)) = MaxClients
      BY <1>1, <2>1, CountedFull
    <2>6. RefusedWhenFull' /\ Chronicle'
      BY <1>1, <2>1, <2>2, <2>5, RefusedMore
    <2>7. QED
      BY <2>4, <2>6 DEF Recorded
  <1>8. ASSUME NEW c \in Clients, Hands(c)
        PROVE  Recorded'
    <2>1. /\ spc = "serve" /\ i \in Used /\ c = client[i]
          /\ tcW' = tcW /\ from' = from
          /\ toServer[c] \in Seq(ClientMesg) /\ toServer[c] # <<>>
      BY <1>8 DEF Hands, Typed, TypeOK, FifoTypeOK
    <2>2. /\ Head(toServer[c]) = toServer[c][1] /\ 1 \in DOMAIN toServer[c]
          /\ Head(toServer[c]) \in ClientMesg
      BY <2>1
    <2>3. CASE Head(toServer[c]).kind = "MESG" /\ BeginBroadcast(Head(toServer[c]))
      <3>1. /\ Head(toServer[c]) \in Mesg /\ Head(toServer[c]).kind # "JOINED"
            /\ \A d : Head(toServer[c]) # Departed(d)
        BY <2>2, <2>3, MesgTypes DEF Departed
      <3>2. spc' = "bcast" /\ log' = Append(log, Head(toServer[c]))
        BY <2>3 DEF BeginBroadcast
      <3>3. \A d : Logged(d)' <=> Logged(d)
        BY <3>1, <3>2, LoggedMore
      <3>4. Listed'
        BY <1>1, <2>1, <3>2, <3>3 DEF Listed, Starting, Running, Removing
      <3>5. RefusedWhenFull' /\ Chronicle'
        BY <1>1, <2>1, <3>1, <3>2, RefusedMore
      <3>6. QED
        BY <3>4, <3>5 DEF Recorded
    <2>4. CASE /\ Head(toServer[c]).kind # "MESG" /\ spc' = "rmClose"
               /\ mesg' = Head(toServer[c]) /\ log' = log
      <3>a. Head(toServer[c]) = Departed(c)
        BY <2>2, <2>4 DEF Words
      <3>b. Departed(c).name = c
        BY DEF Departed
      <3>1. mesg'.name = c
        BY <2>4, <3>a, <3>b
      <3>2. c \in tcW
        BY <2>1, IntactPlain DEF Intact, Plain, Running, Members
      <3>3. \A d \in Clients :
              /\ from[d] = 0 => ~Logged(d)
              /\ from[d] # 0 => (~Logged(d) <=> d \in tcW)
        BY <1>1, <2>1 DEF Listed, Running, Removing
      <3>4. QED
        BY <2>1, <2>4, <3>1, <3>2, <3>3, RecordedKept DEF Starting, Removing
    <2>5. QED
      BY <1>8, <2>3, <2>4 DEF Hands
  <1>9. QED
    BY <1>2, <1>3, <1>4, <1>5, <1>6, <1>7, <1>8, ServerMoves

(* Recorded is inductive on top of the other invariants.                   *)
LEMMA RecordedNext ==
  ASSUME Inv, Departures, Roomed, Recorded, [Next]_vars
  PROVE  Recorded'
  <1>a. /\ Typed /\ Array /\ Requests /\ Words /\ Leaver /\ Present /\ Carried
        /\ Listed
    BY DEF Typed, Inv, Departures, Roomed, Recorded
  <1>1. CASE Server
    BY <1>1, <1>a, RecordedServer DEF Server
  <1>2. ASSUME NEW s \in Signals, Signal(s) PROVE Recorded'
    BY <1>2, <1>a, SignalIdles, IdlesRecorded DEF Signal
  <1>3. ASSUME NEW c \in Clients, Meet(c) PROVE Recorded'
    <2>1. /\ spc \in {"openTC", "openTS"} /\ spc' \in {"openTS", "append"}
          /\ join = c /\ tcW \subseteq tcW' /\ tcW' \subseteq tcW \cup {c}
          /\ log' = log /\ from' = from
      BY <1>3 DEF Meet, OpenToClient, OpenToServer, SameHistory
    <2>2. from[c] = 0
      BY <1>a, <2>1 DEF Requests, Opening
    <2>3. QED
      BY <1>a, <2>1, <2>2, RecordedKept DEF Listed, Starting, Running, Removing
  <1>4. ASSUME NEW c \in Clients, Client(c) \/ Killed(c) PROVE Recorded'
    <2>1. UNCHANGED serverVars /\ tcW' = tcW
      BY <1>4, <1>a, ClientUndisturbed DEF Client, Killed, Undisturbed
    <2>2. QED
      BY <1>a, <2>1, RecordedKept DEF Listed, serverVars
  <1>5. CASE UNCHANGED vars
    <2>1. UNCHANGED <<spc, mesg, log, from, tcW>>
      BY <1>5 DEF vars, serverVars, fifoVars
    <2>2. QED
      BY <1>a, <2>1, RecordedKept DEF Listed
  <1>6. QED
    BY <1>1, <1>2, <1>3, <1>4, <1>5 DEF Next

(* A name is announced that is not let in only when so many had been let   *)
(* in before and had not departed as the array has slots: the removals     *)
(* have kept n_clients right (server_add_client, server_remove_client).    *)
THEOREM RefusesOnlyWhenFull == Spec => []RefusedWhenFull
  <1>1. Inv /\ Inv' /\ Endings /\ Departures /\ Roomed /\ [Next]_vars => Roomed'
    BY RoomedNext
  <1>2. Inv /\ Departures /\ Roomed /\ Recorded /\ [Next]_vars => Recorded'
    BY RecordedNext
  <1>3. Recorded => RefusedWhenFull
    BY DEF Recorded
  <1>4. QED
    BY <1>1, <1>2, <1>3, RoomedInit, RecordedInit, ThroughoutHolds, PTL DEF Spec

-----------------------------------------------------------------------------
(* What of a log a client has said, from one place of the log to the next. *)
Speaks(c, m) == m.name = c /\ m.kind # "JOINED"
Adds(c, said, m) == IF Speaks(c, m) THEN Append(said, m) ELSE said

AreSpoken(said, c, l) ==
  said = [n \in 0 .. Len(l) |-> IF n = 0 THEN <<>> ELSE Adds(c, said[n - 1], l[n])]
SpokenIn(c, l) == (CHOOSE said : AreSpoken(said, c, l))[Len(l)]

LEMMA SpokenIsIn ==
  ASSUME NEW c
  PROVE  Spoken(c) = SpokenIn(c, log)
  BY DEF Spoken, SpokenIn, AreSpoken, Adds, Speaks

LEMMA AddsMesg ==
  ASSUME NEW c, NEW said \in Seq(Mesg), NEW m \in Mesg
  PROVE  Adds(c, said, m) \in Seq(Mesg)
  BY AppendProperties DEF Adds

LEMMA SpokenExist ==
  ASSUME NEW c, NEW l \in Seq(Mesg)
  PROVE  /\ AreSpoken(CHOOSE said : AreSpoken(said, c, l), c, l)
         /\ (CHOOSE said : AreSpoken(said, c, l)) \in [0 .. Len(l) -> Seq(Mesg)]
<1> DEFINE N == Len(l)
           V == Seq(Mesg)
           step == [p \in (1 .. N) \X V |-> Adds(c, p[2], l[p[1]])]
<1>1. N \in Nat /\ <<>> \in V /\ \A n \in 1 .. N : l[n] \in Mesg
  BY LenProperties, ElementOfSeq, EmptySeq
<1>2. step \in [(1 .. N) \X V -> V]
  BY <1>1, AddsMesg
<1>3. PICK f \in [0 .. N -> V] : Steps(f, N, <<>>, step)
  <2> HIDE DEF step, V, N
  <2> QED
    BY <1>1, <1>2, StepsExist
<1>4. \A n \in 1 .. N : f[n] = Adds(c, f[n - 1], l[n])
  <2> TAKE n \in 1 .. N
  <2>0. n - 1 \in 0 .. N
    BY <1>1
  <2>1. f[n - 1] \in V /\ <<n, f[n - 1]>> \in (1 .. N) \X V
    BY <2>0
  <2>2. step[<<n, f[n - 1]>>] = Adds(c, f[n - 1], l[n])
    BY <2>1
  <2> QED
    BY <1>3, <2>2 DEF Steps
<1>5. AreSpoken(f, c, l)
  <2>1. f[0] = <<>> /\ DOMAIN f = 0 .. N
    BY <1>3 DEF Steps
  <2> DEFINE g == [n \in 0 .. N |-> IF n = 0 THEN <<>> ELSE Adds(c, f[n - 1], l[n])]
  <2>2. \A n \in 0 .. N : f[n] = g[n]
    BY <1>1, <1>4, <2>1
  <2>3. f = g
    BY <2>1, <2>2
  <2> QED
    BY <2>3 DEF AreSpoken
<1> DEFINE h == CHOOSE said : AreSpoken(said, c, l)
<1>6. AreSpoken(h, c, l)
  BY <1>5
<1>7. h \in [0 .. N -> V]
  <2>1. DOMAIN h = 0 .. N /\ h = [n \in 0 .. N |-> h[n]] /\ h[0] = <<>>
        /\ \A n \in 1 .. N : h[n] = Adds(c, h[n - 1], l[n])
    <3> HIDE DEF h
    <3> QED
      BY <1>1, <1>6 DEF AreSpoken
  <2>2. f[0] = <<>> /\ DOMAIN f = 0 .. N
    BY <1>3 DEF Steps
  <2>3. \A n \in 0 .. N : h[n] = f[n]
    <3> HIDE DEF h, N
    <3>1. StepAlike(h, f, N)
      BY <1>4, <2>1, <2>2 DEF StepAlike
    <3> QED
      BY <1>1, <3>1, StepsAgree
  <2> QED
    BY <2>1, <2>3
<1> QED
  BY <1>6, <1>7

LEMMA SpokenNone ==
  ASSUME NEW c
  PROVE  SpokenIn(c, <<>>) = <<>>
<1> DEFINE h == CHOOSE said : AreSpoken(said, c, <<>>)
<1>1. AreSpoken(h, c, <<>>)
  <2>1. <<>> \in Seq(Mesg)
    BY EmptySeq
  <2> QED
    BY <2>1, SpokenExist
<1>2. h[0] = <<>> /\ Len(<<>>) = 0
  <2> HIDE DEF h
  <2> QED
    BY <1>1 DEF AreSpoken
<1> QED
  BY <1>2 DEF SpokenIn

(* One more message is one more step, whatever the log was.                *)
LEMMA SpokenMore ==
  ASSUME NEW c, NEW l \in Seq(Mesg), NEW m \in Mesg
  PROVE  /\ SpokenIn(c, Append(l, m)) = Adds(c, SpokenIn(c, l), m)
         /\ SpokenIn(c, l) \in Seq(Mesg)
<1> DEFINE more == Append(l, m)
           f == CHOOSE said : AreSpoken(said, c, l)
           g == CHOOSE said : AreSpoken(said, c, more)
           N == Len(l)
<1>1. /\ more \in Seq(Mesg) /\ Len(more) = N + 1 /\ N \in Nat
      /\ \A n \in 1 .. N : more[n] = l[n]
      /\ more[N + 1] = m
  BY AppendProperties, LenProperties
<1>2. AreSpoken(f, c, l) /\ AreSpoken(g, c, more) /\ f \in [0 .. N -> Seq(Mesg)]
  BY <1>1, SpokenExist
<1>3. /\ DOMAIN f = 0 .. N /\ f[0] = <<>>
      /\ \A n \in 1 .. N : f[n] = Adds(c, f[n - 1], l[n])
  <2> HIDE DEF f
  <2> QED
    BY <1>1, <1>2 DEF AreSpoken
<1>4. /\ DOMAIN g = 0 .. N + 1 /\ g[0] = <<>>
      /\ \A n \in 1 .. N + 1 : g[n] = Adds(c, g[n - 1], more[n])
  <2> HIDE DEF f, g, more, N
  <2>1. g = [n \in 0 .. N + 1 |->
               IF n = 0 THEN <<>> ELSE Adds(c, g[n - 1], more[n])]
    BY <1>1, <1>2 DEF AreSpoken
  <2> QED
    BY <1>1, <2>1
<1>5. \A n \in 0 .. N : f[n] = g[n]
  <2> HIDE DEF f, g, N, more
  <2>1. StepAlike(f, g, N)
    BY <1>1, <1>3, <1>4 DEF StepAlike
  <2> QED
    BY <1>1, <2>1, StepsAgree
<1>6. g[N + 1] = Adds(c, f[N], m) /\ f[N] \in Seq(Mesg)
  <2> HIDE DEF f, g, N, more
  <2> QED
    BY <1>1, <1>2, <1>4, <1>5
<1>7. SpokenIn(c, more) = g[Len(more)] /\ SpokenIn(c, l) = f[Len(l)]
  BY DEF SpokenIn
<1> HIDE DEF f, g
<1> QED
  BY <1>1, <1>6, <1>7

-----------------------------------------------------------------------------
(* What a client says is in its name; the log has of it what the server    *)
(* has read, in order; what it has seen is the log from its JOINED on.     *)
SaidFirst(said, told, n) ==
  /\ said \in Seq(Mesg) /\ Len(said) = n /\ n <= Len(told)
  /\ \A j \in 1 .. n : said[j] = told[j]

LogFrom(told, l, n) ==
  \A j \in 1 .. Len(told) : n + j - 1 \in 1 .. Len(l) /\ told[j] = l[n + j - 1]

Followed ==
  \A c \in Clients :
    /\ \A j \in 1 .. Len(sent[c]) : sent[c][j].name = c
    /\ SaidFirst(SpokenIn(c, log), sent[c], heard[c])
    /\ LogFrom(seen[c], log, from[c])

LEMMA FollowedInit == Init => Followed
<1> SUFFICES ASSUME Init, NEW c \in Clients
             PROVE  /\ \A j \in 1 .. Len(sent[c]) : sent[c][j].name = c
                    /\ SaidFirst(SpokenIn(c, log), sent[c], heard[c])
                    /\ LogFrom(seen[c], log, from[c])
  BY DEF Followed
<1>1. log = <<>> /\ sent[c] = <<>> /\ seen[c] = <<>> /\ from[c] = 0 /\ heard[c] = 0
  BY DEF Init, FifoInit, ServerInit, ClientInit
<1>2. Len(<<>>) = 0 /\ <<>> \in Seq(Mesg) /\ 1 .. 0 = {}
  BY EmptySeq
<1>3. SpokenIn(c, log) = <<>>
  BY <1>1, SpokenNone
<1> QED
  <2>1. SaidFirst(<<>>, <<>>, 0) /\ LogFrom(<<>>, <<>>, 0)
    BY <1>2 DEF SaidFirst, LogFrom
  <2> QED
    BY <1>1, <1>2, <1>3, <2>1

(* One more at the end of what is said and of what was told.               *)
LEMMA SaidNext ==
  ASSUME NEW said, NEW told, NEW n \in Nat, SaidFirst(said, told, n),
         Len(told) \in Nat, n < Len(told), NEW m \in Mesg, m = told[n + 1]
  PROVE  SaidFirst(Append(said, m), told, n + 1)
<1>1. said \in Seq(Mesg) /\ Len(said) = n /\ \A j \in 1 .. n : said[j] = told[j]
  BY DEF SaidFirst
<1> PICK x : x = Append(said, m)
  OBVIOUS
<1>2. /\ x \in Seq(Mesg) /\ Len(x) = n + 1 /\ x[n + 1] = m
      /\ \A j \in 1 .. n : x[j] = said[j]
  BY <1>1, Appended
<1>3. \A j \in 1 .. n + 1 : j \in 1 .. n \/ j = n + 1
  OBVIOUS
<1>4. \A j \in 1 .. n + 1 : x[j] = told[j]
  BY <1>1, <1>2, <1>3
<1> QED
  BY <1>2, <1>4 DEF SaidFirst

LEMMA LogGrows ==
  ASSUME NEW told, NEW l \in Seq(Mesg), NEW m \in Mesg, NEW n \in Nat, LogFrom(told, l, n)
  PROVE  LogFrom(told, Append(l, m), n)
<1> PICK x : x = Append(l, m)
  OBVIOUS
<1>1. Len(x) = Len(l) + 1 /\ Len(l) \in Nat /\ \A j \in 1 .. Len(l) : x[j] = l[j]
  BY Appended
<1>2. \A j \in 1 .. Len(l) : j \in 1 .. Len(x)
  BY <1>1
<1> QED
  BY <1>1, <1>2 DEF LogFrom

(* A message enters the log.                                               *)
LEMMA FollowedAnnounce ==
  ASSUME Typed, Followed, NEW m \in Mesg, log' = Append(log, m), UNCHANGED <<sent, seen>>,
         \A c \in Clients : from'[c] = from[c] \/ seen[c] = <<>>,
         \A c \in Clients :
           IF Speaks(c, m)
             THEN /\ heard'[c] = heard[c] + 1 /\ heard[c] < Len(sent[c])
                  /\ m = sent[c][heard[c] + 1]
             ELSE heard'[c] = heard[c]
  PROVE  Followed'
<1> SUFFICES ASSUME NEW c \in Clients
             PROVE  /\ \A j \in 1 .. Len(sent'[c]) : sent'[c][j].name = c
                    /\ SaidFirst(SpokenIn(c, log'), sent'[c], heard'[c])
                    /\ LogFrom(seen'[c], log', from'[c])
  BY DEF Followed, SpokenIn, AreSpoken, Adds, Speaks, SaidFirst, LogFrom
<1>1. /\ log \in Seq(Mesg) /\ heard[c] \in Nat /\ from[c] \in Nat
      /\ sent[c] \in Seq(ClientMesg) /\ Len(sent[c]) \in Nat
  BY DEF Typed, TypeOK, ServerTypeOK, ClientTypeOK
<1>2. /\ \A j \in 1 .. Len(sent[c]) : sent[c][j].name = c
      /\ SaidFirst(SpokenIn(c, log), sent[c], heard[c])
      /\ LogFrom(seen[c], log, from[c])
  BY DEF Followed
<1>3. SpokenIn(c, log') = Adds(c, SpokenIn(c, log), m)
  BY <1>1, SpokenMore
<1>4. SaidFirst(SpokenIn(c, log'), sent[c], heard'[c])
  <2>1. CASE Speaks(c, m)
    BY <1>1, <1>2, <1>3, <2>1, SaidNext DEF Adds
  <2>2. CASE ~Speaks(c, m)
    BY <1>2, <1>3, <2>2 DEF Adds
  <2> QED
    BY <2>1, <2>2
<1>5. LogFrom(seen[c], log', from'[c])
  <2>1. CASE from'[c] = from[c]
    BY <1>1, <1>2, <2>1, LogGrows
  <2>2. CASE seen[c] = <<>>
    BY <2>2 DEF LogFrom
  <2> QED
    BY <2>1, <2>2
<1> QED
  BY <1>2, <1>4, <1>5

(* No message does.                                                        *)
LEMMA FollowedSame ==
  ASSUME Followed, UNCHANGED <<log, from, heard, sent, seen>>
  PROVE  Followed'
<1> SUFFICES ASSUME NEW c \in Clients
             PROVE  /\ \A j \in 1 .. Len(sent'[c]) : sent'[c][j].name = c
                    /\ SaidFirst(SpokenIn(c, log'), sent'[c], heard'[c])
                    /\ LogFrom(seen'[c], log', from'[c])
  BY DEF Followed, SpokenIn, AreSpoken, Adds, Speaks, SaidFirst, LogFrom
<1> QED
  BY DEF Followed

LEMMA FollowedWrites ==
  ASSUME Typed, Followed, NEW c \in Clients, Writes(c), UNCHANGED <<log, from, heard>>
  PROVE  Followed'
<1> SUFFICES ASSUME NEW d \in Clients
             PROVE  /\ \A j \in 1 .. Len(sent'[d]) : sent'[d][j].name = d
                    /\ SaidFirst(SpokenIn(d, log'), sent'[d], heard'[d])
                    /\ LogFrom(seen'[d], log', from'[d])
  BY DEF Followed, SpokenIn, AreSpoken, Adds, Speaks, SaidFirst, LogFrom
<1>0. /\ log' = log /\ from'[d] = from[d] /\ heard'[d] = heard[d]
      /\ seen'[d] = seen[d]
  BY DEF Writes
<1>1. /\ \A j \in 1 .. Len(sent[d]) : sent[d][j].name = d
      /\ SaidFirst(SpokenIn(d, log), sent[d], heard[d])
      /\ LogFrom(seen[d], log, from[d])
  BY DEF Followed
<1>2. PICK m \in ClientMesg :
        /\ m = Line(c, Len(sent[c]) + 1) \/ m = Departed(c)
        /\ sent' = [sent EXCEPT ![c] = Append(@, m)]
  BY DEF Writes
<1>3. m.name = c
  BY <1>2 DEF Line, Departed
<1>4. sent[d] \in Seq(ClientMesg) /\ DOMAIN sent = Clients /\ heard[d] \in Nat
  BY DEF Typed, TypeOK, ServerTypeOK, ClientTypeOK
<1>5. CASE d # c
  <2>1. sent'[d] = sent[d]
    BY <1>2, <1>4, <1>5
  <2> QED
    BY <1>0, <1>1, <2>1
<1>6. CASE d = c
  <2> PICK x : x = Append(sent[d], m)
    OBVIOUS
  <2>1. sent'[d] = x
    BY <1>2, <1>4, <1>6
  <2>2. /\ Len(x) = Len(sent[d]) + 1 /\ Len(sent[d]) \in Nat /\ x[Len(sent[d]) + 1] = m
        /\ \A j \in 1 .. Len(sent[d]) : x[j] = sent[d][j]
    BY <1>4, Appended
  <2>3. \A j \in 1 .. Len(x) : j \in 1 .. Len(sent[d]) \/ j = Len(sent[d]) + 1
    BY <2>2
  <2>4. \A j \in 1 .. Len(x) : x[j].name = d
    BY <1>1, <1>3, <1>6, <2>2, <2>3
  <2>5. SaidFirst(SpokenIn(d, log), x, heard[d])
    <3> PICK n : n = Len(sent[d])
      OBVIOUS
    <3>1. heard[d] <= n /\ n \in Nat /\ Len(x) = n + 1
      BY <1>1, <2>2 DEF SaidFirst
    <3>2. heard[d] <= Len(x) /\ \A j \in 1 .. heard[d] : j \in 1 .. n
      BY <1>4, <3>1
    <3> QED
      BY <1>1, <2>2, <3>2 DEF SaidFirst
  <2> QED
    BY <1>0, <1>1, <2>1, <2>4, <2>5
<1> QED
  BY <1>5, <1>6

LEMMA FollowedReads ==
  ASSUME Typed, Followed, Delivered, NEW c \in Clients, Reads(c),
         UNCHANGED <<log, from, heard>>
  PROVE  Followed'
<1> SUFFICES ASSUME NEW d \in Clients
             PROVE  /\ \A j \in 1 .. Len(sent'[d]) : sent'[d][j].name = d
                    /\ SaidFirst(SpokenIn(d, log'), sent'[d], heard'[d])
                    /\ LogFrom(seen'[d], log', from'[d])
  BY DEF Followed, SpokenIn, AreSpoken, Adds, Speaks, SaidFirst, LogFrom
<1>0. /\ log' = log /\ from'[d] = from[d] /\ heard'[d] = heard[d]
      /\ sent'[d] = sent[d]
  BY DEF Reads
<1>1. /\ \A j \in 1 .. Len(sent[d]) : sent[d][j].name = d
      /\ SaidFirst(SpokenIn(d, log), sent[d], heard[d])
      /\ LogFrom(seen[d], log, from[d])
  BY DEF Followed
<1>2. /\ seen[d] \in Seq(Mesg) /\ DOMAIN seen = Clients /\ from[d] \in Nat
      /\ toClient[d] \in Seq(Mesg) /\ log \in Seq(Mesg)
  BY DEF Typed, TypeOK, ServerTypeOK, ClientTypeOK, FifoTypeOK
<1>3. CASE d # c
  <2>1. seen'[d] = seen[d]
    BY <1>2, <1>3 DEF Reads
  <2> QED
    BY <1>0, <1>1, <2>1
<1>4. CASE d = c
  <2> PICK x, m, n : x = seen'[d] /\ m = toClient[d][1] /\ n = Len(seen[d])
    OBVIOUS
  <2>1. x = Append(seen[d], m) /\ toClient[d] # <<>> /\ m # ShutdownMesg
    BY <1>2, <1>4 DEF Reads
  <2>2. m \in Mesg /\ 1 \in 1 .. Len(toClient[d])
    BY <1>2, <2>1, Shortened
  <2>3. /\ Len(x) = n + 1 /\ n \in Nat /\ x[n + 1] = m
        /\ \A j \in 1 .. n : x[j] = seen[d][j]
    BY <1>2, <2>1, <2>2, Appended
  <2>4. from[d] # 0 /\ Place(d) + 1 - 1 <= Len(log) /\ m = log[Place(d) + 1 - 1]
    BY <2>1, <2>2 DEF Delivered
  <2>5. Place(d) = from[d] + n /\ Len(log) \in Nat
    BY <1>2, LenProperties DEF Place
  <2>6. from[d] + n \in 1 .. Len(log) /\ m = log[from[d] + n]
    <3> PICK p : p = Place(d)
      OBVIOUS
    <3>1. p \in Nat /\ p + 1 - 1 = p
      BY <1>2, <2>3, <2>5
    <3> QED
      BY <1>2, <2>3, <2>4, <2>5, <3>1
  <2>7. ASSUME NEW j \in 1 .. Len(x)
        PROVE  from[d] + j - 1 \in 1 .. Len(log) /\ x[j] = log[from[d] + j - 1]
    <3>1. CASE j \in 1 .. n
      BY <1>1, <2>3, <3>1 DEF LogFrom
    <3>2. CASE j = n + 1
      <4>1. from[d] + j - 1 = from[d] + n
        BY <1>2, <2>3, <3>2
      <4> QED
        BY <2>3, <2>6, <3>2, <4>1
    <3> QED
      BY <2>3, <3>1, <3>2
  <2> QED
    <3>1. LogFrom(x, log, from[d])
      BY <2>7 DEF LogFrom
    <3> QED
      BY <1>0, <1>1, <3>1
<1> QED
  BY <1>3, <1>4

(* What the server does.                                                   *)
LEMMA FollowedServer ==
  ASSUME Typed, Requests, Words, Leaver, Roomed, Followed, ServerStep,
         UNCHANGED clientVars
  PROVE  Followed'
<1>1. UNCHANGED <<sent, seen>>
  BY DEF clientVars
<1>2. CASE Idles \/ Tells \/ Shuts
  BY <1>1, <1>2, FollowedSame DEF Idles, Tells, Shuts, SameHistory
<1>3. CASE AddClient
  <2>1. join \in Clients /\ from[join] = 0
    BY <1>3 DEF AddClient, Requests, Opening, Typed, Registers
  <2>2. Joined(join) \in Mesg /\ \A c : ~Speaks(c, Joined(join))
    BY <2>1, MesgTypes DEF Joined, Speaks
  <2>3. log' = Append(log, Joined(join)) /\ heard' = heard
    BY <1>3 DEF AddClient, BeginBroadcast
  <2>4. \A c \in Clients : from'[c] = from[c] \/ seen[c] = <<>>
    <3>1. \A c \in Clients : c # join => from'[c] = from[c]
      BY <1>3 DEF AddClient, Typed, TypeOK, ServerTypeOK
    <3>2. seen[join] = <<>>
      BY <2>1 DEF Roomed, Delivered
    <3> QED
      BY <3>1, <3>2
  <2> QED
    BY <1>1, <2>2, <2>3, <2>4, FollowedAnnounce
<1>4. CASE RemoveEnd
  <2>1. /\ spc = "rmShift" /\ log' = Append(log, mesg) /\ from' = from
        /\ heard' = [heard EXCEPT ![mesg.name] = @ + 1]
    BY <1>4 DEF RemoveEnd, BeginBroadcast, Hear
  <2>2. mesg.name \in Clients /\ mesg = Departed(mesg.name) /\ mesg \in Mesg
    BY <2>1, MesgTypes DEF Leaver, Typed, Registers, Removing
  <2>3. PICK c \in Clients : c = mesg.name
    BY <2>2
  <2>4. mesg = sent[c][heard[c] + 1] /\ MailOf(c) /\ InTransit(c) = 1
    BY <2>1, <2>3 DEF Roomed, Carried, MailOf, InTransit, Removing, Running
  <2>5. heard[c] < Len(sent[c])
    <3>1. heard[c] \in Nat /\ Len(toServer[c]) \in Nat
      BY DEF Typed, TypeOK, ServerTypeOK, FifoTypeOK
    <3>2. Len(sent[c]) = heard[c] + 1 + Len(toServer[c])
      BY <2>4 DEF MailOf
    <3> QED
      BY <3>1, <3>2
  <2>6. \A d : Speaks(d, mesg) <=> d = c
    BY <2>2, <2>3 DEF Departed, Speaks
  <2>7. \A d \in Clients : heard'[d] = IF d = c THEN heard[d] + 1 ELSE heard[d]
    BY <2>1, <2>3 DEF Typed, TypeOK, ServerTypeOK
  <2> QED
    BY <1>1, <2>1, <2>2, <2>4, <2>5, <2>6, <2>7, FollowedAnnounce
<1>5. ASSUME NEW c \in Clients \cup {NoClient}, Names(c)
      PROVE  Followed'
  <2>1. log' = Append(log, Joined(c)) /\ UNCHANGED <<from, heard>>
    BY <1>5 DEF Names, Begins, BeginBroadcast
  <2>2. Joined(c) \in Mesg /\ \A d : ~Speaks(d, Joined(c))
    BY MesgTypes DEF Joined, Speaks
  <2> QED
    BY <1>1, <2>1, <2>2, FollowedAnnounce
<1>6. ASSUME NEW c \in Clients, Hands(c)
      PROVE  Followed'
  <2> PICK m : m = Head(toServer[c])
    OBVIOUS
  <2>1. /\ spc = "serve" /\ i \in Used /\ c = client[i] /\ from' = from
        /\ toServer[c] \in Seq(ClientMesg) /\ toServer[c] # <<>>
    BY <1>6 DEF Hands, Typed, TypeOK, FifoTypeOK
  <2>2. MailOf(c) /\ InTransit(c) = 0 /\ heard[c] \in Nat
    BY <2>1 DEF Roomed, Carried, MailOf, InTransit, Removing, Running, Typed,
                TypeOK, ServerTypeOK
  <2>3. /\ Len(toServer[c]) \in Nat \ {0} /\ 1 \in 1 .. Len(toServer[c])
        /\ m = toServer[c][1] /\ m \in ClientMesg
    BY <2>1
  <2>4. /\ Len(sent[c]) = heard[c] + 0 + Len(toServer[c])
        /\ m = sent[c][heard[c] + 0 + 1]
    BY <2>2, <2>3 DEF MailOf
  <2>5. heard[c] < Len(sent[c]) /\ heard[c] + 0 + 1 = heard[c] + 1
    BY <2>2, <2>3, <2>4
  <2>6. CASE BeginBroadcast(m) /\ Hear(c)
    <3>1. log' = Append(log, m) /\ heard' = [heard EXCEPT ![c] = @ + 1] /\ m \in Mesg
      BY <2>3, <2>6, MesgTypes DEF BeginBroadcast, Hear
    <3>2. \A d \in Clients : heard'[d] = IF d = c THEN heard[d] + 1 ELSE heard[d]
      BY <3>1 DEF Typed, TypeOK, ServerTypeOK
    <3>3. m = sent[c][heard[c] + 1]
      BY <2>4, <2>5
    <3>4. m.name = c /\ m.kind # "JOINED"
      <4>1. heard[c] + 1 \in 1 .. Len(sent[c])
        BY <2>2, <2>3, <2>4
      <4>2. m.name = c
        BY <3>3, <4>1 DEF Followed
      <4> QED
        BY <2>3, <4>2 DEF ClientMesg
    <3>5. \A d : Speaks(d, m) <=> d = c
      BY <3>4 DEF Speaks
    <3> QED
      BY <1>1, <2>1, <2>5, <3>1, <3>2, <3>3, <3>5, FollowedAnnounce
  <2>7. CASE UNCHANGED <<log, heard>>
    BY <1>1, <2>1, <2>7, FollowedSame
  <2> QED
    BY <1>6, <2>6, <2>7 DEF Hands
<1> QED
  BY <1>2, <1>3, <1>4, <1>5, <1>6, ServerMoves

LEMMA FollowedNext ==
  ASSUME Inv, Departures, Endings, Roomed, Followed, [Next]_vars
  PROVE  Followed'
<1>1. Typed /\ Requests /\ Threads /\ Words /\ Leaver /\ Delivered
  BY DEF Inv, Typed, Departures, Endings, Roomed
<1>2. CASE Server
  BY <1>1, <1>2, FollowedServer DEF Server
<1>3. ASSUME NEW c \in Clients, Client(c) \/ Killed(c)
      PROVE  Followed'
  <2>1. (ClientStep(c) \/ Kill(c)) /\ UNCHANGED <<log, from, heard>>
    BY <1>3 DEF Client, Killed, serverVars
  <2>2. Writes(c) \/ Reads(c) \/ Hears(c) \/ Rests(c)
    BY <1>1, <2>1, ClientMoves
  <2>3. CASE Hears(c) \/ Rests(c)
    BY <2>1, <2>3, FollowedSame DEF Hears, Rests
  <2> QED
    BY <1>1, <2>1, <2>2, <2>3, FollowedWrites, FollowedReads
<1>4. ASSUME NEW s \in Signals, Signal(s) PROVE Followed'
  BY <1>4, FollowedSame DEF Signal, TakeSignal, SameHistory, clientVars
<1>5. ASSUME NEW c \in Clients, Meet(c) PROVE Followed'
  BY <1>5, FollowedSame DEF Meet, OpenToClient, OpenToServer, OnlyMain,
                            SameClientHistory, SameHistory
<1>6. CASE UNCHANGED vars
  BY <1>6, FollowedSame DEF vars, serverVars, clientVars
<1> QED
  BY <1>2, <1>3, <1>4, <1>5, <1>6 DEF Next

-----------------------------------------------------------------------------
(* A sequence that goes through three others is the three joined.          *)
GoesThrough(t, a, h, q) ==
  /\ Len(t) = Len(a) + Len(h) + Len(q)
  /\ \A j \in 1 .. Len(a) : t[j] = a[j]
  /\ \A j \in 1 .. Len(h) : t[Len(a) + j] = h[j]
  /\ \A j \in 1 .. Len(q) : t[Len(a) + Len(h) + j] = q[j]

LEMMA ThreeParts ==
  ASSUME NEW S, NEW a \in Seq(S), NEW h \in Seq(S), NEW q \in Seq(S), NEW t \in Seq(S),
         GoesThrough(t, a, h, q)
  PROVE  t = a \o h \o q
<1> USE DEF GoesThrough
<1> PICK b : b = a \o h
  OBVIOUS
<1> PICK w : w = b \o q
  OBVIOUS
<1>1. /\ b \in Seq(S) /\ Len(b) = Len(a) + Len(h)
      /\ \A j \in 1 .. Len(a) + Len(h) :
           b[j] = IF j <= Len(a) THEN a[j] ELSE h[j - Len(a)]
  BY ConcatProperties
<1>2. /\ w \in Seq(S) /\ Len(w) = Len(b) + Len(q)
      /\ \A j \in 1 .. Len(b) + Len(q) :
           w[j] = IF j <= Len(b) THEN b[j] ELSE q[j - Len(b)]
  BY <1>1, ConcatProperties
<1>3. Len(a) \in Nat /\ Len(h) \in Nat /\ Len(q) \in Nat
  BY LenProperties
<1>4. ASSUME NEW j \in 1 .. Len(t)
      PROVE  t[j] = w[j]
  <2>0. Len(t) = Len(b) + Len(q)
    BY <1>1
  <2>1. CASE j <= Len(a)
    <3>1. w[j] = b[j] /\ b[j] = a[j] /\ j \in 1 .. Len(a)
      BY <1>1, <1>2, <1>3, <2>0, <2>1
    <3> QED
      BY <3>1
  <2>2. CASE ~(j <= Len(a)) /\ j <= Len(b)
    <3> PICK o : o = j - Len(a)
      OBVIOUS
    <3>1. w[j] = b[j] /\ b[j] = h[o] /\ o \in 1 .. Len(h) /\ j = Len(a) + o
      BY <1>1, <1>2, <1>3, <2>0, <2>2
    <3> QED
      BY <3>1
  <2>3. CASE ~(j <= Len(b))
    <3> PICK o : o = j - Len(b)
      OBVIOUS
    <3>1. w[j] = q[o] /\ o \in 1 .. Len(q) /\ j = Len(a) + Len(h) + o
      BY <1>1, <1>2, <1>3, <2>0, <2>3
    <3> QED
      BY <3>1
  <2> QED
    BY <2>1, <2>2, <2>3
<1>5. Len(t) = Len(w)
  BY <1>1, <1>2
<1>6. t = w
  BY <1>2, <1>4, <1>5, SeqEqual
<1> QED
  BY <1>6

LEMMA FollowedLost ==
  ASSUME Typed, Carried, Followed
  PROVE  NothingLost
<1> SUFFICES ASSUME NEW c \in Clients
             PROVE  /\ Len(Spoken(c)) = heard[c]
                    /\ spc \in Running =>
                         sent[c] = Spoken(c) \o InHand(c) \o toServer[c]
  BY DEF NothingLost
<1> PICK a : a = Spoken(c)
  OBVIOUS
<1>1. /\ a \in Seq(Mesg) /\ Len(a) = heard[c] /\ heard[c] \in Nat
      /\ \A j \in 1 .. Len(a) : sent[c][j] = a[j]
  BY SpokenIsIn DEF Followed, SaidFirst, Typed, TypeOK, ServerTypeOK
<1>2. ASSUME spc \in Running
      PROVE  sent[c] = a \o InHand(c) \o toServer[c]
  <2> PICK h : h = InHand(c)
    OBVIOUS
  <2>1. /\ sent[c] \in Seq(ClientMesg) /\ toServer[c] \in Seq(ClientMesg)
        /\ ClientMesg \subseteq Mesg
    BY MesgTypes DEF Typed, TypeOK, ClientTypeOK, FifoTypeOK
  <2>2. sent[c] \in Seq(Mesg) /\ toServer[c] \in Seq(Mesg)
    BY <2>1
  <2>3. MailOf(c)
    BY <1>2 DEF Carried, MailOf
  <2>4. /\ h \in Seq(Mesg) /\ Len(h) = InTransit(c)
        /\ \A j \in 1 .. Len(h) : sent[c][Len(a) + j] = h[j]
    <3>1. CASE spc \in Removing /\ mesg.name = c
      <4>1. h = <<mesg>> /\ InTransit(c) = 1 /\ mesg \in Mesg
        BY <3>1, MesgTypes DEF InHand, InTransit, Removing, Typed, Registers
      <4>2. mesg = sent[c][heard[c] + 1]
        BY <3>1 DEF Carried
      <4>3. h \in Seq(Mesg) /\ Len(h) = 1 /\ h[1] = mesg
        BY <4>1
      <4>4. \A j \in 1 .. 1 : j = 1
        OBVIOUS
      <4> QED
        BY <1>1, <4>1, <4>2, <4>3, <4>4
    <3>2. CASE ~(spc \in Removing /\ mesg.name = c)
      <4>1. h = <<>> /\ InTransit(c) = 0
        BY <3>2 DEF InHand, InTransit, Removing
      <4>2. <<>> \in Seq(Mesg) /\ Len(<<>>) = 0
        BY EmptySeq
      <4> QED
        BY <4>1, <4>2
    <3> QED
      BY <3>1, <3>2
  <2>5. /\ Len(sent[c]) = Len(a) + Len(h) + Len(toServer[c])
        /\ \A j \in 1 .. Len(toServer[c]) :
             sent[c][Len(a) + Len(h) + j] = toServer[c][j]
    BY <1>1, <2>3, <2>4 DEF MailOf
  <2> PICK t, w : t = sent[c] /\ w = toServer[c]
    OBVIOUS
  <2>6. t = a \o h \o w
    <3>1. /\ a \in Seq(Mesg) /\ h \in Seq(Mesg) /\ w \in Seq(Mesg)
          /\ t \in Seq(Mesg) /\ Len(t) = Len(a) + Len(h) + Len(w)
      BY <1>1, <2>2, <2>4, <2>5
    <3>2. /\ \A j \in 1 .. Len(a) : t[j] = a[j]
          /\ \A j \in 1 .. Len(h) : t[Len(a) + j] = h[j]
          /\ \A j \in 1 .. Len(w) : t[Len(a) + Len(h) + j] = w[j]
      BY <1>1, <2>4, <2>5
    <3>3. GoesThrough(t, a, h, w)
      BY <3>1, <3>2 DEF GoesThrough
    <3> QED
      BY <3>1, <3>3, ThreeParts
  <2> QED
    BY <2>6
<1> QED
  BY <1>1, <1>2

(* What was read and what waits make one piece of the log.                 *)
OneAfter(told, s, m, p, n) ==
  /\ Len(s) = m /\ Len(p) = n /\ Len(told) = m + n
  /\ \A j \in 1 .. m + n : told[j] = IF j <= m THEN s[j] ELSE p[j - m]

LEMMA LogGoesOn ==
  ASSUME NEW told, NEW s, NEW p, NEW l, NEW f \in Nat, NEW m \in Nat, NEW n \in Nat,
         OneAfter(told, s, m, p, n), LogFrom(s, l, f), LogFrom(p, l, f + m)
  PROVE  LogFrom(told, l, f)
<1> USE DEF OneAfter
<1> SUFFICES ASSUME NEW j \in 1 .. m + n
             PROVE  f + j - 1 \in 1 .. Len(l) /\ told[j] = l[f + j - 1]
  BY DEF LogFrom
<1>1. CASE j <= m
  BY <1>1 DEF LogFrom
<1>2. CASE ~(j <= m)
  <2> PICK o : o = j - m
    OBVIOUS
  <2>1. told[j] = p[o]
    BY <1>2
  <2>2. o \in 1 .. n /\ f + m + o - 1 = f + j - 1
    BY <1>2
  <2>3. f + m + o - 1 \in 1 .. Len(l) /\ p[o] = l[f + m + o - 1]
    BY <2>2 DEF LogFrom
  <2> QED
    BY <2>1, <2>2, <2>3
<1> QED
  BY <1>1, <1>2

Joins(told, s, p) == s \in Seq(Mesg) /\ p \in Seq(Mesg) /\ told = s \o p

Behind(told, s, p) ==
  /\ Len(told) = Len(s) + Len(p)
  /\ \A j \in 1 .. Len(s) + Len(p) :
       told[j] = IF j <= Len(s) THEN s[j] ELSE p[j - Len(s)]

LEMMA JoinedIs ==
  ASSUME NEW s, NEW p, NEW told, Joins(told, s, p)
  PROVE  Behind(told, s, p)
  BY ConcatProperties DEF Joins, Behind

(* Where the SHUTDOWNs begin, the log ends for this client.                *)
LEMMA FollowedTold ==
  ASSUME Typed, Delivered, Followed, NEW c \in Clients
  PROVE  \E n \in 0 .. Len(toClient[c]) :
           LET told == seen[c] \o SubSeq(toClient[c], 1, n)
           IN  /\ \A j \in 1 .. Len(told) :
                    /\ from[c] + j - 1 \in DOMAIN log
                    /\ told[j] = log[from[c] + j - 1]
               /\ \A j \in n + 1 .. Len(toClient[c]) :
                    toClient[c][j].kind = "SHUTDOWN"
<1> PICK q, s, f : q = toClient[c] /\ s = seen[c] /\ f = from[c]
  OBVIOUS
<1>a. /\ q \in Seq(Mesg) /\ s \in Seq(Mesg) /\ f \in Nat /\ log \in Seq(Mesg)
  BY DEF Typed, TypeOK, ServerTypeOK, ClientTypeOK, FifoTypeOK
<1>1. /\ q \in Seq(Mesg) /\ s \in Seq(Mesg) /\ f \in Nat /\ log \in Seq(Mesg)
      /\ Len(q) \in Nat /\ Len(s) \in Nat /\ DOMAIN log = 1 .. Len(log)
      /\ Len(log) \in Nat
  BY <1>a, LenProperties
<1> DEFINE T == {j \in 1 .. Len(q) : q[j] = ShutdownMesg}
<1>2. \E n \in 0 .. Len(q) :
        /\ \A j \in 1 .. n : q[j] # ShutdownMesg
        /\ n < Len(q) => q[n + 1] = ShutdownMesg
  <2>1. CASE T = {}
    <3>1. \A j \in 1 .. Len(q) : q[j] # ShutdownMesg
      BY <2>1
    <3>2. Len(q) \in 0 .. Len(q) /\ ~(Len(q) < Len(q))
      BY <1>1
    <3> QED
      BY <3>1, <3>2
  <2>2. CASE T # {}
    <3>1. T \in SUBSET Nat
      BY <1>1
    <3>2. PICK m \in T : \A j \in T : m <= j
      <4> HIDE DEF T
      <4> QED
        BY <2>2, <3>1, LeastNumber
    <3>3. m - 1 \in 0 .. Len(q) /\ q[m - 1 + 1] = ShutdownMesg
      BY <1>1, <3>2
    <3>4. \A j \in 1 .. m - 1 : q[j] # ShutdownMesg
      BY <1>1, <3>2
    <3> QED
      BY <3>3, <3>4
  <2> QED
    BY <2>1, <2>2
<1>3. PICK n \in 0 .. Len(q) :
        /\ \A j \in 1 .. n : q[j] # ShutdownMesg
        /\ n < Len(q) => q[n + 1] = ShutdownMesg
  BY <1>2
<1>4. ASSUME NEW j \in n + 1 .. Len(q)
      PROVE  q[j].kind = "SHUTDOWN"
  <2>1. n + 1 \in 1 .. Len(q) /\ j \in n + 1 .. Len(q) /\ q[n + 1] = ShutdownMesg
    BY <1>1, <1>3
  <2>2. q[j] = ShutdownMesg
    BY <2>1 DEF Delivered
  <2> QED
    BY <2>2 DEF ShutdownMesg
<1>5. ASSUME NEW j \in 1 .. n
      PROVE  /\ f + Len(s) + j - 1 \in 1 .. Len(log)
             /\ q[j] = log[f + Len(s) + j - 1]
  <2>1. j \in 1 .. Len(q) /\ q[j] # ShutdownMesg
    BY <1>1, <1>3
  <2>2. f # 0
    <3>1. q # <<>>
      BY <1>1, <2>1
    <3> QED
      BY <3>1 DEF Delivered
  <2>3. Place(c) + j - 1 <= Len(log) /\ q[j] = log[Place(c) + j - 1]
    BY <2>1 DEF Delivered
  <2>4. Place(c) = f + Len(s) /\ Place(c) \in Nat /\ Place(c) > 0
    <3>1. Place(c) = from[c] + Len(seen[c])
      BY DEF Place
    <3>2. from[c] = f /\ seen[c] = s
      OBVIOUS
    <3>3. f + Len(s) \in Nat /\ f + Len(s) > 0
      BY <1>1, <2>2
    <3> QED
      BY <3>1, <3>2, <3>3
  <2>5. Place(c) + j - 1 \in 1 .. Len(log)
    BY <1>1, <2>1, <2>3, <2>4
  <2> QED
    BY <2>3, <2>4, <2>5
<1> PICK p : p = SubSeq(q, 1, n)
  OBVIOUS
<1>6. p \in Seq(Mesg) /\ Len(p) = n /\ \A j \in 1 .. n : p[j] = q[j]
  <2>1. \A j \in 1 .. n : q[j] \in Mesg
    <3> TAKE j \in 1 .. n
    <3>1. j \in 1 .. Len(q)
      BY <1>1
    <3> QED
      BY <1>1, <3>1, ElementOfSeq
  <2>2. /\ SubSeq(q, 1, n) \in Seq(Mesg)
        /\ Len(SubSeq(q, 1, n)) = IF 1 <= n THEN n - 1 + 1 ELSE 0
        /\ \A j \in 1 .. n - 1 + 1 : SubSeq(q, 1, n)[j] = q[1 + j - 1]
    <3>1. 1 \in Int /\ n \in Int
      BY <1>1
    <3> QED
      BY <2>1, <3>1, SubSeqProperties
  <2> QED
    BY <1>1, <2>2
<1> PICK told : Joins(told, s, p)
  BY <1>1, <1>6 DEF Joins
<1>7. /\ Len(told) = Len(s) + n
      /\ \A j \in 1 .. Len(s) + n : told[j] = IF j <= Len(s) THEN s[j] ELSE p[j - Len(s)]
  <2>1. Len(p) = n
    BY <1>6
  <2>2. Behind(told, s, p)
    BY JoinedIs
  <2> QED
    BY <2>1, <2>2 DEF Behind
<1>8. LogFrom(told, log, f)
  <2>1. LogFrom(s, log, f)
    BY DEF Followed
  <2>2. PICK m : m = Len(s)
    OBVIOUS
  <2>3. m \in Nat /\ n \in Nat /\ OneAfter(told, s, m, p, n)
    BY <1>1, <1>6, <1>7, <2>2 DEF OneAfter
  <2>4. \A j \in 1 .. n :
          f + m + j - 1 \in 1 .. Len(log) /\ p[j] = log[f + m + j - 1]
    <3> TAKE j \in 1 .. n
    <3>1. p[j] = q[j]
      BY <1>6
    <3>2. f + m + j - 1 \in 1 .. Len(log) /\ q[j] = log[f + m + j - 1]
      BY <1>5, <2>2
    <3> QED
      BY <3>1, <3>2
  <2>5. LogFrom(p, log, f + m)
    BY <1>6, <2>4 DEF LogFrom
  <2> QED
    BY <1>1, <2>1, <2>3, <2>5, LogGoesOn
<1>9. told = seen[c] \o SubSeq(toClient[c], 1, n)
  BY DEF Joins
<1> QED
  BY <1>1, <1>4, <1>8, <1>9 DEF LogFrom

(* Nothing is lost, repeated or taken out of order between the typing of a *)
(* message and its reading: what a client has written is what the log has  *)
(* of it, the DEPARTED in hand and its FIFO; what it has read and has still*)
(* in its FIFO is the log from its JOINED on, then nothing but SHUTDOWN    *)
(* (server_handle_client, server_broadcast, server_shutdown).              *)
THEOREM ToldAsLogged == Spec => []ToldInOrder
<1>1. Inv /\ Inv' /\ Endings /\ Departures /\ Roomed /\ [Next]_vars => Roomed'
  BY RoomedNext
<1>2. Inv /\ Departures /\ Endings /\ Roomed /\ Followed /\ [Next]_vars => Followed'
  BY FollowedNext
<1>3. Inv /\ Roomed /\ Followed => ToldInOrder
  <2> SUFFICES ASSUME Inv, Roomed, Followed PROVE ToldInOrder
    OBVIOUS
  <2>1. Typed /\ Carried /\ Delivered
    BY DEF Inv, Typed, Roomed
  <2> QED
    BY <2>1, FollowedLost, FollowedTold DEF ToldInOrder
<1>4. QED
  BY <1>1, <1>2, <1>3, RoomedInit, FollowedInit, ThroughoutHolds, PTL DEF Spec

=============================================================================
