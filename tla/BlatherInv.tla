----------------------------- MODULE BlatherInv -----------------------------
(***************************************************************************)
(* The inductive invariant behind TypeOK, ArrayIntact, FailsAlone and      *)
(* ReadsDoNotBlock: what is true of the server's registers, of its array   *)
(* and descriptors, of its flags, and of the clients it has not met yet,   *)
(* at every place.                                                         *)
(***************************************************************************)
EXTENDS Blather

Opening  == {"openTC", "openTS", "append"}
Removing == {"rmClose", "rmUnlink", "rmShift"}
Dropping == {"sdClose", "sdForget", "sdShift"}
Early    == {"mkfifo", "openJoin", "stuck", "waitJoin", "writeJoin"}

Holding  == {"writeJoin", "openTC", "openTS", "createUser", "createServer",
             "joinThreads"}

Waiting == {joinQ[j] : j \in 1 .. Len(joinQ)}

-----------------------------------------------------------------------------
(* The registers are in range where they are used.                         *)
Registers ==
  /\ \A j \in Used : client[j] \in Clients
  /\ spc \in Starting => n_clients = 0
  /\ spc \in Opening => join \in Clients /\ n_clients < MaxClients
  /\ spc = "bcast" =>
       /\ mesg \in ClientMesg \cup ServerMesg
       /\ k <= n_clients
       /\ mesg.kind # "JOINED" => i < MaxClients
  /\ spc \in Removing => i < n_clients /\ mesg \in ClientMesg
  /\ spc \in Dropping => i < n_clients
  /\ spc \in {"rmShift", "sdShift"} => k \in i + 1 .. n_clients

(* The slot that is to be overwritten: the one of the client that is being *)
(* removed, then the one whose contents have just been shifted down.       *)
Hole == IF spc = "rmUnlink" THEN i ELSE IF spc = "rmShift" THEN k - 1 ELSE -1
Kept == Used \ {Hole}
KeptClients == {client[j] : j \in Kept}

(* ArrayIntact, carried through the openings and through the removal.      *)
Array ==
  spc \in Starting \cup Running =>
    /\ \A a, b \in Kept : client[a] = client[b] => a = b
    /\ tcW = KeptClients \cup IF spc \in {"openTS", "append"} THEN {join} ELSE {}
    /\ tsR = KeptClients \cup IF spc = "append" THEN {join} ELSE {}
    /\ KeptClients \subseteq fifoFiles
    /\ spc = "rmUnlink" => client[i] \in fifoFiles \ tcW
    /\ ~err

(* A client comes to the server once: it writes its request, waits in the  *)
(* FIFO, is opened to, is added.                                           *)
Requests ==
  /\ \A a, b \in 1 .. Len(joinQ) : joinQ[a] = joinQ[b] => a = b
  /\ \A c \in Waiting :
       from[c] = 0 /\ c \in fifoFiles /\ mainpc[c] \notin Early
  /\ spc \in Opening =>
       /\ from[join] = 0 /\ join \in fifoFiles
       /\ join \notin Waiting /\ mainpc[join] \notin Early
  /\ \A c \in Clients :
       /\ mainpc[c] \in Early => from[c] = 0
       /\ mainpc[c] \in Early \ {"mkfifo"} => c \in fifoFiles
  /\ \A j \in Used : from[client[j]] # 0

(* A raised flag of a slot still to be served means something to read; the *)
(* slots that were served have their flags down.                           *)
Answers(j) == data_ready[j] => ClientReadable(client[j])

Flags ==
  /\ spc \in Starting \cup {"select"} => \A j \in Used : ~data_ready[j]
  /\ spc \in {"join"} \cup Opening => \A j \in Used : Answers(j)
  /\ spc = "bcast" /\ mesg.kind = "JOINED" => \A j \in Used : Answers(j)
  /\ spc = "bcast" /\ mesg.kind # "JOINED" =>
       \A j \in Used : (j < i => ~data_ready[j]) /\ (j > i => Answers(j))
  /\ spc = "serve" =>
       \A j \in Used : (j < i => ~data_ready[j]) /\ (j >= i => Answers(j))
  /\ spc \in Removing =>
       \A j \in Kept : /\ j < i => ~data_ready[j]
                       /\ j > i => Answers(j)
                       /\ spc = "rmShift" => (j >= i => Answers(j))

(* join_ready is up from select to the end of the join it announces.  A    *)
(* client holds the join FIFO open from its request to its end, so that    *)
(* select takes an empty one as readable only when they are all gone.      *)
JoinFlag ==
  /\ join_ready =>
       \/ spc \in {"join"} \cup Opening \cup Handler \cup Stopped
       \/ spc = "bcast" /\ mesg.kind = "JOINED"
  /\ spc = "join" /\ joinQ = <<>> =>
       \A c \in joinW : mainpc[c] = "writeJoin"
  /\ \A c \in Clients : mainpc[c] \in Holding => c \in joinW

Inv == TypeOK /\ Registers /\ Array /\ Requests /\ Flags /\ JoinFlag
=============================================================================
