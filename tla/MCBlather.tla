----------------------------- MODULE MCBlather -----------------------------
(* Blather on small instances.  A configuration chooses how many clients,  *)
(* slots, lines, kills and signals there are.                              *)
EXTENDS BlatherInv, TLC

CONSTANTS c1, c2, c3

OneClient    == {c1}
TwoClients   == {c1, c2}
ThreeClients == {c1, c2, c3}

(* The clients are alike.                                                  *)
Alike == Permutations(Clients)

(* Of three clients only two start, and messages wait for one of them      *)
(* where more than one waits for it; or nobody types a line or is killed,  *)
(* and no more than one message waits for each.                            *)
Unread(c) == Len(toClient[c])
Two ==
  /\ Cardinality({c \in Clients : mainpc[c] # "mkfifo"}) <= 2
  /\ \A c, d \in Clients : c # d => Unread(c) <= 1 \/ Unread(d) = 0
Silent ==
  killed = {} /\ \A c \in Clients :
    sent[c] \in {<<>>, <<Departed(c)>>} /\ Unread(c) <= 1

TwoOrSilent == Init /\ [][Next /\ (Two \/ Silent)']_vars

NoSignals == {}
OneSignal == {"SIGTERM"}
BothSignals == {"SIGTERM", "SIGINT"}
=============================================================================
