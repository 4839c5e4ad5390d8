----------------------------- MODULE ChatRoom -----------------------------
(***************************************************************************)
(* What the chat service promises, without FIFOs, slots or flags: one log  *)
(* of messages, the same for everybody.  What a client says enters the log *)
(* once, in the order it said it.  A client that is let in sees the log    *)
(* from its own JOINED on, message by message, with no gap, no repetition  *)
(* and in no other order, and nothing from its own departure on.           *)
(***************************************************************************)
EXTENDS Naturals, Sequences

CONSTANTS Clients, NoClient

VARIABLES
  log,    \* every message the room has announced
  from,   \* where in log a client's JOINED is, 0 while it is not let in
  said,   \* what each client has said so far
  heard,  \* how much of that is in log
  seen    \* what each client has seen

vars == <<log, from, said, heard, seen>>

-----------------------------------------------------------------------------
Mesg(kind, c, n) == [kind |-> kind, name |-> c, body |-> n]

Init ==
  /\ log = <<>>
  /\ from = [c \in Clients |-> 0]
  /\ said = [c \in Clients |-> <<>>]
  /\ heard = [c \in Clients |-> 0]
  /\ seen = [c \in Clients |-> <<>>]

Departing(c) == \E j \in 1 .. Len(said[c]) : said[c][j].kind = "DEPARTED"

LetIn(c) ==
  /\ from[c] = 0
  /\ log' = Append(log, Mesg("JOINED", c, 0))
  /\ from' = [from EXCEPT ![c] = Len(log')]
  /\ UNCHANGED <<said, heard, seen>>

(* A name is announced although nobody is let in.                          *)
AnnounceOnly(c) ==
  /\ log' = Append(log, Mesg("JOINED", c, 0))
  /\ UNCHANGED <<from, said, heard, seen>>

Say(c) ==
  /\ ~Departing(c)
  /\ said' = [said EXCEPT ![c] =
                Append(@, Mesg("MESG", c, Len(said[c]) + 1))]
  /\ UNCHANGED <<log, from, heard, seen>>

Leave(c) ==
  /\ ~Departing(c)
  /\ said' = [said EXCEPT ![c] = Append(@, Mesg("DEPARTED", c, 0))]
  /\ UNCHANGED <<log, from, heard, seen>>

Announce(c) ==
  /\ from[c] # 0 /\ heard[c] < Len(said[c])
  /\ log' = Append(log, said[c][heard[c] + 1])
  /\ heard' = [heard EXCEPT ![c] = @ + 1]
  /\ UNCHANGED <<from, said, seen>>

See(c) ==
  /\ from[c] # 0 /\ from[c] + Len(seen[c]) <= Len(log)
  /\ LET m == log[from[c] + Len(seen[c])]
     IN  /\ m # Mesg("DEPARTED", c, 0)
         /\ seen' = [seen EXCEPT ![c] = Append(@, m)]
  /\ UNCHANGED <<log, from, said, heard>>

Next ==
  \/ \E c \in Clients : \/ LetIn(c) \/ Say(c) \/ Leave(c)
                        \/ Announce(c) \/ See(c)
  \/ \E c \in Clients \cup {NoClient} : AnnounceOnly(c)

Spec == Init /\ [][Next]_vars
=============================================================================
