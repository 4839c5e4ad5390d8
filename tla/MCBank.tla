------------------------------- MODULE MCBank -------------------------------
(* The bank on small instances.  A behaviour is one of Bank, where each    *)
(* request is one step, or one of the requests that one session makes at   *)
(* the same time (BankRequests), with which Bank has no variable in        *)
(* common.  The other stays as it begins.                                  *)
EXTENDS Bank

CONSTANTS
  Parts,             \* which of the two
  Requests, FirstBooks, Nobody, MaxRequests,   \* of the second, as there
  s1, s2, u1, u2, a1, a2, r1, r2

VARIABLES
  part,
  objects, accounts, list, changes, total, number, all, written,
  req, issued, alone, kept

requestVars == <<objects, accounts, list, changes, total, number, all, written,
                 req, issued, alone, kept>>

OneSession == {s1}
TwoSessions == {s1, s2}
TwoUsers == {u1, u2}
TwoAccounts == {a1, a2}
TwoTypes == {"CHECKING", "SAVINGS"}
TwoRequests == {r1, r2}

Alike == Permutations(Sessions) \cup Permutations(Requests)

OneAmount == {1}
NoOrOne == {0, 1}

Req == INSTANCE BankRequests WITH Types <- {"CHECKING"}, log <- written

(* At first the file holds one user, with an account and an empty one; the *)
(* session whose requests meet has a user with one account or none.        *)
Founded ==
  u1 :> AddAccount(AddAccount(NewUser, "CHECKING", a1, 2), "SAVINGS", a2, 0)

OnlyChecking == [NewUser EXCEPT !.lists = [t \in {"CHECKING"} |-> <<>>]]
NewOrFunded == {OnlyChecking, AddAccount(OnlyChecking, "CHECKING", a1, 1)}

ASSUME RequestsAssumption == Req!RequestsAssumption

-----------------------------------------------------------------------------
BankInit ==
  /\ part \in Parts /\ Init
  /\ Req!Init /\ (part # "requests" => list = <<>>)

(* Two requests may meet; a third one starts when both have ended.         *)
TwoMeet == issued' # issued /\ issued = 2 => Req!Busy = {}

BankNext ==
  /\ UNCHANGED part
  /\ \/ part = "sessions" /\ Next /\ UNCHANGED requestVars
     \/ part = "requests" /\ Req!Next /\ TwoMeet /\ UNCHANGED vars

BankSpec == BankInit /\ [][BankNext]_<<part, vars, requestVars>>

-----------------------------------------------------------------------------
(* The properties of both.                                                 *)
TypesOK == IF part = "sessions" THEN TypeOK ELSE Req!TypeOK
AloneIsLedger == Req!AloneIsLedger

(* The log files miss no transaction of any copy of the database, nor one  *)
(* of requests that overlap (LogComplete, LogHasAll; Transaction.log).     *)
LogsComplete == LogComplete /\ Req!LogHasAll

(* Books and lists of every user agree in every copy (BankAccount, User).  *)
AllAgree == Books /\ Lists
=============================================================================
