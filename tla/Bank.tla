-------------------------------- MODULE Bank --------------------------------
(***************************************************************************)
(* The banking application: browser sessions, each with a copy of the      *)
(* whole user database of its own, and the one file all of them restore it *)
(* from and back it up to (the servlets, UserDB.java).  An action is a     *)
(* whole request, but for the file: looking at its length and reading it   *)
(* are two steps, and so are emptying it and each half of writing it.      *)
(* The requests of one session follow each other; those of different       *)
(* sessions run at the same time.                                          *)
(***************************************************************************)
EXTENDS BankLedger

CONSTANTS
  Users, Sessions,    \* names of users; sessions
  NoUser, NoDB,       \* null
  Amounts, Openings,  \* what is deposited, withdrawn, moved; first balances
  FirstDB,            \* what the file holds at first
  MaxWork,            \* how many requests change a database
  MaxLosses           \* how many times sessions expire or the server crashes

ASSUME BankAssumption ==
  /\ NoUser \notin Users /\ Amounts \subseteq Nat \ {0} /\ Openings \subseteq Nat
  /\ MaxWork \in Nat /\ MaxLosses \in Nat

VARIABLES
  session,   \* the attributes UserDB and UserData of each session
  io,        \* what the session's request is doing with the file
  file,      \* the two halves of the file
  log,       \* the log file of each user
  work, losses,
  saved,     \* history: the last database that was backed up to its end
  fresh,     \* history: sessions with all that was saved in their database
  spoiled    \* history: two wrote the file at once, or a crash cut it

bounds  == <<work, losses>>
history == <<saved, fresh, spoiled>>
vars == <<session, io, file, log, bounds, history>>

-----------------------------------------------------------------------------
IsDB(db) ==
  /\ DOMAIN db \subseteq Users /\ db = [u \in DOMAIN db |-> db[u]]
  /\ \A u \in DOMAIN db : IsUser(db[u])
EmptyDB == [u \in {} |-> NewUser]
ASSUME FirstDBAssumption ==
  IsDB(FirstDB) /\ \A u \in DOMAIN FirstDB : Sound(FirstDB[u])

NewSession == [db |-> NoDB, user |-> NoUser]

TypeOK ==
  /\ \A s \in Sessions :
       /\ session[s].db # NoDB => IsDB(session[s].db)
       /\ session[s].user # NoUser => session[s].user \in DOMAIN session[s].db
  /\ io \in [Sessions -> {"idle", "read", "open", "first", "rest"}]
  /\ \A i \in {1, 2} : file[i] # NoDB => IsDB(file[i])
  /\ log \in [Users -> Seq(Transaction)]
  /\ work \in 0 .. MaxWork /\ losses \in 0 .. MaxLosses
  /\ IsDB(saved) /\ fresh \subseteq Sessions /\ spoiled \in BOOLEAN

Init ==
  /\ session = [s \in Sessions |-> NewSession]
  /\ io = [s \in Sessions |-> "idle"]
  /\ file = IF FirstDB = EmptyDB THEN <<NoDB, NoDB>> ELSE <<FirstDB, FirstDB>>
  /\ log = [u \in Users |-> IF u \in DOMAIN FirstDB
                              THEN FirstDB[u].transactions ELSE <<>>]
  /\ work = 0 /\ losses = 0
  /\ saved = FirstDB /\ fresh = {} /\ spoiled = FALSE

-----------------------------------------------------------------------------
Idle(s) == io[s] = "idle"
DB(s) == session[s].db
Current(s) == session[s].user
Writing == {s \in Sessions : io[s] \in {"first", "rest"}}

(* A half is missing, or the halves are not of one database: readObject    *)
(* fails, and the result is null.                                          *)
Readable == file[1] = file[2]
Length == Cardinality({i \in {1, 2} : file[i] # NoDB})

(* The database gets a new user.  Mutant: the others are dropped.          *)
OnlyNewUser(db, u) == u :> NewUser
addNewUser(db, u) ==
  [v \in DOMAIN db \cup {u} |-> IF v = u THEN NewUser ELSE db[v]]

(* Each transaction goes into the user's log file when it is made.         *)
(* Mutant: only the last one does.                                         *)
LogsLast(old, new) == IF new = old THEN <<>> ELSE <<Last(new)>>
LogsAll(old, new) == SubSeq(new, Len(old) + 1, Len(new))

(* A session is for a user of its database.  Mutant: for any name given.   *)
Named(db, u) == u # NoUser
UserNameExists(db, u) == u \in DOMAIN db

(* BackupUserDatabase empties the file, writes, and writes the rest as it  *)
(* closes the streams.  Mutant: they are not closed.                       *)
Emptied == <<NoDB, NoDB>>
Begun(db) == [file EXCEPT ![1] = db]
NotClosed(db) == file
Closed(db) == [file EXCEPT ![2] = db]

-----------------------------------------------------------------------------
(* The session gets a database that was not its own before.                *)
Obtain(s, db) ==
  /\ session' = [session EXCEPT ![s] = [db |-> db, user |-> NoUser]]
  /\ fresh' = IF db = saved THEN fresh \cup {s} ELSE fresh \ {s}

(* RestoreUserDatabase, up to its first look at the file.                  *)
Restore(s) ==
  /\ Idle(s) /\ DB(s) = NoDB
  /\ \/ Length = 0 /\ Obtain(s, EmptyDB) /\ UNCHANGED io
     \/ Length > 0 /\ io' = [io EXCEPT ![s] = "read"]
                   /\ UNCHANGED <<session, fresh>>
  /\ UNCHANGED <<file, log, bounds, saved, spoiled>>

RestoreRead(s) ==
  /\ io[s] = "read" /\ io' = [io EXCEPT ![s] = "idle"]
  /\ IF Readable /\ Length > 0 THEN Obtain(s, file[1])
                               ELSE UNCHANGED <<session, fresh>>
  /\ UNCHANGED <<file, log, bounds, saved, spoiled>>

(* LoginPage restores the database if the session has none, and forgets    *)
(* who was logged in; NewUserPage only restores.                           *)
LogsOut(s) ==
  /\ Idle(s) /\ Current(s) # NoUser
  /\ session' = [session EXCEPT ![s].user = NoUser]
  /\ UNCHANGED <<io, file, log, bounds, history>>

LoginPage(s) == Restore(s) \/ LogsOut(s)

NewUserPage(s) == Restore(s)

(* UserAccountCreated starts an empty database if the session has none.    *)
UserAccountCreated(s, u) ==
  /\ Idle(s) /\ work < MaxWork /\ work' = work + 1
  /\ LET db == IF DB(s) = NoDB THEN EmptyDB ELSE DB(s)
     IN  session' = [session EXCEPT ![s] =
           [db |-> IF UserNameExists(db, u) THEN db ELSE addNewUser(db, u),
            user |-> NoUser]]
  /\ fresh' = IF DB(s) # NoDB THEN fresh
               ELSE IF saved = EmptyDB THEN fresh \cup {s} ELSE fresh \ {s}
  /\ UNCHANGED <<io, file, log, losses, saved, spoiled>>

(* HomePage logs a user in, if nobody is, and backs the database up.  A    *)
(* name may be missing, but not when nobody is logged in.                  *)
HomePage(s, u) ==
  /\ Idle(s) /\ DB(s) # NoDB
  /\ u = NoUser => Current(s) # NoUser
  /\ session' = [session EXCEPT ![s].user =
                   IF @ = NoUser /\ UserNameExists(DB(s), u) THEN u ELSE @]
  /\ io' = [io EXCEPT ![s] = "open"]
  /\ UNCHANGED <<file, log, bounds, history>>

(* BackupUserDatabase.                                                     *)
OpenFile(s) ==
  /\ io[s] = "open" /\ io' = [io EXCEPT ![s] = "first"]
  /\ file' = Emptied /\ spoiled' = (Writing # {})
  /\ UNCHANGED <<session, log, bounds, saved, fresh>>

WriteFirst(s) ==
  /\ io[s] = "first" /\ io' = [io EXCEPT ![s] = "rest"]
  /\ file' = Begun(DB(s))
  /\ UNCHANGED <<session, log, bounds, history>>

WriteRest(s) ==
  /\ io[s] = "rest" /\ io' = [io EXCEPT ![s] = "idle"]
  /\ file' = Closed(DB(s))
  /\ IF file[1] # DB(s) THEN UNCHANGED <<saved, fresh>>
     ELSE /\ saved' = DB(s)
          /\ fresh' = IF DB(s) = saved THEN fresh \cup {s} ELSE {s}
  /\ UNCHANGED <<session, log, bounds, spoiled>>

-----------------------------------------------------------------------------
(* The requests of somebody who is logged in change what is his.           *)
Mine(s) == DB(s)[Current(s)]

Becomes(s, user) ==
  /\ user # Mine(s) /\ work < MaxWork /\ work' = work + 1
  /\ session' = [session EXCEPT ![s].db[Current(s)] = user]
  /\ log' = [log EXCEPT ![Current(s)] =
                @ \o LogsAll(Mine(s).transactions, user.transactions)]
  /\ UNCHANGED <<io, file, losses, history>>

LoggedIn(s) == Idle(s) /\ Current(s) # NoUser

BankAccountCreated(s) ==
  /\ LoggedIn(s)
  /\ \E a \in Accounts \ Names(Mine(s)), t \in Types, n \in Openings :
       Becomes(s, AddAccount(Mine(s), t, a, n))

BankAccountDeleted(s) ==
  /\ LoggedIn(s)
  /\ \E a \in Names(Mine(s)) : Becomes(s, RemoveAccount(Mine(s), a))

TransactionCompleted(s) ==
  /\ LoggedIn(s)
  /\ \E a \in Names(Mine(s)), n \in Amounts, t \in {"DEPOSIT", "WITHDRAWAL"} :
       /\ Succeeds(Mine(s), a, t, n)
       /\ Becomes(s, MakeTransaction(Mine(s), a, t, n))

(* The page may be an old one, so that the account to transfer to may have *)
(* been removed.                                                           *)
TransferCompleted(s) ==
  /\ LoggedIn(s)
  /\ \E a \in Names(Mine(s)), b \in Accounts, n \in Amounts :
       Becomes(s, MakeTransfer(Mine(s), a, b, n))

-----------------------------------------------------------------------------
(* A session expires; the server stops, whatever it is doing.              *)
Expire(s) ==
  /\ losses < MaxLosses /\ losses' = losses + 1
  /\ Idle(s) /\ DB(s) # NoDB
  /\ session' = [session EXCEPT ![s] = NewSession] /\ fresh' = fresh \ {s}
  /\ UNCHANGED <<io, file, log, work, saved, spoiled>>

Crash ==
  /\ losses < MaxLosses /\ losses' = losses + 1
  /\ session' = [s \in Sessions |-> NewSession]
  /\ io' = [s \in Sessions |-> "idle"]
  /\ fresh' = {} /\ spoiled' = (spoiled \/ Writing # {})
  /\ UNCHANGED <<file, log, work, saved>>

-----------------------------------------------------------------------------
Servlet(s) ==
  \/ LoginPage(s) \/ NewUserPage(s)
  \/ \E u \in Users : UserAccountCreated(s, u)
  \/ \E u \in Users \cup {NoUser} : HomePage(s, u)
  \/ BankAccountCreated(s) \/ BankAccountDeleted(s)
  \/ TransactionCompleted(s) \/ TransferCompleted(s)

FileStep(s) == RestoreRead(s) \/ OpenFile(s) \/ WriteFirst(s) \/ WriteRest(s)

Next == (\E s \in Sessions : Servlet(s) \/ FileStep(s) \/ Expire(s)) \/ Crash

Spec == Init /\ [][Next]_vars

-----------------------------------------------------------------------------
Copies == {session[s].db : s \in Sessions} \cup {file[1], file[2]}
UsersKept == UNION {{db[u] : u \in DOMAIN db} : db \in Copies \ {NoDB}}

(* In every copy of the database, in a session or in the file, the books   *)
(* of every user agree (BankAccount, User).                                *)
Books == \A user \in UsersKept : BooksAgree(user)

(* So do the lists that the pages walk (AddAccount, RemoveAccount).        *)
Lists == \A user \in UsersKept : ListsAgree(user)

(* Whatever becomes of the copies, each transaction of each of them is in  *)
(* the user's log file, as often as it was made (Transaction.log).         *)
Often(t, seq) == Cardinality({i \in DOMAIN seq : seq[i] = t})

LogComplete ==
  \A db \in Copies \ {NoDB} : \A u \in DOMAIN db :
    LET made == db[u].transactions
    IN  \A t \in ToSet(made) : Often(t, made) <= Often(t, log[u])

(* While nobody writes, the file is what was backed up last, unless two    *)
(* wrote it at the same time or the server stopped amid writing            *)
(* (BackupUserDatabase).                                                   *)
FileIsSaved ==
  Writing = {} /\ ~spoiled =>
    file = <<saved, saved>> \/ (saved = EmptyDB /\ Length = 0)

(* A backup by a session that has in its database all that was saved       *)
(* before forgets no user and none of their transactions.  The others do:  *)
(* sessions with an older copy, or with the empty one that                 *)
(* UserAccountCreated starts (HomePage).                                   *)
Extends(new, old) ==
  /\ DOMAIN old \subseteq DOMAIN new
  /\ \A u \in DOMAIN old : IsPrefix(old[u].transactions, new[u].transactions)

FreshForgetsNothing ==
  [][Extends(saved', saved)
     \/ \E s \in Sessions \ fresh : io[s] = "rest" /\ io'[s] = "idle"]_vars

-----------------------------------------------------------------------------
(* "State is maintained by storing all user account data and transaction   *)
(* data in a Java File" (README.md:11): with one session after the other,  *)
(* whoever has been backed up is in every later backup.                    *)
UsersStay == [][DOMAIN saved \subseteq DOMAIN saved']_vars
=============================================================================
