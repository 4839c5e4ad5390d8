----------------------------- MODULE BankProofs -----------------------------
(***************************************************************************)
(* The bank, for any number of sessions, users, accounts and requests that *)
(* overlap and for any amounts: what the file holds while nobody writes,   *)
(* what a backup can make the bank forget, that the log files miss nothing,*)
(* that the books of each copy agree, and the types of everything.         *)
(***************************************************************************)
EXTENDS MCBank, Induction, FiniteSetTheorems, SequenceTheorems

-----------------------------------------------------------------------------
(* Sequences of whatever, and their beginnings.                            *)
IsSeq(s) == \E S : s \in Seq(S)

LEMMA PrefixIs ==
  ASSUME NEW s, NEW t, IsSeq(s), IsSeq(t)
  PROVE  IsPrefix(s, t) <=>
           Len(s) <= Len(t) /\ \A n \in 1 .. Len(s) : s[n] = t[n]
<1>1. PICK S : s \in Seq(S)
  BY DEF IsSeq
<1>2. PICK T : t \in Seq(T)
  BY DEF IsSeq
<1> DEFINE U == S \cup T
<1>3. s \in Seq(U) /\ t \in Seq(U) /\ Len(s) \in Nat /\ Len(t) \in Nat
  BY <1>1, <1>2, SeqMonotonic, LenProperties
<1> SUFFICES ASSUME Len(s) <= Len(t)
             PROVE  SubSeq(s, 1, Len(s)) = SubSeq(t, 1, Len(s)) <=>
                      \A n \in 1 .. Len(s) : s[n] = t[n]
  BY DEF IsPrefix
<1> DEFINE a == SubSeq(s, 1, Len(s))
           b == SubSeq(t, 1, Len(s))
<1>4. \A n \in 1 .. Len(s) : s[n] \in U /\ t[n] \in U
  BY <1>3
<1> HIDE DEF U
<1>5. /\ a \in Seq(U) /\ Len(a) = Len(s) /\ \A n \in 1 .. Len(s) : a[n] = s[n]
  BY <1>3, <1>4, SubSeqProperties
<1>6. /\ b \in Seq(U) /\ Len(b) = Len(s) /\ \A n \in 1 .. Len(s) : b[n] = t[n]
  BY <1>3, <1>4, SubSeqProperties
<1> HIDE DEF a, b
<1>7. (\A n \in 1 .. Len(s) : s[n] = t[n]) => a = b
  BY <1>5, <1>6, SeqEqual
<1>8. a = b => \A n \in 1 .. Len(s) : s[n] = t[n]
  BY <1>5, <1>6
<1> QED
  BY <1>7, <1>8 DEF a, b

LEMMA PrefixOrder ==
  ASSUME NEW s, IsSeq(s)
  PROVE  /\ IsPrefix(s, s)
         /\ \A e : IsSeq(Append(s, e)) /\ IsPrefix(s, Append(s, e))
         /\ \A t, u : IsSeq(t) /\ IsSeq(u) /\ IsPrefix(s, t) /\ IsPrefix(t, u)
                        => IsPrefix(s, u)
<1>1. PICK S : s \in Seq(S)
  BY DEF IsSeq
<1>2. Len(s) \in Nat
  BY <1>1, LenProperties
<1>3. IsPrefix(s, s)
  BY <1>2, PrefixIs
<1>4. ASSUME NEW e
      PROVE  IsSeq(Append(s, e)) /\ IsPrefix(s, Append(s, e))
  <2>1. s \in Seq(S \cup {e}) /\ e \in S \cup {e}
    BY <1>1, SeqMonotonic
  <2>2. /\ Append(s, e) \in Seq(S \cup {e}) /\ Len(Append(s, e)) = Len(s) + 1
        /\ \A n \in 1 .. Len(s) : Append(s, e)[n] = s[n]
    BY <2>1, AppendProperties
  <2>3. IsSeq(Append(s, e))
    BY <2>2 DEF IsSeq
  <2> DEFINE t == Append(s, e)
  <2>4. IsSeq(t) /\ Len(s) <= Len(t) /\ \A n \in 1 .. Len(s) : s[n] = t[n]
    BY <1>2, <2>2, <2>3
  <2> HIDE DEF t
  <2>5. IsPrefix(s, t)
    BY <2>4, PrefixIs
  <2> QED
    BY <2>3, <2>5 DEF t
<1>5. ASSUME NEW t, NEW u, IsSeq(t), IsSeq(u), IsPrefix(s, t), IsPrefix(t, u)
      PROVE  IsPrefix(s, u)
  <2>1. Len(t) \in Nat /\ Len(u) \in Nat
    BY <1>5, LenProperties DEF IsSeq
  <2> QED
    BY <1>2, <1>5, <2>1, PrefixIs
<1> QED
  BY <1>3, <1>4, <1>5

-----------------------------------------------------------------------------
(* The methods of User only add to the transactions of a user.             *)
Person(user) ==
  /\ DOMAIN user = {"accounts", "lists", "total", "transactions"}
  /\ user = [f \in DOMAIN user |-> user[f]]
  /\ IsSeq(user.transactions)

Longer(user, new) ==
  Person(new) /\ IsPrefix(user.transactions, new.transactions)

LEMMA LongerIsOrder ==
  ASSUME NEW user, Person(user)
  PROVE  /\ Longer(user, user)
         /\ \A new, more : Longer(user, new) /\ Longer(new, more) => Longer(user, more)
  BY PrefixOrder DEF Longer, Person

LEMMA TransactionLonger ==
  ASSUME NEW user, Person(user), NEW a, NEW type, NEW amount, NEW change
  PROVE  Longer(user, addNewTransaction(Move(user, a, change), a, type, amount))
<1> DEFINE moved == Move(user, a, change)
<1>1. Person(moved) /\ moved.transactions = user.transactions
  BY DEF Move, Person
<1> HIDE DEF moved
<1> DEFINE t == [type |-> type, amount |-> amount,
                 result |-> moved.accounts[a].balance]
           new == addNewTransaction(moved, a, type, amount)
<1>2. new.transactions = Append(moved.transactions, t)
      /\ DOMAIN new = DOMAIN moved /\ new = [f \in DOMAIN new |-> new[f]]
  BY <1>1 DEF addNewTransaction, StoreTransaction, Person
<1> HIDE DEF t, new
<1>3. Longer(user, new)
  BY <1>1, <1>2, PrefixOrder DEF Longer, Person
<1> QED
  BY <1>3 DEF new, moved

LEMMA MethodsLonger ==
  ASSUME NEW user, Person(user)
  PROVE  /\ \A a, type, n : Longer(user, MakeTransaction(user, a, type, n))
         /\ \A a, b, n : Longer(user, MakeTransfer(user, a, b, n))
         /\ \A type, a, n : Longer(user, AddAccount(user, type, a, n))
         /\ \A a : Longer(user, RemoveAccount(user, a))
<1>1. \A old, a, type, n :
        Person(old) => Longer(old, MakeTransaction(old, a, type, n))
  BY TransactionLonger DEF MakeTransaction
<1>2. Longer(user, user)
  BY LongerIsOrder
<1>3. ASSUME NEW a, NEW b, NEW n
      PROVE  Longer(user, MakeTransfer(user, a, b, n))
  <2> DEFINE paid == MakeTransaction(user, a, "TRANSFER", -n)
             both == MakeTransaction(paid, b, "TRANSFER", n)
  <2>1. Longer(user, paid)
    BY <1>1
  <2>2. Longer(paid, both)
    BY <1>1, <2>1 DEF Longer
  <2> HIDE DEF paid, both
  <2>3. Longer(user, both)
    BY <2>1, <2>2, LongerIsOrder
  <2>4. MakeTransfer(user, a, b, n) \in {user, paid, both}
    BY DEF MakeTransfer, paid, both
  <2> QED
    BY <1>2, <2>1, <2>3, <2>4
<1>4. ASSUME NEW type, NEW a, NEW n
      PROVE  Longer(user, AddAccount(user, type, a, n))
  <2> DEFINE account == [type |-> type, balance |-> n, keys |-> <<>>]
             opened == [user EXCEPT !.lists[type] = Append(@, a),
                                    !.accounts[a] = account, !.total = @ + n]
             new == addNewTransaction(opened, a, "DEPOSIT", n)
  <2>1. Person(opened) /\ opened.transactions = user.transactions
    BY DEF Person
  <2>2. Longer(user, opened)
    BY <1>2, <2>1 DEF Longer
  <2> HIDE DEF opened
  <2> DEFINE t == [type |-> "DEPOSIT", amount |-> n,
                   result |-> opened.accounts[a].balance]
  <2>3. /\ new.transactions = Append(opened.transactions, t)
        /\ DOMAIN new = DOMAIN opened /\ new = [f \in DOMAIN new |-> new[f]]
    BY <2>1 DEF addNewTransaction, StoreTransaction, Person
  <2> HIDE DEF t, new
  <2>4. Longer(opened, new)
    BY <2>1, <2>3, PrefixOrder DEF Longer, Person
  <2>5. Longer(user, new)
    BY <2>2, <2>4, LongerIsOrder
  <2>6. AddAccount(user, type, a, n) \in {opened, new}
    BY DEF AddAccount, opened, new, account
  <2> QED
    BY <2>2, <2>5, <2>6
<1>5. ASSUME NEW a
      PROVE  Longer(user, RemoveAccount(user, a))
  <2> DEFINE new == [user EXCEPT !.lists = Unlisted(user, a),
                                 !.accounts[a] = NoAccount]
  <2>1. Person(new) /\ new.transactions = user.transactions
    BY DEF Person
  <2>2. Longer(user, new)
    BY <1>2, <2>1 DEF Longer
  <2>3. RemoveAccount(user, a) \in {user, new}
    BY DEF RemoveAccount
  <2> QED
    BY <1>2, <2>2, <2>3
<1> QED
  BY <1>1, <1>3, <1>4, <1>5

-----------------------------------------------------------------------------
(* A session is a database and a user, the file two halves; but for the    *)
(* crash, a step changes one session.                                      *)
Shapes ==
  /\ DOMAIN session = Sessions /\ DOMAIN io = Sessions
  /\ \A s \in Sessions : DOMAIN session[s] = {"db", "user"}
  /\ file = <<file[1], file[2]>>

Step(s) == Servlet(s) \/ FileStep(s) \/ Expire(s)

LEMMA ShapesInit == Init => Shapes
  BY DEF Init, Shapes, NewSession

LEMMA ShapesStep ==
  ASSUME Shapes, [Next]_vars
  PROVE  Shapes'
<1>1. ASSUME NEW s \in Sessions, Servlet(s)
      PROVE  Shapes'
  <2>1. CASE Restore(s)
    BY <2>1 DEF Shapes, Restore, Obtain
  <2>2. CASE LogsOut(s)
    BY <2>2 DEF Shapes, LogsOut
  <2>3. ASSUME NEW u, UserAccountCreated(s, u)
        PROVE  Shapes'
    BY <2>3 DEF Shapes, UserAccountCreated
  <2>4. ASSUME NEW u, HomePage(s, u)
        PROVE  Shapes'
    BY <2>4 DEF Shapes, HomePage
  <2>5. ASSUME NEW user, Becomes(s, user)
        PROVE  Shapes'
    BY <2>5 DEF Shapes, Becomes
  <2> QED
    BY <1>1, <2>1, <2>2, <2>3, <2>4, <2>5
    DEF Servlet, LoginPage, NewUserPage, BankAccountCreated, BankAccountDeleted,
        TransactionCompleted, TransferCompleted
<1>2. ASSUME NEW s \in Sessions, FileStep(s)
      PROVE  Shapes'
  <2>1. CASE RestoreRead(s)
    BY <2>1 DEF Shapes, RestoreRead, Obtain
  <2>2. CASE OpenFile(s)
    BY <2>2 DEF Shapes, OpenFile, Emptied
  <2>3. CASE WriteFirst(s)
    BY <2>3 DEF Shapes, WriteFirst, Begun
  <2>4. CASE WriteRest(s)
    BY <2>4 DEF Shapes, WriteRest, Closed
  <2> QED
    BY <1>2, <2>1, <2>2, <2>3, <2>4 DEF FileStep
<1>3. ASSUME NEW s \in Sessions, Expire(s)
      PROVE  Shapes'
  BY <1>3 DEF Shapes, Expire, NewSession
<1>4. CASE Crash
  BY <1>4 DEF Shapes, Crash, NewSession
<1>5. CASE UNCHANGED vars
  BY <1>5 DEF Shapes, vars
<1> QED
  BY <1>1, <1>2, <1>3, <1>4, <1>5 DEF Next

-----------------------------------------------------------------------------
(* Unless the file was spoiled, one session writes at a time, its first    *)
(* half in the file before the rest; and while nobody does, the file is    *)
(* what was saved.                                                         *)
Whole == file = <<saved, saved>> \/ (saved = EmptyDB /\ file = <<NoDB, NoDB>>)

Written ==
  ~spoiled =>
    /\ \A s, t \in Writing : s = t
    /\ Writing = {} => Whole
    /\ \A s \in Sessions : io[s] = "rest" => file[1] = DB(s)

(* A step of a session that does not write leaves the file alone.          *)
Aside(s) ==
  /\ UNCHANGED <<file, saved, spoiled>>
  /\ io[s] \notin {"first", "rest"} /\ io'[s] \notin {"first", "rest"}
  /\ \A t \in Sessions \ {s} : io'[t] = io[t] /\ session'[t] = session[t]

LEMMA StepsAside ==
  ASSUME Shapes, NEW s \in Sessions, Servlet(s) \/ RestoreRead(s) \/ Expire(s)
  PROVE  Aside(s)
<1>1. CASE Restore(s)
  BY <1>1 DEF Shapes, Restore, Obtain, Aside, Idle
<1>2. CASE LogsOut(s)
  BY <1>2 DEF Shapes, LogsOut, Aside, Idle, history
<1>3. ASSUME NEW u, UserAccountCreated(s, u)
      PROVE  Aside(s)
  BY <1>3 DEF Shapes, UserAccountCreated, Aside, Idle
<1>4. ASSUME NEW u, HomePage(s, u)
      PROVE  Aside(s)
  BY <1>4 DEF Shapes, HomePage, Aside, Idle, history
<1>5. ASSUME NEW user, LoggedIn(s), Becomes(s, user)
      PROVE  Aside(s)
  BY <1>5 DEF Shapes, Becomes, LoggedIn, Aside, Idle, history
<1>6. CASE RestoreRead(s)
  BY <1>6 DEF Shapes, RestoreRead, Obtain, Aside
<1>7. CASE Expire(s)
  BY <1>7 DEF Shapes, Expire, Aside, Idle
<1> QED
  BY <1>1, <1>2, <1>3, <1>4, <1>5, <1>6, <1>7
  DEF Servlet, LoginPage, NewUserPage, BankAccountCreated, BankAccountDeleted,
      TransactionCompleted, TransferCompleted

LEMMA WrittenInit == Init => Written
  BY DEF Init, Written, Writing, Whole

LEMMA WrittenStep ==
  ASSUME Shapes, Written, [Next]_vars
  PROVE  Written'
<1>1. ASSUME NEW s \in Sessions, Aside(s)
      PROVE  Written'
  <2>1. Writing' = Writing
    BY <1>1 DEF Aside, Writing
  <2>2. \A t \in Sessions : io'[t] = "rest" => io[t] = "rest" /\ DB(t)' = DB(t)
    BY <1>1 DEF Aside, DB
  <2>3. UNCHANGED <<file, saved, spoiled>>
    BY <1>1 DEF Aside
  <2> QED
    BY <2>1, <2>2, <2>3 DEF Written, Whole
<1>2. ASSUME NEW s \in Sessions, OpenFile(s)
      PROVE  Written'
  <2> SUFFICES ASSUME Writing = {}
               PROVE  Written'
    BY <1>2 DEF OpenFile, Written
  <2>1. \A t \in Sessions : io'[t] \in {"first", "rest"} => t = s /\ io'[t] = "first"
    BY <1>2 DEF OpenFile, Writing, Shapes
  <2>2. s \in Writing'
    BY <1>2 DEF OpenFile, Writing, Shapes
  <2> QED
    BY <2>1, <2>2 DEF Written, Writing
<1>3. ASSUME NEW s \in Sessions, WriteFirst(s)
      PROVE  Written'
  <2> SUFFICES ASSUME ~spoiled
               PROVE  Written'
    BY <1>3 DEF WriteFirst, Written, history
  <2>1. s \in Writing /\ Writing' = Writing
    BY <1>3 DEF WriteFirst, Writing, Shapes
  <2>2. file'[1] = DB(s) /\ DB(s)' = DB(s)
    BY <1>3 DEF WriteFirst, Begun, Shapes, DB
  <2>3. \A t \in Sessions : io'[t] = "rest" => t \in Writing
    BY <2>1 DEF Writing
  <2> QED
    BY <2>1, <2>2, <2>3 DEF Written
<1>4. ASSUME NEW s \in Sessions, WriteRest(s)
      PROVE  Written'
  <2> SUFFICES ASSUME ~spoiled
               PROVE  Written'
    BY <1>4 DEF WriteRest, Written
  <2>1. s \in Writing /\ file[1] = DB(s)
    BY <1>4 DEF WriteRest, Writing, Written
  <2>2. \A t \in Sessions : io'[t] \notin {"first", "rest"}
    BY <1>4, <2>1 DEF WriteRest, Writing, Written, Shapes
  <2>3. saved' = DB(s)
    BY <1>4, <2>1 DEF WriteRest
  <2>4. file' = <<DB(s), DB(s)>>
    BY <1>4, <2>1 DEF WriteRest, Closed, Shapes
  <2> QED
    BY <2>2, <2>3, <2>4 DEF Written, Writing, Whole
<1>5. CASE Crash
  <2>1. Writing' = {} /\ \A t \in Sessions : io'[t] # "rest"
    BY <1>5 DEF Crash, Writing
  <2>2. UNCHANGED <<file, saved>> /\ (~spoiled' => ~spoiled /\ Writing = {})
    BY <1>5 DEF Crash
  <2> QED
    BY <2>1, <2>2 DEF Written, Whole
<1>6. CASE UNCHANGED vars
  BY <1>6 DEF vars, history, Written, Writing, Whole, DB
<1> QED
  BY <1>1, <1>2, <1>3, <1>4, <1>5, <1>6, StepsAside DEF Next, FileStep

(* While nobody writes, the file is what was backed up last, unless two    *)
(* wrote it at the same time or the server stopped amid writing            *)
(* (BackupUserDatabase).                                                   *)
THEOREM FileIsWhatWasSaved == Spec => []FileIsSaved
<1>1. Init => Shapes /\ Written
  BY ShapesInit, WrittenInit
<1>2. Shapes /\ Written /\ [Next]_vars => (Shapes /\ Written)'
  BY ShapesStep, WrittenStep
<1>3. Shapes /\ Written => FileIsSaved
  <2>1. file = <<NoDB, NoDB>> => Length = 0
    BY FS_EmptySet DEF Length
  <2> QED
    BY <2>1 DEF Written, Whole, FileIsSaved
<1> QED
  BY <1>1, <1>2, <1>3, PTL DEF Spec

-----------------------------------------------------------------------------
(* Books of users, and how they grow.                                      *)
IsBook(db) == \A u \in DOMAIN db : Person(db[u])

LEMMA ExtendsOrder ==
  ASSUME NEW db, IsBook(db)
  PROVE  /\ Extends(db, db)
         /\ \A new, more : IsBook(new) /\ IsBook(more)
              /\ Extends(new, db) /\ Extends(more, new) => Extends(more, db)
<1>1. Extends(db, db)
  BY PrefixOrder DEF IsBook, Person, Extends
<1>2. ASSUME NEW new, NEW more, IsBook(new), IsBook(more),
             Extends(new, db), Extends(more, new)
      PROVE  Extends(more, db)
  <2>1. DOMAIN db \subseteq DOMAIN more
    BY <1>2 DEF Extends
  <2>2. ASSUME NEW u \in DOMAIN db
        PROVE  IsPrefix(db[u].transactions, more[u].transactions)
    <3>1. u \in DOMAIN new /\ u \in DOMAIN more
      BY <1>2, <2>1 DEF Extends
    <3>2. /\ IsSeq(db[u].transactions) /\ IsSeq(new[u].transactions)
          /\ IsSeq(more[u].transactions)
      BY <1>2, <3>1 DEF IsBook, Person
    <3>3. /\ IsPrefix(db[u].transactions, new[u].transactions)
          /\ IsPrefix(new[u].transactions, more[u].transactions)
      BY <1>2, <3>1 DEF Extends
    <3> QED
      BY <3>2, <3>3, PrefixOrder
  <2> QED
    BY <2>1, <2>2 DEF Extends
<1> QED
  BY <1>1, <1>2

LEMMA NewUserPerson == Person(NewUser)
<1>1. <<>> \in Seq({})
  BY EmptySeq
<1> QED
  BY <1>1 DEF Person, NewUser, IsSeq

LEMMA AddedBook ==
  ASSUME NEW db, IsBook(db), NEW u, ~UserNameExists(db, u)
  PROVE  IsBook(addNewUser(db, u)) /\ Extends(addNewUser(db, u), db)
<1> DEFINE new == addNewUser(db, u)
<1>1. /\ DOMAIN new = DOMAIN db \cup {u} /\ new[u] = NewUser
      /\ \A v \in DOMAIN db : new[v] = db[v]
  BY DEF addNewUser, UserNameExists
<1> HIDE DEF new
<1>2. IsBook(new)
  BY <1>1, NewUserPerson DEF IsBook
<1>3. Extends(new, db)
  BY <1>1, PrefixOrder DEF IsBook, Person, Extends
<1> QED
  BY <1>2, <1>3 DEF new

LEMMA ChangedBook ==
  ASSUME NEW db, IsBook(db), NEW u \in DOMAIN db, NEW user, Longer(db[u], user)
  PROVE  LET new == [db EXCEPT ![u] = user]
         IN  IsBook(new) /\ Extends(new, db)
<1> DEFINE new == [db EXCEPT ![u] = user]
<1>1. /\ DOMAIN new = DOMAIN db /\ new[u] = user
      /\ \A v \in DOMAIN db \ {u} : new[v] = db[v]
  OBVIOUS
<1> HIDE DEF new
<1>2. IsBook(new)
  BY <1>1 DEF IsBook, Longer
<1>3. ASSUME NEW v \in DOMAIN db
      PROVE  IsPrefix(db[v].transactions, new[v].transactions)
  <2>1. CASE v = u
    BY <1>1, <2>1 DEF Longer
  <2>2. CASE v # u
    BY <1>1, <2>2, PrefixOrder DEF IsBook, Person
  <2> QED
    BY <2>1, <2>2
<1> QED
  BY <1>1, <1>2, <1>3 DEF Extends, new

LEMMA EmptyBook == IsBook(EmptyDB) /\ \A db : Extends(db, EmptyDB)
  BY DEF IsBook, EmptyDB, Extends

-----------------------------------------------------------------------------
(* The copies of the database are books; who is logged in is in the copy   *)
(* of the session; and a fresh session's copy has all that was saved.      *)
KnownTo(s) ==
  /\ DB(s) # NoDB \/ Current(s) # NoUser \/ io[s] \in {"open", "first", "rest"}
       \/ s \in fresh => IsBook(DB(s))
  /\ Current(s) # NoUser => Current(s) \in DOMAIN DB(s)
  /\ s \in fresh => Extends(DB(s), saved)

Known ==
  /\ IsBook(saved)
  /\ \A i \in {1, 2} : file[i] # NoDB => IsBook(file[i])
  /\ \A s \in Sessions : KnownTo(s)

LEMMA KnownInit == Init => Known
<1> SUFFICES ASSUME Init
             PROVE  Known
  OBVIOUS
<1>1. IsBook(FirstDB)
  <2> SUFFICES ASSUME NEW u \in DOMAIN FirstDB
               PROVE  Person(FirstDB[u])
    BY DEF IsBook
  <2>1. IsUser(FirstDB[u])
    BY FirstDBAssumption DEF IsDB
  <2> QED
    BY <2>1 DEF IsUser, Person, IsSeq
<1>2. \A i \in {1, 2} : file[i] \in {NoDB, FirstDB}
  BY DEF Init
<1>3. \A s \in Sessions : KnownTo(s)
  BY DEF Init, KnownTo, NewSession, DB, Current
<1> QED
  BY <1>1, <1>2, <1>3 DEF Known, Init

LEMMA ObtainKnown ==
  ASSUME Shapes, Known, NEW s \in Sessions, NEW db, IsBook(db), Obtain(s, db),
         UNCHANGED saved
  PROVE  KnownTo(s)'
<1>1. DB(s)' = db /\ Current(s)' = NoUser
  BY DEF Obtain, Shapes, DB, Current
<1>2. s \in fresh' => db = saved
  BY DEF Obtain
<1>3. Extends(saved, saved)
  BY ExtendsOrder DEF Known
<1> QED
  BY <1>1, <1>2, <1>3 DEF KnownTo

LEMMA RestoreKnown ==
  ASSUME Shapes, Known, NEW s \in Sessions, Restore(s) \/ RestoreRead(s)
  PROVE  KnownTo(s)'
<1>1. CASE Restore(s) /\ Length = 0
  BY <1>1, ObtainKnown, EmptyBook DEF Restore
<1>2. CASE Restore(s) /\ Length # 0
  BY <1>2 DEF Restore, Shapes, Known, KnownTo, DB, Current
<1>3. CASE RestoreRead(s) /\ Readable /\ Length > 0
  <2>1. file[1] # NoDB
    BY <1>3, FS_EmptySet DEF Readable, Length
  <2>2. IsBook(file[1])
    BY <2>1 DEF Known
  <2> QED
    BY <1>3, <2>2, ObtainKnown DEF RestoreRead
<1>4. CASE RestoreRead(s) /\ ~(Readable /\ Length > 0)
  BY <1>4 DEF RestoreRead, Shapes, Known, KnownTo, DB, Current
<1> QED
  BY <1>1, <1>2, <1>3, <1>4

LEMMA NewUserKnown ==
  ASSUME Shapes, Known, NEW s \in Sessions, NEW u, UserAccountCreated(s, u)
  PROVE  KnownTo(s)'
<1> DEFINE db  == IF DB(s) = NoDB THEN EmptyDB ELSE DB(s)
           new == IF UserNameExists(db, u) THEN db ELSE addNewUser(db, u)
<1>1. IsBook(db)
  BY EmptyBook DEF Known, KnownTo
<1>2. IsBook(new) /\ Extends(new, db)
  BY <1>1, AddedBook, ExtendsOrder
<1>3. DB(s)' = new /\ Current(s)' = NoUser /\ saved' = saved
  BY DEF UserAccountCreated, Shapes, DB, Current
<1>4. s \in fresh' => Extends(db, saved)
  BY EmptyBook DEF UserAccountCreated, Known, KnownTo
<1> HIDE DEF db, new
<1>5. s \in fresh' => Extends(new, saved)
  BY <1>1, <1>2, <1>4, ExtendsOrder DEF Known
<1> QED
  BY <1>2, <1>3, <1>5 DEF KnownTo

LEMMA BecomesKnown ==
  ASSUME Shapes, Known, NEW s \in Sessions, LoggedIn(s), NEW user,
         Becomes(s, user), Longer(Mine(s), user)
  PROVE  KnownTo(s)'
<1> DEFINE new == [DB(s) EXCEPT ![Current(s)] = user]
<1>1. IsBook(DB(s)) /\ Current(s) \in DOMAIN DB(s)
  BY DEF LoggedIn, Known, KnownTo
<1>2. IsBook(new) /\ Extends(new, DB(s))
  BY <1>1, ChangedBook DEF Mine
<1>3. DB(s)' = new /\ Current(s)' = Current(s)
  BY DEF Becomes, Shapes, DB, Current
<1>4. UNCHANGED <<saved, fresh>> /\ DOMAIN new = DOMAIN DB(s)
  BY DEF Becomes, history
<1> HIDE DEF new
<1>5. s \in fresh => Extends(new, saved)
  BY <1>1, <1>2, ExtendsOrder DEF Known, KnownTo
<1> QED
  BY <1>1, <1>2, <1>3, <1>4, <1>5 DEF KnownTo

LEMMA AsideKnown ==
  ASSUME Shapes, Known, NEW s \in Sessions,
         Servlet(s) \/ RestoreRead(s) \/ Expire(s)
  PROVE  KnownTo(s)' /\ fresh' \ {s} = fresh \ {s}
<1>1. CASE Restore(s) \/ RestoreRead(s)
  BY <1>1, RestoreKnown DEF Restore, RestoreRead, Obtain
<1>2. CASE LogsOut(s)
  BY <1>2 DEF LogsOut, Shapes, Known, KnownTo, DB, Current, history
<1>3. ASSUME NEW u, UserAccountCreated(s, u)
      PROVE  KnownTo(s)' /\ fresh' \ {s} = fresh \ {s}
  BY <1>3, NewUserKnown DEF UserAccountCreated
<1>4. ASSUME NEW u, HomePage(s, u)
      PROVE  KnownTo(s)' /\ fresh' \ {s} = fresh \ {s}
  <2>1. DB(s)' = DB(s) /\ Current(s)' \in
          IF UserNameExists(DB(s), u) THEN {u, Current(s)} ELSE {Current(s)}
    BY <1>4 DEF HomePage, Shapes, DB, Current
  <2>2. IsBook(DB(s)) /\ UNCHANGED <<saved, fresh>>
    BY <1>4 DEF HomePage, Known, KnownTo, history
  <2> QED
    BY <2>1, <2>2 DEF Known, KnownTo, UserNameExists
<1>5. ASSUME LoggedIn(s), NEW user, Becomes(s, user), Longer(Mine(s), user)
      PROVE  KnownTo(s)' /\ fresh' \ {s} = fresh \ {s}
  BY <1>5, BecomesKnown DEF Becomes, history
<1>6. CASE Expire(s)
  BY <1>6 DEF Expire, Shapes, Known, KnownTo, DB, Current, NewSession, Idle
<1>7. LoggedIn(s) => Person(Mine(s))
  BY DEF LoggedIn, Known, KnownTo, IsBook, Mine
<1>8. CASE BankAccountCreated(s)
  BY <1>5, <1>7, <1>8, MethodsLonger DEF BankAccountCreated
<1>9. CASE BankAccountDeleted(s)
  BY <1>5, <1>7, <1>9, MethodsLonger DEF BankAccountDeleted
<1>10. CASE TransactionCompleted(s)
  BY <1>5, <1>7, <1>10, MethodsLonger DEF TransactionCompleted
<1>11. CASE TransferCompleted(s)
  BY <1>5, <1>7, <1>11, MethodsLonger DEF TransferCompleted
<1> QED
  BY <1>1, <1>2, <1>3, <1>4, <1>6, <1>8, <1>9, <1>10, <1>11
  DEF Servlet, LoginPage, NewUserPage

LEMMA KnownStep ==
  ASSUME Shapes, Known, [Next]_vars
  PROVE  /\ Known'
         /\ \/ Extends(saved', saved)
            \/ \E s \in Sessions \ fresh : io[s] = "rest" /\ io'[s] = "idle"
<1> USE DEF Known
<1>1. Extends(saved, saved)
  BY ExtendsOrder
<1>2. ASSUME NEW s \in Sessions, Servlet(s) \/ RestoreRead(s) \/ Expire(s)
      PROVE  Known' /\ saved' = saved
  <2>1. Aside(s) /\ KnownTo(s)' /\ fresh' \ {s} = fresh \ {s}
    BY <1>2, StepsAside, AsideKnown
  <2>2. ASSUME NEW t \in Sessions \ {s}
        PROVE  KnownTo(t)'
    BY <2>1, <2>2 DEF Aside, KnownTo, DB, Current
  <2> QED
    BY <2>1, <2>2 DEF Aside
<1>3. ASSUME NEW s \in Sessions, OpenFile(s)
      PROVE  Known' /\ saved' = saved
  BY <1>3 DEF OpenFile, Emptied, Shapes, KnownTo, DB, Current
<1>4. ASSUME NEW s \in Sessions, WriteFirst(s)
      PROVE  Known' /\ saved' = saved
  <2>1. IsBook(DB(s))
    BY <1>4 DEF WriteFirst, KnownTo
  <2>2. \A i \in {1, 2} : file'[i] \in {file[i], DB(s)}
    BY <1>4 DEF WriteFirst, Begun, Shapes
  <2>3. \A t \in Sessions : KnownTo(t)'
    BY <1>4 DEF WriteFirst, Shapes, KnownTo, DB, Current, history
  <2> QED
    BY <1>4, <2>1, <2>2, <2>3 DEF WriteFirst, history
<1>5. ASSUME NEW s \in Sessions, WriteRest(s)
      PROVE  /\ Known'
             /\ \/ Extends(saved', saved)
                \/ s \notin fresh /\ io[s] = "rest" /\ io'[s] = "idle"
  <2>1. IsBook(DB(s))
    BY <1>5 DEF WriteRest, KnownTo
  <2>2. \A i \in {1, 2} : file'[i] \in {file[i], DB(s)}
    BY <1>5 DEF WriteRest, Closed, Shapes
  <2>3. UNCHANGED <<saved, fresh>> \/ saved' = DB(s)
    BY <1>5 DEF WriteRest
  <2>4. \A t \in fresh' : (t \in fresh /\ saved' = saved) \/ DB(t) = saved'
    BY <1>5 DEF WriteRest
  <2>5. Extends(saved', saved')
    BY <1>1, <2>1, <2>3, ExtendsOrder
  <2>6. ASSUME NEW t \in Sessions
        PROVE  KnownTo(t)'
    <3>1. DB(t)' = DB(t) /\ Current(t)' = Current(t)
      BY <1>5 DEF WriteRest, DB, Current
    <3>2. io'[t] \in {io[t], "idle"}
      BY <1>5 DEF WriteRest, Shapes
    <3>3. IsBook(saved')
      BY <2>1, <2>3
    <3>4. t \in fresh' => IsBook(DB(t)) /\ Extends(DB(t), saved')
      BY <2>4, <2>5, <3>3 DEF KnownTo
    <3> QED
      BY <3>1, <3>2, <3>4 DEF KnownTo
  <2>7. s \in fresh => Extends(saved', saved)
    BY <1>1, <2>3 DEF KnownTo
  <2> QED
    BY <1>5, <2>1, <2>2, <2>3, <2>6, <2>7, ShapesStep DEF WriteRest, Shapes
<1>6. ASSUME Crash
      PROVE  Known' /\ saved' = saved
  BY <1>6 DEF Crash, KnownTo, NewSession, DB, Current
<1>7. ASSUME UNCHANGED vars
      PROVE  Known' /\ saved' = saved
  BY <1>7 DEF vars, history, KnownTo, DB, Current
<1> QED
  BY <1>1, <1>2, <1>3, <1>4, <1>5, <1>6, <1>7 DEF Next, FileStep

(* A backup by a session that has in its database all that was saved       *)
(* before forgets no user and none of their transactions, whatever the     *)
(* other sessions do with their copies (HomePage).                         *)
THEOREM FreshForgets == Spec => FreshForgetsNothing
<1>1. Init => Shapes /\ Known
  BY ShapesInit, KnownInit
<1>2. Shapes /\ Known /\ [Next]_vars => (Shapes /\ Known)'
  BY ShapesStep, KnownStep
<1>3. Shapes /\ Known /\ [Next]_vars =>
        [Extends(saved', saved)
         \/ \E s \in Sessions \ fresh : io[s] = "rest" /\ io'[s] = "idle"]_vars
  BY KnownStep
<1> QED
  BY <1>1, <1>2, <1>3, PTL DEF Spec, FreshForgetsNothing
-----------------------------------------------------------------------------
(* How often something is in a sequence, or in a finite function.          *)
Places(t, f) == {i \in DOMAIN f : f[i] = t}

LEMMA OftenIs ==
  ASSUME NEW t, NEW f
  PROVE  Often(t, f) = Cardinality(Places(t, f))
  BY DEF Often, Places

LEMMA OftenIn ==
  ASSUME NEW t, NEW f, IsFiniteSet(DOMAIN f)
  PROVE  Often(t, f) \in Nat
<1>1. Places(t, f) \subseteq DOMAIN f
  BY DEF Places
<1> QED
  BY <1>1, OftenIs, FS_Subset, FS_CardinalityType

LEMMA SeqFinite ==
  ASSUME NEW s, IsSeq(s)
  PROVE  IsFiniteSet(DOMAIN s)
<1>1. Len(s) \in Nat /\ DOMAIN s = 1 .. Len(s)
  BY LenProperties DEF IsSeq
<1> QED
  BY <1>1, FS_Interval

(* One more element.                                                       *)
LEMMA OftenMore ==
  ASSUME NEW f, NEW g, NEW x, NEW t, IsFiniteSet(DOMAIN f),
         DOMAIN g = DOMAIN f \cup {x}, \A i \in DOMAIN f \ {x} : g[i] = f[i]
  PROVE  /\ IsFiniteSet(DOMAIN g) /\ Often(t, f) \in Nat /\ Often(t, g) \in Nat
         /\ Often(t, g) <= Often(t, f) + 1
         /\ g[x] # t => Often(t, g) <= Often(t, f)
         /\ x \notin DOMAIN f => /\ Often(t, f) <= Often(t, g)
                                 /\ g[x] = t => Often(t, g) = Often(t, f) + 1
<1> DEFINE F == Places(t, f)
           G == Places(t, g)
<1>1. IsFiniteSet(DOMAIN g)
  BY FS_AddElement
<1>2. F \subseteq DOMAIN f /\ G \subseteq DOMAIN g
  BY DEF Places
<1>3. G \subseteq F \cup {x} /\ (g[x] # t => G \subseteq F)
  BY DEF Places
<1>4. x \notin DOMAIN f => F \subseteq G /\ x \notin F
                           /\ (g[x] = t => G = F \cup {x})
  BY DEF Places
<1>5. Often(t, f) = Cardinality(F) /\ Often(t, g) = Cardinality(G)
  BY OftenIs
<1> HIDE DEF F, G
<1>6. IsFiniteSet(F) /\ IsFiniteSet(G)
  BY <1>1, <1>2, FS_Subset
<1>7. IsFiniteSet(F \cup {x})
      /\ Cardinality(F \cup {x}) = IF x \in F THEN Cardinality(F) ELSE Cardinality(F) + 1
  BY <1>6, FS_AddElement
<1>8. Cardinality(F) \in Nat /\ Cardinality(G) \in Nat
  BY <1>6, FS_CardinalityType
<1>9. Cardinality(G) <= Cardinality(F \cup {x})
  BY <1>3, <1>7, FS_Subset
<1>10. g[x] # t => Cardinality(G) <= Cardinality(F)
  BY <1>3, <1>6, FS_Subset
<1>11. x \notin DOMAIN f => Cardinality(F) <= Cardinality(G)
  BY <1>4, <1>6, FS_Subset
<1>12. Cardinality(G) <= Cardinality(F) + 1
  BY <1>7, <1>8, <1>9
<1>13. x \notin DOMAIN f /\ g[x] = t => Cardinality(G) = Cardinality(F) + 1
  BY <1>4, <1>7
<1> QED
  BY <1>1, <1>5, <1>8, <1>10, <1>11, <1>12, <1>13

(* What is new is one more of its kind.                                    *)
OneMore(f, g, x) ==
  /\ IsFiniteSet(DOMAIN f) /\ DOMAIN g = DOMAIN f \cup {x} /\ x \notin DOMAIN f
  /\ \A i \in DOMAIN f \ {x} : g[i] = f[i]

LEMMA OftenAdded ==
  ASSUME NEW f, NEW g, NEW x, NEW t, OneMore(f, g, x)
  PROVE  /\ Often(t, f) \in Nat /\ Often(t, g) \in Nat /\ Often(t, f) <= Often(t, g)
         /\ g[x] = t => Often(t, g) = Often(t, f) + 1
<1>1. x \notin DOMAIN f
  BY DEF OneMore
<1>2. /\ Often(t, f) \in Nat /\ Often(t, g) \in Nat
      /\ x \notin DOMAIN f => /\ Often(t, f) <= Often(t, g)
                              /\ g[x] = t => Often(t, g) = Often(t, f) + 1
  BY OftenMore, ZenonT(30) DEF OneMore
<1> QED
  BY <1>1, <1>2

LEMMA OftenConcat ==
  ASSUME NEW S, NEW s \in Seq(S), NEW d \in Seq(S), NEW t
  PROVE  /\ Often(t, s) \in Nat /\ Often(t, d) \in Nat
         /\ Often(t, s \o d) = Often(t, s) + Often(t, d)
<1> DEFINE n == Len(s)
           A == Places(t, s)
           B == Places(t, d)
           C == {n + i : i \in B}
           P == Places(t, s \o d)
<1>1. n \in Nat /\ DOMAIN s = 1 .. n /\ Len(d) \in Nat /\ DOMAIN d = 1 .. Len(d)
  BY LenProperties
<1>2. /\ s \o d \in Seq(S) /\ Len(s \o d) = n + Len(d)
      /\ \A i \in 1 .. n + Len(d) :
           (s \o d)[i] = IF i <= n THEN s[i] ELSE d[i - n]
  BY ConcatProperties
<1>3. DOMAIN (s \o d) = 1 .. n + Len(d)
  BY <1>2, LenProperties
<1> HIDE DEF n
<1>4. A \subseteq 1 .. n /\ B \subseteq 1 .. Len(d)
  BY <1>1 DEF Places
<1>5. P = A \cup C
  <2>1. ASSUME NEW i \in P
        PROVE  i \in A \cup C
    <3>1. i \in 1 .. n + Len(d) /\ (s \o d)[i] = t
      BY <1>3 DEF Places
    <3>2. CASE i <= n
      BY <1>1, <1>2, <3>1, <3>2 DEF Places
    <3>3. CASE ~(i <= n)
      <4>1. i - n \in 1 .. Len(d) /\ d[i - n] = t /\ i = n + (i - n)
        BY <1>1, <1>2, <3>1, <3>3
      <4>2. i - n \in B
        BY <1>1, <4>1 DEF Places
      <4> QED
        BY <4>1, <4>2
    <3> QED
      BY <3>2, <3>3
  <2>2. ASSUME NEW i \in A
        PROVE  i \in P
    <3>1. i \in 1 .. n /\ s[i] = t
      BY <1>1 DEF Places
    <3>2. i \in 1 .. n + Len(d) /\ (s \o d)[i] = t
      BY <1>1, <1>2, <3>1
    <3> QED
      BY <1>3, <3>2 DEF Places
  <2>3. ASSUME NEW j \in B
        PROVE  n + j \in P
    <3>1. j \in 1 .. Len(d) /\ d[j] = t
      BY <1>1 DEF Places
    <3>2. n + j \in 1 .. n + Len(d) /\ ~(n + j <= n) /\ (n + j) - n = j
      BY <1>1, <3>1
    <3>3. (s \o d)[n + j] = t
      BY <1>2, <3>1, <3>2
    <3> QED
      BY <1>3, <3>2, <3>3 DEF Places
  <2> HIDE DEF A, B, P
  <2> QED
    BY <2>1, <2>2, <2>3
<1>6. Often(t, s) = Cardinality(A) /\ Often(t, d) = Cardinality(B)
      /\ Often(t, s \o d) = Cardinality(P)
  BY OftenIs
<1> HIDE DEF A, B, P
<1>7. IsFiniteSet(A) /\ IsFiniteSet(B)
  <2>1. IsFiniteSet(1 .. n) /\ IsFiniteSet(1 .. Len(d))
    BY <1>1, FS_Interval
  <2> QED
    BY <1>4, <2>1, FS_Subset
<1>8. IsFiniteSet(C) /\ Cardinality(C) = Cardinality(B)
  <2> DEFINE h == [i \in B |-> n + i]
  <2>1. h \in Bijection(B, C)
    <3>1. h \in [B -> C] /\ \A c \in C : \E i \in B : h[i] = c
      OBVIOUS
    <3>2. \A i, j \in B : i # j => h[i] # h[j]
      BY <1>1, <1>4
    <3> HIDE DEF h
    <3> QED
      BY <3>1, <3>2 DEF Bijection, Injection, Surjection, IsInjective
  <2> HIDE DEF h, C
  <2>2. ExistsBijection(B, C)
    BY <2>1 DEF ExistsBijection
  <2> QED
    BY <1>7, <2>2, FS_Bijection
<1>9. A \cap C = {}
  BY <1>1, <1>4
<1> HIDE DEF C
<1>10. Cardinality(A \cup C) = Cardinality(A) + Cardinality(C) - Cardinality({})
  BY <1>7, <1>8, <1>9, FS_Union
<1>11. Cardinality(A) \in Nat /\ Cardinality(B) \in Nat /\ Cardinality({}) = 0
  BY <1>7, FS_CardinalityType, FS_EmptySet
<1> QED
  BY <1>5, <1>6, <1>8, <1>10, <1>11

-----------------------------------------------------------------------------
(* Requests of one session: a transaction that is in the log and not yet   *)
(* under a number is in the hands of its request.                          *)
Fields == {"pc", "legs", "opens", "name", "seen", "index", "t", "page"}
Holding == {"number", "put"}
Pending == {r \in Requests : req[r].pc \in Holding}
Due(t) == {r \in Pending : req[r].t = t}

Entered ==
  /\ DOMAIN req = Requests /\ \A r \in Requests : DOMAIN req[r] = Fields
  /\ IsFiniteSet(DOMAIN all) /\ IsFiniteSet(Pending) /\ IsSeq(written)
  /\ \A t : Often(t, all) + Cardinality(Due(t)) <= Often(t, written)

LEMMA EnteredStarts == Req!Init => Entered
<1> SUFFICES ASSUME NEW first \in FirstBooks, Req!Begins(first), Req!Init
             PROVE  Entered
  BY DEF Req!Init
<1> DEFINE s == first.transactions
<1>1. s \in Seq(Req!Transaction)
  <2>1. Req!IsUser(first)
    BY RequestsAssumption DEF Req!RequestsAssumption, Req!Sound
  <2> QED
    BY <2>1 DEF Req!IsUser
<1>2. /\ written = s /\ number = Len(s)
      /\ all = [i \in 0 .. number - 1 |-> s[i + 1]]
  BY DEF Req!Begins
<1> HIDE DEF s
<1>3. Len(s) \in Nat /\ DOMAIN s = 1 .. Len(s)
  BY <1>1, LenProperties
<1>4. DOMAIN all = 0 .. Len(s) - 1 /\ \A i \in DOMAIN all : all[i] = written[i + 1]
  BY <1>2
<1>5. IsFiniteSet(DOMAIN all)
  <2>1. PICK m : m = Len(s) - 1
    OBVIOUS
  <2>2. m \in Int
    BY <1>3, <2>1
  <2>3. IsFiniteSet(0 .. m)
    BY <2>2, FS_Interval
  <2> QED
    BY <1>4, <2>1, <2>3
<1>6. ASSUME NEW t
      PROVE  Often(t, all) <= Often(t, written) /\ Often(t, written) \in Nat
  <2> DEFINE A == Places(t, all)
             B == Places(t, written)
             h == [i \in A |-> i + 1]
  <2>1. \A i \in A : i \in Int /\ i + 1 \in B
    BY <1>2, <1>3, <1>4 DEF Places
  <2>2. IsFiniteSet(B)
    <3>1. B \subseteq DOMAIN s /\ IsFiniteSet(DOMAIN s)
      BY <1>2, <1>3, FS_Interval DEF Places
    <3> QED
      BY <3>1, FS_Subset
  <2>3. Often(t, all) = Cardinality(A) /\ Often(t, written) = Cardinality(B)
    BY OftenIs
  <2> HIDE DEF A, B
  <2>4. h \in Injection(A, B)
    BY <2>1 DEF Injection, IsInjective
  <2> HIDE DEF h
  <2> QED
    BY <2>2, <2>3, <2>4, FS_Injection, FS_CardinalityType
<1>7. /\ DOMAIN req = Requests
      /\ \A r \in Requests : DOMAIN req[r] = Fields /\ req[r].pc = "idle"
  BY DEF Req!Init, Req!Waiting, Fields
<1>8. Pending = {} /\ \A t : Due(t) = {}
  BY <1>7 DEF Pending, Due, Holding
<1>9. IsFiniteSet({}) /\ Cardinality({}) = 0
  BY FS_EmptySet
<1>10. \A t : Often(t, all) \in Nat
  BY <1>5, OftenIn
<1>11. IsSeq(written)
  BY <1>1, <1>2 DEF IsSeq
<1>12. ASSUME NEW t
       PROVE  Often(t, all) + Cardinality(Due(t)) <= Often(t, written)
  <2>1. Cardinality(Due(t)) = 0
    BY <1>8, <1>9
  <2> QED
    BY <2>1, <1>6, <1>10
<1>13. IsFiniteSet(Pending)
  BY <1>8, <1>9
<1> QED
  BY <1>5, <1>7, <1>11, <1>12, <1>13 DEF Entered

(* A step of r that neither logs nor puts.                                 *)
Quiet(r) ==
  /\ UNCHANGED <<all, written>>
  /\ DOMAIN req' = Requests /\ DOMAIN req'[r] = Fields
  /\ \A q \in Requests \ {r} : req'[q] = req[q]
  /\ req'[r].pc \in Holding => req[r].pc \in Holding /\ req'[r].t = req[r].t

LEMMA QuietEntered ==
  ASSUME Entered, NEW r \in Requests, Quiet(r)
  PROVE  Entered'
<1>1. Pending' \subseteq Pending /\ \A t : Due(t)' \subseteq Due(t)
  BY DEF Pending, Due, Quiet
<1>2. ASSUME NEW t
      PROVE  Often(t, all') + Cardinality(Due(t)') <= Often(t, written')
  <2>1. Often(t, all') = Often(t, all) /\ Often(t, written') = Often(t, written)
    BY DEF Quiet
  <2>2. Due(t) \subseteq Pending
    BY DEF Due
  <2>3. IsFiniteSet(Due(t)) /\ IsFiniteSet(Due(t)')
    BY <1>1, <2>2, FS_Subset DEF Entered
  <2>4. Cardinality(Due(t)') <= Cardinality(Due(t))
    BY <1>1, <2>3, FS_Subset
  <2>5. Often(t, all) \in Nat /\ Often(t, written) \in Nat
    BY OftenIn, SeqFinite DEF Entered
  <2>6. Cardinality(Due(t)) \in Nat /\ Cardinality(Due(t)') \in Nat
    BY <2>3, FS_CardinalityType
  <2>7. Often(t, all) + Cardinality(Due(t)) <= Often(t, written)
    BY DEF Entered
  <2> QED
    BY <2>1, <2>4, <2>5, <2>6, <2>7
<1>3. IsFiniteSet(Pending')
  BY <1>1, FS_Subset DEF Entered
<1>4. /\ DOMAIN req' = Requests /\ \A q \in Requests : DOMAIN req'[q] = Fields
      /\ all' = all /\ written' = written
  BY DEF Quiet, Entered
<1> QED
  BY <1>2, <1>3, <1>4 DEF Entered

(* The transaction goes into the log, ...                                  *)
LEMMA LogEntered ==
  ASSUME Entered, NEW r \in Requests, Req!At(r, "log"),
         Req!To(r, "number"), written' = Req!Logged(req[r].t), UNCHANGED all
  PROVE  Entered'
<1> PICK x : x = req[r].t
  OBVIOUS
<1>1. written' = Append(written, x)
  BY DEF Req!Logged
<1>2. /\ DOMAIN req' = Requests /\ \A q \in Requests : DOMAIN req'[q] = Fields
      /\ \A q \in Requests \ {r} : req'[q] = req[q]
      /\ req[r].pc = "log" /\ req'[r].pc = "number" /\ req'[r].t = x
  BY DEF Entered, Req!To, Req!At, Fields
<1>3. Pending' = Pending \cup {r}
  BY <1>2 DEF Pending, Holding
<1>4. Due(x)' = Due(x) \cup {r} /\ r \notin Due(x) /\ \A t : t # x => Due(t)' = Due(t)
  BY <1>2 DEF Due, Pending, Holding
<1>5. PICK S : written \in Seq(S)
  BY DEF Entered, IsSeq
<1>6. written \in Seq(S \cup {x}) /\ x \in S \cup {x}
  BY <1>5, SeqMonotonic
<1>7. /\ written' \in Seq(S \cup {x}) /\ Len(written') = Len(written) + 1
      /\ \A i \in 1 .. Len(written) : written'[i] = written[i]
      /\ written'[Len(written) + 1] = x
  BY <1>1, <1>6, AppendProperties
<1>8. /\ DOMAIN written = 1 .. Len(written) /\ DOMAIN written' = 1 .. Len(written')
      /\ Len(written) \in Nat
  BY <1>6, <1>7, LenProperties
<1>9. IsSeq(written') /\ IsFiniteSet(DOMAIN written)
  BY <1>7, <1>8, FS_Interval DEF IsSeq
<1> PICK e : e = Len(written) + 1
  OBVIOUS
<1>10. DOMAIN written' = DOMAIN written \cup {e} /\ e \notin DOMAIN written
       /\ \A i \in DOMAIN written \ {e} : written'[i] = written[i]
  BY <1>7, <1>8
<1>11. written'[e] = x
  BY <1>7
<1>12. IsFiniteSet(Pending')
  BY <1>3, FS_AddElement DEF Entered
<1>13. ASSUME NEW t
       PROVE  Often(t, all) + Cardinality(Due(t)') <= Often(t, written')
  <2>1. /\ Often(t, written) \in Nat /\ Often(t, written') \in Nat
        /\ Often(t, written) <= Often(t, written')
        /\ t = x => Often(t, written') = Often(t, written) + 1
    <3> PICK f, g : f = written /\ g = written'
      OBVIOUS
    <3>1. OneMore(f, g, e)
      BY <1>9, <1>10 DEF OneMore
    <3>2. g[e] = x
      BY <1>11
    <3>3. /\ Often(t, f) \in Nat /\ Often(t, g) \in Nat /\ Often(t, f) <= Often(t, g)
          /\ g[e] = t => Often(t, g) = Often(t, f) + 1
      BY <3>1, OftenAdded
    <3> QED
      BY <3>2, <3>3
  <2>2. Due(t) \subseteq Pending
    BY DEF Due
  <2>3. IsFiniteSet(Due(t)) /\ Cardinality(Due(t)) \in Nat
    BY <2>2, FS_Subset, FS_CardinalityType DEF Entered
  <2>4. Cardinality(Due(t)') = IF t = x THEN Cardinality(Due(t)) + 1
                                        ELSE Cardinality(Due(t))
    BY <1>4, <2>3, FS_AddElement
  <2>5. Often(t, all) \in Nat
    BY OftenIn DEF Entered
  <2>6. Often(t, all) + Cardinality(Due(t)) <= Often(t, written)
    BY DEF Entered
  <2> QED
    BY <2>1, <2>3, <2>4, <2>5, <2>6
<1>14. all' = all /\ IsFiniteSet(DOMAIN all)
  BY DEF Entered
<1> QED
  BY <1>2, <1>9, <1>12, <1>13, <1>14 DEF Entered

(* ... and then under a number.                                            *)
LEMMA PutEntered ==
  ASSUME Entered, NEW r \in Requests, Req!At(r, "put"), Req!To(r, "count"),
         UNCHANGED written,
         all' = [i \in DOMAIN all \cup {req[r].seen} |->
                   IF i = req[r].seen THEN req[r].t ELSE all[i]]
  PROVE  Entered'
<1> PICK x : x = req[r].t
  OBVIOUS
<1> PICK n : n = req[r].seen
  OBVIOUS
<1>1. /\ DOMAIN req' = Requests /\ \A q \in Requests : DOMAIN req'[q] = Fields
      /\ \A q \in Requests \ {r} : req'[q] = req[q]
      /\ req[r].pc = "put" /\ req[r].t = x /\ req'[r].pc = "count"
  BY DEF Entered, Req!To, Req!At, Fields
<1>2. all' = [i \in DOMAIN all \cup {n} |-> IF i = n THEN x ELSE all[i]]
  OBVIOUS
<1>3. /\ DOMAIN all' = DOMAIN all \cup {n} /\ all'[n] = x
      /\ \A i \in DOMAIN all \ {n} : all'[i] = all[i]
  BY <1>2
<1>4. Pending' = Pending \ {r}
  BY <1>1 DEF Pending, Holding
<1>5. r \in Due(x) /\ Due(x)' = Due(x) \ {r} /\ \A t : t # x => Due(t)' = Due(t)
  BY <1>1 DEF Due, Pending, Holding
<1>6. IsFiniteSet(Pending')
  BY <1>4, FS_RemoveElement DEF Entered
<1>7. IsFiniteSet(DOMAIN all) /\ IsFiniteSet(DOMAIN all')
  BY <1>3, FS_AddElement DEF Entered
<1>8. ASSUME NEW t
      PROVE  Often(t, all') + Cardinality(Due(t)') <= Often(t, written)
  <2>1. /\ Often(t, all) \in Nat /\ Often(t, all') \in Nat
        /\ Often(t, all') <= Often(t, all) + 1
        /\ t # x => Often(t, all') <= Often(t, all)
    <3> DEFINE g == all'
    <3>1. /\ DOMAIN g = DOMAIN all \cup {n} /\ g[n] = x
          /\ \A i \in DOMAIN all \ {n} : g[i] = all[i]
      BY <1>3
    <3> HIDE DEF g
    <3>2. /\ Often(t, all) \in Nat /\ Often(t, g) \in Nat
          /\ Often(t, g) <= Often(t, all) + 1
          /\ t # x => Often(t, g) <= Often(t, all)
      BY <1>7, <3>1, OftenMore
    <3> QED
      BY <3>2 DEF g
  <2>2. Due(t) \subseteq Pending
    BY DEF Due
  <2>3. IsFiniteSet(Due(t)) /\ Cardinality(Due(t)) \in Nat
    BY <2>2, FS_Subset, FS_CardinalityType DEF Entered
  <2>4. Cardinality(Due(t)') = IF t = x THEN Cardinality(Due(t)) - 1
                                        ELSE Cardinality(Due(t))
    BY <1>5, <2>3, FS_RemoveElement
  <2>5. Often(t, written) \in Nat
    BY OftenIn, SeqFinite DEF Entered
  <2>6. Often(t, all) + Cardinality(Due(t)) <= Often(t, written)
    BY DEF Entered
  <2> QED
    BY <2>1, <2>3, <2>4, <2>5, <2>6
<1>9. IsSeq(written') /\ written' = written
  BY DEF Entered
<1> QED
  BY <1>1, <1>6, <1>7, <1>8, <1>9 DEF Entered

LEMMA StartsQuiet ==
  ASSUME Entered, NEW r \in Requests, Req!Start(r)
  PROVE  Quiet(r)
<1>1. ASSUME NEW first, Req!Starts(r, first), DOMAIN first = Fields,
             first.pc \notin Holding
      PROVE  Quiet(r)
  <2>1. /\ UNCHANGED <<all, written>> /\ req' = [req EXCEPT ![r] = first]
    BY <1>1 DEF Req!Starts, Req!books
  <2> QED
    BY <1>1, <2>1 DEF Quiet, Entered
<1>2. ASSUME NEW leg PROVE Req!Entry(leg) \notin Holding
  BY DEF Req!Entry, Holding
<1>3. CASE Req!StartTransaction(r)
  BY <1>1, <1>2, <1>3 DEF Req!StartTransaction, Req!Asks, Req!Waiting, Fields
<1>4. CASE Req!StartTransfer(r)
  BY <1>1, <1>4 DEF Req!StartTransfer, Req!Asks, Req!Waiting, Fields, Holding
<1>5. CASE Req!StartOpening(r)
  BY <1>1, <1>5 DEF Req!StartOpening, Req!Asks, Req!Waiting, Fields, Holding
<1>6. CASE Req!StartRemoval(r)
  BY <1>1, <1>6 DEF Req!StartRemoval, Req!Asks, Req!Waiting, Fields, Holding
<1>7. CASE Req!StartPage(r)
  BY <1>1, <1>7 DEF Req!StartPage, Req!Asks, Req!Waiting, Fields, Holding
<1> QED
  BY <1>3, <1>4, <1>5, <1>6, <1>7 DEF Req!Start

LEMMA MovesQuiet ==
  ASSUME Entered, NEW r \in Requests, UNCHANGED <<all, written>>
  PROVE  /\ \A pc : Req!To(r, pc) /\ pc \notin Holding => Quiet(r)
         /\ \A value, pc : Req!Reads(r, value, pc)
              /\ (pc \in Holding => req[r].pc \in Holding) => Quiet(r)
<1>1. ASSUME NEW value, NEW place,
             req' = [req EXCEPT ![r].seen = value, ![r].pc = place],
             place \in Holding => req[r].pc \in Holding
      PROVE  Quiet(r)
  <2>1. /\ DOMAIN req' = Requests /\ DOMAIN req'[r] = Fields
        /\ req'[r].pc = place /\ req'[r].t = req[r].t
        /\ \A q \in Requests \ {r} : req'[q] = req[q]
    BY <1>1 DEF Entered, Fields
  <2> QED
    BY <1>1, <2>1 DEF Quiet
<1>2. ASSUME NEW place, Req!To(r, place), place \notin Holding
      PROVE  Quiet(r)
  <2>1. /\ DOMAIN req' = Requests /\ DOMAIN req'[r] = Fields
        /\ req'[r].pc = place
        /\ \A q \in Requests \ {r} : req'[q] = req[q]
    BY <1>2 DEF Entered, Fields, Req!To
  <2> QED
    BY <1>2, <2>1 DEF Quiet
<1> QED
  BY <1>1, <1>2 DEF Req!Reads

LEMMA RunsEntered ==
  ASSUME Entered, NEW r \in Requests, Req!Run(r)
  PROVE  Entered'
<1> USE DEF Holding
<1>1. CASE Req!Withdraw(r)
  <2>1. Quiet(r)
    BY <1>1, MovesQuiet DEF Req!Withdraw, Req!books
  <2> QED
    BY <2>1, QuietEntered
<1>2. CASE Req!addToBalance(r)
  <2>1. Quiet(r)
    BY <1>2, MovesQuiet DEF Req!addToBalance, Req!books
  <2> QED
    BY <2>1, QuietEntered
<1>3. CASE Req!addToTotalBalance(r)
  <2>1. Quiet(r)
    BY <1>3, MovesQuiet DEF Req!addToTotalBalance, Req!books
  <2> QED
    BY <2>1, QuietEntered
<1>4. CASE Req!NewTransaction(r)
  <2>1. CASE Req!At(r, "new")
    <3>1. Quiet(r)
      BY <1>4, <2>1 DEF Req!NewTransaction, Req!books, Req!At, Quiet, Entered, Fields
    <3> QED
      BY <3>1, QuietEntered
  <2>2. CASE Req!At(r, "log")
    BY <1>4, <2>2, LogEntered DEF Req!NewTransaction, Req!At
  <2> QED
    BY <1>4, <2>1, <2>2 DEF Req!NewTransaction
<1>5. CASE Req!StoreNew(r)
  <2>1. CASE Req!At(r, "put")
    BY <1>5, <2>1, PutEntered DEF Req!StoreNew, Req!At
  <2>2. CASE Req!At(r, "return")
    <3>1. Quiet(r)
      BY <1>5, <2>2 DEF Req!StoreNew, Req!books, Req!At, Quiet, Entered, Fields
    <3> QED
      BY <3>1, QuietEntered
  <2>3. CASE ~Req!At(r, "put") /\ ~Req!At(r, "return")
    <3>1. UNCHANGED <<all, written>>
      BY <1>5, <2>3 DEF Req!StoreNew, Req!books
    <3>2. Quiet(r)
      BY <1>5, <2>3, <3>1, MovesQuiet DEF Req!StoreNew, Req!At
    <3> QED
      BY <3>2, QuietEntered
  <2> QED
    BY <2>1, <2>2, <2>3
<1>6. CASE Req!AddKey(r)
  <2>1. ASSUME NEW leg PROVE Req!Entry(leg) \notin Holding
    BY DEF Req!Entry
  <2>2. UNCHANGED <<all, written>>
    BY <1>6 DEF Req!AddKey, Req!books
  <2>3. CASE Req!At(r, "size")
    BY <1>6, <2>2, <2>3, MovesQuiet, QuietEntered DEF Req!AddKey, Req!At
  <2>4. CASE Req!At(r, "key")
    <3> DEFINE rest == Tail(req[r].legs)
    <3>1. \/ Req!To(r, "map") \/ Req!To(r, "ends")
          \/ req' = [req EXCEPT ![r].legs = rest, ![r].pc = Req!Entry(rest[1])]
      BY <1>6, <2>4 DEF Req!AddKey, Req!At
    <3> HIDE DEF rest
    <3>2. CASE req' = [req EXCEPT ![r].legs = rest, ![r].pc = Req!Entry(rest[1])]
      <4>1. PICK pc : pc = Req!Entry(rest[1])
        OBVIOUS
      <4>2. pc \notin Holding /\ req' = [req EXCEPT ![r].legs = rest, ![r].pc = pc]
        BY <2>1, <3>2, <4>1
      <4>3. Quiet(r)
        BY <2>2, <4>2 DEF Quiet, Entered, Fields
      <4> QED
        BY <4>3, QuietEntered
    <3>3. CASE Req!To(r, "map") \/ Req!To(r, "ends")
      BY <2>2, <3>3, MovesQuiet, QuietEntered
    <3> QED
      BY <3>1, <3>2, <3>3
  <2> QED
    BY <1>6, <2>3, <2>4 DEF Req!AddKey
<1>7. CASE Req!OpenAccount(r)
  <2>1. UNCHANGED <<all, written>>
    BY <1>7 DEF Req!OpenAccount
  <2>2. CASE Req!At(r, "create")
    <3>1. Quiet(r)
      BY <1>7, <2>1, <2>2 DEF Req!OpenAccount, Req!At, Quiet, Entered, Fields
    <3> QED
      BY <3>1, QuietEntered
  <2>3. CASE ~Req!At(r, "create")
    BY <1>7, <2>1, <2>3, MovesQuiet, QuietEntered DEF Req!OpenAccount
  <2> QED
    BY <2>2, <2>3
<1>8. CASE Req!RemoveFromBooks(r)
  <2>1. Quiet(r)
    BY <1>8, MovesQuiet DEF Req!RemoveFromBooks
  <2> QED
    BY <2>1, QuietEntered
<1>9. CASE Req!CollectAccounts(r)
  <2>1. UNCHANGED <<all, written>> /\ req[r].pc = "collect"
    BY <1>9 DEF Req!CollectAccounts, Req!books, Req!At
  <2>2. PICK page :
          \/ Req!To(r, "show") \/ Req!To(r, "failed")
          \/ req' = [req EXCEPT ![r].page = page]
    BY <1>9 DEF Req!CollectAccounts
  <2>3. CASE req' = [req EXCEPT ![r].page = page]
    <3>1. Quiet(r)
      BY <2>1, <2>3 DEF Quiet, Entered, Fields
    <3> QED
      BY <3>1, QuietEntered
  <2> QED
    BY <2>1, <2>2, <2>3, MovesQuiet, QuietEntered
<1>10. CASE Req!ShowAccount(r)
  <2>1. UNCHANGED <<all, written>> /\ req[r].pc = "show"
    BY <1>10 DEF Req!ShowAccount, Req!books, Req!At
  <2>2. PICK page :
          \/ Req!To(r, "ends") \/ Req!To(r, "failed")
          \/ req' = [req EXCEPT ![r].page = page]
    BY <1>10 DEF Req!ShowAccount
  <2>3. CASE req' = [req EXCEPT ![r].page = page]
    <3>1. Quiet(r)
      BY <2>1, <2>3 DEF Quiet, Entered, Fields
    <3> QED
      BY <3>1, QuietEntered
  <2> QED
    BY <2>1, <2>2, <2>3, MovesQuiet, QuietEntered
<1>11. CASE Req!Ends(r)
  <2>1. Quiet(r)
    BY <1>11 DEF Req!Ends, Req!books, Req!Waiting, Quiet, Entered, Fields
  <2> QED
    BY <2>1, QuietEntered
<1> QED
  BY <1>1, <1>2, <1>3, <1>4, <1>5, <1>6, <1>7, <1>8, <1>9, <1>10, <1>11 DEF Req!Run

LEMMA EnteredKept ==
  ASSUME Entered, [Req!Next]_(Req!vars)
  PROVE  Entered'
<1>1. CASE UNCHANGED Req!vars
  BY <1>1 DEF Req!vars, Req!books, Entered, Pending, Due
<1> QED
  BY <1>1, StartsQuiet, QuietEntered, RunsEntered DEF Req!Next

(* Whatever the requests do to each other, each transaction that is kept   *)
(* is in the log file as often as it is kept (Transaction.log).            *)
LEMMA KeptIsLogged == Req!Spec => []Req!LogHasAll
<1>1. Entered => Req!LogHasAll
  <2> SUFFICES ASSUME Entered, NEW i \in DOMAIN all
               PROVE  Req!Often(all[i], all) <= Req!Often(all[i], written)
    BY DEF Req!LogHasAll
  <2>1. PICK t : t = all[i]
    OBVIOUS
  <2>2. Req!Often(t, all) = Often(t, all) /\ Req!Often(t, written) = Often(t, written)
    BY Zenon DEF Req!Often, Often, Req!Cardinality, Cardinality
  <2>3. Due(t) \subseteq Pending
    BY DEF Due
  <2>4. Cardinality(Due(t)) \in Nat
    BY <2>3, FS_Subset, FS_CardinalityType DEF Entered
  <2>5. Often(t, all) \in Nat /\ Often(t, written) \in Nat
    BY OftenIn, SeqFinite DEF Entered
  <2>6. Often(t, all) + Cardinality(Due(t)) <= Often(t, written)
    BY DEF Entered
  <2> QED
    BY <2>1, <2>2, <2>4, <2>5, <2>6
<1> QED
  BY <1>1, EnteredStarts, EnteredKept, PTL DEF Req!Spec

-----------------------------------------------------------------------------
(* Induction over the subsets of a finite set, on a set of them.           *)
Grows(S, T) ==
  {} \in T /\ \A s \in SUBSET S : \A x \in S \ s : s \in T => s \cup {x} \in T

LEMMA SubsetInduction ==
  ASSUME NEW S, IsFiniteSet(S), NEW T, Grows(S, T)
  PROVE  SUBSET S \subseteq T
<1> DEFINE N == Cardinality(S)
           C == {n \in 0 .. N : \A s \in SUBSET S : Cardinality(s) = n => s \in T}
<1>1. N \in Nat /\ \A s \in SUBSET S : IsFiniteSet(s) /\ Cardinality(s) \in 0 .. N
  <2>1. N \in Nat
    BY FS_CardinalityType
  <2>2. ASSUME NEW s \in SUBSET S
        PROVE  IsFiniteSet(s) /\ Cardinality(s) \in Nat /\ Cardinality(s) <= N
    BY FS_Subset, FS_CardinalityType
  <2> QED
    BY <2>1, <2>2
<1> HIDE DEF N
<1>2. 0 \in C
  BY <1>1, FS_EmptySet DEF Grows
<1>3. ASSUME NEW n \in 0 .. N - 1, n \in C
      PROVE  n + 1 \in C
  <2> SUFFICES ASSUME NEW s \in SUBSET S, Cardinality(s) = n + 1
               PROVE  s \in T
    BY <1>1
  <2>1. s # {}
    BY <1>1, FS_EmptySet
  <2> PICK x \in s : TRUE
    BY <2>1
  <2> DEFINE r == s \ {x}
  <2>2. Cardinality(r) = n
    <3>1. IsFiniteSet(s) /\ x \in s /\ n \in Int
      BY <1>1
    <3>2. Cardinality(r) = Cardinality(s) - 1
      BY <3>1, FS_RemoveElement
    <3> QED
      BY <3>1, <3>2
  <2>3. r \in SUBSET S /\ x \in S \ r /\ s = r \cup {x}
    OBVIOUS
  <2> HIDE DEF r
  <2>4. r \in T
    BY <1>3, <2>2, <2>3
  <2> QED
    BY <2>3, <2>4 DEF Grows
<1>4. 0 .. N \subseteq C
  <2> HIDE DEF C
  <2> QED
    BY <1>1, <1>2, <1>3, InductionTo
<1> QED
  BY <1>1, <1>4

-----------------------------------------------------------------------------
(* The sum of a function's values.                                         *)
Pick(s) == CHOOSE x \in s : TRUE

Adds(h, f) ==
  h = [s \in SUBSET DOMAIN f |->
         IF s = {} THEN 0 ELSE f[Pick(s)] + h[s \ {Pick(s)}]]

Summing(h, f) == h \in [SUBSET DOMAIN f -> Int] /\ Adds(h, f)

FirstAny(h, f) ==
  \A s \in SUBSET DOMAIN f : \A x \in s : h[s] = f[x] + h[s \ {x}]

Amounting(f) == IsFiniteSet(DOMAIN f) /\ \A x \in DOMAIN f : f[x] \in Int

LEMMA SumIs ==
  ASSUME NEW f
  PROVE  SumFunction(f) = (CHOOSE h : Adds(h, f))[DOMAIN f]
  BY DEF SumFunction, SumFunctionOnSet, FoldFunctionOnSet, MapThenFoldSet, Adds, Pick

LEMMA PickIn ==
  ASSUME NEW s, s # {}
  PROVE  Pick(s) \in s
  BY DEF Pick

(* There is such a function, first on the small subsets.                   *)
Small(f, n) == {s \in SUBSET DOMAIN f : Cardinality(s) <= n}

LEMMA AddsExists ==
  ASSUME NEW f, Amounting(f)
  PROVE  \E h : Summing(h, f)
<1> DEFINE S == DOMAIN f
           N == Cardinality(S)
           AddsTo(h, n) ==
             /\ h \in [Small(f, n) -> Int]
             /\ \A s \in Small(f, n) :
                  h[s] = IF s = {} THEN 0 ELSE f[Pick(s)] + h[s \ {Pick(s)}]
           C == {n \in 0 .. N : \E h : AddsTo(h, n)}
<1>1. N \in Nat /\ \A s \in SUBSET S : IsFiniteSet(s) /\ Cardinality(s) \in 0 .. N
  <2>1. N \in Nat
    BY FS_CardinalityType DEF Amounting
  <2>2. ASSUME NEW s \in SUBSET S
        PROVE  IsFiniteSet(s) /\ Cardinality(s) \in Nat /\ Cardinality(s) <= N
    BY FS_Subset, FS_CardinalityType DEF Amounting
  <2> QED
    BY <2>1, <2>2
<1>2. ASSUME NEW s \in SUBSET S, s # {}
      PROVE  /\ Pick(s) \in S /\ s \ {Pick(s)} \in SUBSET S
             /\ Cardinality(s \ {Pick(s)}) = Cardinality(s) - 1
  BY <1>1, <1>2, PickIn, FS_RemoveElement
<1> HIDE DEF N
<1>3. 0 \in C
  <2> DEFINE h == [s \in Small(f, 0) |-> 0]
  <2>1. \A s \in Small(f, 0) : s = {}
    BY <1>1, FS_EmptySet DEF Small
  <2>2. AddsTo(h, 0)
    BY <2>1
  <2> HIDE DEF h, AddsTo
  <2> QED
    BY <1>1, <2>2
<1>4. ASSUME NEW n \in 0 .. N - 1, n \in C
      PROVE  n + 1 \in C
  <2>1. PICK h : AddsTo(h, n)
    BY <1>4
  <2> DEFINE value(s) == IF s \in Small(f, n) THEN h[s]
                         ELSE f[Pick(s)] + h[s \ {Pick(s)}]
             g == [s \in Small(f, n + 1) |-> value(s)]
  <2>2. n \in Nat /\ n + 1 \in 0 .. N
    BY <1>1
  <2>3. ASSUME NEW s \in Small(f, n + 1), s \notin Small(f, n)
        PROVE  s # {} /\ f[Pick(s)] \in Int /\ s \ {Pick(s)} \in Small(f, n)
    <3>1. s \in SUBSET S /\ Cardinality(s) = n + 1
      BY <1>1, <2>2, <2>3 DEF Small
    <3>2. s # {}
      BY <2>2, <3>1, FS_EmptySet
    <3> QED
      BY <1>2, <2>2, <3>1, <3>2 DEF Small, Amounting
  <2>4. ASSUME NEW s \in Small(f, n)
        PROVE  /\ s \in Small(f, n + 1) /\ h[s] \in Int
               /\ s # {} => s \ {Pick(s)} \in Small(f, n)
               /\ h[s] = IF s = {} THEN 0 ELSE f[Pick(s)] + h[s \ {Pick(s)}]
    <3>1. s \in SUBSET S /\ Cardinality(s) \in Nat /\ Cardinality(s) <= n
      BY <1>1 DEF Small
    <3>2. s \in Small(f, n + 1) /\ h[s] \in Int
      BY <2>1, <2>2, <3>1 DEF Small
    <3>3. s # {} => s \ {Pick(s)} \in Small(f, n)
      BY <1>2, <2>2, <3>1 DEF Small
    <3> QED
      BY <2>1, <3>2, <3>3
  <2>5. \A s \in Small(f, n) : h[s] \in Int
    BY <2>4
  <2>6. g \in [Small(f, n + 1) -> Int]
    <3>1. ASSUME NEW s \in Small(f, n + 1)
          PROVE  value(s) \in Int
      BY <2>3, <2>5
    <3> HIDE DEF value
    <3> QED
      BY <3>1
  <2>7. ASSUME NEW s \in Small(f, n + 1)
        PROVE  g[s] = IF s = {} THEN 0 ELSE f[Pick(s)] + g[s \ {Pick(s)}]
    <3>1. CASE s \in Small(f, n)
      BY <2>4, <3>1
    <3>2. CASE s \notin Small(f, n)
      BY <2>3, <2>4, <3>2
    <3> QED
      BY <3>1, <3>2
  <2>8. AddsTo(g, n + 1)
    BY <2>6, <2>7
  <2> HIDE DEF g, AddsTo
  <2> QED
    BY <2>2, <2>8
<1>5. N \in C
  <2> HIDE DEF C
  <2>1. 0 .. N \subseteq C
    BY <1>1, <1>3, <1>4, InductionTo
  <2> QED
    BY <1>1, <2>1
<1>6. PICK h : AddsTo(h, N)
  BY <1>5
<1>7. Small(f, N) = SUBSET S
  BY <1>1 DEF Small
<1>8. Adds(h, f) /\ h \in [SUBSET S -> Int]
  BY <1>6, <1>7 DEF Adds
<1> QED
  BY <1>8 DEF Summing

(* Whatever element comes first, the sum is the same.                      *)
LEMMA AnyFirst ==
  ASSUME NEW f, Amounting(f), NEW h, Summing(h, f)
  PROVE  FirstAny(h, f)
<1> DEFINE S == DOMAIN f
           N == Cardinality(S)
           C == {n \in 0 .. N : \A s \in SUBSET S : \A x \in s :
                   Cardinality(s) = n => h[s] = f[x] + h[s \ {x}]}
<1>1. N \in Nat /\ \A s \in SUBSET S : IsFiniteSet(s) /\ Cardinality(s) \in 0 .. N
  <2>1. N \in Nat
    BY FS_CardinalityType DEF Amounting
  <2>2. ASSUME NEW s \in SUBSET S
        PROVE  IsFiniteSet(s) /\ Cardinality(s) \in Nat /\ Cardinality(s) <= N
    BY FS_Subset, FS_CardinalityType DEF Amounting
  <2> QED
    BY <2>1, <2>2
<1>2. \A s \in SUBSET S : \A x \in s :
        Cardinality(s \ {x}) = Cardinality(s) - 1 /\ s \ {x} \in SUBSET S
  BY <1>1, FS_RemoveElement
<1>3. \A s \in SUBSET S : s # {} => Pick(s) \in s /\ h[s] = f[Pick(s)] + h[s \ {Pick(s)}]
  BY PickIn DEF Summing, Adds
<1>4. (\A x \in S : f[x] \in Int) /\ \A s \in SUBSET S : h[s] \in Int
  BY DEF Amounting, Summing
<1> HIDE DEF N
<1>5. 0 \in C
  <2>1. \A s \in SUBSET S : Cardinality(s) = 0 => s = {}
    BY <1>1, FS_EmptySet
  <2> QED
    BY <1>1, <2>1
<1>6. ASSUME NEW n \in 0 .. N - 1, n \in C
      PROVE  n + 1 \in C
  <2> SUFFICES ASSUME NEW s \in SUBSET S, NEW x \in s, Cardinality(s) = n + 1
               PROVE  h[s] = f[x] + h[s \ {x}]
    BY <1>1
  <2> PICK y : y = Pick(s)
    OBVIOUS
  <2>1. y \in s /\ h[s] = f[y] + h[s \ {y}]
    BY <1>3
  <2>2. CASE y = x
    BY <2>1, <2>2
  <2>3. CASE y # x
    <3>1. x \in s \ {y} /\ y \in s \ {x} /\ n \in Int
      BY <2>1, <2>3
    <3>2. /\ s \ {y} \in SUBSET S /\ Cardinality(s \ {y}) = n
          /\ s \ {x} \in SUBSET S /\ Cardinality(s \ {x}) = n
      BY <1>2, <2>1, <3>1
    <3>3. h[s \ {y}] = f[x] + h[(s \ {y}) \ {x}]
      BY <1>6, <3>1, <3>2
    <3>4. h[s \ {x}] = f[y] + h[(s \ {x}) \ {y}]
      BY <1>6, <3>1, <3>2
    <3>5. (s \ {x}) \ {y} = (s \ {y}) \ {x} /\ (s \ {x}) \ {y} \in SUBSET S
      OBVIOUS
    <3> PICK a, b, c : a = f[x] /\ b = f[y] /\ c = h[(s \ {y}) \ {x}]
      OBVIOUS
    <3>6. a \in Int /\ b \in Int /\ c \in Int
      BY <1>4, <2>1, <3>5
    <3>7. h[s] = b + (a + c) /\ h[s \ {x}] = b + c
      BY <2>1, <3>3, <3>4, <3>5
    <3> QED
      BY <3>6, <3>7
  <2> QED
    BY <2>2, <2>3
<1>7. 0 .. N \subseteq C
  <2> HIDE DEF C
  <2> QED
    BY <1>1, <1>5, <1>6, InductionTo
<1> QED
  BY <1>1, <1>7 DEF FirstAny

(* Functions that agree have the same sums.                                *)
LEMMA SumsAgree ==
  ASSUME NEW f, Amounting(f), NEW h, Summing(h, f),
         NEW g, Amounting(g), NEW k, Summing(k, g),
         NEW S, S \subseteq DOMAIN f, S \subseteq DOMAIN g,
         \A x \in S : f[x] = g[x]
  PROVE  h[S] = k[S]
<1> DEFINE T == {s \in SUBSET S : h[s] = k[s]}
<1>1. IsFiniteSet(S)
  BY FS_Subset DEF Amounting
<1>2. FirstAny(h, f) /\ FirstAny(k, g)
  BY AnyFirst
<1>3. {} \in T
  BY DEF Summing, Adds
<1>4. ASSUME NEW s \in SUBSET S, NEW x \in S \ s, s \in T
      PROVE  s \cup {x} \in T
  <2> PICK u : u = s \cup {x}
    OBVIOUS
  <2>1. u \in SUBSET S /\ u \in SUBSET DOMAIN f /\ u \in SUBSET DOMAIN g /\ u \ {x} = s /\ x \in u
    OBVIOUS
  <2>2. h[u] = f[x] + h[s]
    BY <1>2, <2>1 DEF FirstAny
  <2>3. k[u] = g[x] + k[s]
    BY <1>2, <2>1 DEF FirstAny
  <2> QED
    BY <1>4, <2>1, <2>2, <2>3
<1>5. SUBSET S \subseteq T
  <2>1. Grows(S, T)
    <3> HIDE DEF T
    <3> QED
      BY <1>3, <1>4 DEF Grows
  <2> HIDE DEF T
  <2> QED
    BY <1>1, <2>1, SubsetInduction
<1> QED
  BY <1>5

LEMMA SumHas ==
  ASSUME NEW f, Amounting(f)
  PROVE  \E h : Summing(h, f) /\ SumFunction(f) = h[DOMAIN f]
<1>1. \E h : Adds(h, f)
  BY AddsExists DEF Summing
<1> DEFINE h == CHOOSE h : Adds(h, f)
<1>2. Adds(h, f)
  BY <1>1
<1>3. PICK k : Adds(k, f) /\ k \in [SUBSET DOMAIN f -> Int]
  BY AddsExists DEF Summing
<1> HIDE DEF h
<1>4. h \in [SUBSET DOMAIN f -> Int]
  <2>1. DOMAIN h = SUBSET DOMAIN f /\ h = [s \in SUBSET DOMAIN f |-> h[s]]
    BY <1>2 DEF Adds
  <2> DEFINE T == {s \in SUBSET DOMAIN f : h[s] = k[s]}
             N == Cardinality(DOMAIN f)
             C == {n \in 0 .. N : \A s \in SUBSET DOMAIN f :
                     Cardinality(s) = n => h[s] = k[s]}
  <2>2. N \in Nat /\ \A s \in SUBSET DOMAIN f :
          IsFiniteSet(s) /\ Cardinality(s) \in 0 .. N
    <3>1. N \in Nat
      BY FS_CardinalityType DEF Amounting
    <3>2. ASSUME NEW s \in SUBSET DOMAIN f
          PROVE  IsFiniteSet(s) /\ Cardinality(s) \in Nat /\ Cardinality(s) <= N
      BY FS_Subset, FS_CardinalityType DEF Amounting
    <3> QED
      BY <3>1, <3>2
  <2> HIDE DEF N
  <2>3. 0 \in C
    <3>1. \A s \in SUBSET DOMAIN f : Cardinality(s) = 0 => s = {}
      BY <2>2, FS_EmptySet
    <3>2. h[{}] = 0 /\ k[{}] = 0
      BY <1>2, <1>3 DEF Adds
    <3> QED
      BY <2>2, <3>1, <3>2
  <2>4. ASSUME NEW n \in 0 .. N - 1, n \in C
        PROVE  n + 1 \in C
    <3> SUFFICES ASSUME NEW s \in SUBSET DOMAIN f, Cardinality(s) = n + 1
                 PROVE  h[s] = k[s]
      BY <2>2
    <3>1. s # {} /\ n \in Int
      BY <2>2, FS_EmptySet
    <3>2. Pick(s) \in s
      BY <3>1, PickIn
    <3>3. Cardinality(s \ {Pick(s)}) = Cardinality(s) - 1
      BY <2>2, <3>2, FS_RemoveElement
    <3>4. h[s \ {Pick(s)}] = k[s \ {Pick(s)}]
      BY <2>4, <3>1, <3>3
    <3> QED
      BY <1>2, <1>3, <3>1, <3>4 DEF Adds
  <2>5. 0 .. N \subseteq C
    <3> HIDE DEF C
    <3> QED
      BY <2>2, <2>3, <2>4, InductionTo
  <2>6. \A s \in SUBSET DOMAIN f : h[s] = k[s] /\ k[s] \in Int
    BY <1>3, <2>2, <2>5
  <2> QED
    BY <2>1, <2>6
<1> QED
  BY <1>2, <1>4, SumIs DEF h, Summing

LEMMA SumIsInt ==
  ASSUME NEW f, Amounting(f)
  PROVE  SumFunction(f) \in Int /\ (DOMAIN f = {} => SumFunction(f) = 0)
<1>1. PICK h : Summing(h, f) /\ SumFunction(f) = h[DOMAIN f]
  BY SumHas
<1>2. DOMAIN f \in SUBSET DOMAIN f
  OBVIOUS
<1>3. DOMAIN f = {} => h[DOMAIN f] = 0
  BY <1>1, <1>2 DEF Summing, Adds
<1> QED
  BY <1>1, <1>2, <1>3 DEF Summing

(* One more value.                                                         *)
LEMMA SumWith ==
  ASSUME NEW f, Amounting(f), NEW g, NEW x, x \notin DOMAIN f,
         DOMAIN g = DOMAIN f \cup {x}, g[x] \in Int,
         \A y \in DOMAIN f : g[y] = f[y]
  PROVE  Amounting(g) /\ SumFunction(g) = SumFunction(f) + g[x]
<1>1. Amounting(g)
  BY FS_AddElement DEF Amounting
<1>2. PICK h : Summing(h, f) /\ SumFunction(f) = h[DOMAIN f]
  BY SumHas
<1>3. PICK k : Summing(k, g) /\ SumFunction(g) = k[DOMAIN g]
  BY <1>1, SumHas
<1> PICK S, U : S = DOMAIN f /\ U = DOMAIN g
  OBVIOUS
<1>4. U \in SUBSET DOMAIN g /\ x \in U /\ U \ {x} = S /\ S \in SUBSET DOMAIN g
  OBVIOUS
<1>5. k[U] = g[x] + k[S]
  BY <1>1, <1>3, <1>4, AnyFirst DEF FirstAny
<1>6. S \subseteq DOMAIN f /\ S \subseteq DOMAIN g /\ \A y \in S : f[y] = g[y]
  OBVIOUS
<1>7. h[S] = k[S]
  BY <1>1, <1>2, <1>3, <1>6, SumsAgree
<1>8. k[S] \in Int
  BY <1>3, <1>4 DEF Summing
<1> QED
  BY <1>1, <1>2, <1>3, <1>5, <1>7, <1>8

(* One other value.                                                        *)
LEMMA SumChanged ==
  ASSUME NEW f, Amounting(f), NEW g, NEW x \in DOMAIN f, DOMAIN g = DOMAIN f,
         g[x] \in Int, \A y \in DOMAIN f \ {x} : g[y] = f[y]
  PROVE  Amounting(g) /\ SumFunction(g) = SumFunction(f) + (g[x] - f[x])
<1> DEFINE r == [y \in DOMAIN f \ {x} |-> f[y]]
<1>1. Amounting(r)
  BY FS_RemoveElement DEF Amounting
<1>2. /\ x \notin DOMAIN r /\ DOMAIN f = DOMAIN r \cup {x}
      /\ \A y \in DOMAIN r : f[y] = r[y] /\ g[y] = r[y]
  OBVIOUS
<1> HIDE DEF r
<1>3. f[x] \in Int
  BY DEF Amounting
<1>4. SumFunction(f) = SumFunction(r) + f[x]
  BY <1>1, <1>2, <1>3, SumWith
<1>5. DOMAIN g = DOMAIN r \cup {x} /\ \A y \in DOMAIN r : g[y] = r[y]
  BY <1>2
<1>6. Amounting(g) /\ SumFunction(g) = SumFunction(r) + g[x]
  BY <1>1, <1>2, <1>5, SumWith
<1>7. SumFunction(r) \in Int
  BY <1>1, SumIsInt
<1> QED
  BY <1>3, <1>4, <1>6, <1>7

LEMMA SumOfNone ==
  ASSUME NEW f, IsFiniteSet(DOMAIN f), \A x \in DOMAIN f : f[x] = 0
  PROVE  Amounting(f) /\ SumFunction(f) = 0
<1>1. Amounting(f)
  BY DEF Amounting
<1>2. PICK h : Summing(h, f) /\ SumFunction(f) = h[DOMAIN f]
  BY <1>1, SumHas
<1>3. FirstAny(h, f)
  BY <1>1, <1>2, AnyFirst
<1> PICK S : S = DOMAIN f
  OBVIOUS
<1> DEFINE T == {s \in SUBSET S : h[s] = 0}
<1>4. {} \in T
  BY <1>2 DEF Summing, Adds
<1>5. ASSUME NEW s \in SUBSET S, NEW x \in S \ s, s \in T
      PROVE  s \cup {x} \in T
  <2> PICK u : u = s \cup {x}
    OBVIOUS
  <2>1. u \in SUBSET S /\ u \ {x} = s /\ x \in u
    OBVIOUS
  <2>2. h[u] = f[x] + h[s]
    BY <1>3, <2>1 DEF FirstAny
  <2> QED
    BY <1>5, <2>1, <2>2
<1>6. SUBSET S \subseteq T
  <2>1. Grows(S, T)
    <3> HIDE DEF T
    <3> QED
      BY <1>4, <1>5 DEF Grows
  <2> HIDE DEF T
  <2> QED
    BY <2>1, SubsetInduction
<1> QED
  BY <1>1, <1>2, <1>6

-----------------------------------------------------------------------------
(* What the methods do to a user whose books and lists agree.              *)
Balances(user) == [a \in Accounts |-> user.accounts[a].balance]
MovesOf(T, keys) == [i \in DOMAIN keys |-> Moved(T[keys[i]])]
Moves(user, a) == MovesOf(user.transactions, user.accounts[a].keys)

LEMMA BooksAre ==
  ASSUME NEW user
  PROVE  BooksAgree(user) <=>
           /\ user.total = SumFunction(Balances(user))
           /\ \A a \in Accounts :
                LET acc == user.accounts[a]
                IN  /\ acc.balance >= 0 /\ acc.balance = SumFunction(Moves(user, a))
                    /\ acc.keys # <<>> =>
                         user.transactions[Last(acc.keys)].result = acc.balance
  BY Zenon DEF BooksAgree, Balances, Moves, MovesOf

LEMMA MovedIsInt ==
  ASSUME NEW t \in Transaction
  PROVE  Moved(t) \in Int
  BY DEF Transaction, Moved, Change

LEMMA SoundParts ==
  ASSUME NEW user, Sound(user)
  PROVE  /\ user = [accounts |-> user.accounts, lists |-> user.lists,
                    total |-> user.total, transactions |-> user.transactions]
         /\ user.accounts \in [Accounts -> BankAccount]
         /\ user.lists \in [Types -> Seq(Accounts)] /\ user.total \in Int
         /\ user.transactions \in Seq(Transaction)
         /\ Amounting(Balances(user)) /\ DOMAIN Balances(user) = Accounts
         /\ \A a \in Accounts :
              /\ user.accounts[a] = [type |-> user.accounts[a].type,
                   balance |-> user.accounts[a].balance, keys |-> user.accounts[a].keys]
              /\ user.accounts[a].type \in Types \cup {NoType}
              /\ user.accounts[a].balance \in Int
              /\ user.accounts[a].keys \in Seq(Nat)
              /\ \A i \in DOMAIN user.accounts[a].keys :
                   user.accounts[a].keys[i] \in DOMAIN user.transactions
              /\ Amounting(Moves(user, a))
<1>1. /\ user = [accounts |-> user.accounts, lists |-> user.lists,
                 total |-> user.total, transactions |-> user.transactions]
      /\ user.accounts \in [Accounts -> BankAccount]
      /\ user.lists \in [Types -> Seq(Accounts)] /\ user.total \in Int
      /\ user.transactions \in Seq(Transaction)
  BY DEF Sound, IsUser
<1>2. ASSUME NEW a \in Accounts
      PROVE  /\ user.accounts[a] = [type |-> user.accounts[a].type,
                  balance |-> user.accounts[a].balance, keys |-> user.accounts[a].keys]
             /\ user.accounts[a].type \in Types \cup {NoType}
             /\ user.accounts[a].balance \in Int
             /\ user.accounts[a].keys \in Seq(Nat)
  <2>1. user.accounts[a] \in BankAccount
    BY <1>1
  <2> QED
    BY <2>1 DEF BankAccount
<1>3. Amounting(Balances(user)) /\ DOMAIN Balances(user) = Accounts
  BY <1>2, AccountsAssumption DEF Amounting, Balances
<1>4. ASSUME NEW a \in Accounts
      PROVE  /\ \A i \in DOMAIN user.accounts[a].keys :
                  user.accounts[a].keys[i] \in DOMAIN user.transactions
             /\ Amounting(Moves(user, a))
  <2>1. \A i \in DOMAIN user.accounts[a].keys :
          user.accounts[a].keys[i] \in DOMAIN user.transactions
    BY DEF Sound, ToSet
  <2>2. \A i \in DOMAIN user.transactions : user.transactions[i] \in Transaction
    BY <1>1, ElementOfSeq, LenProperties
  <2>3. IsFiniteSet(DOMAIN user.accounts[a].keys)
    BY <1>2, SeqFinite DEF IsSeq
  <2>4. \A i \in DOMAIN user.accounts[a].keys : Moves(user, a)[i] \in Int
    BY <2>1, <2>2, MovedIsInt DEF Moves, MovesOf
  <2> QED
    BY <2>1, <2>3, <2>4 DEF Amounting, Moves, MovesOf
<1> QED
  BY <1>1, <1>2, <1>3, <1>4

IsRecord(user) ==
  /\ DOMAIN user = {"accounts", "lists", "total", "transactions"}
  /\ user = [f \in DOMAIN user |-> user[f]]
  /\ DOMAIN user.accounts = Accounts
  /\ user.accounts = [a \in Accounts |-> user.accounts[a]]

LEMMA UserIs ==
  ASSUME NEW user
  PROVE  IsUser(user) <=>
           /\ IsRecord(user)
           /\ user.accounts \in [Accounts -> BankAccount]
           /\ user.lists \in [Types -> Seq(Accounts)]
           /\ user.total \in Int /\ user.transactions \in Seq(Transaction)
<1>1. IsUser(user) => IsRecord(user)
  BY DEF IsUser, IsRecord
<1>2. IsRecord(user) =>
        user = [accounts |-> user.accounts, lists |-> user.lists,
                total |-> user.total, transactions |-> user.transactions]
  BY DEF IsRecord
<1> QED
  BY <1>1, <1>2 DEF IsUser

IsAccount(acc) ==
  /\ DOMAIN acc = {"type", "balance", "keys"}
  /\ acc = [f \in DOMAIN acc |-> acc[f]]

LEMMA AccountIs ==
  ASSUME NEW acc
  PROVE  acc \in BankAccount <=>
           /\ IsAccount(acc) /\ acc.type \in Types \cup {NoType}
           /\ acc.balance \in Int /\ acc.keys \in Seq(Nat)
<1>1. acc \in BankAccount => IsAccount(acc)
  BY DEF BankAccount, IsAccount
<1>2. IsAccount(acc) =>
        acc = [type |-> acc.type, balance |-> acc.balance, keys |-> acc.keys]
  BY DEF IsAccount
<1> QED
  BY <1>1, <1>2 DEF BankAccount

(* A transaction of an account changes its balance, the total and the keys *)
(* together, and nothing else.                                             *)
Kept(new, user, a) ==
  /\ IsRecord(new) /\ new.lists = user.lists
  /\ \A b \in Accounts \ {a} : new.accounts[b] = user.accounts[b]
  /\ IsAccount(new.accounts[a]) /\ new.accounts[a].type = user.accounts[a].type

Changes(new, user, a, type, amount) ==
  LET t == [type |-> type, amount |-> amount, result |-> new.accounts[a].balance]
  IN  /\ Kept(new, user, a)
      /\ new.total = user.total + Change(type, amount)
      /\ new.transactions = Append(user.transactions, t)
      /\ new.accounts[a].balance = user.accounts[a].balance + Change(type, amount)
      /\ new.accounts[a].keys = Append(user.accounts[a].keys, Len(new.transactions))

LEMMA TransactionDoes ==
  ASSUME NEW user, IsRecord(user), NEW a \in Accounts, IsAccount(user.accounts[a]),
         NEW type, NEW amount
  PROVE  Changes(MakeTransaction(user, a, type, amount), user, a, type, amount)
<1> PICK change : change = Change(type, amount)
  OBVIOUS
<1> DEFINE acc == user.accounts[a]
           moved == Move(user, a, change)
<1>1. /\ IsRecord(moved) /\ moved.lists = user.lists
      /\ moved.total = user.total + change /\ moved.transactions = user.transactions
      /\ \A b \in Accounts \ {a} : moved.accounts[b] = user.accounts[b]
      /\ IsAccount(moved.accounts[a]) /\ moved.accounts[a].type = acc.type
      /\ moved.accounts[a].balance = acc.balance + change
      /\ moved.accounts[a].keys = acc.keys
  <2> DEFINE b == [user.accounts EXCEPT ![a].balance = @ + change]
  <2>1. /\ DOMAIN b = Accounts /\ b = [c \in Accounts |-> b[c]]
        /\ \A c \in Accounts \ {a} : b[c] = user.accounts[c]
        /\ IsAccount(b[a]) /\ b[a].type = acc.type
        /\ b[a].balance = acc.balance + change /\ b[a].keys = acc.keys
    BY DEF IsRecord, IsAccount
  <2>2. moved = [[user EXCEPT !.accounts = b] EXCEPT !.total = user.total + change]
    BY DEF Move, IsRecord
  <2> HIDE DEF b, moved
  <2>3. /\ DOMAIN moved = {"accounts", "lists", "total", "transactions"}
        /\ moved = [f \in DOMAIN moved |-> moved[f]]
        /\ moved.accounts = b /\ moved.lists = user.lists
        /\ moved.total = user.total + change /\ moved.transactions = user.transactions
    BY <2>2 DEF IsRecord
  <2> HIDE DEF acc
  <2>4. IsRecord(moved)
    BY <2>1, <2>3 DEF IsRecord
  <2> QED
    BY <2>1, <2>3, <2>4
<1> HIDE DEF moved
<1> DEFINE t == [type |-> type, amount |-> amount,
                 result |-> moved.accounts[a].balance]
           made == Append(moved.transactions, t)
           new == addNewTransaction(moved, a, type, amount)
           n == Len(made)
<1>2. /\ Kept(new, moved, a) /\ new.total = moved.total /\ new.transactions = made
      /\ new.accounts[a].balance = moved.accounts[a].balance
      /\ new.accounts[a].keys = Append(moved.accounts[a].keys, n)
  <2>1. new = [[moved EXCEPT !.transactions = made] EXCEPT
                !.accounts[a].keys = Append(@, n)]
    BY DEF addNewTransaction, StoreTransaction
  <2> HIDE DEF new, made, n
  <2> DEFINE b == [moved.accounts EXCEPT ![a].keys = Append(@, n)]
  <2>2. /\ DOMAIN b = Accounts /\ b = [c \in Accounts |-> b[c]]
        /\ \A c \in Accounts \ {a} : b[c] = moved.accounts[c]
        /\ IsAccount(b[a]) /\ b[a].type = moved.accounts[a].type
        /\ b[a].balance = moved.accounts[a].balance
        /\ b[a].keys = Append(moved.accounts[a].keys, n)
    <3> PICK old, x : old = moved.accounts[a] /\ x = [old EXCEPT !.keys = Append(@, n)]
      OBVIOUS
    <3>1. /\ IsAccount(x) /\ x.type = old.type /\ x.balance = old.balance
          /\ x.keys = Append(old.keys, n)
      BY <1>1 DEF IsAccount
    <3>2. DOMAIN moved.accounts = Accounts
      BY <1>1 DEF IsRecord
    <3>3. b = [moved.accounts EXCEPT ![a] = x]
      OBVIOUS
    <3> HIDE DEF b
    <3>4. DOMAIN b = Accounts /\ b = [c \in Accounts |-> b[c]] /\ b[a] = x
      BY <3>2, <3>3
    <3>5. \A c \in Accounts \ {a} : b[c] = moved.accounts[c]
      BY <3>2, <3>3
    <3> QED
      BY <3>1, <3>4, <3>5
  <2>3. new = [[moved EXCEPT !.transactions = made] EXCEPT !.accounts = b]
    BY <1>1, <2>1 DEF IsRecord
  <2> HIDE DEF b
  <2>4. /\ DOMAIN new = {"accounts", "lists", "total", "transactions"}
        /\ new = [f \in DOMAIN new |-> new[f]]
        /\ new.accounts = b /\ new.lists = moved.lists
        /\ new.total = moved.total /\ new.transactions = made
    BY <1>1, <2>3 DEF IsRecord
  <2>5. IsRecord(new)
    BY <2>2, <2>4 DEF IsRecord
  <2> QED
    BY <2>2, <2>4, <2>5 DEF Kept
<1> HIDE DEF new
<1>3. Kept(new, user, a)
  BY <1>1, <1>2 DEF Kept
<1>4. t = [type |-> type, amount |-> amount, result |-> new.accounts[a].balance]
  BY <1>2
<1> HIDE DEF t
<1>5. /\ new.total = user.total + change /\ new.transactions = Append(user.transactions, t)
      /\ new.accounts[a].balance = acc.balance + change
      /\ new.accounts[a].keys = Append(acc.keys, Len(new.transactions))
  BY <1>1, <1>2
<1>6. MakeTransaction(user, a, type, amount) = new
  BY DEF new, moved, MakeTransaction
<1> HIDE DEF made
<1> QED
  BY <1>3, <1>4, <1>5, <1>6 DEF Changes

(* One more transaction, and its index as one more key.                    *)
Recorded(old, new, t) ==
  /\ Len(old) \in Nat /\ Len(new) = Len(old) + 1
  /\ DOMAIN old = 1 .. Len(old) /\ DOMAIN new = 1 .. Len(new)
  /\ \A i \in DOMAIN old : i \in DOMAIN new /\ new[i] = old[i]
  /\ new[Len(new)] = t

LEMMA AppendRecords ==
  ASSUME NEW S, NEW old \in Seq(S), NEW t \in S
  PROVE  Append(old, t) \in Seq(S) /\ Recorded(old, Append(old, t), t)
<1>1. /\ Append(old, t) \in Seq(S) /\ Len(old) \in Nat
      /\ Len(Append(old, t)) = Len(old) + 1
      /\ \A i \in 1 .. Len(old) : Append(old, t)[i] = old[i]
      /\ Append(old, t)[Len(old) + 1] = t
  BY AppendProperties, LenProperties
<1>2. DOMAIN old = 1 .. Len(old) /\ DOMAIN Append(old, t) = 1 .. Len(Append(old, t))
  BY <1>1, LenProperties
<1>3. 1 .. Len(old) \subseteq 1 .. Len(old) + 1
  BY <1>1
<1> QED
  BY <1>1, <1>2, <1>3 DEF Recorded

LEMMA RecordedHas ==
  ASSUME NEW old, NEW new, NEW t, Recorded(old, new, t)
  PROVE  /\ Len(new) \in DOMAIN new /\ Len(new) \notin DOMAIN old
         /\ DOMAIN new = DOMAIN old \cup {Len(new)}
  BY DEF Recorded

LEMMA RecordedMoves ==
  ASSUME NEW T, NEW N, NEW t, Recorded(T, N, t),
         NEW keys, NEW made, Recorded(keys, made, Len(N)),
         \A i \in DOMAIN keys : keys[i] \in DOMAIN T,
         Amounting(MovesOf(T, keys)), Moved(t) \in Int
  PROVE  /\ SumFunction(MovesOf(N, made)) = SumFunction(MovesOf(T, keys)) + Moved(t)
         /\ N[Last(made)] = t /\ ToSet(made) \subseteq DOMAIN N
<1> PICK j, n, f, g : /\ j = Len(made) /\ n = Len(N)
                      /\ f = MovesOf(T, keys) /\ g = MovesOf(N, made)
  OBVIOUS
<1>1. /\ j \in DOMAIN made /\ j \notin DOMAIN keys /\ DOMAIN made = DOMAIN keys \cup {j}
      /\ n \in DOMAIN N /\ \A k \in DOMAIN T : k \in DOMAIN N
  BY RecordedHas DEF Recorded
<1>2. made[j] = n /\ N[n] = t /\ \A i \in DOMAIN keys : made[i] = keys[i]
  BY DEF Recorded
<1>3. g[j] = Moved(t)
  BY <1>1, <1>2 DEF MovesOf
<1>4. ASSUME NEW i \in DOMAIN keys
      PROVE  g[i] = f[i]
  <2>1. N[keys[i]] = T[keys[i]]
    BY DEF Recorded
  <2> QED
    BY <1>1, <1>2, <2>1 DEF MovesOf
<1>5. DOMAIN f = DOMAIN keys /\ DOMAIN g = DOMAIN made
  BY DEF MovesOf
<1>6. SumFunction(g) = SumFunction(f) + g[j]
  <2>1. DOMAIN g = DOMAIN f \cup {j} /\ j \notin DOMAIN f /\ \A i \in DOMAIN f : g[i] = f[i]
    BY <1>1, <1>4, <1>5
  <2>2. g[j] \in Int
    BY <1>3
  <2> QED
    BY <2>1, <2>2, SumWith
<1>7. N[Last(made)] = t
  BY <1>2 DEF Last
<1>8. ASSUME NEW i \in DOMAIN made
      PROVE  made[i] \in DOMAIN N
  BY <1>1, <1>2
<1> QED
  BY <1>3, <1>6, <1>7, <1>8 DEF ToSet

(* If the balance that comes of it is not negative, all agree as before.   *)
LEMMA ChangesTyped ==
  ASSUME NEW user, Sound(user), NEW a \in Names(user), NEW type \in TransactionType,
         NEW amount \in Int, NEW new, Changes(new, user, a, type, amount)
  PROVE  /\ IsUser(new) /\ Names(new) = Names(user) /\ a \in Accounts
         /\ Change(type, amount) \in Int
         /\ Recorded(user.transactions, new.transactions,
                     [type |-> type, amount |-> amount, result |-> new.accounts[a].balance])
         /\ Recorded(user.accounts[a].keys, new.accounts[a].keys, Len(new.transactions))
<1> PICK T, t, change : /\ T = user.transactions /\ change = Change(type, amount)
                        /\ t = [type |-> type, amount |-> amount,
                                result |-> new.accounts[a].balance]
  OBVIOUS
<1>1. a \in Accounts /\ change \in Int
  BY DEF Names, Change
<1>2. /\ Kept(new, user, a) /\ new.total = user.total + change
      /\ new.transactions = Append(T, t)
      /\ new.accounts[a].balance = user.accounts[a].balance + change
      /\ new.accounts[a].keys = Append(user.accounts[a].keys, Len(new.transactions))
  BY DEF Changes
<1>3. /\ user.total \in Int /\ T \in Seq(Transaction)
      /\ user.lists \in [Types -> Seq(Accounts)]
      /\ user.accounts \in [Accounts -> BankAccount]
      /\ user.accounts[a].type \in Types \cup {NoType}
      /\ user.accounts[a].balance \in Int /\ user.accounts[a].keys \in Seq(Nat)
  BY <1>1, SoundParts
<1>4. new.accounts[a].balance \in Int /\ t \in Transaction
  BY <1>1, <1>2, <1>3 DEF Transaction
<1>5. Append(T, t) \in Seq(Transaction) /\ Recorded(T, new.transactions, t)
  BY <1>2, <1>3, <1>4, AppendRecords
<1>7. Len(new.transactions) \in Nat
  BY <1>5 DEF Recorded
<1>8. /\ new.accounts[a].keys \in Seq(Nat)
      /\ Recorded(user.accounts[a].keys, new.accounts[a].keys, Len(new.transactions))
  BY <1>2, <1>3, <1>7, AppendRecords
<1>9. new.accounts[a] \in BankAccount
  BY <1>2, <1>3, <1>4, <1>8, AccountIs DEF Kept
<1>10. new.accounts \in [Accounts -> BankAccount]
  <2>1. new.accounts = [b \in Accounts |-> new.accounts[b]]
    BY <1>2 DEF Kept, IsRecord
  <2>2. \A b \in Accounts : new.accounts[b] \in BankAccount
    BY <1>2, <1>3, <1>9 DEF Kept
  <2> QED
    BY <2>1, <2>2
<1>11. new.total \in Int
  BY <1>1, <1>2, <1>3
<1>12. IsUser(new)
  BY <1>2, <1>3, <1>5, <1>10, <1>11, UserIs DEF Kept
<1>13. user.accounts[a] # NoAccount /\ new.accounts[a] # NoAccount
  <2>1. new.accounts[a].keys # <<>>
    <3>1. Len(new.accounts[a].keys) # 0
      BY <1>8 DEF Recorded
    <3> QED
      BY <3>1
  <2>2. NoAccount.keys = <<>>
    BY DEF NoAccount
  <2>3. user.accounts[a] # NoAccount
    BY DEF Names
  <2> QED
    BY <1>2, <2>1, <2>2, <2>3
<1>14. Names(new) = Names(user)
  BY <1>1, <1>2, <1>13 DEF Names, Kept
<1> QED
  BY <1>1, <1>5, <1>8, <1>12, <1>14

LEMMA OthersMoves ==
  ASSUME NEW user, NEW new, NEW b,
         new.accounts[b] = user.accounts[b],
         \A i \in DOMAIN user.accounts[b].keys :
           LET k == user.accounts[b].keys[i]
           IN  new.transactions[k] = user.transactions[k]
  PROVE  Moves(new, b) = Moves(user, b)
  BY DEF Moves, MovesOf

LEMMA ChangesMoves ==
  ASSUME NEW user, Sound(user), NEW a \in Names(user), NEW type \in TransactionType,
         NEW amount \in Int, NEW new, Changes(new, user, a, type, amount)
  PROVE  /\ \A b \in Accounts : b # a => Moves(new, b) = Moves(user, b)
         /\ SumFunction(Moves(new, a)) = SumFunction(Moves(user, a)) + Change(type, amount)
         /\ \A b \in Accounts : ToSet(new.accounts[b].keys) \subseteq DOMAIN new.transactions
         /\ new.transactions[Last(new.accounts[a].keys)].result = new.accounts[a].balance
<1> PICK t, c : /\ t = [type |-> type, amount |-> amount, result |-> new.accounts[a].balance]
                /\ c = Change(type, amount)
  OBVIOUS
<1>1. /\ a \in Accounts /\ c \in Int
      /\ Recorded(user.transactions, new.transactions, t)
      /\ Recorded(user.accounts[a].keys, new.accounts[a].keys, Len(new.transactions))
  BY ChangesTyped
<1>2. \A b \in Accounts \ {a} : new.accounts[b] = user.accounts[b]
  BY DEF Changes, Kept
<1>3. \A b \in Accounts : /\ \A i \in DOMAIN user.accounts[b].keys :
                               user.accounts[b].keys[i] \in DOMAIN user.transactions
                          /\ Amounting(Moves(user, b))
  BY SoundParts
<1>4. /\ \A k \in DOMAIN user.transactions : k \in DOMAIN new.transactions
      /\ \A k \in DOMAIN user.transactions : new.transactions[k] = user.transactions[k]
  BY <1>1 DEF Recorded
<1>5. Moved(t) = c /\ t.result = new.accounts[a].balance
  BY DEF Moved
<1>6. ASSUME NEW b \in Accounts, b # a
      PROVE  /\ Moves(new, b) = Moves(user, b)
             /\ ToSet(new.accounts[b].keys) \subseteq DOMAIN new.transactions
  <2>1. new.accounts[b] = user.accounts[b]
    BY <1>2, <1>6
  <2> QED
    BY <1>3, <1>4, <2>1, OthersMoves DEF ToSet
<1>7. /\ SumFunction(Moves(new, a)) = SumFunction(Moves(user, a)) + Moved(t)
      /\ new.transactions[Last(new.accounts[a].keys)] = t
      /\ ToSet(new.accounts[a].keys) \subseteq DOMAIN new.transactions
  <2> PICK T, N, keys, made :
        /\ T = user.transactions /\ N = new.transactions
        /\ keys = user.accounts[a].keys /\ made = new.accounts[a].keys
    OBVIOUS
  <2>1. Moves(user, a) = MovesOf(T, keys) /\ Moves(new, a) = MovesOf(N, made)
    BY DEF Moves
  <2>2. /\ Recorded(T, N, t) /\ Recorded(keys, made, Len(N)) /\ Moved(t) \in Int
        /\ Amounting(MovesOf(T, keys)) /\ \A i \in DOMAIN keys : keys[i] \in DOMAIN T
    BY <1>1, <1>3, <1>5, <2>1
  <2>3. /\ SumFunction(MovesOf(N, made)) = SumFunction(MovesOf(T, keys)) + Moved(t)
        /\ N[Last(made)] = t /\ ToSet(made) \subseteq DOMAIN N
    BY <2>2, RecordedMoves
  <2> QED
    BY <2>1, <2>3
<1> QED
  BY <1>5, <1>6, <1>7

LEMMA ChangesSound ==
  ASSUME NEW user, Sound(user), NEW a \in Names(user), NEW type \in TransactionType,
         NEW amount \in Int, NEW new, Changes(new, user, a, type, amount),
         user.accounts[a].balance + Change(type, amount) >= 0
  PROVE  Sound(new) /\ Names(new) = Names(user)
<1> PICK change : change = Change(type, amount)
  OBVIOUS
<1>1. /\ IsUser(new) /\ Names(new) = Names(user) /\ a \in Accounts /\ change \in Int
      /\ \A k \in DOMAIN user.transactions : new.transactions[k] = user.transactions[k]
  <2>1. /\ IsUser(new) /\ Names(new) = Names(user) /\ a \in Accounts
        /\ Change(type, amount) \in Int
        /\ Recorded(user.transactions, new.transactions,
                    [type |-> type, amount |-> amount, result |-> new.accounts[a].balance])
        /\ Recorded(user.accounts[a].keys, new.accounts[a].keys, Len(new.transactions))
    BY ChangesTyped
  <2> QED
    BY <2>1 DEF Recorded
<1>2. /\ \A b \in Accounts : b # a => Moves(new, b) = Moves(user, b)
      /\ SumFunction(Moves(new, a)) = SumFunction(Moves(user, a)) + change
      /\ \A b \in Accounts : ToSet(new.accounts[b].keys) \subseteq DOMAIN new.transactions
      /\ new.transactions[Last(new.accounts[a].keys)].result = new.accounts[a].balance
  BY ChangesMoves
<1>3. /\ new.total = user.total + change /\ new.lists = user.lists
      /\ \A b \in Accounts \ {a} : new.accounts[b] = user.accounts[b]
      /\ new.accounts[a].type = user.accounts[a].type
      /\ new.accounts[a].balance = user.accounts[a].balance + change
  BY DEF Changes, Kept
<1>4. BooksAgree(user) /\ ListsAgree(user) /\ \A b \in Names(user) : user.accounts[b].type \in Types
  BY DEF Sound
<1>5. \A b \in Accounts : new.accounts[b].type = user.accounts[b].type
  BY <1>3
<1>6. ListsAgree(new)
  <2>1. \A t \in Types : {b \in Names(new) : new.accounts[b].type = t} =
                         {b \in Names(user) : user.accounts[b].type = t}
    BY <1>1, <1>5 DEF Names
  <2> QED
    BY <1>3, <1>4, <2>1 DEF ListsAgree
<1>7. new.total = SumFunction(Balances(new))
  <2> PICK f, g : f = Balances(user) /\ g = Balances(new)
    OBVIOUS
  <2>1. /\ DOMAIN f = Accounts /\ DOMAIN g = Accounts /\ Amounting(f)
        /\ f[a] = user.accounts[a].balance /\ g[a] = new.accounts[a].balance
        /\ \A b \in DOMAIN f \ {a} : g[b] = f[b]
    BY <1>1, <1>3, SoundParts DEF Balances
  <2>2. f[a] \in Int
    BY <1>1, <2>1 DEF Amounting
  <2>3. g[a] \in Int /\ a \in DOMAIN f
    BY <1>1, <1>3, <2>1, <2>2
  <2>4. SumFunction(g) = SumFunction(f) + (g[a] - f[a]) /\ SumFunction(f) \in Int
    BY <2>1, <2>3, SumChanged, SumIsInt
  <2>5. user.total = SumFunction(f)
    BY <1>4, BooksAre
  <2> PICK v, w, x, y : v = SumFunction(f) /\ w = SumFunction(g) /\ x = f[a] /\ y = g[a]
    OBVIOUS
  <2>6. y = x + change /\ x \in Int /\ v \in Int /\ w = v + (y - x) /\ new.total = v + change
    BY <1>3, <2>1, <2>2, <2>4, <2>5
  <2>7. w = v + change
    BY <1>1, <2>6
  <2> QED
    BY <2>6, <2>7
<1>8. ASSUME NEW b \in Accounts
      PROVE  LET acc == new.accounts[b]
             IN  /\ acc.balance >= 0 /\ acc.balance = SumFunction(Moves(new, b))
                 /\ acc.keys # <<>> =>
                      new.transactions[Last(acc.keys)].result = acc.balance
  <2>1. /\ user.accounts[b].balance >= 0
        /\ user.accounts[b].balance = SumFunction(Moves(user, b))
        /\ user.accounts[b].keys # <<>> =>
             user.transactions[Last(user.accounts[b].keys)].result = user.accounts[b].balance
    BY <1>4, BooksAre
  <2>2. CASE b = a
    BY <1>2, <1>3, <2>1, <2>2
  <2>3. CASE b # a
    <3>1. new.accounts[b] = user.accounts[b] /\ Moves(new, b) = Moves(user, b)
      BY <1>2, <1>3, <2>3
    <3>2. ASSUME user.accounts[b].keys # <<>>
          PROVE  LET k == Last(user.accounts[b].keys)
                 IN  new.transactions[k] = user.transactions[k]
      <4>1. /\ user.accounts[b].keys \in Seq(Nat)
            /\ \A i \in DOMAIN user.accounts[b].keys :
                 user.accounts[b].keys[i] \in DOMAIN user.transactions
        BY SoundParts
      <4>2. /\ Len(user.accounts[b].keys) \in DOMAIN user.accounts[b].keys
        BY <3>2, <4>1, LenProperties, EmptySeq
      <4>3. Last(user.accounts[b].keys) \in DOMAIN user.transactions
        BY <4>1, <4>2 DEF Last
      <4> QED
        BY <1>1, <4>3
    <3> QED
      BY <2>1, <3>1, <3>2
  <2> QED
    BY <2>2, <2>3
<1>9. BooksAgree(new)
  BY <1>7, <1>8, BooksAre
<1>10. \A b \in Names(new) : new.accounts[b].type \in Types
  BY <1>1, <1>4, <1>5 DEF Names
<1> QED
  BY <1>1, <1>2, <1>6, <1>9, <1>10 DEF Sound

-----------------------------------------------------------------------------
(* A sequence without the only place of an element.                        *)
LEMMA RemoveFirstIs ==
  ASSUME NEW S, NEW s \in Seq(S), IsInjective(s), NEW k \in 1 .. Len(s)
  PROVE  RemoveFirst(s, s[k]) = SubSeq(s, 1, k - 1) \o SubSeq(s, k + 1, Len(s))
<1> DEFINE I == {i \in 1 .. Len(s) : s[i] = s[k]}
<1>1. Len(s) \in Nat /\ DOMAIN s = 1 .. Len(s)
  BY LenProperties
<1>2. I = {k}
  BY <1>1 DEF IsInjective
<1>3. Min(I) = k
  BY <1>1, <1>2 DEF Min
<1>4. SelectInSeq(s, LAMBDA v : v = s[k]) = k
  BY <1>2, <1>3 DEF SelectInSeq
<1>5. RemoveFirst(s, s[k]) = RemoveAt(s, SelectInSeq(s, LAMBDA v : v = s[k]))
  BY DEF RemoveFirst
<1> QED
  BY <1>4, <1>5 DEF RemoveAt

Around(a, b, s, k, n) ==
  /\ Len(a) = k - 1 /\ \A i \in 1 .. k - 1 : a[i] = s[i]
  /\ Len(b) = n - k /\ \A i \in 1 .. n - k : b[i] = s[k + i]

Without(r, s, k, n) ==
  DOMAIN r = 1 .. n - 1 /\ \A i \in 1 .. n - 1 : r[i] = s[IF i < k THEN i ELSE i + 1]

LEMMA JoinedAround ==
  ASSUME NEW S, NEW a \in Seq(S), NEW b \in Seq(S), NEW s, NEW n \in Nat, NEW k \in 1 .. n,
         Around(a, b, s, k, n)
  PROVE  a \o b \in Seq(S) /\ Without(a \o b, s, k, n)
<1> USE DEF Around
<1> DEFINE r == a \o b
<1>1. /\ r \in Seq(S) /\ Len(r) = Len(a) + Len(b)
      /\ \A i \in 1 .. Len(a) + Len(b) : r[i] = IF i <= Len(a) THEN a[i] ELSE b[i - Len(a)]
  BY ConcatProperties
<1> HIDE DEF r
<1>2. DOMAIN r = 1 .. n - 1 /\ Len(a) + Len(b) = n - 1 /\ k \in Int
  BY <1>1, LenProperties
<1>3. ASSUME NEW i \in 1 .. n - 1
      PROVE  r[i] = s[IF i < k THEN i ELSE i + 1]
  <2>1. CASE i < k
    <3>1. i \in 1 .. k - 1 /\ i <= Len(a)
      BY <1>2, <2>1
    <3> QED
      BY <1>1, <1>2, <2>1, <3>1
  <2>2. CASE ~(i < k)
    <3> PICK j : j = i - (k - 1)
      OBVIOUS
    <3>1. j \in 1 .. n - k /\ k + j = i + 1 /\ ~(i <= Len(a)) /\ i - Len(a) = j
      BY <1>2, <2>2
    <3>2. r[i] = b[j]
      BY <1>1, <1>2, <3>1
    <3> QED
      BY <2>2, <3>1, <3>2
  <2> QED
    BY <2>1, <2>2
<1> QED
  BY <1>1, <1>2, <1>3 DEF r, Without

LEMMA PlacesAround ==
  ASSUME NEW s, NEW r, NEW n \in Nat, NEW k \in 1 .. n,
         DOMAIN s = 1 .. n, IsInjective(s), Without(r, s, k, n)
  PROVE  IsInjective(r) /\ ToSet(r) = ToSet(s) \ {s[k]}
<1> USE DEF Without
<1>1. IsInjective(r)
  <2> SUFFICES ASSUME NEW i \in 1 .. n - 1, NEW j \in 1 .. n - 1, r[i] = r[j]
               PROVE  i = j
    BY DEF IsInjective
  <2> PICK x, y : x = (IF i < k THEN i ELSE i + 1) /\ y = (IF j < k THEN j ELSE j + 1)
    OBVIOUS
  <2>1. x \in 1 .. n /\ y \in 1 .. n /\ (x = y => i = j)
    OBVIOUS
  <2>2. s[x] = s[y]
    OBVIOUS
  <2> QED
    BY <2>1, <2>2 DEF IsInjective
<1>2. ASSUME NEW i \in 1 .. n - 1
      PROVE  r[i] \in ToSet(s) /\ r[i] # s[k]
  <2> PICK j : j = IF i < k THEN i ELSE i + 1
    OBVIOUS
  <2>1. j \in 1 .. n /\ j # k /\ r[i] = s[j]
    OBVIOUS
  <2> QED
    BY <2>1 DEF ToSet, IsInjective
<1>3. ASSUME NEW j \in 1 .. n, s[j] # s[k]
      PROVE  s[j] \in ToSet(r)
  <2> PICK i : i = IF j < k THEN j ELSE j - 1
    OBVIOUS
  <2>1. j # k
    BY <1>3
  <2>2. i \in 1 .. n - 1 /\ j = IF i < k THEN i ELSE i + 1
    BY <2>1
  <2> QED
    BY <2>2 DEF ToSet
<1> QED
  BY <1>1, <1>2, <1>3 DEF ToSet

LEMMA RemoveFirstHas ==
  ASSUME NEW S, NEW s \in Seq(S), IsInjective(s), NEW e \in ToSet(s)
  PROVE  /\ RemoveFirst(s, e) \in Seq(S) /\ IsInjective(RemoveFirst(s, e))
         /\ ToSet(RemoveFirst(s, e)) = ToSet(s) \ {e}
<1>1. Len(s) \in Nat /\ DOMAIN s = 1 .. Len(s) /\ \A i \in 1 .. Len(s) : s[i] \in S
  BY LenProperties, ElementOfSeq
<1>2. PICK k \in 1 .. Len(s) : s[k] = e
  BY <1>1 DEF ToSet
<1> PICK n : n = Len(s)
  OBVIOUS
<1> DEFINE a == SubSeq(s, 1, k - 1)
           b == SubSeq(s, k + 1, n)
<1>3. RemoveFirst(s, e) = a \o b
  BY <1>2, RemoveFirstIs
<1>4. n \in Nat /\ k \in 1 .. n
  BY <1>1
<1>5. a \in Seq(S) /\ Len(a) = k - 1 /\ \A i \in 1 .. k - 1 : a[i] = s[i]
  <2>1. \A i \in 1 .. k - 1 : s[i] \in S
    BY <1>1, <1>4
  <2>2. /\ SubSeq(s, 1, k - 1) \in Seq(S)
        /\ Len(SubSeq(s, 1, k - 1)) = IF 1 <= k - 1 THEN (k - 1) - 1 + 1 ELSE 0
        /\ \A i \in 1 .. (k - 1) - 1 + 1 : SubSeq(s, 1, k - 1)[i] = s[1 + i - 1]
    BY <1>4, <2>1, SubSeqProperties
  <2> QED
    BY <1>4, <2>2
<1>6. b \in Seq(S) /\ Len(b) = n - k /\ \A i \in 1 .. n - k : b[i] = s[k + i]
  <2>1. \A i \in k + 1 .. n : s[i] \in S
    BY <1>1, <1>4
  <2>2. /\ SubSeq(s, k + 1, n) \in Seq(S)
        /\ Len(SubSeq(s, k + 1, n)) = IF k + 1 <= n THEN n - (k + 1) + 1 ELSE 0
        /\ \A i \in 1 .. n - (k + 1) + 1 : SubSeq(s, k + 1, n)[i] = s[k + 1 + i - 1]
    BY <1>4, <2>1, SubSeqProperties
  <2> QED
    BY <1>4, <2>2
<1> HIDE DEF a, b
<1> DEFINE r == a \o b
<1>7. r \in Seq(S) /\ Without(r, s, k, n)
  <2>1. Around(a, b, s, k, n) /\ a \in Seq(S) /\ b \in Seq(S)
    BY <1>5, <1>6 DEF Around
  <2> QED
    BY <1>4, <2>1, JoinedAround
<1> HIDE DEF r
<1>8. IsInjective(r) /\ ToSet(r) = ToSet(s) \ {s[k]}
  BY <1>1, <1>4, <1>7, PlacesAround
<1> QED
  BY <1>2, <1>3, <1>7, <1>8 DEF r

-----------------------------------------------------------------------------
(* Each method of User keeps a sound user sound.                           *)
LEMMA MakeTransactionSound ==
  ASSUME NEW user, Sound(user), NEW a \in Names(user), NEW type \in TransactionType,
         NEW amount \in Int, Succeeds(user, a, type, amount)
  PROVE  LET new == MakeTransaction(user, a, type, amount)
         IN  Sound(new) /\ Names(new) = Names(user)
<1> DEFINE new == MakeTransaction(user, a, type, amount)
<1>1. /\ a \in Accounts /\ user.accounts[a].balance \in Int /\ Change(type, amount) \in Int
      /\ IsRecord(user) /\ IsAccount(user.accounts[a])
  <2>1. IsUser(user) /\ a \in Accounts
    BY DEF Sound, Names
  <2>2. IsRecord(user) /\ user.accounts[a] \in BankAccount
    BY <2>1, UserIs
  <2> QED
    BY <2>1, <2>2, AccountIs DEF Change
<1>2. Changes(new, user, a, type, amount)
  BY <1>1, TransactionDoes
<1> HIDE DEF new
<1>3. user.accounts[a].balance + Change(type, amount) >= 0
  <2>1. user.accounts[a].balance >= 0
    BY <1>1, BooksAre DEF Sound
  <2> QED
    BY <1>1, <2>1 DEF Succeeds, Covers
<1>4. Sound(new) /\ Names(new) = Names(user)
  BY <1>2, <1>3, ChangesSound
<1> QED
  BY <1>4 DEF new

LEMMA MakeTransferSound ==
  ASSUME NEW user, Sound(user), NEW a \in Names(user), NEW b, NEW n \in Nat
  PROVE  Sound(MakeTransfer(user, a, b, n))
<1> DEFINE paid == MakeTransaction(user, a, "TRANSFER", -n)
           both == MakeTransaction(paid, b, "TRANSFER", n)
<1>1. "TRANSFER" \in TransactionType /\ n \in Int /\ -n \in Int
  BY DEF TransactionType
<1>2. CASE Succeeds(user, a, "TRANSFER", -n)
  <2>1. Sound(paid) /\ Names(paid) = Names(user)
    BY <1>1, <1>2, MakeTransactionSound
  <2> HIDE DEF paid
  <2>2. Succeeds(paid, b, "TRANSFER", n)
    BY DEF Succeeds, Change
  <2>3. b \in Names(user) => Sound(both)
    BY <1>1, <2>1, <2>2, MakeTransactionSound
  <2> HIDE DEF both
  <2>4. MakeTransfer(user, a, b, n) \in {user, paid} \cup IF b \in Names(user) THEN {both} ELSE {}
    BY DEF MakeTransfer, paid, both
  <2> QED
    BY <2>1, <2>3, <2>4
<1>3. CASE ~Succeeds(user, a, "TRANSFER", -n)
  BY <1>3 DEF MakeTransfer
<1> QED
  BY <1>2, <1>3

LEMMA SameRecord ==
  ASSUME NEW u, IsRecord(u), NEW v, IsRecord(v),
         \A a \in Accounts : u.accounts[a] = v.accounts[a],
         u.lists = v.lists, u.total = v.total, u.transactions = v.transactions
  PROVE  u = v
<1>1. u.accounts = v.accounts
  BY DEF IsRecord
<1>2. \A f \in {"accounts", "lists", "total", "transactions"} : u[f] = v[f]
  BY <1>1
<1> QED
  BY <1>2 DEF IsRecord

(* An account that has just been opened, before anything is in it.         *)
Opened(new, user, type, a) ==
  /\ IsRecord(new) /\ new.lists = [user.lists EXCEPT ![type] = Append(@, a)]
  /\ \A b \in Accounts \ {a} : new.accounts[b] = user.accounts[b]
  /\ new.accounts[a] = [type |-> type, balance |-> 0, keys |-> <<>>]
  /\ new.total = user.total /\ new.transactions = user.transactions

LEMMA NoAccountIs ==
  /\ NoAccount \in BankAccount /\ NoAccount.balance = 0 /\ NoAccount.keys = <<>>
  /\ NoAccount.type = NoType
<1>1. <<>> \in Seq(Nat)
  BY EmptySeq
<1> QED
  BY <1>1 DEF NoAccount, BankAccount

LEMMA EmptyMoves ==
  ASSUME NEW user, NEW a, user.accounts[a].keys = <<>>
  PROVE  SumFunction(Moves(user, a)) = 0
<1>1. DOMAIN Moves(user, a) = {}
  BY EmptySeq DEF Moves, MovesOf
<1>2. Amounting(Moves(user, a))
  BY <1>1, FS_EmptySet DEF Amounting
<1> QED
  BY <1>1, <1>2, SumIsInt

LEMMA AppendHas ==
  ASSUME NEW S, NEW s \in Seq(S), IsInjective(s), NEW e \in S, e \notin ToSet(s)
  PROVE  /\ Append(s, e) \in Seq(S) /\ IsInjective(Append(s, e))
         /\ ToSet(Append(s, e)) = ToSet(s) \cup {e}
<1> DEFINE r == Append(s, e)
<1>1. r \in Seq(S) /\ Recorded(s, r, e)
  BY AppendRecords
<1> HIDE DEF r
<1> PICK n : n = Len(r)
  OBVIOUS
<1>2. /\ n \in DOMAIN r /\ n \notin DOMAIN s /\ DOMAIN r = DOMAIN s \cup {n}
      /\ r[n] = e /\ \A i \in DOMAIN s : r[i] = s[i]
  BY <1>1, RecordedHas DEF Recorded
<1>3. \A i \in DOMAIN s : s[i] # e
  BY DEF ToSet
<1>4. IsInjective(r)
  BY <1>2, <1>3 DEF IsInjective
<1>5. ToSet(r) = ToSet(s) \cup {e}
  BY <1>2 DEF ToSet
<1> QED
  BY <1>1, <1>4, <1>5 DEF r

(* Where nothing else has changed, the other accounts agree as before.     *)
LEMMA OthersAgree ==
  ASSUME NEW user, Sound(user), NEW new, new.transactions = user.transactions,
         NEW a \in Accounts, \A b \in Accounts \ {a} : new.accounts[b] = user.accounts[b],
         new.accounts[a].balance = user.accounts[a].balance,
         user.accounts[a].balance = 0, new.accounts[a].keys = <<>>,
         new.total = user.total
  PROVE  /\ BooksAgree(new)
         /\ \A b \in Accounts : ToSet(new.accounts[b].keys) \subseteq DOMAIN new.transactions
<1>1. BooksAgree(user) /\ \A b \in Accounts :
        ToSet(user.accounts[b].keys) \subseteq DOMAIN user.transactions
  BY DEF Sound
<1>2. Balances(new) = Balances(user)
  BY DEF Balances
<1>3. ASSUME NEW b \in Accounts, b # a
      PROVE  new.accounts[b] = user.accounts[b] /\ Moves(new, b) = Moves(user, b)
  <2>1. new.accounts[b] = user.accounts[b]
    BY <1>3
  <2> QED
    BY <2>1, OthersMoves
<1>4. SumFunction(Moves(new, a)) = 0
  BY EmptyMoves
<1>5. ASSUME NEW b \in Accounts
      PROVE  LET acc == new.accounts[b]
             IN  /\ acc.balance >= 0 /\ acc.balance = SumFunction(Moves(new, b))
                 /\ acc.keys # <<>> =>
                      new.transactions[Last(acc.keys)].result = acc.balance
  <2>1. CASE b = a
    BY <1>4, <2>1
  <2>2. CASE b # a
    <3>1. /\ user.accounts[b].balance >= 0
          /\ user.accounts[b].balance = SumFunction(Moves(user, b))
          /\ user.accounts[b].keys # <<>> =>
               user.transactions[Last(user.accounts[b].keys)].result = user.accounts[b].balance
      BY <1>1, BooksAre
    <3> QED
      BY <1>3, <2>2, <3>1
  <2> QED
    BY <2>1, <2>2
<1>6. new.total = SumFunction(Balances(new))
  BY <1>1, <1>2, BooksAre
<1>7. BooksAgree(new)
  BY <1>5, <1>6, BooksAre
<1>8. ASSUME NEW b \in Accounts
      PROVE  ToSet(new.accounts[b].keys) \subseteq DOMAIN new.transactions
  <2>1. CASE b = a
    BY <2>1, EmptySeq DEF ToSet
  <2>2. CASE b # a
    BY <1>1, <1>3, <2>2
  <2> QED
    BY <2>1, <2>2
<1> QED
  BY <1>7, <1>8

LEMMA OpenedSound ==
  ASSUME NEW user, Sound(user), NEW type \in Types, NEW a \in Accounts \ Names(user),
         NEW new, Opened(new, user, type, a)
  PROVE  Sound(new) /\ a \in Names(new)
<1> PICK L : L = user.lists
  OBVIOUS
<1>1. /\ user.accounts \in [Accounts -> BankAccount] /\ L \in [Types -> Seq(Accounts)]
      /\ user.total \in Int /\ user.transactions \in Seq(Transaction)
      /\ ListsAgree(user) /\ \A b \in Names(user) : user.accounts[b].type \in Types
  BY SoundParts DEF Sound
<1>2. /\ IsRecord(new) /\ new.lists = [L EXCEPT ![type] = Append(@, a)]
      /\ \A b \in Accounts \ {a} : new.accounts[b] = user.accounts[b]
      /\ new.accounts[a] = [type |-> type, balance |-> 0, keys |-> <<>>]
      /\ new.total = user.total /\ new.transactions = user.transactions
  BY DEF Opened
<1>3. user.accounts[a] = NoAccount
  BY DEF Names
<1>4. /\ new.accounts[a].balance = 0 /\ new.accounts[a].keys = <<>>
      /\ new.accounts[a].type = type /\ new.accounts[a] \in BankAccount
  <2>1. <<>> \in Seq(Nat)
    BY EmptySeq
  <2> QED
    BY <1>2, <2>1 DEF BankAccount
<1>5. /\ BooksAgree(new)
      /\ \A b \in Accounts : ToSet(new.accounts[b].keys) \subseteq DOMAIN new.transactions
  BY <1>2, <1>3, <1>4, NoAccountIs, OthersAgree
<1>6. Names(new) = Names(user) \cup {a}
  <2>1. new.accounts[a] # NoAccount
    BY <1>4, NoAccountIs, TypesAssumption
  <2> QED
    BY <1>2, <2>1 DEF Names
<1>7. ASSUME NEW t \in Types
      PROVE  /\ new.lists[t] \in Seq(Accounts) /\ IsInjective(new.lists[t])
             /\ ToSet(new.lists[t]) = {b \in Names(new) : new.accounts[b].type = t}
  <2> PICK N, l : N = {b \in Names(user) : user.accounts[b].type = t} /\ l = L[t]
    OBVIOUS
  <2>1. l \in Seq(Accounts) /\ IsInjective(l) /\ ToSet(l) = N
    BY <1>1 DEF ListsAgree
  <2>2. {b \in Names(new) : new.accounts[b].type = t} = IF t = type THEN N \cup {a} ELSE N
    BY <1>2, <1>4, <1>6 DEF Names
  <2>3. new.lists[t] = IF t = type THEN Append(l, a) ELSE l
    BY <1>1, <1>2
  <2>4. a \notin N
    OBVIOUS
  <2>5. Append(l, a) \in Seq(Accounts) /\ IsInjective(Append(l, a)) /\ ToSet(Append(l, a)) = N \cup {a}
    BY <2>1, <2>4, AppendHas
  <2> QED
    BY <2>1, <2>2, <2>3, <2>5
<1>8. new.lists \in [Types -> Seq(Accounts)]
  BY <1>1, <1>2, <1>7
<1>9. new.accounts \in [Accounts -> BankAccount]
  BY <1>1, <1>2, <1>4 DEF IsRecord
<1>10. IsUser(new)
  BY <1>1, <1>2, <1>8, <1>9, UserIs
<1>11. ListsAgree(new)
  BY <1>7 DEF ListsAgree
<1>12. \A b \in Names(new) : new.accounts[b].type \in Types
  BY <1>1, <1>2, <1>4, <1>6 DEF Names
<1> QED
  BY <1>5, <1>6, <1>10, <1>11, <1>12 DEF Sound

LEMMA AddAccountSound ==
  ASSUME NEW user, Sound(user), NEW type \in Types, NEW a \in Accounts \ Names(user),
         NEW n \in Nat
  PROVE  Sound(AddAccount(user, type, a, n))
<1> DEFINE empty  == [type |-> type, balance |-> 0, keys |-> <<>>]
           funded == [type |-> type, balance |-> n, keys |-> <<>>]
           base   == [user EXCEPT !.lists[type] = Append(@, a), !.accounts[a] = empty]
           opened == [user EXCEPT !.lists[type] = Append(@, a), !.accounts[a] = funded,
                                  !.total = @ + n]
<1>1. IsRecord(user) /\ user.total \in Int
  BY UserIs DEF Sound
<1>2. Opened(base, user, type, a)
  BY <1>1 DEF IsRecord, Opened
<1>3. /\ IsRecord(opened) /\ opened.lists = [user.lists EXCEPT ![type] = Append(@, a)]
      /\ \A b \in Accounts \ {a} : opened.accounts[b] = user.accounts[b]
      /\ opened.accounts[a] = funded
      /\ opened.total = user.total + n /\ opened.transactions = user.transactions
  BY <1>1 DEF IsRecord
<1> HIDE DEF base, opened
<1>4. Sound(base) /\ a \in Names(base)
  BY <1>2, OpenedSound
<1>5. opened = Move(base, a, n)
  <2> DEFINE moved == Move(base, a, n)
  <2>1. moved = [[base EXCEPT !.accounts[a].balance = @ + n] EXCEPT !.total = @ + n]
    BY DEF Move
  <2>2. base.accounts[a] = empty /\ IsRecord(base) /\ base.total = user.total
    BY <1>2 DEF Opened
  <2> HIDE DEF moved
  <2>3. /\ IsRecord(moved) /\ moved.lists = base.lists
        /\ \A b \in Accounts \ {a} : moved.accounts[b] = base.accounts[b]
        /\ moved.accounts[a] = funded
        /\ moved.total = user.total + n /\ moved.transactions = base.transactions
    <3> DEFINE b == [base.accounts EXCEPT ![a].balance = @ + n]
    <3>1. /\ DOMAIN b = Accounts /\ b = [c \in Accounts |-> b[c]]
          /\ \A c \in Accounts \ {a} : b[c] = base.accounts[c]
          /\ b[a] = [base.accounts[a] EXCEPT !.balance = @ + n]
      BY <2>2 DEF IsRecord
    <3>2. b[a] = funded
      BY <2>2, <3>1
    <3>3. moved = [[base EXCEPT !.accounts = b] EXCEPT !.total = user.total + n]
      BY <2>1, <2>2 DEF IsRecord
    <3> HIDE DEF b, funded
    <3>4. /\ DOMAIN moved = {"accounts", "lists", "total", "transactions"}
          /\ moved = [f \in DOMAIN moved |-> moved[f]]
          /\ moved.accounts = b /\ moved.lists = base.lists
          /\ moved.total = user.total + n /\ moved.transactions = base.transactions
      BY <2>2, <3>3 DEF IsRecord
    <3> QED
      BY <3>1, <3>2, <3>4 DEF IsRecord
  <2>4. \A b \in Accounts : opened.accounts[b] = moved.accounts[b]
    BY <1>2, <1>3, <2>3 DEF Opened
  <2> HIDE DEF empty, funded
  <2>5. opened = moved
    BY <1>2, <1>3, <2>3, <2>4, SameRecord DEF Opened
  <2> QED
    BY <2>5 DEF moved
<1>6. CASE n > 0
  <2>1. "DEPOSIT" \in TransactionType /\ Change("DEPOSIT", n) = n /\ n \in Int
    BY DEF TransactionType, Change
  <2>2. Succeeds(base, a, "DEPOSIT", n)
    BY <2>1 DEF Succeeds
  <2>3. AddAccount(user, type, a, n) = MakeTransaction(base, a, "DEPOSIT", n)
    BY <1>5, <1>6, <2>1 DEF AddAccount, MakeTransaction, opened
  <2> QED
    BY <1>4, <2>1, <2>2, <2>3, MakeTransactionSound
<1>7. CASE n = 0
  <2>1. opened.total = user.total
    BY <1>1, <1>3, <1>7
  <2>2. Opened(opened, user, type, a)
    BY <1>3, <1>7, <2>1 DEF Opened
  <2>3. AddAccount(user, type, a, n) = opened
    BY <1>7 DEF AddAccount, opened
  <2> QED
    BY <2>2, <2>3, OpenedSound
<1> QED
  BY <1>6, <1>7

LEMMA RemoveAccountSound ==
  ASSUME NEW user, Sound(user), NEW a \in Names(user)
  PROVE  Sound(RemoveAccount(user, a))
<1> PICK L, T, type : L = user.lists /\ T = user.transactions /\ type = user.accounts[a].type
  OBVIOUS
<1>1. /\ IsRecord(user) /\ user.accounts \in [Accounts -> BankAccount]
      /\ L \in [Types -> Seq(Accounts)] /\ user.total \in Int /\ T \in Seq(Transaction)
      /\ ListsAgree(user) /\ a \in Accounts /\ type \in Types
      /\ \A b \in Names(user) : user.accounts[b].type \in Types
      /\ user.accounts[a].balance \in Int
  BY SoundParts, UserIs DEF Sound, Names
<1>2. user.accounts[a].balance >= 0
  BY <1>1, BooksAre DEF Sound
<1>3. CASE user.accounts[a].balance > 0
  BY <1>3 DEF RemoveAccount
<1>4. CASE ~(user.accounts[a].balance > 0)
  <2> DEFINE new == [user EXCEPT !.lists = Unlisted(user, a), !.accounts[a] = NoAccount]
  <2>1. /\ IsRecord(new) /\ new.lists = [L EXCEPT ![type] = RemoveFirst(@, a)]
        /\ \A b \in Accounts \ {a} : new.accounts[b] = user.accounts[b]
        /\ new.accounts[a] = NoAccount
        /\ new.total = user.total /\ new.transactions = T
    BY <1>1 DEF IsRecord, Unlisted
  <2> HIDE DEF new
  <2>2. /\ BooksAgree(new)
        /\ \A b \in Accounts : ToSet(new.accounts[b].keys) \subseteq DOMAIN new.transactions
    <3>1. user.accounts[a].balance = 0
      BY <1>1, <1>2, <1>4
    <3> QED
      BY <1>1, <2>1, <3>1, NoAccountIs, OthersAgree
  <2>3. Names(new) = Names(user) \ {a}
    BY <2>1 DEF Names
  <2>4. ASSUME NEW t \in Types
        PROVE  /\ new.lists[t] \in Seq(Accounts) /\ IsInjective(new.lists[t])
               /\ ToSet(new.lists[t]) = {b \in Names(new) : new.accounts[b].type = t}
    <3> PICK N, l : N = {b \in Names(user) : user.accounts[b].type = t} /\ l = L[t]
      OBVIOUS
    <3>1. l \in Seq(Accounts) /\ IsInjective(l) /\ ToSet(l) = N
      BY <1>1 DEF ListsAgree
    <3>2. {b \in Names(new) : new.accounts[b].type = t} = N \ {a}
      BY <2>1, <2>3 DEF Names
    <3>3. new.lists[t] = IF t = type THEN RemoveFirst(l, a) ELSE l
      BY <1>1, <2>1
    <3>4. CASE t = type
      <4>1. a \in N
        BY <3>4
      <4>2. /\ RemoveFirst(l, a) \in Seq(Accounts) /\ IsInjective(RemoveFirst(l, a))
            /\ ToSet(RemoveFirst(l, a)) = N \ {a}
        BY <3>1, <4>1, RemoveFirstHas
      <4> QED
        BY <3>2, <3>3, <3>4, <4>2
    <3>5. CASE t # type
      <4>1. a \notin N
        BY <3>5
      <4> QED
        BY <3>1, <3>2, <3>3, <3>5, <4>1
    <3> QED
      BY <3>4, <3>5
  <2>5. new.lists \in [Types -> Seq(Accounts)]
    BY <1>1, <2>1, <2>4
  <2>6. new.accounts \in [Accounts -> BankAccount]
    BY <1>1, <2>1, NoAccountIs DEF IsRecord
  <2>7. IsUser(new)
    BY <1>1, <2>1, <2>5, <2>6, UserIs
  <2>8. ListsAgree(new)
    BY <2>4 DEF ListsAgree
  <2>9. \A b \in Names(new) : new.accounts[b].type \in Types
    BY <1>1, <2>1, <2>3 DEF Names
  <2>10. Sound(new)
    BY <2>2, <2>7, <2>8, <2>9 DEF Sound
  <2> QED
    BY <1>4, <2>10 DEF RemoveAccount, new
<1> QED
  BY <1>3, <1>4

LEMMA NewUserSound == Sound(NewUser)
<1>1. /\ <<>> \in Seq(Accounts) /\ <<>> \in Seq(Transaction) /\ IsInjective(<<>>)
      /\ ToSet(<<>>) = {} /\ DOMAIN <<>> = {}
  BY EmptySeq DEF IsInjective, ToSet
<1>2. /\ \A a \in Accounts : NewUser.accounts[a] = NoAccount
      /\ \A t \in Types : NewUser.lists[t] = <<>>
      /\ NewUser.total = 0 /\ Names(NewUser) = {}
  BY DEF NewUser, Names
<1>3. IsUser(NewUser)
  BY <1>1, NoAccountIs DEF NewUser, IsUser
<1>4. NewUser.total = SumFunction(Balances(NewUser))
  <2>1. DOMAIN Balances(NewUser) = Accounts
        /\ \A a \in Accounts : Balances(NewUser)[a] = 0
    BY <1>2, NoAccountIs DEF Balances
  <2> QED
    BY <1>2, <2>1, AccountsAssumption, SumOfNone
<1>5. BooksAgree(NewUser)
  BY <1>2, <1>4, NoAccountIs, EmptyMoves, BooksAre
<1>6. ListsAgree(NewUser)
  BY <1>1, <1>2 DEF ListsAgree
<1> QED
  BY <1>1, <1>2, <1>3, <1>5, <1>6, NoAccountIs DEF Sound

-----------------------------------------------------------------------------
(* The copies of the database: each user in them is sound, and the log     *)
(* files have what they have.                                              *)
Held(s) ==
  DB(s) # NoDB \/ Current(s) # NoUser \/ io[s] \in {"open", "first", "rest"}
    \/ s \in fresh

SoundBook(db) == IsBook(db) /\ IsDB(db) /\ \A u \in DOMAIN db : Sound(db[u])

GoodCopy(db, logs) ==
  /\ SoundBook(db)
  /\ \A u \in DOMAIN db : \A t :
       Often(t, db[u].transactions) <= Often(t, logs[u])

AreLogs(logs) == logs \in [Users -> Seq(Transaction)]

CopiesGood ==
  /\ AreLogs(log)
  /\ \A i \in {1, 2} : file[i] # NoDB => GoodCopy(file[i], log)
  /\ \A s \in Sessions : Held(s) => GoodCopy(DB(s), log)

LEMMA LogsAreSeqs ==
  ASSUME NEW logs, AreLogs(logs), NEW u \in Users
  PROVE  IsSeq(logs[u])
  BY DEF AreLogs, IsSeq

LEMMA BookIs ==
  ASSUME NEW db, SoundBook(db)
  PROVE  /\ IsBook(db) /\ DOMAIN db \subseteq Users /\ db = [u \in DOMAIN db |-> db[u]]
         /\ \A u \in DOMAIN db : /\ IsUser(db[u]) /\ Person(db[u]) /\ Sound(db[u])
                                 /\ db[u].transactions \in Seq(Transaction)
<1>1. /\ IsBook(db) /\ DOMAIN db \subseteq Users /\ db = [u \in DOMAIN db |-> db[u]]
      /\ \A u \in DOMAIN db : IsUser(db[u]) /\ Person(db[u]) /\ Sound(db[u])
  BY DEF SoundBook, IsDB, IsBook
<1>2. \A u \in DOMAIN db : db[u].transactions \in Seq(Transaction)
  BY <1>1 DEF IsUser
<1> QED
  BY <1>1, <1>2

LEMMA CopiesInit == Init => CopiesGood
<1> SUFFICES ASSUME Init
             PROVE  CopiesGood
  OBVIOUS
<1>1. SoundBook(FirstDB)
  BY KnownInit, FirstDBAssumption DEF Known, Init, SoundBook
<1>2. log = [u \in Users |-> IF u \in DOMAIN FirstDB
                               THEN FirstDB[u].transactions ELSE <<>>]
  BY DEF Init
<1>3. <<>> \in Seq(Transaction)
  BY EmptySeq
<1>4. AreLogs(log)
  BY <1>1, <1>2, <1>3, BookIs DEF AreLogs
<1>5. ASSUME NEW u \in DOMAIN FirstDB, NEW t
      PROVE  Often(t, FirstDB[u].transactions) <= Often(t, log[u])
  <2>1. log[u] = FirstDB[u].transactions /\ IsSeq(FirstDB[u].transactions)
    BY <1>1, <1>2, BookIs DEF Person
  <2>2. Often(t, FirstDB[u].transactions) \in Nat
    BY <2>1, OftenIn, SeqFinite
  <2> QED
    BY <2>1, <2>2
<1>6. GoodCopy(FirstDB, log)
  BY <1>1, <1>5 DEF GoodCopy
<1>7. \A i \in {1, 2} : file[i] \in {NoDB, FirstDB}
  BY DEF Init
<1>8. \A s \in Sessions : ~Held(s)
  BY DEF Init, Held, NewSession, DB, Current
<1> QED
  BY <1>4, <1>6, <1>7, <1>8 DEF CopiesGood

(* A log grows, by what a user's transactions grow.                        *)
LEMMA RestOfLonger ==
  ASSUME NEW S, NEW s \in Seq(S), NEW t \in Seq(S), IsPrefix(s, t)
  PROVE  LogsAll(s, t) \in Seq(S) /\ t = s \o LogsAll(s, t)
<1> DEFINE d == SubSeq(t, Len(s) + 1, Len(t))
<1>1. /\ Len(s) \in Nat /\ Len(t) \in Nat /\ Len(s) <= Len(t)
      /\ \A n \in 1 .. Len(s) : s[n] = t[n]
  BY PrefixIs, LenProperties DEF IsSeq
<1>2. \A n \in 1 .. Len(t) : t[n] \in S
  OBVIOUS
<1>3. /\ d \in Seq(S)
      /\ Len(d) = IF Len(s) + 1 <= Len(t) THEN Len(t) - (Len(s) + 1) + 1 ELSE 0
      /\ \A n \in 1 .. Len(d) : d[n] = t[Len(s) + n]
  <2>1. Len(s) + 1 \in Int /\ Len(t) \in Int
        /\ \A i \in Len(s) + 1 .. Len(t) : t[i] \in S
    BY <1>1, <1>2
  <2>2. /\ d \in Seq(S)
        /\ Len(d) = IF Len(s) + 1 <= Len(t) THEN Len(t) - (Len(s) + 1) + 1 ELSE 0
        /\ \A n \in 1 .. Len(d) : d[n] = t[(Len(s) + 1) + n - 1]
    BY <2>1, SubSeqProperties
  <2>3. Len(d) \in Nat
    BY <2>2, LenProperties
  <2>4. \A n \in 1 .. Len(d) : (Len(s) + 1) + n - 1 = Len(s) + n
    BY <1>1, <2>3
  <2> QED
    BY <2>2, <2>4
<1>4. Len(d) = Len(t) - Len(s)
  BY <1>1, <1>3
<1> HIDE DEF d
<1>5. /\ s \o d \in Seq(S) /\ Len(s \o d) = Len(s) + Len(d)
      /\ \A n \in 1 .. Len(s) + Len(d) :
           (s \o d)[n] = IF n <= Len(s) THEN s[n] ELSE d[n - Len(s)]
  BY <1>3, ConcatProperties
<1>6. ASSUME NEW n \in 1 .. Len(t)
      PROVE  (s \o d)[n] = t[n]
  <2>1. CASE n <= Len(s)
    BY <1>1, <1>4, <1>5, <2>1
  <2>2. CASE ~(n <= Len(s))
    <3>1. n - Len(s) \in 1 .. Len(d) /\ Len(s) + (n - Len(s)) = n
      BY <1>1, <1>4, <2>2
    <3>2. (s \o d)[n] = d[n - Len(s)]
      BY <1>1, <1>4, <1>5, <2>2
    <3> QED
      BY <1>3, <3>1, <3>2
  <2> QED
    BY <2>1, <2>2
<1>7. Len(s \o d) = Len(t)
  BY <1>1, <1>4, <1>5
<1>8. t = s \o d
  BY <1>5, <1>6, <1>7, SeqEqual
<1> QED
  BY <1>3, <1>8 DEF LogsAll, d

LEMMA LogGrows ==
  ASSUME NEW S, NEW old \in Seq(S), NEW new \in Seq(S), NEW file0 \in Seq(S),
         IsPrefix(old, new), \A t : Often(t, old) <= Often(t, file0)
  PROVE  LET grown == file0 \o LogsAll(old, new)
         IN  /\ grown \in Seq(S)
             /\ \A t : /\ Often(t, file0) <= Often(t, grown)
                       /\ Often(t, new) <= Often(t, grown)
<1> DEFINE d == LogsAll(old, new)
           grown == file0 \o d
<1>1. d \in Seq(S) /\ new = old \o d
  BY RestOfLonger
<1> HIDE DEF d
<1>2. grown \in Seq(S)
  BY <1>1, ConcatProperties
<1>5. ASSUME NEW t
      PROVE  Often(t, file0) <= Often(t, grown) /\ Often(t, new) <= Often(t, grown)
  <2>1. /\ Often(t, old) \in Nat /\ Often(t, d) \in Nat
        /\ Often(t, new) = Often(t, old) + Often(t, d)
    BY <1>1, OftenConcat
  <2>2. /\ Often(t, file0) \in Nat
        /\ Often(t, grown) = Often(t, file0) + Often(t, d)
    BY <1>1, OftenConcat
  <2>3. Often(t, old) <= Often(t, file0)
    OBVIOUS
  <2> QED
    BY <2>1, <2>2, <2>3
<1> HIDE DEF grown
<1>6. grown \in Seq(S) /\ \A t : Often(t, file0) <= Often(t, grown)
                                 /\ Often(t, new) <= Often(t, grown)
  BY <1>2, <1>5
<1> QED
  BY <1>6 DEF grown, d

(* A book stays in logs that grow.                                         *)
Grown(logs, new) ==
  AreLogs(new) /\ \A u \in Users : \A t : Often(t, logs[u]) <= Often(t, new[u])

LEMMA GoodGrown ==
  ASSUME NEW logs, NEW new, AreLogs(logs)
  PROVE  /\ Grown(logs, logs)
         /\ Grown(logs, new) => \A db : GoodCopy(db, logs) => GoodCopy(db, new)
<1>1. \A u \in Users : \A t : Often(t, logs[u]) \in Nat
  BY LogsAreSeqs, OftenIn, SeqFinite
<1>2. Grown(logs, logs)
  BY <1>1 DEF Grown
<1>3. ASSUME Grown(logs, new), NEW db, GoodCopy(db, logs)
      PROVE  GoodCopy(db, new)
  <2>1. ASSUME NEW u \in DOMAIN db, NEW t
        PROVE  Often(t, db[u].transactions) <= Often(t, new[u])
    <3>1. /\ u \in Users /\ IsSeq(db[u].transactions)
          /\ Often(t, db[u].transactions) <= Often(t, logs[u])
          /\ Often(t, logs[u]) <= Often(t, new[u])
      BY <1>3, BookIs DEF GoodCopy, Person, Grown
    <3>2. Often(t, db[u].transactions) \in Nat /\ Often(t, logs[u]) \in Nat
          /\ Often(t, new[u]) \in Nat
      BY <1>1, <1>3, <3>1, LogsAreSeqs, OftenIn, SeqFinite DEF Grown
    <3> QED
      BY <3>1, <3>2
  <2> QED
    BY <1>3, <2>1 DEF GoodCopy
<1> QED
  BY <1>2, <1>3

LEMMA AddedGood ==
  ASSUME NEW db, GoodCopy(db, log), AreLogs(log), NEW u \in Users,
         ~UserNameExists(db, u)
  PROVE  GoodCopy(addNewUser(db, u), log)
<1> DEFINE new == addNewUser(db, u)
<1>1. /\ DOMAIN new = DOMAIN db \cup {u} /\ new[u] = NewUser
      /\ \A v \in DOMAIN db : new[v] = db[v]
  BY DEF addNewUser, UserNameExists
<1>2. IsBook(new) /\ new = [v \in DOMAIN new |-> new[v]]
  BY AddedBook DEF GoodCopy, SoundBook, addNewUser
<1> HIDE DEF new
<1>3. ASSUME NEW t
      PROVE  Often(t, <<>>) <= Often(t, log[u])
  <2>1. Places(t, <<>>) = {}
    BY DEF Places
  <2>2. Often(t, <<>>) = 0
    BY <2>1, OftenIs, FS_EmptySet
  <2>3. Often(t, log[u]) \in Nat
    BY LogsAreSeqs, OftenIn, SeqFinite
  <2> QED
    BY <2>2, <2>3
<1>4. NewUser.transactions = <<>>
  BY DEF NewUser
<1>5. SoundBook(new)
  <2>1. SoundBook(db) /\ \A v \in DOMAIN db : IsUser(db[v]) /\ Sound(db[v])
    BY BookIs DEF GoodCopy
  <2>2. IsUser(NewUser) /\ Sound(NewUser)
    BY NewUserSound DEF Sound
  <2>3. \A v \in DOMAIN new : v \in Users /\ IsUser(new[v]) /\ Sound(new[v])
    BY <1>1, <2>1, <2>2, BookIs
  <2> QED
    BY <1>2, <2>3 DEF SoundBook, IsDB
<1>6. GoodCopy(new, log)
  BY <1>1, <1>3, <1>4, <1>5 DEF GoodCopy
<1> QED
  BY <1>6 DEF new

LEMMA ChangedGood ==
  ASSUME CopiesGood, Known, Shapes, NEW s \in Sessions, LoggedIn(s), NEW user,
         Becomes(s, user), Longer(Mine(s), user), Sound(user)
  PROVE  Grown(log, log') /\ GoodCopy(DB(s)', log')
<1> DEFINE u == Current(s)
           old == Mine(s).transactions
           new == [DB(s) EXCEPT ![u] = user]
           grown == log[u] \o LogsAll(old, user.transactions)
<1>1. /\ u \in DOMAIN DB(s) /\ GoodCopy(DB(s), log) /\ SoundBook(DB(s))
      /\ u \in Users /\ IsUser(user)
  BY BookIs DEF LoggedIn, Known, KnownTo, CopiesGood, Held, GoodCopy, Sound
<1>2. /\ old \in Seq(Transaction) /\ user.transactions \in Seq(Transaction)
      /\ log[u] \in Seq(Transaction) /\ IsPrefix(old, user.transactions)
      /\ \A t : Often(t, old) <= Often(t, log[u])
  <2>1. user.transactions \in Seq(Transaction)
    BY <1>1 DEF IsUser
  <2>2. old \in Seq(Transaction)
    BY <1>1, BookIs DEF Mine
  <2> QED
    BY <1>1, <2>1, <2>2 DEF GoodCopy, Mine, Longer, CopiesGood, AreLogs
<1>3. log' = [log EXCEPT ![u] = grown]
  BY DEF Becomes
<1>4. DB(s)' = new /\ SoundBook(new)
  <2>1. DB(s)' = new
    BY DEF Becomes, Shapes, DB, Current
  <2>2. IsBook(new)
    BY <1>1, ChangedBook, BookIs DEF Mine
  <2>3. /\ DOMAIN new = DOMAIN DB(s) /\ new = [v \in DOMAIN new |-> new[v]]
        /\ \A v \in DOMAIN new : new[v] = IF v = u THEN user ELSE DB(s)[v]
    BY <1>1
  <2> HIDE DEF new
  <2>4. \A v \in DOMAIN new : v \in Users /\ IsUser(new[v]) /\ Sound(new[v])
    BY <1>1, <2>3, BookIs
  <2> QED
    BY <2>1, <2>2, <2>3, <2>4 DEF SoundBook, IsDB
<1>5. grown \in Seq(Transaction) /\ \A t : /\ Often(t, log[u]) <= Often(t, grown)
                             /\ Often(t, user.transactions) <= Often(t, grown)
  BY <1>2, LogGrows
<1> PICK w, l, b : w = u /\ l = grown /\ b = new
  OBVIOUS
<1>6. /\ log' = [log EXCEPT ![w] = l] /\ l \in Seq(Transaction) /\ w \in Users /\ w \in DOMAIN DB(s)
      /\ \A t : Often(t, log[w]) <= Often(t, l)
      /\ \A t : Often(t, user.transactions) <= Often(t, l)
  BY <1>1, <1>3, <1>5
<1>7. DB(s)' = b /\ SoundBook(b) /\ b = [DB(s) EXCEPT ![w] = user]
  BY <1>4
<1> HIDE DEF u, old, new, grown
<1>8. /\ DOMAIN log' = Users /\ log'[w] = l
      /\ \A v \in Users \ {w} : log'[v] = log[v]
  BY <1>6 DEF CopiesGood, AreLogs
<1>9. Grown(log, log) /\ AreLogs(log)
  BY GoodGrown DEF CopiesGood
<1>10. AreLogs(log')
  BY <1>6, <1>9 DEF AreLogs
<1>11. \A v \in Users : \A t : Often(t, log[v]) <= Often(t, log'[v])
  BY <1>6, <1>8, <1>9 DEF Grown
<1>12. Grown(log, log')
  BY <1>10, <1>11 DEF Grown
<1>13. GoodCopy(DB(s), log')
  BY <1>1, <1>9, <1>12, GoodGrown
<1>14. ASSUME NEW v \in DOMAIN b, NEW t
       PROVE  Often(t, b[v].transactions) <= Often(t, log'[v])
  <2>1. CASE v = w
    BY <1>6, <1>7, <1>8, <2>1
  <2>2. CASE v # w
    BY <1>7, <1>13, <2>2 DEF GoodCopy
  <2> QED
    BY <2>1, <2>2
<1>15. DOMAIN b = DOMAIN DB(s)
  BY <1>7
<1> QED
  BY <1>7, <1>12, <1>13, <1>14, <1>15 DEF GoodCopy

(* A servlet that changes the data of a user adds to their transactions.   *)
LEMMA ServletBecomes ==
  ASSUME CopiesGood, Known, NEW s \in Sessions,
         BankAccountCreated(s) \/ BankAccountDeleted(s)
           \/ TransactionCompleted(s) \/ TransferCompleted(s)
  PROVE  \E user : /\ LoggedIn(s) /\ Becomes(s, user)
                   /\ Longer(Mine(s), user) /\ Sound(user)
<1>1. LoggedIn(s) /\ Person(Mine(s)) /\ Sound(Mine(s))
  <2>1. LoggedIn(s) /\ Current(s) \in DOMAIN DB(s)
    BY DEF BankAccountCreated, BankAccountDeleted, TransactionCompleted,
           TransferCompleted, LoggedIn, Known, KnownTo
  <2>2. SoundBook(DB(s))
    BY <2>1 DEF CopiesGood, Held, LoggedIn, GoodCopy
  <2> QED
    BY <2>1, <2>2, BookIs DEF Mine
<1>2. CASE BankAccountCreated(s)
  <2>1. PICK a \in Accounts \ Names(Mine(s)), t \in Types, n \in Openings :
          Becomes(s, AddAccount(Mine(s), t, a, n))
    BY <1>2 DEF BankAccountCreated
  <2>2. n \in Nat
    BY BankAssumption
  <2> QED
    BY <1>1, <2>1, <2>2, MethodsLonger, AddAccountSound
<1>3. CASE BankAccountDeleted(s)
  <2>1. PICK a \in Names(Mine(s)) : Becomes(s, RemoveAccount(Mine(s), a))
    BY <1>3 DEF BankAccountDeleted
  <2> QED
    BY <1>1, <2>1, MethodsLonger, RemoveAccountSound
<1>4. CASE TransactionCompleted(s)
  <2>1. PICK a \in Names(Mine(s)), n \in Amounts, t \in {"DEPOSIT", "WITHDRAWAL"} :
          Succeeds(Mine(s), a, t, n) /\ Becomes(s, MakeTransaction(Mine(s), a, t, n))
    BY <1>4 DEF TransactionCompleted
  <2>2. n \in Int /\ t \in TransactionType
    BY BankAssumption DEF TransactionType
  <2> QED
    BY <1>1, <2>1, <2>2, MethodsLonger, MakeTransactionSound
<1>5. CASE TransferCompleted(s)
  <2>1. PICK a \in Names(Mine(s)), b \in Accounts, n \in Amounts :
          Becomes(s, MakeTransfer(Mine(s), a, b, n))
    BY <1>5 DEF TransferCompleted
  <2>2. n \in Nat
    BY BankAssumption
  <2> QED
    BY <1>1, <2>1, <2>2, MethodsLonger, MakeTransferSound
<1> QED
  BY <1>2, <1>3, <1>4, <1>5

LEMMA SessionLogs ==
  ASSUME CopiesGood, Known, Shapes, NEW s \in Sessions,
         Servlet(s) \/ RestoreRead(s) \/ Expire(s)
  PROVE  Grown(log, log') /\ (Held(s)' => GoodCopy(DB(s)', log'))
<1>1. AreLogs(log) /\ Grown(log, log) /\ GoodCopy(EmptyDB, log)
  <2>1. SoundBook(EmptyDB)
    BY EmptyBook DEF SoundBook, IsDB, EmptyDB
  <2> QED
    BY <2>1, GoodGrown DEF CopiesGood, GoodCopy, EmptyDB
<1>2. ASSUME NEW db, GoodCopy(db, log), Obtain(s, db), UNCHANGED log
      PROVE  Grown(log, log') /\ (Held(s)' => GoodCopy(DB(s)', log'))
  <2>1. DB(s)' = db
    BY <1>2 DEF Obtain, Shapes, DB
  <2> QED
    BY <1>1, <1>2, <2>1
<1>3. CASE Restore(s)
  <2>1. CASE Length = 0
    BY <1>1, <1>2, <1>3, <2>1 DEF Restore
  <2>2. CASE Length # 0
    <3>1. DB(s)' = DB(s) /\ log' = log /\ (Held(s)' => Held(s))
      BY <1>3, <2>2 DEF Restore, DB, Current, Held, Shapes
    <3> QED
      BY <1>1, <3>1 DEF CopiesGood
  <2> QED
    BY <2>1, <2>2
<1>4. CASE RestoreRead(s)
  <2>1. CASE Readable /\ Length > 0
    <3>1. file[1] # NoDB
      BY <2>1, FS_EmptySet DEF Readable, Length
    <3>2. GoodCopy(file[1], log)
      BY <3>1 DEF CopiesGood
    <3> QED
      BY <1>2, <1>4, <2>1, <3>2 DEF RestoreRead
  <2>2. CASE ~(Readable /\ Length > 0)
    <3>1. DB(s)' = DB(s) /\ log' = log /\ (Held(s)' => Held(s))
      BY <1>4, <2>2 DEF RestoreRead, DB, Current, Held, Shapes
    <3> QED
      BY <1>1, <3>1 DEF CopiesGood
  <2> QED
    BY <2>1, <2>2
<1>5. CASE LogsOut(s)
  <2>1. DB(s)' = DB(s) /\ log' = log /\ (Held(s)' => Held(s))
    BY <1>5 DEF LogsOut, DB, Current, Held, Shapes, history
  <2> QED
    BY <1>1, <2>1 DEF CopiesGood
<1>6. ASSUME NEW u \in Users, UserAccountCreated(s, u)
      PROVE  Grown(log, log') /\ (Held(s)' => GoodCopy(DB(s)', log'))
  <2> PICK db : db = IF DB(s) = NoDB THEN EmptyDB ELSE DB(s)
    OBVIOUS
  <2>1. GoodCopy(db, log)
    BY <1>1 DEF CopiesGood, Held
  <2>2. DB(s)' = IF UserNameExists(db, u) THEN db ELSE addNewUser(db, u)
    BY <1>6 DEF UserAccountCreated, Shapes, DB
  <2>3. log' = log
    BY <1>6 DEF UserAccountCreated
  <2>4. GoodCopy(DB(s)', log)
    BY <1>1, <2>1, <2>2, AddedGood
  <2> QED
    BY <1>1, <2>3, <2>4
<1>7. ASSUME NEW u, HomePage(s, u)
      PROVE  Grown(log, log') /\ (Held(s)' => GoodCopy(DB(s)', log'))
  <2>1. DB(s)' = DB(s) /\ log' = log /\ Held(s)
    BY <1>7 DEF HomePage, Shapes, DB, Held
  <2> QED
    BY <1>1, <2>1 DEF CopiesGood
<1>8. CASE BankAccountCreated(s) \/ BankAccountDeleted(s)
             \/ TransactionCompleted(s) \/ TransferCompleted(s)
  BY <1>8, ServletBecomes, ChangedGood
<1>9. CASE Expire(s)
  <2>1. ~Held(s)' /\ log' = log
    BY <1>9 DEF Expire, Shapes, Held, DB, Current, NewSession, Idle
  <2> QED
    BY <1>1, <2>1
<1> QED
  BY <1>3, <1>4, <1>5, <1>6, <1>7, <1>8, <1>9 DEF Servlet, LoginPage, NewUserPage

LEMMA CopiesStep ==
  ASSUME CopiesGood, Known, Shapes, [Next]_vars
  PROVE  CopiesGood'
<1>1. AreLogs(log) /\ Grown(log, log)
  BY GoodGrown DEF CopiesGood
<1>2. ASSUME NEW s \in Sessions, Servlet(s) \/ RestoreRead(s) \/ Expire(s)
      PROVE  CopiesGood'
  <2>1. Grown(log, log') /\ (Held(s)' => GoodCopy(DB(s)', log'))
    BY <1>2, SessionLogs
  <2>2. /\ file' = file
        /\ \A t \in Sessions \ {s} : DB(t)' = DB(t) /\ (Held(t)' => Held(t))
    BY <1>2, StepsAside, AsideKnown DEF Aside, DB, Current, Held
  <2>3. \A db : GoodCopy(db, log) => GoodCopy(db, log')
    BY <1>1, <2>1, GoodGrown
  <2> QED
    BY <2>1, <2>2, <2>3 DEF CopiesGood, Grown
<1>3. ASSUME log' = log, \A s \in Sessions : DB(s)' = DB(s) /\ (Held(s)' => Held(s)),
             \A i \in {1, 2} : file'[i] \in {file[i], NoDB}
                                 \/ \E s \in Sessions : Held(s) /\ file'[i] = DB(s)
      PROVE  CopiesGood'
  BY <1>3 DEF CopiesGood
<1>4. ASSUME NEW s \in Sessions, OpenFile(s)
      PROVE  CopiesGood'
  BY <1>3, <1>4 DEF OpenFile, Emptied, Shapes, Held, DB, Current
<1>5. ASSUME NEW s \in Sessions, WriteFirst(s)
      PROVE  CopiesGood'
  BY <1>3, <1>5 DEF WriteFirst, Begun, Shapes, Held, DB, Current, history
<1>6. ASSUME NEW s \in Sessions, WriteRest(s)
      PROVE  CopiesGood'
  <2>1. log' = log /\ \A t \in Sessions : DB(t)' = DB(t) /\ Current(t)' = Current(t)
    BY <1>6 DEF WriteRest, DB, Current
  <2>2. \A t \in Sessions : io'[t] \in {io[t], "idle"}
    BY <1>6 DEF WriteRest, Shapes
  <2>3. Held(s) /\ \A i \in {1, 2} : file'[i] \in {file[i], DB(s)}
    BY <1>6 DEF WriteRest, Closed, Shapes, Held
  <2>4. \A t \in Sessions : Held(t)' => Held(t) \/ DB(t) = DB(s)
    BY <1>6, <2>1, <2>2 DEF Held, WriteRest
  <2> QED
    BY <2>1, <2>3, <2>4 DEF CopiesGood
<1>7. CASE Crash
  <2>1. log' = log /\ file' = file /\ \A s \in Sessions : ~Held(s)'
    BY <1>7 DEF Crash, Held, NewSession, DB, Current
  <2> QED
    BY <2>1 DEF CopiesGood
<1>8. CASE UNCHANGED vars
  BY <1>3, <1>8 DEF vars, history, Held, DB, Current
<1> QED
  BY <1>2, <1>4, <1>5, <1>6, <1>7, <1>8 DEF Next, FileStep

(* The rest of the types.                                                  *)
Tallies ==
  /\ io \in [Sessions -> {"idle", "read", "open", "first", "rest"}]
  /\ work \in 0 .. MaxWork /\ losses \in 0 .. MaxLosses
  /\ SoundBook(saved) /\ fresh \subseteq Sessions /\ spoiled \in BOOLEAN

LEMMA TalliesInit == Init => Tallies
<1> SUFFICES ASSUME Init
             PROVE  Tallies
  OBVIOUS
<1>1. SoundBook(saved)
  BY KnownInit, FirstDBAssumption DEF Known, Init, SoundBook
<1>2. work \in 0 .. MaxWork /\ losses \in 0 .. MaxLosses
  BY BankAssumption DEF Init
<1> QED
  BY <1>1, <1>2 DEF Init, Tallies

LEMMA TalliesStep ==
  ASSUME CopiesGood, Tallies, [Next]_vars
  PROVE  Tallies'
<1> USE DEF Tallies
<1>1. ASSUME NEW n \in Nat, NEW k \in 0 .. n, k < n
      PROVE  k + 1 \in 0 .. n
  BY <1>1
<1>2. /\ work < MaxWork => work + 1 \in 0 .. MaxWork
      /\ losses < MaxLosses => losses + 1 \in 0 .. MaxLosses
  BY <1>1, BankAssumption
<1>3. ASSUME NEW s \in Sessions, Servlet(s)
      PROVE  Tallies'
  <2>1. CASE Restore(s)
    BY <2>1 DEF Restore, Obtain, bounds
  <2>2. CASE LogsOut(s)
    BY <2>2 DEF LogsOut, bounds, history
  <2>3. ASSUME NEW u, UserAccountCreated(s, u)
        PROVE  Tallies'
    <3>1. work' \in 0 .. MaxWork
      BY <1>2, <2>3 DEF UserAccountCreated
    <3> QED
      BY <2>3, <3>1 DEF UserAccountCreated
  <2>4. ASSUME NEW u, HomePage(s, u)
        PROVE  Tallies'
    BY <2>4 DEF HomePage, bounds, history
  <2>5. ASSUME NEW user, Becomes(s, user)
        PROVE  Tallies'
    <3>1. work' \in 0 .. MaxWork
      BY <1>2, <2>5 DEF Becomes
    <3> QED
      BY <2>5, <3>1 DEF Becomes, history
  <2> QED
    BY <1>3, <2>1, <2>2, <2>3, <2>4, <2>5
    DEF Servlet, LoginPage, NewUserPage, BankAccountCreated, BankAccountDeleted,
        TransactionCompleted, TransferCompleted
<1>4. ASSUME NEW s \in Sessions, FileStep(s)
      PROVE  Tallies'
  <2>1. CASE RestoreRead(s)
    BY <2>1 DEF RestoreRead, Obtain, bounds
  <2>2. CASE OpenFile(s)
    BY <2>2 DEF OpenFile, bounds
  <2>3. CASE WriteFirst(s)
    BY <2>3 DEF WriteFirst, bounds, history
  <2>4. CASE WriteRest(s)
    <3>1. SoundBook(DB(s))
      BY <2>4 DEF WriteRest, CopiesGood, Held, GoodCopy
    <3>2. SoundBook(saved')
      BY <2>4, <3>1 DEF WriteRest
    <3> QED
      BY <2>4, <3>2 DEF WriteRest, bounds
  <2> QED
    BY <1>4, <2>1, <2>2, <2>3, <2>4 DEF FileStep
<1>5. ASSUME NEW s \in Sessions, Expire(s)
      PROVE  Tallies'
  <2>1. losses' \in 0 .. MaxLosses
    BY <1>2, <1>5 DEF Expire
  <2> QED
    BY <1>5, <2>1 DEF Expire
<1>6. CASE Crash
  <2>1. losses' \in 0 .. MaxLosses
    BY <1>2, <1>6 DEF Crash
  <2> QED
    BY <1>6, <2>1 DEF Crash
<1>7. CASE UNCHANGED vars
  BY <1>7 DEF vars, bounds, history
<1> QED
  BY <1>3, <1>4, <1>5, <1>6, <1>7 DEF Next

LEMMA TypesFollow ==
  ASSUME Known, CopiesGood, Tallies
  PROVE  TypeOK
<1>1. ASSUME NEW s \in Sessions, DB(s) # NoDB
      PROVE  IsDB(DB(s))
  BY <1>1 DEF CopiesGood, Held, GoodCopy, SoundBook
<1>2. \A s \in Sessions : Current(s) # NoUser => Current(s) \in DOMAIN DB(s)
  BY DEF Known, KnownTo
<1>3. \A i \in {1, 2} : file[i] # NoDB => IsDB(file[i])
  BY DEF CopiesGood, GoodCopy, SoundBook
<1> QED
  BY <1>1, <1>2, <1>3
  DEF TypeOK, DB, Current, Tallies, CopiesGood, AreLogs, SoundBook

-----------------------------------------------------------------------------
(* The types of what the overlapping requests work on: what a request must *)
(* have at each place, given the objects there are and the number.         *)
BankObject == [balance : Int, size : Nat, keys : Seq(Nat)]
LegOf(n) == [obj : 0 .. n, type : TransactionType, amount : Int]

OnObject == {"check", "balance", "set balance", "total", "set total", "new", "log",
             "number", "put", "count", "set count", "return", "size", "key", "map"}

ReqTyped(q, objs, n) ==
  /\ DOMAIN q = Fields /\ q.legs \in Seq(LegOf(Len(objs)))
  /\ q.pc \in OnObject => q.legs # <<>> /\ q.legs[1].obj # 0
  /\ q.pc \in {"list", "create"} => q.legs # <<>>
  /\ q.pc \in {"list", "create", "map", "unlist", "unmap"} => q.name \in Accounts
  /\ q.opens => q.name \in Accounts
  /\ q.pc \in {"set balance", "set total"} => q.seen \in Int
  /\ q.pc \in {"put", "set count"} => q.seen \in Nat
  /\ q.pc = "key" => q.seen \in 0 .. Len(objs[q.legs[1].obj].keys)
  /\ q.pc \in {"size", "key"} => q.index \in Nat
  /\ q.pc = "return" => n > 0
  /\ q.pc \in {"log", "number", "put"} => q.t \in Transaction

ObjectsTyped(objs) ==
  /\ objs \in Seq(BankObject)
  /\ \A i \in DOMAIN objs : objs[i].size <= Len(objs[i].keys)

BooksTyped ==
  /\ ObjectsTyped(objects) /\ accounts \in [Accounts -> 0 .. Len(objects)]
  /\ list \in Seq(Accounts) /\ changes \in Nat /\ total \in Int /\ number \in Nat
  /\ all \in [DOMAIN all -> Transaction]

ReqTypes ==
  /\ BooksTyped
  /\ DOMAIN req = Requests /\ \A r \in Requests : ReqTyped(req[r], objects, number)
  /\ issued \in 0 .. MaxRequests /\ kept \in BOOLEAN

LEMMA ReqTypesGive ==
  ASSUME ReqTypes
  PROVE  Req!TypeOK
<1>1. ASSUME NEW i \in DOMAIN objects
      PROVE  /\ objects[i].balance \in Int
             /\ objects[i].size \in 0 .. Len(objects[i].keys)
             /\ objects[i].keys \in Seq(Nat)
  <2>1. objects[i] \in BankObject /\ objects[i].size <= Len(objects[i].keys)
    BY LenProperties, ElementOfSeq DEF ReqTypes, BooksTyped, ObjectsTyped
  <2>2. objects[i].keys \in Seq(Nat) /\ objects[i].size \in Nat /\ objects[i].balance \in Int
    BY <2>1 DEF BankObject
  <2> QED
    BY <2>1, <2>2, LenProperties
<1>2. ASSUME NEW r \in Requests, NEW i \in DOMAIN req[r].legs
      PROVE  req[r].legs[i].obj \in 0 .. Len(objects)
  <2>1. req[r].legs \in Seq(LegOf(Len(objects)))
    BY DEF ReqTypes, ReqTyped
  <2>2. req[r].legs[i] \in LegOf(Len(objects))
    BY <2>1, LenProperties, ElementOfSeq
  <2> QED
    BY <2>2 DEF LegOf
<1>3. all \in [DOMAIN all -> Req!Transaction]
  BY DEF ReqTypes, BooksTyped, Transaction, Req!Transaction, TransactionType,
         Req!TransactionType
<1> QED
  BY <1>1, <1>2, <1>3 DEF ReqTypes, BooksTyped, Req!TypeOK

LEMMA ObjectIs ==
  ASSUME NEW objs, ObjectsTyped(objs), NEW o \in 1 .. Len(objs)
  PROVE  /\ objs[o] \in BankObject /\ objs[o].balance \in Int /\ objs[o].size \in Nat
         /\ objs[o].keys \in Seq(Nat) /\ objs[o].size <= Len(objs[o].keys)
         /\ Len(objs[o].keys) \in Nat /\ Len(objs) \in Nat /\ DOMAIN objs = 1 .. Len(objs)
<1>1. DOMAIN objs = 1 .. Len(objs) /\ Len(objs) \in Nat
  BY LenProperties DEF ObjectsTyped
<1>2. objs[o] \in BankObject
  BY <1>1, ElementOfSeq DEF ObjectsTyped
<1>3. objs[o].keys \in Seq(Nat) /\ objs[o].balance \in Int /\ objs[o].size \in Nat
  BY <1>2 DEF BankObject
<1> QED
  BY <1>1, <1>2, <1>3, LenProperties DEF ObjectsTyped

(* What a request has is not disturbed as objects are added and grow.      *)
Growing(objs, new) ==
  /\ Len(objs) <= Len(new)
  /\ \A o \in 1 .. Len(objs) : Len(objs[o].keys) <= Len(new[o].keys)

Within(n, j) == n \in 0 .. j
NoLess(j, k) == j \in Nat /\ k \in Nat /\ j <= k

LEMMA StillWithin ==
  ASSUME NEW j, NEW k, NoLess(j, k), NEW n, Within(n, j)
  PROVE  Within(n, k)
  BY DEF Within, NoLess

LEMMA StaysTyped ==
  ASSUME NEW objs, NEW new, ObjectsTyped(objs), ObjectsTyped(new), Growing(objs, new),
         NEW n, NEW m, n > 0 => m > 0, NEW q, ReqTyped(q, objs, n)
  PROVE  ReqTyped(q, new, m)
<1>1. Len(objs) \in Nat /\ Len(new) \in Nat /\ Len(objs) <= Len(new)
  BY LenProperties DEF ObjectsTyped, Growing
<1>2. LegOf(Len(objs)) \subseteq LegOf(Len(new))
  BY <1>1 DEF LegOf
<1>3. q.legs \in Seq(LegOf(Len(objs))) /\ q.legs \in Seq(LegOf(Len(new)))
  BY <1>2, SeqMonotonic DEF ReqTyped
<1>4. ASSUME q.pc = "key"
      PROVE  q.seen \in 0 .. Len(new[q.legs[1].obj].keys)
  <2> PICK o : o = q.legs[1].obj
    OBVIOUS
  <2>1. o # 0 /\ q.legs # <<>> /\ q.seen \in 0 .. Len(objs[o].keys)
    BY <1>4 DEF ReqTyped, OnObject
  <2>2. q.legs[1] \in LegOf(Len(objs))
    <3>1. Len(q.legs) \in Nat /\ Len(q.legs) # 0
      BY <1>3, <2>1, EmptySeq, LenProperties
    <3> QED
      BY <1>3, <3>1, ElementOfSeq
  <2>3. o \in 1 .. Len(objs)
    BY <1>1, <2>1, <2>2 DEF LegOf
  <2>4. Len(objs[o].keys) <= Len(new[o].keys) /\ o \in 1 .. Len(new)
    BY <1>1, <2>3 DEF Growing
  <2>5. Len(objs[o].keys) \in Nat /\ Len(new[o].keys) \in Nat
    BY <2>3, <2>4, ObjectIs
  <2>6. Within(q.seen, Len(objs[o].keys)) /\ NoLess(Len(objs[o].keys), Len(new[o].keys))
    BY <2>1, <2>4, <2>5 DEF Within, NoLess
  <2>7. Within(q.seen, Len(new[o].keys))
    BY <2>6, StillWithin
  <2> QED
    BY <2>7 DEF Within
<1> QED
  BY <1>3, <1>4 DEF ReqTyped

(* A step of one request.                                                  *)
LEMMA StepTyped ==
  ASSUME ReqTypes, NEW r \in Requests, DOMAIN req' = Requests,
         \A q \in Requests \ {r} : req'[q] = req[q], BooksTyped',
         Growing(objects, objects'), number > 0 => number' > 0,
         ReqTyped(req'[r], objects', number'),
         issued' \in 0 .. MaxRequests, kept' \in BOOLEAN
  PROVE  ReqTypes'
<1>1. ASSUME NEW q \in Requests
      PROVE  ReqTyped(req'[q], objects', number')
  <2>1. CASE q = r
    BY <2>1
  <2>2. CASE q # r
    BY <2>2, StaysTyped DEF ReqTypes, BooksTyped
  <2> QED
    BY <2>1, <2>2
<1> QED
  BY <1>1 DEF ReqTypes

LEMMA StillGrowing ==
  ASSUME NEW objs, ObjectsTyped(objs)
  PROVE  Growing(objs, objs)
<1>1. \A o \in 1 .. Len(objs) : Len(objs[o].keys) \in Nat
  BY ObjectIs
<1>2. Len(objs) \in Nat
  BY LenProperties DEF ObjectsTyped
<1> QED
  BY <1>1, <1>2 DEF Growing

LEMMA FirstLeg ==
  ASSUME ReqTypes, NEW r \in Requests, req[r].legs # <<>>
  PROVE  /\ Req!Now(r) = req[r].legs[1] /\ Req!Now(r) \in LegOf(Len(objects))
         /\ Req!Now(r).type \in TransactionType /\ Req!Now(r).amount \in Int
         /\ Req!Now(r).obj \in 0 .. Len(objects) /\ Req!By(Req!Now(r)) \in Int
         /\ Req!Now(r).obj # 0 =>
              Req!Now(r).obj \in 1 .. Len(objects) /\ Req!Balance(r) \in Int
<1> PICK l, n : l = req[r].legs /\ n = Len(objects)
  OBVIOUS
<1>1. l \in Seq(LegOf(n)) /\ l # <<>> /\ n \in Nat
  BY LenProperties DEF ReqTypes, ReqTyped, BooksTyped, ObjectsTyped
<1>2. Len(l) \in Nat /\ Len(l) # 0
  BY <1>1, EmptySeq, LenProperties
<1>3. l[1] \in LegOf(n)
  BY <1>1, <1>2, ElementOfSeq
<1>4. Req!Now(r) = l[1]
  BY DEF Req!Now
<1>5. l[1].type \in TransactionType /\ l[1].amount \in Int /\ l[1].obj \in 0 .. n
  BY <1>3 DEF LegOf
<1>6. Req!By(l[1]) \in Int
  BY <1>5 DEF Req!By, Req!Change
<1>7. l[1].obj # 0 => l[1].obj \in 1 .. n
  BY <1>1, <1>5
<1>8. l[1].obj # 0 => Req!Balance(r) \in Int
  BY <1>4, <1>7, ObjectIs DEF ReqTypes, BooksTyped, Req!Balance
<1> QED
  BY <1>3, <1>4, <1>5, <1>6, <1>7, <1>8

LEMMA FloatIsInt ==
  ASSUME NEW n \in Int
  PROVE  Req!Float(n) \in Int
<1>1. n % 2 # 0 => \E m \in {n - 1, n + 1} : m % 4 = 0
  OBVIOUS
<1> QED
  BY <1>1 DEF Req!Float

(* A step that leaves the books alone.                                     *)
LEMMA QuietTyped ==
  ASSUME ReqTypes, NEW r \in Requests, DOMAIN req' = Requests,
         \A q \in Requests \ {r} : req'[q] = req[q],
         UNCHANGED <<objects, accounts, list, changes, total, number, all>>,
         ReqTyped(req'[r], objects, number),
         issued' \in 0 .. MaxRequests, kept' \in BOOLEAN
  PROVE  ReqTypes'
<1>1. BooksTyped' /\ ReqTyped(req'[r], objects', number')
  BY DEF ReqTypes, BooksTyped
<1>2. Growing(objects, objects') /\ (number > 0 => number' > 0)
  BY StillGrowing DEF ReqTypes, BooksTyped
<1> QED
  BY <1>1, <1>2, StepTyped

(* The request goes on to another place, with something it has read.       *)
Same(q, p) ==
  /\ DOMAIN q = Fields /\ q.legs = p.legs /\ q.opens = p.opens /\ q.name = p.name
  /\ q.index = p.index /\ q.t = p.t

GoesTo(r, pc, seen) ==
  /\ DOMAIN req' = Requests /\ \A q \in Requests \ {r} : req'[q] = req[q]
  /\ Same(req'[r], req[r]) /\ req'[r].pc = pc /\ req'[r].seen = seen

LEMMA MovesOn ==
  ASSUME ReqTypes, NEW r \in Requests
  PROVE  /\ \A pc : Req!To(r, pc) => GoesTo(r, pc, 0)
         /\ \A value, pc : Req!Reads(r, value, pc) => GoesTo(r, pc, value)
<1>1. DOMAIN req = Requests /\ DOMAIN req[r] = Fields
  BY DEF ReqTypes, ReqTyped
<1>2. ASSUME NEW place, Req!To(r, place)
      PROVE  GoesTo(r, place, 0)
  BY <1>1, <1>2 DEF Req!To, GoesTo, Same, Fields
<1>3. ASSUME NEW place, NEW value, Req!Reads(r, value, place)
      PROVE  GoesTo(r, place, value)
  BY <1>1, <1>3 DEF Req!Reads, GoesTo, Same, Fields
<1> QED
  BY <1>2, <1>3

Unmoved == UNCHANGED <<objects, accounts, list, changes, total, number, all>>

LEMMA OthersTyped ==
  ASSUME ReqTypes, Req!Others
  PROVE  issued' \in 0 .. MaxRequests /\ kept' \in BOOLEAN
  BY DEF ReqTypes, Req!Others

LEMMA BooksUnmoved ==
  ASSUME UNCHANGED Req!books
  PROVE  Unmoved
  BY DEF Req!books, Unmoved

(* An object of as many keys, or more, is in the place of another.         *)
Replaced(objs, o, x, new) ==
  /\ ObjectsTyped(objs) /\ o \in 1 .. Len(objs) /\ x \in BankObject
  /\ x.size <= Len(x.keys) /\ Len(objs[o].keys) <= Len(x.keys)
  /\ new = [objs EXCEPT ![o] = x]

LEMMA ObjectChanged ==
  ASSUME NEW objs, NEW o, NEW x, NEW new, Replaced(objs, o, x, new)
  PROVE  ObjectsTyped(new) /\ Growing(objs, new) /\ Len(new) = Len(objs)
<1>1. /\ new \in Seq(BankObject) /\ Len(new) = Len(objs)
      /\ \A i \in 1 .. Len(objs) : new[i] = IF i = o THEN x ELSE objs[i]
  BY ExceptSeq DEF ObjectsTyped, Replaced
<1>2. DOMAIN new = 1 .. Len(objs)
  BY <1>1, LenProperties
<1>3. \A i \in 1 .. Len(objs) : objs[i].size <= Len(objs[i].keys)
  BY ObjectIs DEF Replaced
<1>4. ObjectsTyped(new)
  BY <1>1, <1>2, <1>3 DEF ObjectsTyped, Replaced
<1>5. Growing(objs, new)
  BY <1>1, StillGrowing DEF Growing, Replaced
<1> QED
  BY <1>1, <1>4, <1>5

LEMMA BalanceChanged ==
  ASSUME NEW x \in BankObject, NEW n \in Int
  PROVE  LET y == [x EXCEPT !.balance = n]
         IN  y \in BankObject /\ y.size = x.size /\ y.keys = x.keys
  BY DEF BankObject

LEMMA WithdrawTyped ==
  ASSUME ReqTypes, NEW r \in Requests, Req!Withdraw(r)
  PROVE  ReqTypes'
<1>1. PICK pc : GoesTo(r, pc, 0) /\ pc \in {"balance", "ends"}
  BY MovesOn DEF Req!Withdraw
<1>2. req[r].pc = "check"
  BY DEF Req!Withdraw, Req!At
<1>3. ReqTyped(req'[r], objects, number)
  BY <1>1, <1>2 DEF ReqTypes, ReqTyped, GoesTo, Same, OnObject
<1>4. Unmoved
  BY BooksUnmoved DEF Req!Withdraw
<1> QED
  BY <1>1, <1>3, <1>4, OthersTyped, QuietTyped DEF Req!Withdraw, GoesTo, Unmoved

LEMMA AddToBalanceTyped ==
  ASSUME ReqTypes, NEW r \in Requests, Req!addToBalance(r)
  PROVE  ReqTypes'
<1>1. issued' \in 0 .. MaxRequests /\ kept' \in BOOLEAN
  BY OthersTyped DEF Req!addToBalance
<1> PICK o : o = Req!Now(r).obj
  OBVIOUS
<1>2. /\ req[r].pc \in {"balance", "set balance"}
      /\ o \in 1 .. Len(objects) /\ Req!Balance(r) \in Int /\ Req!By(Req!Now(r)) \in Int
  <2>1. req[r].pc \in {"balance", "set balance"}
    BY DEF Req!addToBalance, Req!At
  <2>2. req[r].legs # <<>> /\ req[r].legs[1].obj # 0
    BY <2>1 DEF ReqTypes, ReqTyped, OnObject
  <2> QED
    BY <2>1, <2>2, FirstLeg
<1>3. CASE req[r].pc = "balance"
  <2>1. GoesTo(r, "set balance", Req!Balance(r)) /\ UNCHANGED Req!books
    BY <1>3, MovesOn DEF Req!addToBalance, Req!At
  <2>2. ReqTyped(req'[r], objects, number)
    BY <1>2, <1>3, <2>1 DEF ReqTypes, ReqTyped, GoesTo, Same, OnObject
  <2> QED
    BY <1>1, <2>1, <2>2, BooksUnmoved, QuietTyped DEF GoesTo, Unmoved
<1>4. CASE req[r].pc = "set balance"
  <2> PICK n : n = Req!Float(req[r].seen + Req!By(Req!Now(r)))
    OBVIOUS
  <2>1. /\ GoesTo(r, "total", 0) /\ objects' = [objects EXCEPT ![o].balance = n]
        /\ UNCHANGED <<accounts, list, changes, total, number, all>>
    BY <1>4, MovesOn DEF Req!addToBalance, Req!At
  <2>2. n \in Int
    <3> PICK a, b : a = req[r].seen /\ b = Req!By(Req!Now(r))
      OBVIOUS
    <3>1. ReqTyped(req[r], objects, number)
      BY DEF ReqTypes
    <3>2. a \in Int /\ b \in Int
      BY <1>2, <1>4, <3>1 DEF ReqTyped
    <3>3. a + b \in Int
      BY <3>2
    <3> QED
      BY <3>3, FloatIsInt
  <2>3. ObjectsTyped(objects') /\ Growing(objects, objects') /\ Len(objects') = Len(objects)
    <3> PICK x : x = [objects[o] EXCEPT !.balance = n]
      OBVIOUS
    <3>1. ObjectsTyped(objects) /\ objects[o] \in BankObject
          /\ objects[o].size <= Len(objects[o].keys) /\ Len(objects[o].keys) \in Nat
      BY <1>2, ObjectIs DEF ReqTypes, BooksTyped
    <3>2. x \in BankObject /\ x.size = objects[o].size /\ x.keys = objects[o].keys
      BY <2>2, <3>1, BalanceChanged
    <3>3. objects' = [objects EXCEPT ![o] = x]
      <4>1. [objects EXCEPT ![o].balance = n] = [objects EXCEPT ![o] = x]
        OBVIOUS
      <4> QED
        BY <2>1, <4>1
    <3>4. x.size <= Len(x.keys) /\ Len(objects[o].keys) <= Len(x.keys)
      BY <3>1, <3>2
    <3>5. Replaced(objects, o, x, objects')
      BY <1>2, <3>1, <3>2, <3>3, <3>4 DEF Replaced
    <3> QED
      BY <3>5, ObjectChanged
  <2>4. BooksTyped'
    BY <2>1, <2>3 DEF ReqTypes, BooksTyped
  <2>5. ReqTyped(req[r], objects', number')
    BY <2>1, <2>3, StaysTyped DEF ReqTypes, BooksTyped
  <2>6. ReqTyped(req'[r], objects', number')
    BY <1>4, <2>1, <2>5 DEF ReqTyped, GoesTo, Same, OnObject
  <2> QED
    BY <1>1, <2>1, <2>3, <2>4, <2>6, StepTyped DEF GoesTo
<1> QED
  BY <1>2, <1>3, <1>4

(* A step that changes the books only in what no request has read.         *)
LEMMA BooksStepTyped ==
  ASSUME ReqTypes, NEW r \in Requests, UNCHANGED objects, BooksTyped', Req!Others,
         DOMAIN req' = Requests, \A q \in Requests \ {r} : req'[q] = req[q],
         number > 0 => number' > 0, ReqTyped(req'[r], objects, number')
  PROVE  ReqTypes'
<1>1. Growing(objects, objects')
  BY StillGrowing DEF ReqTypes, BooksTyped
<1> QED
  BY <1>1, OthersTyped, StepTyped

LEMMA HasObject ==
  ASSUME ReqTypes, NEW r \in Requests, req[r].pc \in OnObject
  PROVE  /\ req[r].legs # <<>> /\ req[r].legs[1].obj # 0
         /\ Req!Now(r).type \in TransactionType /\ Req!Now(r).amount \in Int
         /\ Req!Now(r).obj \in 1 .. Len(objects) /\ Req!By(Req!Now(r)) \in Int
         /\ Req!Balance(r) \in Int
<1>1. req[r].legs # <<>> /\ req[r].legs[1].obj # 0
  BY DEF ReqTypes, ReqTyped
<1> QED
  BY <1>1, FirstLeg

LEMMA AddToTotalTyped ==
  ASSUME ReqTypes, NEW r \in Requests, Req!addToTotalBalance(r)
  PROVE  ReqTypes'
<1>1. issued' \in 0 .. MaxRequests /\ kept' \in BOOLEAN /\ Req!Others
  BY OthersTyped DEF Req!addToTotalBalance
<1>2. req[r].pc \in {"total", "set total"} /\ ReqTyped(req[r], objects, number)
      /\ total \in Int
  BY DEF Req!addToTotalBalance, Req!At, ReqTypes, BooksTyped
<1>3. CASE req[r].pc = "total"
  <2>1. GoesTo(r, "set total", total) /\ UNCHANGED Req!books
    BY <1>3, MovesOn DEF Req!addToTotalBalance, Req!At
  <2>2. ReqTyped(req'[r], objects, number)
    BY <1>2, <1>3, <2>1 DEF ReqTyped, GoesTo, Same, OnObject
  <2> QED
    BY <1>1, <2>1, <2>2, BooksUnmoved, QuietTyped DEF GoesTo, Unmoved
<1>4. CASE req[r].pc = "set total"
  <2> PICK n, pc : /\ n = Req!Float(req[r].seen + Req!TotalChange(Req!Now(r)))
                   /\ pc = IF req[r].opens THEN "ends" ELSE "new"
    OBVIOUS
  <2>1. /\ GoesTo(r, pc, 0) /\ total' = n /\ pc \in {"ends", "new"}
        /\ UNCHANGED <<objects, accounts, list, changes, number, all>>
    BY <1>4, MovesOn DEF Req!addToTotalBalance, Req!At
  <2>2. n \in Int
    <3> PICK a, b : a = req[r].seen /\ b = Req!TotalChange(Req!Now(r))
      OBVIOUS
    <3>1. a \in Int /\ b \in Int
      BY <1>2, <1>4, HasObject DEF ReqTyped, OnObject, Req!TotalChange
    <3>2. a + b \in Int
      BY <3>1
    <3> QED
      BY <3>2, FloatIsInt
  <2>3. BooksTyped' /\ (number > 0 => number' > 0)
    BY <2>1, <2>2 DEF ReqTypes, BooksTyped
  <2>4. ReqTyped(req'[r], objects, number')
    BY <1>2, <1>4, <2>1 DEF ReqTyped, GoesTo, Same, OnObject
  <2> QED
    BY <1>1, <2>1, <2>3, <2>4, BooksStepTyped DEF GoesTo
<1> QED
  BY <1>2, <1>3, <1>4

LEMMA NewTransactionTyped ==
  ASSUME ReqTypes, NEW r \in Requests, Req!NewTransaction(r)
  PROVE  ReqTypes'
<1>1. issued' \in 0 .. MaxRequests /\ kept' \in BOOLEAN
  BY OthersTyped DEF Req!NewTransaction
<1>2. req[r].pc \in {"new", "log"} /\ ReqTyped(req[r], objects, number)
      /\ DOMAIN req = Requests
  BY DEF Req!NewTransaction, Req!At, ReqTypes
<1>3. CASE req[r].pc = "new"
  <2> PICK t : t = [type |-> Req!Now(r).type, amount |-> Req!Now(r).amount,
                    result |-> Req!Balance(r)]
    OBVIOUS
  <2>1. t \in Transaction
    BY <1>3, HasObject DEF OnObject, Transaction
  <2>2. req' = [req EXCEPT ![r].pc = "log", ![r].t = t] /\ UNCHANGED Req!books
    BY <1>3 DEF Req!NewTransaction, Req!At
  <2>3. /\ DOMAIN req' = Requests /\ \A q \in Requests \ {r} : req'[q] = req[q]
        /\ DOMAIN req'[r] = Fields /\ req'[r].legs = req[r].legs
        /\ req'[r].opens = req[r].opens /\ req'[r].name = req[r].name
        /\ req'[r].pc = "log" /\ req'[r].t = t
    BY <1>2, <2>2 DEF ReqTyped, Fields
  <2>4. ReqTyped(req'[r], objects, number)
    BY <1>2, <1>3, <2>1, <2>3 DEF ReqTyped, OnObject
  <2> QED
    BY <1>1, <2>2, <2>3, <2>4, BooksUnmoved, QuietTyped DEF Unmoved
<1>4. CASE req[r].pc = "log"
  <2>1. GoesTo(r, "number", 0) /\ Unmoved
    BY <1>4, MovesOn DEF Req!NewTransaction, Req!At, Unmoved
  <2>2. ReqTyped(req'[r], objects, number)
    BY <1>2, <1>4, <2>1 DEF ReqTyped, GoesTo, Same, OnObject
  <2> QED
    BY <1>1, <2>1, <2>2, QuietTyped DEF GoesTo, Unmoved
<1> QED
  BY <1>2, <1>3, <1>4

LEMMA StoreNewTyped ==
  ASSUME ReqTypes, NEW r \in Requests, Req!StoreNew(r)
  PROVE  ReqTypes'
<1>1. issued' \in 0 .. MaxRequests /\ kept' \in BOOLEAN /\ Req!Others
  BY OthersTyped DEF Req!StoreNew
<1>2. /\ req[r].pc \in {"number", "put", "count", "set count", "return"}
      /\ ReqTyped(req[r], objects, number) /\ DOMAIN req = Requests /\ number \in Nat
  BY DEF Req!StoreNew, Req!At, ReqTypes, BooksTyped
<1>3. CASE req[r].pc \in {"number", "count"}
  <2>1. /\ UNCHANGED Req!books
        /\ IF req[r].pc = "number" THEN GoesTo(r, "put", number)
                                   ELSE GoesTo(r, "set count", number)
    BY <1>3, MovesOn DEF Req!StoreNew, Req!At
  <2>2. ReqTyped(req'[r], objects, number)
    BY <1>2, <1>3, <2>1 DEF ReqTyped, GoesTo, Same, OnObject
  <2> QED
    BY <1>1, <2>1, <2>2, BooksUnmoved, QuietTyped DEF GoesTo, Unmoved
<1>4. CASE req[r].pc = "put"
  <2> PICK n, t : n = req[r].seen /\ t = req[r].t
    OBVIOUS
  <2>1. /\ GoesTo(r, "count", 0)
        /\ all' = [i \in DOMAIN all \cup {n} |-> IF i = n THEN t ELSE all[i]]
        /\ UNCHANGED <<objects, accounts, list, changes, total, number>>
    BY <1>4, MovesOn DEF Req!StoreNew, Req!At
  <2>2. t \in Transaction /\ all \in [DOMAIN all -> Transaction]
    BY <1>2, <1>4 DEF ReqTyped, ReqTypes, BooksTyped
  <2>3. all' \in [DOMAIN all' -> Transaction]
    BY <2>1, <2>2
  <2>4. BooksTyped' /\ (number > 0 => number' > 0)
    BY <2>1, <2>3 DEF ReqTypes, BooksTyped
  <2>5. ReqTyped(req'[r], objects, number')
    BY <1>2, <1>4, <2>1 DEF ReqTyped, GoesTo, Same, OnObject
  <2> QED
    BY <1>1, <2>1, <2>4, <2>5, BooksStepTyped DEF GoesTo
<1>5. CASE req[r].pc = "set count"
  <2> PICK n : n = req[r].seen
    OBVIOUS
  <2>1. /\ GoesTo(r, "return", 0) /\ number' = n + 1
        /\ UNCHANGED <<objects, accounts, list, changes, total, all>>
    BY <1>5, MovesOn DEF Req!StoreNew, Req!At
  <2>2. n \in Nat
    BY <1>2, <1>5 DEF ReqTyped
  <2>3. number' \in Nat /\ number' > 0
    BY <2>1, <2>2
  <2>4. BooksTyped'
    BY <2>1, <2>3 DEF ReqTypes, BooksTyped
  <2>5. ReqTyped(req'[r], objects, number')
    BY <1>2, <1>5, <2>1, <2>3 DEF ReqTyped, GoesTo, Same, OnObject
  <2> QED
    BY <1>1, <2>1, <2>3, <2>4, <2>5, BooksStepTyped DEF GoesTo
<1>6. CASE req[r].pc = "return"
  <2> PICK n : n = Req!OneBefore(number)
    OBVIOUS
  <2>1. req' = [req EXCEPT ![r].index = n, ![r].pc = "size"] /\ UNCHANGED Req!books
    BY <1>6 DEF Req!StoreNew, Req!At
  <2>2. n \in Nat
    BY <1>2, <1>6 DEF ReqTyped, Req!OneBefore
  <2>3. /\ DOMAIN req' = Requests /\ \A q \in Requests \ {r} : req'[q] = req[q]
        /\ DOMAIN req'[r] = Fields /\ req'[r].legs = req[r].legs
        /\ req'[r].opens = req[r].opens /\ req'[r].name = req[r].name
        /\ req'[r].pc = "size" /\ req'[r].index = n
    BY <1>2, <2>1 DEF ReqTyped, Fields
  <2>4. ReqTyped(req'[r], objects, number)
    BY <1>2, <1>6, <2>2, <2>3 DEF ReqTyped, OnObject
  <2> QED
    BY <1>1, <2>1, <2>3, <2>4, BooksUnmoved, QuietTyped DEF Unmoved
<1> QED
  BY <1>2, <1>3, <1>4, <1>5, <1>6

LEMMA AddTyped ==
  ASSUME NEW x \in BankObject, x.size <= Len(x.keys), NEW i \in 0 .. Len(x.keys),
         NEW key \in Nat
  PROVE  LET y == Req!Add(x, i, key)
         IN  y \in BankObject /\ y.size <= Len(y.keys) /\ Len(x.keys) <= Len(y.keys)
<1> PICK k, y : k = x.keys /\ y = Req!Add(x, i, key)
  OBVIOUS
<1>1. k \in Seq(Nat) /\ Len(k) \in Nat
  BY LenProperties DEF BankObject
<1> PICK l : l = IF i < Len(k) THEN [k EXCEPT ![i + 1] = key] ELSE Append(k, key)
  OBVIOUS
<1>2. l \in Seq(Nat) /\ Len(k) <= Len(l) /\ i + 1 <= Len(l) /\ Len(l) \in Nat
  <2>1. CASE i < Len(k)
    <3>1. i + 1 \in 1 .. Len(k) /\ l = [k EXCEPT ![i + 1] = key]
      BY <1>1, <2>1
    <3>2. l \in Seq(Nat) /\ Len(l) = Len(k)
      BY <1>1, <3>1, ExceptSeq
    <3> QED
      BY <1>1, <2>1, <3>2
  <2>2. CASE ~(i < Len(k))
    <3>1. l = Append(k, key)
      BY <2>2
    <3>2. l \in Seq(Nat) /\ Len(l) = Len(k) + 1
      BY <1>1, <3>1, AppendProperties
    <3> QED
      BY <1>1, <3>2
  <2> QED
    BY <2>1, <2>2
<1>3. y = [[x EXCEPT !.size = i + 1] EXCEPT !.keys = l]
  BY DEF Req!Add, BankObject
<1>4. i + 1 \in Nat
  BY <1>1
<1>5. y \in BankObject /\ y.size = i + 1 /\ y.keys = l
  BY <1>2, <1>3, <1>4 DEF BankObject
<1> QED
  BY <1>2, <1>5

LEMMA RestOfLegs ==
  ASSUME NEW n, NEW l \in Seq(LegOf(n)), l # <<>>
  PROVE  Tail(l) \in Seq(LegOf(n))
<1>1. Len(l) \in Nat /\ Len(l) # 0
  BY EmptySeq, LenProperties
<1> QED
  OBVIOUS

LEMMA AddKeyTyped ==
  ASSUME ReqTypes, NEW r \in Requests, Req!AddKey(r)
  PROVE  ReqTypes'
<1>1. issued' \in 0 .. MaxRequests /\ kept' \in BOOLEAN /\ Req!Others
  BY OthersTyped DEF Req!AddKey
<1>2. /\ req[r].pc \in {"size", "key"} /\ ReqTyped(req[r], objects, number)
      /\ DOMAIN req = Requests /\ ObjectsTyped(objects)
  BY DEF Req!AddKey, Req!At, ReqTypes, BooksTyped
<1> PICK o : o = Req!Now(r).obj
  OBVIOUS
<1>3. o \in 1 .. Len(objects) /\ req[r].legs # <<>> /\ req[r].legs[1].obj = o
  BY <1>2, HasObject DEF OnObject, Req!Now
<1>4. CASE req[r].pc = "size"
  <2> PICK n : n = objects[o].size
    OBVIOUS
  <2>1. GoesTo(r, "key", n) /\ UNCHANGED Req!books
    BY <1>4, MovesOn DEF Req!AddKey, Req!At
  <2>2. n \in 0 .. Len(objects[o].keys)
    BY <1>2, <1>3, ObjectIs
  <2>3. ReqTyped(req'[r], objects, number)
    BY <1>2, <1>3, <1>4, <2>1, <2>2 DEF ReqTyped, GoesTo, Same, OnObject
  <2> QED
    BY <1>1, <2>1, <2>3, BooksUnmoved, QuietTyped DEF GoesTo, Unmoved
<1>5. CASE req[r].pc = "key"
  <2> PICK x, y, rest : /\ x = objects[o] /\ y = Req!Add(x, req[r].seen, req[r].index)
                        /\ rest = Tail(req[r].legs)
    OBVIOUS
  <2>1. /\ objects' = [objects EXCEPT ![o] = y]
        /\ UNCHANGED <<accounts, list, changes, total, number, all>>
    BY <1>5 DEF Req!AddKey, Req!At
  <2>2. x \in BankObject /\ x.size <= Len(x.keys)
    BY <1>2, <1>3, ObjectIs
  <2>3. req[r].seen \in 0 .. Len(x.keys) /\ req[r].index \in Nat
    BY <1>2, <1>3, <1>5 DEF ReqTyped
  <2>4. y \in BankObject /\ y.size <= Len(y.keys) /\ Len(x.keys) <= Len(y.keys)
    BY <2>2, <2>3, AddTyped
  <2>5. ObjectsTyped(objects') /\ Growing(objects, objects') /\ Len(objects') = Len(objects)
    <3>1. Replaced(objects, o, y, objects')
      BY <1>2, <1>3, <2>1, <2>4 DEF Replaced
    <3> QED
      BY <3>1, ObjectChanged
  <2>6. BooksTyped'
    BY <2>1, <2>5 DEF ReqTypes, BooksTyped
  <2>7. ReqTyped(req[r], objects', number')
    BY <1>2, <2>1, <2>5, StaysTyped
  <2>8. CASE \E pc \in {"map", "ends"} : GoesTo(r, pc, 0) /\ (pc = "map" => req[r].opens)
    <3>1. ReqTyped(req'[r], objects', number')
      BY <1>5, <2>7, <2>8 DEF ReqTyped, GoesTo, Same, OnObject
    <3> QED
      BY <1>1, <2>1, <2>5, <2>6, <2>8, <3>1, StepTyped DEF GoesTo
  <2>9. CASE /\ rest # <<>> /\ rest[1].obj # 0
             /\ req' = [req EXCEPT ![r].legs = rest, ![r].pc = Req!Entry(rest[1])]
    <3> PICK pc : pc = Req!Entry(rest[1])
      OBVIOUS
    <3>1. pc \in {"balance", "check"}
      BY DEF Req!Entry
    <3>2. /\ DOMAIN req' = Requests /\ \A q \in Requests \ {r} : req'[q] = req[q]
          /\ DOMAIN req'[r] = Fields /\ req'[r].legs = rest
          /\ req'[r].opens = req[r].opens /\ req'[r].name = req[r].name
          /\ req'[r].pc = pc
      BY <1>2, <2>9 DEF ReqTyped, Fields
    <3>3. rest \in Seq(LegOf(Len(objects')))
      BY <1>3, <2>7, RestOfLegs DEF ReqTyped
    <3>4. ReqTyped(req'[r], objects', number')
      BY <2>7, <2>9, <3>1, <3>2, <3>3 DEF ReqTyped, OnObject
    <3> QED
      BY <1>1, <2>1, <2>5, <2>6, <3>2, <3>4, StepTyped
  <2>10. \/ Req!To(r, "map") /\ req[r].opens
         \/ Req!To(r, "ends")
         \/ /\ rest # <<>> /\ rest[1].obj # 0
            /\ req' = [req EXCEPT ![r].legs = rest, ![r].pc = Req!Entry(rest[1])]
    BY <1>5 DEF Req!AddKey, Req!At
  <2>11. Req!To(r, "map") => GoesTo(r, "map", 0)
    BY MovesOn
  <2>12. Req!To(r, "ends") => GoesTo(r, "ends", 0)
    BY MovesOn
  <2> QED
    BY <2>8, <2>9, <2>10, <2>11, <2>12
<1> QED
  BY <1>2, <1>4, <1>5

LEMMA ObjectAdded ==
  ASSUME NEW objs, ObjectsTyped(objs), NEW x \in BankObject, x.size <= Len(x.keys)
  PROVE  LET new == Append(objs, x)
         IN  /\ ObjectsTyped(new) /\ Growing(objs, new)
             /\ Len(objs) \in Nat /\ Len(new) = Len(objs) + 1
<1> DEFINE new == Append(objs, x)
<1>1. /\ new \in Seq(BankObject) /\ Len(new) = Len(objs) + 1 /\ Len(objs) \in Nat
      /\ \A i \in 1 .. Len(objs) : new[i] = objs[i]
      /\ new[Len(objs) + 1] = x
  BY AppendProperties, LenProperties DEF ObjectsTyped
<1> HIDE DEF new
<1>2. DOMAIN new = 1 .. Len(objs) + 1
  BY <1>1, LenProperties
<1>3. \A i \in 1 .. Len(objs) : objs[i].size <= Len(objs[i].keys)
  BY ObjectIs
<1>4. \A i \in DOMAIN new : i \in 1 .. Len(objs) \/ i = Len(objs) + 1
  BY <1>1, <1>2
<1>5. ObjectsTyped(new)
  BY <1>1, <1>3, <1>4 DEF ObjectsTyped
<1>6. Growing(objs, new)
  <2>1. Len(objs) <= Len(new)
    BY <1>1
  <2> QED
    BY <1>1, <2>1, StillGrowing DEF Growing
<1> QED
  BY <1>1, <1>5, <1>6 DEF new

LEMMA OpenAccountTyped ==
  ASSUME ReqTypes, NEW r \in Requests, Req!OpenAccount(r)
  PROVE  ReqTypes'
<1>1. issued' \in 0 .. MaxRequests /\ kept' \in BOOLEAN /\ Req!Others
  BY OthersTyped DEF Req!OpenAccount
<1>2. /\ req[r].pc \in {"list", "create", "map"} /\ ReqTyped(req[r], objects, number)
      /\ DOMAIN req = Requests /\ ObjectsTyped(objects)
  BY DEF Req!OpenAccount, Req!At, ReqTypes, BooksTyped
<1> PICK a : a = req[r].name
  OBVIOUS
<1>3. a \in Accounts
  BY <1>2 DEF ReqTyped
<1>4. CASE req[r].pc = "list"
  <2>1. /\ GoesTo(r, "create", 0) /\ list' = Append(list, a) /\ changes' = changes + 1
        /\ UNCHANGED <<objects, accounts, total, number, all>>
    BY <1>4, MovesOn DEF Req!OpenAccount, Req!At
  <2>2. list' \in Seq(Accounts) /\ changes' \in Nat
    BY <1>3, <2>1, AppendProperties DEF ReqTypes, BooksTyped
  <2>3. BooksTyped' /\ (number > 0 => number' > 0)
    BY <2>1, <2>2 DEF ReqTypes, BooksTyped
  <2>4. ReqTyped(req'[r], objects, number')
    BY <1>2, <1>4, <2>1 DEF ReqTyped, GoesTo, Same, OnObject
  <2> QED
    BY <1>1, <2>1, <2>3, <2>4, BooksStepTyped DEF GoesTo
<1>5. CASE req[r].pc = "create"
  <2> PICK amount, pc, l :
        /\ amount = Req!Now(r).amount /\ pc = (IF amount > 0 THEN "new" ELSE "map")
        /\ l = req[r].legs
    OBVIOUS
  <2> PICK x : x = [balance |-> amount, size |-> 0, keys |-> <<>>]
    OBVIOUS
  <2>1. /\ objects' = Append(objects, x)
        /\ req' = [req EXCEPT ![r].legs[1].obj = Len(objects'), ![r].pc = pc]
        /\ UNCHANGED <<accounts, list, changes, total, number, all>>
    BY <1>5 DEF Req!OpenAccount, Req!At
  <2>2. l # <<>> /\ amount \in Int /\ l \in Seq(LegOf(Len(objects)))
    BY <1>2, <1>5, FirstLeg DEF ReqTyped
  <2>3. x \in BankObject /\ x.size <= Len(x.keys)
    BY <2>2, EmptySeq DEF BankObject
  <2> PICK n : n = Len(objects')
    OBVIOUS
  <2>4. /\ ObjectsTyped(objects') /\ Growing(objects, objects')
        /\ Len(objects) \in Nat /\ n = Len(objects) + 1
    BY <1>2, <2>1, <2>3, ObjectAdded
  <2>5. accounts' \in [Accounts -> 0 .. n]
    <3>1. 0 .. Len(objects) \subseteq 0 .. n
      BY <2>4
    <3> QED
      BY <2>1, <3>1 DEF ReqTypes, BooksTyped
  <2>6. BooksTyped'
    BY <2>1, <2>4, <2>5 DEF ReqTypes, BooksTyped
  <2>7. ReqTyped(req[r], objects', number')
    BY <1>2, <2>1, <2>4, StaysTyped
  <2> PICK m : m = [l EXCEPT ![1].obj = n]
    OBVIOUS
  <2>8. /\ DOMAIN req' = Requests /\ \A q \in Requests \ {r} : req'[q] = req[q]
        /\ DOMAIN req'[r] = Fields /\ req'[r].legs = m
        /\ req'[r].opens = req[r].opens /\ req'[r].name = req[r].name
        /\ req'[r].pc = pc
    BY <1>2, <2>1 DEF ReqTyped, Fields
  <2>9. m \in Seq(LegOf(n)) /\ m # <<>> /\ m[1].obj # 0
    <3>1. l \in Seq(LegOf(n)) /\ Len(l) \in Nat /\ Len(l) # 0
      BY <2>2, <2>7, EmptySeq, LenProperties DEF ReqTyped
    <3>2. l[1] \in LegOf(n) /\ 1 \in 1 .. Len(l)
      BY <3>1, ElementOfSeq
    <3> PICK e : e = [l[1] EXCEPT !.obj = n]
      OBVIOUS
    <3>3. e \in LegOf(n) /\ e.obj = n
      BY <2>4, <3>2 DEF LegOf
    <3>4. m = [l EXCEPT ![1] = e]
      OBVIOUS
    <3>5. m \in Seq(LegOf(n)) /\ Len(m) = Len(l) /\ m[1] = e
      BY <3>1, <3>2, <3>3, <3>4, ExceptSeq
    <3>6. m # <<>>
      BY <3>1, <3>5, EmptySeq
    <3> QED
      BY <2>4, <3>3, <3>5, <3>6
  <2>10. ReqTyped(req'[r], objects', number')
    BY <1>2, <1>3, <1>5, <2>7, <2>8, <2>9 DEF ReqTyped, OnObject
  <2> QED
    BY <1>1, <2>1, <2>4, <2>6, <2>8, <2>10, StepTyped
<1>6. CASE req[r].pc = "map"
  <2> PICK o : o = Req!Now(r).obj
    OBVIOUS
  <2>1. /\ GoesTo(r, "total", 0) /\ accounts' = [accounts EXCEPT ![a] = o]
        /\ UNCHANGED <<objects, list, changes, total, number, all>>
    BY <1>6, MovesOn DEF Req!OpenAccount, Req!At
  <2>2. o \in 0 .. Len(objects)
    BY <1>2, <1>6, HasObject, FirstLeg DEF OnObject
  <2>3. accounts' \in [Accounts -> 0 .. Len(objects)]
    BY <1>3, <2>1, <2>2 DEF ReqTypes, BooksTyped
  <2>4. BooksTyped' /\ (number > 0 => number' > 0)
    BY <2>1, <2>3 DEF ReqTypes, BooksTyped
  <2>5. ReqTyped(req'[r], objects, number')
    BY <1>2, <1>6, <2>1 DEF ReqTyped, GoesTo, Same, OnObject
  <2> QED
    BY <1>1, <2>1, <2>4, <2>5, BooksStepTyped DEF GoesTo
<1> QED
  BY <1>2, <1>4, <1>5, <1>6

LEMMA SameRemoval ==
  ASSUME NEW s, NEW a
  PROVE  Req!RemoveFirst(s, a) = RemoveFirst(s, a)
  BY Zenon DEF RemoveFirst, Req!RemoveFirst, RemoveAt, Req!RemoveAt, SelectInSeq,
     Req!SelectInSeq, Min, Req!Min

LEMMA RemoveFirstTyped ==
  ASSUME NEW S, NEW s \in Seq(S), NEW a
  PROVE  RemoveFirst(s, a) \in Seq(S)
<1> DEFINE I == {i \in 1 .. Len(s) : s[i] = a}
<1>1. Len(s) \in Nat /\ \A i \in 1 .. Len(s) : s[i] \in S
  BY LenProperties, ElementOfSeq
<1>2. CASE I # {}
  <2>1. I \in SUBSET Nat
    BY <1>1
  <2>2. \E k \in I : \A i \in I : k <= i
    <3> HIDE DEF I
    <3> QED
      BY <1>2, <2>1, LeastNumber
  <2>3. Min(I) \in I
    BY <2>2 DEF Min
  <2> PICK k : k = Min(I)
    OBVIOUS
  <2>4. k \in 1 .. Len(s)
    BY <2>3
  <2>5. SelectInSeq(s, LAMBDA v : v = a) = k
    BY <1>2 DEF SelectInSeq
  <2>6. RemoveFirst(s, a) = RemoveAt(s, SelectInSeq(s, LAMBDA v : v = a))
    <3>1. \E i \in 1 .. Len(s) : s[i] = a
      BY <1>2
    <3> QED
      BY <3>1 DEF RemoveFirst
  <2>7. RemoveFirst(s, a) = SubSeq(s, 1, k - 1) \o SubSeq(s, k + 1, Len(s))
    BY <2>5, <2>6 DEF RemoveAt
  <2>8. SubSeq(s, 1, k - 1) \in Seq(S) /\ SubSeq(s, k + 1, Len(s)) \in Seq(S)
    <3> PICK n : n = Len(s)
      OBVIOUS
    <3> HIDE DEF I
    <3>1. n \in Nat /\ k \in 1 .. n /\ \A i \in 1 .. n : s[i] \in S
      BY <1>1, <2>4
    <3>2. (\A i \in 1 .. k - 1 : s[i] \in S) /\ \A i \in k + 1 .. n : s[i] \in S
      BY <3>1
    <3>3. SubSeq(s, 1, k - 1) \in Seq(S)
      BY <3>1, <3>2, SubSeqProperties
    <3>4. SubSeq(s, k + 1, n) \in Seq(S)
      BY <3>1, <3>2, SubSeqProperties
    <3> QED
      BY <3>3, <3>4
  <2> QED
    BY <2>7, <2>8, ConcatProperties
<1>3. CASE I = {}
  BY <1>3 DEF RemoveFirst
<1> QED
  BY <1>2, <1>3

LEMMA RemoveFromBooksTyped ==
  ASSUME ReqTypes, NEW r \in Requests, Req!RemoveFromBooks(r)
  PROVE  ReqTypes'
<1>1. Req!Others
  BY DEF Req!RemoveFromBooks
<1>2. req[r].pc \in {"unlist", "unmap"} /\ ReqTyped(req[r], objects, number)
  BY DEF Req!RemoveFromBooks, Req!At, ReqTypes
<1> PICK a : a = req[r].name
  OBVIOUS
<1>3. a \in Accounts
  BY <1>2 DEF ReqTyped
<1>4. CASE req[r].pc = "unlist"
  <2>1. /\ GoesTo(r, "unmap", 0) /\ list' = RemoveFirst(list, a) /\ changes' = changes + 1
        /\ UNCHANGED <<objects, accounts, total, number, all>>
    BY <1>4, MovesOn, SameRemoval DEF Req!RemoveFromBooks, Req!At
  <2>2. list' \in Seq(Accounts) /\ changes' \in Nat
    BY <2>1, RemoveFirstTyped DEF ReqTypes, BooksTyped
  <2>3. BooksTyped' /\ (number > 0 => number' > 0)
    BY <2>1, <2>2 DEF ReqTypes, BooksTyped
  <2>4. ReqTyped(req'[r], objects, number')
    BY <1>2, <1>4, <2>1 DEF ReqTyped, GoesTo, Same, OnObject
  <2> QED
    BY <1>1, <2>1, <2>3, <2>4, BooksStepTyped DEF GoesTo
<1>5. CASE req[r].pc = "unmap"
  <2>1. /\ GoesTo(r, "ends", 0) /\ accounts' = [accounts EXCEPT ![a] = 0]
        /\ UNCHANGED <<objects, list, changes, total, number, all>>
    BY <1>5, MovesOn DEF Req!RemoveFromBooks, Req!At
  <2>2. Len(objects) \in Nat
    BY LenProperties DEF ReqTypes, BooksTyped, ObjectsTyped
  <2>3. accounts' \in [Accounts -> 0 .. Len(objects)]
    BY <1>3, <2>1, <2>2 DEF ReqTypes, BooksTyped
  <2>4. BooksTyped' /\ (number > 0 => number' > 0)
    BY <2>1, <2>3 DEF ReqTypes, BooksTyped
  <2>5. ReqTyped(req'[r], objects, number')
    BY <1>2, <1>5, <2>1 DEF ReqTyped, GoesTo, Same, OnObject
  <2> QED
    BY <1>1, <2>1, <2>4, <2>5, BooksStepTyped DEF GoesTo
<1> QED
  BY <1>2, <1>4, <1>5

(* A page only reads.                                                      *)
LEMMA PageTyped ==
  ASSUME ReqTypes, NEW r \in Requests, Req!CollectAccounts(r) \/ Req!ShowAccount(r)
  PROVE  ReqTypes'
<1>1. issued' \in 0 .. MaxRequests /\ kept' \in BOOLEAN
  BY OthersTyped DEF Req!CollectAccounts, Req!ShowAccount
<1>2. /\ req[r].pc \in {"collect", "show"} /\ ReqTyped(req[r], objects, number)
      /\ DOMAIN req = Requests /\ UNCHANGED Req!books
  BY DEF Req!CollectAccounts, Req!ShowAccount, Req!At, ReqTypes
<1>3. \/ \E pc \in {"show", "failed", "ends"} : Req!To(r, pc)
      \/ \E page : req' = [req EXCEPT ![r].page = page]
  BY DEF Req!CollectAccounts, Req!ShowAccount
<1>4. CASE \E pc \in {"show", "failed", "ends"} : Req!To(r, pc)
  <2>1. PICK pc \in {"show", "failed", "ends"} : GoesTo(r, pc, 0)
    BY <1>4, MovesOn
  <2>2. ReqTyped(req'[r], objects, number)
    BY <1>2, <2>1 DEF ReqTyped, GoesTo, Same, OnObject
  <2> QED
    BY <1>1, <1>2, <2>1, <2>2, BooksUnmoved, QuietTyped DEF GoesTo, Unmoved
<1>5. CASE \E page : req' = [req EXCEPT ![r].page = page]
  <2>1. PICK page : req' = [req EXCEPT ![r].page = page]
    BY <1>5
  <2>2. /\ DOMAIN req' = Requests /\ \A q \in Requests \ {r} : req'[q] = req[q]
        /\ DOMAIN req'[r] = Fields /\ req'[r].legs = req[r].legs
        /\ req'[r].opens = req[r].opens /\ req'[r].name = req[r].name
        /\ req'[r].pc = req[r].pc
    BY <1>2, <2>1 DEF ReqTyped, Fields
  <2>3. ReqTyped(req'[r], objects, number)
    BY <1>2, <2>2 DEF ReqTyped, OnObject
  <2> QED
    BY <1>1, <1>2, <2>2, <2>3, BooksUnmoved, QuietTyped DEF Unmoved
<1> QED
  BY <1>3, <1>4, <1>5

(* The request at rest is typed, and so is one that has just been asked.   *)
LEMMA WaitingTyped ==
  ASSUME NEW objs, NEW n
  PROVE  /\ ReqTyped(Req!Waiting, objs, n) /\ Req!Waiting.pc = "idle"
         /\ Req!Waiting.legs = <<>> /\ Req!Waiting.opens = FALSE
  BY DEF ReqTyped, Req!Waiting, OnObject, Fields

LEMMA EndsTyped ==
  ASSUME ReqTypes, NEW r \in Requests, Req!Ends(r)
  PROVE  ReqTypes'
<1>1. kept' \in BOOLEAN
  <2> PICK P : P = (alone.r = r /\ Req!Paid(r) => Req!Sum = Req!SumBefore)
    OBVIOUS
  <2>1. kept' = (kept /\ P)
    BY Zenon DEF Req!Ends
  <2>2. kept \in BOOLEAN
    BY DEF ReqTypes
  <2> QED
    BY Zenon, <2>1, <2>2
<1>2. /\ req' = [req EXCEPT ![r] = Req!Waiting] /\ UNCHANGED <<Req!books, issued>>
      /\ DOMAIN req = Requests /\ issued \in 0 .. MaxRequests
  BY DEF Req!Ends, ReqTypes
<1>3. /\ DOMAIN req' = Requests /\ \A q \in Requests \ {r} : req'[q] = req[q]
      /\ req'[r] = Req!Waiting
  BY <1>2
<1> QED
  BY <1>1, <1>2, <1>3, WaitingTyped, BooksUnmoved, QuietTyped DEF Unmoved

-----------------------------------------------------------------------------
(* What a request starts with.                                             *)
LEMMA StartsTyped ==
  ASSUME ReqTypes, NEW r \in Requests, NEW q, Req!Starts(r, q),
         ReqTyped(q, objects, number)
  PROVE  ReqTypes'
<1>1. issued' \in 0 .. MaxRequests
  <2>1. MaxRequests \in Nat
    BY RequestsAssumption DEF Req!RequestsAssumption
  <2>2. issued < MaxRequests /\ issued' = issued + 1 /\ issued \in 0 .. MaxRequests
    BY DEF Req!Starts, ReqTypes
  <2> QED
    BY <2>1, <2>2
<1>2. kept' \in BOOLEAN
  <2>1. kept' = kept /\ kept \in BOOLEAN
    BY Zenon DEF Req!Starts, ReqTypes
  <2> QED
    BY Zenon, <2>1
<1>3. /\ req' = [req EXCEPT ![r] = q] /\ UNCHANGED Req!books
      /\ DOMAIN req = Requests
  BY DEF Req!Starts, ReqTypes
<1>4. /\ DOMAIN req' = Requests /\ \A p \in Requests \ {r} : req'[p] = req[p]
      /\ req'[r] = q
  BY <1>3
<1> QED
  BY <1>1, <1>2, <1>3, <1>4, BooksUnmoved, QuietTyped DEF Unmoved

LEMMA ObjectOf ==
  ASSUME ReqTypes, NEW a \in Accounts
  PROVE  /\ Req!Object(a) \in 0 .. Len(objects) /\ Len(objects) \in Nat
         /\ a \in Req!Open => Req!Object(a) # 0
  BY LenProperties DEF ReqTypes, BooksTyped, ObjectsTyped, Req!Object, Req!Open

LEMMA LegTyped ==
  ASSUME NEW m \in Nat, NEW o \in 0 .. m, NEW type \in TransactionType, NEW n \in Int
  PROVE  /\ Req!Leg(o, type, n) \in LegOf(m) /\ Req!Leg(o, type, n).obj = o
  BY DEF Req!Leg, LegOf

LEMMA AmountsAre == Amounts \subseteq Int /\ Openings \subseteq Int
                    /\ \A n \in Amounts : -n \in Int
  BY RequestsAssumption DEF Req!RequestsAssumption

LEMMA StartTransactionTyped ==
  ASSUME ReqTypes, NEW r \in Requests, Req!StartTransaction(r)
  PROVE  ReqTypes'
<1>1. PICK a \in Req!Open, type \in {"DEPOSIT", "WITHDRAWAL"}, n \in Amounts :
        LET leg == Req!Leg(Req!Object(a), type, n)
        IN  Req!Starts(r, [Req!Waiting EXCEPT !.legs = <<leg>>, !.pc = Req!Entry(leg)])
  BY DEF Req!StartTransaction, Req!Asks
<1> PICK leg, m, pc : /\ leg = Req!Leg(Req!Object(a), type, n) /\ m = Len(objects)
                      /\ pc = Req!Entry(leg)
  OBVIOUS
<1>2. a \in Accounts /\ n \in Int /\ type \in TransactionType
  BY AmountsAre DEF Req!Open, TransactionType
<1>3. leg \in LegOf(m) /\ leg.obj # 0
  BY <1>2, ObjectOf, LegTyped
<1> PICK q : q = [Req!Waiting EXCEPT !.legs = <<leg>>, !.pc = pc]
  OBVIOUS
<1>4. DOMAIN q = Fields /\ q.legs = <<leg>> /\ q.pc = pc /\ q.opens = FALSE
  BY DEF Req!Waiting, Fields
<1>5. <<leg>> \in Seq(LegOf(m)) /\ <<leg>> # <<>> /\ <<leg>>[1].obj # 0
  BY <1>3
<1>6. pc \in {"balance", "check"}
  BY DEF Req!Entry
<1>7. ReqTyped(q, objects, number)
  BY <1>4, <1>5, <1>6 DEF ReqTyped, OnObject
<1>8. Req!Starts(r, q)
  BY <1>1
<1> QED
  BY <1>7, <1>8, StartsTyped

LEMMA StartTransferTyped ==
  ASSUME ReqTypes, NEW r \in Requests, Req!StartTransfer(r)
  PROVE  ReqTypes'
<1>1. PICK from \in Req!Open, to \in Accounts, n \in Amounts :
        Req!Starts(r, [Req!Waiting EXCEPT !.pc = "check",
                         !.legs = <<Req!Leg(Req!Object(from), "TRANSFER", -n),
                                    Req!Leg(Req!Object(to), "TRANSFER", n)>>])
  BY DEF Req!StartTransfer, Req!Asks
<1> PICK leg, other, m : /\ leg = Req!Leg(Req!Object(from), "TRANSFER", -n)
                         /\ other = Req!Leg(Req!Object(to), "TRANSFER", n)
                         /\ m = Len(objects)
  OBVIOUS
<1>2. from \in Accounts /\ n \in Int /\ -n \in Int /\ "TRANSFER" \in TransactionType
  BY AmountsAre DEF Req!Open, TransactionType
<1>3. leg \in LegOf(m) /\ leg.obj # 0 /\ other \in LegOf(m)
  BY <1>2, ObjectOf, LegTyped
<1> PICK q : q = [Req!Waiting EXCEPT !.pc = "check", !.legs = <<leg, other>>]
  OBVIOUS
<1>4. DOMAIN q = Fields /\ q.legs = <<leg, other>> /\ q.pc = "check" /\ q.opens = FALSE
  BY DEF Req!Waiting, Fields
<1>5. /\ <<leg, other>> \in Seq(LegOf(m)) /\ <<leg, other>> # <<>>
      /\ <<leg, other>>[1].obj # 0
  BY <1>3
<1>6. ReqTyped(q, objects, number)
  BY <1>4, <1>5 DEF ReqTyped, OnObject
<1>7. Req!Starts(r, q)
  BY <1>1
<1> QED
  BY <1>6, <1>7, StartsTyped

LEMMA StartOpeningTyped ==
  ASSUME ReqTypes, NEW r \in Requests, Req!StartOpening(r)
  PROVE  ReqTypes'
<1>1. PICK a \in Accounts, n \in Openings :
        Req!Starts(r, [Req!Waiting EXCEPT !.pc = "list", !.opens = TRUE, !.name = a,
                         !.legs = <<Req!Leg(0, "DEPOSIT", n)>>])
  BY DEF Req!StartOpening, Req!Asks
<1> PICK leg, m : leg = Req!Leg(0, "DEPOSIT", n) /\ m = Len(objects)
  OBVIOUS
<1>2. n \in Int /\ "DEPOSIT" \in TransactionType /\ m \in Nat
  BY AmountsAre, ObjectOf DEF TransactionType
<1>3. leg \in LegOf(m)
  BY <1>2, LegTyped
<1> PICK q : q = [Req!Waiting EXCEPT !.pc = "list", !.opens = TRUE, !.name = a,
                                     !.legs = <<leg>>]
  OBVIOUS
<1>4. DOMAIN q = Fields /\ q.legs = <<leg>> /\ q.pc = "list" /\ q.name = a
  BY DEF Req!Waiting, Fields
<1>5. <<leg>> \in Seq(LegOf(m)) /\ <<leg>> # <<>>
  BY <1>3
<1>6. ReqTyped(q, objects, number)
  BY <1>4, <1>5 DEF ReqTyped, OnObject
<1>7. Req!Starts(r, q)
  BY <1>1
<1> QED
  BY <1>6, <1>7, StartsTyped

LEMMA StartRemovalTyped ==
  ASSUME ReqTypes, NEW r \in Requests, Req!StartRemoval(r)
  PROVE  ReqTypes'
<1>1. PICK a \in Accounts :
        Req!Starts(r, [Req!Waiting EXCEPT !.pc = "unlist", !.name = a])
  BY DEF Req!StartRemoval, Req!Asks, Req!Open
<1> PICK q : q = [Req!Waiting EXCEPT !.pc = "unlist", !.name = a]
  OBVIOUS
<1>2. /\ DOMAIN q = Fields /\ q.legs = <<>> /\ q.pc = "unlist" /\ q.name = a
      /\ q.opens = FALSE
  BY DEF Req!Waiting, Fields
<1>3. q.legs \in Seq(LegOf(Len(objects)))
  BY <1>2, EmptySeq
<1>4. ReqTyped(q, objects, number)
  BY <1>2, <1>3 DEF ReqTyped, OnObject
<1> QED
  BY <1>1, <1>4, StartsTyped

LEMMA StartPageTyped ==
  ASSUME ReqTypes, NEW r \in Requests, Req!StartPage(r)
  PROVE  ReqTypes'
<1> PICK q : q = [Req!Waiting EXCEPT !.pc = "collect", !.index = changes]
  OBVIOUS
<1>1. Req!Starts(r, q)
  BY DEF Req!StartPage, Req!Asks
<1>2. DOMAIN q = Fields /\ q.legs = <<>> /\ q.pc = "collect" /\ q.opens = FALSE
  BY DEF Req!Waiting, Fields
<1>3. q.legs \in Seq(LegOf(Len(objects)))
  BY <1>2, EmptySeq
<1>4. ReqTyped(q, objects, number)
  BY <1>2, <1>3 DEF ReqTyped, OnObject
<1> QED
  BY <1>1, <1>4, StartsTyped

LEMMA StartTyped ==
  ASSUME ReqTypes, NEW r \in Requests, Req!Start(r)
  PROVE  ReqTypes'
  BY StartTransactionTyped, StartTransferTyped, StartOpeningTyped, StartRemovalTyped,
     StartPageTyped DEF Req!Start

LEMMA ReqTypesStep ==
  ASSUME ReqTypes, Req!Next \/ UNCHANGED requestVars
  PROVE  ReqTypes'
<1>1. ASSUME NEW r \in Requests, Req!Run(r)
      PROVE  ReqTypes'
  BY <1>1, WithdrawTyped, AddToBalanceTyped, AddToTotalTyped, NewTransactionTyped,
     StoreNewTyped, AddKeyTyped, OpenAccountTyped, RemoveFromBooksTyped, PageTyped,
     EndsTyped DEF Req!Run
<1>2. CASE UNCHANGED requestVars
  BY <1>2 DEF requestVars, ReqTypes, BooksTyped
<1> QED
  BY <1>1, <1>2, StartTyped DEF Req!Next

-----------------------------------------------------------------------------
(* The requests begin with the books of a sound user.                      *)
LEMMA FirstUserIs ==
  ASSUME NEW first \in FirstBooks
  PROVE  /\ first.accounts \in [Accounts -> Req!BankAccount]
         /\ first.lists[Req!Kind] \in Seq(Accounts) /\ first.total \in Int
         /\ first.transactions \in Seq(Transaction)
         /\ ToSet(first.lists[Req!Kind])
              = {a \in Req!Names(first) : first.accounts[a].type = Req!Kind}
         /\ \A a \in Req!Names(first) : first.accounts[a].type = Req!Kind
         /\ \A a \in Accounts :
              ToSet(first.accounts[a].keys) \subseteq DOMAIN first.transactions
<1>1. Req!Sound(first) /\ {"CHECKING"} = {Req!Kind}
  BY RequestsAssumption DEF Req!RequestsAssumption
<1>2. Req!IsUser(first) /\ Req!ListsAgree(first)
      /\ \A a \in Req!Names(first) : first.accounts[a].type \in {"CHECKING"}
  BY <1>1 DEF Req!Sound
<1>3. /\ first.accounts \in [Accounts -> Req!BankAccount]
      /\ first.lists[Req!Kind] \in Seq(Accounts) /\ first.total \in Int
      /\ first.transactions \in Seq(Req!Transaction)
  BY <1>1, <1>2 DEF Req!IsUser
<1>4. Req!Transaction = Transaction
  BY DEF Transaction, Req!Transaction, TransactionType, Req!TransactionType
<1>5. \A a \in Accounts : ToSet(first.accounts[a].keys) \subseteq DOMAIN first.transactions
  BY <1>1 DEF Req!Sound, Req!ToSet, ToSet
<1>6. Req!ToSet(first.lists[Req!Kind])
        = {a \in Req!Names(first) : first.accounts[a].type = Req!Kind}
  BY <1>1, <1>2 DEF Req!ListsAgree
<1>7. Req!Names(first) \subseteq Accounts
  BY DEF Req!Names
<1> QED
  BY <1>1, <1>2, <1>3, <1>4, <1>5, <1>6, <1>7 DEF Req!ToSet, ToSet

(* The object that an account becomes.                                     *)
FirstObject(acc) ==
  [balance |-> acc.balance, size |-> Len(acc.keys),
   keys |-> [k \in DOMAIN acc.keys |-> acc.keys[k] - 1]]

LEMMA FirstObjectTyped ==
  ASSUME NEW acc \in Req!BankAccount, NEW n \in Nat, ToSet(acc.keys) \subseteq 1 .. n
  PROVE  /\ FirstObject(acc) \in BankObject
         /\ FirstObject(acc).size <= Len(FirstObject(acc).keys)
<1> PICK k, l : k = acc.keys /\ l = [i \in DOMAIN k |-> k[i] - 1]
  OBVIOUS
<1>1. k \in Seq(Nat) /\ acc.balance \in Int
  BY DEF Req!BankAccount
<1>2. Len(k) \in Nat /\ DOMAIN k = 1 .. Len(k)
  BY <1>1, LenProperties
<1>3. \A i \in DOMAIN k : k[i] \in 1 .. n
  BY DEF ToSet
<1>4. \A i \in 1 .. Len(k) : k[i] - 1 \in Nat
  BY <1>2, <1>3
<1>5. l \in [1 .. Len(k) -> Nat]
  BY <1>2, <1>4
<1>6. l \in Seq(Nat) /\ Len(l) = Len(k)
  BY <1>2, <1>5, LenProperties
<1>7. FirstObject(acc) = [balance |-> acc.balance, size |-> Len(k), keys |-> l]
  BY DEF FirstObject
<1> PICK x, m, b : x = FirstObject(acc) /\ m = Len(k) /\ b = acc.balance
  OBVIOUS
<1>8. x = [balance |-> b, size |-> m, keys |-> l] /\ m \in Nat /\ b \in Int
  BY <1>1, <1>2, <1>7
<1>9. x \in BankObject /\ x.size = m /\ x.keys = l
  BY <1>6, <1>8 DEF BankObject
<1> QED
  BY <1>6, <1>8, <1>9

LEMMA ReqTypesInit ==
  ASSUME Req!Init
  PROVE  ReqTypes
<1>1. PICK first \in FirstBooks : Req!Begins(first)
  BY DEF Req!Init
<1> PICK s, n, names : /\ s = first.lists[Req!Kind] /\ n = Len(s)
                       /\ names = Req!Names(first)
  OBVIOUS
<1>2. /\ first.accounts \in [Accounts -> Req!BankAccount] /\ s \in Seq(Accounts)
      /\ first.total \in Int /\ first.transactions \in Seq(Transaction)
      /\ names \subseteq ToSet(s)
      /\ \A a \in Accounts :
           ToSet(first.accounts[a].keys) \subseteq DOMAIN first.transactions
  BY FirstUserIs DEF Req!Names
<1>3. n \in Nat /\ DOMAIN s = 1 .. n
  BY <1>2, LenProperties
<1>4. /\ objects = [i \in DOMAIN s |-> FirstObject(first.accounts[s[i]])]
      /\ accounts = [a \in Accounts |->
           IF a \in names THEN CHOOSE i \in DOMAIN objects : s[i] = a ELSE 0]
      /\ list = s /\ changes = 0 /\ total = first.total
      /\ number = Len(first.transactions)
      /\ all = [i \in 0 .. number - 1 |-> first.transactions[i + 1]]
  BY <1>1 DEF Req!Begins, FirstObject
<1>5. ASSUME NEW i \in 1 .. n
      PROVE  /\ objects[i] \in BankObject /\ objects[i].size <= Len(objects[i].keys)
  <2>1. s[i] \in Accounts
    BY <1>2, <1>3, ElementOfSeq
  <2> PICK acc : acc = first.accounts[s[i]]
    OBVIOUS
  <2>2. acc \in Req!BankAccount /\ ToSet(acc.keys) \subseteq DOMAIN first.transactions
    BY <1>2, <2>1
  <2>3. DOMAIN first.transactions = 1 .. Len(first.transactions)
        /\ Len(first.transactions) \in Nat
    BY <1>2, LenProperties
  <2>4. objects[i] = FirstObject(acc)
    BY <1>3, <1>4
  <2> QED
    BY <2>2, <2>3, <2>4, FirstObjectTyped
<1>6. DOMAIN objects = 1 .. n
  BY <1>3, <1>4
<1>7. objects \in [1 .. n -> BankObject]
  <2>1. objects = [i \in 1 .. n |-> objects[i]]
    BY <1>3, <1>4
  <2> QED
    BY <1>5, <2>1
<1>8. ObjectsTyped(objects) /\ Len(objects) = n
  <2>1. objects \in Seq(BankObject)
    BY <1>3, <1>7
  <2>2. Len(objects) = n
    BY <1>3, <1>6, <2>1, LenProperties
  <2> QED
    BY <1>5, <1>6, <2>1, <2>2 DEF ObjectsTyped
<1>9. accounts \in [Accounts -> 0 .. n]
  <2>1. ASSUME NEW a \in names
        PROVE  (CHOOSE i \in DOMAIN objects : s[i] = a) \in 0 .. n
    <3>1. \E i \in DOMAIN objects : s[i] = a
      BY <1>2, <1>3, <1>6 DEF ToSet
    <3>2. (CHOOSE i \in DOMAIN objects : s[i] = a) \in DOMAIN objects
      BY <3>1
    <3> QED
      BY <1>3, <1>6, <3>2
  <2> QED
    BY <1>3, <1>4, <2>1
<1>10. number \in Nat /\ all \in [DOMAIN all -> Transaction]
  <2> PICK t, m : t = first.transactions /\ m = Len(t)
    OBVIOUS
  <2>1. m \in Nat /\ \A i \in 1 .. m : t[i] \in Transaction
    BY <1>2, LenProperties, ElementOfSeq
  <2>2. \A i \in 0 .. m - 1 : t[i + 1] \in Transaction
    BY <2>1
  <2>3. number = m /\ all = [i \in 0 .. m - 1 |-> t[i + 1]]
    BY <1>4
  <2> QED
    BY <2>1, <2>2, <2>3
<1>11. BooksTyped
  BY <1>2, <1>4, <1>8, <1>9, <1>10 DEF BooksTyped
<1>12. DOMAIN req = Requests /\ \A r \in Requests : ReqTyped(req[r], objects, number)
  <2>1. req = [r \in Requests |-> Req!Waiting]
    BY DEF Req!Init
  <2> QED
    BY <2>1, WaitingTyped
<1>13. issued \in 0 .. MaxRequests /\ kept \in BOOLEAN
  BY RequestsAssumption DEF Req!RequestsAssumption, Req!Init
<1> QED
  BY <1>11, <1>12, <1>13 DEF ReqTypes

-----------------------------------------------------------------------------
LEMMA BankParts == BankSpec => Spec /\ Req!Spec
<1>1. BankInit => Init /\ Req!Init
  BY DEF BankInit
<1>2. [BankNext]_<<part, vars, requestVars>> => [Next]_vars /\ [Req!Next]_(Req!vars)
  BY DEF BankNext, vars, requestVars, Req!vars, Req!books
<1> QED
  BY <1>1, <1>2, PTL DEF BankSpec, Spec, Req!Spec

(* What holds of the sessions and of the file.                             *)
BankInv == Shapes /\ Known /\ CopiesGood /\ Tallies

LEMMA BankInvAlways == BankSpec => []BankInv
<1>1. Init => BankInv
  BY ShapesInit, KnownInit, CopiesInit, TalliesInit DEF BankInv
<1>2. BankInv /\ [Next]_vars => BankInv'
  BY ShapesStep, KnownStep, CopiesStep, TalliesStep DEF BankInv
<1> QED
  BY <1>1, <1>2, BankParts, PTL DEF Spec

LEMMA EachCopyGood ==
  ASSUME CopiesGood, NEW db \in Copies \ {NoDB}
  PROVE  GoodCopy(db, log)
  BY DEF Copies, CopiesGood, Held, DB

(* Whatever becomes of the copies of the database, and whatever requests   *)
(* that overlap do to each other, each transaction that is kept is in the  *)
(* log file as often as it is kept (Transaction.log).                      *)
THEOREM LogsAreComplete == BankSpec => []LogsComplete
<1>1. BankInv => LogComplete
  BY EachCopyGood DEF BankInv, LogComplete, GoodCopy
<1>2. LogComplete /\ Req!LogHasAll => LogsComplete
  BY DEF LogsComplete
<1> QED
  BY <1>1, <1>2, BankInvAlways, BankParts, KeptIsLogged, PTL

(* In every copy of the database, in the sessions and in the file, the     *)
(* total of every user is the sum of the balances, each balance is what    *)
(* the account's transactions come to and what the last one recorded, and  *)
(* the lists hold each account once (User, BankAccount).                   *)
THEOREM BooksAndListsAgree == BankSpec => []AllAgree
<1>1. ASSUME CopiesGood, NEW user \in UsersKept
      PROVE  BooksAgree(user) /\ ListsAgree(user)
  <2>1. PICK db \in Copies \ {NoDB} : \E u \in DOMAIN db : user = db[u]
    BY DEF UsersKept
  <2>2. SoundBook(db)
    BY <1>1, EachCopyGood DEF GoodCopy
  <2> QED
    BY <2>1, <2>2, BookIs DEF Sound
<1>2. BankInv => AllAgree
  BY <1>1 DEF BankInv, AllAgree, Books, Lists
<1> QED
  BY <1>2, BankInvAlways, PTL

(* The databases, the file and the sessions are of their types, and so are *)
(* the books that overlapping requests work on and what they hold: no      *)
(* account of an unknown object, no key that is negative, no size beyond   *)
(* the keys (User, BankAccount).                                           *)
THEOREM BankTypesHold == BankSpec => []TypesOK
<1>1. Req!Init => ReqTypes
  BY ReqTypesInit
<1>2. ReqTypes /\ [Req!Next]_(Req!vars) => ReqTypes'
  <2>1. UNCHANGED Req!vars => UNCHANGED requestVars
    BY DEF Req!vars, Req!books, requestVars
  <2> QED
    BY <2>1, ReqTypesStep
<1>3. BankInv /\ ReqTypes => TypesOK
  BY TypesFollow, ReqTypesGive DEF BankInv, TypesOK
<1> QED
  BY <1>1, <1>2, <1>3, BankInvAlways, BankParts, PTL DEF Req!Spec
=============================================================================
