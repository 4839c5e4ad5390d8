----------------------------- MODULE BankLedger -----------------------------
(***************************************************************************)
(* What one user of the bank has: accounts, the lists they are shown in,   *)
(* all transactions, and the total balance that is kept beside them; and   *)
(* what the methods of User and BankAccount do to it (User.java,           *)
(* BankAccount.java, Transaction.java).  Amounts are whole numbers: the    *)
(* rounding of Java's float is left out.                                   *)
(***************************************************************************)
EXTENDS Integers, Sequences, SequencesExt, FiniteSetsExt

CONSTANTS
  Accounts,   \* the names an account may have
  Types       \* BankAccountType

NoType == "none"
ASSUME TypesAssumption == NoType \notin Types
ASSUME AccountsAssumption == IsFiniteSet(Accounts)

TransactionType == {"DEPOSIT", "WITHDRAWAL", "TRANSFER"}

(* ResultingBalance is the balance of the account just after.              *)
Transaction == [type : TransactionType, amount : Int, result : Int]

(* TransactionKeys are indices into the transactions of the user.          *)
BankAccount == [type : Types \cup {NoType}, balance : Int, keys : Seq(Nat)]
NoAccount == [type |-> NoType, balance |-> 0, keys |-> <<>>]

IsUser(user) ==
  user \in [accounts : [Accounts -> BankAccount], lists : [Types -> Seq(Accounts)],
            total : Int, transactions : Seq(Transaction)]

NewUser == [accounts |-> [a \in Accounts |-> NoAccount],
            lists |-> [t \in Types |-> <<>>],
            total |-> 0, transactions |-> <<>>]

Names(user) == {a \in Accounts : user.accounts[a] # NoAccount}

-----------------------------------------------------------------------------
(* addNewTransaction: the transaction goes to the user, its index to the   *)
(* account.  Mutant: it takes the place of the last one.                   *)
OverLast(user, t) ==
  IF user.transactions = <<>> THEN <<t>>
    ELSE [user.transactions EXCEPT ![Len(user.transactions)] = t]
StoreTransaction(user, t) == Append(user.transactions, t)

(* A withdrawal must not exceed the balance.  Mutant: it may by one.       *)
CoversAlmost(balance, n) == n <= balance + 1
Covers(balance, n) == n <= balance

(* RemoveAccount takes the name off the list of its type.  Mutant: it      *)
(* stays.                                                                  *)
StaysListed(user, a) == user.lists
Unlisted(user, a) ==
  [user.lists EXCEPT ![user.accounts[a].type] = RemoveFirst(@, a)]

addNewTransaction(user, a, type, amount) ==
  LET t   == [type |-> type, amount |-> amount,
              result |-> user.accounts[a].balance]
      all == StoreTransaction(user, t)
  IN  [user EXCEPT !.transactions = all,
                   !.accounts[a].keys = Append(@, Len(all))]

(* Deposit, or Withdraw with a negative n.                                 *)
Move(user, a, n) ==
  [user EXCEPT !.accounts[a].balance = @ + n, !.total = @ + n]

(* MakeTransaction succeeds, and what it then does.                        *)
Change(type, amount) == IF type = "WITHDRAWAL" THEN -amount ELSE amount
Succeeds(user, a, type, amount) ==
  Change(type, amount) >= 0
    \/ Covers(user.accounts[a].balance, -Change(type, amount))

MakeTransaction(user, a, type, amount) ==
  addNewTransaction(Move(user, a, Change(type, amount)), a, type, amount)

(* MakeTransfer.  There may be no account to transfer to any more: then    *)
(* the method fails after it has withdrawn the amount.                     *)
MakeTransfer(user, from, to, n) ==
  LET paid == MakeTransaction(user, from, "TRANSFER", -n)
  IN  IF from = to \/ ~Succeeds(user, from, "TRANSFER", -n) THEN user
      ELSE IF to \notin Names(user) THEN paid
      ELSE MakeTransaction(paid, to, "TRANSFER", n)

AddAccount(user, type, a, n) ==
  LET account == [type |-> type, balance |-> n, keys |-> <<>>]
      opened  == [user EXCEPT !.lists[type] = Append(@, a),
                              !.accounts[a] = account, !.total = @ + n]
  IN  IF n > 0 THEN addNewTransaction(opened, a, "DEPOSIT", n) ELSE opened

RemoveAccount(user, a) ==
  IF user.accounts[a].balance > 0 THEN user
  ELSE [user EXCEPT !.lists = Unlisted(user, a), !.accounts[a] = NoAccount]

-----------------------------------------------------------------------------
(* The books of a user agree: the total is the sum of the balances, and    *)
(* each balance, never negative, is what the account's transactions come   *)
(* to and what the last of them recorded.                                  *)
Moved(t) == Change(t.type, t.amount)

BooksAgree(user) ==
  /\ user.total = SumFunction([a \in Accounts |-> user.accounts[a].balance])
  /\ \A a \in Accounts :
       LET acc == user.accounts[a]
       IN  /\ acc.balance >= 0
           /\ acc.balance = SumFunction([i \in DOMAIN acc.keys |->
                                           Moved(user.transactions[acc.keys[i]])])
           /\ acc.keys # <<>> =>
                user.transactions[Last(acc.keys)].result = acc.balance

(* Every account is on the list of its type, once, and nothing else is on  *)
(* a list: the pages walk the lists and look the names up.                 *)
ListsAgree(user) ==
  \A t \in Types :
    /\ ToSet(user.lists[t]) = {a \in Names(user) : user.accounts[a].type = t}
    /\ IsInjective(user.lists[t])

(* What both need: keys are of transactions, and only a name that is free  *)
(* has no type.                                                            *)
Sound(user) ==
  /\ IsUser(user) /\ BooksAgree(user) /\ ListsAgree(user)
  /\ \A a \in Accounts : ToSet(user.accounts[a].keys) \subseteq DOMAIN user.transactions
  /\ \A a \in Names(user) : user.accounts[a].type \in Types
=============================================================================
