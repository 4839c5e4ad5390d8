---------------------------- MODULE BankRequests ----------------------------
(***************************************************************************)
(* Requests of one session that the server runs at the same time, on the   *)
(* one User object of the session (User.java, BankAccount.java,            *)
(* Transaction.java, BalancesPage.java).  Nothing there is locked, so a    *)
(* step is one access to a field, or one call of a collection's method;    *)
(* what races inside those methods could break is left out.  All accounts  *)
(* are of one type, and so on one list.                                    *)
(***************************************************************************)
EXTENDS BankLedger

CONSTANTS
  Requests,       \* the threads of the server
  Amounts, Openings,  \* what is deposited, withdrawn, moved; first balances
  FirstBooks,     \* what the books of the user may be at first
  Nobody,
  MaxRequests     \* how many requests there are

Kind == CHOOSE t \in Types : TRUE

RequestsAssumption ==
  /\ Types = {Kind} /\ Nobody \notin Requests /\ MaxRequests \in Nat
  /\ Amounts \subseteq Nat \ {0} /\ Openings \subseteq Nat
  /\ \A first \in FirstBooks : Sound(first)

VARIABLES
  objects,      \* every BankAccount that was ever created
  accounts,     \* BankAccounts: the object of a name, or 0
  list, changes,  \* the names in order, and how often that list was changed
  total, number, all,  \* TotalBalance, NumTotalTransactions, AllTransactions
  log,          \* the log file
  req,          \* where each request is, and what it has read
  issued,
  alone,        \* history: a request that has met no other; the books before
  kept          \* history: transfers that met no other kept the sum so far

books == <<objects, accounts, list, changes, total, number, all, log>>
vars == <<books, req, issued, alone, kept>>

-----------------------------------------------------------------------------
(* A request is at "idle" between requests, at "failed" after an exception *)
(* nobody catches.  Its legs are the calls of MakeTransaction it is still  *)
(* to make, the first of them first; obj 0 is null.                        *)
NoTransaction == [type |-> "DEPOSIT", amount |-> 0, result |-> 0]
Waiting == [pc |-> "idle", legs |-> <<>>, opens |-> FALSE, name |-> "none",
            seen |-> 0, index |-> 0, t |-> NoTransaction, page |-> <<>>]

Leg(o, type, amount) == [obj |-> o, type |-> type, amount |-> amount]
By(leg) == Change(leg.type, leg.amount)
Now(r) == req[r].legs[1]
At(r, pc) == req[r].pc = pc
To(r, pc) == req' = [req EXCEPT ![r].pc = pc, ![r].seen = 0]
Reads(r, value, pc) == req' = [req EXCEPT ![r].seen = value, ![r].pc = pc]

(* A deposit goes ahead at once, a withdrawal looks at the balance first.  *)
Entry(leg) == IF By(leg) >= 0 THEN "balance" ELSE "check"

(* A whole number as a Java float: beyond 2^24, up to 2^25, only the even  *)
(* ones are left, and what is in the middle goes to the multiple of four.  *)
Exact == 2^24
Float(n) == IF n \in -Exact .. Exact \/ n % 2 = 0 THEN n
            ELSE CHOOSE m \in {n - 1, n + 1} : m % 4 = 0

(* TransactionKeys as it is: the keys, of which the first size count.      *)
Keys(o) == SubSeq(o.keys, 1, o.size)
Add(o, at, key) ==
  [o EXCEPT !.size = at + 1,
            !.keys = IF at < Len(@) THEN [@ EXCEPT ![at + 1] = key]
                                    ELSE Append(@, key)]

-----------------------------------------------------------------------------
(* The books as BankLedger has them.  Under some number nothing may have   *)
(* been put.                                                               *)
LedgerAccount(a) ==
  IF accounts[a] = 0 THEN NoAccount
  ELSE LET o == objects[accounts[a]]
       IN  [type |-> Kind, balance |-> o.balance,
            keys |-> [i \in 1 .. o.size |-> o.keys[i] + 1]]

Ledger == [accounts |-> [a \in Accounts |-> LedgerAccount(a)],
           lists |-> [t \in Types |-> list], total |-> total,
           transactions |-> [i \in 1 .. number |->
             IF i - 1 \in DOMAIN all THEN all[i - 1] ELSE NoTransaction]]

TypeOK ==
  /\ \A i \in DOMAIN objects :
       /\ objects[i].balance \in Int /\ objects[i].size \in 0 .. Len(objects[i].keys)
       /\ objects[i].keys \in Seq(Nat)
  /\ accounts \in [Accounts -> 0 .. Len(objects)]
  /\ list \in Seq(Accounts) /\ changes \in Nat
  /\ total \in Int /\ number \in Nat /\ all \in [DOMAIN all -> Transaction]
  /\ \A r \in Requests : \A i \in DOMAIN req[r].legs :
       req[r].legs[i].obj \in 0 .. Len(objects)
  /\ issued \in 0 .. MaxRequests /\ kept \in BOOLEAN

Begins(first) ==
  /\ objects = [i \in DOMAIN first.lists[Kind] |->
       LET acc == first.accounts[first.lists[Kind][i]]
       IN  [balance |-> acc.balance, size |-> Len(acc.keys),
            keys |-> [k \in DOMAIN acc.keys |-> acc.keys[k] - 1]]]
  /\ accounts = [a \in Accounts |->
       IF a \in Names(first)
         THEN CHOOSE i \in DOMAIN objects : first.lists[Kind][i] = a ELSE 0]
  /\ list = first.lists[Kind] /\ changes = 0
  /\ total = first.total /\ number = Len(first.transactions)
  /\ all = [i \in 0 .. number - 1 |-> first.transactions[i + 1]]
  /\ log = first.transactions

Init ==
  /\ \E first \in FirstBooks : Begins(first)
  /\ req = [r \in Requests |-> Waiting] /\ issued = 0
  /\ alone = [r |-> Nobody] /\ kept = TRUE

-----------------------------------------------------------------------------
(* A request starts; it is alone while no other runs.                      *)
Busy == {r \in Requests : req[r].pc \notin {"idle", "failed"}}

Starts(r, first) ==
  /\ r \notin Busy /\ issued < MaxRequests /\ issued' = issued + 1
  /\ req' = [req EXCEPT ![r] = first]
  /\ UNCHANGED <<books, kept>>

Asks(r, first, result) ==
  /\ Starts(r, first)
  /\ alone' = IF Busy = {} THEN [r |-> r, result |-> result, before |-> Ledger]
                           ELSE [r |-> Nobody]

Object(a) == accounts[a]
Open == {a \in Accounts : Object(a) # 0}

(* TransactionCompleted.                                                   *)
StartTransaction(r) ==
  \E a \in Open, type \in {"DEPOSIT", "WITHDRAWAL"}, n \in Amounts :
    LET leg == Leg(Object(a), type, n)
    IN  Asks(r, [Waiting EXCEPT !.legs = <<leg>>, !.pc = Entry(leg)],
             IF Succeeds(Ledger, a, type, n) THEN MakeTransaction(Ledger, a, type, n)
                                             ELSE Ledger)

(* TransferCompleted, MakeTransfer: the account to transfer to may be gone.*)
StartTransfer(r) ==
  \E from \in Open, to \in Accounts, n \in Amounts :
    /\ from # to
    /\ Asks(r, [Waiting EXCEPT !.pc = "check",
                  !.legs = <<Leg(Object(from), "TRANSFER", -n),
                             Leg(Object(to), "TRANSFER", n)>>],
            MakeTransfer(Ledger, from, to, n))

(* BankAccountCreated: the name is looked up first.                        *)
StartOpening(r) ==
  \E a \in Accounts \ Open, n \in Openings :
    Asks(r, [Waiting EXCEPT !.pc = "list", !.opens = TRUE, !.name = a,
               !.legs = <<Leg(0, "DEPOSIT", n)>>],
         AddAccount(Ledger, Kind, a, n))

(* BankAccountDeleted: the balance is looked at first.                     *)
NoMore(o) == objects[o].balance <= 0
StartRemoval(r) ==
  \E a \in Open :
    /\ NoMore(Object(a))
    /\ Asks(r, [Waiting EXCEPT !.pc = "unlist", !.name = a],
            RemoveAccount(Ledger, a))

(* BalancesPage: the total, then the accounts of the names on the list.    *)
StartPage(r) ==
  Asks(r, [Waiting EXCEPT !.pc = "collect", !.index = changes], Ledger)

Start(r) ==
  \/ StartTransaction(r) \/ StartTransfer(r)
  \/ StartOpening(r) \/ StartRemoval(r) \/ StartPage(r)

-----------------------------------------------------------------------------
(* MakeTransaction, leg by leg.                                            *)
Others == UNCHANGED <<issued, alone, kept>>
Balance(r) == objects[Now(r).obj].balance

Withdraw(r) ==
  /\ At(r, "check")
  /\ To(r, IF Covers(Balance(r), -By(Now(r))) THEN "balance" ELSE "ends")
  /\ UNCHANGED books /\ Others

addToBalance(r) ==
  \/ /\ At(r, "balance") /\ Reads(r, Balance(r), "set balance")
     /\ UNCHANGED books /\ Others
  \/ /\ At(r, "set balance") /\ To(r, "total")
     /\ objects' = [objects EXCEPT ![Now(r).obj].balance =
                                     Float(req[r].seen + By(Now(r)))]
     /\ UNCHANGED <<accounts, list, changes, total, number, all, log>> /\ Others

(* The total is kept beside the balances.  Mutant: a withdrawal is added.  *)
Whatever(leg) == IF By(leg) < 0 THEN -By(leg) ELSE By(leg)
TotalChange(leg) == By(leg)

addToTotalBalance(r) ==
  \/ /\ At(r, "total") /\ Reads(r, total, "set total")
     /\ UNCHANGED books /\ Others
  \/ /\ At(r, "set total") /\ To(r, IF req[r].opens THEN "ends" ELSE "new")
     /\ total' = Float(req[r].seen + TotalChange(Now(r)))
     /\ UNCHANGED <<objects, accounts, list, changes, number, all, log>> /\ Others

(* A Transaction writes itself to the log as it is made.  Mutant: a        *)
(* transfer does not.                                                      *)
NotTransfers(t) == IF t.type = "TRANSFER" THEN log ELSE Append(log, t)
Logged(t) == Append(log, t)

NewTransaction(r) ==
  \/ /\ At(r, "new")
     /\ req' = [req EXCEPT ![r].pc = "log",
          ![r].t = [type |-> Now(r).type, amount |-> Now(r).amount,
                    result |-> Balance(r)]]
     /\ UNCHANGED books /\ Others
  \/ /\ At(r, "log") /\ To(r, "number") /\ log' = Logged(req[r].t)
     /\ UNCHANGED <<objects, accounts, list, changes, total, number, all>> /\ Others

(* StoreTransaction: put under the number, raise the number, return the    *)
(* one before it.  Mutant: the one before that.                            *)
TwoBefore(n) == n - 2
OneBefore(n) == n - 1
StoreNew(r) ==
  \/ /\ At(r, "number") /\ Reads(r, number, "put")
     /\ UNCHANGED books /\ Others
  \/ /\ At(r, "put") /\ To(r, "count")
     /\ all' = [i \in DOMAIN all \cup {req[r].seen} |->
                  IF i = req[r].seen THEN req[r].t ELSE all[i]]
     /\ UNCHANGED <<objects, accounts, list, changes, total, number, log>> /\ Others
  \/ /\ At(r, "count") /\ Reads(r, number, "set count")
     /\ UNCHANGED books /\ Others
  \/ /\ At(r, "set count") /\ To(r, "return") /\ number' = req[r].seen + 1
     /\ UNCHANGED <<objects, accounts, list, changes, total, all, log>> /\ Others
  \/ /\ At(r, "return")
     /\ req' = [req EXCEPT ![r].index = OneBefore(number), ![r].pc = "size"]
     /\ UNCHANGED books /\ Others

(* TransactionKeys.add, and on to the next leg.  An account that is null   *)
(* ends the request.                                                       *)
AddKey(r) ==
  \/ /\ At(r, "size") /\ Reads(r, objects[Now(r).obj].size, "key")
     /\ UNCHANGED books /\ Others
  \/ /\ At(r, "key")
     /\ objects' = [objects EXCEPT ![Now(r).obj] =
                                     Add(@, req[r].seen, req[r].index)]
     /\ LET rest == Tail(req[r].legs)
        IN  IF req[r].opens THEN To(r, "map")
            ELSE IF rest = <<>> \/ rest[1].obj = 0 THEN To(r, "ends")
            ELSE req' = [req EXCEPT ![r].legs = rest, ![r].pc = Entry(rest[1])]
     /\ UNCHANGED <<accounts, list, changes, total, number, all, log>> /\ Others

-----------------------------------------------------------------------------
(* AddAccount: the name, the object with its first transaction, the        *)
(* account, the total.                                                     *)
OpenAccount(r) ==
  \/ /\ At(r, "list") /\ To(r, "create")
     /\ list' = Append(list, req[r].name) /\ changes' = changes + 1
     /\ UNCHANGED <<objects, accounts, total, number, all, log>> /\ Others
  \/ /\ At(r, "create")
     /\ objects' = Append(objects, [balance |-> Now(r).amount, size |-> 0,
                                    keys |-> <<>>])
     /\ req' = [req EXCEPT ![r].legs[1].obj = Len(objects'),
                           ![r].pc = IF Now(r).amount > 0 THEN "new" ELSE "map"]
     /\ UNCHANGED <<accounts, list, changes, total, number, all, log>> /\ Others
  \/ /\ At(r, "map") /\ To(r, "total")
     /\ accounts' = [accounts EXCEPT ![req[r].name] = Now(r).obj]
     /\ UNCHANGED <<objects, list, changes, total, number, all, log>> /\ Others

RemoveFromBooks(r) ==
  \/ /\ At(r, "unlist") /\ To(r, "unmap")
     /\ list' = RemoveFirst(list, req[r].name) /\ changes' = changes + 1
     /\ UNCHANGED <<objects, accounts, total, number, all, log>> /\ Others
  \/ /\ At(r, "unmap") /\ To(r, "ends")
     /\ accounts' = [accounts EXCEPT ![req[r].name] = 0]
     /\ UNCHANGED <<objects, list, changes, total, number, all, log>> /\ Others

(* getCheckingAccounts fails when the list changes under its iterator, the *)
(* page when an account is null.                                           *)
CollectAccounts(r) ==
  /\ At(r, "collect")
  /\ LET page == req[r].page
     IN  IF Len(page) = Len(list) THEN To(r, "show")
         ELSE IF changes # req[r].index THEN To(r, "failed")
         ELSE req' = [req EXCEPT ![r].page = Append(@, accounts[list[Len(page) + 1]])]
  /\ UNCHANGED books /\ Others

ShowAccount(r) ==
  /\ At(r, "show")
  /\ LET page == req[r].page
     IN  IF page = <<>> THEN To(r, "ends")
         ELSE IF page[1] = 0 THEN To(r, "failed")
         ELSE req' = [req EXCEPT ![r].page = Tail(@)]
  /\ UNCHANGED books /\ Others

-----------------------------------------------------------------------------
(* The answer is sent.                                                     *)
Sum == SumFunction([a \in Open |-> objects[Object(a)].balance])
SumBefore == SumFunction([a \in Accounts |-> alone.before.accounts[a].balance])
Paid(r) == Len(req[r].legs) = 1 /\ Now(r).type = "TRANSFER" /\ By(Now(r)) > 0

Ends(r) ==
  /\ At(r, "ends") /\ req' = [req EXCEPT ![r] = Waiting]
  /\ kept' = (kept /\ (alone.r = r /\ Paid(r) => Sum = SumBefore))
  /\ alone' = [r |-> Nobody]
  /\ UNCHANGED <<books, issued>>

Run(r) ==
  \/ Withdraw(r) \/ addToBalance(r) \/ addToTotalBalance(r)
  \/ NewTransaction(r) \/ StoreNew(r) \/ AddKey(r)
  \/ OpenAccount(r) \/ RemoveFromBooks(r)
  \/ CollectAccounts(r) \/ ShowAccount(r) \/ Ends(r)

Next == \E r \in Requests : Start(r) \/ Run(r)

Spec == Init /\ [][Next]_vars

-----------------------------------------------------------------------------
(* A request that meets no other does, step by step, what BankLedger says  *)
(* the whole method does: so Bank may take it as one step, as long as the  *)
(* amounts are well among those that a float holds exactly.                *)
HeldExactly(ledger) ==
  /\ 2 * ledger.total \in -Exact .. Exact
  /\ \A a \in Accounts : 2 * ledger.accounts[a].balance \in -Exact .. Exact

AloneIsLedger ==
  \A r \in Requests :
    /\ alone.r = r /\ At(r, "ends")
    /\ HeldExactly(alone.before) /\ HeldExactly(alone.result)
    => Ledger = alone.result

(* Whatever the requests do to each other, each transaction that is kept   *)
(* is in the log file as often as it is kept (Transaction.log).            *)
Often(t, f) == Cardinality({i \in DOMAIN f : f[i] = t})

LogHasAll == \A i \in DOMAIN all : Often(all[i], all) <= Often(all[i], log)

-----------------------------------------------------------------------------
(* "requested withdraw amount $... is larger than the funds available in   *)
(* account" (TransactionCompleted.java:42): what is withdrawn was there.   *)
FundsAvailable == \A i \in DOMAIN objects : objects[i].balance >= 0

(* "View bank account balances" (README.md:8): the page is shown.          *)
BalancesAreShown == \A r \in Requests : ~At(r, "failed")

(* "View bank account histories" (README.md:7): at rest, each key of an    *)
(* account leads to a transaction.                                         *)
HistoriesAreShown ==
  Busy = {} => \A a \in Open : ToSet(Keys(objects[Object(a)])) \subseteq DOMAIN all

(* "Transfer funds between bank accounts" (README.md:9): a transfer that   *)
(* meets no other request leaves the sum of the balances as it was.        *)
TransferKeepsFunds == kept
=============================================================================
