----------------------------- MODULE BankAlone ------------------------------
(***************************************************************************)
(* A request of a session that meets no other, for any books and amounts:  *)
(* taken step by step (BankRequests), it does what the whole method does   *)
(* (BankLedger), so that Bank may take each request as one step.  While it *)
(* runs, the ledger it is on its way to is known at each of its places, by *)
(* how much of the balance, the total, the transaction and the key is      *)
(* still to come (Doing); and no object has two owners (Owned).            *)
(***************************************************************************)
EXTENDS BankProofs

(* A request that meets no other.  All is about the books in one record;   *)
(* the ledger is what BankRequests calls Ledger.                           *)
View == [objects |-> objects, accounts |-> accounts, list |-> list, total |-> total,
         number |-> number, all |-> all]

Listed(n, f) ==
  [i \in 1 .. n |-> IF i - 1 \in DOMAIN f THEN f[i - 1] ELSE Req!NoTransaction]
KeysOf(x) == [i \in 1 .. x.size |-> x.keys[i] + 1]
AccountOf(x) == [type |-> Req!Kind, balance |-> x.balance, keys |-> KeysOf(x)]

AccountIn(w, a) ==
  IF w.accounts[a] = 0 THEN Req!NoAccount ELSE AccountOf(w.objects[w.accounts[a]])
LedgerIn(w) ==
  [accounts |-> [a \in Accounts |-> AccountIn(w, a)],
   lists |-> [t \in {"CHECKING"} |-> w.list], total |-> w.total,
   transactions |-> Listed(w.number, w.all)]

ViewTyped(w) ==
  /\ ObjectsTyped(w.objects) /\ w.accounts \in [Accounts -> 0 .. Len(w.objects)]
  /\ w.list \in Seq(Accounts) /\ w.total \in Int /\ w.number \in Nat
  /\ w.all \in [DOMAIN w.all -> Transaction]

(* A request q in a call of MakeTransaction is on its way to the ledger d: *)
(* how much of the balance, of the total, of the transaction and of the    *)
(* key of the account a is still to come, by the place it is at.           *)
Near == -Req!Exact .. Req!Exact

UntilBalance == {"check", "balance", "set balance"}
UntilTotal == UntilBalance \cup {"total", "set total"}
Numbered == {"return", "size", "key"}
OnLeg == OnObject \ {"map"}

ObjectAt(w, q) == w.objects[q.legs[1].obj]
Owing(q) == Req!By(q.legs[1])

BalanceDue(q, x, acc) ==
  /\ acc.type = Req!Kind /\ acc.balance \in Near
  /\ acc.balance = IF q.pc \in UntilBalance THEN x.balance + Owing(q) ELSE x.balance
  /\ q.pc = "set balance" => q.seen = x.balance
  /\ q.pc = "check" => Req!Covers(x.balance, -Owing(q))

TotalDue(q, sum, due) ==
  /\ due \in Near
  /\ due = IF q.opens \/ q.pc \in UntilTotal THEN sum + Owing(q) ELSE sum
  /\ q.pc = "set total" => q.seen = sum
  /\ q.opens => q.pc \notin UntilTotal

RecordDue(q, n, f, due, t) ==
  /\ due = IF q.pc \in Numbered THEN Listed(n, f) ELSE Append(Listed(n, f), t)
  /\ q.pc \in {"log", "number", "put"} => q.t = t
  /\ q.pc \in {"put", "set count"} => q.seen = n
  /\ q.pc \in {"count", "set count"} => n \in DOMAIN f /\ f[n] = t
  /\ q.pc \in {"size", "key"} => q.index = n - 1

KeyDue(q, x, acc, due) ==
  /\ acc.keys = Append(KeysOf(x), Len(due))
  /\ q.pc = "key" => q.seen = x.size

Apart(w, q, d, a) ==
  /\ d.lists = [t \in {"CHECKING"} |-> w.list]
  /\ \A b \in Accounts \ {a} :
       w.accounts[b] # q.legs[1].obj /\ d.accounts[b] = AccountIn(w, b)
  /\ IF q.opens THEN q.name = a /\ w.accounts[a] = 0 /\ q.legs[1].type = "DEPOSIT"
                ELSE w.accounts[a] = q.legs[1].obj

MakesRecord(q, acc) ==
  [type |-> q.legs[1].type, amount |-> q.legs[1].amount, result |-> acc.balance]

Toward(w, q, d, a) ==
  LET x   == ObjectAt(w, q)
      acc == d.accounts[a]
  IN  /\ IsRecord(d) /\ IsAccount(acc)
      /\ BalanceDue(q, x, acc) /\ TotalDue(q, w.total, d.total)
      /\ RecordDue(q, w.number, w.all, d.transactions, MakesRecord(q, acc))
      /\ KeyDue(q, x, acc, d.transactions) /\ Apart(w, q, d, a)

(* What the second leg, a deposit, makes of that ledger.                   *)
OneLeg(q) == q.opens \/ Len(q.legs) = 1 \/ q.legs[2].obj = 0
Leads(w, q, d, a, result) ==
  \/ OneLeg(q) /\ result = d
  \/ /\ ~OneLeg(q) /\ Len(q.legs) = 2 /\ Req!By(q.legs[2]) >= 0
     /\ \E b \in Accounts \ {a} :
          /\ w.accounts[b] = q.legs[2].obj
          /\ \A c \in Accounts : w.accounts[c] = w.accounts[b] => c = b
          /\ result = Req!MakeTransaction(d, b, q.legs[2].type, q.legs[2].amount)

Refused(w, q, result) ==
  /\ q.pc = "check" /\ result = LedgerIn(w)
  /\ ~Req!Covers(ObjectAt(w, q).balance, -Owing(q))

Paying(w, q, result) ==
  /\ q.pc \in OnLeg
  /\ \/ Refused(w, q, result)
     \/ \E d : \E a \in Accounts : Toward(w, q, d, a) /\ Leads(w, q, d, a, result)

(* Removals, and openings before and after the first transaction.          *)
Unnaming(w, q) == [LedgerIn(w) EXCEPT !.accounts[q.name] = Req!NoAccount]
Closing(w, q, result) ==
  \/ /\ q.pc = "unlist" /\ w.accounts[q.name] # 0
     /\ AccountIn(w, q.name).balance <= 0
     /\ result = Req!RemoveAccount(LedgerIn(w), q.name)
  \/ /\ q.pc = "unmap"
     /\ result = Unnaming(w, q)

With(ledger, q, acc) ==
  [ledger EXCEPT !.total = @ + q.legs[1].amount, !.accounts[q.name] = acc]
Empty(n) == [type |-> Req!Kind, balance |-> n, keys |-> <<>>]
Recording(ledger, q) ==
  LET n == q.legs[1].amount
  IN  IF n > 0 THEN Req!addNewTransaction(ledger, q.name, "DEPOSIT", n) ELSE ledger
Added(w, q) == [LedgerIn(w) EXCEPT !.total = @ + q.legs[1].amount]

Opening(w, q, result) ==
  /\ q.opens /\ q.legs[1].type = "DEPOSIT"
  /\ q.pc \in {"list", "create", "map"} => w.accounts[q.name] = 0
  /\ \/ /\ q.pc = "list"
        /\ result = Req!AddAccount(LedgerIn(w), Req!Kind, q.name, q.legs[1].amount)
     \/ /\ q.pc = "create"
        /\ result = Recording(With(LedgerIn(w), q, Empty(q.legs[1].amount)), q)
     \/ q.pc = "map" /\ result = With(LedgerIn(w), q, AccountOf(ObjectAt(w, q)))
     \/ /\ q.pc \in {"total", "set total"} /\ (q.pc = "set total" => q.seen = w.total)
        /\ result = Added(w, q)

Doing(w, q, result) ==
  \/ q.pc \in {"collect", "show", "ends"} /\ result = LedgerIn(w)
  \/ Paying(w, q, result) \/ Closing(w, q, result) \/ Opening(w, q, result)

(* Whose an object is: one name's, or an opening's that has not named it.  *)
Unnamed(q) == q.opens /\ q.pc \in OnObject \ UntilTotal
OpensIt(q) == q.pc \in {"list", "create", "map"} => q.opens

OneOwner == \A a, b \in Accounts : accounts[a] = accounts[b] /\ accounts[a] # 0 => a = b

Owned ==
  /\ OneOwner
  /\ \A r \in Requests : Unnamed(req[r]) =>
       /\ \A a \in Accounts : accounts[a] # req[r].legs[1].obj
       /\ \A q \in Requests \ {r} :
            Unnamed(req[q]) => req[q].legs[1].obj # req[r].legs[1].obj
  /\ \A r \in Requests : OpensIt(req[r])

Lonely ==
  alone.r # Nobody =>
    /\ alone.r \in Requests /\ Req!Busy \subseteq {alone.r}
    /\ /\ alone.r \in Req!Busy
       /\ Req!HeldExactly(alone.before) /\ Req!HeldExactly(alone.result)
       => Doing(View, req[alone.r], alone.result)

LEMMA KindIs ==
  /\ Req!Kind = "CHECKING" /\ Req!Kind # Req!NoType
  /\ \A n \in Near : Req!Float(n) = n
<1>1. {"CHECKING"} = {Req!Kind}
  BY RequestsAssumption DEF Req!RequestsAssumption
<1>2. Req!Kind = "CHECKING"
  BY <1>1
<1> QED
  BY <1>2 DEF Req!NoType, Req!Float, Near

LEMMA ViewIs ==
  /\ View.objects = objects /\ View.accounts = accounts /\ View.list = list
  /\ View.total = total /\ View.number = number /\ View.all = all
  BY DEF View

(* The ledger of BankRequests, before and after a step.                    *)
LEMMA LedgerIs == Req!Ledger = LedgerIn(View) /\ Req!Ledger' = LedgerIn(View')
<1>1. Req!Ledger = LedgerIn(View)
  BY DEF Req!Ledger, Req!LedgerAccount, LedgerIn, AccountIn, AccountOf, KeysOf, Listed, View
<1>2. Req!Ledger' = LedgerIn(View')
  BY DEF Req!Ledger, Req!LedgerAccount, LedgerIn, AccountIn, AccountOf, KeysOf, Listed, View
<1> QED
  BY <1>1, <1>2

LEMMA ViewIsTyped ==
  /\ BooksTyped => ViewTyped(View)
  /\ BooksTyped' => ViewTyped(View')
  BY DEF BooksTyped, ViewTyped, View

(* The methods are the same whatever types there are.                      *)
LEMMA SameMethods ==
  ASSUME NEW user, NEW a, NEW type, NEW n
  PROVE  /\ Req!MakeTransaction(user, a, type, n) = MakeTransaction(user, a, type, n)
         /\ Req!addNewTransaction(user, a, type, n) = addNewTransaction(user, a, type, n)
         /\ Req!Change(type, n) = Change(type, n)
<1>1. Req!Change(type, n) = Change(type, n)
  BY DEF Req!Change, Change
<1>2. \A u : Req!addNewTransaction(u, a, type, n) = addNewTransaction(u, a, type, n)
  BY DEF Req!addNewTransaction, addNewTransaction, Req!StoreTransaction, StoreTransaction
<1>3. \A m : Req!Move(user, a, m) = Move(user, a, m)
  BY DEF Req!Move, Move
<1> QED
  BY <1>1, <1>2, <1>3 DEF Req!MakeTransaction, MakeTransaction

LEMMA AccountOfIs ==
  ASSUME NEW x
  PROVE  /\ IsAccount(AccountOf(x)) /\ AccountOf(x).type = Req!Kind
         /\ AccountOf(x).balance = x.balance /\ AccountOf(x).keys = KeysOf(x)
  BY DEF AccountOf, IsAccount

LEMMA SameAccount ==
  ASSUME NEW x, NEW y, IsAccount(x), IsAccount(y), x.type = y.type,
         x.balance = y.balance, x.keys = y.keys
  PROVE  x = y
<1>1. \A f \in {"type", "balance", "keys"} : x[f] = y[f]
  OBVIOUS
<1> QED
  BY <1>1 DEF IsAccount

SameFields(u, v) ==
  /\ IsRecord(u) /\ IsRecord(v) /\ u.lists = v.lists /\ u.total = v.total
  /\ u.transactions = v.transactions
  /\ \A a \in Accounts : u.accounts[a] = v.accounts[a]

LEMMA SameLedger ==
  ASSUME NEW u, NEW v, SameFields(u, v)
  PROVE  u = v
  BY SameRecord DEF SameFields

HasBooks(u, w) ==
  /\ IsRecord(u) /\ u.lists = [t \in {"CHECKING"} |-> w.list]
  /\ u.transactions = Listed(w.number, w.all)
LedgerAs(u, w) ==
  /\ HasBooks(u, w) /\ u.total = w.total
  /\ \A a \in Accounts : u.accounts[a] = AccountIn(w, a) /\ IsAccount(AccountIn(w, a))

LEMMA LedgerInIs ==
  ASSUME NEW w
  PROVE  LedgerAs(LedgerIn(w), w)
<1>1. \A a : IsAccount(AccountIn(w, a))
  <2>1. IsAccount(Req!NoAccount)
    BY DEF Req!NoAccount, IsAccount
  <2> QED
    BY <2>1, AccountOfIs DEF AccountIn
<1> QED
  BY <1>1 DEF LedgerIn, IsRecord, LedgerAs, HasBooks

LEMMA LedgersAre ==
  ASSUME NEW u, NEW w, LedgerAs(u, w), NEW v, LedgerAs(v, w)
  PROVE  u = v
<1>1. SameFields(u, v)
  BY DEF LedgerAs, HasBooks, SameFields
<1> QED
  BY <1>1, SameLedger

LEMMA ListedIs ==
  ASSUME NEW n \in Nat, NEW f, f \in [DOMAIN f -> Transaction]
  PROVE  /\ Listed(n, f) \in Seq(Transaction) /\ Len(Listed(n, f)) = n
         /\ n \in DOMAIN f => Listed(n + 1, f) = Append(Listed(n, f), f[n])
<1>1. Req!NoTransaction \in Transaction
  BY DEF Req!NoTransaction, Transaction, TransactionType
<1>2. \A m \in Nat : Listed(m, f) \in [1 .. m -> Transaction]
  BY <1>1 DEF Listed
<1>3. \A m \in Nat : Listed(m, f) \in Seq(Transaction) /\ Len(Listed(m, f)) = m
  BY <1>2, LenProperties
<1>4. ASSUME n \in DOMAIN f
      PROVE  Listed(n + 1, f) = Append(Listed(n, f), f[n])
  <2>1. f[n] \in Transaction
    BY <1>4
  <2>2. /\ Append(Listed(n, f), f[n]) \in Seq(Transaction)
        /\ Len(Append(Listed(n, f), f[n])) = n + 1
        /\ \A i \in 1 .. n : Append(Listed(n, f), f[n])[i] = Listed(n, f)[i]
        /\ Append(Listed(n, f), f[n])[n + 1] = f[n]
    BY <1>3, <2>1, AppendProperties
  <2>3. \A i \in 1 .. n : Listed(n + 1, f)[i] = Listed(n, f)[i]
    BY DEF Listed
  <2>4. Listed(n + 1, f)[n + 1] = f[n]
    BY <1>4 DEF Listed
  <2>5. Listed(n + 1, f) \in Seq(Transaction) /\ Len(Listed(n + 1, f)) = n + 1
    BY <1>3
  <2>6. \A i \in 1 .. n + 1 : Listed(n + 1, f)[i] = Append(Listed(n, f), f[n])[i]
    BY <2>2, <2>3, <2>4
  <2> QED
    BY <2>2, <2>5, <2>6, SeqEqual
<1> QED
  BY <1>3, <1>4

(* What is put under the next number is not listed yet.                    *)
LEMMA PutAside ==
  ASSUME NEW n \in Nat, NEW f, NEW t
  PROVE  LET g == [i \in DOMAIN f \cup {n} |-> IF i = n THEN t ELSE f[i]]
         IN  Listed(n, g) = Listed(n, f) /\ n \in DOMAIN g /\ g[n] = t
<1> DEFINE g == [i \in DOMAIN f \cup {n} |-> IF i = n THEN t ELSE f[i]]
<1>1. \A i \in 1 .. n : i - 1 # n
  OBVIOUS
<1>2. \A i \in 1 .. n : i - 1 \in DOMAIN g <=> i - 1 \in DOMAIN f
  BY <1>1
<1>3. \A i \in 1 .. n : i - 1 \in DOMAIN f => g[i - 1] = f[i - 1]
  BY <1>1
<1>4. Listed(n, g) = Listed(n, f)
  BY <1>2, <1>3 DEF Listed
<1> QED
  BY <1>4

LEMMA KeysAre ==
  ASSUME NEW x \in BankObject, x.size <= Len(x.keys)
  PROVE  KeysOf(x) \in Seq(Nat) /\ Len(KeysOf(x)) = x.size
<1>1. x.keys \in Seq(Nat) /\ x.size \in Nat /\ Len(x.keys) \in Nat
  BY LenProperties DEF BankObject
<1>2. \A i \in 1 .. x.size : x.keys[i] \in Nat
  <2> TAKE i \in 1 .. x.size
  <2>1. i \in 1 .. Len(x.keys)
    BY <1>1
  <2> QED
    BY <1>1, <2>1, ElementOfSeq
<1> PICK n, s : n = x.size /\ s = KeysOf(x)
  OBVIOUS
<1>3. n \in Nat /\ s \in [1 .. n -> Nat]
  BY <1>1, <1>2 DEF KeysOf
<1> QED
  BY <1>3, LenProperties

LEMMA AppendIs ==
  ASSUME NEW S, NEW s \in Seq(S), NEW e \in S, NEW t \in Seq(S), Len(t) = Len(s) + 1,
         \A i \in 1 .. Len(s) : t[i] = s[i], t[Len(s) + 1] = e
  PROVE  t = Append(s, e)
<1> PICK n, r : n = Len(s) /\ r = Append(s, e)
  OBVIOUS
<1>1. /\ n \in Nat /\ r \in Seq(S) /\ Len(r) = n + 1
      /\ \A i \in 1 .. n : r[i] = s[i]
      /\ r[n + 1] = e
  BY AppendProperties, LenProperties
<1>2. \A i \in 1 .. n + 1 : i \in 1 .. n \/ i = n + 1
  BY <1>1
<1>3. \A i \in 1 .. n + 1 : t[i] = r[i]
  BY <1>1, <1>2
<1> QED
  BY <1>1, <1>3, SeqEqual

LEMMA PutAt ==
  ASSUME NEW k \in Seq(Nat), NEW n \in Nat, n <= Len(k), NEW key, key \in Nat, NEW l,
         l = IF n < Len(k) THEN [k EXCEPT ![n + 1] = key] ELSE Append(k, key)
  PROVE  l[n + 1] = key /\ \A i \in 1 .. n : l[i] = k[i]
<1>1. Len(k) \in Nat
  BY LenProperties
<1>2. CASE n < Len(k)
  <2>1. n + 1 \in 1 .. Len(k) /\ \A i \in 1 .. n : i \in 1 .. Len(k) /\ i # n + 1
    BY <1>1, <1>2
  <2>2. DOMAIN k = 1 .. Len(k) /\ l = [k EXCEPT ![n + 1] = key]
    BY <1>2, LenProperties
  <2> QED
    BY <2>1, <2>2, Zenon
<1>3. CASE ~(n < Len(k))
  <2>1. l = Append(k, key) /\ n = Len(k)
    BY <1>1, <1>3
  <2> QED
    BY <1>1, <2>1, AppendProperties
<1> QED
  BY <1>2, <1>3

LEMMA KeysMore ==
  ASSUME NEW x \in BankObject, x.size <= Len(x.keys), NEW key \in Nat, NEW y,
         y = Req!Add(x, x.size, key)
  PROVE  KeysOf(y) = Append(KeysOf(x), key + 1) /\ y.balance = x.balance
<1> PICK n, k : n = x.size /\ k = x.keys
  OBVIOUS
<1>1. k \in Seq(Nat) /\ n \in Nat /\ Len(k) \in Nat /\ n <= Len(k)
  BY LenProperties DEF BankObject
<1>2. PICK l : l = IF n < Len(k) THEN [k EXCEPT ![n + 1] = key] ELSE Append(k, key)
  OBVIOUS
<1>3. y.keys = l /\ y.size = n + 1 /\ y.balance = x.balance
  <2>1. y = [[x EXCEPT !.size = n + 1] EXCEPT !.keys = l]
    BY <1>2 DEF Req!Add, BankObject
  <2> QED
    BY <2>1 DEF BankObject
<1>11. l[n + 1] = key /\ \A i \in 1 .. n : l[i] = k[i]
  BY <1>1, <1>2, PutAt
<1>4. KeysOf(x) \in Seq(Nat) /\ Len(KeysOf(x)) = n
  BY KeysAre
<1>5. y \in BankObject /\ y.size <= Len(y.keys)
  <2>1. n \in 0 .. Len(k)
    BY <1>1
  <2> QED
    BY <2>1, AddTyped
<1>6. KeysOf(y) \in Seq(Nat) /\ Len(KeysOf(y)) = n + 1
  BY <1>3, <1>5, KeysAre
<1> PICK s, r : s = KeysOf(x) /\ r = KeysOf(y)
  OBVIOUS
<1>7. s \in Seq(Nat) /\ Len(s) = n /\ r \in Seq(Nat) /\ Len(r) = n + 1 /\ key + 1 \in Nat
  BY <1>4, <1>6
<1>8. /\ \A i \in 1 .. n : s[i] = k[i] + 1
      /\ \A i \in 1 .. n + 1 : r[i] = l[i] + 1
  BY <1>3 DEF KeysOf
<1>9. (\A i \in 1 .. n : i \in 1 .. n + 1) /\ n + 1 \in 1 .. n + 1
  BY <1>1
<1>10. (\A i \in 1 .. n : r[i] = s[i]) /\ r[n + 1] = key + 1
  <2>1. \A i \in 1 .. n : r[i] = l[i] + 1
    BY <1>8, <1>9
  <2>2. \A i \in 1 .. n : r[i] = k[i] + 1
    BY <1>11, <2>1
  <2>3. r[n + 1] = l[n + 1] + 1
    BY <1>8, <1>9
  <2> QED
    BY <1>8, <1>11, <2>2, <2>3
<1>12. r = Append(s, key + 1)
  BY <1>7, <1>10, AppendIs
<1> QED
  BY <1>3, <1>12

-----------------------------------------------------------------------------
(* Each step of a leg, on the books in one record.                         *)
SameLegs(p, q) == p.legs = q.legs /\ p.opens = q.opens /\ p.name = q.name

LEMMA SameLegsAre ==
  ASSUME NEW q, NEW p, SameLegs(p, q), NEW w, NEW acc
  PROVE  /\ Owing(p) = Owing(q) /\ ObjectAt(w, p) = ObjectAt(w, q)
         /\ MakesRecord(p, acc) = MakesRecord(q, acc) /\ p.opens = q.opens
  BY Zenon DEF SameLegs, Owing, ObjectAt, MakesRecord

LEMMA SameLegsLead ==
  ASSUME NEW q, NEW p, SameLegs(p, q), NEW w, NEW d, NEW a, NEW result,
         Leads(w, q, d, a, result)
  PROVE  Leads(w, p, d, a, result)
<1>1. p.legs = q.legs /\ p.opens = q.opens
  BY DEF SameLegs
<1> QED
  BY <1>1, Zenon DEF Leads, OneLeg

(* It looks at something.                                                  *)
LooksAt(w, q, p) ==
  /\ SameLegs(p, q)
  /\ \/ /\ q.pc = "check" /\ p.pc = "balance"
        /\ Req!Covers(ObjectAt(w, q).balance, -Owing(q))
     \/ /\ q.pc = "balance" /\ p.pc = "set balance"
        /\ p.seen = ObjectAt(w, q).balance
     \/ q.pc = "total" /\ p.pc = "set total" /\ p.seen = w.total
     \/ /\ q.pc = "new" /\ p.pc = "log"
        /\ p.t = [type |-> q.legs[1].type, amount |-> q.legs[1].amount,
                  result |-> ObjectAt(w, q).balance]
     \/ q.pc = "log" /\ p.pc = "number" /\ p.t = q.t
     \/ q.pc = "number" /\ p.pc = "put" /\ p.t = q.t /\ p.seen = w.number
     \/ q.pc = "count" /\ p.pc = "set count" /\ p.seen = w.number
     \/ q.pc = "return" /\ p.pc = "size" /\ p.index = w.number - 1
     \/ /\ q.pc = "size" /\ p.pc = "key" /\ p.index = q.index
        /\ p.seen = ObjectAt(w, q).size

LEMMA LooksToward ==
  ASSUME NEW w, NEW q, NEW p, LooksAt(w, q, p), NEW d, NEW a, Toward(w, q, d, a)
  PROVE  Toward(w, p, d, a)
<1> PICK x, acc, t : /\ x = ObjectAt(w, q) /\ acc = d.accounts[a]
                     /\ t = MakesRecord(q, acc)
  OBVIOUS
<1>1. /\ BalanceDue(q, x, acc) /\ TotalDue(q, w.total, d.total)
      /\ RecordDue(q, w.number, w.all, d.transactions, t)
      /\ KeyDue(q, x, acc, d.transactions) /\ Apart(w, q, d, a)
      /\ IsRecord(d) /\ IsAccount(acc)
  BY Zenon DEF Toward
<1>2. /\ Owing(p) = Owing(q) /\ ObjectAt(w, p) = x /\ MakesRecord(p, acc) = t
      /\ Apart(w, p, d, a) /\ p.opens = q.opens
  <2>1. SameLegs(p, q)
    BY DEF LooksAt
  <2>2. Apart(w, p, d, a)
    BY <1>1, <2>1, Zenon DEF SameLegs, Apart
  <2> QED
    BY <2>1, <2>2, SameLegsAre, Zenon
<1>3. BalanceDue(p, x, acc)
  BY <1>1, <1>2 DEF BalanceDue, LooksAt, UntilBalance
<1>4. TotalDue(p, w.total, d.total)
  BY <1>1, <1>2 DEF TotalDue, LooksAt, UntilTotal, UntilBalance
<1>5. RecordDue(p, w.number, w.all, d.transactions, t)
  <2>1. q.pc = "new" => p.t = t
    <3>1. q.pc = "new" => acc.balance = x.balance
      BY <1>1 DEF BalanceDue, UntilBalance
    <3> QED
      BY <3>1 DEF LooksAt, MakesRecord
  <2> QED
    BY <1>1, <2>1 DEF RecordDue, LooksAt, Numbered
<1>6. KeyDue(p, x, acc, d.transactions)
  BY <1>1 DEF KeyDue, LooksAt
<1> QED
  BY <1>1, <1>2, <1>3, <1>4, <1>5, <1>6, Zenon DEF Toward

(* It sets the balance.                                                    *)
Beside(o, w, v) ==
  \A i \in 1 .. Len(w.objects) : i # o => v.objects[i] = w.objects[i]

LEMMA StillApart ==
  ASSUME NEW w, ViewTyped(w), NEW v, v.accounts = w.accounts, v.list = w.list,
         NEW q, NEW p, SameLegs(p, q), Beside(q.legs[1].obj, w, v),
         NEW d, NEW a, Apart(w, q, d, a)
  PROVE  Apart(v, p, d, a)
<1>1. ASSUME NEW b \in Accounts \ {a}
      PROVE  AccountIn(v, b) = AccountIn(w, b)
  <2>1. w.accounts[b] # q.legs[1].obj
    BY DEF Apart
  <2>2. w.accounts[b] \in 0 .. Len(w.objects) /\ Len(w.objects) \in Nat
    BY LenProperties DEF ViewTyped, ObjectsTyped
  <2>3. w.accounts[b] # 0 => v.objects[w.accounts[b]] = w.objects[w.accounts[b]]
    BY <2>1, <2>2 DEF Beside
  <2> QED
    BY <2>3 DEF AccountIn
<1> QED
  BY <1>1 DEF Apart, SameLegs

SetsBalance(w, v, q, p) ==
  /\ q.pc = "set balance" /\ p.pc = "total" /\ SameLegs(p, q)
  /\ v.accounts = w.accounts /\ v.list = w.list /\ v.total = w.total
  /\ v.number = w.number /\ v.all = w.all
  /\ v.objects = [w.objects EXCEPT ![q.legs[1].obj].balance =
                                     Req!Float(q.seen + Owing(q))]

LEMMA BalanceToward ==
  ASSUME NEW w, ViewTyped(w), NEW v, NEW q, NEW p, SetsBalance(w, v, q, p),
         q.legs[1].obj \in 1 .. Len(w.objects), NEW d, NEW a, Toward(w, q, d, a)
  PROVE  Toward(v, p, d, a)
<1> PICK o, x, y, acc, t :
      /\ o = q.legs[1].obj /\ x = ObjectAt(w, q) /\ y = ObjectAt(v, q)
      /\ acc = d.accounts[a] /\ t = MakesRecord(q, acc)
  OBVIOUS
<1>1. /\ BalanceDue(q, x, acc) /\ TotalDue(q, w.total, d.total)
      /\ RecordDue(q, w.number, w.all, d.transactions, t)
      /\ KeyDue(q, x, acc, d.transactions) /\ Apart(w, q, d, a)
      /\ IsRecord(d) /\ IsAccount(acc)
  BY Zenon DEF Toward
<1>2. /\ Owing(p) = Owing(q) /\ ObjectAt(v, p) = y /\ MakesRecord(p, acc) = t
      /\ p.opens = q.opens
  <2>1. SameLegs(p, q)
    BY DEF SetsBalance
  <2> QED
    BY <2>1, SameLegsAre, Zenon
<1>3. x \in BankObject /\ x = w.objects[o] /\ DOMAIN w.objects = 1 .. Len(w.objects)
  BY ObjectIs DEF ViewTyped, ObjectAt
<1>4. q.seen = x.balance /\ acc.balance = x.balance + Owing(q) /\ acc.balance \in Near
  BY <1>1 DEF BalanceDue, SetsBalance, UntilBalance
<1>5. /\ y = [x EXCEPT !.balance = acc.balance]
      /\ \A i \in 1 .. Len(w.objects) : i # o => v.objects[i] = w.objects[i]
  <2>1. Req!Float(q.seen + Owing(q)) = acc.balance
    BY <1>4, KindIs
  <2>2. v.objects = [w.objects EXCEPT ![o].balance = acc.balance]
    BY <2>1 DEF SetsBalance
  <2> QED
    BY <1>3, <2>2 DEF ObjectAt
<1>6. y.balance = acc.balance /\ y.size = x.size /\ y.keys = x.keys
  BY <1>3, <1>5 DEF BankObject
<1>7. KeysOf(y) = KeysOf(x)
  BY <1>6 DEF KeysOf
<1>8. BalanceDue(p, y, acc)
  BY <1>1, <1>2, <1>6 DEF BalanceDue, SetsBalance, UntilBalance
<1>9. TotalDue(p, v.total, d.total)
  BY <1>1, <1>2 DEF TotalDue, SetsBalance, UntilTotal, UntilBalance
<1>10. RecordDue(p, v.number, v.all, d.transactions, t)
  BY <1>1 DEF RecordDue, SetsBalance, Numbered
<1>11. KeyDue(p, y, acc, d.transactions)
  BY <1>1, <1>7 DEF KeyDue, SetsBalance
<1>12. Apart(v, p, d, a)
  BY <1>1, <1>5, StillApart DEF SetsBalance, Beside
<1> QED
  BY <1>1, <1>2, <1>8, <1>9, <1>10, <1>11, <1>12, Zenon DEF Toward

(* It sets the total, the transaction under its number, the number.        *)
Sets(w, v, q, p) ==
  /\ SameLegs(p, q) /\ v.objects = w.objects /\ v.accounts = w.accounts /\ v.list = w.list
  /\ \/ /\ q.pc = "set total" /\ p.pc = (IF q.opens THEN "ends" ELSE "new")
        /\ v.number = w.number /\ v.all = w.all
        /\ v.total = Req!Float(q.seen + Owing(q))
     \/ /\ q.pc = "put" /\ p.pc = "count" /\ v.total = w.total /\ v.number = w.number
        /\ v.all = [i \in DOMAIN w.all \cup {q.seen} |->
                      IF i = q.seen THEN q.t ELSE w.all[i]]
     \/ /\ q.pc = "set count" /\ p.pc = "return" /\ v.total = w.total /\ v.all = w.all
        /\ v.number = q.seen + 1

LEMMA SetsRecord ==
  ASSUME NEW w, ViewTyped(w), NEW v, NEW q, NEW p, Sets(w, v, q, p), NEW due, NEW t,
         RecordDue(q, w.number, w.all, due, t)
  PROVE  RecordDue(p, v.number, v.all, due, t)
<1> PICK n, f, m, g : n = w.number /\ f = w.all /\ m = v.number /\ g = v.all
  OBVIOUS
<1>1. n \in Nat /\ f \in [DOMAIN f -> Transaction]
  BY DEF ViewTyped
<1>2. CASE q.pc = "set total"
  <2>1. p.pc \in {"new", "ends"} /\ m = n /\ g = f /\ q.pc = "set total"
    BY <1>2 DEF Sets
  <2> QED
    BY <2>1 DEF RecordDue, Numbered
<1>3. CASE q.pc = "put"
  <2>1. q.t = t /\ q.seen = n /\ due = Append(Listed(n, f), t)
    BY <1>3 DEF RecordDue, Numbered
  <2>2. /\ p.pc = "count" /\ m = n
        /\ g = [i \in DOMAIN f \cup {n} |-> IF i = n THEN t ELSE f[i]]
    BY <1>3, <2>1 DEF Sets
  <2>3. Listed(n, g) = Listed(n, f) /\ n \in DOMAIN g /\ g[n] = t
    BY <1>1, <2>2, PutAside
  <2> QED
    BY <2>1, <2>2, <2>3 DEF RecordDue, Numbered
<1>4. CASE q.pc = "set count"
  <2>1. q.seen = n /\ n \in DOMAIN f /\ f[n] = t /\ due = Append(Listed(n, f), t)
    BY <1>4 DEF RecordDue, Numbered
  <2>2. p.pc = "return" /\ m = n + 1 /\ g = f
    BY <1>4, <2>1 DEF Sets
  <2>3. due = Listed(m, g)
    BY <1>1, <2>1, <2>2, ListedIs
  <2> QED
    BY <2>2, <2>3 DEF RecordDue, Numbered
<1> QED
  BY <1>2, <1>3, <1>4 DEF Sets

LEMMA SetsToward ==
  ASSUME NEW w, ViewTyped(w), NEW v, NEW q, NEW p, Sets(w, v, q, p),
         NEW d, NEW a, Toward(w, q, d, a)
  PROVE  Toward(v, p, d, a)
<1> PICK x, acc, t : /\ x = ObjectAt(w, q) /\ acc = d.accounts[a]
                     /\ t = MakesRecord(q, acc)
  OBVIOUS
<1>1. /\ BalanceDue(q, x, acc) /\ TotalDue(q, w.total, d.total)
      /\ RecordDue(q, w.number, w.all, d.transactions, t)
      /\ KeyDue(q, x, acc, d.transactions) /\ Apart(w, q, d, a)
      /\ IsRecord(d) /\ IsAccount(acc)
  BY Zenon DEF Toward
<1>2. SameLegs(p, q) /\ v.objects = w.objects
  BY DEF Sets
<1>3. /\ Owing(p) = Owing(q) /\ ObjectAt(w, p) = x /\ MakesRecord(p, acc) = t
      /\ p.opens = q.opens
  BY <1>2, SameLegsAre, Zenon
<1>4. ObjectAt(v, p) = x
  BY <1>2, <1>3, Zenon DEF ObjectAt
<1>5. BalanceDue(p, x, acc)
  BY <1>1, <1>3 DEF BalanceDue, Sets, UntilBalance
<1>6. TotalDue(p, v.total, d.total)
  <2>1. CASE q.pc = "set total"
    <3>1. /\ q.seen = w.total /\ d.total = w.total + Owing(q) /\ d.total \in Near
          /\ ~q.opens
      BY <1>1, <2>1 DEF TotalDue, UntilTotal
    <3>2. v.total = d.total /\ p.pc = "new"
      BY <2>1, <3>1, KindIs DEF Sets
    <3> QED
      BY <1>3, <3>1, <3>2 DEF TotalDue, UntilTotal, UntilBalance
  <2>2. CASE q.pc # "set total"
    <3>1. v.total = w.total /\ q.pc \in {"put", "set count"} /\ p.pc \in {"count", "return"}
      BY <2>2 DEF Sets
    <3> QED
      BY <1>1, <1>3, <3>1 DEF TotalDue, UntilTotal, UntilBalance
  <2> QED
    BY <2>1, <2>2
<1>7. RecordDue(p, v.number, v.all, d.transactions, t)
  BY <1>1, SetsRecord
<1>8. KeyDue(p, x, acc, d.transactions)
  BY <1>1 DEF KeyDue, Sets
<1>9. Apart(v, p, d, a)
  BY <1>1, <1>2, StillApart DEF Sets, Beside
<1> QED
  BY <1>1, <1>3, <1>4, <1>5, <1>6, <1>7, <1>8, <1>9, Zenon DEF Toward

(* It adds the key: then it is there.                                      *)
AddsKey(w, v, q) ==
  /\ q.pc = "key" /\ v.accounts = w.accounts /\ v.list = w.list /\ v.total = w.total
  /\ v.number = w.number /\ v.all = w.all
  /\ v.objects = [w.objects EXCEPT ![q.legs[1].obj] = Req!Add(@, q.seen, q.index)]

WithAs(u, w, q, acc) ==
  /\ HasBooks(u, w) /\ u.total = w.total + q.legs[1].amount /\ u.accounts[q.name] = acc
  /\ \A b \in Accounts \ {q.name} : u.accounts[b] = AccountIn(w, b)

LEMMA WithIs ==
  ASSUME NEW w, NEW q, q.name \in Accounts, NEW acc
  PROVE  WithAs(With(LedgerIn(w), q, acc), w, q, acc)
<1> PICK u, a, n : u = LedgerIn(w) /\ a = q.name /\ n = q.legs[1].amount
  OBVIOUS
<1>1. LedgerAs(u, w)
  BY LedgerInIs
<1> PICK m : m = [u EXCEPT !.total = @ + n, !.accounts[a] = acc]
  OBVIOUS
<1>2. /\ IsRecord(m) /\ m.lists = u.lists /\ m.total = u.total + n
      /\ m.transactions = u.transactions /\ m.accounts[a] = acc
      /\ \A b \in Accounts \ {a} : m.accounts[b] = u.accounts[b]
  <2>1. IsRecord(u)
    BY <1>1 DEF LedgerAs, HasBooks
  <2> QED
    BY <2>1 DEF IsRecord
<1>3. With(LedgerIn(w), q, acc) = m
  BY DEF With
<1>4. WithAs(m, w, q, acc)
  BY <1>1, <1>2 DEF WithAs, LedgerAs, HasBooks
<1> QED
  BY <1>3, <1>4

LEMMA WithAre ==
  ASSUME NEW w, NEW q, q.name \in Accounts, NEW acc, NEW u, WithAs(u, w, q, acc),
         NEW v, WithAs(v, w, q, acc)
  PROVE  u = v
<1>1. \A a \in Accounts : u.accounts[a] = v.accounts[a]
  BY DEF WithAs
<1>2. SameFields(u, v)
  BY <1>1 DEF WithAs, HasBooks, SameFields
<1> QED
  BY <1>2, SameLedger

LEMMA LegEnds ==
  ASSUME NEW w, ViewTyped(w), NEW v, NEW q, AddsKey(w, v, q), q.index \in Nat,
         q.legs[1].obj \in 1 .. Len(w.objects), NEW d, NEW a \in Accounts,
         Toward(w, q, d, a)
  PROVE  d = IF q.opens THEN With(LedgerIn(v), q, AccountOf(ObjectAt(v, q)))
                        ELSE LedgerIn(v)
<1> PICK o, x, y, acc, t :
      /\ o = q.legs[1].obj /\ x = ObjectAt(w, q) /\ y = ObjectAt(v, q)
      /\ acc = d.accounts[a] /\ t = MakesRecord(q, acc)
  OBVIOUS
<1>1. /\ BalanceDue(q, x, acc) /\ TotalDue(q, w.total, d.total)
      /\ RecordDue(q, w.number, w.all, d.transactions, t)
      /\ KeyDue(q, x, acc, d.transactions) /\ Apart(w, q, d, a)
      /\ IsRecord(d) /\ IsAccount(acc)
  BY Zenon DEF Toward
<1>2. /\ x \in BankObject /\ x = w.objects[o] /\ DOMAIN w.objects = 1 .. Len(w.objects)
      /\ x.size <= Len(x.keys)
  BY ObjectIs DEF ViewTyped, ObjectAt
<1>3. /\ d.transactions = Listed(w.number, w.all) /\ q.index = w.number - 1
      /\ q.seen = x.size /\ w.number \in Nat
  BY <1>1 DEF RecordDue, KeyDue, AddsKey, Numbered, ViewTyped
<1>4. Len(d.transactions) = q.index + 1
  <2>1. w.all \in [DOMAIN w.all -> Transaction]
    BY DEF ViewTyped
  <2>2. Len(Listed(w.number, w.all)) = w.number
    BY <1>3, <2>1, ListedIs, Zenon
  <2> QED
    BY <1>3, <2>2
<1>5. /\ y = Req!Add(x, x.size, q.index)
      /\ \A i \in 1 .. Len(w.objects) : i # o => v.objects[i] = w.objects[i]
  <2> PICK z : z = Req!Add(x, x.size, q.index)
    OBVIOUS
  <2>1. v.objects = [w.objects EXCEPT ![o] = z]
    BY <1>2, <1>3 DEF AddsKey
  <2>2. y = v.objects[o]
    BY DEF ObjectAt
  <2> QED
    BY <1>2, <2>1, <2>2, Zenon
<1>6. KeysOf(y) = Append(KeysOf(x), q.index + 1) /\ y.balance = x.balance
  BY <1>2, <1>5, KeysMore, Zenon
<1>7. acc = AccountOf(y)
  <2>1. /\ acc.type = Req!Kind /\ acc.balance = y.balance
        /\ acc.keys = KeysOf(y)
    BY <1>1, <1>4, <1>6 DEF BalanceDue, KeyDue, AddsKey, UntilBalance
  <2> QED
    BY <1>1, <2>1, AccountOfIs, SameAccount
<1>8. Apart(v, q, d, a)
  BY <1>1, <1>5, StillApart DEF AddsKey, Beside, SameLegs
<1>9. HasBooks(d, v) /\ \A b \in Accounts \ {a} : d.accounts[b] = AccountIn(v, b)
  BY <1>1, <1>3, <1>8 DEF Apart, AddsKey, HasBooks
<1>10. CASE q.opens
  <2>1. q.name = a /\ q.legs[1].type = "DEPOSIT"
    BY <1>8, <1>10 DEF Apart
  <2>2. d.total = v.total + q.legs[1].amount
    BY <1>1, <1>10, <2>1 DEF TotalDue, AddsKey, Owing, Req!By, Req!Change
  <2>3. WithAs(d, v, q, AccountOf(y))
    BY <1>7, <1>9, <2>1, <2>2 DEF WithAs
  <2>4. d = With(LedgerIn(v), q, AccountOf(y))
    BY <2>1, <2>3, WithIs, WithAre
  <2> QED
    BY <1>10, <2>4
<1>11. CASE ~q.opens
  <2>1. v.accounts[a] = o /\ o # 0
    BY <1>2, <1>8, <1>11 DEF Apart
  <2>2. d.accounts[a] = AccountIn(v, a)
    BY <1>7, <2>1 DEF AccountIn, ObjectAt
  <2>3. d.total = v.total
    BY <1>1, <1>11 DEF TotalDue, AddsKey, UntilTotal, UntilBalance
  <2>4. \A b \in Accounts : d.accounts[b] = AccountIn(v, b)
    BY <1>9, <2>2
  <2>5. \A b \in Accounts : IsAccount(AccountIn(v, b))
    BY LedgerInIs DEF LedgerAs
  <2>6. LedgerAs(d, v)
    BY <1>9, <2>3, <2>4, <2>5, Zenon DEF LedgerAs
  <2> QED
    BY <1>11, <2>6, LedgerInIs, LedgersAre
<1> QED
  BY <1>10, <1>11

(* A leg begins: the ledger it is on its way to is what MakeTransaction    *)
(* makes of the present one.                                               *)
BeginsAt(w, q, a) ==
  /\ ~q.opens /\ q.pc = Req!Entry(q.legs[1])
  /\ q.legs[1].obj = w.accounts[a] /\ w.accounts[a] # 0
  /\ \A b \in Accounts : w.accounts[b] = w.accounts[a] => b = a
  /\ q.pc = "check" => Req!Covers(ObjectAt(w, q).balance, -Owing(q))

Makes(d, u, q, a) == d = Req!MakeTransaction(u, a, q.legs[1].type, q.legs[1].amount)

MadeFrom(d, w, q, a) ==
  LET x   == ObjectAt(w, q)
      acc == d.accounts[a]
  IN  /\ IsRecord(d) /\ IsAccount(acc) /\ acc.type = Req!Kind
      /\ d.total = w.total + Owing(q) /\ acc.balance = x.balance + Owing(q)
      /\ d.transactions = Append(Listed(w.number, w.all), MakesRecord(q, acc))
      /\ acc.keys = Append(KeysOf(x), Len(d.transactions))
      /\ d.lists = [t \in {"CHECKING"} |-> w.list]
      /\ \A b \in Accounts \ {a} : d.accounts[b] = AccountIn(w, b)
      /\ Owing(q) \in Int /\ x.balance \in Int /\ w.total \in Int

LEMMA MakesAs ==
  ASSUME NEW w, ViewTyped(w), NEW a \in Accounts, w.accounts[a] # 0, NEW u, LedgerAs(u, w),
         NEW q, q.legs[1].type \in TransactionType, q.legs[1].amount \in Int,
         q.legs[1].obj = w.accounts[a], NEW d, Makes(d, u, q, a)
  PROVE  MadeFrom(d, w, q, a)
<1> PICK type, n, x, old : /\ type = q.legs[1].type /\ n = q.legs[1].amount
                           /\ x = ObjectAt(w, q) /\ old = u.accounts[a]
  OBVIOUS
<1>1. /\ IsRecord(u) /\ u.lists = [t \in {"CHECKING"} |-> w.list]
      /\ u.transactions = Listed(w.number, w.all) /\ u.total = w.total
      /\ \A b \in Accounts : u.accounts[b] = AccountIn(w, b) /\ IsAccount(AccountIn(w, b))
  BY Zenon DEF LedgerAs, HasBooks
<1>2. old = AccountOf(x)
  <2>1. AccountIn(w, a) = AccountOf(x)
    BY DEF AccountIn, ObjectAt
  <2> QED
    BY <1>1, <2>1
<1>3. IsAccount(old) /\ old.type = Req!Kind /\ old.balance = x.balance /\ old.keys = KeysOf(x)
  BY <1>2, AccountOfIs
<1>4. d = MakeTransaction(u, a, type, n) /\ Owing(q) = Change(type, n)
  BY SameMethods, Zenon DEF Makes, Owing, Req!By
<1>5. Changes(d, u, a, type, n)
  <2>1. IsAccount(u.accounts[a])
    BY <1>3
  <2> QED
    BY <1>1, <1>4, <2>1, TransactionDoes
<1>6. Owing(q) \in Int
  BY <1>4 DEF Change
<1>7. x.balance \in Int /\ w.total \in Int
  <2>1. w.accounts[a] \in 1 .. Len(w.objects)
    BY LenProperties DEF ViewTyped, ObjectsTyped
  <2> QED
    BY <2>1, ObjectIs DEF ViewTyped, ObjectAt
<1> PICK acc, t, change :
      /\ acc = d.accounts[a] /\ change = Change(type, n)
      /\ t = [type |-> type, amount |-> n, result |-> acc.balance]
  OBVIOUS
<1>8. /\ Kept(d, u, a) /\ d.total = u.total + change
      /\ d.transactions = Append(u.transactions, t)
      /\ acc.balance = old.balance + change
      /\ acc.keys = Append(old.keys, Len(d.transactions))
  BY <1>5 DEF Changes
<1>9. /\ IsRecord(d) /\ d.lists = u.lists /\ IsAccount(acc) /\ acc.type = old.type
      /\ \A b \in Accounts \ {a} : d.accounts[b] = u.accounts[b]
  BY <1>8 DEF Kept
<1>10. t = MakesRecord(q, acc)
  BY DEF MakesRecord
<1>11. \A b \in Accounts \ {a} : d.accounts[b] = AccountIn(w, b)
  BY <1>1, <1>9
<1> QED
  BY <1>1, <1>3, <1>4, <1>6, <1>7, <1>8, <1>9, <1>10, <1>11 DEF MadeFrom

LEMMA LegBegins ==
  ASSUME NEW w, ViewTyped(w), NEW q, NEW a \in Accounts, BeginsAt(w, q, a),
         q.legs[1].type \in TransactionType, q.legs[1].amount \in Int,
         NEW u, LedgerAs(u, w), NEW d, Makes(d, u, q, a),
         d.total \in Near, d.accounts[a].balance \in Near
  PROVE  Toward(w, q, d, a)
<1> PICK x, acc, t : /\ x = ObjectAt(w, q) /\ acc = d.accounts[a]
                     /\ t = MakesRecord(q, acc)
  OBVIOUS
<1>1. w.accounts[a] # 0 /\ q.legs[1].obj = w.accounts[a] /\ ~q.opens
  BY DEF BeginsAt
<1>2. q.pc \in {"balance", "check"}
  BY DEF BeginsAt, Req!Entry
<1>3. MadeFrom(d, w, q, a)
  BY <1>1, MakesAs
<1>8. /\ IsRecord(d) /\ IsAccount(acc) /\ acc.type = Req!Kind
      /\ d.total = w.total + Owing(q) /\ acc.balance = x.balance + Owing(q)
      /\ d.transactions = Append(Listed(w.number, w.all), t)
      /\ acc.keys = Append(KeysOf(x), Len(d.transactions))
      /\ d.lists = [k \in {"CHECKING"} |-> w.list]
      /\ \A b \in Accounts \ {a} : d.accounts[b] = AccountIn(w, b)
  BY <1>3 DEF MadeFrom
<1>4. BalanceDue(q, x, acc)
  BY <1>2, <1>8 DEF BalanceDue, UntilBalance, BeginsAt
<1>5. TotalDue(q, w.total, d.total)
  BY <1>1, <1>2, <1>8 DEF TotalDue, UntilTotal, UntilBalance
<1>6. RecordDue(q, w.number, w.all, d.transactions, t) /\ KeyDue(q, x, acc, d.transactions)
  BY <1>2, <1>8 DEF RecordDue, KeyDue, Numbered
<1>7. Apart(w, q, d, a)
  <2>1. \A b \in Accounts \ {a} : w.accounts[b] # q.legs[1].obj
    BY <1>1 DEF BeginsAt
  <2> QED
    BY <1>1, <1>8, <2>1 DEF Apart
<1> QED
  BY <1>8, <1>4, <1>5, <1>6, <1>7, Zenon DEF Toward

-----------------------------------------------------------------------------
(* An account is opened: the name, the object, the account, the total.     *)
ListsName(w, v, q, p) ==
  /\ q.pc = "list" /\ p.pc = "create" /\ SameLegs(p, q)
  /\ v.objects = w.objects /\ v.accounts = w.accounts /\ v.total = w.total
  /\ v.number = w.number /\ v.all = w.all /\ v.list = Append(w.list, q.name)

Creates(w, v, q, p) ==
  /\ q.pc = "create" /\ p.pc = (IF q.legs[1].amount > 0 THEN "new" ELSE "map")
  /\ p.opens = q.opens /\ p.name = q.name
  /\ p.legs[1] = [q.legs[1] EXCEPT !.obj = Len(w.objects) + 1]
  /\ v.accounts = w.accounts /\ v.total = w.total /\ v.list = w.list
  /\ v.number = w.number /\ v.all = w.all
  /\ v.objects = Append(w.objects, [balance |-> q.legs[1].amount, size |-> 0,
                                    keys |-> <<>>])

Maps(w, v, q, p) ==
  /\ q.pc = "map" /\ p.pc = "total" /\ SameLegs(p, q)
  /\ v.objects = w.objects /\ v.list = w.list /\ v.total = w.total
  /\ v.number = w.number /\ v.all = w.all
  /\ v.accounts = [w.accounts EXCEPT ![q.name] = q.legs[1].obj]

PutsList(v, u, l) == v = [u EXCEPT !.lists = l]
PutsAccount(v, u, a, acc, n) == v = [u EXCEPT !.total = @ + n, !.accounts[a] = acc]

LEMMA ListsAre ==
  ASSUME NEW u, IsRecord(u), NEW l, NEW v, PutsList(v, u, l)
  PROVE  /\ IsRecord(v) /\ v.lists = l /\ v.accounts = u.accounts
         /\ v.total = u.total /\ v.transactions = u.transactions
<1>1. /\ DOMAIN v = {"accounts", "lists", "total", "transactions"}
      /\ v = [f \in DOMAIN v |-> v[f]]
  BY DEF PutsList, IsRecord
<1>2. /\ v.lists = l /\ v.accounts = u.accounts
      /\ v.total = u.total /\ v.transactions = u.transactions
  BY DEF PutsList, IsRecord
<1>3. DOMAIN v.accounts = Accounts /\ v.accounts = [a \in Accounts |-> v.accounts[a]]
  BY <1>2, Zenon DEF IsRecord
<1> QED
  BY <1>1, <1>2, <1>3, Zenon DEF IsRecord

LEMMA AccountsAre ==
  ASSUME NEW u, IsRecord(u), NEW a \in Accounts, NEW acc, NEW n, NEW v,
         PutsAccount(v, u, a, acc, n)
  PROVE  /\ IsRecord(v) /\ v.lists = u.lists /\ v.total = u.total + n
         /\ v.transactions = u.transactions /\ v.accounts[a] = acc
         /\ \A b \in Accounts \ {a} : v.accounts[b] = u.accounts[b]
<1> PICK b, k : b = [u.accounts EXCEPT ![a] = acc] /\ k = u.total + n
  OBVIOUS
<1>1. /\ DOMAIN b = Accounts /\ b = [c \in Accounts |-> b[c]] /\ b[a] = acc
      /\ \A c \in Accounts \ {a} : b[c] = u.accounts[c]
  BY DEF IsRecord
<1>2. v = [[u EXCEPT !.accounts = b] EXCEPT !.total = k]
  BY DEF PutsAccount, IsRecord
<1>3. /\ DOMAIN v = {"accounts", "lists", "total", "transactions"}
      /\ v = [f \in DOMAIN v |-> v[f]]
      /\ v.accounts = b /\ v.lists = u.lists
      /\ v.total = k /\ v.transactions = u.transactions
  BY <1>2 DEF IsRecord
<1>4. IsRecord(v)
  BY <1>1, <1>3, Zenon DEF IsRecord
<1> QED
  BY <1>1, <1>3, <1>4

Opens(v, u, a, acc, n) ==
  v = [u EXCEPT !.lists["CHECKING"] = Append(@, a), !.accounts[a] = acc, !.total = @ + n]

HasList(u, names) == u.lists = [t \in {"CHECKING"} |-> names]

LEMMA OpenedIs ==
  ASSUME NEW u, IsRecord(u), NEW names, HasList(u, names), NEW a \in Accounts, NEW acc, NEW n,
         NEW v, Opens(v, u, a, acc, n)
  PROVE  /\ IsRecord(v) /\ HasList(v, Append(names, a))
         /\ v.total = u.total + n /\ v.transactions = u.transactions /\ v.accounts[a] = acc
         /\ \A b \in Accounts \ {a} : v.accounts[b] = u.accounts[b]
<1> PICK l : l = [t \in {"CHECKING"} |-> Append(names, a)]
  OBVIOUS
<1> PICK lists : PutsList(lists, u, l)
  BY DEF PutsList
<1>1. /\ IsRecord(lists) /\ lists.lists = l /\ lists.accounts = u.accounts
      /\ lists.total = u.total /\ lists.transactions = u.transactions
  BY ListsAre
<1>2. PutsAccount(v, lists, a, acc, n)
  <2>1. l = [u.lists EXCEPT !["CHECKING"] = Append(@, a)]
    BY DEF HasList
  <2>2. v = [u EXCEPT !.lists = l, !.accounts[a] = acc, !.total = @ + n]
    BY <2>1 DEF Opens, IsRecord
  <2> QED
    BY <2>2 DEF PutsAccount, PutsList, IsRecord
<1>3. /\ IsRecord(v) /\ v.lists = lists.lists /\ v.total = lists.total + n
      /\ v.transactions = lists.transactions /\ v.accounts[a] = acc
      /\ \A b \in Accounts \ {a} : v.accounts[b] = lists.accounts[b]
  BY <1>1, <1>2, AccountsAre
<1> QED
  BY <1>1, <1>3 DEF HasList

LEMMA ListsOpening ==
  ASSUME NEW w, NEW v, NEW q, NEW p, ListsName(w, v, q, p), q.name \in Accounts,
         NEW result, Opening(w, q, result)
  PROVE  Opening(v, p, result)
<1> PICK u, a, n, acc : /\ u = LedgerIn(w) /\ a = q.name /\ n = q.legs[1].amount
                        /\ acc = Empty(n)
  OBVIOUS
<1> PICK opened : Opens(opened, u, a, acc, n)
  BY DEF Opens
<1>1. LedgerAs(u, w)
  BY LedgerInIs
<1>2. /\ IsRecord(u) /\ HasList(u, w.list) /\ u.total = w.total
      /\ u.transactions = Listed(w.number, w.all)
      /\ \A b \in Accounts : u.accounts[b] = AccountIn(w, b)
  BY <1>1 DEF LedgerAs, HasBooks, HasList
<1>3. /\ IsRecord(opened) /\ HasList(opened, Append(w.list, a))
      /\ opened.total = u.total + n /\ opened.transactions = u.transactions
      /\ opened.accounts[a] = acc
      /\ \A b \in Accounts \ {a} : opened.accounts[b] = u.accounts[b]
  BY <1>2, OpenedIs
<1>4. result = Recording(opened, q)
  <2>1. result = Req!AddAccount(u, "CHECKING", a, n)
    BY KindIs DEF Opening, ListsName
  <2>2. acc = [type |-> "CHECKING", balance |-> n, keys |-> <<>>]
    BY KindIs DEF Empty
  <2> QED
    BY <2>1, <2>2 DEF Req!AddAccount, Recording, Opens
<1>5. ASSUME NEW b
      PROVE  AccountIn(v, b) = AccountIn(w, b)
  BY DEF AccountIn, ListsName
<1>6. WithAs(opened, v, q, acc)
  BY <1>2, <1>3, <1>5 DEF WithAs, HasBooks, ListsName, HasList
<1>7. opened = With(LedgerIn(v), q, acc)
  BY <1>6, WithIs, WithAre
<1>8. /\ p.pc = "create" /\ p.opens /\ p.legs = q.legs /\ p.name = q.name
      /\ q.legs[1].type = "DEPOSIT" /\ v.accounts[q.name] = 0
  BY DEF Opening, ListsName, SameLegs
<1>9. Recording(opened, p) = Recording(opened, q)
  BY <1>8 DEF Recording
<1>10. With(LedgerIn(v), p, acc) = With(LedgerIn(v), q, acc)
  BY <1>8, Zenon DEF With
<1>11. result = Recording(With(LedgerIn(v), p, Empty(p.legs[1].amount)), p)
  <2>1. acc = Empty(p.legs[1].amount)
    BY <1>8, Zenon
  <2> QED
    BY <1>4, <1>7, <1>9, <1>10, <2>1, Zenon
<1> QED
  BY <1>8, <1>11 DEF Opening

(* A transaction of an account is recorded, and nothing else is changed.   *)
Records(new, user, a, t) ==
  /\ Kept(new, user, a) /\ new.total = user.total
  /\ new.transactions = Append(user.transactions, t)
  /\ new.accounts[a].balance = user.accounts[a].balance
  /\ new.accounts[a].keys = Append(user.accounts[a].keys, Len(new.transactions))

LEMMA TransactionRecorded ==
  ASSUME NEW user, IsRecord(user), NEW a \in Accounts, IsAccount(user.accounts[a]),
         NEW type, NEW amount
  PROVE  Records(addNewTransaction(user, a, type, amount), user, a,
                 [type |-> type, amount |-> amount, result |-> user.accounts[a].balance])
<1> DEFINE t == [type |-> type, amount |-> amount,
                 result |-> user.accounts[a].balance]
           made == Append(user.transactions, t)
           new == addNewTransaction(user, a, type, amount)
           n == Len(made)
<1>1. new = [[user EXCEPT !.transactions = made] EXCEPT !.accounts[a].keys = Append(@, n)]
  BY DEF addNewTransaction, StoreTransaction
<1> HIDE DEF new, made, n
<1> DEFINE b == [user.accounts EXCEPT ![a].keys = Append(@, n)]
<1>2. /\ DOMAIN b = Accounts /\ b = [c \in Accounts |-> b[c]]
      /\ \A c \in Accounts \ {a} : b[c] = user.accounts[c]
      /\ IsAccount(b[a]) /\ b[a].type = user.accounts[a].type
      /\ b[a].balance = user.accounts[a].balance
      /\ b[a].keys = Append(user.accounts[a].keys, n)
  <2> PICK old, x : old = user.accounts[a] /\ x = [old EXCEPT !.keys = Append(@, n)]
    OBVIOUS
  <2>1. /\ IsAccount(x) /\ x.type = old.type /\ x.balance = old.balance
        /\ x.keys = Append(old.keys, n)
    BY DEF IsAccount
  <2>2. DOMAIN user.accounts = Accounts
    BY DEF IsRecord
  <2>3. b = [user.accounts EXCEPT ![a] = x]
    OBVIOUS
  <2> HIDE DEF b
  <2>4. DOMAIN b = Accounts /\ b = [c \in Accounts |-> b[c]] /\ b[a] = x
    BY <2>2, <2>3
  <2>5. \A c \in Accounts \ {a} : b[c] = user.accounts[c]
    BY <2>2, <2>3
  <2> QED
    BY <2>1, <2>4, <2>5
<1>3. new = [[user EXCEPT !.transactions = made] EXCEPT !.accounts = b]
  BY <1>1 DEF IsRecord
<1> HIDE DEF b
<1>4. /\ DOMAIN new = {"accounts", "lists", "total", "transactions"}
      /\ new = [f \in DOMAIN new |-> new[f]]
      /\ new.accounts = b /\ new.lists = user.lists
      /\ new.total = user.total /\ new.transactions = made
  BY <1>3 DEF IsRecord
<1>5. IsRecord(new)
  BY <1>2, <1>4 DEF IsRecord
<1>6. Kept(new, user, a)
  BY <1>2, <1>4, <1>5 DEF Kept
<1>7. /\ new.transactions = Append(user.transactions, t)
      /\ new.accounts[a].keys = Append(user.accounts[a].keys, Len(new.transactions))
  BY <1>2, <1>4 DEF made, n
<1> HIDE DEF t
<1>8. Records(new, user, a, t)
  BY <1>2, <1>4, <1>6, <1>7 DEF Records
<1> QED
  BY <1>8 DEF new, t

-----------------------------------------------------------------------------
LEMMA ExactIs == Req!Exact \in Nat
  BY DEF Req!Exact

LEMMA HeldIsNear ==
  ASSUME NEW u, Req!HeldExactly(u)
  PROVE  /\ u.total \in Int => u.total \in Near
         /\ \A a \in Accounts : u.accounts[a].balance \in Int => u.accounts[a].balance \in Near
<1>1. ASSUME NEW n \in Int, 2 * n \in -Req!Exact .. Req!Exact
      PROVE  n \in Near
  BY <1>1, ExactIs DEF Near
<1> QED
  BY <1>1 DEF Req!HeldExactly

PutsTotal(v, u, n) == v = [u EXCEPT !.total = @ + n]

LEMMA TotalIs ==
  ASSUME NEW u, IsRecord(u), NEW n, NEW v, PutsTotal(v, u, n)
  PROVE  /\ IsRecord(v) /\ v.lists = u.lists /\ v.accounts = u.accounts
         /\ v.total = u.total + n /\ v.transactions = u.transactions
<1>1. /\ DOMAIN v = {"accounts", "lists", "total", "transactions"}
      /\ v = [f \in DOMAIN v |-> v[f]]
  BY DEF PutsTotal, IsRecord
<1>2. /\ v.lists = u.lists /\ v.accounts = u.accounts
      /\ v.total = u.total + n /\ v.transactions = u.transactions
  BY DEF PutsTotal, IsRecord
<1>3. DOMAIN v.accounts = Accounts /\ v.accounts = [a \in Accounts |-> v.accounts[a]]
  BY <1>2, Zenon DEF IsRecord
<1> QED
  BY <1>1, <1>2, <1>3, Zenon DEF IsRecord

LEMMA MapsOpening ==
  ASSUME NEW w, ViewTyped(w), NEW v, NEW q, NEW p, Maps(w, v, q, p), q.name \in Accounts,
         q.legs[1].obj \in Nat \ {0}, NEW result, Opening(w, q, result)
  PROVE  Opening(v, p, result)
<1> PICK a, n, o, acc : /\ a = q.name /\ n = q.legs[1].amount /\ o = q.legs[1].obj
                        /\ acc = AccountOf(ObjectAt(w, q))
  OBVIOUS
<1>1. /\ SameLegs(p, q) /\ p.pc = "total" /\ q.pc = "map" /\ v.objects = w.objects
      /\ v.list = w.list /\ v.total = w.total /\ v.number = w.number /\ v.all = w.all
  BY Zenon DEF Maps
<1>2. result = With(LedgerIn(w), q, acc) /\ q.opens /\ q.legs[1].type = "DEPOSIT"
  BY <1>1 DEF Opening
<1>3. /\ v.accounts[a] = o /\ \A b \in Accounts \ {a} : v.accounts[b] = w.accounts[b]
  BY DEF Maps, ViewTyped
<1>4. /\ AccountIn(v, a) = acc
      /\ \A b \in Accounts \ {a} : AccountIn(v, b) = AccountIn(w, b)
  BY <1>1, <1>3 DEF AccountIn, ObjectAt
<1> PICK u : u = LedgerIn(v)
  OBVIOUS
<1> PICK m : PutsTotal(m, u, n)
  BY DEF PutsTotal
<1>5. LedgerAs(u, v)
  BY LedgerInIs
<1>6. IsRecord(u)
  BY <1>5 DEF LedgerAs, HasBooks
<1>7. /\ IsRecord(m) /\ m.lists = u.lists /\ m.accounts = u.accounts
      /\ m.total = u.total + n /\ m.transactions = u.transactions
  BY <1>6, TotalIs
<1>8. WithAs(m, w, q, acc)
  BY <1>1, <1>4, <1>5, <1>7 DEF WithAs, LedgerAs, HasBooks
<1>9. m = result
  BY <1>2, <1>8, WithIs, WithAre
<1>10. p.legs = q.legs /\ p.opens /\ p.name = q.name
  BY <1>1, <1>2, Zenon DEF SameLegs
<1>11. m = Added(v, p)
  BY <1>10 DEF Added, PutsTotal
<1> QED
  BY <1>1, <1>2, <1>9, <1>10, <1>11 DEF Opening

(* The first balance is the object's and, when there is one, is recorded.  *)
Created(w, v, q, p, y) ==
  /\ p.opens /\ p.name = q.name /\ p.legs[1].type = "DEPOSIT"
  /\ p.legs[1].amount = q.legs[1].amount /\ p.legs[1].obj = Len(w.objects) + 1
  /\ y = ObjectAt(v, p) /\ y.balance = q.legs[1].amount /\ KeysOf(y) = <<>>
  /\ v.accounts[q.name] = 0
  /\ \A b \in Accounts : /\ v.accounts[b] = w.accounts[b] /\ v.accounts[b] # p.legs[1].obj
                         /\ AccountIn(v, b) = AccountIn(w, b)

IsLeg(l) == l = [f \in {"obj", "type", "amount"} |-> l[f]]

LEMMA CreatedIs ==
  ASSUME NEW w, ViewTyped(w), NEW v, NEW q, NEW p, Creates(w, v, q, p), q.name \in Accounts,
         IsLeg(q.legs[1]),
         NEW result, Opening(w, q, result)
  PROVE  Created(w, v, q, p, ObjectAt(v, p))
<1> PICK l, n, y, x : /\ l = q.legs[1] /\ n = l.amount /\ y = ObjectAt(v, p)
                      /\ x = [balance |-> n, size |-> 0, keys |-> <<>>]
  OBVIOUS
<1>1. /\ p.opens = q.opens /\ p.name = q.name /\ v.accounts = w.accounts
      /\ p.legs[1] = [l EXCEPT !.obj = Len(w.objects) + 1]
      /\ v.objects = Append(w.objects, x) /\ q.pc = "create"
  BY DEF Creates
<1>2. q.opens /\ l.type = "DEPOSIT" /\ w.accounts[q.name] = 0
  BY <1>1 DEF Opening
<1>3. /\ p.legs[1].type = l.type /\ p.legs[1].amount = n
      /\ p.legs[1].obj = Len(w.objects) + 1
  BY <1>1 DEF IsLeg
<1>4. w.objects \in Seq(BankObject) /\ w.accounts \in [Accounts -> 0 .. Len(w.objects)]
  BY DEF ViewTyped, ObjectsTyped
<1>5. /\ Len(w.objects) \in Nat /\ v.objects[Len(w.objects) + 1] = x
      /\ \A i \in 1 .. Len(w.objects) : v.objects[i] = w.objects[i]
  BY <1>1, <1>4, AppendProperties, LenProperties
<1>6. y = x
  BY <1>3, <1>5 DEF ObjectAt
<1>7. y.balance = n /\ KeysOf(y) = <<>>
  <2>1. y.balance = n /\ y.size = 0
    BY <1>6
  <2> QED
    BY <2>1 DEF KeysOf
<1>8. ASSUME NEW b \in Accounts
      PROVE  /\ v.accounts[b] = w.accounts[b] /\ v.accounts[b] # p.legs[1].obj
             /\ AccountIn(v, b) = AccountIn(w, b)
  <2>1. w.accounts[b] \in 0 .. Len(w.objects)
    BY <1>4
  <2> QED
    BY <1>1, <1>3, <1>5, <2>1 DEF AccountIn
<1> QED
  BY <1>1, <1>2, <1>3, <1>7, <1>8 DEF Created

(* An opening with nothing is next put under its name.                     *)
LEMMA CreatesEmpty ==
  ASSUME NEW w, ViewTyped(w), NEW v, NEW q, NEW p, Creates(w, v, q, p), q.name \in Accounts,
         IsLeg(q.legs[1]),
         ~(q.legs[1].amount > 0), NEW result, Opening(w, q, result)
  PROVE  Opening(v, p, result)
<1> PICK a, n, y, acc : /\ a = q.name /\ n = q.legs[1].amount /\ y = ObjectAt(v, p)
                        /\ acc = AccountOf(y)
  OBVIOUS
<1>1. /\ q.pc = "create" /\ p.pc = "map" /\ v.total = w.total /\ v.list = w.list
      /\ v.number = w.number /\ v.all = w.all
  BY DEF Creates
<1>2. Created(w, v, q, p, y)
  BY CreatedIs, Zenon
<1>3. result = With(LedgerIn(w), q, Empty(n))
  BY <1>1 DEF Opening, Recording
<1>4. acc = Empty(n)
  BY <1>2 DEF AccountOf, Empty, Created
<1> PICK u : u = With(LedgerIn(w), q, acc)
  OBVIOUS
<1>5. WithAs(u, w, q, acc)
  BY WithIs
<1>6. WithAs(u, v, p, acc)
  BY <1>1, <1>2, <1>5 DEF WithAs, HasBooks, Created
<1>7. u = With(LedgerIn(v), p, acc)
  <2>1. p.name \in Accounts
    BY <1>2 DEF Created
  <2> QED
    BY <1>6, <2>1, WithIs, WithAre
<1> QED
  BY <1>1, <1>2, <1>3, <1>4, <1>7 DEF Opening, Created

(* One with something is recorded next.                                    *)
FirstDeposit(n) == [type |-> "DEPOSIT", amount |-> n, result |-> n]
FirstOf(ledger, a, n) == addNewTransaction(ledger, a, "DEPOSIT", n)

LEMMA CreatesFunded ==
  ASSUME NEW w, ViewTyped(w), NEW v, NEW q, NEW p, Creates(w, v, q, p), q.name \in Accounts,
         IsLeg(q.legs[1]),
         q.legs[1].amount \in Int, q.legs[1].amount > 0,
         NEW result, Opening(w, q, result), Req!HeldExactly(result)
  PROVE  Toward(v, p, result, q.name)
<1> PICK a, n, y, first, acc, t :
      /\ a = q.name /\ n = q.legs[1].amount /\ y = ObjectAt(v, p) /\ first = Empty(n)
      /\ acc = result.accounts[a] /\ t = FirstDeposit(n)
  OBVIOUS
<1> PICK u : u = With(LedgerIn(w), q, first)
  OBVIOUS
<1>1. /\ q.pc = "create" /\ p.pc = "new" /\ v.total = w.total /\ v.list = w.list
      /\ v.number = w.number /\ v.all = w.all
  BY DEF Creates
<1>2. Created(w, v, q, p, y)
  BY CreatedIs, Zenon
<1>3. result = FirstOf(u, a, n)
  <2>1. result = Req!addNewTransaction(u, a, "DEPOSIT", n)
    BY <1>1 DEF Opening, Recording
  <2>2. Req!addNewTransaction(u, a, "DEPOSIT", n) = addNewTransaction(u, a, "DEPOSIT", n)
    BY SameMethods
  <2> QED
    BY <2>1, <2>2, Zenon DEF FirstOf
<1>4. WithAs(u, w, q, first)
  BY WithIs
<1>5. /\ IsRecord(u) /\ HasList(u, w.list)
      /\ u.transactions = Listed(w.number, w.all) /\ u.total = w.total + n
      /\ u.accounts[a] = first /\ \A b \in Accounts \ {a} : u.accounts[b] = AccountIn(w, b)
  BY <1>4, Zenon DEF WithAs, HasBooks, HasList
<1>6. /\ IsAccount(first) /\ first.type = Req!Kind /\ first.balance = n /\ first.keys = <<>>
  BY DEF Empty, IsAccount
<1>7. Records(result, u, a, t)
  <2>1. IsAccount(u.accounts[a]) /\ u.accounts[a].balance = n
    BY <1>5, <1>6
  <2> PICK old : old = u.accounts[a].balance
    OBVIOUS
  <2>2. Records(FirstOf(u, a, n), u, a, [type |-> "DEPOSIT", amount |-> n, result |-> old])
    BY <1>5, <2>1, TransactionRecorded, Zenon DEF FirstOf
  <2>3. old = n
    BY <2>1
  <2>4. [type |-> "DEPOSIT", amount |-> n, result |-> old] = t
    BY <2>3, Zenon DEF FirstDeposit
  <2> QED
    BY <1>3, <2>2, <2>4, Zenon
<1>8. /\ IsRecord(result) /\ result.lists = u.lists /\ IsAccount(acc)
      /\ acc.type = Req!Kind /\ acc.balance = n
      /\ \A b \in Accounts \ {a} : result.accounts[b] = u.accounts[b]
  BY <1>5, <1>6, <1>7 DEF Records, Kept
<1>9. /\ result.total = u.total /\ result.transactions = Append(u.transactions, t)
      /\ acc.keys = Append(<<>>, Len(result.transactions))
  BY <1>5, <1>6, <1>7 DEF Records
<1>10. p.legs[1].type = "DEPOSIT" /\ p.legs[1].amount = n /\ p.opens /\ Owing(p) = n
  BY <1>2 DEF Created, Owing, Req!By, Req!Change
<1>11. t = MakesRecord(p, acc)
  BY <1>8, <1>10, Zenon DEF MakesRecord, FirstDeposit
<1>12. w.total \in Int
  BY DEF ViewTyped
<1>13. BalanceDue(p, y, acc)
  <2>1. acc.balance \in Near
    BY <1>8, HeldIsNear
  <2> QED
    BY <1>1, <1>2, <1>8, <2>1 DEF BalanceDue, Created, UntilBalance
<1>14. TotalDue(p, v.total, result.total)
  <2>1. result.total = v.total + Owing(p)
    BY <1>1, <1>5, <1>9, <1>10, Zenon
  <2>2. result.total \in Near
    <3>1. v.total + Owing(p) \in Int
      BY <1>1, <1>10, <1>12
    <3> QED
      BY <2>1, <3>1, HeldIsNear
  <2> QED
    BY <1>1, <1>10, <2>1, <2>2 DEF TotalDue, UntilTotal, UntilBalance
<1>15. RecordDue(p, v.number, v.all, result.transactions, t)
  BY <1>1, <1>5, <1>9 DEF RecordDue, Numbered
<1>16. KeyDue(p, y, acc, result.transactions)
  BY <1>1, <1>2, <1>9 DEF KeyDue, Created
<1>17. Apart(v, p, result, a)
  <2>1. result.lists = [t2 \in {"CHECKING"} |-> v.list]
    BY <1>1, <1>5, <1>8, Zenon DEF HasList
  <2>2. p.opens /\ p.name = a /\ v.accounts[a] = 0 /\ p.legs[1].type = "DEPOSIT"
    BY <1>2 DEF Created
  <2>3. \A b \in Accounts : v.accounts[b] # p.legs[1].obj /\ AccountIn(v, b) = AccountIn(w, b)
    BY <1>2, Zenon DEF Created
  <2>4. \A b \in Accounts \ {a} : result.accounts[b] = AccountIn(v, b)
    BY <1>5, <1>8, <2>3
  <2>5. \A b \in Accounts \ {a} :
          v.accounts[b] # p.legs[1].obj /\ result.accounts[b] = AccountIn(v, b)
    BY <2>3, <2>4
  <2> QED
    BY <2>1, <2>2, <2>5, Zenon DEF Apart
<1> QED
  BY <1>8, <1>11, <1>13, <1>14, <1>15, <1>16, <1>17, Zenon DEF Toward

LEMMA CreatesDoing ==
  ASSUME NEW w, ViewTyped(w), NEW v, NEW q, NEW p, Creates(w, v, q, p), q.name \in Accounts,
         IsLeg(q.legs[1]),
         q.legs[1].amount \in Int,
         NEW result, Opening(w, q, result), Req!HeldExactly(result)
  PROVE  Doing(v, p, result)
<1>1. CASE ~(q.legs[1].amount > 0)
  BY <1>1, CreatesEmpty DEF Doing
<1>2. CASE q.legs[1].amount > 0
  <2>1. Toward(v, p, result, q.name)
    BY <1>2, CreatesFunded
  <2>2. p.opens /\ p.pc \in OnLeg
    BY <1>2 DEF Creates, Opening, OnLeg, OnObject
  <2>3. Leads(v, p, result, q.name, result)
    BY <2>2 DEF Leads, OneLeg
  <2> QED
    BY <2>1, <2>2, <2>3 DEF Doing, Paying
<1> QED
  BY <1>1, <1>2

-----------------------------------------------------------------------------
(* An account is removed: off the list, then the name's.                   *)
PutsNone(v, u, a) == v = [u EXCEPT !.accounts[a] = Req!NoAccount]

LEMMA NoneIs ==
  ASSUME NEW u, IsRecord(u), NEW a \in Accounts, NEW v, PutsNone(v, u, a)
  PROVE  /\ IsRecord(v) /\ v.lists = u.lists /\ v.total = u.total
         /\ v.transactions = u.transactions /\ v.accounts[a] = Req!NoAccount
         /\ \A b \in Accounts \ {a} : v.accounts[b] = u.accounts[b]
<1> PICK b : b = [u.accounts EXCEPT ![a] = Req!NoAccount]
  OBVIOUS
<1>1. /\ DOMAIN b = Accounts /\ b = [c \in Accounts |-> b[c]] /\ b[a] = Req!NoAccount
      /\ \A c \in Accounts \ {a} : b[c] = u.accounts[c]
  BY DEF IsRecord
<1>2. v = [u EXCEPT !.accounts = b]
  BY DEF PutsNone, IsRecord
<1>3. /\ DOMAIN v = {"accounts", "lists", "total", "transactions"}
      /\ v = [f \in DOMAIN v |-> v[f]]
      /\ v.accounts = b /\ v.lists = u.lists
      /\ v.total = u.total /\ v.transactions = u.transactions
  BY <1>2 DEF IsRecord
<1>4. IsRecord(v)
  BY <1>1, <1>3, Zenon DEF IsRecord
<1> QED
  BY <1>1, <1>3, <1>4

Unlists(w, v, q, p) ==
  /\ q.pc = "unlist" /\ p.pc = "unmap" /\ SameLegs(p, q)
  /\ v.objects = w.objects /\ v.accounts = w.accounts /\ v.total = w.total
  /\ v.number = w.number /\ v.all = w.all /\ v.list = RemoveFirst(w.list, q.name)

Unmaps(w, v, q, p) ==
  /\ q.pc = "unmap" /\ p.pc = "ends" /\ SameLegs(p, q)
  /\ v.objects = w.objects /\ v.list = w.list /\ v.total = w.total
  /\ v.number = w.number /\ v.all = w.all
  /\ v.accounts = [w.accounts EXCEPT ![q.name] = 0]

RemovesFrom(v, u, a) ==
  v = [u EXCEPT !.lists = [u.lists EXCEPT ![u.accounts[a].type] = RemoveFirst(@, a)],
                !.accounts[a] = Req!NoAccount]

LEMMA RemovedIs ==
  ASSUME NEW u, IsRecord(u), NEW names, HasList(u, names), NEW a \in Accounts,
         u.accounts[a].type = "CHECKING", NEW v, RemovesFrom(v, u, a)
  PROVE  /\ IsRecord(v) /\ HasList(v, RemoveFirst(names, a)) /\ v.total = u.total
         /\ v.transactions = u.transactions /\ v.accounts[a] = Req!NoAccount
         /\ \A b \in Accounts \ {a} : v.accounts[b] = u.accounts[b]
<1> PICK l, out : out = RemoveFirst(names, a) /\ l = [t \in {"CHECKING"} |-> out]
  OBVIOUS
<1> PICK lists : PutsList(lists, u, l)
  BY DEF PutsList
<1>1. /\ IsRecord(lists) /\ lists.lists = l /\ lists.accounts = u.accounts
      /\ lists.total = u.total /\ lists.transactions = u.transactions
  BY ListsAre
<1>2. PutsNone(v, lists, a)
  <2>1. l = [u.lists EXCEPT !["CHECKING"] = RemoveFirst(@, a)]
    BY DEF HasList
  <2>2. v = [u EXCEPT !.lists = l, !.accounts[a] = Req!NoAccount]
    BY <2>1 DEF RemovesFrom
  <2> QED
    BY <2>2 DEF PutsNone, PutsList, IsRecord
<1>3. /\ IsRecord(v) /\ v.lists = lists.lists /\ v.total = lists.total
      /\ v.transactions = lists.transactions /\ v.accounts[a] = Req!NoAccount
      /\ \A b \in Accounts \ {a} : v.accounts[b] = lists.accounts[b]
  BY <1>1, <1>2, NoneIs
<1> QED
  BY <1>1, <1>3 DEF HasList

LEMMA UnlistsClosing ==
  ASSUME NEW w, ViewTyped(w), NEW v, NEW q, NEW p, Unlists(w, v, q, p), q.name \in Accounts,
         NEW result, Closing(w, q, result)
  PROVE  Closing(v, p, result)
<1> PICK a, u, m, acc : /\ a = q.name /\ u = LedgerIn(w) /\ m = LedgerIn(v)
                        /\ acc = AccountIn(w, a)
  OBVIOUS
<1>1. /\ q.pc = "unlist" /\ p.pc = "unmap" /\ p.name = a /\ v.objects = w.objects
      /\ v.accounts = w.accounts /\ v.total = w.total /\ v.number = w.number
      /\ v.all = w.all /\ v.list = RemoveFirst(w.list, a)
  BY Zenon DEF Unlists, SameLegs
<1>2. w.accounts[a] # 0 /\ acc.balance <= 0 /\ result = Req!RemoveAccount(u, a)
  BY <1>1 DEF Closing
<1>3. acc.type = "CHECKING" /\ acc.balance \in Int
  <2>1. w.accounts[a] \in 1 .. Len(w.objects)
    BY <1>2, LenProperties DEF ViewTyped, ObjectsTyped
  <2> PICK x : x = w.objects[w.accounts[a]]
    OBVIOUS
  <2>2. x.balance \in Int
    BY <2>1, ObjectIs DEF ViewTyped
  <2>3. acc = AccountOf(x)
    BY <1>2 DEF AccountIn
  <2> QED
    BY <2>2, <2>3, AccountOfIs, KindIs
<1>4. LedgerAs(u, w) /\ LedgerAs(m, v)
  BY LedgerInIs
<1>5. /\ IsRecord(u) /\ HasList(u, w.list) /\ u.total = w.total
      /\ u.transactions = Listed(w.number, w.all)
      /\ \A b \in Accounts : u.accounts[b] = AccountIn(w, b)
  BY <1>4, Zenon DEF LedgerAs, HasBooks, HasList
<1>6. /\ IsRecord(m) /\ HasList(m, v.list) /\ m.total = v.total
      /\ m.transactions = Listed(v.number, v.all)
      /\ \A b \in Accounts : m.accounts[b] = AccountIn(v, b)
  BY <1>4, Zenon DEF LedgerAs, HasBooks, HasList
<1>7. u.accounts[a] = acc
  BY <1>5
<1>8. RemovesFrom(result, u, a)
  <2>1. ~(u.accounts[a].balance > 0)
    BY <1>2, <1>3, <1>7
  <2>2. Req!RemoveFirst(u.lists["CHECKING"], a) = RemoveFirst(u.lists["CHECKING"], a)
    BY SameRemoval
  <2>3. u.accounts[a].type = "CHECKING"
    BY <1>3, <1>7, Zenon
  <2> QED
    BY <1>2, <2>1, <2>2, <2>3 DEF Req!RemoveAccount, Req!Unlisted, RemovesFrom
<1>9. /\ IsRecord(result) /\ HasList(result, RemoveFirst(w.list, a))
      /\ result.total = u.total /\ result.transactions = u.transactions
      /\ result.accounts[a] = Req!NoAccount
      /\ \A b \in Accounts \ {a} : result.accounts[b] = u.accounts[b]
  BY <1>3, <1>5, <1>7, <1>8, RemovedIs
<1> PICK k : PutsNone(k, m, a)
  BY DEF PutsNone
<1>10. /\ IsRecord(k) /\ k.lists = m.lists /\ k.total = m.total
       /\ k.transactions = m.transactions /\ k.accounts[a] = Req!NoAccount
       /\ \A b \in Accounts \ {a} : k.accounts[b] = m.accounts[b]
  BY <1>6, NoneIs
<1>11. \A b : AccountIn(v, b) = AccountIn(w, b)
  BY <1>1 DEF AccountIn
<1>12. SameFields(result, k)
  <2>1. \A b \in Accounts : result.accounts[b] = k.accounts[b]
    BY <1>5, <1>6, <1>9, <1>10, <1>11
  <2>2. result.lists = k.lists
    BY <1>1, <1>6, <1>9, <1>10 DEF HasList
  <2> QED
    BY <1>1, <1>5, <1>6, <1>9, <1>10, <2>1, <2>2, Zenon DEF SameFields
<1>13. result = k
  BY <1>12, SameLedger
<1>14. k = Unnaming(v, p)
  BY <1>1 DEF Unnaming, PutsNone
<1> QED
  BY <1>1, <1>13, <1>14 DEF Closing

LEMMA UnmapsClosing ==
  ASSUME NEW w, ViewTyped(w), NEW v, NEW q, NEW p, Unmaps(w, v, q, p), q.name \in Accounts,
         NEW result, Closing(w, q, result)
  PROVE  result = LedgerIn(v)
<1> PICK a, u, m : a = q.name /\ u = LedgerIn(w) /\ m = LedgerIn(v)
  OBVIOUS
<1>1. /\ q.pc = "unmap" /\ v.objects = w.objects /\ v.list = w.list
      /\ v.total = w.total /\ v.number = w.number /\ v.all = w.all
  BY Zenon DEF Unmaps
<1>2. result = Unnaming(w, q)
  BY <1>1 DEF Closing
<1>3. PutsNone(result, u, a)
  BY <1>2, Zenon DEF Unnaming, PutsNone
<1>4. LedgerAs(u, w) /\ LedgerAs(m, v)
  BY LedgerInIs
<1>5. /\ IsRecord(u) /\ u.total = w.total /\ u.transactions = Listed(w.number, w.all)
      /\ HasList(u, w.list) /\ \A b \in Accounts : u.accounts[b] = AccountIn(w, b)
  BY <1>4, Zenon DEF LedgerAs, HasBooks, HasList
<1>6. /\ IsRecord(m) /\ HasList(m, v.list) /\ m.total = v.total
      /\ m.transactions = Listed(v.number, v.all)
      /\ \A b \in Accounts : m.accounts[b] = AccountIn(v, b)
  BY <1>4, Zenon DEF LedgerAs, HasBooks, HasList
<1>7. /\ IsRecord(result) /\ result.lists = u.lists /\ result.total = u.total
      /\ result.transactions = u.transactions /\ result.accounts[a] = Req!NoAccount
      /\ \A b \in Accounts \ {a} : result.accounts[b] = u.accounts[b]
  BY <1>3, <1>5, NoneIs
<1>8. v.accounts[a] = 0 /\ \A b \in Accounts \ {a} : v.accounts[b] = w.accounts[b]
  BY DEF Unmaps, ViewTyped
<1>9. /\ AccountIn(v, a) = Req!NoAccount
      /\ \A b \in Accounts \ {a} : AccountIn(v, b) = AccountIn(w, b)
  BY <1>1, <1>8 DEF AccountIn
<1>10. SameFields(result, m)
  <2>1. \A b \in Accounts : result.accounts[b] = m.accounts[b]
    BY <1>5, <1>6, <1>7, <1>9
  <2>2. result.lists = m.lists
    BY <1>1, <1>5, <1>6, <1>7 DEF HasList
  <2> QED
    BY <1>1, <1>5, <1>6, <1>7, <2>1, <2>2, Zenon DEF SameFields
<1> QED
  BY <1>10, SameLedger

-----------------------------------------------------------------------------
(* What a request in a call of MakeTransaction comes to.                   *)
LEMMA SameBooksLead ==
  ASSUME NEW w, NEW v, v.accounts = w.accounts, NEW q, NEW d, NEW a, NEW result,
         Leads(w, q, d, a, result)
  PROVE  Leads(v, q, d, a, result)
  BY Zenon DEF Leads

LEMMA PayingLooks ==
  ASSUME NEW w, NEW q, NEW p, LooksAt(w, q, p), NEW result, Paying(w, q, result)
  PROVE  Paying(w, p, result)
<1>1. ~Refused(w, q, result)
  BY DEF LooksAt, Refused
<1> PICK d : \E a \in Accounts : Toward(w, q, d, a) /\ Leads(w, q, d, a, result)
  BY <1>1 DEF Paying
<1> PICK a \in Accounts : Toward(w, q, d, a) /\ Leads(w, q, d, a, result)
  OBVIOUS
<1>2. Toward(w, p, d, a)
  BY LooksToward
<1>3. Leads(w, p, d, a, result)
  BY SameLegsLead DEF LooksAt
<1>4. p.pc \in OnLeg
  BY DEF LooksAt, OnLeg, OnObject
<1> QED
  BY <1>2, <1>3, <1>4 DEF Paying

Refuses(w, q) == q.pc = "check" /\ ~Req!Covers(ObjectAt(w, q).balance, -Owing(q))

LEMMA PayingRefused ==
  ASSUME NEW w, NEW q, Refuses(w, q), NEW result, Paying(w, q, result)
  PROVE  result = LedgerIn(w)
<1>1. ASSUME NEW d, NEW a \in Accounts, Toward(w, q, d, a)
      PROVE  FALSE
  <2>1. BalanceDue(q, ObjectAt(w, q), d.accounts[a])
    BY <1>1, Zenon DEF Toward
  <2> QED
    BY <2>1 DEF BalanceDue, Refuses
<1> QED
  BY <1>1 DEF Paying, Refused

LEMMA PayingSets ==
  ASSUME NEW w, ViewTyped(w), NEW v, NEW q, NEW p, SetsBalance(w, v, q, p) \/ Sets(w, v, q, p),
         q.legs[1].obj \in 1 .. Len(w.objects), NEW result, Paying(w, q, result)
  PROVE  Paying(v, p, result)
<1>1. SameLegs(p, q) /\ v.accounts = w.accounts
  BY DEF SetsBalance, Sets
<1>2. ~Refused(w, q, result)
  BY DEF SetsBalance, Sets, Refused
<1> PICK d : \E a \in Accounts : Toward(w, q, d, a) /\ Leads(w, q, d, a, result)
  BY <1>2 DEF Paying
<1> PICK a \in Accounts : Toward(w, q, d, a) /\ Leads(w, q, d, a, result)
  OBVIOUS
<1>3. Toward(v, p, d, a)
  BY BalanceToward, SetsToward
<1>4. Leads(v, p, d, a, result)
  <2>1. Leads(w, p, d, a, result)
    BY <1>1, SameLegsLead
  <2> QED
    BY <1>1, <2>1, SameBooksLead
<1>5. p.pc \in OnLeg
  <2>1. q.pc = "set total" => ~q.opens
    <3>1. TotalDue(q, w.total, d.total)
      BY Zenon DEF Toward
    <3> QED
      BY <3>1 DEF TotalDue, UntilTotal
  <2> QED
    BY <2>1 DEF SetsBalance, Sets, OnLeg, OnObject
<1> QED
  BY <1>3, <1>4, <1>5 DEF Paying

(* The key is added last; then there is the next leg, the name of an       *)
(* opening, or the end.                                                    *)
Goes(q, p) ==
  \/ q.opens /\ p.pc = "map" /\ SameLegs(p, q)
  \/ ~q.opens /\ OneLeg(q) /\ p.pc = "ends"
  \/ /\ ~OneLeg(q) /\ p.opens = q.opens
     /\ p.pc = Req!Entry(p.legs[1]) /\ p.legs = Tail(q.legs)

LEMMA SecondLeg ==
  ASSUME NEW q, NEW n \in Nat, q.legs \in Seq(LegOf(n)), ~OneLeg(q), Len(q.legs) = 2,
         NEW p, Goes(q, p)
  PROVE  /\ p.legs[1] = q.legs[2] /\ Len(p.legs) = 1 /\ ~p.opens /\ ~q.opens
         /\ p.pc = Req!Entry(p.legs[1]) /\ p.legs[1] \in LegOf(n) /\ p.legs[1].obj # 0
<1>1. /\ ~q.opens /\ p.opens = q.opens /\ p.legs = Tail(q.legs) /\ q.legs[2].obj # 0
      /\ p.pc = Req!Entry(p.legs[1])
  BY DEF Goes, OneLeg
<1>2. Tail(q.legs)[1] = q.legs[2] /\ Len(Tail(q.legs)) = 1
  BY LenProperties, HeadTailProperties
<1>3. q.legs[2] \in LegOf(n)
  BY ElementOfSeq
<1> QED
  BY <1>1, <1>2, <1>3

LEMMA MadeTyped ==
  ASSUME NEW d, NEW w, NEW q, NEW a, MadeFrom(d, w, q, a)
  PROVE  d.total \in Int /\ d.accounts[a].balance \in Int
<1> PICK x : x = ObjectAt(w, q)
  OBVIOUS
<1>1. /\ d.total = w.total + Owing(q) /\ d.accounts[a].balance = x.balance + Owing(q)
      /\ Owing(q) \in Int /\ x.balance \in Int /\ w.total \in Int
  BY Zenon DEF MadeFrom
<1> QED
  BY <1>1

LEMMA PayingAddsKey ==
  ASSUME NEW w, ViewTyped(w), NEW v, ViewTyped(v), NEW q, AddsKey(w, v, q), q.index \in Nat,
         NEW n \in Nat, q.legs \in Seq(LegOf(n)),
         q.legs[1].obj \in 1 .. Len(w.objects), NEW p, Goes(q, p),
         NEW result, Paying(w, q, result), Req!HeldExactly(result)
  PROVE  Doing(v, p, result)
<1>1. ~Refused(w, q, result)
  BY DEF AddsKey, Refused
<1> PICK d : \E a \in Accounts : Toward(w, q, d, a) /\ Leads(w, q, d, a, result)
  BY <1>1 DEF Paying
<1> PICK a \in Accounts : Toward(w, q, d, a) /\ Leads(w, q, d, a, result)
  OBVIOUS
<1>2. d = IF q.opens THEN With(LedgerIn(v), q, AccountOf(ObjectAt(v, q)))
                     ELSE LedgerIn(v)
  BY LegEnds
<1>3. v.accounts = w.accounts
  BY DEF AddsKey
<1>4. CASE q.opens
  <2>1. result = d
    BY <1>4 DEF Leads, OneLeg
  <2>2. p.pc = "map" /\ p.legs = q.legs /\ p.name = q.name /\ p.opens
    BY <1>4 DEF Goes, OneLeg, SameLegs
  <2>3. q.name = a /\ w.accounts[a] = 0 /\ q.legs[1].type = "DEPOSIT"
    <3>1. Apart(w, q, d, a)
      BY Zenon DEF Toward
    <3> QED
      BY <1>4, <3>1 DEF Apart
  <2>4. ObjectAt(v, p) = ObjectAt(v, q)
    BY <2>2 DEF ObjectAt
  <2>5. With(LedgerIn(v), p, AccountOf(ObjectAt(v, p))) = result
    BY <1>2, <1>4, <2>1, <2>2, <2>4, Zenon DEF With
  <2>6. Opening(v, p, result)
    BY <1>3, <2>2, <2>3, <2>5 DEF Opening
  <2> QED
    BY <2>6 DEF Doing
<1>5. CASE ~q.opens /\ OneLeg(q)
  <2>1. result = LedgerIn(v) /\ p.pc = "ends"
    BY <1>2, <1>5 DEF Leads, Goes
  <2> QED
    BY <2>1 DEF Doing
<1>6. CASE ~OneLeg(q)
  <2>1. Len(q.legs) = 2 /\ Req!By(q.legs[2]) >= 0
    BY <1>6 DEF Leads
  <2>2. /\ p.legs[1] = q.legs[2] /\ Len(p.legs) = 1 /\ ~p.opens /\ ~q.opens
        /\ p.pc = Req!Entry(p.legs[1]) /\ p.legs[1] \in LegOf(n) /\ p.legs[1].obj # 0
    BY <1>6, <2>1, SecondLeg
  <2> PICK b \in Accounts \ {a} :
        /\ w.accounts[b] = q.legs[2].obj
        /\ \A c \in Accounts : w.accounts[c] = w.accounts[b] => c = b
        /\ result = Req!MakeTransaction(d, b, q.legs[2].type, q.legs[2].amount)
    BY <1>6, Zenon DEF Leads
  <2>3. p.pc = "balance"
    BY <2>1, <2>2 DEF Req!Entry
  <2>4. BeginsAt(v, p, b)
    BY <1>3, <2>2, <2>3 DEF BeginsAt
  <2>5. d = LedgerIn(v) /\ LedgerAs(d, v)
    BY <1>2, <2>2, LedgerInIs
  <2>6. Makes(result, d, p, b)
    BY <2>2, Zenon DEF Makes
  <2>7. p.legs[1].type \in TransactionType /\ p.legs[1].amount \in Int
    BY <2>2 DEF LegOf
  <2>8. /\ result.total \in Near /\ result.accounts[b].balance \in Near
    <3>1. p.legs[1].obj = v.accounts[b] /\ v.accounts[b] # 0
      BY <1>3, <2>2
    <3>2. MadeFrom(result, v, p, b)
      BY <2>5, <2>6, <2>7, <3>1, MakesAs
    <3>3. result.total \in Int /\ result.accounts[b].balance \in Int
      BY <3>2, MadeTyped
    <3> QED
      BY <3>3, HeldIsNear
  <2>9. Toward(v, p, result, b)
    BY <2>4, <2>5, <2>6, <2>7, <2>8, LegBegins
  <2>10. Leads(v, p, result, b, result)
    BY <2>2 DEF Leads, OneLeg
  <2>11. Paying(v, p, result)
    BY <2>3, <2>9, <2>10 DEF Paying, OnLeg, OnObject
  <2> QED
    BY <2>11 DEF Doing
<1> QED
  BY <1>4, <1>5, <1>6

(* The total of an opening comes last.                                     *)
LEMMA OpeningLooks ==
  ASSUME NEW w, NEW q, NEW p, LooksAt(w, q, p), NEW result, Opening(w, q, result)
  PROVE  Opening(w, p, result)
<1>1. /\ q.pc = "total" /\ p.pc = "set total" /\ p.seen = w.total /\ SameLegs(p, q)
      /\ q.opens /\ q.legs[1].type = "DEPOSIT" /\ result = Added(w, q)
  BY DEF LooksAt, Opening
<1>2. p.legs = q.legs /\ p.opens
  BY <1>1 DEF SameLegs
<1>3. Added(w, p) = Added(w, q)
  BY <1>2, Zenon DEF Added
<1> QED
  BY <1>1, <1>2, <1>3 DEF Opening

LEMMA OpeningEnds ==
  ASSUME NEW w, ViewTyped(w), NEW v, NEW q, q.legs[1].amount \in Int, NEW p, Sets(w, v, q, p),
         NEW result, Opening(w, q, result), Req!HeldExactly(result)
  PROVE  p.pc = "ends" /\ result = LedgerIn(v)
<1> PICK u, n : u = LedgerIn(w) /\ n = q.legs[1].amount
  OBVIOUS
<1>1. /\ q.pc = "set total" /\ q.opens /\ q.legs[1].type = "DEPOSIT" /\ q.seen = w.total
      /\ result = Added(w, q)
  BY DEF Sets, Opening
<1>2. /\ p.pc = "ends" /\ v.objects = w.objects /\ v.accounts = w.accounts
      /\ v.list = w.list /\ v.number = w.number /\ v.all = w.all
      /\ v.total = Req!Float(w.total + Owing(q))
  BY <1>1 DEF Sets
<1>3. Owing(q) = n /\ w.total + n \in Int
  <2>1. Owing(q) = n
    BY <1>1 DEF Owing, Req!By, Req!Change
  <2>2. w.total \in Int
    BY Zenon DEF ViewTyped
  <2> QED
    BY <2>1, <2>2
<1>4. LedgerAs(u, w)
  BY LedgerInIs
<1>5. PutsTotal(result, u, n)
  BY <1>1 DEF Added, PutsTotal
<1>6. /\ IsRecord(result) /\ result.lists = u.lists /\ result.accounts = u.accounts
      /\ result.total = u.total + n /\ result.transactions = u.transactions
  BY <1>4, <1>5, TotalIs DEF LedgerAs, HasBooks
<1>7. result.total = v.total
  <2>1. result.total = w.total + n
    BY <1>4, <1>6 DEF LedgerAs
  <2>2. w.total + n \in Near
    BY <1>3, <2>1, HeldIsNear
  <2> QED
    BY <1>2, <1>3, <2>1, <2>2, KindIs
<1>8. \A a : AccountIn(v, a) = AccountIn(w, a)
  BY <1>2, Zenon DEF AccountIn
<1>9. LedgerAs(result, v)
  BY <1>2, <1>4, <1>6, <1>7, <1>8 DEF LedgerAs, HasBooks
<1> QED
  BY <1>2, <1>9, LedgerInIs, LedgersAre

-----------------------------------------------------------------------------
(* Every step of a request, on the books in one record.                    *)
Shows(q, p) == q.pc \in {"collect", "show"} /\ p.pc \in {"collect", "show", "ends"}

Watches(w, q, p) ==
  LooksAt(w, q, p) \/ Shows(q, p) \/ (Refuses(w, q) /\ p.pc = "ends")

Acts(w, v, q, p) ==
  \/ v = w /\ Watches(w, q, p)
  \/ SetsBalance(w, v, q, p) \/ Sets(w, v, q, p)
  \/ AddsKey(w, v, q) /\ Goes(q, p)
  \/ ListsName(w, v, q, p) \/ Creates(w, v, q, p) \/ Maps(w, v, q, p)
  \/ Unlists(w, v, q, p) \/ Unmaps(w, v, q, p)

LEMMA OnItsObject ==
  ASSUME NEW objs, ObjectsTyped(objs), NEW n, NEW q, ReqTyped(q, objs, n), q.pc \in OnObject
  PROVE  /\ q.legs[1].obj \in 1 .. Len(objs) /\ q.legs[1].amount \in Int
         /\ q.legs \in Seq(LegOf(Len(objs))) /\ Len(objs) \in Nat
<1> PICK l, m : l = q.legs /\ m = Len(objs)
  OBVIOUS
<1>1. l \in Seq(LegOf(m)) /\ l # <<>> /\ l[1].obj # 0
  BY DEF ReqTyped
<1>2. m \in Nat
  BY LenProperties DEF ObjectsTyped
<1>3. Len(l) \in Nat /\ Len(l) # 0
  BY <1>1, EmptySeq, LenProperties
<1>4. l[1] \in LegOf(m)
  BY <1>1, <1>3, ElementOfSeq
<1> QED
  BY <1>1, <1>2, <1>4 DEF LegOf

LEMMA FirstLegIs ==
  ASSUME NEW objs, ObjectsTyped(objs), NEW n, NEW q, ReqTyped(q, objs, n),
         q.pc \in {"list", "create"}
  PROVE  IsLeg(q.legs[1]) /\ q.legs[1].amount \in Int
<1> PICK l, m : l = q.legs /\ m = Len(objs)
  OBVIOUS
<1>1. l \in Seq(LegOf(m)) /\ l # <<>>
  BY DEF ReqTyped
<1>2. Len(l) \in Nat /\ Len(l) # 0
  BY <1>1, EmptySeq, LenProperties
<1>3. l[1] \in LegOf(m)
  BY <1>1, <1>2, ElementOfSeq
<1>4. l[1] = [f \in {"obj", "type", "amount"} |-> l[1][f]]
  BY <1>3 DEF LegOf
<1> QED
  BY <1>3, <1>4 DEF LegOf, IsLeg

LEMMA DoingBy ==
  ASSUME NEW w, NEW q, NEW result, Doing(w, q, result)
  PROVE  /\ q.pc \in OnLeg \ {"total", "set total"} => Paying(w, q, result)
         /\ q.pc \in {"total", "set total"} => Paying(w, q, result) \/ Opening(w, q, result)
         /\ q.pc \in {"list", "create", "map"} => Opening(w, q, result)
         /\ q.pc \in {"unlist", "unmap"} => Closing(w, q, result)
         /\ q.pc \in {"collect", "show", "ends"} => result = LedgerIn(w)
<1>1. Paying(w, q, result) => q.pc \in OnLeg
  BY DEF Paying
<1>2. Opening(w, q, result) => q.pc \in {"list", "create", "map", "total", "set total"}
  BY DEF Opening
<1>3. Closing(w, q, result) => q.pc \in {"unlist", "unmap"}
  BY DEF Closing
<1> QED
  BY <1>1, <1>2, <1>3 DEF Doing, OnLeg, OnObject

LEMMA ActsDoing ==
  ASSUME NEW w, ViewTyped(w), NEW v, ViewTyped(v), NEW q, ReqTyped(q, w.objects, w.number),
         NEW p, Acts(w, v, q, p), NEW result, Req!HeldExactly(result), Doing(w, q, result)
  PROVE  Doing(v, p, result)
<1>1. ObjectsTyped(w.objects)
  BY Zenon DEF ViewTyped
<1>2. q.pc \in {"list", "create", "map", "unlist", "unmap"} => q.name \in Accounts
  BY Zenon DEF ReqTyped
<1>3. CASE v = w /\ LooksAt(w, q, p)
  <2>1. q.pc \in OnLeg
    BY <1>3 DEF LooksAt, OnLeg, OnObject
  <2>2. Paying(w, q, result) \/ Opening(w, q, result)
    BY <2>1, DoingBy
  <2>3. Paying(w, p, result) \/ Opening(w, p, result)
    BY <1>3, <2>2, PayingLooks, OpeningLooks
  <2> QED
    BY <1>3, <2>3 DEF Doing
<1>4. CASE v = w /\ Shows(q, p)
  <2>1. result = LedgerIn(w)
    BY <1>4, DoingBy DEF Shows
  <2> QED
    BY <1>4, <2>1 DEF Doing, Shows
<1>5. CASE v = w /\ Refuses(w, q) /\ p.pc = "ends"
  <2>1. Paying(w, q, result)
    BY <1>5, DoingBy DEF Refuses, OnLeg, OnObject
  <2> QED
    BY <1>5, <2>1, PayingRefused DEF Doing
<1>6. CASE SetsBalance(w, v, q, p) \/ Sets(w, v, q, p)
  <2>1. q.pc \in OnLeg /\ q.pc \in OnObject
    BY <1>6 DEF SetsBalance, Sets, OnLeg, OnObject
  <2>2. q.legs[1].obj \in 1 .. Len(w.objects) /\ q.legs[1].amount \in Int
    BY <1>1, <2>1, OnItsObject
  <2>3. CASE Paying(w, q, result)
    BY <1>6, <2>2, <2>3, PayingSets DEF Doing
  <2>4. CASE Opening(w, q, result)
    <3>1. Sets(w, v, q, p)
      BY <1>6, <2>4 DEF SetsBalance, Opening
    <3>2. p.pc = "ends" /\ result = LedgerIn(v)
      BY <2>2, <2>4, <3>1, OpeningEnds
    <3> QED
      BY <3>2 DEF Doing
  <2> QED
    BY <2>1, <2>3, <2>4, DoingBy
<1>7. CASE AddsKey(w, v, q) /\ Goes(q, p)
  <2>1. q.pc \in OnLeg \ {"total", "set total"} /\ q.pc \in OnObject /\ q.pc = "key"
    BY <1>7 DEF AddsKey, OnLeg, OnObject
  <2>2. Paying(w, q, result)
    BY <2>1, DoingBy
  <2>3. q.index \in Nat
    BY <2>1 DEF ReqTyped
  <2>4. /\ q.legs[1].obj \in 1 .. Len(w.objects) /\ Len(w.objects) \in Nat
        /\ q.legs \in Seq(LegOf(Len(w.objects)))
    BY <1>1, <2>1, OnItsObject
  <2> QED
    BY <1>7, <2>2, <2>3, <2>4, PayingAddsKey
<1>8. CASE ListsName(w, v, q, p)
  <2>1. q.pc = "list"
    BY <1>8 DEF ListsName
  <2>2. Opening(w, q, result)
    BY <2>1, DoingBy
  <2> QED
    BY <1>2, <1>8, <2>1, <2>2, ListsOpening DEF Doing
<1>9. CASE Creates(w, v, q, p)
  <2>1. q.pc = "create"
    BY <1>9 DEF Creates
  <2>2. Opening(w, q, result)
    BY <2>1, DoingBy
  <2>3. IsLeg(q.legs[1]) /\ q.legs[1].amount \in Int
    BY <1>1, <2>1, FirstLegIs
  <2> QED
    BY <1>2, <1>9, <2>1, <2>2, <2>3, CreatesDoing
<1>10. CASE Maps(w, v, q, p)
  <2>1. q.pc = "map"
    BY <1>10 DEF Maps
  <2>2. Opening(w, q, result)
    BY <2>1, DoingBy
  <2>3. q.legs[1].obj \in 1 .. Len(w.objects) /\ Len(w.objects) \in Nat
    BY <1>1, <2>1, OnItsObject DEF OnObject
  <2>4. q.legs[1].obj \in Nat \ {0}
    BY <2>3
  <2> QED
    BY <1>2, <1>10, <2>1, <2>2, <2>4, MapsOpening DEF Doing
<1>11. CASE Unlists(w, v, q, p)
  <2>1. q.pc = "unlist"
    BY <1>11 DEF Unlists
  <2>2. Closing(w, q, result)
    BY <2>1, DoingBy
  <2> QED
    BY <1>2, <1>11, <2>1, <2>2, UnlistsClosing DEF Doing
<1>12. CASE Unmaps(w, v, q, p)
  <2>1. q.pc = "unmap" /\ p.pc = "ends"
    BY <1>12 DEF Unmaps
  <2>2. Closing(w, q, result)
    BY <2>1, DoingBy
  <2>3. result = LedgerIn(v)
    BY <1>2, <1>12, <2>1, <2>2, UnmapsClosing
  <2> QED
    BY <2>1, <2>3 DEF Doing
<1> QED
  BY <1>3, <1>4, <1>5, <1>6, <1>7, <1>8, <1>9, <1>10, <1>11, <1>12, Zenon
     DEF Acts, Watches

-----------------------------------------------------------------------------
(* The steps of BankRequests are those.                                    *)
LEMMA NextViewIs ==
  /\ (View').objects = objects' /\ (View').accounts = accounts' /\ (View').list = list'
  /\ (View').total = total' /\ (View').number = number' /\ (View').all = all'
  BY DEF View

LEMMA BooksStay ==
  ASSUME UNCHANGED Req!books
  PROVE  View' = View
  BY DEF Req!books, View

LEMMA NowIs ==
  ASSUME NEW r
  PROVE  /\ Req!Now(r) = req[r].legs[1] /\ Owing(req[r]) = Req!By(Req!Now(r))
         /\ ObjectAt(View, req[r]) = objects[Req!Now(r).obj]
         /\ ObjectAt(View, req[r]).balance = Req!Balance(r)
  BY ViewIs DEF Req!Now, Owing, ObjectAt, Req!Balance

LEMMA GoesSame ==
  ASSUME NEW r, NEW pc, NEW seen, GoesTo(r, pc, seen)
  PROVE  /\ SameLegs(req'[r], req[r]) /\ req'[r].index = req[r].index
         /\ req'[r].t = req[r].t /\ req'[r].pc = pc /\ req'[r].seen = seen
  BY DEF GoesTo, Same, SameLegs

LEMMA WithdrawActs ==
  ASSUME ReqTypes, NEW r \in Requests, Req!Withdraw(r)
  PROVE  Acts(View, View', req[r], req'[r])
<1> PICK w, q, p : w = View /\ q = req[r] /\ p = req'[r]
  OBVIOUS
<1>1. View' = w
  BY BooksStay DEF Req!Withdraw
<1> PICK pc : pc = IF Req!Covers(Req!Balance(r), -Req!By(Req!Now(r))) THEN "balance" ELSE "ends"
  OBVIOUS
<1>2. q.pc = "check" /\ GoesTo(r, pc, 0)
  BY MovesOn DEF Req!Withdraw, Req!At
<1>3. SameLegs(p, q) /\ p.pc = pc
  BY <1>2, GoesSame
<1>4. /\ Owing(q) = Req!By(Req!Now(r)) /\ ObjectAt(w, q).balance = Req!Balance(r)
  BY NowIs
<1>5. pc = IF Req!Covers(ObjectAt(w, q).balance, -Owing(q)) THEN "balance" ELSE "ends"
  BY <1>4
<1>6. Watches(w, q, p)
  BY <1>2, <1>3, <1>5 DEF Watches, LooksAt, Refuses
<1> QED
  BY <1>1, <1>6 DEF Acts

LEMMA AddToBalanceActs ==
  ASSUME ReqTypes, NEW r \in Requests, Req!addToBalance(r)
  PROVE  Acts(View, View', req[r], req'[r])
<1> PICK w, v, q, p : w = View /\ v = View' /\ q = req[r] /\ p = req'[r]
  OBVIOUS
<1>1. /\ Owing(q) = Req!By(Req!Now(r)) /\ ObjectAt(w, q).balance = Req!Balance(r)
      /\ Req!Now(r) = q.legs[1]
  BY NowIs
<1>2. q.pc \in {"balance", "set balance"}
  BY DEF Req!addToBalance, Req!At
<1>3. CASE q.pc = "balance"
  <2>1. GoesTo(r, "set balance", Req!Balance(r)) /\ UNCHANGED Req!books
    BY <1>3, MovesOn DEF Req!addToBalance, Req!At
  <2> PICK n : n = Req!Balance(r)
    OBVIOUS
  <2>2. SameLegs(p, q) /\ p.pc = "set balance" /\ p.seen = n
    BY <2>1, GoesSame
  <2>3. v = w /\ Watches(w, q, p)
    BY <1>1, <1>3, <2>1, <2>2, BooksStay DEF Watches, LooksAt
  <2> QED
    BY <2>3 DEF Acts
<1>4. CASE q.pc = "set balance"
  <2> PICK n, o : n = Req!Float(q.seen + Owing(q)) /\ o = q.legs[1].obj
    OBVIOUS
  <2>1. /\ GoesTo(r, "total", 0) /\ objects' = [objects EXCEPT ![o].balance = n]
        /\ UNCHANGED <<accounts, list, changes, total, number, all>>
    BY <1>1, <1>4, MovesOn DEF Req!addToBalance, Req!At
  <2>2. SameLegs(p, q) /\ p.pc = "total"
    BY <2>1, GoesSame
  <2>3. SetsBalance(w, v, q, p)
    BY <1>4, <2>1, <2>2, ViewIs, NextViewIs DEF SetsBalance
  <2> QED
    BY <2>3 DEF Acts
<1> QED
  BY <1>2, <1>3, <1>4

LEMMA AddToTotalActs ==
  ASSUME ReqTypes, NEW r \in Requests, Req!addToTotalBalance(r)
  PROVE  Acts(View, View', req[r], req'[r])
<1> PICK w, v, q, p : w = View /\ v = View' /\ q = req[r] /\ p = req'[r]
  OBVIOUS
<1>1. Owing(q) = Req!TotalChange(Req!Now(r))
  BY NowIs DEF Req!TotalChange
<1>2. q.pc \in {"total", "set total"}
  BY DEF Req!addToTotalBalance, Req!At
<1>3. CASE q.pc = "total"
  <2>1. GoesTo(r, "set total", total) /\ UNCHANGED Req!books
    BY <1>3, MovesOn DEF Req!addToTotalBalance, Req!At
  <2>2. SameLegs(p, q) /\ p.pc = "set total" /\ p.seen = w.total
    BY <2>1, GoesSame, ViewIs
  <2>3. v = w /\ Watches(w, q, p)
    BY <1>3, <2>1, <2>2, BooksStay DEF Watches, LooksAt
  <2> QED
    BY <2>3 DEF Acts
<1>4. CASE q.pc = "set total"
  <2> PICK n, pc : n = Req!Float(q.seen + Owing(q)) /\ pc = IF q.opens THEN "ends" ELSE "new"
    OBVIOUS
  <2>1. /\ GoesTo(r, pc, 0) /\ total' = n
        /\ UNCHANGED <<objects, accounts, list, changes, number, all>>
    BY <1>1, <1>4, MovesOn DEF Req!addToTotalBalance, Req!At
  <2>2. SameLegs(p, q) /\ p.pc = pc
    BY <2>1, GoesSame
  <2>3. Sets(w, v, q, p)
    BY <1>4, <2>1, <2>2, ViewIs, NextViewIs DEF Sets
  <2> QED
    BY <2>3 DEF Acts
<1> QED
  BY <1>2, <1>3, <1>4


LEMMA NewTransactionActs ==
  ASSUME ReqTypes, NEW r \in Requests, Req!NewTransaction(r)
  PROVE  Acts(View, View', req[r], req'[r])
<1> PICK w, v, q, p : w = View /\ v = View' /\ q = req[r] /\ p = req'[r]
  OBVIOUS
<1>1. /\ ObjectAt(w, q).balance = Req!Balance(r) /\ Req!Now(r) = q.legs[1]
  BY NowIs
<1>2. q.pc \in {"new", "log"} /\ DOMAIN req = Requests /\ DOMAIN q = Fields
  BY DEF Req!NewTransaction, Req!At, ReqTypes, ReqTyped
<1>3. CASE q.pc = "new"
  <2> PICK t : t = [type |-> Req!Now(r).type, amount |-> Req!Now(r).amount,
                    result |-> Req!Balance(r)]
    OBVIOUS
  <2>1. req' = [req EXCEPT ![r].pc = "log", ![r].t = t] /\ UNCHANGED Req!books
    BY <1>3 DEF Req!NewTransaction, Req!At
  <2>2. /\ p.legs = q.legs /\ p.opens = q.opens /\ p.name = q.name
        /\ p.pc = "log" /\ p.t = t
    BY <1>2, <2>1 DEF Fields
  <2>3. t = [type |-> q.legs[1].type, amount |-> q.legs[1].amount,
             result |-> ObjectAt(w, q).balance]
    BY <1>1, Zenon
  <2>4. LooksAt(w, q, p)
    BY <1>3, <2>2, <2>3 DEF LooksAt, SameLegs
  <2> QED
    BY <2>1, <2>4, BooksStay DEF Acts, Watches
<1>4. CASE q.pc = "log"
  <2>1. /\ GoesTo(r, "number", 0)
        /\ UNCHANGED <<objects, accounts, list, changes, total, number, all>>
    BY <1>4, MovesOn DEF Req!NewTransaction, Req!At
  <2>2. SameLegs(p, q) /\ p.pc = "number" /\ p.t = q.t
    BY <2>1, GoesSame
  <2>3. v = w
    BY <2>1 DEF View
  <2>4. LooksAt(w, q, p)
    BY <1>4, <2>2 DEF LooksAt
  <2> QED
    BY <2>3, <2>4 DEF Acts, Watches
<1> QED
  BY <1>2, <1>3, <1>4

LEMMA StoreNewActs ==
  ASSUME ReqTypes, NEW r \in Requests, Req!StoreNew(r)
  PROVE  Acts(View, View', req[r], req'[r])
<1> PICK w, v, q, p : w = View /\ v = View' /\ q = req[r] /\ p = req'[r]
  OBVIOUS
<1>1. w.number = number
  BY ViewIs
<1>2. /\ q.pc \in {"number", "put", "count", "set count", "return"}
      /\ DOMAIN req = Requests /\ DOMAIN q = Fields
  BY DEF Req!StoreNew, Req!At, ReqTypes, ReqTyped
<1>3. CASE q.pc = "number"
  <2>1. UNCHANGED Req!books /\ GoesTo(r, "put", number)
    BY <1>3, MovesOn DEF Req!StoreNew, Req!At
  <2>2. SameLegs(p, q) /\ p.pc = "put" /\ p.t = q.t /\ p.seen = w.number
    BY <1>1, <2>1, GoesSame
  <2>3. LooksAt(w, q, p)
    BY <1>3, <2>2 DEF LooksAt
  <2> QED
    BY <2>1, <2>3, BooksStay DEF Acts, Watches
<1>4. CASE q.pc = "count"
  <2>1. UNCHANGED Req!books /\ GoesTo(r, "set count", number)
    BY <1>4, MovesOn DEF Req!StoreNew, Req!At
  <2>2. SameLegs(p, q) /\ p.pc = "set count" /\ p.seen = w.number
    BY <1>1, <2>1, GoesSame
  <2>3. LooksAt(w, q, p)
    BY <1>4, <2>2 DEF LooksAt
  <2> QED
    BY <2>1, <2>3, BooksStay DEF Acts, Watches
<1>5. CASE q.pc = "put"
  <2> PICK n, t : n = q.seen /\ t = q.t
    OBVIOUS
  <2>1. /\ GoesTo(r, "count", 0)
        /\ all' = [i \in DOMAIN all \cup {n} |-> IF i = n THEN t ELSE all[i]]
        /\ UNCHANGED <<objects, accounts, list, changes, total, number>>
    BY <1>5, MovesOn DEF Req!StoreNew, Req!At
  <2>2. SameLegs(p, q) /\ p.pc = "count"
    BY <2>1, GoesSame
  <2>3. v.all = [i \in DOMAIN w.all \cup {n} |-> IF i = n THEN t ELSE w.all[i]]
    BY <2>1, ViewIs, NextViewIs
  <2>4. /\ v.objects = w.objects /\ v.accounts = w.accounts /\ v.list = w.list
        /\ v.total = w.total /\ v.number = w.number
    BY <2>1, ViewIs, NextViewIs
  <2>5. Sets(w, v, q, p)
    BY <1>5, <2>2, <2>3, <2>4, Zenon DEF Sets
  <2> QED
    BY <2>5 DEF Acts
<1>6. CASE q.pc = "set count"
  <2>1. /\ GoesTo(r, "return", 0) /\ number' = q.seen + 1
        /\ UNCHANGED <<objects, accounts, list, changes, total, all>>
    BY <1>6, MovesOn DEF Req!StoreNew, Req!At
  <2>2. SameLegs(p, q) /\ p.pc = "return"
    BY <2>1, GoesSame
  <2>3. Sets(w, v, q, p)
    BY <1>6, <2>1, <2>2, ViewIs, NextViewIs DEF Sets
  <2> QED
    BY <2>3 DEF Acts
<1>7. CASE q.pc = "return"
  <2>1. /\ req' = [req EXCEPT ![r].index = Req!OneBefore(number), ![r].pc = "size"]
        /\ UNCHANGED Req!books
    BY <1>7 DEF Req!StoreNew, Req!At
  <2> PICK n : n = Req!OneBefore(number)
    OBVIOUS
  <2>2. /\ p.legs = q.legs /\ p.opens = q.opens /\ p.name = q.name
        /\ p.pc = "size" /\ p.index = n
    BY <1>2, <2>1 DEF Fields
  <2>3. n = w.number - 1
    BY <1>1 DEF Req!OneBefore
  <2>4. LooksAt(w, q, p)
    BY <1>7, <2>2, <2>3 DEF LooksAt, SameLegs
  <2> QED
    BY <2>1, <2>4, BooksStay DEF Acts, Watches
<1> QED
  BY <1>2, <1>3, <1>4, <1>5, <1>6, <1>7

LEMMA TailIs ==
  ASSUME NEW S, NEW l \in Seq(S), l # <<>>
  PROVE  /\ Tail(l) = <<>> <=> Len(l) = 1
         /\ Tail(l) # <<>> => Tail(l)[1] = l[2]
<1>1. Len(l) \in Nat /\ Len(l) # 0
  BY EmptySeq, LenProperties
<1>2. /\ Tail(l) \in Seq(S) /\ Len(Tail(l)) = Len(l) - 1
      /\ \A i \in 1 .. Len(Tail(l)) : Tail(l)[i] = l[i + 1]
  BY HeadTailProperties
<1> PICK t : t = Tail(l)
  OBVIOUS
<1>3. t \in Seq(S) /\ Len(t) = Len(l) - 1
  BY <1>2
<1>4. t = <<>> <=> Len(t) = 0
  BY <1>3, EmptySeq
<1>5. Len(t) # 0 => t[1] = l[2]
  BY <1>1, <1>2, <1>3
<1> QED
  BY <1>1, <1>3, <1>4, <1>5

LEMMA AddKeyActs ==
  ASSUME ReqTypes, NEW r \in Requests, Req!AddKey(r)
  PROVE  Acts(View, View', req[r], req'[r])
<1> PICK w, v, q, p : w = View /\ v = View' /\ q = req[r] /\ p = req'[r]
  OBVIOUS
<1>1. /\ ObjectAt(w, q) = objects[Req!Now(r).obj] /\ Req!Now(r) = q.legs[1]
  BY NowIs
<1>2. /\ q.pc \in {"size", "key"} /\ DOMAIN req = Requests /\ DOMAIN q = Fields
  BY DEF Req!AddKey, Req!At, ReqTypes, ReqTyped
<1>3. CASE q.pc = "size"
  <2> PICK n : n = objects[Req!Now(r).obj].size
    OBVIOUS
  <2>1. UNCHANGED Req!books /\ GoesTo(r, "key", n)
    BY <1>3, MovesOn DEF Req!AddKey, Req!At
  <2>2. SameLegs(p, q) /\ p.pc = "key" /\ p.index = q.index /\ p.seen = n
    BY <2>1, GoesSame
  <2>3. LooksAt(w, q, p)
    BY <1>1, <1>3, <2>2 DEF LooksAt
  <2> QED
    BY <2>1, <2>3, BooksStay DEF Acts, Watches
<1>4. CASE q.pc = "key"
  <2> PICK o, rest : o = q.legs[1].obj /\ rest = Tail(q.legs)
    OBVIOUS
  <2>1. /\ objects' = [objects EXCEPT ![o] = Req!Add(@, q.seen, q.index)]
        /\ UNCHANGED <<accounts, list, changes, total, number, all>>
    BY <1>1, <1>4 DEF Req!AddKey, Req!At
  <2>2. AddsKey(w, v, q)
    BY <1>4, <2>1, ViewIs, NextViewIs DEF AddsKey
  <2>3. /\ q.opens => Req!To(r, "map")
        /\ ~q.opens /\ (rest = <<>> \/ rest[1].obj = 0) => Req!To(r, "ends")
        /\ ~q.opens /\ ~(rest = <<>> \/ rest[1].obj = 0) =>
             req' = [req EXCEPT ![r].legs = rest, ![r].pc = Req!Entry(rest[1])]
    BY <1>4 DEF Req!AddKey, Req!At
  <2>4. CASE q.opens
    <3>1. GoesTo(r, "map", 0)
      BY <2>3, <2>4, MovesOn
    <3>2. Goes(q, p)
      BY <2>4, <3>1, GoesSame DEF Goes
    <3> QED
      BY <2>2, <3>2 DEF Acts
  <2>5. rest = <<>> \/ rest[1].obj = 0 <=> Len(q.legs) = 1 \/ q.legs[2].obj = 0
    <3> PICK l, n : l = q.legs /\ n = Len(objects)
      OBVIOUS
    <3>1. l \in Seq(LegOf(n)) /\ l # <<>>
      BY <1>4, HasObject DEF OnObject, ReqTypes, ReqTyped
    <3>2. Tail(l) = <<>> <=> Len(l) = 1
      BY <3>1, TailIs
    <3>3. Tail(l) # <<>> => Tail(l)[1] = l[2]
      BY <3>1, TailIs
    <3> QED
      BY <3>2, <3>3, Zenon
  <2>6. CASE ~q.opens /\ (rest = <<>> \/ rest[1].obj = 0)
    <3>1. GoesTo(r, "ends", 0)
      BY <2>3, <2>6, MovesOn
    <3>2. Goes(q, p)
      BY <2>5, <2>6, <3>1, GoesSame DEF Goes, OneLeg
    <3> QED
      BY <2>2, <3>2 DEF Acts
  <2>7. CASE ~q.opens /\ ~(rest = <<>> \/ rest[1].obj = 0)
    <3> PICK pc : pc = Req!Entry(rest[1])
      OBVIOUS
    <3>1. req' = [req EXCEPT ![r].legs = rest, ![r].pc = pc]
      BY <2>3, <2>7
    <3>2. p.legs = rest /\ p.opens = q.opens /\ p.pc = pc
      BY <1>2, <3>1 DEF Fields
    <3>3. Goes(q, p)
      BY <2>5, <2>7, <3>2 DEF Goes, OneLeg
    <3> QED
      BY <2>2, <3>3 DEF Acts
  <2> QED
    BY <2>4, <2>6, <2>7
<1> QED
  BY <1>2, <1>3, <1>4


LEMMA OpenAccountActs ==
  ASSUME ReqTypes, NEW r \in Requests, Req!OpenAccount(r)
  PROVE  Acts(View, View', req[r], req'[r])
<1> PICK w, v, q, p : w = View /\ v = View' /\ q = req[r] /\ p = req'[r]
  OBVIOUS
<1>1. Req!Now(r) = q.legs[1]
  BY NowIs
<1>2. /\ q.pc \in {"list", "create", "map"} /\ DOMAIN req = Requests /\ DOMAIN q = Fields
      /\ ReqTyped(q, objects, number) /\ ObjectsTyped(objects)
  BY DEF Req!OpenAccount, Req!At, ReqTypes, ReqTyped, BooksTyped
<1>3. CASE q.pc = "list"
  <2>1. /\ GoesTo(r, "create", 0) /\ list' = Append(list, q.name)
        /\ UNCHANGED <<objects, accounts, total, number, all>>
    BY <1>3, MovesOn DEF Req!OpenAccount, Req!At
  <2>2. SameLegs(p, q) /\ p.pc = "create"
    BY <2>1, GoesSame
  <2>3. ListsName(w, v, q, p)
    BY <1>3, <2>1, <2>2, ViewIs, NextViewIs DEF ListsName
  <2> QED
    BY <2>3 DEF Acts
<1>4. CASE q.pc = "create"
  <2> PICK amount, pc, l :
        /\ amount = q.legs[1].amount /\ pc = (IF amount > 0 THEN "new" ELSE "map")
        /\ l = q.legs
    OBVIOUS
  <2> PICK x, n : /\ x = [balance |-> amount, size |-> 0, keys |-> <<>>]
                  /\ n = Len(objects')
    OBVIOUS
  <2>1. /\ objects' = Append(objects, x)
        /\ req' = [req EXCEPT ![r].legs[1].obj = n, ![r].pc = pc]
        /\ UNCHANGED <<accounts, list, changes, total, number, all>>
    BY <1>1, <1>4 DEF Req!OpenAccount, Req!At
  <2> PICK m : m = [l EXCEPT ![1].obj = n]
    OBVIOUS
  <2>2. p.legs = m /\ p.opens = q.opens /\ p.name = q.name /\ p.pc = pc
    BY <1>2, <2>1 DEF Fields
  <2>3. n = Len(objects) + 1
    <3>1. objects \in Seq(BankObject)
      BY <1>2 DEF ObjectsTyped
    <3>2. x \in BankObject
      <4>1. amount \in Int
        BY <1>2, <1>4, FirstLegIs
      <4> QED
        BY <4>1 DEF BankObject
    <3> QED
      BY <2>1, <3>1, <3>2, AppendProperties
  <2>4. m[1] = [l[1] EXCEPT !.obj = n]
    <3>1. l \in Seq(LegOf(Len(objects))) /\ l # <<>>
      BY <1>2, <1>4 DEF ReqTyped
    <3>2. 1 \in DOMAIN l
      BY <3>1, EmptySeq, LenProperties
    <3> QED
      BY <3>2
  <2>5. Creates(w, v, q, p)
    <3>1. p.legs[1] = [q.legs[1] EXCEPT !.obj = Len(w.objects) + 1]
      BY <2>2, <2>3, <2>4, ViewIs
    <3>2. v.objects = Append(w.objects, x)
      BY <2>1, ViewIs, NextViewIs
    <3>3. /\ v.accounts = w.accounts /\ v.total = w.total /\ v.list = w.list
          /\ v.number = w.number /\ v.all = w.all
      BY <2>1, ViewIs, NextViewIs
    <3> QED
      BY <1>4, <2>2, <3>1, <3>2, <3>3, Zenon DEF Creates
  <2> QED
    BY <2>5 DEF Acts
<1>5. CASE q.pc = "map"
  <2> PICK o : o = q.legs[1].obj
    OBVIOUS
  <2>1. /\ GoesTo(r, "total", 0) /\ accounts' = [accounts EXCEPT ![q.name] = o]
        /\ UNCHANGED <<objects, list, changes, total, number, all>>
    BY <1>1, <1>5, MovesOn DEF Req!OpenAccount, Req!At
  <2>2. SameLegs(p, q) /\ p.pc = "total"
    BY <2>1, GoesSame
  <2>3. Maps(w, v, q, p)
    BY <1>5, <2>1, <2>2, ViewIs, NextViewIs DEF Maps
  <2> QED
    BY <2>3 DEF Acts
<1> QED
  BY <1>2, <1>3, <1>4, <1>5

LEMMA RemoveFromBooksActs ==
  ASSUME ReqTypes, NEW r \in Requests, Req!RemoveFromBooks(r)
  PROVE  Acts(View, View', req[r], req'[r])
<1> PICK w, v, q, p : w = View /\ v = View' /\ q = req[r] /\ p = req'[r]
  OBVIOUS
<1>1. q.pc \in {"unlist", "unmap"}
  BY DEF Req!RemoveFromBooks, Req!At
<1>2. CASE q.pc = "unlist"
  <2> PICK a : a = q.name
    OBVIOUS
  <2>1. /\ GoesTo(r, "unmap", 0) /\ list' = Req!RemoveFirst(list, a)
        /\ UNCHANGED <<objects, accounts, total, number, all>>
    BY <1>2, MovesOn DEF Req!RemoveFromBooks, Req!At
  <2>2. list' = RemoveFirst(list, a)
    BY <2>1, SameRemoval
  <2>3. SameLegs(p, q) /\ p.pc = "unmap"
    BY <2>1, GoesSame
  <2>4. Unlists(w, v, q, p)
    BY <1>2, <2>1, <2>2, <2>3, ViewIs, NextViewIs DEF Unlists
  <2> QED
    BY <2>4 DEF Acts
<1>3. CASE q.pc = "unmap"
  <2>1. /\ GoesTo(r, "ends", 0) /\ accounts' = [accounts EXCEPT ![q.name] = 0]
        /\ UNCHANGED <<objects, list, changes, total, number, all>>
    BY <1>3, MovesOn DEF Req!RemoveFromBooks, Req!At
  <2>2. SameLegs(p, q) /\ p.pc = "ends"
    BY <2>1, GoesSame
  <2>3. Unmaps(w, v, q, p)
    BY <1>3, <2>1, <2>2, ViewIs, NextViewIs DEF Unmaps
  <2> QED
    BY <2>3 DEF Acts
<1> QED
  BY <1>1, <1>2, <1>3

(* A page that fails is no longer there.                                   *)
Fails(r) == req'[r].pc = "failed" /\ UNCHANGED accounts

LEMMA PageActs ==
  ASSUME ReqTypes, NEW r \in Requests, Req!CollectAccounts(r) \/ Req!ShowAccount(r)
  PROVE  Fails(r) \/ Acts(View, View', req[r], req'[r])
<1> PICK w, q, p : w = View /\ q = req[r] /\ p = req'[r]
  OBVIOUS
<1>1. /\ q.pc \in {"collect", "show"} /\ UNCHANGED Req!books
      /\ DOMAIN req = Requests /\ DOMAIN q = Fields
  BY DEF Req!CollectAccounts, Req!ShowAccount, Req!At, ReqTypes, ReqTyped
<1>2. \/ \E pc \in {"show", "failed", "ends"} : Req!To(r, pc)
      \/ \E page : req' = [req EXCEPT ![r].page = page]
  BY DEF Req!CollectAccounts, Req!ShowAccount
<1>3. p.pc \in {"collect", "show", "failed", "ends"}
  <2>1. CASE \E pc \in {"show", "failed", "ends"} : Req!To(r, pc)
    <3>1. PICK pc \in {"show", "failed", "ends"} : GoesTo(r, pc, 0)
      BY <2>1, MovesOn
    <3> QED
      BY <3>1, GoesSame
  <2>2. CASE \E page : req' = [req EXCEPT ![r].page = page]
    <3>1. p.pc = q.pc
      BY <1>1, <2>2 DEF Fields
    <3> QED
      BY <1>1, <3>1
  <2> QED
    BY <1>2, <2>1, <2>2
<1>4. View' = w
  BY <1>1, BooksStay
<1>5. CASE p.pc # "failed"
  <2>1. Shows(q, p)
    BY <1>1, <1>3, <1>5 DEF Shows
  <2> QED
    BY <1>4, <2>1 DEF Acts, Watches
<1>6. UNCHANGED accounts
  BY <1>1 DEF Req!books
<1> QED
  BY <1>5, <1>6 DEF Fails

LEMMA RunActs ==
  ASSUME ReqTypes, NEW r \in Requests, Req!Run(r)
  PROVE  Req!Ends(r) \/ Fails(r) \/ Acts(View, View', req[r], req'[r])
  BY WithdrawActs, AddToBalanceActs, AddToTotalActs, NewTransactionActs, StoreNewActs,
     AddKeyActs, OpenAccountActs, RemoveFromBooksActs, PageActs DEF Req!Run

-----------------------------------------------------------------------------
(* A request that is asked, with no other at work, begins to do what the   *)
(* method does.                                                            *)
WillDo(q, result) ==
  /\ ~Unnamed(q) /\ OpensIt(q)
  /\ Req!HeldExactly(Req!Ledger) /\ Req!HeldExactly(result) => Doing(View, q, result)

LEMMA NoObjectYet ==
  ASSUME NEW q, q.pc \in {"check", "balance", "unlist", "collect"} \/ (q.pc = "list" /\ q.opens)
  PROVE  ~Unnamed(q) /\ OpensIt(q)
  BY DEF Unnamed, OpensIt, OnObject, UntilTotal, UntilBalance

LEMMA OpenIs ==
  ASSUME NEW a \in Req!Open, NEW q, q.legs[1].obj = Req!Object(a)
  PROVE  /\ a \in Accounts /\ View.accounts[a] # 0 /\ q.legs[1].obj = View.accounts[a]
         /\ LedgerIn(View).accounts[a].balance = ObjectAt(View, q).balance
<1>1. a \in Accounts /\ accounts[a] # 0 /\ Req!Object(a) = accounts[a]
  BY DEF Req!Open, Req!Object
<1>2. LedgerIn(View).accounts[a] = AccountIn(View, a)
  BY <1>1, LedgerInIs DEF LedgerAs
<1>3. AccountIn(View, a) = AccountOf(ObjectAt(View, q))
  BY <1>1, ViewIs DEF AccountIn, ObjectAt
<1> QED
  BY <1>1, <1>2, <1>3, ViewIs, AccountOfIs

(* Its first leg begins, or is refused.                                    *)
FirstLegOf(q, a) ==
  /\ ~q.opens /\ q.pc = Req!Entry(q.legs[1]) /\ q.legs[1].obj = Req!Object(a)
  /\ q.legs[1].type \in TransactionType /\ q.legs[1].amount \in Int
Agreed(q, a) == Req!Succeeds(Req!Ledger, a, q.legs[1].type, q.legs[1].amount)

LEMMA AgreedIs ==
  ASSUME NEW a \in Req!Open, NEW q, FirstLegOf(q, a)
  PROVE  Agreed(q, a) <=>
           Owing(q) >= 0 \/ Req!Covers(ObjectAt(View, q).balance, -Owing(q))
<1> PICK u, type, n : u = Req!Ledger /\ type = q.legs[1].type /\ n = q.legs[1].amount
  OBVIOUS
<1>1. Owing(q) = Req!Change(type, n)
  BY DEF Owing, Req!By
<1>2. u.accounts[a].balance = ObjectAt(View, q).balance
  BY OpenIs, LedgerIs DEF FirstLegOf
<1> QED
  BY <1>1, <1>2, Zenon DEF Agreed, Req!Succeeds

LEMMA RefusedAtOnce ==
  ASSUME NEW a \in Req!Open, NEW q, FirstLegOf(q, a), ~Agreed(q, a)
  PROVE  Doing(View, q, Req!Ledger)
<1>1. /\ ~(Owing(q) >= 0) /\ ~Req!Covers(ObjectAt(View, q).balance, -Owing(q))
  BY AgreedIs
<1>2. q.pc = "check"
  BY <1>1 DEF FirstLegOf, Req!Entry, Owing
<1>3. Refused(View, q, Req!Ledger)
  BY <1>1, <1>2, LedgerIs DEF Refused
<1> QED
  BY <1>2, <1>3 DEF Doing, Paying, OnLeg, OnObject

LEMMA FirstLegBegins ==
  ASSUME BooksTyped, OneOwner, NEW a \in Req!Open, NEW q, FirstLegOf(q, a), Agreed(q, a),
         NEW d, Makes(d, Req!Ledger, q, a)
  PROVE  /\ d.total \in Int /\ d.accounts[a].balance \in Int
         /\ d.total \in Near /\ d.accounts[a].balance \in Near => Toward(View, q, d, a)
         /\ q.pc \in OnLeg
<1> PICK w, u : w = View /\ u = Req!Ledger
  OBVIOUS
<1>1. ViewTyped(w) /\ LedgerAs(u, w)
  BY ViewIsTyped, LedgerIs, LedgerInIs
<1>2. a \in Accounts /\ w.accounts[a] # 0 /\ q.legs[1].obj = w.accounts[a]
  BY OpenIs DEF FirstLegOf
<1>3. MadeFrom(d, w, q, a)
  BY <1>1, <1>2, MakesAs DEF FirstLegOf
<1>4. d.total \in Int /\ d.accounts[a].balance \in Int
  BY <1>3, MadeTyped
<1>5. q.pc \in {"check", "balance"}
  BY DEF FirstLegOf, Req!Entry
<1>6. q.pc = "check" => Req!Covers(ObjectAt(w, q).balance, -Owing(q))
  <2>1. q.pc = "check" => ~(Owing(q) >= 0)
    BY DEF FirstLegOf, Req!Entry, Owing
  <2> QED
    BY <2>1, AgreedIs
<1>7. BeginsAt(w, q, a)
  <2>1. \A b \in Accounts : w.accounts[b] = w.accounts[a] => b = a
    BY <1>2, ViewIs DEF OneOwner
  <2> QED
    BY <1>2, <1>6, <2>1 DEF BeginsAt, FirstLegOf
<1>8. d.total \in Near /\ d.accounts[a].balance \in Near => Toward(w, q, d, a)
  BY <1>1, <1>2, <1>7, LegBegins DEF FirstLegOf
<1> QED
  BY <1>4, <1>5, <1>8 DEF OnLeg, OnObject

LEMMA StartTransactionDoes ==
  ASSUME BooksTyped, OneOwner, NEW r \in Requests, Req!StartTransaction(r)
  PROVE  \E q, result : Req!Asks(r, q, result) /\ WillDo(q, result)
<1>1. PICK a \in Req!Open, type \in {"DEPOSIT", "WITHDRAWAL"}, n \in Amounts :
        LET leg == Req!Leg(Req!Object(a), type, n)
        IN  Req!Asks(r, [Req!Waiting EXCEPT !.legs = <<leg>>, !.pc = Req!Entry(leg)],
                     IF Req!Succeeds(Req!Ledger, a, type, n)
                       THEN Req!MakeTransaction(Req!Ledger, a, type, n) ELSE Req!Ledger)
  BY DEF Req!StartTransaction
<1> PICK leg, pc, u : /\ leg = Req!Leg(Req!Object(a), type, n) /\ pc = Req!Entry(leg)
                      /\ u = Req!Ledger
  OBVIOUS
<1> PICK q : q = [Req!Waiting EXCEPT !.legs = <<leg>>, !.pc = pc]
  OBVIOUS
<1> PICK result : result = IF Req!Succeeds(u, a, type, n)
                             THEN Req!MakeTransaction(u, a, type, n) ELSE u
  OBVIOUS
<1>2. Req!Asks(r, q, result)
  BY <1>1
<1>3. q.legs = <<leg>> /\ q.pc = pc /\ q.opens = FALSE
  BY DEF Req!Waiting
<1>4. q.legs[1] = leg /\ Len(q.legs) = 1
  BY <1>3
<1>5. leg.obj = Req!Object(a) /\ leg.type = type /\ leg.amount = n
  BY DEF Req!Leg
<1>6. FirstLegOf(q, a)
  <2>1. n \in Int /\ type \in TransactionType
    BY AmountsAre DEF TransactionType
  <2> QED
    BY <1>3, <1>4, <1>5, <2>1 DEF FirstLegOf
<1>7. Agreed(q, a) <=> Req!Succeeds(u, a, type, n)
  BY <1>4, <1>5 DEF Agreed
<1>8. ~Unnamed(q) /\ OpensIt(q)
  <2>1. q.pc \in {"check", "balance"}
    BY <1>6 DEF FirstLegOf, Req!Entry
  <2> QED
    BY <2>1, NoObjectYet
<1>9. CASE ~Agreed(q, a)
  BY <1>2, <1>6, <1>7, <1>9, <1>8, RefusedAtOnce DEF WillDo
<1>10. CASE Agreed(q, a)
  <2>1. Makes(result, u, q, a)
    BY <1>4, <1>5, <1>7, <1>10 DEF Makes
  <2>2. a \in Accounts
    BY DEF Req!Open
  <2>3. ASSUME Req!HeldExactly(result)
        PROVE  Doing(View, q, result)
    <3>1. /\ result.total \in Int /\ result.accounts[a].balance \in Int
          /\ result.total \in Near /\ result.accounts[a].balance \in Near
               => Toward(View, q, result, a)
          /\ q.pc \in OnLeg
      BY <1>6, <1>10, <2>1, FirstLegBegins
    <3>2. Toward(View, q, result, a)
      BY <2>2, <2>3, <3>1, HeldIsNear
    <3>3. Leads(View, q, result, a, result)
      BY <1>4 DEF Leads, OneLeg
    <3> QED
      BY <2>2, <3>1, <3>2, <3>3 DEF Doing, Paying
  <2> QED
    BY <1>2, <1>8, <2>3 DEF WillDo
<1> QED
  BY <1>9, <1>10

LEMMA NamesAre ==
  ASSUME NEW a \in Accounts
  PROVE  a \in Req!Names(Req!Ledger) <=> accounts[a] # 0
<1> PICK u, acc : u = Req!Ledger /\ acc = u.accounts[a]
  OBVIOUS
<1>1. acc = AccountIn(View, a)
  BY LedgerIs, LedgerInIs DEF LedgerAs
<1>2. accounts[a] = 0 => acc = Req!NoAccount
  BY <1>1, ViewIs DEF AccountIn
<1>3. accounts[a] # 0 => acc.type = Req!Kind
  BY <1>1, ViewIs, AccountOfIs DEF AccountIn
<1>4. Req!NoAccount.type = Req!NoType
  BY DEF Req!NoAccount
<1>5. accounts[a] # 0 => acc # Req!NoAccount
  BY <1>3, <1>4, KindIs
<1> QED
  BY <1>2, <1>5 DEF Req!Names

(* What is paid is covered, so all stays within what is held exactly.      *)
LEMMA PaidIsNear ==
  ASSUME NEW sum \in Int, NEW balance \in Int, NEW n \in Nat, n <= balance,
         2 * sum \in Near, 2 * balance \in Near
  PROVE  sum - n \in Near /\ balance - n \in Near
  BY ExactIs DEF Near

Pays(d, u, from, n) == d = Req!MakeTransaction(u, from, "TRANSFER", -n)
Received(result, d, to, n) == result = Req!MakeTransaction(d, to, "TRANSFER", n)
Transfers(result, u, from, to, n) == result = Req!MakeTransfer(u, from, to, n)

LEMMA TransferIs ==
  ASSUME NEW u, NEW from, NEW to, from # to, NEW n, NEW result,
         Transfers(result, u, from, to, n), NEW d, Pays(d, u, from, n)
  PROVE  \/ ~Req!Succeeds(u, from, "TRANSFER", -n) /\ result = u
         \/ /\ Req!Succeeds(u, from, "TRANSFER", -n)
            /\ IF to \in Req!Names(u) THEN Received(result, d, to, n) ELSE result = d
  BY Zenon DEF Transfers, Pays, Received, Req!MakeTransfer

LEMMA StartTransferDoes ==
  ASSUME BooksTyped, OneOwner, NEW r \in Requests, Req!StartTransfer(r)
  PROVE  \E q, result : Req!Asks(r, q, result) /\ WillDo(q, result)
<1>1. PICK from \in Req!Open, to \in Accounts, n \in Amounts :
        /\ from # to
        /\ Req!Asks(r, [Req!Waiting EXCEPT !.pc = "check",
                          !.legs = <<Req!Leg(Req!Object(from), "TRANSFER", -n),
                                     Req!Leg(Req!Object(to), "TRANSFER", n)>>],
                    Req!MakeTransfer(Req!Ledger, from, to, n))
  BY DEF Req!StartTransfer
<1> PICK leg, other, u : /\ leg = Req!Leg(Req!Object(from), "TRANSFER", -n)
                         /\ other = Req!Leg(Req!Object(to), "TRANSFER", n)
                         /\ u = Req!Ledger
  OBVIOUS
<1> PICK q : q = [Req!Waiting EXCEPT !.pc = "check", !.legs = <<leg, other>>]
  OBVIOUS
<1> PICK result : Transfers(result, u, from, to, n)
  BY DEF Transfers
<1> PICK d : Pays(d, u, from, n)
  BY DEF Pays
<1>2. Req!Asks(r, q, result)
  BY <1>1 DEF Transfers
<1>3. q.legs = <<leg, other>> /\ q.pc = "check" /\ q.opens = FALSE
  BY DEF Req!Waiting
<1>4. q.legs[1] = leg /\ q.legs[2] = other /\ Len(q.legs) = 2
  BY <1>3
<1>5. /\ leg.obj = Req!Object(from) /\ leg.type = "TRANSFER" /\ leg.amount = -n
      /\ other.obj = Req!Object(to) /\ other.type = "TRANSFER" /\ other.amount = n
  BY DEF Req!Leg
<1>6. n \in Nat /\ n > 0 /\ from \in Accounts
  BY RequestsAssumption DEF Req!RequestsAssumption, Req!Open
<1>7. Owing(q) = -n /\ Req!By(other) = n
  BY <1>4, <1>5 DEF Owing, Req!By, Req!Change
<1>8. FirstLegOf(q, from)
  <2>1. q.pc = Req!Entry(q.legs[1])
    BY <1>3, <1>6, <1>7 DEF Req!Entry, Owing
  <2> QED
    BY <1>3, <1>4, <1>5, <1>6, <2>1 DEF FirstLegOf, TransactionType
<1>9. Agreed(q, from) <=> Req!Succeeds(u, from, "TRANSFER", -n)
  BY <1>4, <1>5 DEF Agreed
<1>10. CASE ~Agreed(q, from)
  <2>1. result = u
    BY <1>1, <1>9, <1>10, TransferIs
  <2> QED
    BY <1>2, <1>3, <1>8, <1>10, <2>1, RefusedAtOnce, NoObjectYet DEF WillDo
<1>11. CASE Agreed(q, from)
  <2>1. IF to \in Req!Names(u) THEN Received(result, d, to, n) ELSE result = d
    BY <1>1, <1>9, <1>11, TransferIs
  <2>2. Makes(d, u, q, from)
    BY <1>4, <1>5 DEF Makes, Pays
  <2>3. /\ d.total \in Int /\ d.accounts[from].balance \in Int
        /\ d.total \in Near /\ d.accounts[from].balance \in Near => Toward(View, q, d, from)
        /\ q.pc \in OnLeg
    BY <1>8, <1>11, <2>2, FirstLegBegins
  <2>4. ASSUME Req!HeldExactly(u)
        PROVE  d.total \in Near /\ d.accounts[from].balance \in Near
    <3> PICK x : x = ObjectAt(View, q)
      OBVIOUS
    <3>1. MadeFrom(d, View, q, from)
      BY <1>8, <2>2, OpenIs, LedgerIs, LedgerInIs, ViewIsTyped, MakesAs DEF FirstLegOf
    <3>2. /\ d.total = View.total + Owing(q) /\ d.accounts[from].balance = x.balance + Owing(q)
          /\ x.balance \in Int /\ View.total \in Int
      BY <3>1 DEF MadeFrom
    <3>3. u.total = View.total /\ u.accounts[from].balance = x.balance
      BY <1>8, OpenIs, LedgerIs, LedgerInIs DEF LedgerAs, FirstLegOf
    <3>4. 2 * View.total \in Near /\ 2 * x.balance \in Near
      BY <1>6, <2>4, <3>3 DEF Req!HeldExactly, Near
    <3>5. n <= x.balance
      <4>1. Req!Covers(x.balance, n)
        <5>1. -Owing(q) = n /\ ~(Owing(q) >= 0)
          BY <1>6, <1>7
        <5> QED
          BY <1>8, <1>11, <5>1, AgreedIs
      <4> QED
        BY <4>1 DEF Req!Covers
    <3>6. View.total - n \in Near /\ x.balance - n \in Near
      BY <1>6, <3>2, <3>4, <3>5, PaidIsNear
    <3>7. d.total = View.total - n /\ d.accounts[from].balance = x.balance - n
      BY <1>6, <1>7, <3>2
    <3> QED
      BY <3>6, <3>7
  <2>5. Leads(View, q, d, from, result)
    <3>1. to \in Req!Names(u) <=> accounts[to] # 0
      BY NamesAre
    <3>2. other.obj = accounts[to] /\ View.accounts = accounts
      BY <1>5, ViewIs DEF Req!Object
    <3>3. CASE accounts[to] = 0
      BY <1>4, <2>1, <3>1, <3>2, <3>3 DEF Leads, OneLeg
    <3>4. CASE accounts[to] # 0
      <4>1. ~OneLeg(q)
        BY <1>3, <1>4, <3>2, <3>4 DEF OneLeg
      <4>2. result = Req!MakeTransaction(d, to, q.legs[2].type, q.legs[2].amount)
        BY <1>4, <1>5, <2>1, <3>1, <3>4 DEF Received
      <4>3. \A c \in Accounts : accounts[c] = accounts[to] => c = to
        BY <3>4 DEF OneOwner
      <4>4. Req!By(q.legs[2]) >= 0
        BY <1>4, <1>6, <1>7
      <4> QED
        BY <1>1, <1>4, <3>2, <4>1, <4>2, <4>3, <4>4 DEF Leads
    <3> QED
      BY <3>3, <3>4
  <2>6. Req!HeldExactly(u) => Doing(View, q, result)
    BY <1>6, <2>3, <2>4, <2>5 DEF Doing, Paying
  <2> QED
    BY <1>2, <1>3, <2>6, NoObjectYet DEF WillDo
<1> QED
  BY <1>10, <1>11

LEMMA StartOpeningDoes ==
  ASSUME NEW r \in Requests, Req!StartOpening(r)
  PROVE  \E q, result : Req!Asks(r, q, result) /\ WillDo(q, result)
<1>1. PICK a \in Accounts \ Req!Open, n \in Openings :
        Req!Asks(r, [Req!Waiting EXCEPT !.pc = "list", !.opens = TRUE, !.name = a,
                       !.legs = <<Req!Leg(0, "DEPOSIT", n)>>],
                 Req!AddAccount(Req!Ledger, Req!Kind, a, n))
  BY DEF Req!StartOpening
<1> PICK leg : leg = Req!Leg(0, "DEPOSIT", n)
  OBVIOUS
<1> PICK q : q = [Req!Waiting EXCEPT !.pc = "list", !.opens = TRUE, !.name = a,
                                     !.legs = <<leg>>]
  OBVIOUS
<1> PICK result : result = Req!AddAccount(Req!Ledger, Req!Kind, a, n)
  OBVIOUS
<1>2. q.legs = <<leg>> /\ q.pc = "list" /\ q.opens = TRUE /\ q.name = a
  BY DEF Req!Waiting
<1>3. q.legs[1].type = "DEPOSIT" /\ q.legs[1].amount = n
  BY <1>2 DEF Req!Leg
<1>4. View.accounts[a] = 0
  BY ViewIs DEF Req!Open, Req!Object
<1>5. result = Req!AddAccount(LedgerIn(View), Req!Kind, q.name, q.legs[1].amount)
  BY <1>2, <1>3, LedgerIs
<1>6. Doing(View, q, result)
  BY <1>2, <1>3, <1>4, <1>5 DEF Doing, Opening
<1> QED
  BY <1>1, <1>2, <1>6, NoObjectYet DEF WillDo

LEMMA StartRemovalDoes ==
  ASSUME NEW r \in Requests, Req!StartRemoval(r)
  PROVE  \E q, result : Req!Asks(r, q, result) /\ WillDo(q, result)
<1>1. PICK a \in Req!Open :
        /\ Req!NoMore(Req!Object(a))
        /\ Req!Asks(r, [Req!Waiting EXCEPT !.pc = "unlist", !.name = a],
                    Req!RemoveAccount(Req!Ledger, a))
  BY DEF Req!StartRemoval
<1> PICK q : q = [Req!Waiting EXCEPT !.pc = "unlist", !.name = a]
  OBVIOUS
<1> PICK result : result = Req!RemoveAccount(Req!Ledger, a)
  OBVIOUS
<1>2. q.pc = "unlist" /\ q.name = a
  BY DEF Req!Waiting
<1>3. View.accounts[a] # 0 /\ objects[View.accounts[a]].balance <= 0
  BY <1>1, ViewIs DEF Req!Open, Req!Object, Req!NoMore
<1>4. AccountIn(View, a).balance <= 0
  BY <1>3, ViewIs, AccountOfIs DEF AccountIn
<1>5. result = Req!RemoveAccount(LedgerIn(View), q.name)
  BY <1>2, LedgerIs
<1>6. Doing(View, q, result)
  BY <1>2, <1>3, <1>4, <1>5 DEF Doing, Closing
<1> QED
  BY <1>1, <1>2, <1>6, NoObjectYet DEF WillDo

LEMMA StartPageDoes ==
  ASSUME NEW r \in Requests, Req!StartPage(r)
  PROVE  \E q, result : Req!Asks(r, q, result) /\ WillDo(q, result)
<1> PICK q : q = [Req!Waiting EXCEPT !.pc = "collect", !.index = changes]
  OBVIOUS
<1>1. Req!Asks(r, q, Req!Ledger)
  BY DEF Req!StartPage
<1>2. q.pc = "collect"
  BY DEF Req!Waiting
<1>3. Doing(View, q, Req!Ledger)
  BY <1>2, LedgerIs DEF Doing
<1> QED
  BY <1>1, <1>2, <1>3, NoObjectYet DEF WillDo

LEMMA StartDoes ==
  ASSUME BooksTyped, OneOwner, NEW r \in Requests, Req!Start(r)
  PROVE  \E q, result : Req!Asks(r, q, result) /\ WillDo(q, result)
  BY StartTransactionDoes, StartTransferDoes, StartOpeningDoes, StartRemovalDoes,
     StartPageDoes DEF Req!Start

-----------------------------------------------------------------------------
(* No object gets a second owner.                                          *)
ActsOf(r) == \A q \in Requests \ {r} : req'[q] = req[q]

LEMMA OwnedStays ==
  ASSUME Owned, NEW r \in Requests, ActsOf(r), OneOwner', OpensIt(req'[r]),
         Unnamed(req'[r]) => /\ Unnamed(req[r])
                             /\ req'[r].legs[1].obj = req[r].legs[1].obj,
         \A q \in Requests : Unnamed(req'[q]) =>
           \A a \in Accounts : accounts'[a] = accounts[a] \/ accounts'[a] # req'[q].legs[1].obj
  PROVE  Owned'
<1>1. \A q \in Requests : Unnamed(req'[q]) =>
        Unnamed(req[q]) /\ req'[q].legs[1].obj = req[q].legs[1].obj
  BY DEF ActsOf
<1>2. \A q \in Requests : Unnamed(req'[q]) =>
        \A a \in Accounts : accounts'[a] # req'[q].legs[1].obj
  BY <1>1 DEF Owned
<1>3. \A q, p \in Requests : Unnamed(req'[q]) /\ Unnamed(req'[p]) /\ q # p =>
        req'[q].legs[1].obj # req'[p].legs[1].obj
  BY <1>1 DEF Owned
<1>4. \A q \in Requests : OpensIt(req'[q])
  BY DEF ActsOf, Owned
<1> QED
  BY <1>2, <1>3, <1>4 DEF Owned

LEMMA OwnedAside ==
  ASSUME Owned, NEW r \in Requests, ActsOf(r), OpensIt(req'[r]), UNCHANGED accounts,
         Unnamed(req'[r]) => /\ Unnamed(req[r])
                             /\ req'[r].legs[1].obj = req[r].legs[1].obj
  PROVE  Owned'
<1>1. OneOwner'
  BY DEF Owned, OneOwner
<1> QED
  BY <1>1, OwnedStays

(* What a step does to the accounts, and to the object of an opening.      *)
KeepsObject(q, p) ==
  OpensIt(p) /\ (Unnamed(p) => Unnamed(q) /\ p.legs[1].obj = q.legs[1].obj)

LEMMA ActsKeep ==
  ASSUME NEW w, NEW v, NEW q, NEW p, OpensIt(q), Acts(w, v, q, p)
  PROVE  \/ KeepsObject(q, p) /\ v.accounts = w.accounts
         \/ Creates(w, v, q, p)
         \/ KeepsObject(q, p) /\ (Maps(w, v, q, p) \/ Unmaps(w, v, q, p))
<1> USE DEF OnObject, UntilTotal, UntilBalance
<1>1. CASE v = w /\ LooksAt(w, q, p)
  <2>1. p.legs = q.legs /\ p.opens = q.opens
    BY <1>1 DEF LooksAt, SameLegs
  <2>2. KeepsObject(q, p)
    BY <1>1, <2>1 DEF LooksAt, KeepsObject, Unnamed, OpensIt
  <2> QED
    BY <1>1, <2>2
<1>2. CASE v = w /\ (Shows(q, p) \/ (Refuses(w, q) /\ p.pc = "ends"))
  BY <1>2 DEF Shows, KeepsObject, Unnamed, OpensIt
<1>3. CASE SetsBalance(w, v, q, p)
  BY <1>3 DEF SetsBalance, KeepsObject, Unnamed, OpensIt
<1>4. CASE Sets(w, v, q, p)
  <2>1. p.legs = q.legs /\ p.opens = q.opens /\ v.accounts = w.accounts
    BY <1>4 DEF Sets, SameLegs
  <2>2. KeepsObject(q, p)
    BY <1>4, <2>1 DEF Sets, KeepsObject, Unnamed, OpensIt
  <2> QED
    BY <2>1, <2>2
<1>5. CASE AddsKey(w, v, q) /\ Goes(q, p)
  <2>1. q.pc = "key" /\ v.accounts = w.accounts
    BY <1>5 DEF AddsKey
  <2>2. CASE q.opens /\ p.pc = "map" /\ SameLegs(p, q)
    BY <2>1, <2>2 DEF KeepsObject, Unnamed, OpensIt, SameLegs
  <2>3. CASE ~q.opens /\ OneLeg(q) /\ p.pc = "ends"
    BY <2>1, <2>3 DEF KeepsObject, Unnamed, OpensIt
  <2>4. CASE /\ ~OneLeg(q) /\ p.opens = q.opens
             /\ p.pc = Req!Entry(p.legs[1]) /\ p.legs = Tail(q.legs)
    <3>1. p.pc \in {"check", "balance"}
      BY <2>4 DEF Req!Entry
    <3> QED
      BY <2>1, <3>1 DEF KeepsObject, Unnamed, OpensIt
  <2> QED
    BY <1>5, <2>2, <2>3, <2>4, Zenon DEF Goes
<1>6. CASE ListsName(w, v, q, p)
  BY <1>6 DEF ListsName, KeepsObject, Unnamed, OpensIt, SameLegs
<1>7. CASE Maps(w, v, q, p)
  BY <1>7 DEF Maps, KeepsObject, Unnamed, OpensIt
<1>8. CASE Unlists(w, v, q, p)
  BY <1>8 DEF Unlists, KeepsObject, Unnamed, OpensIt
<1>9. CASE Unmaps(w, v, q, p)
  BY <1>9 DEF Unmaps, KeepsObject, Unnamed, OpensIt
<1> QED
  BY <1>1, <1>2, <1>3, <1>4, <1>5, <1>6, <1>7, <1>8, <1>9, Zenon DEF Acts, Watches

LEMMA OneIsMoved ==
  ASSUME ReqTypes, NEW r \in Requests
  PROVE  /\ \A pc : Req!To(r, pc) => ActsOf(r)
         /\ \A n, pc : Req!Reads(r, n, pc) => ActsOf(r)
  BY MovesOn, Zenon DEF GoesTo, ActsOf

LEMMA OnlyOneMoves ==
  ASSUME ReqTypes, NEW r \in Requests, Req!Run(r)
  PROVE  ActsOf(r)
<1>1. DOMAIN req = Requests
  BY DEF ReqTypes
<1>2. CASE Req!Withdraw(r)
  BY <1>2, OneIsMoved, Zenon DEF Req!Withdraw
<1>3. CASE Req!addToBalance(r) \/ Req!addToTotalBalance(r)
  BY <1>3, OneIsMoved, Zenon DEF Req!addToBalance, Req!addToTotalBalance
<1>4. CASE Req!NewTransaction(r)
  BY <1>1, <1>4, OneIsMoved DEF Req!NewTransaction, ActsOf
<1>5. CASE Req!StoreNew(r)
  BY <1>1, <1>5, OneIsMoved DEF Req!StoreNew, ActsOf
<1>6. CASE Req!AddKey(r)
  BY <1>1, <1>6, OneIsMoved DEF Req!AddKey, ActsOf
<1>7. CASE Req!OpenAccount(r)
  BY <1>1, <1>7, OneIsMoved DEF Req!OpenAccount, ActsOf
<1>8. CASE Req!RemoveFromBooks(r)
  BY <1>8, OneIsMoved, Zenon DEF Req!RemoveFromBooks
<1>9. CASE Req!CollectAccounts(r) \/ Req!ShowAccount(r)
  BY <1>1, <1>9, OneIsMoved DEF Req!CollectAccounts, Req!ShowAccount, ActsOf
<1>10. CASE Req!Ends(r)
  BY <1>1, <1>10 DEF Req!Ends, ActsOf
<1> QED
  BY <1>2, <1>3, <1>4, <1>5, <1>6, <1>7, <1>8, <1>9, <1>10, Zenon DEF Req!Run

LEMMA RunsWhenBusy ==
  ASSUME NEW r \in Requests, Req!Run(r)
  PROVE  r \in Req!Busy
<1> USE DEF Req!At
<1>1. Req!Withdraw(r) \/ Req!addToBalance(r) \/ Req!addToTotalBalance(r) =>
        req[r].pc \in {"check", "balance", "set balance", "total", "set total"}
  BY DEF Req!Withdraw, Req!addToBalance, Req!addToTotalBalance
<1>2. Req!NewTransaction(r) => req[r].pc \in {"new", "log"}
  BY DEF Req!NewTransaction
<1>3. Req!StoreNew(r) => req[r].pc \in {"number", "put", "count", "set count", "return"}
  BY DEF Req!StoreNew
<1>4. Req!AddKey(r) => req[r].pc \in {"size", "key"}
  BY DEF Req!AddKey
<1>5. Req!OpenAccount(r) => req[r].pc \in {"list", "create", "map"}
  BY DEF Req!OpenAccount
<1>6. Req!RemoveFromBooks(r) \/ Req!CollectAccounts(r) \/ Req!ShowAccount(r) \/ Req!Ends(r)
        => req[r].pc \in {"unlist", "unmap", "collect", "show", "ends"}
  BY DEF Req!RemoveFromBooks, Req!CollectAccounts, Req!ShowAccount, Req!Ends
<1>7. req[r].pc \notin {"idle", "failed"}
  BY <1>1, <1>2, <1>3, <1>4, <1>5, <1>6 DEF Req!Run
<1> QED
  BY <1>7 DEF Req!Busy

LEMMA RunIsAlone ==
  ASSUME NEW r \in Requests, Req!Run(r)
  PROVE  IF Req!Ends(r) THEN alone'.r = Nobody ELSE UNCHANGED alone
<1>1. Req!Ends(r) => alone'.r = Nobody
  BY DEF Req!Ends
<1>2. Req!Run(r) => Req!Ends(r) \/ UNCHANGED alone
  BY Zenon DEF Req!Run, Req!Others, Req!Withdraw, Req!addToBalance, Req!addToTotalBalance,
     Req!NewTransaction, Req!StoreNew, Req!AddKey, Req!OpenAccount, Req!RemoveFromBooks,
     Req!CollectAccounts, Req!ShowAccount
<1> QED
  BY <1>1, <1>2

LEMMA ObjectsKnown ==
  ASSUME ReqTypes, NEW r \in Requests, Unnamed(req[r])
  PROVE  /\ req[r].legs[1].obj \in 1 .. Len(objects) /\ Len(objects) \in Nat
         /\ \A a \in Accounts : accounts[a] \in 0 .. Len(objects)
<1>1. req[r].pc \in OnObject
  BY DEF Unnamed
<1>2. ObjectsTyped(objects) /\ ReqTyped(req[r], objects, number)
  BY DEF ReqTypes, BooksTyped
<1> QED
  BY <1>1, <1>2, OnItsObject DEF ReqTypes, BooksTyped

LEMMA CreatesOwned ==
  ASSUME ReqTypes, Owned, NEW r \in Requests, ActsOf(r), Creates(View, View', req[r], req'[r])
  PROVE  Owned'
<1> PICK m, q, p : m = Len(objects) /\ q = req[r] /\ p = req'[r]
  OBVIOUS
<1>1. ReqTyped(q, objects, number) /\ ObjectsTyped(objects) /\ q.pc = "create"
  BY DEF ReqTypes, BooksTyped, Creates
<1>2. accounts' = accounts /\ p.opens /\ p.legs[1].obj = m + 1
  <2>1. p.legs[1] = [q.legs[1] EXCEPT !.obj = m + 1] /\ p.opens = q.opens
    BY ViewIs DEF Creates
  <2>2. IsLeg(q.legs[1])
    BY <1>1, FirstLegIs
  <2>3. p.legs[1].obj = m + 1
    BY <2>1, <2>2 DEF IsLeg
  <2>4. q.opens
    BY <1>1 DEF Owned, OpensIt
  <2> QED
    BY <2>1, <2>3, <2>4, ViewIs, NextViewIs DEF Creates
<1>3. m \in Nat /\ \A a \in Accounts : accounts[a] \in 0 .. m
  BY LenProperties DEF ReqTypes, BooksTyped, ObjectsTyped
<1>4. \A x \in Requests \ {r} : Unnamed(req'[x]) =>
        /\ Unnamed(req[x]) /\ req'[x].legs[1].obj = req[x].legs[1].obj
        /\ req[x].legs[1].obj \in 1 .. m
  BY ObjectsKnown DEF ActsOf
<1>5. OneOwner'
  BY <1>2 DEF Owned, OneOwner
<1>6. \A x \in Requests : Unnamed(req'[x]) =>
        \A a \in Accounts : accounts'[a] # req'[x].legs[1].obj
  <2>1. \A a \in Accounts : accounts'[a] # p.legs[1].obj
    BY <1>2, <1>3
  <2>2. \A x \in Requests \ {r} : Unnamed(req'[x]) =>
          \A a \in Accounts : accounts'[a] # req'[x].legs[1].obj
    BY <1>2, <1>4 DEF Owned
  <2> QED
    BY <2>1, <2>2
<1>7. \A x, y \in Requests : Unnamed(req'[x]) /\ Unnamed(req'[y]) /\ x # y =>
        req'[y].legs[1].obj # req'[x].legs[1].obj
  <2>1. \A x \in Requests \ {r} : Unnamed(req'[x]) =>
          req'[x].legs[1].obj # p.legs[1].obj
    BY <1>2, <1>3, <1>4
  <2>2. \A x, y \in Requests \ {r} : Unnamed(req'[x]) /\ Unnamed(req'[y]) /\ x # y =>
          req'[y].legs[1].obj # req'[x].legs[1].obj
    BY <1>4 DEF Owned
  <2> QED
    BY <2>1, <2>2
<1>8. \A x \in Requests : OpensIt(req'[x])
  BY <1>2 DEF ActsOf, Owned, OpensIt
<1> QED
  BY <1>5, <1>6, <1>7, <1>8 DEF Owned

LEMMA MapsOwned ==
  ASSUME ReqTypes, Owned, NEW r \in Requests, ActsOf(r), KeepsObject(req[r], req'[r]),
         Maps(View, View', req[r], req'[r])
  PROVE  Owned'
<1> PICK o, c, q, p : o = req[r].legs[1].obj /\ c = req[r].name /\ q = req[r] /\ p = req'[r]
  OBVIOUS
<1>1. /\ accounts' = [accounts EXCEPT ![c] = o] /\ q.pc = "map" /\ p.pc = "total"
  BY ViewIs, NextViewIs DEF Maps
<1>2. DOMAIN accounts = Accounts
  BY DEF ReqTypes, BooksTyped
<1>3. Unnamed(q) /\ ~Unnamed(p)
  BY <1>1 DEF Owned, OpensIt, Unnamed, OnObject, UntilTotal, UntilBalance
<1>4. \A a \in Accounts : accounts[a] # o
  BY <1>3 DEF Owned
<1>5. OneOwner'
  BY <1>1, <1>2, <1>4 DEF Owned, OneOwner
<1>6. \A x \in Requests \ {r} : Unnamed(req[x]) => req[x].legs[1].obj # o
  BY <1>3 DEF Owned
<1>7. \A x \in Requests : Unnamed(req'[x]) =>
        \A a \in Accounts : accounts'[a] = accounts[a] \/ accounts'[a] # req'[x].legs[1].obj
  BY <1>1, <1>2, <1>3, <1>6 DEF ActsOf
<1> QED
  BY <1>5, <1>7, OwnedStays DEF KeepsObject

LEMMA UnmapsOwned ==
  ASSUME ReqTypes, Owned, NEW r \in Requests, ActsOf(r), KeepsObject(req[r], req'[r]),
         Unmaps(View, View', req[r], req'[r])
  PROVE  Owned'
<1> PICK c : c = req[r].name
  OBVIOUS
<1>1. accounts' = [accounts EXCEPT ![c] = 0]
  BY ViewIs, NextViewIs DEF Unmaps
<1>2. DOMAIN accounts = Accounts
  BY DEF ReqTypes, BooksTyped
<1>3. OneOwner'
  BY <1>1, <1>2 DEF Owned, OneOwner
<1>4. \A x \in Requests : Unnamed(req'[x]) => req'[x].legs[1].obj # 0
  <2>1. \A x \in Requests : Unnamed(req[x]) => req[x].legs[1].obj # 0
    BY ObjectsKnown
  <2> QED
    BY <2>1 DEF ActsOf, KeepsObject
<1>5. \A x \in Requests : Unnamed(req'[x]) =>
        \A a \in Accounts : accounts'[a] = accounts[a] \/ accounts'[a] # req'[x].legs[1].obj
  BY <1>1, <1>2, <1>4
<1> QED
  BY <1>3, <1>5, OwnedStays DEF KeepsObject

LEMMA RunOwned ==
  ASSUME ReqTypes, Owned, NEW r \in Requests, Req!Run(r)
  PROVE  Owned'
<1>1. ActsOf(r)
  BY OnlyOneMoves
<1>2. CASE Req!Ends(r) \/ Fails(r)
  <2>1. req'[r].pc \in {"idle", "failed"} /\ UNCHANGED accounts
    <3>1. Req!Ends(r) => req'[r] = Req!Waiting /\ UNCHANGED accounts
      BY DEF Req!Ends, ReqTypes, Req!books
    <3>2. Req!Waiting.pc = "idle"
      BY WaitingTyped
    <3> QED
      BY <1>2, <3>1, <3>2 DEF Fails
  <2>2. OpensIt(req'[r]) /\ ~Unnamed(req'[r])
    BY <2>1 DEF OpensIt, Unnamed, OnObject
  <2> QED
    BY <1>1, <2>1, <2>2, OwnedAside
<1>3. CASE Acts(View, View', req[r], req'[r])
  <2>1. OpensIt(req[r])
    BY DEF Owned
  <2>2. \/ KeepsObject(req[r], req'[r]) /\ (View').accounts = View.accounts
        \/ Creates(View, View', req[r], req'[r])
        \/ /\ KeepsObject(req[r], req'[r])
           /\ Maps(View, View', req[r], req'[r]) \/ Unmaps(View, View', req[r], req'[r])
    BY <1>3, <2>1, ActsKeep
  <2>3. CASE KeepsObject(req[r], req'[r]) /\ (View').accounts = View.accounts
    <3>1. UNCHANGED accounts
      BY <2>3, ViewIs, NextViewIs
    <3> QED
      BY <1>1, <2>3, <3>1, OwnedAside DEF KeepsObject
  <2> QED
    BY <1>1, <2>2, <2>3, CreatesOwned, MapsOwned, UnmapsOwned
<1> QED
  BY <1>2, <1>3, RunActs

-----------------------------------------------------------------------------
(* The invariant: while a request meets no other, it is doing it.          *)
LEMMA StartIsAlone ==
  ASSUME ReqTypes, Owned, NEW r \in Requests, Req!Start(r)
  PROVE  Owned' /\ Lonely'
<1> PICK q, result : Req!Asks(r, q, result) /\ WillDo(q, result)
  BY StartDoes DEF ReqTypes, Owned
<1>1. /\ req' = [req EXCEPT ![r] = q] /\ UNCHANGED Req!books /\ DOMAIN req = Requests
      /\ alone' = IF Req!Busy = {} THEN [r |-> r, result |-> result, before |-> Req!Ledger]
                                   ELSE [r |-> Nobody]
  BY DEF Req!Asks, Req!Starts, ReqTypes
<1>2. req'[r] = q /\ ActsOf(r)
  BY <1>1 DEF ActsOf
<1>3. ~Unnamed(q) /\ OpensIt(q)
  BY DEF WillDo
<1>4. Owned'
  <2>1. UNCHANGED accounts
    BY <1>1 DEF Req!books
  <2> QED
    BY <1>2, <1>3, <2>1, OwnedAside
<1>5. CASE Req!Busy # {}
  BY <1>1, <1>4, <1>5 DEF Lonely
<1>6. CASE Req!Busy = {}
  <2>1. alone'.r = r /\ alone'.result = result /\ alone'.before = Req!Ledger
    BY <1>1, <1>6
  <2>2. Req!Busy' \subseteq {r}
    BY <1>2, <1>6 DEF Req!Busy, ActsOf
  <2>3. View' = View
    BY <1>1, BooksStay
  <2>4. Req!HeldExactly(alone'.before) /\ Req!HeldExactly(alone'.result)
          => Doing(View', req'[r], alone'.result)
    BY <1>2, <2>1, <2>3 DEF WillDo
  <2> QED
    BY <1>4, <2>1, <2>2, <2>4 DEF Lonely, Req!HeldExactly
<1> QED
  BY <1>5, <1>6

LEMMA RunLonely ==
  ASSUME ReqTypes, ReqTypes', Lonely, NEW r \in Requests, Req!Run(r)
  PROVE  Lonely'
<1>1. r \in Req!Busy /\ ActsOf(r)
  BY RunsWhenBusy, OnlyOneMoves
<1>2. CASE Req!Ends(r)
  BY <1>2, RunIsAlone DEF Lonely
<1>3. CASE ~Req!Ends(r)
  <2> SUFFICES ASSUME alone'.r # Nobody
               PROVE  Lonely'
    BY DEF Lonely
  <2>1. alone' = alone /\ alone.r = r /\ Req!Busy \subseteq {r}
    BY <1>1, <1>3, RunIsAlone DEF Lonely
  <2>2. Req!Busy' \subseteq {r}
    BY <1>1, <2>1 DEF Req!Busy, ActsOf
  <2> PICK w, v, q, p, result : /\ w = View /\ v = View' /\ q = req[r] /\ p = req'[r]
                                /\ result = alone.result
    OBVIOUS
  <2>3. ASSUME r \in Req!Busy', Req!HeldExactly(alone.before), Req!HeldExactly(result)
        PROVE  Doing(v, p, result)
    <3>1. Doing(w, q, result)
      BY <1>1, <2>1, <2>3 DEF Lonely
    <3>2. p.pc # "failed"
      BY <2>3 DEF Req!Busy
    <3>3. Acts(w, v, q, p)
      BY <1>3, <3>2, RunActs DEF Fails
    <3>4. ViewTyped(w) /\ ViewTyped(v)
      BY ViewIsTyped DEF ReqTypes
    <3>5. ReqTyped(q, w.objects, w.number)
      BY ViewIs DEF ReqTypes
    <3> QED
      BY <2>3, <3>1, <3>3, <3>4, <3>5, ActsDoing
  <2> QED
    BY <2>1, <2>2, <2>3 DEF Lonely, Req!HeldExactly
<1> QED
  BY <1>2, <1>3

LEMMA LonelyStep ==
  ASSUME ReqTypes, ReqTypes', Owned, Lonely, Req!Next \/ UNCHANGED requestVars
  PROVE  Owned' /\ Lonely'
<1>1. CASE Req!Next
  BY <1>1, StartIsAlone, RunOwned, RunLonely DEF Req!Next
<1>2. CASE UNCHANGED requestVars
  <2>1. UNCHANGED <<accounts, req>>
    BY <1>2 DEF requestVars
  <2>2. Owned'
    BY <2>1 DEF Owned, OneOwner
  <2>3. View' = View /\ UNCHANGED <<alone, req>>
    BY <1>2 DEF requestVars, View
  <2>4. Lonely'
    BY <2>3 DEF Lonely, Req!Busy, Req!HeldExactly
  <2> QED
    BY <2>2, <2>4
<1> QED
  BY <1>1, <1>2

LEMMA LonelyInit ==
  ASSUME Req!Init
  PROVE  Owned /\ Lonely
<1>1. PICK first \in FirstBooks : Req!Begins(first)
  BY DEF Req!Init
<1> PICK s, names : s = first.lists[Req!Kind] /\ names = Req!Names(first)
  OBVIOUS
<1> DEFINE Number(a) == IF a \in names THEN CHOOSE i \in DOMAIN objects : s[i] = a ELSE 0
<1>2. DOMAIN objects = DOMAIN s /\ accounts = [a \in Accounts |-> Number(a)]
  <2>1. DOMAIN objects = DOMAIN s
    BY <1>1, Zenon DEF Req!Begins
  <2>2. accounts = [a \in Accounts |-> Number(a)]
    <3>1. accounts = [a \in Accounts |-> IF a \in Req!Names(first)
            THEN CHOOSE i \in DOMAIN objects : first.lists[Req!Kind][i] = a ELSE 0]
      BY <1>1, Zenon DEF Req!Begins
    <3> QED
      BY <3>1
  <2> QED
    BY <2>1, <2>2, Zenon
<1>3. names \subseteq ToSet(s)
  BY FirstUserIs DEF Req!Names
<1>4. \A a \in Accounts : accounts[a] # 0 => s[accounts[a]] = a
  <2> TAKE a \in Accounts
  <2>1. a \in names => \E i \in DOMAIN objects : s[i] = a
    BY <1>2, <1>3 DEF ToSet
  <2>2. a \in names => s[CHOOSE i \in DOMAIN objects : s[i] = a] = a
    BY <2>1
  <2> QED
    BY <1>2, <2>2
<1>5. OneOwner
  BY <1>4 DEF OneOwner
<1>6. \A r \in Requests : ~Unnamed(req[r]) /\ OpensIt(req[r])
  <2>1. \A r \in Requests : req[r].pc = "idle"
    BY WaitingTyped DEF Req!Init
  <2> QED
    BY <2>1 DEF Unnamed, OpensIt, OnObject
<1>7. alone.r = Nobody
  BY DEF Req!Init
<1> QED
  BY <1>5, <1>6, <1>7 DEF Owned, Lonely

LEMMA LonelyGives ==
  ASSUME Lonely
  PROVE  Req!AloneIsLedger
<1> SUFFICES ASSUME NEW r \in Requests, alone.r = r, Req!At(r, "ends"),
                    Req!HeldExactly(alone.before), Req!HeldExactly(alone.result)
             PROVE  Req!Ledger = alone.result
  BY DEF Req!AloneIsLedger
<1>1. r # Nobody /\ r \in Req!Busy /\ req[r].pc = "ends"
  BY RequestsAssumption DEF Req!RequestsAssumption, Req!At, Req!Busy
<1>2. Doing(View, req[r], alone.result)
  BY <1>1 DEF Lonely
<1> QED
  BY <1>1, <1>2, DoingBy, LedgerIs

(* A request of a session that meets no other leaves the ledger that       *)
(* BankLedger says its whole method leaves, from whatever ledger it began  *)
(* with, as long as the amounts are well among those that a float holds    *)
(* exactly (User, BankAccount): step by step is as good as at once.        *)
THEOREM AloneDoesAsLedger == BankSpec => []AloneIsLedger
<1> DEFINE Inv == ReqTypes /\ Owned /\ Lonely
<1>1. Req!Init => Inv
  BY ReqTypesInit, LonelyInit
<1>2. Inv /\ [Req!Next]_(Req!vars) => Inv'
  <2>1. UNCHANGED Req!vars => UNCHANGED requestVars
    BY DEF Req!vars, Req!books, requestVars
  <2>2. Inv /\ [Req!Next]_(Req!vars) => ReqTypes'
    BY <2>1, ReqTypesStep
  <2>3. Inv /\ ReqTypes' /\ [Req!Next]_(Req!vars) => Owned' /\ Lonely'
    BY <2>1, LonelyStep
  <2> QED
    BY <2>2, <2>3
<1>3. Inv => AloneIsLedger
  BY LonelyGives DEF AloneIsLedger
<1> HIDE DEF Inv
<1> QED
  BY <1>1, <1>2, <1>3, BankParts, PTL DEF Req!Spec
=============================================================================
